---------------------------- MODULE IndexManager ----------------------------
(***************************************************************************)
(* The index manager of src/index.c: an array of definitions under one     *)
(* mutex, used by several threads.  A step is one critical section:        *)
(* index_create looks first and appends later, index_drop_all finds a name *)
(* and drops it later, and whoever looked an index up keeps a bare pointer.*)
(* A definition is known by its address, and a freed address is handed out *)
(* again.  B+ tree pages are placeholders in the code: an index is its     *)
(* definition and its statistics.                                          *)
(***************************************************************************)
EXTENDS Integers, Sequences, SequencesExt

CONSTANTS IxThread, IxTable, IxName, IxAddr, NoIx,
          MaxEntries   \* bound on stats.total_entries

VARIABLES indexes,   \* g_index_manager->indexes
          def,       \* address -> IndexDef, or NoIx when free
          ixpc,      \* thread -> what it does next
          ptr,       \* thread -> pointer index_get returned, or NoIx
          seen       \* ghost: address -> addresses its creator's check saw

ivars == <<indexes, def, ixpc, ptr, seen>>

Entries == 0 .. MaxEntries
IndexDef == [table : IxTable, name : IxName, entries : Entries]
\* NULL is no definition and no address.
ASSUME IndexAssumption ==
  NoIx \notin IndexDef /\ NoIx \notin IxAddr /\ MaxEntries \in Nat

Idle == [op |-> "idle"]

index_manager_init ==
  /\ indexes = <<>>
  /\ def = [a \in IxAddr |-> NoIx]
  /\ ixpc = [t \in IxThread |-> Idle]
  /\ ptr = [t \in IxThread |-> NoIx]
  /\ seen = [a \in IxAddr |-> {}]

InTable(tb) == {a \in ToSet(indexes) : def[a].table = tb}
Named(tb, n) == {a \in InTable(tb) : def[a].name = n}
\* The first match of a search from the start of the array.
FirstAt(S) == CHOOSE i \in DOMAIN indexes :
                indexes[i] \in S /\ \A j \in 1 .. i - 1 : indexes[j] \notin S
First(S) == indexes[FirstAt(S)]

-----------------------------------------------------------------------------

(* Mutant: a name that is taken is not refused. *)
index_create_unchecked(t, tb, n) ==
  /\ ixpc[t] = Idle
  /\ ixpc' = [ixpc EXCEPT ![t] = [op |-> "create", table |-> tb, name |-> n, saw |-> ToSet(indexes)]]
  /\ UNCHANGED <<indexes, def, ptr, seen>>

\* The check of index_create, under the lock and then out of it.
index_create_check(t, tb, n) ==
  /\ ixpc[t] = Idle /\ Named(tb, n) = {}
  /\ ixpc' = [ixpc EXCEPT ![t] = [op |-> "create", table |-> tb, name |-> n, saw |-> ToSet(indexes)]]
  /\ UNCHANGED <<indexes, def, ptr, seen>>

index_create(t) ==
  /\ ixpc[t].op = "create"
  /\ \E a \in IxAddr :
       /\ def[a] = NoIx
       /\ def' = [def EXCEPT ![a] = [table |-> ixpc[t].table, name |-> ixpc[t].name, entries |-> 0]]
       /\ indexes' = Append(indexes, a)
       /\ seen' = [seen EXCEPT ![a] = ixpc[t].saw]
  /\ ixpc' = [ixpc EXCEPT ![t] = Idle]
  /\ UNCHANGED ptr

\* Free the definition at i and move up the rest.  The address is forgotten
\* everywhere but in pointers.
Drop(i) ==
  LET a == indexes[i]
  IN  /\ indexes' = RemoveAt(indexes, i)
      /\ def' = [def EXCEPT ![a] = NoIx]
      /\ seen' = [b \in IxAddr |-> IF b = a THEN {} ELSE seen[b] \ {a}]

index_drop(t, tb, n) ==
  /\ ixpc[t] = Idle /\ Named(tb, n) # {}
  /\ Drop(FirstAt(Named(tb, n)))
  /\ ixpc' = [u \in IxThread |-> IF ixpc[u].op = "create"
                THEN [ixpc[u] EXCEPT !.saw = @ \ {First(Named(tb, n))}] ELSE ixpc[u]]
  /\ UNCHANGED ptr

\* index_drop_all: find a name under the lock, drop that name under another
\* hold of it, until none is found.
DropAllFind(t, tb) ==
  /\ ixpc[t] = Idle \/ (ixpc[t].op = "all" /\ ixpc[t].table = tb)
  /\ IF InTable(tb) = {}
     THEN ixpc' = [ixpc EXCEPT ![t] = Idle]
     ELSE ixpc' = [ixpc EXCEPT ![t] = [op |-> "dropone", table |-> tb, name |-> def[First(InTable(tb))].name]]
  /\ UNCHANGED <<indexes, def, ptr, seen>>

DropAllDrop(t) ==
  /\ ixpc[t].op = "dropone"
  /\ LET S == Named(ixpc[t].table, ixpc[t].name)
         next(u) == IF u = t THEN [op |-> "all", table |-> ixpc[t].table] ELSE ixpc[u]
     IN  IF S = {} THEN /\ UNCHANGED <<indexes, def, seen>>
                        /\ ixpc' = [u \in IxThread |-> next(u)]
         ELSE /\ Drop(FirstAt(S))
              /\ ixpc' = [u \in IxThread |-> IF next(u).op = "create"
                            THEN [ixpc[u] EXCEPT !.saw = @ \ {First(S)}] ELSE next(u)]
  /\ UNCHANGED ptr

index_get(t, tb, n) ==
  /\ ixpc[t] = Idle /\ Named(tb, n) # {}
  /\ ptr' = [ptr EXCEPT ![t] = First(Named(tb, n))]
  /\ UNCHANGED <<indexes, def, ixpc, seen>>

\* index_insert, index_delete and index_rebuild through a kept pointer.  When
\* the definition was freed the write goes to whatever is at the address now.
Touch(t, f) ==
  /\ ixpc[t] = Idle /\ ptr[t] # NoIx
  /\ def' = IF def[ptr[t]] = NoIx THEN def ELSE [def EXCEPT ![ptr[t]].entries = f[@]]
  /\ UNCHANGED <<indexes, ixpc, ptr, seen>>
index_btree_insert(t) == Touch(t, [e \in Entries |-> IF e < MaxEntries THEN e + 1 ELSE e])
index_btree_delete(t) == Touch(t, [e \in Entries |-> IF e > 0 THEN e - 1 ELSE e])
index_rebuild(t) == Touch(t, [e \in Entries |-> 0])

IndexNext ==
  \E t \in IxThread :
    \/ \E tb \in IxTable, n \in IxName :
         index_create_check(t, tb, n) \/ index_drop(t, tb, n) \/ index_get(t, tb, n)
    \/ index_create(t)
    \/ \E tb \in IxTable : DropAllFind(t, tb)
    \/ DropAllDrop(t)
    \/ index_btree_insert(t) \/ index_btree_delete(t) \/ index_rebuild(t)

-----------------------------------------------------------------------------

(* The array lists each allocated definition once and no freed one, and two
   indexes of one table have the same name only when their creations raced:
   neither was in the array when the other's creator looked. *)
IndexTableSound ==
  /\ IsInjective(indexes)
  /\ ToSet(indexes) = {a \in IxAddr : def[a] # NoIx}
  /\ \A a, b \in ToSet(indexes) :
       a # b /\ def[a].table = def[b].table /\ def[a].name = def[b].name
       => a \notin seen[b] /\ b \notin seen[a]
=============================================================================
