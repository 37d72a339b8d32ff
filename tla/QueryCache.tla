----------------------------- MODULE QueryCache -----------------------------
(***************************************************************************)
(* The result cache of src/query_result.c: entries found by the hash of    *)
(* the query text, a TTL, invalidation by table name, eviction of the      *)
(* oldest entry while the new result does not fit.  The cache lock is held *)
(* from the start to the end of a put, so a put whose eviction loop never  *)
(* ends stops every other caller.                                          *)
(***************************************************************************)
EXTENDS Integers, Sequences, FiniteSets, SequencesExt, Functions

CONSTANTS Query, HashOf, TablesOf,  \* hash and table names of a query text
          Table, ResultSize,        \* sizes a result set may have
          RESULT_CACHE_SIZE, MaxMemory, Width, \* capacity, max_memory, size_t modulus
          RESULT_CACHE_TTL, MaxTime

VARIABLES entries, total_memory, time,
          adding,      \* the put in progress (holder of g_cache_lock), or Nothing
          latest,      \* ghost: hash -> the last result put for it
          stale,       \* ghost: hashes whose table changed after the entry was made
          drift        \* ghost: size changes of replaced results

qcvars == <<entries, total_memory, time, adding, latest, stale, drift>>

ASSUME CacheAssumption ==
  /\ HashOf = [q \in Query |-> HashOf[q]]
  /\ RESULT_CACHE_SIZE \in Nat /\ Width \in Nat \ {0} /\ ResultSize \subseteq Nat

NoResult == [id |-> 0, memory_used |-> 0]
Nothing == [query |-> 0, result |-> NoResult]
Result == {[id |-> i, memory_used |-> m] : i \in 1 .. 2, m \in ResultSize}

query_cache_init ==
  /\ entries = <<>> /\ total_memory = 0 /\ time = 0 /\ adding = Nothing
  /\ latest = [h \in Range(HashOf) |-> NoResult] /\ stale = {} /\ drift = 0

Find(h) == LET m == {i \in DOMAIN entries : entries[i].hash = h}
           IN  IF m = {} THEN 0 ELSE CHOOSE i \in m : \A j \in m : i <= j
Unlocked == adding = Nothing

\* An entry of that hash takes the new result and a new time; its size is not
\* accounted and an invalid entry stays invalid.
PutExisting(q, r) ==
  LET i == Find(HashOf[q])
  IN  /\ Unlocked /\ i # 0
      /\ entries' = [entries EXCEPT ![i] =
                       [entries[i] EXCEPT !.result = r, !.created_at = time]]
      /\ latest' = [latest EXCEPT ![HashOf[q]] = r]
      /\ drift' = (drift + r.memory_used - entries[i].result.memory_used) % Width
      /\ UNCHANGED <<total_memory, time, adding, stale>>

PutNew(q, r) ==
  /\ Unlocked /\ Find(HashOf[q]) = 0
  /\ adding' = [query |-> q, result |-> r]
  /\ UNCHANGED <<entries, total_memory, time, latest, stale, drift>>

NoRoom == \/ Len(entries) >= RESULT_CACHE_SIZE
          \/ (total_memory + adding.result.memory_used) % Width > MaxMemory
Oldest == CHOOSE i \in DOMAIN entries :
            \A j \in DOMAIN entries : \/ entries[i].created_at < entries[j].created_at
                                      \/ entries[i].created_at = entries[j].created_at /\ i <= j

\* One turn of the loop of query_cache_put; with no entry left it changes nothing.
evict_oldest_entry ==
  /\ ~ Unlocked /\ NoRoom /\ entries # <<>>
  /\ total_memory' = (total_memory - entries[Oldest].result.memory_used) % Width
  /\ entries' = RemoveAt(entries, Oldest)
  /\ stale' = stale \ {entries[Oldest].hash}
  /\ UNCHANGED <<time, adding, latest, drift>>

Entry(q, r) == [hash |-> HashOf[q], text |-> q, result |-> r, created_at |-> time, valid |-> TRUE]
query_cache_put ==
  /\ ~ Unlocked /\ ~ NoRoom
  /\ entries' = Append(entries, Entry(adding.query, adding.result))
  /\ total_memory' = (total_memory + adding.result.memory_used) % Width
  /\ latest' = [latest EXCEPT ![HashOf[adding.query]] = adding.result]
  /\ stale' = stale \ {HashOf[adding.query]}
  /\ adding' = Nothing
  /\ UNCHANGED <<time, drift>>

\* What a get answers: NoResult when there is no entry, or it is too old or
\* invalid.  An entry found too old becomes invalid.
TooOld(e) == time - e.created_at > RESULT_CACHE_TTL
Answer(q) == LET i == Find(HashOf[q])
             IN  IF i = 0 THEN NoResult
                 ELSE IF TooOld(entries[i]) \/ ~ entries[i].valid THEN NoResult ELSE entries[i].result
query_cache_get(q) ==
  LET i == Find(HashOf[q])
  IN  /\ Unlocked /\ i # 0 /\ TooOld(entries[i])
      /\ entries' = [entries EXCEPT ![i] = [entries[i] EXCEPT !.valid = FALSE]]
      /\ UNCHANGED <<total_memory, time, adding, latest, stale, drift>>

(* Mutant: the first entry is never invalidated. *)
InvalidateRest(t) ==
  /\ Unlocked
  /\ entries' = [i \in DOMAIN entries |->
                   IF i > 1 /\ t \in TablesOf[entries[i].text] THEN [entries[i] EXCEPT !.valid = FALSE]
                   ELSE entries[i]]
  /\ stale' = stale \cup {HashOf[q] : q \in {p \in Query : t \in TablesOf[p]}}
  /\ UNCHANGED <<total_memory, time, adding, latest, drift>>

query_cache_invalidate(t) ==
  /\ Unlocked
  /\ entries' = [i \in DOMAIN entries |->
                   IF t \in TablesOf[entries[i].text] THEN [entries[i] EXCEPT !.valid = FALSE]
                   ELSE entries[i]]
  /\ stale' = stale \cup {HashOf[q] : q \in {p \in Query : t \in TablesOf[p]}}
  /\ UNCHANGED <<total_memory, time, adding, latest, drift>>

query_cache_clear ==
  /\ Unlocked
  /\ entries' = <<>> /\ total_memory' = 0 /\ stale' = {} /\ drift' = 0
  /\ UNCHANGED <<time, adding, latest>>

QueryCacheNext ==
  \/ \E q \in Query : \/ \E r \in Result : PutExisting(q, r) \/ PutNew(q, r)
                      \/ query_cache_get(q)
  \/ evict_oldest_entry \/ query_cache_put
  \/ \E t \in Table : query_cache_invalidate(t)
  \/ query_cache_clear
  \/ time < MaxTime /\ time' = time + 1
     /\ UNCHANGED <<entries, total_memory, adding, latest, stale, drift>>

-----------------------------------------------------------------------------

\* Entries are found by hash alone, and a table's name is looked for in the text
\* of the entry's first query: do all queries of the hash name the same tables?
SameTables(h) ==
  \A p, q \in Query : HashOf[p] = h /\ HashOf[q] = h => TablesOf[p] = TablesOf[q]

\* The sizes of the results the entries hold.
MemoryUsed(es) == [i \in DOMAIN es |-> es[i].result.memory_used]

(* query_cache_put and evict_oldest_entry: total_memory differs from what the
   entries hold by exactly the size changes of replaced results. *)
CacheMemoryCounted == total_memory = (SumFunction(MemoryUsed(entries)) - drift) % Width

(* A get of the result cache answers the last result put under the query's
   hash, never one from before an invalidation of a table the query names
   unless queries that name other tables share its hash; a hash has one entry,
   the entries fit the array, and their memory is counted. *)
CacheServesLastPut ==
  /\ Len(entries) <= RESULT_CACHE_SIZE
  /\ \A i, j \in DOMAIN entries : entries[i].hash = entries[j].hash => i = j
  /\ \A q \in Query : Answer(q) # NoResult =>
       Answer(q) = latest[HashOf[q]] /\ (SameTables(HashOf[q]) => HashOf[q] \notin stale)
  /\ CacheMemoryCounted
=============================================================================
