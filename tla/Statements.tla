----------------------------- MODULE Statements -----------------------------
(***************************************************************************)
(* Prepared statements, src/prepared.c: the statement store of every       *)
(* connection, driven by PREPARE, EXECUTE and DEALLOCATE of src/server.c,  *)
(* and the process-wide statement cache.  A query text is a sequence of    *)
(* characters: "a" stands for every ordinary one.                          *)
(***************************************************************************)
EXTENDS Integers, Sequences, FiniteSets, SequencesExt, Functions

CONSTANTS StmtConn, StmtName, Template,  \* query texts with placeholders
          ParamValue, MAX_PARAMETERS, MAX_PREPARED_STMTS,
          CacheKey, STMT_CACHE_SIZE, IndexOf, SizeOfKey

VARIABLES store,      \* SessionStatementStore of every connection
          executed,   \* the query text the last EXECUTE of a connection ran
          cache,      \* g_stmt_cache: place -> key held, or NoKey
          cache_count, cache_memory,
          prepared    \* ghost: what every name means on every connection

stvars == <<store, executed, cache, cache_count, cache_memory, prepared>>

ASSUME StatementsAssumption ==
  /\ Template \subseteq Seq(STRING) /\ ParamValue \subseteq Seq(STRING)
  /\ <<"none">> \notin Template /\ "none" \notin CacheKey
  /\ MAX_PARAMETERS \in Nat /\ MAX_PREPARED_STMTS \in Nat /\ STMT_CACHE_SIZE \in Nat
  /\ IndexOf \in [CacheKey -> 0 .. STMT_CACHE_SIZE - 1] /\ SizeOfKey \in [CacheKey -> Nat]

NoKey == "none"
NotPrepared == <<"none">>
Quotes == {"'", "\""}

\* The quote that is open after the first i characters of q, "" if none.
OpenQuote(q) ==
  LET open[i \in 0 .. Len(q)] ==
        IF i = 0 THEN ""
        ELSE IF q[i] \in Quotes /\ (i = 1 \/ q[i - 1] # "\\")
             THEN IF open[i - 1] = "" THEN q[i] ELSE IF open[i - 1] = q[i] THEN "" ELSE open[i - 1]
             ELSE open[i - 1]
  IN  open

(* Mutant: a ? inside a string literal counts as a parameter. *)
FindEveryMark(q) ==
  LET all == SelectSeq([i \in DOMAIN q |-> i], LAMBDA i : q[i] = "?")
  IN  SubSeq(all, 1, IF Len(all) < MAX_PARAMETERS THEN Len(all) ELSE MAX_PARAMETERS)

\* Places of the ? outside string literals, the first MAX_PARAMETERS of them.
find_parameters(q) ==
  LET quote == OpenQuote(q)
      found[i \in 0 .. Len(q)] ==
        IF i = 0 THEN <<>>
        ELSE IF q[i] = "?" /\ quote[i] = "" /\ Len(found[i - 1]) < MAX_PARAMETERS
             THEN Append(found[i - 1], i) ELSE found[i - 1]
  IN  found[Len(q)]

\* The loop of substitute_parameters: src_pos walks the template, the next
\* position still to be replaced is compared with it.
substitute_parameters(t, pos, params) ==
  LET out[i \in 0 .. Len(t)] ==
        IF i = 0 THEN [text |-> <<>>, idx |-> 1]
        ELSE IF out[i - 1].idx <= Len(pos) /\ pos[out[i - 1].idx] = i
             THEN [text |-> out[i - 1].text \o params[out[i - 1].idx], idx |-> out[i - 1].idx + 1]
             ELSE [text |-> Append(out[i - 1].text, t[i]), idx |-> out[i - 1].idx]
  IN  out[Len(t)].text

-----------------------------------------------------------------------------

prepared_init ==
  /\ store = [c \in StmtConn |-> <<>>]
  /\ executed = [c \in StmtConn |-> <<>>]
  /\ cache = [i \in 0 .. STMT_CACHE_SIZE - 1 |-> NoKey] /\ cache_count = 0 /\ cache_memory = 0
  /\ prepared = [c \in StmtConn |-> [n \in StmtName |-> NotPrepared]]

stmt_find(c, n) == LET m == {i \in DOMAIN store[c] : store[c][i].name = n}
                   IN  IF m = {} THEN 0 ELSE CHOOSE i \in m : \A j \in m : i <= j
CacheSame == UNCHANGED <<cache, cache_count, cache_memory>>

stmt_prepare(c, n, t) ==
  /\ stmt_find(c, n) = 0 /\ Len(store[c]) < MAX_PREPARED_STMTS
  /\ store' = [store EXCEPT ![c] = Append(@, [name |-> n, template |-> t,
                                              positions |-> find_parameters(t)])]
  /\ prepared' = [prepared EXCEPT ![c][n] = t]
  /\ UNCHANGED executed /\ CacheSame

\* The count must match; the result is the text execute_client_query runs.
stmt_execute(c, n, params) ==
  LET s == store[c][stmt_find(c, n)]
  IN  /\ stmt_find(c, n) # 0 /\ Len(params) = Len(s.positions)
      /\ executed' = [executed EXCEPT ![c] = substitute_parameters(s.template, s.positions, params)]
      /\ UNCHANGED <<store, prepared>> /\ CacheSame

stmt_deallocate(c, n) ==
  /\ stmt_find(c, n) # 0
  /\ store' = [store EXCEPT ![c] = RemoveAt(@, stmt_find(c, n))]
  /\ prepared' = [prepared EXCEPT ![c][n] = NotPrepared]
  /\ UNCHANGED executed /\ CacheSame

\* DEALLOCATE ALL, and the store that goes with a connection.
stmt_deallocate_all(c) ==
  /\ store' = [store EXCEPT ![c] = <<>>]
  /\ prepared' = [prepared EXCEPT ![c] = [n \in StmtName |-> NotPrepared]]
  /\ executed' = [executed EXCEPT ![c] = <<>>] /\ CacheSame

\* The cache is direct mapped: a put replaces what the place holds.
cache_get(k) == cache[IndexOf[k]] = k
Held(k) == IF k = NoKey THEN 0 ELSE SizeOfKey[k]
cache_put(k) ==
  LET old == cache[IndexOf[k]]
  IN  /\ cache' = [cache EXCEPT ![IndexOf[k]] = k]
      /\ cache_count' = cache_count + 1 - (IF old = NoKey THEN 0 ELSE 1)
      /\ cache_memory' = cache_memory + Held(k) - Held(old)
      /\ UNCHANGED <<store, executed, prepared>>

\* The entries whose normalised text contains the table name, here a set of keys.
cache_invalidate(K) ==
  LET hit == {i \in DOMAIN cache : cache[i] \in K}
  IN  /\ cache' = [i \in DOMAIN cache |-> IF i \in hit THEN NoKey ELSE cache[i]]
      /\ cache_count' = cache_count - Cardinality(hit)
      /\ cache_memory' = cache_memory - SumFunctionOnSet([i \in DOMAIN cache |-> Held(cache[i])], hit)
      /\ UNCHANGED <<store, executed, prepared>>

Params == UNION {[1 .. n -> ParamValue] : n \in 0 .. MAX_PARAMETERS}

StatementsNext ==
  \/ \E c \in StmtConn, n \in StmtName : \/ \E t \in Template : stmt_prepare(c, n, t)
                                     \/ \E p \in Params : stmt_execute(c, n, p)
                                     \/ stmt_deallocate(c, n)
  \/ \E c \in StmtConn : stmt_deallocate_all(c)
  \/ \E k \in CacheKey : ~ cache_get(k) /\ cache_put(k)
  \/ \E K \in SUBSET CacheKey : cache_invalidate(K)

-----------------------------------------------------------------------------

\* The same text with nothing but its placeholders replaced, computed from
\* the number of placeholders before a position; those beyond MAX_PARAMETERS stay.
Placeholders(t) == {i \in DOMAIN t : t[i] = "?" /\ OpenQuote(t)[i] = ""}
Rank(t, i) == Cardinality({j \in Placeholders(t) : j <= i})
Replacement(t, params, i) ==
  IF i \in Placeholders(t) /\ Rank(t, i) <= MAX_PARAMETERS THEN params[Rank(t, i)] ELSE <<t[i]>>
Bound(t, params) == FlattenSeq([i \in DOMAIN t |-> Replacement(t, params, i)])

(* PREPARE, EXECUTE, DEALLOCATE: a name executes the template last prepared
   under it on that connection and not deallocated since, with exactly its
   placeholders replaced in order, whatever was deallocated in between; the
   statement cache's counters describe its places. *)
StatementsFaithful ==
  /\ \A c \in StmtConn, n \in StmtName :
       LET i == stmt_find(c, n)
       IN  /\ (i = 0) = (prepared[c][n] = NotPrepared)
           /\ i # 0 => /\ store[c][i].template = prepared[c][n]
                       /\ \A p \in [1 .. Len(store[c][i].positions) -> ParamValue] :
                            substitute_parameters(store[c][i].template, store[c][i].positions, p)
                              = Bound(prepared[c][n], p)
  /\ \A c \in StmtConn : Len(store[c]) <= MAX_PREPARED_STMTS
  /\ cache_count = Cardinality({i \in DOMAIN cache : cache[i] # NoKey})
  /\ cache_memory = SumFunction([i \in DOMAIN cache |-> Held(cache[i])])
  /\ \A k \in CacheKey, i \in DOMAIN cache : cache[i] = k => i = IndexOf[k]
=============================================================================
