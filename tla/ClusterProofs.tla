---------------------------- MODULE ClusterProofs ----------------------------
(***************************************************************************)
(* Proofs about Cluster for any number of nodes, terms, log entries and     *)
(* messages.                                                                *)
(*                                                                         *)
(* voted_for is the memory of the present term only: VotesRemembered says   *)
(* that a vote of the present term is the one in voted_for, so a second     *)
(* vote of that term goes to the same candidate.  A vote is counted once,   *)
(* because a request under way has not been answered and the loop asks each *)
(* node once (RequestsOpen, AskedOnce); the count is then at most the       *)
(* number of voters (VotesCounted), a winner has a majority of voters       *)
(* (WinnersElected), and two majorities have a voter in common.             *)
(***************************************************************************)
EXTENDS Cluster, TLAPS, FiniteSetTheorems

Voters(G, n, t) == {v \in Node : <<v, t, n>> \in G}

VotesRemembered ==
  \A v, c \in Node, t \in Term : <<v, t, c>> \in granted =>
    /\ t <= term[v] /\ t <= term[c]
    /\ t = term[v] => votedFor[v] = c

VotesUnique ==
  \A v, c, d \in Node, t \in Term :
    <<v, t, c>> \in granted /\ <<v, t, d>> \in granted => c = d

RequestsOpen ==
  \A m \in requests :
    /\ 0 < m.term /\ m.term <= term[m.from]
    /\ <<m.to, m.term, m.from>> \notin granted

RequestsDistinct ==
  \A m, k \in requests :
    m.from = k.from /\ m.to = k.to /\ m.term = k.term => m = k

AskedOnce ==
  \A n \in Node :
    /\ ballot[n] <= term[n]
    /\ \A p \in toAsk[n] : ballot[n] # 0 =>
         /\ <<p, ballot[n], n>> \notin granted
         /\ \A m \in requests :
              ~ (m.from = n /\ m.to = p /\ m.term = ballot[n])

VotesCounted ==
  \A n \in Node : ballot[n] # 0 =>
    votes[n] <= Cardinality(Voters(granted, n, ballot[n]))

WinnersElected ==
  \A n \in Node, t \in Term :
    <<n, t>> \in won => Majority <= Cardinality(Voters(granted, n, t))

CommitsBacked ==
  /\ \A n \in Node : lastApplied[n] <= Len(log[n])
  /\ \A n \in Node : \E k \in Node : commitIndex[n] <= Len(log[k])
  /\ \A m \in beats : \E k \in Node : m.commit <= Len(log[k])

ElectionInv ==
  /\ VotesRemembered /\ VotesUnique
  /\ RequestsOpen /\ RequestsDistinct /\ AskedOnce
  /\ VotesCounted /\ WinnersElected

Inv == TypeOK /\ ElectionInv /\ CommitsBacked

-----------------------------------------------------------------------------

LEMMA NodeCount == Cardinality(Node) \in Nat
BY NodesFinite, FS_CardinalityType

LEMMA InitInv == Init => Inv
<1> SUFFICES ASSUME Init PROVE Inv
  OBVIOUS
<1>1. TypeOK
  BY NodeCount, BoundsNatural DEF Init, TypeOK, Term, FOLLOWER
<1>2. ElectionInv
  BY BoundsNatural DEF Init, ElectionInv, VotesRemembered, VotesUnique,
     RequestsOpen, RequestsDistinct, AskedOnce, VotesCounted, WinnersElected
<1>3. CommitsBacked
  BY DEF Init, CommitsBacked
<1> QED
  BY <1>1, <1>2, <1>3 DEF Inv

\* The last term of a log is a term.
LEMMA TermAtType ==
  ASSUME TypeOK, NEW n \in Node, NEW i \in 0 .. Len(log[n])
  PROVE  TermAt(n, i) \in Term
<1>1. log[n] \in Seq(Term)
  BY DEF TypeOK
<1>2. CASE i = 0
  BY <1>2, BoundsNatural DEF TermAt, Term
<1>3. CASE i # 0
  <2>1. i \in 1 .. Len(log[n])
    BY <1>1, <1>3
  <2> QED
    BY <1>1, <1>3, <2>1 DEF TermAt
<1> QED
  BY <1>2, <1>3

\* One more vote is one more voter, and there are no more voters than nodes.
LEMMA VotersGrow ==
  ASSUME NEW G, NEW n, NEW t, NEW v \in Node, <<v, t, n>> \notin G
  PROVE  LET H == G \union {<<v, t, n>>} IN
         /\ Cardinality(Voters(G, n, t)) \in Nat
         /\ Cardinality(Voters(H, n, t)) = Cardinality(Voters(G, n, t)) + 1
         /\ Cardinality(Voters(H, n, t)) <= Cardinality(Node)
<1> DEFINE H == G \union {<<v, t, n>>}
<1>1. Voters(H, n, t) = Voters(G, n, t) \union {v}
  BY DEF Voters
<1>2. Voters(G, n, t) \in SUBSET Node /\ Voters(H, n, t) \in SUBSET Node
  BY DEF Voters
<1>3. v \notin Voters(G, n, t)
  BY DEF Voters
<1>4. IsFiniteSet(Voters(G, n, t))
  BY <1>2, NodesFinite, FS_Subset
<1>5. Cardinality(Voters(H, n, t)) = Cardinality(Voters(G, n, t)) + 1
  BY <1>1, <1>3, <1>4, FS_AddElement
<1>6. Cardinality(Voters(H, n, t)) <= Cardinality(Node)
  BY <1>2, NodesFinite, FS_Subset
<1>7. Cardinality(Voters(G, n, t)) \in Nat
  BY <1>4, FS_CardinalityType
<1> QED
  BY <1>5, <1>6, <1>7

\* More votes, no fewer voters.
LEMMA VotersKept ==
  ASSUME NEW G, NEW H, G \subseteq H, NEW n, NEW t
  PROVE  /\ Cardinality(Voters(G, n, t)) \in Nat
         /\ Cardinality(Voters(H, n, t)) \in Nat
         /\ Cardinality(Voters(G, n, t)) <= Cardinality(Voters(H, n, t))
<1>1. Voters(G, n, t) \in SUBSET Voters(H, n, t)
  BY DEF Voters
<1>2. Voters(H, n, t) \in SUBSET Node
  BY DEF Voters
<1>3. IsFiniteSet(Voters(H, n, t))
  BY <1>2, NodesFinite, FS_Subset
<1>4. IsFiniteSet(Voters(G, n, t))
  BY <1>1, <1>3, FS_Subset
<1> QED
  BY <1>1, <1>3, <1>4, FS_Subset, FS_CardinalityType

-----------------------------------------------------------------------------
(* Type correctness. *)

\* What the handlers find in messages and logs.
LEMMA MessageTypes ==
  ASSUME TypeOK
  PROVE  /\ \A m \in requests : m.from \in Node /\ m.to \in Node /\ m.term \in Term
         /\ \A m \in beats : /\ m.to \in Node /\ m.term \in Term
                             /\ m.commit \in 0 .. MaxLog
         /\ \A n \in Node : Len(log[n]) \in 0 .. MaxLog /\ log[n] \in Seq(Term)
BY BoundsNatural DEF TypeOK, VoteRequest, LeaderMessage

\* A heartbeat repeats what its sender knows.
LEMMA SendAllType ==
  ASSUME TypeOK, NEW n \in Node, NEW S \in SUBSET Node, SendAll(n, S)
  PROVE  beats' \subseteq LeaderMessage
<1>1. \A p \in S : HeartbeatTo(n, p) \in LeaderMessage
  BY BoundsNatural DEF HeartbeatTo, LeaderMessage, TypeOK, Term
<1> QED
  BY <1>1 DEF SendAll, TypeOK

\* A counted vote was not given before, so there was still a voter left.
LEMMA CountStays ==
  ASSUME TypeOK, RequestsOpen, VotesCounted, NEW m \in requests, Grants(m),
         ballot[m.from] = m.term, ballot[m.from] # 0
  PROVE  LET H == granted \union {<<m.to, m.term, m.from>>} IN
         /\ votes[m.from] + 1 <= Cardinality(Node)
         /\ votes[m.from] + 1 <= Cardinality(Voters(H, m.from, m.term))
<1> DEFINE n == m.from
           H == granted \union {<<m.to, m.term, m.from>>}
           V == Cardinality(Voters(granted, n, m.term))
           W == Cardinality(Voters(H, n, m.term))
<1>1. n \in Node /\ m.to \in Node
  BY MessageTypes
<1>2. <<m.to, m.term, m.from>> \notin granted
  BY DEF RequestsOpen
<1>3. V \in Nat /\ W = V + 1 /\ W <= Cardinality(Node)
  BY <1>1, <1>2, VotersGrow
<1>4. votes[n] <= V
  BY <1>1 DEF VotesCounted
<1>5. votes[n] \in Nat
  BY <1>1, NodeCount DEF TypeOK
<1> HIDE DEF n, V, W
<1>6. votes[n] + 1 <= Cardinality(Node) /\ votes[n] + 1 <= W
  BY <1>3, <1>4, <1>5, NodeCount
<1> QED
  BY <1>6 DEF n, W

LEMMA TypeStep ==
  ASSUME TypeOK, RequestsOpen, VotesCounted, Next
  PROVE  TypeOK'
<1> USE BoundsNatural
<1>1. ASSUME NEW n \in Node, StartElection(n) PROVE TypeOK'
  <2>1. Cardinality(Node) \in Nat /\ Cardinality(Node) >= 1
    BY NodeCount, NodesFinite, FS_EmptySet
  <2>2. term[n] + 1 \in Term
    BY <1>1 DEF StartElection, TypeOK, Term
  <2> QED
    BY <1>1, <2>1, <2>2 DEF StartElection, TypeOK, logVars, CANDIDATE
<1>2. ASSUME NEW n \in Node, NEW p \in Node, Skip(n, p) PROVE TypeOK'
  BY <1>2 DEF Skip, TypeOK, logVars, historyVars
<1>3. ASSUME NEW n \in Node, NEW p \in Node, Ask(n, p) PROVE TypeOK'
  <2>1. LastTerm(n) \in Term
    <3>1. Len(log[n]) \in 0 .. Len(log[n])
      BY DEF TypeOK
    <3> QED
      BY <3>1, TermAtType DEF LastTerm
  <2>2. requests' \subseteq VoteRequest
    BY <1>3, <2>1, MessageTypes DEF Ask, TypeOK, VoteRequest
  <2> QED
    BY <1>3, <2>2 DEF Ask, TypeOK, logVars, historyVars
<1>4. ASSUME NEW n \in Node, GiveUp(n) PROVE TypeOK'
  BY <1>4 DEF GiveUp, TypeOK, logVars, historyVars
<1>5. ASSUME NEW n \in Node, FinishElection(n) PROVE TypeOK'
  <2>1. beats' \subseteq LeaderMessage
    <3>1. CASE \E S \in SUBSET (Node \ {n}) : SendAll(n, S)
      BY <3>1, SendAllType
    <3>2. CASE UNCHANGED beats
      BY <3>2 DEF TypeOK
    <3> QED
      BY <1>5, <3>1, <3>2 DEF FinishElection
  <2>2. won' \subseteq Node \X Term
    BY <1>5 DEF FinishElection, TypeOK
  <2>3. role' \in [Node -> {FOLLOWER, CANDIDATE, LEADER}]
    BY <1>5 DEF FinishElection, TypeOK
  <2>4. ballot' \in [Node -> Term]
    BY <1>5 DEF FinishElection, TypeOK, Term
  <2> QED
    BY <1>5, <2>1, <2>2, <2>3, <2>4 DEF FinishElection, TypeOK, logVars
<1>6. ASSUME NEW n \in Node, SendHeartbeat(n) PROVE TypeOK'
  <2>1. beats' \subseteq LeaderMessage
    BY <1>6, SendAllType DEF SendHeartbeat
  <2> QED
    BY <1>6, <2>1 DEF SendHeartbeat, TypeOK, logVars, electionVars, historyVars
<1>7. ASSUME NEW n \in Node, NEW p \in Node, NEW i \in 0 .. Len(log[n]),
             SendAppend(n, p, i)
      PROVE  TypeOK'
  <2>1. beats' \subseteq LeaderMessage
    <3>1. i \in 0 .. MaxLog
      BY MessageTypes
    <3>2. /\ TermAt(n, i) \in Term /\ term[n] \in Term
          /\ commitIndex[n] \in 0 .. MaxLog
      BY TermAtType DEF TypeOK
    <3>3. [type |-> "append", from |-> n, to |-> p, term |-> term[n],
           commit |-> commitIndex[n], prevIndex |-> i,
           prevTerm |-> TermAt(n, i)] \in LeaderMessage
      BY <3>1, <3>2 DEF LeaderMessage
    <3> QED
      BY <1>7, <3>3 DEF SendAppend, TypeOK
  <2> QED
    BY <1>7, <2>1 DEF SendAppend, TypeOK, logVars, electionVars, historyVars
<1>8. ASSUME NEW n \in Node, AppendLog(n) PROVE TypeOK'
  <2>1. Append(log[n], term[n]) \in Seq(Term)
    BY DEF TypeOK
  <2>2. Len(Append(log[n], term[n])) <= MaxLog
    BY <1>8, MessageTypes DEF AppendLog
  <2> QED
    BY <1>8, <2>1, <2>2 DEF AppendLog, TypeOK, electionVars, historyVars
<1>9. ASSUME NEW n \in Node, NEW i \in 0 .. MaxLog, CommitTo(n, i)
      PROVE  TypeOK'
  <2>1. Smaller(i, Len(log[n])) \in 0 .. MaxLog
    BY MessageTypes DEF Smaller
  <2> QED
    BY <1>9, <2>1 DEF CommitTo, TypeOK, electionVars, historyVars
<1>10. ASSUME NEW m \in requests, HandleVoteRequest(m) PROVE TypeOK'
  <2>1. m.from \in Node /\ m.to \in Node /\ m.term \in Term
    BY MessageTypes
  <2>2. votes' \in [Node -> 0 .. Cardinality(Node)]
    <3>1. CASE votes' = votes
      BY <3>1 DEF TypeOK
    <3>2. CASE Grants(m) /\ votes' # votes
      <4>a. ballot[m.from] = m.term
        BY <1>10, <3>2 DEF HandleVoteRequest
      <4>b. 0 < m.term
        BY DEF RequestsOpen
      <4>0. ballot[m.from] # 0
        BY <2>1, <4>a, <4>b DEF Term
      <4>1. votes[m.from] + 1 <= Cardinality(Node)
        BY <1>10, <3>2, <4>0, CountStays DEF HandleVoteRequest
      <4>2. votes[m.from] + 1 \in 0 .. Cardinality(Node)
        BY <2>1, <4>1, NodeCount DEF TypeOK
      <4> QED
        BY <1>10, <2>1, <3>2, <4>2 DEF HandleVoteRequest, TypeOK
    <3>3. CASE ~ Grants(m) /\ votes' # votes
      BY <1>10, <2>1, <3>3 DEF HandleVoteRequest, TypeOK
    <3> QED
      BY <3>1, <3>2, <3>3
  <2>3. /\ term' \in [Node -> Term]
        /\ role' \in [Node -> {FOLLOWER, CANDIDATE, LEADER}]
    BY <1>10, <2>1 DEF HandleVoteRequest, StepDown, TypeOK
  <2>4. votedFor' \in [Node -> Node \union {None}]
    BY <1>10, <2>1 DEF HandleVoteRequest, TypeOK, VotedBefore
  <2>5. waiting' \in [Node -> Node \union {None}]
    BY <1>10, <2>1 DEF HandleVoteRequest, TypeOK
  <2>6. granted' \subseteq Node \X Term \X Node
    BY <1>10, <2>1 DEF HandleVoteRequest, TypeOK
  <2> QED
    BY <1>10, <2>2, <2>3, <2>4, <2>5, <2>6
       DEF HandleVoteRequest, TypeOK, logVars
<1>11. ASSUME NEW m \in beats, HandleHeartbeat(m) PROVE TypeOK'
  <2>1. m.to \in Node /\ m.term \in Term /\ m.commit \in 0 .. MaxLog
    BY MessageTypes
  <2>2. commitIndex' \in [Node -> 0 .. MaxLog]
    BY <1>11, <2>1 DEF HandleHeartbeat, TypeOK
  <2>3. /\ term' \in [Node -> Term]
        /\ role' \in [Node -> {FOLLOWER, CANDIDATE, LEADER}]
        /\ votedFor' \in [Node -> Node \union {None}]
    BY <1>11, <2>1 DEF HandleHeartbeat, StepDown, TypeOK
  <2> QED
    BY <1>11, <2>2, <2>3
       DEF HandleHeartbeat, TypeOK, electionVars, historyVars
<1>12. ASSUME NEW m \in beats, HandleAppendEntries(m) PROVE TypeOK'
  <2>1. m.to \in Node /\ m.term \in Term /\ m.commit \in 0 .. MaxLog
    BY MessageTypes
  <2>2. Smaller(m.commit, Len(log[m.to])) \in 0 .. MaxLog
    BY <2>1, MessageTypes DEF Smaller
  <2>3. commitIndex' \in [Node -> 0 .. MaxLog]
    BY <1>12, <2>1, <2>2 DEF HandleAppendEntries, TypeOK
  <2>4. /\ term' \in [Node -> Term]
        /\ role' \in [Node -> {FOLLOWER, CANDIDATE, LEADER}]
    BY <1>12, <2>1 DEF HandleAppendEntries, StepDown, TypeOK
  <2> QED
    BY <1>12, <2>3, <2>4
       DEF HandleAppendEntries, TypeOK, electionVars, historyVars
<1> QED
  BY <1>1, <1>2, <1>3, <1>4, <1>5, <1>6, <1>7, <1>8, <1>9, <1>10, <1>11,
     <1>12 DEF Next

-----------------------------------------------------------------------------
(* Votes. *)

\* Only elections, vote requests and a leader's messages move a term or a vote.
LEMMA VoteStep ==
  ASSUME TypeOK, VotesRemembered, VotesUnique, RequestsOpen, Next
  PROVE  VotesRemembered' /\ VotesUnique'
<1>1. ASSUME UNCHANGED <<term, votedFor, granted>>
      PROVE  VotesRemembered' /\ VotesUnique'
  BY <1>1 DEF VotesRemembered, VotesUnique
<1>2. ASSUME NEW n \in Node, StartElection(n)
      PROVE  VotesRemembered' /\ VotesUnique'
  <2>1. \A v \in Node :
          /\ term[v] \in Int
          /\ term'[v] = IF v = n THEN term[n] + 1 ELSE term[v]
          /\ votedFor'[v] = IF v = n THEN n ELSE votedFor[v]
    BY <1>2 DEF StartElection, TypeOK, Term
  <2>2. granted' = granted \union {<<n, term[n] + 1, n>>}
    BY <1>2 DEF StartElection
  <2>3. ASSUME NEW v \in Node, NEW c \in Node, NEW t \in Term,
               <<v, t, c>> \in granted'
        PROVE  /\ t <= term'[v] /\ t <= term'[c]
               /\ t = term'[v] => votedFor'[v] = c
    <3>1. t \in Int /\ term[n] \in Int /\ term[v] \in Int /\ term[c] \in Int
      BY <2>1 DEF Term
    <3>2. CASE <<v, t, c>> \in granted
      <4>1. /\ t <= term[v] /\ t <= term[c]
            /\ t = term[v] => votedFor[v] = c
        BY <3>2 DEF VotesRemembered
      <4> QED
        BY <2>1, <3>1, <4>1
    <3>3. CASE v = n /\ c = n /\ t = term[n] + 1
      BY <2>1, <3>1, <3>3
    <3> QED
      BY <2>2, <2>3, <3>2, <3>3
  <2>4. ASSUME NEW c \in Node PROVE <<n, term[n] + 1, c>> \notin granted
    <3>1. term[n] + 1 \in Term
      BY <1>2, BoundsNatural DEF StartElection, TypeOK, Term
    <3> QED
      BY <2>1, <3>1 DEF VotesRemembered
  <2>5. VotesUnique'
    BY <2>2, <2>4 DEF VotesUnique
  <2> QED
    BY <2>3, <2>5 DEF VotesRemembered
<1>3. ASSUME NEW m \in requests, HandleVoteRequest(m)
      PROVE  VotesRemembered' /\ VotesUnique'
  <2>1. m.from \in Node /\ m.to \in Node /\ m.term \in Term
    BY MessageTypes
  <2>2. \A v \in Node :
          /\ term[v] \in Int
          /\ v # m.to => term'[v] = term[v] /\ votedFor'[v] = votedFor[v]
    <3>1. \A v \in Node : term[v] \in Int
      BY DEF TypeOK, Term
    <3>2. \A v \in Node : v # m.to => term'[v] = term[v]
      <4>1. CASE UNCHANGED term
        BY <4>1
      <4>2. CASE StepDown(m.to, m.term)
        BY <2>1, <4>2 DEF StepDown, TypeOK
      <4> QED
        BY <1>3, <4>1, <4>2 DEF HandleVoteRequest
    <3>3. \A v \in Node : v # m.to => votedFor'[v] = votedFor[v]
      BY <1>3, <2>1 DEF HandleVoteRequest, TypeOK
    <3> QED
      BY <3>1, <3>2, <3>3
  <2>3. /\ m.term > term[m.to] => term'[m.to] = m.term
        /\ ~ (m.term > term[m.to]) => term'[m.to] = term[m.to]
    <3>1. m.term \in Int /\ term[m.to] \in Int
      BY <2>1, <2>2 DEF Term
    <3>2. CASE m.term > term[m.to]
      BY <1>3, <2>1, <3>1, <3>2 DEF HandleVoteRequest, StepDown, TypeOK
    <3>3. CASE ~ (m.term > term[m.to])
      BY <1>3, <2>1, <3>3 DEF HandleVoteRequest, StepDown
    <3> QED
      BY <3>2, <3>3
  <2>4. votedFor'[m.to] = IF Grants(m) THEN m.from ELSE VotedBefore(m)
    BY <1>3, <2>1 DEF HandleVoteRequest, TypeOK
  <2>5. \A v, c \in Node, t \in Term : <<v, t, c>> \in granted =>
          /\ t <= term[v] /\ t <= term[c]
          /\ t = term[v] => votedFor[v] = c
    BY DEF VotesRemembered
  <2>6. CASE Grants(m)
    <3>1. granted' = granted \union {<<m.to, m.term, m.from>>}
      BY <1>3, <2>6 DEF HandleVoteRequest
    <3>2. m.term >= term[m.to] /\ VotedBefore(m) \in {None, m.from}
      BY <2>6 DEF Grants
    <3>3. ASSUME NEW c \in Node, <<m.to, m.term, c>> \in granted
          PROVE  c = m.from
      <4>1. m.term <= term[m.to] /\ (m.term = term[m.to] => votedFor[m.to] = c)
        BY <2>1, <2>5, <3>3
      <4>2. m.term = term[m.to]
        BY <2>1, <2>2, <3>2, <4>1 DEF Term
      <4> QED
        BY <2>1, <2>2, <3>2, <4>1, <4>2, NoneNotNode DEF VotedBefore
    <3>4. m.term <= term[m.from]
      BY DEF RequestsOpen
    <3>5. ASSUME NEW v \in Node, NEW c \in Node, NEW t \in Term,
                 <<v, t, c>> \in granted'
          PROVE  /\ t <= term'[v] /\ t <= term'[c]
                 /\ t = term'[v] => votedFor'[v] = c
      <4>1. t \in Int /\ m.term \in Int /\ term[v] \in Int /\ term[c] \in Int
        BY <2>1, <2>2 DEF Term
      <4>2. CASE <<v, t, c>> \in granted
        <5>1. /\ t <= term[v] /\ t <= term[c]
              /\ t = term[v] => votedFor[v] = c
          BY <2>5, <4>2
        <5>2. v = m.to /\ t = m.term => c = m.from
          BY <3>3, <4>2
        <5> QED
          BY <2>2, <2>3, <2>4, <2>6, <3>2, <4>1, <5>1, <5>2
      <4>3. CASE v = m.to /\ c = m.from /\ t = m.term
        BY <2>2, <2>3, <2>4, <2>6, <3>2, <3>4, <4>1, <4>3
      <4> QED
        BY <3>1, <3>5, <4>2, <4>3
    <3>6. VotesUnique'
      BY <2>1, <3>1, <3>3 DEF VotesUnique
    <3> QED
      BY <3>5, <3>6 DEF VotesRemembered
  <2>7. CASE ~ Grants(m)
    <3>1. granted' = granted
      BY <1>3, <2>7 DEF HandleVoteRequest
    <3>2. ASSUME NEW v \in Node, NEW c \in Node, NEW t \in Term,
                 <<v, t, c>> \in granted
          PROVE  /\ t <= term'[v] /\ t <= term'[c]
                 /\ t = term'[v] => votedFor'[v] = c
      <4>1. t \in Int /\ m.term \in Int /\ term[v] \in Int /\ term[c] \in Int
        BY <2>1, <2>2 DEF Term
      <4>2. /\ t <= term[v] /\ t <= term[c]
            /\ t = term[v] => votedFor[v] = c
        BY <2>5, <3>2
      <4> QED
        BY <2>2, <2>3, <2>4, <2>7, <4>1, <4>2 DEF VotedBefore
    <3> QED
      BY <3>1, <3>2 DEF VotesRemembered, VotesUnique
  <2> QED
    BY <2>6, <2>7
<1>4. ASSUME NEW m \in beats, HandleHeartbeat(m) \/ HandleAppendEntries(m)
      PROVE  VotesRemembered' /\ VotesUnique'
  <2>1. m.to \in Node /\ m.term \in Term
    BY MessageTypes
  <2>2. granted' = granted
    BY <1>4 DEF HandleHeartbeat, HandleAppendEntries, historyVars
  <2>3. \A v \in Node :
          /\ term[v] \in Int
          /\ v # m.to => term'[v] = term[v] /\ votedFor'[v] = votedFor[v]
    BY <1>4, <2>1 DEF HandleHeartbeat, HandleAppendEntries, StepDown, TypeOK,
                      Term
  <2>4. \/ term'[m.to] = term[m.to] /\ votedFor'[m.to] = votedFor[m.to]
        \/ term'[m.to] = m.term /\ m.term > term[m.to]
    BY <1>4, <2>1 DEF HandleHeartbeat, HandleAppendEntries, StepDown, TypeOK,
                      Term
  <2>5. ASSUME NEW v \in Node, NEW c \in Node, NEW t \in Term,
               <<v, t, c>> \in granted
        PROVE  /\ t <= term'[v] /\ t <= term'[c]
               /\ t = term'[v] => votedFor'[v] = c
    <3>1. t \in Int /\ m.term \in Int /\ term[v] \in Int /\ term[c] \in Int
      BY <2>1, <2>3 DEF Term
    <3>2. /\ t <= term[v] /\ t <= term[c]
          /\ t = term[v] => votedFor[v] = c
      BY <2>5 DEF VotesRemembered
    <3> QED
      BY <2>3, <2>4, <3>1, <3>2
  <2> QED
    BY <2>2, <2>5 DEF VotesRemembered, VotesUnique
<1>5. ASSUME NEW n \in Node, FinishElection(n)
      PROVE  UNCHANGED <<term, votedFor, granted>>
  BY <1>5 DEF FinishElection
<1> QED
  BY <1>1, <1>2, <1>3, <1>4, <1>5 DEF Next, Skip, Ask, GiveUp, SendHeartbeat,
     SendAppend, AppendLog, CommitTo, historyVars

-----------------------------------------------------------------------------
(* Requests and their count. *)

\* Terms never go down.
LEMMA TermGrows ==
  ASSUME TypeOK, Next
  PROVE  \A n \in Node : term[n] \in Nat /\ term'[n] \in Int /\ term[n] <= term'[n]
<1>0. \A n \in Node : term[n] \in Nat
  BY BoundsNatural DEF TypeOK, Term
<1>1. ASSUME UNCHANGED term
      PROVE  \A n \in Node : term'[n] \in Int /\ term[n] <= term'[n]
  BY <1>0, <1>1
<1>2. ASSUME NEW n \in Node, StartElection(n)
      PROVE  \A k \in Node : term'[k] \in Int /\ term[k] <= term'[k]
  BY <1>0, <1>2 DEF StartElection, TypeOK
<1>3. ASSUME NEW k \in Node, NEW t \in Term, term[k] <= t, StepDown(k, t)
      PROVE  \A n \in Node : term'[n] \in Int /\ term[n] <= term'[n]
  BY <1>0, <1>3, BoundsNatural DEF StepDown, TypeOK, Term
<1>4. ASSUME NEW m \in requests, HandleVoteRequest(m)
      PROVE  \A n \in Node : term'[n] \in Int /\ term[n] <= term'[n]
  <2>1. m.to \in Node /\ m.term \in Term
    BY MessageTypes
  <2>2. m.term \in Int /\ term[m.to] \in Int
    BY <1>0, <2>1 DEF Term
  <2>3. UNCHANGED term \/ (term[m.to] <= m.term /\ StepDown(m.to, m.term))
    BY <1>4, <2>2 DEF HandleVoteRequest
  <2> QED
    BY <1>1, <1>3, <2>1, <2>3
<1>5. ASSUME NEW m \in beats, HandleHeartbeat(m) \/ HandleAppendEntries(m)
      PROVE  \A n \in Node : term'[n] \in Int /\ term[n] <= term'[n]
  <2>1. m.to \in Node /\ m.term \in Term
    BY MessageTypes
  <2>2. m.term \in Int /\ term[m.to] \in Int
    BY <1>0, <2>1 DEF Term
  <2>3. UNCHANGED term \/ (term[m.to] <= m.term /\ StepDown(m.to, m.term))
    BY <1>5, <2>2 DEF HandleHeartbeat, HandleAppendEntries
  <2> QED
    BY <1>1, <1>3, <2>1, <2>3
<1> QED
  BY <1>0, <1>1, <1>2, <1>4, <1>5 DEF Next, Skip, Ask, GiveUp, FinishElection,
     SendHeartbeat, SendAppend, AppendLog, CommitTo

\* What a step does to requests and votes: nothing, a new election, the loop
\* goes on, or a request is answered.
LEMMA ElectionSteps ==
  ASSUME Next
  PROVE  \/ UNCHANGED <<requests, granted, ballot, toAsk, votes, won>>
         \/ \E n \in Node : StartElection(n)
         \/ \E n, p \in Node : Skip(n, p) \/ Ask(n, p)
         \/ \E n \in Node : FinishElection(n)
         \/ \E m \in requests : HandleVoteRequest(m)
BY DEF Next, GiveUp, SendHeartbeat, SendAppend, AppendLog, CommitTo,
       HandleHeartbeat, HandleAppendEntries, electionVars, historyVars

LEMMA RequestStep ==
  ASSUME TypeOK, VotesRemembered, RequestsOpen, RequestsDistinct, AskedOnce, Next
  PROVE  RequestsOpen' /\ RequestsDistinct' /\ AskedOnce'
<1>0. \A n \in Node : term[n] \in Nat /\ term'[n] \in Int /\ term[n] <= term'[n]
  BY TermGrows
<1>a. \A n \in Node : ballot[n] \in Nat
  BY BoundsNatural DEF TypeOK, Term
<1>b. \A m \in requests : m.term \in Int /\ m.from \in Node /\ m.to \in Node
  BY MessageTypes DEF Term
<1>1. ASSUME UNCHANGED <<requests, granted, ballot, toAsk>>
      PROVE  RequestsOpen' /\ RequestsDistinct' /\ AskedOnce'
  BY <1>0, <1>1, <1>a, <1>b DEF RequestsOpen, RequestsDistinct, AskedOnce
<1>2. ASSUME NEW n \in Node, StartElection(n)
      PROVE  RequestsOpen' /\ RequestsDistinct' /\ AskedOnce'
  <2>1. /\ requests' = requests
        /\ granted' = granted \union {<<n, term[n] + 1, n>>}
        /\ \A k \in Node : k # n => ballot'[k] = ballot[k] /\ toAsk'[k] = toAsk[k]
        /\ ballot'[n] = term[n] + 1 /\ toAsk'[n] = Node \ {n}
        /\ term'[n] = term[n] + 1
    BY <1>2 DEF StartElection, TypeOK
  <2>2. ASSUME NEW m \in requests, m.from = n PROVE m.term # term[n] + 1
    <3>1. m.term <= term[n]
      BY <2>2 DEF RequestsOpen
    <3> QED
      BY <1>0, <1>b, <3>1
  <2>3. ASSUME NEW m \in requests'
        PROVE  /\ 0 < m.term /\ m.term <= term'[m.from]
               /\ <<m.to, m.term, m.from>> \notin granted'
    <3>1. /\ 0 < m.term /\ m.term <= term[m.from]
          /\ <<m.to, m.term, m.from>> \notin granted
      BY <2>1 DEF RequestsOpen
    <3>2. m.term \in Int /\ m.from \in Node
      BY <1>b, <2>1
    <3>3. m.term <= term'[m.from]
      BY <1>0, <3>1, <3>2
    <3>4. <<m.to, m.term, m.from>> \notin granted'
      BY <2>1, <2>2, <3>1
    <3> QED
      BY <3>1, <3>3, <3>4
  <2>4. \A v \in Node : <<v, term[n] + 1, n>> \notin granted
    <3>1. term[n] + 1 \in Term
      BY <1>2, BoundsNatural DEF StartElection, TypeOK, Term
    <3> QED
      BY <1>0, <3>1 DEF VotesRemembered
  <2>5. AskedOnce'
    <3>1. ASSUME NEW k \in Node, k # n
          PROVE  /\ ballot'[k] <= term'[k]
                 /\ \A p \in toAsk'[k] : ballot'[k] # 0 =>
                      /\ <<p, ballot'[k], k>> \notin granted'
                      /\ \A m \in requests' :
                           ~ (m.from = k /\ m.to = p /\ m.term = ballot'[k])
      BY <1>0, <1>a, <2>1, <3>1 DEF AskedOnce
    <3>2. /\ ballot'[n] <= term'[n]
          /\ \A p \in toAsk'[n] : ballot'[n] # 0 =>
               /\ <<p, ballot'[n], n>> \notin granted'
               /\ \A m \in requests' :
                    ~ (m.from = n /\ m.to = p /\ m.term = ballot'[n])
      BY <1>0, <2>1, <2>2, <2>4
    <3> QED
      BY <3>1, <3>2 DEF AskedOnce
  <2> QED
    BY <2>1, <2>3, <2>5 DEF RequestsDistinct, RequestsOpen
<1>3. ASSUME NEW n \in Node, NEW p \in Node, Skip(n, p)
      PROVE  RequestsOpen' /\ RequestsDistinct' /\ AskedOnce'
  <2>1. /\ UNCHANGED <<requests, granted, ballot, term>>
        /\ \A k \in Node : toAsk'[k] \subseteq toAsk[k]
    BY <1>3 DEF Skip, historyVars, TypeOK
  <2> QED
    BY <2>1 DEF RequestsOpen, RequestsDistinct, AskedOnce
<1>4. ASSUME NEW n \in Node, NEW p \in Node, Ask(n, p)
      PROVE  RequestsOpen' /\ RequestsDistinct' /\ AskedOnce'
  <2> DEFINE r == [from |-> n, to |-> p, term |-> ballot[n],
                   lastIndex |-> Len(log[n]), lastTerm |-> LastTerm(n)]
  <2>1. /\ UNCHANGED <<granted, ballot, term>>
        /\ requests' = requests \union {r}
        /\ \A k \in Node : toAsk'[k] = IF k = n THEN toAsk[n] \ {p} ELSE toAsk[k]
        /\ p \in toAsk[n] /\ ballot[n] # 0
    BY <1>4 DEF Ask, historyVars, TypeOK
  <2>2. r.from = n /\ r.to = p /\ r.term = ballot[n]
    OBVIOUS
  <2> HIDE DEF r
  <2>3. /\ 0 < ballot[n] /\ ballot[n] <= term[n]
        /\ <<p, ballot[n], n>> \notin granted
        /\ \A m \in requests : ~ (m.from = n /\ m.to = p /\ m.term = ballot[n])
    <3>1. 0 < ballot[n]
      BY <1>a, <2>1
    <3> QED
      BY <2>1, <3>1 DEF AskedOnce
  <2>4. RequestsOpen'
    <3>1. 0 < r.term /\ r.term <= term[r.from]
      BY <2>2, <2>3
    <3>2. <<r.to, r.term, r.from>> \notin granted
      BY <2>2, <2>3
    <3> QED
      BY <2>1, <3>1, <3>2, Zenon DEF RequestsOpen
  <2>6. RequestsDistinct'
    <3>1. ASSUME NEW m \in requests', NEW k \in requests',
                 m.from = k.from, m.to = k.to, m.term = k.term
          PROVE  m = k
      <4>1. CASE m \in requests /\ k \in requests
        BY <3>1, <4>1 DEF RequestsDistinct
      <4>2. CASE m = r \/ k = r
        BY <2>1, <2>2, <2>3, <3>1, <4>2
      <4> QED
        BY <2>1, <4>1, <4>2
    <3> QED
      BY <3>1 DEF RequestsDistinct
  <2>5. AskedOnce'
    BY <2>1, <2>2 DEF AskedOnce
  <2> QED
    BY <2>4, <2>5, <2>6
<1>5. ASSUME NEW n \in Node, FinishElection(n)
      PROVE  RequestsOpen' /\ RequestsDistinct' /\ AskedOnce'
  <2>1. /\ UNCHANGED <<requests, granted, toAsk, term>>
        /\ \A k \in Node : ballot'[k] = IF k = n THEN 0 ELSE ballot[k]
    BY <1>5 DEF FinishElection, TypeOK
  <2> QED
    BY <1>0, <2>1 DEF RequestsOpen, RequestsDistinct, AskedOnce
<1>6. ASSUME NEW m \in requests, HandleVoteRequest(m)
      PROVE  RequestsOpen' /\ RequestsDistinct' /\ AskedOnce'
  <2>1. UNCHANGED <<ballot, toAsk>> /\ requests' = requests \ {m}
    BY <1>6 DEF HandleVoteRequest
  <2>2. granted' \subseteq granted \union {<<m.to, m.term, m.from>>}
    BY <1>6 DEF HandleVoteRequest
  <2>3. ASSUME NEW k \in requests'
        PROVE  /\ 0 < k.term /\ k.term <= term'[k.from]
               /\ <<k.to, k.term, k.from>> \notin granted'
    <3>1. k \in requests /\ k # m
      BY <2>1
    <3>2. /\ 0 < k.term /\ k.term <= term[k.from]
          /\ <<k.to, k.term, k.from>> \notin granted
      BY <3>1 DEF RequestsOpen
    <3>3. k.term <= term'[k.from]
      BY <1>0, <1>b, <3>1, <3>2
    <3>4. <<k.to, k.term, k.from>> # <<m.to, m.term, m.from>>
      BY <3>1 DEF RequestsDistinct
    <3> QED
      BY <2>2, <3>2, <3>3, <3>4
  <2>4. RequestsDistinct'
    BY <2>1 DEF RequestsDistinct
  <2>5. AskedOnce'
    BY <1>0, <1>a, <2>1, <2>2 DEF AskedOnce
  <2> QED
    BY <2>3, <2>4, <2>5 DEF RequestsOpen
<1> QED
  BY <1>1, <1>2, <1>3, <1>4, <1>5, <1>6, ElectionSteps

LEMMA CountStep ==
  ASSUME TypeOK, VotesRemembered, RequestsOpen, VotesCounted, Next
  PROVE  VotesCounted'
<1>0. \A n \in Node : votes[n] \in Int
  BY NodeCount DEF TypeOK
<1>1. ASSUME UNCHANGED <<granted, votes>>,
             \A n \in Node : ballot'[n] \in {0, ballot[n]}
      PROVE  VotesCounted'
  BY <1>1 DEF VotesCounted, Voters
<1>2. ASSUME NEW n \in Node, StartElection(n) PROVE VotesCounted'
  <2>1. /\ granted' = granted \union {<<n, term[n] + 1, n>>}
        /\ \A k \in Node : k # n => ballot'[k] = ballot[k] /\ votes'[k] = votes[k]
        /\ ballot'[n] = term[n] + 1 /\ votes'[n] = 1
    BY <1>2 DEF StartElection, TypeOK
  <2>2. term[n] + 1 \in Term /\ term[n] \in Int
    BY <1>2, BoundsNatural DEF StartElection, TypeOK, Term
  <2>3. <<n, term[n] + 1, n>> \notin granted
    BY <2>2 DEF VotesRemembered
  <2>4. 1 <= Cardinality(Voters(granted', n, ballot'[n]))
    <3> DEFINE V == Cardinality(Voters(granted, n, term[n] + 1))
    <3>1. V \in Nat /\ Cardinality(Voters(granted', n, term[n] + 1)) = V + 1
      BY <2>1, <2>3, VotersGrow
    <3> HIDE DEF V
    <3>2. 1 <= Cardinality(Voters(granted', n, term[n] + 1))
      BY <3>1
    <3> QED
      BY <2>1, <3>2
  <2>5. ASSUME NEW k \in Node, k # n, ballot'[k] # 0
        PROVE  votes'[k] <= Cardinality(Voters(granted', k, ballot'[k]))
    <3> DEFINE V == Cardinality(Voters(granted, k, ballot[k]))
               W == Cardinality(Voters(granted', k, ballot[k]))
    <3>1. V \in Nat /\ W \in Nat /\ V <= W
      BY <2>1, VotersKept
    <3>2. votes[k] <= V
      BY <2>1, <2>5 DEF VotesCounted
    <3> HIDE DEF V, W
    <3>3. votes[k] <= W
      BY <1>0, <3>1, <3>2
    <3> QED
      BY <2>1, <2>5, <3>3 DEF W
  <2> QED
    BY <2>1, <2>4, <2>5 DEF VotesCounted
<1>3. ASSUME NEW n \in Node, NEW p \in Node, Skip(n, p) \/ Ask(n, p)
      PROVE  VotesCounted'
  BY <1>1, <1>3 DEF Skip, Ask, historyVars
<1>4. ASSUME NEW n \in Node, FinishElection(n) PROVE VotesCounted'
  <2>1. \A k \in Node : ballot'[k] \in {0, ballot[k]}
    BY <1>4 DEF FinishElection, TypeOK
  <2> QED
    BY <1>1, <1>4, <2>1 DEF FinishElection
<1>5. ASSUME NEW m \in requests, HandleVoteRequest(m) PROVE VotesCounted'
  <2> DEFINE H == granted \union {<<m.to, m.term, m.from>>}
  <2>1. m.from \in Node /\ m.term \in Int /\ 0 < m.term
    <3>1. 0 < m.term
      BY DEF RequestsOpen
    <3> QED
      BY <3>1, MessageTypes DEF Term
  <2>2. granted' \in {granted, H} /\ (Grants(m) => granted' = H)
    BY <1>5 DEF HandleVoteRequest
  <2>3. ballot' = ballot
    BY <1>5 DEF HandleVoteRequest
  <2>4. ASSUME NEW k \in Node, votes'[k] = votes[k], ballot[k] # 0
        PROVE  votes'[k] <= Cardinality(Voters(granted', k, ballot[k]))
    <3> DEFINE V == Cardinality(Voters(granted, k, ballot[k]))
               W == Cardinality(Voters(granted', k, ballot[k]))
    <3>1. V \in Nat /\ W \in Nat /\ V <= W
      BY <2>2, VotersKept
    <3>2. votes[k] <= V
      BY <2>4 DEF VotesCounted
    <3> HIDE DEF V, W
    <3>3. votes[k] <= W
      BY <1>0, <3>1, <3>2
    <3> QED
      BY <2>4, <3>3 DEF W
  <2>5. \A k \in Node : k # m.from => votes'[k] = votes[k]
    BY <1>5, <2>1 DEF HandleVoteRequest, TypeOK
  <2>6. \/ votes'[m.from] = votes[m.from]
        \/ /\ Grants(m) /\ ballot[m.from] = m.term
           /\ votes'[m.from] = votes[m.from] + 1
    BY <1>5, <2>1 DEF HandleVoteRequest, TypeOK
  <2>7. CASE /\ Grants(m) /\ ballot[m.from] = m.term
             /\ votes'[m.from] = votes[m.from] + 1
    <3>1. ballot[m.from] # 0
      BY <2>1, <2>7
    <3>2. votes[m.from] + 1 <= Cardinality(Voters(H, m.from, m.term))
      BY <2>7, <3>1, CountStays
    <3>3. votes'[m.from] <= Cardinality(Voters(granted', m.from, ballot[m.from]))
      BY <2>2, <2>7, <3>2
    <3> QED
      BY <2>3, <2>4, <2>5, <3>3 DEF VotesCounted
  <2>8. CASE votes'[m.from] = votes[m.from]
    BY <2>3, <2>4, <2>5, <2>8 DEF VotesCounted
  <2> QED
    BY <2>6, <2>7, <2>8
<1> QED
  BY <1>1, <1>2, <1>3, <1>4, <1>5, ElectionSteps

\* Votes are only added, and only the end of an election adds a winner.
LEMMA WinnerStep ==
  ASSUME TypeOK, VotesCounted, WinnersElected, Next
  PROVE  WinnersElected'
<1>1. granted \subseteq granted'
  BY ElectionSteps DEF StartElection, Skip, Ask, FinishElection,
     HandleVoteRequest, historyVars
<1>2. Majority \in Int
  BY NodeCount DEF Majority
<1>3. ASSUME NEW n \in Node, NEW t \in Term,
             Majority <= Cardinality(Voters(granted, n, t))
      PROVE  Majority <= Cardinality(Voters(granted', n, t))
  <2> DEFINE V == Cardinality(Voters(granted, n, t))
             W == Cardinality(Voters(granted', n, t))
  <2>1. V \in Nat /\ W \in Nat /\ V <= W
    BY <1>1, VotersKept
  <2> HIDE DEF W
  <2>2. Majority <= V
    BY <1>3
  <2> HIDE DEF V
  <2>3. Majority <= W
    BY <1>2, <2>1, <2>2
  <2> QED
    BY <2>3 DEF W
<1>4. ASSUME won' = won PROVE WinnersElected'
  <2> SUFFICES ASSUME NEW n \in Node, NEW t \in Term, <<n, t>> \in won'
               PROVE  Majority <= Cardinality(Voters(granted', n, t))
    BY DEF WinnersElected, Majority
  <2> QED
    BY <1>3, <1>4 DEF WinnersElected
<1>5. ASSUME NEW n \in Node, FinishElection(n) PROVE WinnersElected'
  <2>1. CASE won' = won
    BY <1>4, <2>1
  <2>2. CASE won' # won
    <3>1. /\ won' = won \union {<<n, ballot[n]>>}
          /\ votes[n] >= Majority /\ ballot[n] # 0
      BY <1>5, <2>2 DEF FinishElection, HasMajority
    <3>2. Majority <= Cardinality(Voters(granted, n, ballot[n]))
      <4> DEFINE V == Cardinality(Voters(granted, n, ballot[n]))
      <4>1. V \in Nat
        BY VotersKept
      <4>2. votes[n] <= V
        BY <3>1 DEF VotesCounted
      <4>3. votes[n] \in Int
        BY NodeCount DEF TypeOK
      <4> HIDE DEF V
      <4>4. Majority <= V
        BY <1>2, <3>1, <4>1, <4>2, <4>3
      <4> QED
        BY <4>4 DEF V
    <3> SUFFICES ASSUME NEW k \in Node, NEW t \in Term, <<k, t>> \in won'
                 PROVE  Majority <= Cardinality(Voters(granted', k, t))
      BY DEF WinnersElected, Majority
    <3>3. Majority <= Cardinality(Voters(granted, k, t))
      BY <3>1, <3>2 DEF WinnersElected
    <3> QED
      BY <1>3, <3>3
  <2> QED
    BY <2>1, <2>2
<1> QED
  BY <1>4, <1>5, ElectionSteps DEF StartElection, Skip, Ask,
     HandleVoteRequest, historyVars

-----------------------------------------------------------------------------
(* Commit indexes. *)

\* Logs only grow, and a commit index is the index of an entry or copied.
LEMMA CommitStep ==
  ASSUME TypeOK, CommitsBacked, Next
  PROVE  CommitsBacked'
<1>0. /\ \A n \in Node : Len(log[n]) \in Nat /\ lastApplied[n] \in Int
                         /\ commitIndex[n] \in Int
      /\ \A m \in beats : m.commit \in Int /\ m.to \in Node
  BY MessageTypes, BoundsNatural DEF TypeOK
<1>1. ASSUME UNCHANGED <<log, commitIndex, lastApplied>>, beats' \subseteq beats
      PROVE  CommitsBacked'
  BY <1>1 DEF CommitsBacked
<1>2. ASSUME NEW n \in Node, NEW S \in SUBSET Node, SendAll(n, S),
             UNCHANGED <<log, commitIndex, lastApplied>>
      PROVE  CommitsBacked'
  <2>1. \A m \in beats' : m \in beats \/ m.commit = commitIndex[n]
    BY <1>2 DEF SendAll, HeartbeatTo
  <2> QED
    BY <1>2, <2>1 DEF CommitsBacked
<1>3. ASSUME NEW n \in Node, FinishElection(n) PROVE CommitsBacked'
  <2>1. UNCHANGED <<log, commitIndex, lastApplied>>
    BY <1>3 DEF FinishElection, logVars
  <2>2. (beats' = beats) \/ \E S \in SUBSET Node : SendAll(n, S)
    BY <1>3 DEF FinishElection
  <2> QED
    BY <1>1, <1>2, <2>1, <2>2
<1>4. ASSUME NEW n \in Node, SendHeartbeat(n) PROVE CommitsBacked'
  <2>1. UNCHANGED <<log, commitIndex, lastApplied>>
    BY <1>4 DEF SendHeartbeat, logVars
  <2>2. \E S \in SUBSET Node : SendAll(n, S)
    BY <1>4 DEF SendHeartbeat
  <2> QED
    BY <1>2, <2>1, <2>2
<1>5. ASSUME NEW n \in Node, NEW p \in Node, NEW i \in 0 .. Len(log[n]),
             SendAppend(n, p, i)
      PROVE  CommitsBacked'
  <2>1. UNCHANGED <<log, commitIndex, lastApplied>>
    BY <1>5 DEF SendAppend, logVars
  <2>2. \A m \in beats' : m \in beats \/ m.commit = commitIndex[n]
    BY <1>5 DEF SendAppend
  <2> QED
    BY <2>1, <2>2 DEF CommitsBacked
<1>6. ASSUME NEW n \in Node, AppendLog(n) PROVE CommitsBacked'
  <2>1. UNCHANGED <<commitIndex, lastApplied, beats>>
    BY <1>6 DEF AppendLog
  <2>2. \A k \in Node : Len(log'[k]) \in Nat /\ Len(log[k]) <= Len(log'[k])
    BY <1>6 DEF AppendLog, TypeOK
  <2>3. ASSUME NEW k \in Node PROVE lastApplied'[k] <= Len(log'[k])
    <3>1. lastApplied[k] <= Len(log[k]) /\ lastApplied'[k] = lastApplied[k]
      BY <2>1 DEF CommitsBacked
    <3> QED
      BY <1>0, <2>2, <3>1
  <2>4. ASSUME NEW i \in Int, \E k \in Node : i <= Len(log[k])
        PROVE  \E k \in Node : i <= Len(log'[k])
    BY <1>0, <2>2, <2>4
  <2>5. ASSUME NEW k \in Node PROVE \E j \in Node : commitIndex'[k] <= Len(log'[j])
    BY <1>0, <2>1, <2>4 DEF CommitsBacked
  <2>6. ASSUME NEW m \in beats' PROVE \E j \in Node : m.commit <= Len(log'[j])
    BY <1>0, <2>1, <2>4 DEF CommitsBacked
  <2> QED
    BY <2>3, <2>5, <2>6 DEF CommitsBacked
<1>7. ASSUME NEW n \in Node, NEW i \in 0 .. MaxLog, CommitTo(n, i)
      PROVE  CommitsBacked'
  <2>1. UNCHANGED <<log, beats>>
    BY <1>7 DEF CommitTo
  <2>2. \A k \in Node : lastApplied'[k] <= Len(log[k])
    <3>1. Smaller(i, Len(log[n])) <= Len(log[n])
      BY <1>0, BoundsNatural DEF Smaller
    <3>2. \A k \in Node : lastApplied[k] <= Len(log[k])
      BY DEF CommitsBacked
    <3>3. \A k \in Node : \/ lastApplied'[k] = lastApplied[k]
                          \/ k = n /\ lastApplied'[k] = Smaller(i, Len(log[n]))
      BY <1>7 DEF CommitTo, TypeOK
    <3> QED
      BY <3>1, <3>2, <3>3
  <2>3. \E j \in Node : i <= Len(log[j])
    BY <1>0, <1>7, BoundsNatural DEF CommitTo, CommitsBacked
  <2>4. \A k \in Node : commitIndex'[k] = IF k = n THEN i ELSE commitIndex[k]
    BY <1>7 DEF CommitTo, TypeOK
  <2> QED
    BY <2>1, <2>2, <2>3, <2>4 DEF CommitsBacked
<1>8. ASSUME NEW m \in beats, HandleHeartbeat(m) \/ HandleAppendEntries(m)
      PROVE  CommitsBacked'
  <2>1. UNCHANGED <<log, lastApplied>> /\ beats' = beats \ {m}
    BY <1>8 DEF HandleHeartbeat, HandleAppendEntries
  <2>2. \A k \in Node : k # m.to => commitIndex'[k] = commitIndex[k]
    BY <1>8 DEF HandleHeartbeat, HandleAppendEntries, TypeOK
  <2>3. commitIndex'[m.to] \in {commitIndex[m.to], m.commit, Len(log[m.to])}
    <3>1. CASE HandleHeartbeat(m)
      BY <1>0, <3>1 DEF HandleHeartbeat, TypeOK
    <3>2. CASE HandleAppendEntries(m)
      <4>1. Smaller(m.commit, Len(log[m.to])) \in {m.commit, Len(log[m.to])}
        BY DEF Smaller
      <4> QED
        BY <1>0, <3>2, <4>1 DEF HandleAppendEntries, TypeOK
    <3> QED
      BY <1>8, <3>1, <3>2
  <2>4. \E j \in Node : commitIndex'[m.to] <= Len(log[j])
    <3>1. CASE commitIndex'[m.to] = Len(log[m.to])
      BY <1>0, <3>1
    <3>2. CASE commitIndex'[m.to] \in {commitIndex[m.to], m.commit}
      BY <1>0, <3>2 DEF CommitsBacked
    <3> QED
      BY <2>3, <3>1, <3>2
  <2> QED
    BY <2>1, <2>2, <2>4 DEF CommitsBacked
<1>9. ASSUME NEW m \in requests, HandleVoteRequest(m) PROVE CommitsBacked'
  BY <1>1, <1>9 DEF HandleVoteRequest, logVars
<1>10. ASSUME NEW n \in Node, StartElection(n) \/ GiveUp(n)
               \/ \E p \in Node : Skip(n, p) \/ Ask(n, p)
       PROVE  CommitsBacked'
  BY <1>1, <1>10 DEF StartElection, GiveUp, Skip, Ask, logVars
<1> QED
  BY <1>3, <1>4, <1>5, <1>6, <1>7, <1>8, <1>9, <1>10 DEF Next

-----------------------------------------------------------------------------

LEMMA InvStep == Inv /\ [Next]_vars => Inv'
<1> SUFFICES ASSUME Inv, [Next]_vars PROVE Inv'
  OBVIOUS
<1>1. CASE Next
  <2>1. TypeOK'
    BY <1>1, TypeStep DEF Inv, ElectionInv
  <2>2. VotesRemembered' /\ VotesUnique'
    BY <1>1, VoteStep DEF Inv, ElectionInv
  <2>3. RequestsOpen' /\ RequestsDistinct' /\ AskedOnce'
    BY <1>1, RequestStep DEF Inv, ElectionInv
  <2>4. VotesCounted'
    BY <1>1, CountStep DEF Inv, ElectionInv
  <2>5. WinnersElected'
    BY <1>1, WinnerStep DEF Inv, ElectionInv
  <2>6. CommitsBacked'
    BY <1>1, CommitStep DEF Inv
  <2> QED
    BY <2>1, <2>2, <2>3, <2>4, <2>5, <2>6 DEF Inv, ElectionInv
<1>2. CASE UNCHANGED vars
  <2>1. TypeOK'
    BY <1>2 DEF vars, Inv, TypeOK
  <2>2. VotesRemembered' /\ VotesUnique'
    BY <1>2 DEF vars, Inv, ElectionInv, VotesRemembered, VotesUnique
  <2>3. RequestsOpen' /\ RequestsDistinct' /\ AskedOnce'
    BY <1>2
       DEF vars, Inv, ElectionInv, RequestsOpen, RequestsDistinct, AskedOnce
  <2>4. VotesCounted' /\ WinnersElected'
    BY <1>2, Zenon DEF vars, Inv, ElectionInv, VotesCounted, WinnersElected,
                       Majority, Voters
  <2>5. CommitsBacked'
    BY <1>2 DEF vars, Inv, CommitsBacked
  <2> QED
    BY <2>1, <2>2, <2>3, <2>4, <2>5 DEF Inv, ElectionInv
<1> QED
  BY <1>1, <1>2

LEMMA InvHolds == Spec => []Inv
BY InitInv, InvStep, PTL DEF Spec

\* Types hold, and votes_received never exceeds the number of nodes.
THEOREM TypeCorrect == Spec => []TypeOK
<1>1. Inv => TypeOK
  BY DEF Inv
<1> QED
  BY <1>1, InvHolds, PTL

\* For any number of nodes and terms, a node votes for one candidate a term.
THEOREM VotesCorrect == Spec => []OneVotePerTerm
<1>1. Inv => OneVotePerTerm
  <2> SUFFICES ASSUME Inv, NEW g \in granted, NEW h \in granted,
                      g[1] = h[1], g[2] = h[2]
               PROVE  g[3] = h[3]
    BY DEF OneVotePerTerm
  <2>1. g \in Node \X Term \X Node /\ h \in Node \X Term \X Node
    BY DEF Inv, TypeOK
  <2>2. g = <<g[1], g[2], g[3]>> /\ h = <<g[1], g[2], h[3]>>
    BY <2>1
  <2> QED
    BY <2>1, <2>2 DEF Inv, ElectionInv, VotesUnique
<1> QED
  BY <1>1, InvHolds, PTL

\* For any number of nodes and terms, the elections of a term have one winner.
THEOREM ElectionCorrect == Spec => []OneWinnerPerBallot
<1>1. Inv => OneWinnerPerBallot
  <2> SUFFICES ASSUME Inv, NEW g \in won, NEW h \in won, g[2] = h[2]
               PROVE  g[1] = h[1]
    BY DEF OneWinnerPerBallot
  <2> DEFINE t == g[2]
             A == Voters(granted, g[1], t)
             B == Voters(granted, h[1], t)
  <2>1. /\ g[1] \in Node /\ h[1] \in Node /\ t \in Term
        /\ g = <<g[1], t>> /\ h = <<h[1], t>>
    BY DEF Inv, TypeOK
  <2>2. Majority <= Cardinality(A) /\ Majority <= Cardinality(B)
    BY <2>1 DEF Inv, ElectionInv, WinnersElected
  <2>3. A \subseteq Node /\ B \subseteq Node
    BY DEF Voters
  <2>4. Cardinality(A) \in Nat /\ Cardinality(B) \in Nat
    BY VotersKept
  <2>5. A \intersect B # {}
    <3> HIDE DEF A, B
    <3>1. Cardinality(A) + Cardinality(B) > Cardinality(Node)
      BY <2>2, <2>4, NodeCount DEF Majority
    <3> QED
      BY <2>3, <3>1, NodesFinite, FS_MajoritiesIntersect
  <2>6. PICK v \in Node : v \in A /\ v \in B
    BY <2>3, <2>5
  <2>7. <<v, t, g[1]>> \in granted /\ <<v, t, h[1]>> \in granted
    BY <2>6 DEF Voters
  <2> QED
    BY <2>1, <2>7 DEF Inv, ElectionInv, VotesUnique
<1> QED
  BY <1>1, InvHolds, PTL

\* For any number of nodes, only entries of the own log are applied and every
\* commit index belongs to an entry of some node.
THEOREM CommitCorrect == Spec => []AppliedInLog
<1>1. Inv => AppliedInLog
  BY DEF Inv, CommitsBacked, AppliedInLog
<1> QED
  BY <1>1, InvHolds, PTL

\* A leader never changes its term while it stays in office.
THEOREM OfficeCorrect == Spec => TermFixedInOffice
<1> DEFINE Fixed == \A n \in Node : role[n] = LEADER /\ role'[n] = LEADER
                                      => term'[n] = term[n]
<1>1. TypeOK /\ [Next]_vars => [Fixed]_vars
  <2> SUFFICES ASSUME TypeOK, Next PROVE Fixed
    OBVIOUS
  <2>1. ASSUME UNCHANGED term PROVE Fixed
    BY <2>1
  <2>2. ASSUME NEW k \in Node, NEW t, StepDown(k, t) PROVE Fixed
    BY <2>2 DEF StepDown, TypeOK, LEADER, FOLLOWER
  <2>3. ASSUME NEW n \in Node, StartElection(n) PROVE Fixed
    BY <2>3 DEF StartElection, TypeOK, LEADER, FOLLOWER
  <2>4. ASSUME NEW m \in requests, HandleVoteRequest(m) PROVE Fixed
    BY <2>1, <2>2, <2>4, MessageTypes DEF HandleVoteRequest
  <2>5. ASSUME NEW m \in beats, HandleHeartbeat(m) \/ HandleAppendEntries(m)
        PROVE  Fixed
    BY <2>1, <2>2, <2>5, MessageTypes DEF HandleHeartbeat, HandleAppendEntries
  <2> HIDE DEF Fixed
  <2> QED
    BY <2>1, <2>3, <2>4, <2>5 DEF Next, Skip, Ask, GiveUp, FinishElection,
       SendHeartbeat, SendAppend, AppendLog, CommitTo
<1> QED
  BY <1>1, TypeCorrect, PTL DEF Spec, TermFixedInOffice
=============================================================================
