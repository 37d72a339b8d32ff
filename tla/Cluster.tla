------------------------------- MODULE Cluster -------------------------------
(***************************************************************************)
(* Leader election and the commit index of cluster.c: the heartbeat thread  *)
(* of every node, which runs elections and sends heartbeats, and the        *)
(* handlers for what other nodes send.                                      *)
(*                                                                         *)
(* The repository holds the handlers and no dispatcher for them, no sender  *)
(* of append-entries requests and no caller of raft_commit_to.  Assumed of  *)
(* that code: one handler call is one step; a request goes out on a         *)
(* connection of its own, so it arrives at most once, late or never; an     *)
(* append-entries request repeats the sender's term, log and commit index;  *)
(* raft_commit_to is called with the commit index or with an index of the   *)
(* log.  Membership is fixed and a node that stops does not return:         *)
(* nothing of this state is kept on disk.                                   *)
(***************************************************************************)
EXTENDS Integers, Sequences, FiniteSets

CONSTANTS Node,     \* the members of the node table
          None,     \* voted_for = 0
          MaxTerm,  \* bound: no election beyond this term
          MaxLog,   \* bound: entries of a log
          MaxElections, \* bound: elections of all nodes together
          MaxBeats  \* bound: leader messages under way

ASSUME NodesFinite == IsFiniteSet(Node)
ASSUME NoneNotNode == None \notin Node
ASSUME BoundsNatural == {MaxTerm, MaxElections, MaxLog, MaxBeats} \subseteq Nat

FOLLOWER == "follower"
CANDIDATE == "candidate"
LEADER == "leader"

VARIABLES
  role,         \* current_role
  term,         \* raft.current_term
  votedFor,     \* raft.voted_for
  votes,        \* raft.votes_received
  log,          \* raft.log, an entry is its term
  commitIndex,  \* raft.commit_index
  lastApplied,  \* raft.last_applied
  ballot,       \* request.header.term of the running election, 0 if none runs
  toAsk,        \* nodes the loop of the running election has not reached
  waiting,      \* the node whose answer the loop waits for
  requests,     \* vote requests under way
  beats,        \* heartbeats and append-entries requests under way
  granted,      \* <<voter, term, candidate>>: votes given, own ones included
  won           \* <<node, ballot>>: elections won

electionVars == <<ballot, toAsk, waiting>>
logVars == <<log, commitIndex, lastApplied>>
historyVars == <<granted, won>>
vars == <<role, term, votedFor, votes, log, commitIndex, lastApplied, ballot,
          toAsk, waiting, requests, beats, granted, won>>

Term == 0 .. MaxTerm
VoteRequest == [from : Node, to : Node, term : Term,
                lastIndex : 0 .. MaxLog, lastTerm : Term]
LeaderMessage == [type : {"heartbeat", "append"}, from : Node, to : Node,
                  term : Term, commit : 0 .. MaxLog,
                  prevIndex : 0 .. MaxLog, prevTerm : Term]

Init ==
  /\ role = [n \in Node |-> FOLLOWER]
  /\ term = [n \in Node |-> 0]
  /\ votedFor = [n \in Node |-> None]
  /\ votes = [n \in Node |-> 0]
  /\ log = [n \in Node |-> <<>>]
  /\ commitIndex = [n \in Node |-> 0]
  /\ lastApplied = [n \in Node |-> 0]
  /\ ballot = [n \in Node |-> 0]
  /\ toAsk = [n \in Node |-> {}]
  /\ waiting = [n \in Node |-> None]
  /\ requests = {}
  /\ beats = {}
  /\ granted = {}
  /\ won = {}

-----------------------------------------------------------------------------
(* Elections: the heartbeat thread of a node. *)

TermAt(n, i) == IF i = 0 THEN 0 ELSE log[n][i]
LastTerm(n) == TermAt(n, Len(log[n]))
Majority == Cardinality(Node) \div 2 + 1

(* Elections begun so far (total_elections of all nodes). *)
Elections == {g \in granted : g[1] = g[3]}

(* raft_start_election up to the loop over the nodes. *)
StartElection(n) ==
  /\ ballot[n] = 0 /\ role[n] = FOLLOWER
  /\ term[n] < MaxTerm /\ Cardinality(Elections) < MaxElections
  /\ role' = [role EXCEPT ![n] = CANDIDATE]
  /\ term' = [term EXCEPT ![n] = @ + 1]
  /\ votedFor' = [votedFor EXCEPT ![n] = n]
  /\ votes' = [votes EXCEPT ![n] = 1]
  /\ ballot' = [ballot EXCEPT ![n] = term[n] + 1]
  /\ toAsk' = [toAsk EXCEPT ![n] = Node \ {n}]
  /\ granted' = granted \union {<<n, term[n] + 1, n>>}
  /\ UNCHANGED <<logVars, waiting, requests, beats, won>>

(* The loop passes over p: DEAD, or the connection is refused. *)
Skip(n, p) ==
  /\ ballot[n] # 0 /\ waiting[n] = None
  /\ p \in toAsk[n]
  /\ toAsk' = [toAsk EXCEPT ![n] = @ \ {p}]
  /\ UNCHANGED <<role, term, votedFor, votes, logVars, ballot, waiting,
                 requests, beats, historyVars>>

(* The loop sends p the request and waits for the answer.  The request was  *)
(* built before the loop; the log of a node grows only while it leads.       *)
Ask(n, p) ==
  /\ ballot[n] # 0 /\ waiting[n] = None
  /\ p \in toAsk[n]
  /\ toAsk' = [toAsk EXCEPT ![n] = @ \ {p}]
  /\ waiting' = [waiting EXCEPT ![n] = p]
  /\ requests' = requests \union
       {[from |-> n, to |-> p, term |-> ballot[n],
         lastIndex |-> Len(log[n]), lastTerm |-> LastTerm(n)]}
  /\ UNCHANGED <<role, term, votedFor, votes, logVars, ballot, beats,
                 historyVars>>

(* The receive times out after five seconds. *)
GiveUp(n) ==
  /\ waiting[n] # None
  /\ waiting' = [waiting EXCEPT ![n] = None]
  /\ UNCHANGED <<role, term, votedFor, votes, logVars, ballot, toAsk,
                 requests, beats, historyVars>>

HeartbeatTo(n, p) ==
  [type |-> "heartbeat", from |-> n, to |-> p, term |-> term[n],
   commit |-> commitIndex[n], prevIndex |-> 0, prevTerm |-> 0]

(* heartbeat_send_all reaches the nodes of S; others are DEAD or refuse. *)
SendAll(n, S) ==
  /\ Cardinality(beats) + Cardinality(S) <= MaxBeats
  /\ beats' = beats \union {HeartbeatTo(n, p) : p \in S}

(* Mutant: half of the nodes count as a majority. *)
HasMajorityHalf(n) == votes[n] >= Cardinality(Node) \div 2

HasMajority(n) == votes[n] >= Majority

(* The end of raft_start_election.  Whether the node has stepped down or     *)
(* moved to a later term since it asked is not looked at.                    *)
FinishElection(n) ==
  /\ ballot[n] # 0 /\ waiting[n] = None /\ toAsk[n] = {}
  /\ ballot' = [ballot EXCEPT ![n] = 0]
  /\ \/ /\ HasMajority(n)
        /\ role' = [role EXCEPT ![n] = LEADER]
        /\ won' = won \union {<<n, ballot[n]>>}
        /\ \E S \in SUBSET (Node \ {n}) : SendAll(n, S)
     \/ /\ ~HasMajority(n)
        /\ role' = [role EXCEPT ![n] = FOLLOWER]
        /\ UNCHANGED <<won, beats>>
  /\ UNCHANGED <<term, votedFor, votes, logVars, toAsk, waiting, requests,
                 granted>>

(* heartbeat_thread_func of a leader. *)
SendHeartbeat(n) ==
  /\ ballot[n] = 0 /\ role[n] = LEADER
  /\ \E S \in SUBSET (Node \ {n}) \ {{}} : SendAll(n, S)
  /\ UNCHANGED <<role, term, votedFor, votes, logVars, electionVars, requests,
                 historyVars>>

(* External: the leader sends an append-entries request after entry i. *)
SendAppend(n, p, i) ==
  /\ role[n] = LEADER
  /\ Cardinality(beats) < MaxBeats
  /\ beats' = beats \union
       {[type |-> "append", from |-> n, to |-> p, term |-> term[n],
         commit |-> commitIndex[n], prevIndex |-> i,
         prevTerm |-> TermAt(n, i)]}
  /\ UNCHANGED <<role, term, votedFor, votes, logVars, electionVars, requests,
                 historyVars>>

-----------------------------------------------------------------------------
(* The handlers. *)

UpToDate(m) ==
  LET n == m.to IN
  \/ m.lastTerm > LastTerm(n)
  \/ m.lastTerm = LastTerm(n) /\ m.lastIndex >= Len(log[n])

(* voted_for as the handler of m compares it: cleared by a later term. *)
VotedBefore(m) == IF m.term > term[m.to] THEN None ELSE votedFor[m.to]

(* Mutant: the earlier vote is not looked at. *)
GrantsTwice(m) ==
  /\ m.term >= term[m.to]
  /\ UpToDate(m)

Grants(m) ==
  /\ m.term >= term[m.to]
  /\ VotedBefore(m) \in {None, m.from}
  /\ UpToDate(m)

(* What a message of a later term does to its receiver. *)
StepDown(n, t) ==
  /\ term' = [term EXCEPT ![n] = t]
  /\ role' = [role EXCEPT ![n] = FOLLOWER]

(* raft_handle_vote_request, and the answer on the same connection: counted  *)
(* if the candidate still waits and the answer is not lost.                  *)
HandleVoteRequest(m) ==
  /\ requests' = requests \ {m}
  /\ \/ m.term > term[m.to] /\ StepDown(m.to, m.term)
     \/ m.term <= term[m.to] /\ UNCHANGED <<term, role>>
  /\ votedFor' = [votedFor EXCEPT ![m.to] =
       IF Grants(m) THEN m.from ELSE VotedBefore(m)]
  /\ granted' = IF Grants(m) THEN granted \union {<<m.to, m.term, m.from>>}
                ELSE granted
  /\ \/ /\ waiting[m.from] = m.to /\ ballot[m.from] = m.term
        /\ waiting' = [waiting EXCEPT ![m.from] = None]
        /\ votes' = [votes EXCEPT ![m.from] = IF Grants(m) THEN @ + 1 ELSE @]
     \/ UNCHANGED <<waiting, votes>>
  /\ UNCHANGED <<logVars, ballot, toAsk, beats, won>>

(* Mutant: a later term is taken over, the role is kept. *)
HandleHeartbeatKeepRole(m) ==
  /\ m.type = "heartbeat"
  /\ beats' = beats \ {m}
  /\ \/ /\ m.term > term[m.to]
        /\ term' = [term EXCEPT ![m.to] = m.term]
        /\ votedFor' = [votedFor EXCEPT ![m.to] = None]
     \/ /\ m.term <= term[m.to]
        /\ UNCHANGED <<term, votedFor>>
  /\ commitIndex' = [commitIndex EXCEPT ![m.to] =
       IF m.term >= term[m.to] /\ m.commit > @ THEN m.commit ELSE @]
  /\ UNCHANGED <<role, votes, log, lastApplied, electionVars, requests,
                 historyVars>>

(* heartbeat_handle: commit_index follows the leader's, whatever the log. *)
HandleHeartbeat(m) ==
  /\ m.type = "heartbeat"
  /\ beats' = beats \ {m}
  /\ \/ /\ m.term > term[m.to]
        /\ StepDown(m.to, m.term)
        /\ votedFor' = [votedFor EXCEPT ![m.to] = None]
     \/ /\ m.term <= term[m.to]
        /\ UNCHANGED <<term, role, votedFor>>
  /\ commitIndex' = [commitIndex EXCEPT ![m.to] =
       IF m.term >= term[m.to] /\ m.commit > @ THEN m.commit ELSE @]
  /\ UNCHANGED <<votes, log, lastApplied, electionVars, requests, historyVars>>

Matches(m) ==
  \/ m.prevIndex = 0
  \/ /\ m.prevIndex <= Len(log[m.to])
     /\ log[m.to][m.prevIndex] = m.prevTerm

Smaller(i, j) == IF i < j THEN i ELSE j

(* raft_handle_append_entries: voted_for outlives the change of term. *)
HandleAppendEntries(m) ==
  /\ m.type = "append"
  /\ beats' = beats \ {m}
  /\ \/ m.term >= term[m.to] /\ StepDown(m.to, m.term)
     \/ m.term < term[m.to] /\ UNCHANGED <<term, role>>
  /\ commitIndex' = [commitIndex EXCEPT ![m.to] =
       IF m.term >= term[m.to] /\ Matches(m) /\ m.commit > @
       THEN Smaller(m.commit, Len(log[m.to])) ELSE @]
  /\ UNCHANGED <<votedFor, votes, log, lastApplied, electionVars, requests,
                 historyVars>>

(* raft_append_log. *)
AppendLog(n) ==
  /\ role[n] = LEADER
  /\ Len(log[n]) < MaxLog
  /\ log' = [log EXCEPT ![n] = Append(@, term[n])]
  /\ UNCHANGED <<role, term, votedFor, votes, commitIndex, lastApplied,
                 electionVars, requests, beats, historyVars>>

(* Mutant: the loop does not stop at the end of the log. *)
CommitToUnbounded(n, i) ==
  /\ i \in 1 .. Len(log[n]) \union {commitIndex[n]}
  /\ lastApplied' = [lastApplied EXCEPT ![n] = IF @ < i THEN i ELSE @]
  /\ commitIndex' = [commitIndex EXCEPT ![n] = i]
  /\ UNCHANGED <<role, term, votedFor, votes, log, electionVars, requests,
                 beats, historyVars>>

(* raft_commit_to. *)
CommitTo(n, i) ==
  /\ i \in 1 .. Len(log[n]) \union {commitIndex[n]}
  /\ lastApplied' = [lastApplied EXCEPT ![n] =
       IF @ < i THEN Smaller(i, Len(log[n])) ELSE @]
  /\ commitIndex' = [commitIndex EXCEPT ![n] = i]
  /\ UNCHANGED <<role, term, votedFor, votes, log, electionVars, requests,
                 beats, historyVars>>

Next ==
  \/ \E n \in Node :
       \/ StartElection(n)
       \/ \E p \in Node : Skip(n, p) \/ Ask(n, p)
       \/ GiveUp(n)
       \/ FinishElection(n)
       \/ SendHeartbeat(n)
       \/ \E p \in Node \ {n}, i \in 0 .. Len(log[n]) : SendAppend(n, p, i)
       \/ AppendLog(n)
       \/ \E i \in 0 .. MaxLog : CommitTo(n, i)
  \/ \E m \in requests : HandleVoteRequest(m)
  \/ \E m \in beats : HandleHeartbeat(m) \/ HandleAppendEntries(m)

Spec == Init /\ [][Next]_vars

-----------------------------------------------------------------------------
(* Properties *)

(* Every variable has its type; a candidate never counts more votes than     *)
(* there are nodes (raft.votes_received).                                    *)
TypeOK ==
  /\ role \in [Node -> {FOLLOWER, CANDIDATE, LEADER}]
  /\ term \in [Node -> Term]
  /\ votedFor \in [Node -> Node \union {None}]
  /\ votes \in [Node -> 0 .. Cardinality(Node)]
  /\ log \in [Node -> Seq(Term)]
  /\ \A n \in Node : Len(log[n]) <= MaxLog
  /\ commitIndex \in [Node -> 0 .. MaxLog]
  /\ lastApplied \in [Node -> 0 .. MaxLog]
  /\ ballot \in [Node -> Term]
  /\ toAsk \in [Node -> SUBSET Node]
  /\ waiting \in [Node -> Node \union {None}]
  /\ requests \subseteq VoteRequest
  /\ beats \subseteq LeaderMessage
  /\ granted \subseteq Node \X Term \X Node
  /\ won \subseteq Node \X Term

(* A node gives its vote of a term to one candidate (raft_handle_vote_request *)
(* and raft_start_election), although raft_handle_append_entries moves to a   *)
(* later term and keeps voted_for, and answers come late.                     *)
OneVotePerTerm ==
  \A g, h \in granted : g[1] = h[1] /\ g[2] = h[2] => g[3] = h[3]

(* Two nodes never win elections with requests of the same term, however late *)
(* requests arrive and whatever the candidates hear while they collect votes. *)
OneWinnerPerBallot ==
  \A g, h \in won : g[2] = h[2] => g[1] = h[1]

(* A leader stays in the term in which it took office: a later term takes     *)
(* its office away (heartbeat_handle, both raft_handle functions).            *)
TermFixedInOffice ==
  [][\A n \in Node : role[n] = LEADER /\ role'[n] = LEADER
                       => term'[n] = term[n]]_vars

(* Only entries of the node's own log are applied (raft_commit_to), although  *)
(* heartbeat_handle lets commit_index run ahead of the log; and a commit      *)
(* index always belongs to an entry some node has.                            *)
AppliedInLog ==
  \A n \in Node :
    /\ lastApplied[n] <= Len(log[n])
    /\ \E m \in Node : commitIndex[n] <= Len(log[m])
=============================================================================
