----------------------------- MODULE Membership -----------------------------
(***************************************************************************)
(* Changes of the set of voters: removeServer, addServer with its learner  *)
(* phase, and what elections and the commit rule make of a configuration   *)
(* that every node takes from its own log (internal/cluster/cluster.go,    *)
(* election.go, replication.go, config.go).                                *)
(*                                                                         *)
(* Module Raft has the message-by-message protocol for a fixed set of      *)
(* voters.  Here a vote request and an AppendEntries round are each one    *)
(* step of the two nodes; nextIndex, lost and late answers, disk errors    *)
(* and leadership transfer are left to that module.  An entry that is      *)
(* committed on a node is applied there, and a caller that waits wakes as  *)
(* soon as its node commits its entry or leads no more.                    *)
(***************************************************************************)
EXTENDS Integers, Sequences, SequencesExt, FiniteSetsExt, Functions

CONSTANTS
    Server,        \* every server that may ever join
    Node0,         \* the one that bootstraps as the leader of term 1
    Foundings,     \* the sets of servers a cluster may be founded with
    Campaigners,   \* bound: the servers whose election timers fire
    NoServer,      \* votedFor's noVote
    MaxLog,        \* bound: entries in a log
    MaxEvents      \* bound: campaigns and restarts

ASSUME MembershipAssumption ==
    /\ Node0 \in Server /\ NoServer \notin Server
    /\ \A f \in Foundings : f \subseteq Server /\ Node0 \in f
    /\ Campaigners \subseteq Server
    /\ MaxLog \in Nat /\ MaxEvents \in Nat

VARIABLES
    base,          \* base[s]: baseConfig
    term, votedFor, role, log, commit,
    votes,         \* votes[s]: who voted for s in its term
    match,         \* match[s]: matchIndex, for every peer that has a replicator
    call,          \* call[s]: the entry that the holder of commitMu waits for, or 0
    adding,        \* adding[s]: addServer while it waits for its learner
    events,        \* how many there were, for the bound
    \* History, read by no step of the program:
    early,         \* a leader changed the voters before it committed an entry of its term
    stale          \* a server was added by the matchIndex of an earlier leadership

nodes == <<base, term, votedFor, role, log, commit, votes, match, call, adding>>
vars == <<nodes, events, early, stale>>

-----------------------------------------------------------------------------
(* Logs and configurations.                                                *)

\* An entry is a change of the configuration or anything else.
Data == {}
MaxTerm == MaxEvents + 1
Entry == [term : 1 .. MaxTerm, config : SUBSET Server]

LastTerm(lg) == IF lg = <<>> THEN 0 ELSE Last(lg).term

ConfigEntries(lg) == {i \in DOMAIN lg : lg[i].config # Data}

\* deriveConfigLocked, adoptConfigLocked: the latest in the log, committed or not.
Config(s) == IF ConfigEntries(log[s]) = {} THEN base[s]
             ELSE log[s][Max(ConfigEntries(log[s]))].config

InConfig(s) == s \in Config(s)
VotingPeers(s) == Config(s) \ {s}
Majority(s) == Cardinality(Config(s)) \div 2 + 1

\* The one-change-at-a-time gate.
LatestConfigEntryCommitted(s) == \A i \in ConfigEntries(log[s]) : i <= commit[s]

\* The highest index that a majority of the voters holds, for all the leader
\* knows; the leader counts itself only as a voter.
Tallied(s, lg, config, known) ==
    LET holds(p) == IF p = s THEN Len(lg) ELSE known[p]
        enough(i) == Cardinality({p \in config : holds(p) >= i}) >= Cardinality(config) \div 2 + 1
    IN  Max({i \in 0 .. Len(lg) : enough(i)})

\* maybeAdvanceCommitLocked.
AdvancedCommit(s, lg, config, known) ==
    LET cand == Tallied(s, lg, config, known)
    IN  IF cand > commit[s] /\ lg[cand].term = term[s] THEN cand ELSE commit[s]

-----------------------------------------------------------------------------
NotAdding == [id |-> NoServer, target |-> 0]

\* A cluster that was just founded, or was since closed and opened again.
Init ==
    /\ \E f \in Foundings :
          /\ base = [s \in Server |-> IF s \in f THEN f ELSE {}]
          /\ match = [s \in Server |-> [p \in f \ {s} |-> 0]]
    /\ term = [s \in Server |-> 1]
    /\ votedFor = [s \in Server |-> IF s = Node0 THEN s ELSE NoServer]
    /\ \E first \in {"leader", "follower"} :
          role = [s \in Server |-> IF s = Node0 THEN first ELSE "follower"]
    /\ log = [s \in Server |-> <<>>]
    /\ commit = [s \in Server |-> 0]
    /\ votes = [s \in Server |-> {}]
    /\ call = [s \in Server |-> 0]
    /\ adding = [s \in Server |-> NotAdding]
    /\ events = 0
    /\ early = FALSE
    /\ stale = FALSE

\* stepDownLocked: a node that hears of a later term follows.  Calls on it return.
StepDown(s, t, vote) ==
    /\ term' = [term EXCEPT ![s] = t]
    /\ votedFor' = [votedFor EXCEPT ![s] = vote]
    /\ call' = [call EXCEPT ![s] = 0]
    /\ adding' = [adding EXCEPT ![s] = NotAdding]

Event == events < MaxEvents /\ events' = events + 1

-----------------------------------------------------------------------------
(* Elections.                                                              *)

\* Mutant: a server that was removed may stand.
CampaignAnyway(s) ==
    /\ s \in Campaigners
    /\ role[s] # "leader"
    /\ Event
    /\ term' = [term EXCEPT ![s] = @ + 1]
    /\ role' = [role EXCEPT ![s] = "candidate"]
    /\ votedFor' = [votedFor EXCEPT ![s] = s]
    /\ votes' = [votes EXCEPT ![s] = {s}]
    /\ UNCHANGED <<base, log, commit, match, call, adding, early, stale>>

\* maybeStartElection: never outside one's own configuration.
Campaign(s) ==
    /\ s \in Campaigners
    /\ role[s] # "leader"
    /\ InConfig(s)
    /\ Event
    /\ term' = [term EXCEPT ![s] = @ + 1]
    /\ role' = [role EXCEPT ![s] = "candidate"]
    /\ votedFor' = [votedFor EXCEPT ![s] = s]
    /\ votes' = [votes EXCEPT ![s] = {s}]
    /\ UNCHANGED <<base, log, commit, match, call, adding, early, stale>>

\* Mutant: the longer log wins, whatever its last term.
UpToDateByLength(c, v) == Len(log[c]) >= Len(log[v])

\* candidateUpToDateLocked.
UpToDate(c, v) ==
    \/ LastTerm(log[c]) > LastTerm(log[v])
    \/ LastTerm(log[c]) = LastTerm(log[v]) /\ Len(log[c]) >= Len(log[v])

\* becomeLeaderLocked with reconcilePeersLocked: the voters' matchIndex starts
\* over; a peer that is no voter keeps the one it has.
LeaderMatch(s) ==
    [p \in DOMAIN match[s] \cup VotingPeers(s) |->
        IF p \in VotingPeers(s) THEN 0 ELSE match[s][p]]


\* handleRequestVote at v and handleVoteResponse at c.  A voter that has heard
\* from a leader ignores the request, and then nothing happens.
Grant(c, v) ==
    /\ role[c] = "candidate"
    /\ v \in VotingPeers(c) \ votes[c]
    /\ term[v] < term[c] \/ (term[v] = term[c] /\ votedFor[v] \in {NoServer, c})
    /\ UpToDate(c, v)
    /\ StepDown(v, term[c], c)
    /\ LET elected == Cardinality(votes[c]) + 1 >= Majority(c)
       IN  /\ role' = [role EXCEPT ![v] = "follower", ![c] = IF elected THEN "leader" ELSE @]
           /\ match' = IF elected THEN [match EXCEPT ![c] = LeaderMatch(c)] ELSE match
           /\ votes' = [votes EXCEPT ![v] = {}, ![c] = IF elected THEN {} ELSE @ \cup {v}]
    /\ UNCHANGED <<base, log, commit, events, early, stale>>

\* A voter without this candidate's vote still adopts its term; a candidate
\* adopts that of a voter ahead of it.
Follow(s, t) ==
    /\ StepDown(s, t, NoServer)
    /\ role' = [role EXCEPT ![s] = "follower"]
    /\ votes' = [votes EXCEPT ![s] = {}]

Refuse(c, v) ==
    /\ role[c] = "candidate"
    /\ v \in VotingPeers(c)
    /\ \/ term[v] < term[c] /\ ~UpToDate(c, v) /\ Follow(v, term[c])
       \/ term[v] > term[c] /\ Follow(c, term[v])
    /\ UNCHANGED <<base, log, commit, match, events, early, stale>>

-----------------------------------------------------------------------------
(* Replication, to every peer that has a replicator: voters, learners and  *)
(* servers that were removed.                                              *)

\* Mutant: entries at an index the log has are taken to be the same.
ReplicatedByLength(l, p) == IF Len(log[l]) <= Len(log[p]) THEN log[p] ELSE log[l]

\* handleAppendEntries: the entries that are missing or differ.
Replicated(l, p) == IF IsPrefix(log[l], log[p]) THEN log[p] ELSE log[l]

\* A matchIndex beyond the log goes with a nextIndex beyond it, on which sendLoop
\* panics.
Reaches(l, p) ==
    /\ role[l] = "leader"
    /\ p \in DOMAIN match[l]
    /\ match[l][p] <= Len(log[l])

\* A leader that committed what its caller waits for: the call is over, unless it
\* has to relinquish first.
StillWaiting(index, committed, config, s) ==
    IF index <= committed /\ s \in config THEN 0 ELSE index

Replicate(l, p) ==
    /\ Reaches(l, p)
    /\ term[p] <= term[l]
    /\ term' = [term EXCEPT ![p] = term[l]]
    /\ votedFor' = [votedFor EXCEPT ![p] = IF term[p] < term[l] THEN NoServer ELSE @]
    /\ role' = [role EXCEPT ![p] = "follower"]
    /\ votes' = [votes EXCEPT ![p] = {}]
    /\ adding' = [adding EXCEPT ![p] = NotAdding]
    /\ log' = [log EXCEPT ![p] = Replicated(l, p)]
    /\ LET known == [match[l] EXCEPT ![p] = Max({@, Len(log[l])})]
           now   == AdvancedCommit(l, log[l], Config(l), known)
       IN  /\ match' = [match EXCEPT ![l] = known]
           /\ commit' = [commit EXCEPT
                 ![p] = Max({@, Min({commit[l], Len(Replicated(l, p))})}), ![l] = now]
           /\ call' = [call EXCEPT ![p] = 0, ![l] = StillWaiting(@, now, Config(l), l)]
    /\ UNCHANGED <<base, events, early, stale>>

\* The peer is in a later term.
RefuseAppend(l, p) ==
    /\ Reaches(l, p)
    /\ term[p] > term[l]
    /\ Follow(l, term[p])
    /\ UNCHANGED <<base, log, commit, match, events, early, stale>>

-----------------------------------------------------------------------------
(* Calls.  proposeAndAwait is entered with commitMu held, and held until   *)
(* the entry is applied or the node leads no more.                         *)

Propose(s, config) ==
    /\ role[s] = "leader"
    /\ call[s] = 0
    /\ Len(log[s]) < MaxLog
    /\ LET lg  == Append(log[s], [term |-> term[s], config |-> config])
           cfg == IF config = Data THEN Config(s) ELSE config
           now == AdvancedCommit(s, lg, cfg, match[s])
       IN  /\ log' = [log EXCEPT ![s] = lg]
           /\ commit' = [commit EXCEPT ![s] = now]
           /\ call' = [call EXCEPT ![s] = StillWaiting(Len(lg), now, cfg, s)]

\* A commit or a read barrier.
Put(s) ==
    /\ Propose(s, Data)
    /\ UNCHANGED <<base, term, votedFor, role, votes, match, adding, events, early, stale>>

\* A leader other than the first that has committed nothing of its own term.
Unproven(s) == term[s] > 1 /\ \A i \in 1 .. commit[s] : log[s][i].term # term[s]

\* removeServer, up to its wait.
RemoveServer(s, id) ==
    /\ LatestConfigEntryCommitted(s)
    /\ id \in Config(s)
    /\ Config(s) # {id}
    /\ Propose(s, Config(s) \ {id})
    /\ early' = (early \/ Unproven(s))
    /\ UNCHANGED <<base, term, votedFor, role, votes, match, adding, events, stale>>

\* Its end, when the leader removed itself: relinquishLeadershipLocked.
Relinquish(s) ==
    /\ role[s] = "leader"
    /\ call[s] # 0 /\ call[s] <= commit[s]
    /\ ~InConfig(s)
    /\ role' = [role EXCEPT ![s] = "follower"]
    /\ call' = [call EXCEPT ![s] = 0]
    /\ adding' = [adding EXCEPT ![s] = NotAdding]
    /\ UNCHANGED <<base, term, votedFor, log, commit, votes, match, events, early, stale>>

\* addServer, first phase: ensurePeerLocked.
AddLearner(s, id) ==
    /\ role[s] = "leader"
    /\ adding[s] = NotAdding
    /\ id \notin Config(s)
    /\ id # s
    /\ match' = [match EXCEPT ![s] = IF id \in DOMAIN @ THEN @
                                     ELSE [p \in DOMAIN @ \cup {id} |-> IF p = id THEN 0 ELSE @[p]]]
    /\ adding' = [adding EXCEPT ![s] = [id |-> id, target |-> commit[s]]]
    /\ UNCHANGED <<base, term, votedFor, role, log, commit, votes, call, events, early, stale>>

\* What p has of the log of l.
Agreed(l, p) ==
    Max({i \in 0 .. Min({Len(log[l]), Len(log[p])}) :
            SubSeq(log[l], 1, i) = SubSeq(log[p], 1, i)})

\* The last phase, once the learner has caught up.
PromoteLearner(s) ==
    LET id == adding[s].id
    IN  /\ adding[s] # NotAdding
        /\ match[s][id] >= adding[s].target
        /\ LatestConfigEntryCommitted(s)
        /\ Propose(s, Config(s) \cup {id})
        /\ adding' = [adding EXCEPT ![s] = NotAdding]
        /\ early' = (early \/ Unproven(s))
        /\ stale' = (stale \/ match[s][id] > Agreed(s, id))
        /\ UNCHANGED <<base, term, votedFor, role, votes, match, events>>

\* It timed out, or found another change in progress.
AddFails(s) ==
    /\ adding[s] # NotAdding
    /\ \/ match[s][adding[s].id] < adding[s].target
       \/ call[s] = 0 /\ ~LatestConfigEntryCommitted(s)
    /\ adding' = [adding EXCEPT ![s] = NotAdding]
    /\ UNCHANGED <<base, term, votedFor, role, log, commit, votes, match, call, events, early, stale>>

\* buildNode over the files of a node that crashed.  (A follower has nothing but
\* its files to lose.)
Restart(s) ==
    /\ role[s] # "follower"
    /\ Event
    /\ role' = [role EXCEPT ![s] = "follower"]
    /\ votes' = [votes EXCEPT ![s] = {}]
    /\ match' = [match EXCEPT ![s] = [p \in DOMAIN @ |-> 0]]
    /\ call' = [call EXCEPT ![s] = 0]
    /\ adding' = [adding EXCEPT ![s] = NotAdding]
    /\ UNCHANGED <<base, term, votedFor, log, commit, early, stale>>

-----------------------------------------------------------------------------
Next ==
    \E s \in Server :
        \/ Campaign(s)
        \/ Put(s)
        \/ PromoteLearner(s)
        \/ AddFails(s)
        \/ Relinquish(s)
        \/ Restart(s)
        \/ \E p \in Server :
              \/ Grant(s, p)
              \/ Replicate(s, p)
              \/ Refuse(s, p)
              \/ RefuseAppend(s, p)
              \/ RemoveServer(s, p)
              \/ AddLearner(s, p)

Spec == Init /\ [][Next]_vars

-----------------------------------------------------------------------------
(* Properties.                                                             *)

\* Every variable has its type.
TypeOK ==
    /\ term \in [Server -> 1 .. MaxTerm]
    /\ votedFor \in [Server -> Server \cup {NoServer}]
    /\ role \in [Server -> {"follower", "candidate", "leader"}]
    /\ \A s \in Server :
          /\ log[s] \in Seq(Entry) /\ Len(log[s]) <= MaxLog
          /\ commit[s] \in 0 .. Len(log[s])
          /\ DOMAIN match[s] \subseteq Server \ {s}
          /\ \A p \in DOMAIN match[s] : match[s][p] \in 0 .. MaxLog


\* Whoever leads holds every entry that is committed on a node of its term or an
\* earlier one, through any sequence of removals and additions, unless a leader
\* changed the voters before it had committed an entry of its own term, or added a
\* server by a matchIndex of an earlier leadership (removeServer, addServer,
\* maybeAdvanceCommitLocked).
LeaderHoldsCommitted(l, s) ==
    role[l] = "leader" /\ term[l] >= term[s] => Agreed(l, s) >= commit[s]

ChangesAreSafeUnlessEarly ==
    early \/ stale \/ \A l, s \in Server : LeaderHoldsCommitted(l, s)

\* The same with no exception: what the comment on removeServer says.
ChangesAreSafe == \A l, s \in Server : LeaderHoldsCommitted(l, s)

\* What a leader counts towards a commit is on the voter it counts
\* (becomeLeaderLocked, ensurePeerLocked, onAppendSuccessLocked).
CountedIsHeld ==
    early \/ stale \/
        \A l \in Server : role[l] = "leader" =>
            \A p \in VotingPeers(l) : term[p] <= term[l] => match[l][p] <= Agreed(l, p)

\* A server that is not a voter in its own log leads only to see its own removal
\* through: no election makes it a leader, and no later change starts from it.
OutsidersOnlyFinish ==
    [][\A s \in Server : role'[s] = "leader" /\ ~InConfig(s)' =>
          role[s] = "leader" /\ call'[s] # 0 /\ s \notin log'[s][call'[s]].config]_vars

=============================================================================
