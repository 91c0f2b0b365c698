-------------------------------- MODULE Raft --------------------------------
(***************************************************************************)
(* The consensus core of internal/cluster: elections with a durable vote,  *)
(* log replication by one stop-and-wait round per follower, the quorum     *)
(* commit rule, the apply loop, the proposal a client waits on, leadership *)
(* transfer and cold restart.  The voting membership is fixed to Server    *)
(* and no log prefix is compacted (SnapshotThreshold <= 0).                *)
(*                                                                         *)
(* One action is one critical section under a node's raftMu, with the send *)
(* that follows it.  Sends leave raftMu first, so the order in which two   *)
(* messages of one node reach an inbox is not the order of the sections    *)
(* that produced them: net is a set, and any message in it may be next.    *)
(* The Raft log file and the in-memory log change together under raftMu    *)
(* and are one variable here.  Time is left out: a timer may fire at any   *)
(* moment, and a test of elapsed time may go either way.                   *)
(***************************************************************************)
EXTENDS Integers, Sequences, FiniteSets

CONSTANTS
    Server,        \* the founding members, all of them voters
    Bootstrap,     \* node 0, which starts as the leader of term 1
    Value,         \* what a client can propose
    NoVote,        \* votedFor = noVote
    Campaigner,    \* bound: who may start an election
    SkipNoOps,     \* bound: leave out messages that can change nothing?
    MaxTerm,       \* bound: no election starts beyond this term
    MaxIndex,      \* bound: no proposal makes a log longer than this
    MaxEvents,     \* bound: how often each rare event happens
    LateReplies,   \* may a reply outlive the wait of the round that asked?
    LateWakeups    \* may a deposed leader's waiter wake after later applies?

EventKind == {"round", "persist", "disk", "loss", "crash", "transfer"}

\* In MaxEvents: this kind of event is not counted.
Unlimited == -1

ASSUME ServerAssumption ==
    /\ IsFiniteSet(Server)
    /\ Bootstrap \in Server
    /\ NoVote \notin Server

ASSUME BoundAssumption ==
    /\ Campaigner \subseteq Server
    /\ SkipNoOps \in BOOLEAN
    /\ MaxTerm \in Nat
    /\ MaxIndex \in Nat
    /\ MaxEvents \in [EventKind -> Nat \cup {Unlimited}]
    /\ LateReplies \in BOOLEAN
    /\ LateWakeups \in BOOLEAN

VARIABLES
    role, currentTerm, votedFor, votesReceived,
    contact,       \* has heard from a leader since it started
    hard,          \* raft/state: the durable term and vote
    log, commitIndex,
    applied,       \* what the store has applied; lastApplied is its length
    nextIndex, matchIndex,
    round,         \* the AppendEntries a replicator goroutine waits on
    waiting,       \* the proposal proposeAndAwait waits on (commitMu: one)
    transferring,
    xfers,         \* the running transferLeadership calls
    net,           \* messages sent and neither handled nor lost
    panicked,      \* a goroutine panicked, which ends the process
    used,          \* how many of each rare event have happened
    ballots,       \* history: votes that were durably cast
    tally,         \* history: whose votes votesReceived counts
    elected,       \* history: who has led which term
    acked          \* history: proposals reported to a client as committed

voteVars == <<role, currentTerm, votedFor, votesReceived, contact, hard>>
logVars == <<log, commitIndex, applied>>
replVars == <<nextIndex, matchIndex, round>>
xferVars == <<transferring, xfers>>
clientVars == <<waiting, acked>>
electionHistory == <<ballots, tally, elected>>
vars == <<voteVars, logVars, replVars, xferVars, clientVars,
          electionHistory, net, panicked, used>>

-----------------------------------------------------------------------------
Follower == "follower"
Candidate == "candidate"
Leader == "leader"

NoRound == [term |-> 0, prev |-> 0, len |-> 0]
NoWait == [index |-> 0, entry |-> [term |-> 0, val |-> NoVote]]

Entry == [term : Nat, val : Value]

\* Mutant: half of the members are enough.
HalfOfServers == Cardinality(Server) \div 2

Majority == Cardinality(Server) \div 2 + 1

LastIndex(n) == Len(log[n])

LogTerm(lg, i) == IF i = 0 THEN 0 ELSE lg[i].term

LastTerm(n) == LogTerm(log[n], LastIndex(n))

LastApplied(n) == Len(applied[n])

\* One more event of the given kind is allowed, and is counted.
Spend(kind) ==
    IF MaxEvents[kind] = Unlimited
      THEN UNCHANGED used
      ELSE /\ used[kind] < MaxEvents[kind]
           /\ used' = [used EXCEPT ![kind] = @ + 1]

Peers(n) == Server \ {n}

\* Mutant: only the last terms are compared.
CandidateTermUpToDate(n, candIndex, candTerm) == candTerm >= LastTerm(n)

\* A candidate's (lastIndex, lastTerm) is at least as up-to-date as n's log.
CandidateUpToDate(n, candIndex, candTerm) ==
    IF candTerm # LastTerm(n)
      THEN candTerm > LastTerm(n)
      ELSE candIndex >= LastIndex(n)

\* Mutant: the entry at prev may be of any term.
HasPrev(lg, prev, prevTerm) == prev <= Len(lg)

MatchesPrev(lg, prev, prevTerm) ==
    prev <= Len(lg) /\ LogTerm(lg, prev) = prevTerm

\* Mutant: a conflicting entry is taken for the same one.
IsPastEnd(lg, prev, es, i) == prev + i > Len(lg)

\* The loop of handleAppendEntries must write entry i of es: it is past the
\* end of lg, or its term conflicts.
IsNew(lg, prev, es, i) ==
    prev + i > Len(lg) \/ lg[prev + i].term # es[i].term

\* The log once the loop has handled the first k entries of es: lg up to the
\* first entry that is new, es from there on.
AppendedUpTo(lg, prev, es, k) ==
    IF \A i \in 1..k : ~ IsNew(lg, prev, es, i)
      THEN lg
      ELSE [j \in 1..(prev + k) |->
              IF \A i \in 1..k : prev + i <= j => ~ IsNew(lg, prev, es, i)
                THEN lg[j]
                ELSE es[j - prev]]

\* Mutant: the truncation before the failed write cuts one entry too many.
OverTruncated(lg, prev, es) ==
    UNION { {AppendedUpTo(lg, prev, es, k),
             SubSeq(AppendedUpTo(lg, prev, es, k), 1, prev + k - 1)} :
            k \in {l \in 0..(Len(es) - 1) :
                     \E i \in 1..(l + 1) : IsNew(lg, prev, es, i)} }

\* The logs a disk error can leave behind: the loop stopped at entry k + 1,
\* which it had to write, before or after the truncation.
FailedAppends(lg, prev, es) ==
    UNION { {AppendedUpTo(lg, prev, es, k),
             SubSeq(AppendedUpTo(lg, prev, es, k), 1, prev + k)} :
            k \in {l \in 0..(Len(es) - 1) :
                     \E i \in 1..(l + 1) : IsNew(lg, prev, es, i)} }

\* Mutant: one holder less is enough.
HeldByFewer(n, last, match, i) ==
    Cardinality({s \in Server : IF s = n THEN last >= i
                                         ELSE match[s] >= i}) >= Majority - 1

HeldByMajority(n, last, match, i) ==
    Cardinality({s \in Server : IF s = n THEN last >= i
                                         ELSE match[s] >= i}) >= Majority

\* i is the highest index a strict majority holds, n itself at its lastIndex.
IsCommitCandidate(n, last, match, i) ==
    /\ HeldByMajority(n, last, match, i)
    /\ \A j \in (i + 1)..last : ~ HeldByMajority(n, last, match, j)

\* Mutant: an entry of an earlier term is committed by counting replicas.
MayCommitAnyTerm(n, lg, match, i) == IsCommitCandidate(n, Len(lg), match, i)

\* maybeAdvanceCommitLocked on a leader n whose log is lg.
MayCommit(n, lg, match, i) ==
    IsCommitCandidate(n, Len(lg), match, i) /\ lg[i].term = currentTerm[n]

AdvancedCommit(n, lg, match) ==
    IF \E i \in (commitIndex[n] + 1)..Len(lg) : MayCommit(n, lg, match, i)
      THEN CHOOSE i \in (commitIndex[n] + 1)..Len(lg) :
             MayCommit(n, lg, match, i)
      ELSE commitIndex[n]

-----------------------------------------------------------------------------
(* Writing raft/state: temp, fsync, rename, fsync of the directory.  A save  *)
(* that reports an error may still have put the new file in place.           *)

HardState(t, v) == [term |-> t, vote |-> v]

Ballot(voter, t, cand) == [voter |-> voter, term |-> t, cand |-> cand]

\* Mutant: the term is written, the vote is not.
SaveTermOnly(n, t, v) ==
    /\ hard' = [hard EXCEPT ![n] = HardState(t, NoVote)]
    /\ UNCHANGED used

Save(n, t, v) ==
    /\ hard' = [hard EXCEPT ![n] = HardState(t, v)]
    /\ UNCHANGED used

SaveFails(n, t, v) ==
    /\ Spend("persist")
    /\ hard' \in {hard, [hard EXCEPT ![n] = HardState(t, v)]}

\* stepDownLocked(t) but for the role.  Its failed save is ignored.
AdoptTerm(n, t) ==
    /\ currentTerm' = [currentTerm EXCEPT ![n] = t]
    /\ votedFor' = [votedFor EXCEPT ![n] = NoVote]
    /\ transferring' = [transferring EXCEPT ![n] = FALSE]

AdoptAndSaveTerm(n, t) ==
    /\ AdoptTerm(n, t)
    /\ Save(n, t, NoVote) \/ SaveFails(n, t, NoVote)

StepDown(n, t) ==
    /\ AdoptAndSaveTerm(n, t)
    /\ role' = [role EXCEPT ![n] = Follower]

Init ==
    /\ role = [n \in Server |-> IF n = Bootstrap THEN Leader ELSE Follower]
    /\ currentTerm = [n \in Server |-> 1]
    /\ votedFor = [n \in Server |-> IF n = Bootstrap THEN n ELSE NoVote]
    /\ votesReceived = [n \in Server |-> 0]
    /\ contact = [n \in Server |-> FALSE]
    /\ hard = [n \in Server |-> HardState(1, votedFor[n])]
    /\ log = [n \in Server |-> <<>>]
    /\ commitIndex = [n \in Server |-> 0]
    /\ applied = [n \in Server |-> <<>>]
    /\ nextIndex = [n \in Server |-> [p \in Server |-> 1]]
    /\ matchIndex = [n \in Server |-> [p \in Server |-> 0]]
    /\ round = [n \in Server |-> [p \in Server |-> NoRound]]
    /\ waiting = [n \in Server |-> NoWait]
    /\ transferring = [n \in Server |-> FALSE]
    /\ xfers = [n \in Server |-> {}]
    /\ net = {}
    /\ panicked = FALSE
    /\ used = [k \in EventKind |-> 0]
    /\ ballots = {Ballot(Bootstrap, 1, Bootstrap)}
    /\ tally = [n \in Server |-> {}]
    /\ elected = {[term |-> 1, node |-> Bootstrap]}
    /\ acked = {}
-----------------------------------------------------------------------------
(* Messages.  Each type is a record of the fields its handler reads.         *)

RequestVote(n, p, t, lastIndex, lastTerm, xfer) ==
    [type |-> "RequestVote", from |-> n, to |-> p, term |-> t,
     lastIndex |-> lastIndex, lastTerm |-> lastTerm, transfer |-> xfer]

VoteResponse(n, p, t, granted) ==
    [type |-> "VoteResponse", from |-> n, to |-> p, term |-> t,
     granted |-> granted]

AppendEntries(n, p, t, prev, prevTerm, entries, commit) ==
    [type |-> "AppendEntries", from |-> n, to |-> p, term |-> t,
     prev |-> prev, prevTerm |-> prevTerm, entries |-> entries,
     commit |-> commit]

AppendResponse(n, p, t, success, hint) ==
    [type |-> "AppendResponse", from |-> n, to |-> p, term |-> t,
     success |-> success, hint |-> hint]

TimeoutNow(n, p, t) ==
    [type |-> "TimeoutNow", from |-> n, to |-> p, term |-> t]

\* A refusal that tells the candidate no newer term.  With SkipNoOps it is
\* not put into net.
Refusal(n, c, t) ==
    IF SkipNoOps /\ t <= currentTerm[c]
      THEN {}
      ELSE {VoteResponse(n, c, t, FALSE)}

IsMessage(m, type, n, p) == m.type = type /\ m.from = n /\ m.to = p

\* The round trip from n to p has left nothing in the transport.
NothingInFlight(n, p) ==
    \A m \in net : /\ ~ IsMessage(m, "AppendEntries", n, p)
                   /\ ~ IsMessage(m, "AppendResponse", p, n)

-----------------------------------------------------------------------------
(* Elections: election.go.                                                   *)

\* maybeStartElection; xfer marks the campaign a TimeoutNow asked for.
\* rest is what is left in net of the message that led here.
Campaign(n, xfer, rest) ==
    /\ role[n] # Leader
    /\ n \in Campaigner /\ currentTerm[n] < MaxTerm
    /\ LET t == currentTerm[n] + 1
       IN  \/ /\ Save(n, t, n)
              /\ currentTerm' = [currentTerm EXCEPT ![n] = t]
              /\ role' = [role EXCEPT ![n] = Candidate]
              /\ votedFor' = [votedFor EXCEPT ![n] = n]
              /\ votesReceived' = [votesReceived EXCEPT ![n] = 1]
              /\ ballots' = ballots \cup {Ballot(n, t, n)}
              /\ tally' = [tally EXCEPT ![n] = {n}]
              /\ net' = rest \cup
                   {RequestVote(n, p, t, LastIndex(n), LastTerm(n), xfer) :
                    p \in Peers(n)}
           \/ /\ SaveFails(n, t, n)
              /\ net' = rest
              /\ UNCHANGED <<currentTerm, role, votedFor, votesReceived,
                             ballots, tally>>
    /\ UNCHANGED <<contact, logVars, replVars, xferVars, clientVars, elected,
                   panicked>>

ElectionTimeout(n) == Campaign(n, FALSE, net)

HandleTimeoutNow(n, m) ==
    /\ m.type = "TimeoutNow" /\ m.to = n
    /\ \/ /\ m.term >= currentTerm[n]
          /\ Campaign(n, TRUE, net \ {m})
       \/ /\ m.term < currentTerm[n] \/ role[n] = Leader
          /\ net' = net \ {m}
          /\ UNCHANGED <<voteVars, logVars, replVars, xferVars, clientVars,
                         electionHistory, panicked, used>>

\* Disruption prevention: a voter that heard from a leader less than one
\* minimum election timeout ago ignores the request, even its higher term.
IgnoreRequestVote(n, m) ==
    /\ m.type = "RequestVote" /\ m.to = n
    /\ contact[n] /\ ~ m.transfer
    /\ net' = (net \ {m}) \cup Refusal(n, m.from, currentTerm[n])
    /\ UNCHANGED <<voteVars, logVars, replVars, xferVars, clientVars,
                   electionHistory, panicked, used>>

\* Mutant: an earlier vote in this term is not looked at.
VoteForgotten(n, t) == NoVote

\* votedFor as handleRequestVote tests it, after a possible step-down.
VoteIn(n, t) == IF t > currentTerm[n] THEN NoVote ELSE votedFor[n]

MayGrant(n, m) ==
    /\ m.term >= currentTerm[n]
    /\ VoteIn(n, m.term) \in {NoVote, m.from}
    /\ CandidateUpToDate(n, m.lastIndex, m.lastTerm)

\* What stepDownLocked does to everything but the vote, if m's term is newer.
StepDownIfNewer(n, t) ==
    IF t > currentTerm[n]
      THEN /\ currentTerm' = [currentTerm EXCEPT ![n] = t]
           /\ role' = [role EXCEPT ![n] = Follower]
           /\ transferring' = [transferring EXCEPT ![n] = FALSE]
      ELSE UNCHANGED <<currentTerm, role, transferring>>

GrantVote(n, m) ==
    /\ m.type = "RequestVote" /\ m.to = n
    /\ MayGrant(n, m)
    /\ StepDownIfNewer(n, m.term)
    /\ votedFor' = [votedFor EXCEPT ![n] = m.from]
    /\ Save(n, m.term, m.from)
    /\ ballots' = ballots \cup {Ballot(n, m.term, m.from)}
    /\ net' = (net \ {m}) \cup {VoteResponse(n, m.from, m.term, TRUE)}
    /\ UNCHANGED <<votesReceived, contact, logVars, replVars, xfers,
                   clientVars, tally, elected, panicked>>

\* The vote could not be made durable: it is rolled back and not granted.
\* If the request's term was newer, the step-down saved it or failed to.
DeclineUnsavedVote(n, m) ==
    /\ m.type = "RequestVote" /\ m.to = n
    /\ MayGrant(n, m)
    /\ StepDownIfNewer(n, m.term)
    /\ votedFor' = [votedFor EXCEPT ![n] = VoteIn(n, m.term)]
    /\ Spend("persist")
    /\ hard' \in {hard, [hard EXCEPT ![n] = HardState(m.term, m.from)]} \cup
               (IF m.term > currentTerm[n]
                  THEN {[hard EXCEPT ![n] = HardState(m.term, NoVote)]}
                  ELSE {})
    /\ net' = (net \ {m}) \cup Refusal(n, m.from, m.term)
    /\ UNCHANGED <<votesReceived, contact, logVars, replVars, xfers,
                   clientVars, electionHistory, panicked>>

RefuseVote(n, m) ==
    /\ m.type = "RequestVote" /\ m.to = n
    /\ ~ MayGrant(n, m)
    /\ \/ m.term > currentTerm[n] /\ StepDown(n, m.term)
       \/ /\ m.term <= currentTerm[n]
          /\ UNCHANGED <<currentTerm, role, votedFor, transferring, hard,
                         used>>
    /\ net' = (net \ {m}) \cup Refusal(n, m.from, currentTerm'[n])
    /\ UNCHANGED <<votesReceived, contact, logVars, replVars, xfers,
                   clientVars, electionHistory, panicked>>

\* A deposed leader's waiter is woken by the step-down.  Unless wake-ups may
\* be late, it gets raftMu before the node next applies an entry or leads.
WaiterAwake(n) == LateWakeups \/ waiting[n] = NoWait \/ role[n] = Leader

\* Mutant: the replicators start at the last entry, not after it.
BecomeLeaderAtLast(n) ==
    /\ WaiterAwake(n)
    /\ role' = [role EXCEPT ![n] = Leader]
    /\ transferring' = [transferring EXCEPT ![n] = FALSE]
    /\ nextIndex' = [nextIndex EXCEPT ![n] = [p \in Server |-> LastIndex(n)]]
    /\ matchIndex' = [matchIndex EXCEPT ![n] = [p \in Server |-> 0]]
    /\ elected' = elected \cup {[term |-> currentTerm[n], node |-> n]}

\* becomeLeaderLocked in term t.
BecomeLeader(n) ==
    /\ WaiterAwake(n)
    /\ role' = [role EXCEPT ![n] = Leader]
    /\ transferring' = [transferring EXCEPT ![n] = FALSE]
    /\ nextIndex' = [nextIndex EXCEPT ![n] =
                       [p \in Server |-> LastIndex(n) + 1]]
    /\ matchIndex' = [matchIndex EXCEPT ![n] = [p \in Server |-> 0]]
    /\ elected' = elected \cup {[term |-> currentTerm[n], node |-> n]}

\* Mutant: a grant of an earlier campaign counts.
CountsAnyVote(n, m) == role[n] = Candidate /\ m.granted

CountsVote(n, m) ==
    role[n] = Candidate /\ m.term = currentTerm[n] /\ m.granted

HandleVoteResponse(n, m) ==
    /\ m.type = "VoteResponse" /\ m.to = n
    /\ net' = net \ {m}
    /\ \/ /\ m.term > currentTerm[n]
          /\ StepDown(n, m.term)
          /\ UNCHANGED <<votesReceived, nextIndex, matchIndex, tally, elected>>
       \/ /\ m.term <= currentTerm[n] /\ ~ CountsVote(n, m)
          /\ UNCHANGED <<currentTerm, role, votedFor, votesReceived, hard,
                         transferring, nextIndex, matchIndex, tally, elected,
                         used>>
       \/ /\ CountsVote(n, m)
          /\ votesReceived' = [votesReceived EXCEPT ![n] = @ + 1]
          /\ tally' = [tally EXCEPT ![n] = @ \cup {m.from}]
          /\ IF votesReceived[n] + 1 >= Majority
               THEN BecomeLeader(n)
               ELSE UNCHANGED <<role, transferring, nextIndex, matchIndex,
                                elected>>
          /\ UNCHANGED <<currentTerm, votedFor, hard, used>>
    /\ UNCHANGED <<contact, logVars, round, xfers, clientVars, ballots,
                   panicked>>

-----------------------------------------------------------------------------
(* Replication: replication.go and handleAppendEntries.                      *)

\* Something would change at p, or in what n knows of p, if a round ran now.
\* With SkipNoOps the rounds that change nothing are left out.
Informative(n, p) ==
    \/ nextIndex[n][p] <= LastIndex(n)
    \/ nextIndex[n][p] # matchIndex[n][p] + 1
    \/ currentTerm[p] # currentTerm[n]
    \/ role[p] # Follower
    \/ commitIndex[p] < commitIndex[n]

\* Mutant: a round carries one entry at most.
OneEntryAfter(n, prev) ==
    SubSeq(log[n], prev + 1, IF prev < LastIndex(n) THEN prev + 1 ELSE prev)

\* What a round carries: every entry after prev.
EntriesAfter(n, prev) == SubSeq(log[n], prev + 1, LastIndex(n))

\* One pass of sendLoop up to the wait: everything from nextIndex on.
SendRound(n, p) ==
    /\ role[n] = Leader /\ p # n
    /\ round[n][p] = NoRound
    /\ SkipNoOps => Informative(n, p)
    /\ Spend("round")
    /\ LET prev == nextIndex[n][p] - 1
           es == EntriesAfter(n, prev)
       IN  /\ prev <= LastIndex(n)
           /\ net' = net \cup
                {AppendEntries(n, p, currentTerm[n], prev,
                               LogTerm(log[n], prev), es, commitIndex[n])}
           /\ round' = [round EXCEPT ![n][p] =
                          [term |-> currentTerm[n], prev |-> prev,
                           len |-> Len(es)]]
    /\ UNCHANGED <<voteVars, logVars, nextIndex, matchIndex, xferVars,
                   clientVars, electionHistory, panicked>>

\* log.term(prevLogIndex) with an index past the end panics.
SendRoundPanics(n, p) ==
    /\ role[n] = Leader /\ p # n
    /\ round[n][p] = NoRound
    /\ nextIndex[n][p] - 1 > LastIndex(n)
    /\ panicked' = TRUE
    /\ UNCHANGED <<voteVars, logVars, replVars, xferVars, clientVars,
                   electionHistory, net, used>>

RejectStaleAppend(n, m) ==
    /\ m.type = "AppendEntries" /\ m.to = n
    /\ m.term < currentTerm[n]
    /\ net' = (net \ {m}) \cup
                {AppendResponse(n, m.from, currentTerm[n], FALSE, 0)}
    /\ UNCHANGED <<voteVars, logVars, replVars, xferVars, clientVars,
                   electionHistory, panicked, used>>

\* What every AppendEntries of a current leader does before the log is read.
FollowLeader(n, m) ==
    /\ m.type = "AppendEntries" /\ m.to = n
    /\ m.term >= currentTerm[n]
    /\ role' = [role EXCEPT ![n] = Follower]
    /\ contact' = [contact EXCEPT ![n] = TRUE]
    /\ UNCHANGED <<votesReceived, replVars, xfers, clientVars,
                   electionHistory, panicked>>

AdoptTermIfNewer(n, t) ==
    IF t > currentTerm[n]
      THEN AdoptAndSaveTerm(n, t)
      ELSE UNCHANGED <<currentTerm, votedFor, transferring, hard, used>>

RejectMismatch(n, m) ==
    /\ FollowLeader(n, m)
    /\ AdoptTermIfNewer(n, m.term)
    /\ ~ MatchesPrev(log[n], m.prev, m.prevTerm)
    /\ net' = (net \ {m}) \cup
         {AppendResponse(n, m.from, m.term, FALSE, LastIndex(n) + 1)}
    /\ UNCHANGED logVars

\* The follower's commit index: never back, never past its own log.
FollowedCommit(n, lg, leaderCommit) ==
    LET ci == IF leaderCommit > Len(lg) THEN Len(lg) ELSE leaderCommit
    IN  IF ci > commitIndex[n] THEN ci ELSE commitIndex[n]

AcceptAppend(n, m) ==
    /\ FollowLeader(n, m)
    /\ AdoptTermIfNewer(n, m.term)
    /\ MatchesPrev(log[n], m.prev, m.prevTerm)
    /\ LET lg == AppendedUpTo(log[n], m.prev, m.entries, Len(m.entries))
       IN  /\ log' = [log EXCEPT ![n] = lg]
           /\ commitIndex' = [commitIndex EXCEPT ![n] =
                                FollowedCommit(n, lg, m.commit)]
    /\ net' = (net \ {m}) \cup {AppendResponse(n, m.from, m.term, TRUE, 0)}
    /\ UNCHANGED applied

\* A log-file error stops the loop: what was written stays, the rest is
\* refused, and the leader is told to start again after prev.
AppendDiskError(n, m) ==
    /\ FollowLeader(n, m)
    /\ Spend("disk")
    /\ IF m.term > currentTerm[n]
         THEN /\ AdoptTerm(n, m.term)
              /\ hard' \in {hard, [hard EXCEPT ![n] =
                                    HardState(m.term, NoVote)]}
         ELSE UNCHANGED <<currentTerm, votedFor, transferring, hard>>
    /\ MatchesPrev(log[n], m.prev, m.prevTerm)
    /\ \E lg \in FailedAppends(log[n], m.prev, m.entries) :
          log' = [log EXCEPT ![n] = lg]
    /\ net' = (net \ {m}) \cup
         {AppendResponse(n, m.from, m.term, FALSE, m.prev + 1)}
    /\ UNCHANGED <<commitIndex, applied>>

\* The rest of sendLoop once a reply is read from the response channel.  The
\* channel is not tied to a round: with late replies, m may answer an earlier
\* request than the one this round sent.
HandleAppendResponse(n, p, m) ==
    LET r == round[n][p]
        match == [matchIndex[n] EXCEPT ![p] =
                    IF r.prev + r.len > @ THEN r.prev + r.len ELSE @]
    IN  /\ IsMessage(m, "AppendResponse", p, n)
        /\ r # NoRound
        /\ net' = net \ {m}
        /\ round' = [round EXCEPT ![n][p] = NoRound]
        /\ \/ /\ m.term > currentTerm[n]
              /\ StepDown(n, m.term)
              /\ UNCHANGED <<nextIndex, matchIndex, commitIndex>>
           \/ /\ m.term <= currentTerm[n]
              /\ role[n] # Leader \/ currentTerm[n] # r.term
              /\ UNCHANGED <<currentTerm, role, votedFor, transferring, hard,
                             nextIndex, matchIndex, commitIndex, used>>
           \/ /\ m.term <= currentTerm[n]
              /\ role[n] = Leader /\ currentTerm[n] = r.term
              /\ m.success
              /\ matchIndex' = [matchIndex EXCEPT ![n] = match]
              /\ nextIndex' = [nextIndex EXCEPT ![n][p] = match[p] + 1]
              /\ commitIndex' = [commitIndex EXCEPT ![n] =
                                   AdvancedCommit(n, log[n], match)]
              /\ UNCHANGED <<currentTerm, role, votedFor, transferring, hard,
                             used>>
           \/ /\ m.term <= currentTerm[n]
              /\ role[n] = Leader /\ currentTerm[n] = r.term
              /\ ~ m.success
              /\ nextIndex' = [nextIndex EXCEPT ![n][p] =
                                 IF m.hint < 1 THEN 1 ELSE m.hint]
              /\ UNCHANGED <<currentTerm, role, votedFor, transferring, hard,
                             matchIndex, commitIndex, used>>
        /\ UNCHANGED <<votesReceived, contact, log, applied, xfers,
                       clientVars, electionHistory, panicked>>

\* The round gives up on its reply (appendResponseTimeout).  Unless replies
\* may be late, that only happens when the round trip is lost.
ResponseTimeout(n, p) ==
    /\ round[n][p] # NoRound
    /\ LateReplies \/ NothingInFlight(n, p)
    /\ round' = [round EXCEPT ![n][p] = NoRound]
    /\ UNCHANGED <<voteVars, logVars, nextIndex, matchIndex, xferVars,
                   clientVars, electionHistory, net, panicked, used>>

-----------------------------------------------------------------------------
(* Proposals, the apply loop and the waiting client: cluster.go.             *)

Propose(n, v) ==
    LET e == [term |-> currentTerm[n], val |-> v]
        lg == Append(log[n], e)
    IN  /\ role[n] = Leader /\ ~ transferring[n]
        /\ waiting[n] = NoWait
        /\ LastIndex(n) < MaxIndex
        /\ log' = [log EXCEPT ![n] = lg]
        /\ commitIndex' = [commitIndex EXCEPT ![n] =
                             AdvancedCommit(n, lg, matchIndex[n])]
        /\ waiting' = [waiting EXCEPT ![n] = [index |-> Len(lg), entry |-> e]]
        /\ UNCHANGED <<voteVars, applied, replVars, xferVars, acked,
                       electionHistory, net, panicked, used>>

\* One entry of applyCommitted.  The store's fsync and lastApplied move as
\* one: a crash between them recovers lastApplied from the store.  entryAt
\* would panic beyond the log, which CommitWithinLog rules out.
ApplyCommitted(n) ==
    /\ LastApplied(n) < commitIndex[n] /\ LastApplied(n) < LastIndex(n)
    /\ WaiterAwake(n)
    /\ applied' = [applied EXCEPT ![n] =
                     Append(@, log[n][LastApplied(n) + 1])]
    /\ UNCHANGED <<voteVars, log, commitIndex, replVars, xferVars, clientVars,
                   electionHistory, net, panicked, used>>

\* proposeAndAwait looks at lastApplied first and at the role second.
AwaitApplied(n) ==
    /\ waiting[n] # NoWait
    /\ LastApplied(n) >= waiting[n].index
    /\ acked' = acked \cup {waiting[n]}
    /\ waiting' = [waiting EXCEPT ![n] = NoWait]
    /\ UNCHANGED <<voteVars, logVars, replVars, xferVars, electionHistory,
                   net, panicked, used>>


AwaitMaybeCommitted(n) ==
    /\ waiting[n] # NoWait
    /\ LastApplied(n) < waiting[n].index
    /\ role[n] # Leader
    /\ waiting' = [waiting EXCEPT ![n] = NoWait]
    /\ UNCHANGED <<voteVars, logVars, replVars, xferVars, acked,
                   electionHistory, net, panicked, used>>

-----------------------------------------------------------------------------
(* transferLeadership: cluster.go.                                           *)

TransferStart(n, p) ==
    /\ role[n] = Leader /\ p # n
    /\ ~ transferring[n]
    /\ Spend("transfer")
    /\ transferring' = [transferring EXCEPT ![n] = TRUE]
    /\ xfers' = [xfers EXCEPT ![n] = @ \cup
                   {[to |-> p, term |-> currentTerm[n],
                     last |-> LastIndex(n), stage |-> "catchup"]}]
    /\ UNCHANGED <<voteVars, logVars, replVars, clientVars, electionHistory,
                   net, panicked>>

StillLeading(n, x) == role[n] = Leader /\ currentTerm[n] = x.term

\* Mutant: one entry behind is close enough.
NearlyCaughtUp(n, x) == matchIndex[n][x.to] + 1 >= x.last

CaughtUp(n, x) == matchIndex[n][x.to] >= x.last

\* x goes on to the given stage of its call.
NextStage(n, x, stage) ==
    xfers' = [xfers EXCEPT ![n] = (@ \ {x}) \cup {[x EXCEPT !.stage = stage]}]

TransferHandOff(n, x) ==
    /\ x \in xfers[n] /\ x.stage = "catchup"
    /\ StillLeading(n, x) /\ CaughtUp(n, x)
    /\ NextStage(n, x, "handoff")
    /\ net' = net \cup {TimeoutNow(n, x.to, x.term)}
    /\ UNCHANGED <<voteVars, logVars, replVars, transferring, clientVars,
                   electionHistory, panicked, used>>

\* Leadership is gone: ErrNotLeader before the hand-off, success after it.
TransferReturn(n, x) ==
    /\ x \in xfers[n]
    /\ \/ x.stage = "catchup" /\ ~ StillLeading(n, x)
       \/ x.stage = "handoff" /\ role[n] # Leader
    /\ xfers' = [xfers EXCEPT ![n] = @ \ {x}]
    /\ UNCHANGED <<voteVars, logVars, replVars, transferring, clientVars,
                   electionHistory, net, panicked, used>>

\* A poll finds the deadline passed.  The call gives up raftMu before it
\* aborts.
TransferExpire(n, x) ==
    /\ x \in xfers[n]
    /\ \/ x.stage = "catchup" /\ StillLeading(n, x) /\ ~ CaughtUp(n, x)
       \/ x.stage = "handoff" /\ role[n] = Leader
    /\ NextStage(n, x, "abort")
    /\ UNCHANGED <<voteVars, logVars, replVars, transferring, clientVars,
                   electionHistory, net, panicked, used>>

\* ErrTransferTimeout: a leader resumes, whichever transfer it is in by now.
TransferAbort(n, x) ==
    /\ x \in xfers[n] /\ x.stage = "abort"
    /\ xfers' = [xfers EXCEPT ![n] = @ \ {x}]
    /\ transferring' = [transferring EXCEPT ![n] = @ /\ role[n] # Leader]
    /\ UNCHANGED <<voteVars, logVars, replVars, clientVars, electionHistory,
                   net, panicked, used>>

-----------------------------------------------------------------------------
(* Faults.                                                                   *)

\* A partition swallows a message of a replication round.  Losing any other
\* message is the behaviour in which it is never handled.
LoseMessage(m) ==
    /\ m.type \in {"AppendEntries", "AppendResponse"}
    /\ Spend("loss")
    /\ net' = net \ {m}
    /\ UNCHANGED <<voteVars, logVars, replVars, xferVars, clientVars,
                   electionHistory, panicked>>

\* Mutant: only the term is recovered.
TermOnlyHardState(n) ==
    HardState(IF LastTerm(n) > hard[n].term THEN LastTerm(n) ELSE hard[n].term,
              NoVote)

\* The term and vote buildNode resolves: the durable hard state, unless the
\* log holds an entry of a later term.
ResolvedHardState(n) ==
    IF LastTerm(n) > hard[n].term
      THEN HardState(LastTerm(n), NoVote)
      ELSE hard[n]

\* The log openRaftLogFile reads back: every append was fsynced.
RecoveredLog(n) == log[n]

\* The commit index restarts at what the store has applied.
RecoveredCommit(n) == LastApplied(n)

\* n crashes and is rebuilt over its directory.  Its inbox outlives it, but
\* unless replies may be late, what its replicators had in flight is gone
\* long before it leads again.
Restart(n) ==
    /\ Spend("crash")
    /\ role' = [role EXCEPT ![n] = Follower]
    /\ currentTerm' = [currentTerm EXCEPT ![n] = ResolvedHardState(n).term]
    /\ votedFor' = [votedFor EXCEPT ![n] = ResolvedHardState(n).vote]
    /\ hard' = [hard EXCEPT ![n] = ResolvedHardState(n)]
    /\ votesReceived' = [votesReceived EXCEPT ![n] = 0]
    /\ tally' = [tally EXCEPT ![n] = {}]
    /\ contact' = [contact EXCEPT ![n] = FALSE]
    /\ log' = [log EXCEPT ![n] = RecoveredLog(n)]
    /\ commitIndex' = [commitIndex EXCEPT ![n] = RecoveredCommit(n)]
    /\ nextIndex' = [nextIndex EXCEPT ![n] = [p \in Server |-> 1]]
    /\ matchIndex' = [matchIndex EXCEPT ![n] = [p \in Server |-> 0]]
    /\ round' = [round EXCEPT ![n] = [p \in Server |-> NoRound]]
    /\ waiting' = [waiting EXCEPT ![n] = NoWait]
    /\ transferring' = [transferring EXCEPT ![n] = FALSE]
    /\ xfers' = [xfers EXCEPT ![n] = {}]
    /\ net' = IF LateReplies THEN net
              ELSE net \ {m \in net :
                            \/ m.type = "AppendEntries" /\ m.from = n
                            \/ m.type = "AppendResponse" /\ m.to = n}
    /\ UNCHANGED <<applied, ballots, elected, acked, panicked>>

-----------------------------------------------------------------------------
\* A panic in any goroutine ends the process, and with it every node.
Running == {n \in Server : ~ panicked}

Next ==
    \/ \E n \in Running : ElectionTimeout(n)
    \/ \E n \in Running : \E m \in net : HandleTimeoutNow(n, m)
    \/ \E n \in Running : \E m \in net : IgnoreRequestVote(n, m)
    \/ \E n \in Running : \E m \in net : GrantVote(n, m)
    \/ \E n \in Running : \E m \in net : DeclineUnsavedVote(n, m)
    \/ \E n \in Running : \E m \in net : RefuseVote(n, m)
    \/ \E n \in Running : \E m \in net : HandleVoteResponse(n, m)
    \/ \E n, p \in Running : SendRound(n, p)
    \/ \E n, p \in Running : SendRoundPanics(n, p)
    \/ \E n \in Running : \E m \in net : RejectStaleAppend(n, m)
    \/ \E n \in Running : \E m \in net : RejectMismatch(n, m)
    \/ \E n \in Running : \E m \in net : AcceptAppend(n, m)
    \/ \E n \in Running : \E m \in net : AppendDiskError(n, m)
    \/ \E n, p \in Running : \E m \in net : HandleAppendResponse(n, p, m)
    \/ \E n, p \in Running : ResponseTimeout(n, p)
    \/ \E n \in Running : \E v \in Value : Propose(n, v)
    \/ \E n \in Running : ApplyCommitted(n)
    \/ \E n \in Running : AwaitApplied(n)
    \/ \E n \in Running : AwaitMaybeCommitted(n)
    \/ \E n, p \in Running : TransferStart(n, p)
    \/ \E n \in Running : \E x \in xfers[n] : TransferHandOff(n, x)
    \/ \E n \in Running : \E x \in xfers[n] : TransferReturn(n, x)
    \/ \E n \in Running : \E x \in xfers[n] : TransferExpire(n, x)
    \/ \E n \in Running : \E x \in xfers[n] : TransferAbort(n, x)
    \/ \E n \in Running : Restart(n)
    \/ \E m \in net : LoseMessage(m)

Spec == Init /\ [][Next]_vars

-----------------------------------------------------------------------------
(* Properties.                                                               *)

RequestVoteType ==
    [type : {"RequestVote"}, from : Server, to : Server, term : Nat,
     lastIndex : Nat, lastTerm : Nat, transfer : BOOLEAN]

VoteResponseType ==
    [type : {"VoteResponse"}, from : Server, to : Server, term : Nat,
     granted : BOOLEAN]

AppendEntriesType ==
    [type : {"AppendEntries"}, from : Server, to : Server, term : Nat,
     prev : Nat, prevTerm : Nat, entries : Seq(Entry), commit : Nat]

AppendResponseType ==
    [type : {"AppendResponse"}, from : Server, to : Server, term : Nat,
     success : BOOLEAN, hint : Nat]

TimeoutNowType ==
    [type : {"TimeoutNow"}, from : Server, to : Server, term : Nat]

MessageType ==
    RequestVoteType \cup VoteResponseType \cup AppendEntriesType \cup
    AppendResponseType \cup TimeoutNowType

HardStateType == [term : Nat, vote : Server \cup {NoVote}]
BallotType == [voter : Server, term : Nat, cand : Server]
RoundType == [term : Nat, prev : Nat, len : Nat]
ProposalType == [index : Nat, entry : Entry]
TransferType == [to : Server, term : Nat, last : Nat,
                 stage : {"catchup", "handoff", "abort"}]
ElectedType == [term : Nat, node : Server]

\* The shape of every variable: what each field of a Node, each durable file
\* and each message of the transport can hold.
TypeOK ==
    /\ role \in [Server -> {Follower, Candidate, Leader}]
    /\ currentTerm \in [Server -> Nat]
    /\ votedFor \in [Server -> Server \cup {NoVote}]
    /\ votesReceived \in [Server -> Nat]
    /\ contact \in [Server -> BOOLEAN]
    /\ hard \in [Server -> HardStateType]
    /\ log \in [Server -> Seq(Entry)]
    /\ commitIndex \in [Server -> Nat]
    /\ applied \in [Server -> Seq(Entry)]
    /\ nextIndex \in [Server -> [Server -> Nat \ {0}]]
    /\ matchIndex \in [Server -> [Server -> Nat]]
    /\ round \in [Server -> [Server -> RoundType]]
    /\ waiting \in [Server -> ProposalType \cup {NoWait}]
    /\ transferring \in [Server -> BOOLEAN]
    /\ xfers \in [Server -> SUBSET TransferType]
    /\ net \subseteq MessageType
    /\ panicked \in BOOLEAN
    /\ used \in [EventKind -> Nat]
    /\ ballots \subseteq BallotType
    /\ tally \in [Server -> SUBSET Server]
    /\ elected \subseteq ElectedType
    /\ acked \subseteq ProposalType

\* At most one node ever leads a term, across every crash, restart and failed
\* save of raft/state: handleRequestVote and maybeStartElection make a vote
\* durable before anyone can count it.
ElectionSafety ==
    \A d, e \in elected : d.term = e.term => d.node = e.node

\* A vote that was granted binds the voter through a crash at any moment: what
\* buildNode would resolve from raft/state and the log is a later term, or the
\* same term with the same vote.
VotesSurviveRestart ==
    \A b \in ballots :
        LET h == ResolvedHardState(b.voter)
        IN  h.term > b.term \/ (h.term = b.term /\ h.vote = b.cand)

\* n is in a term it campaigned for.
HasCampaigned(n) ==
    role[n] = Candidate \/ (role[n] = Leader /\ currentTerm[n] # 1)

\* votesReceived is a bare counter, incremented for every grant that arrives.
\* It never counts a voter twice, nor a vote of another term or candidate.
CountedVotesAreDistinct ==
    \A n \in Server : HasCampaigned(n) =>
        /\ votesReceived[n] = Cardinality(tally[n])
        /\ \A v \in tally[n] : Ballot(v, currentTerm[n], n) \in ballots

Prefix(lg, i) == SubSeq(lg, 1, IF i < Len(lg) THEN i ELSE Len(lg))

\* Two logs that hold an entry of the same term at some index hold the same
\* entries up to there, whatever truncations and partial appends they saw.
LogMatching ==
    \A a, b \in Server :
        \A i \in 1..LastIndex(a) \cap 1..LastIndex(b) :
            log[a][i].term = log[b][i].term =>
                Prefix(log[a], i) = Prefix(log[b], i)

\* n leads, and nobody has been elected in a later term.
NewestLeader(n) ==
    role[n] = Leader /\ \A e \in elected : e.term <= currentTerm[n]

\* The apply loop never reads past the log: whatever handleAppendEntries
\* truncates, the commit index stays within it, above what is applied.
CommitWithinLog ==
    \A n \in Server :
        LastApplied(n) <= commitIndex[n] /\ commitIndex[n] <= LastIndex(n)

\* The newest leader's log holds everything any node considers committed.
LeaderCompleteness ==
    \A l \in Server : NewestLeader(l) =>
        \A s \in Server :
            /\ commitIndex[s] <= LastIndex(l)
            /\ Prefix(log[s], commitIndex[s]) = Prefix(log[l], commitIndex[s])

\* No two stores apply different entries at the same index.
StateMachineSafety ==
    \A a, b \in Server :
        \A i \in 1..LastApplied(a) \cap 1..LastApplied(b) :
            applied[a][i] = applied[b][i]

\* A write reported to its client as committed is in the log of the newest
\* leader, at the index it was proposed at.
AckedWritesSurvive ==
    \A l \in Server : NewestLeader(l) =>
        \A a \in acked :
            /\ a.index <= LastIndex(l)
            /\ log[l][a.index] = a.entry

\* onAppendSuccessLocked "records that p has replicated through matchIndex":
\* the newest leader's matchIndex for p never exceeds what p really holds.
MatchIndexIsHeld ==
    \A l \in Server : NewestLeader(l) =>
        \A p \in Peers(l) :
            /\ matchIndex[l][p] <= LastIndex(p)
            /\ Prefix(log[p], matchIndex[l][p]) =
                 Prefix(log[l], matchIndex[l][p])

\* The follower caps leaderCommit with its own lastIndex, not with the last
\* index the request covers.  That is sound because no request in flight
\* carries a commit index beyond what it covers.
CommitIsCovered ==
    \A m \in net : m.type = "AppendEntries" =>
        m.commit <= m.prev + Len(m.entries)

\* "Truncation only removes UNCOMMITTED (unapplied) entries": no step changes
\* what a node has in its log up to its commit index.
CommittedNeverRewritten ==
    [][\A n \in Server :
          Prefix(log'[n], commitIndex[n]) = Prefix(log[n], commitIndex[n])]_vars

\* A target told to campaign while the transfer still holds the leader's log
\* still holds all of it, so its vote requests are up to date.
TransferTargetHoldsLog ==
    \A l \in Server : \A x \in xfers[l] :
        (/\ x.stage = "handoff" /\ transferring[l]
         /\ StillLeading(l, x) /\ NewestLeader(l))
            => Prefix(log[x.to], LastIndex(l)) = log[l]

\* Replication never indexes the leader's log out of range.
NoPanic == ~ panicked

\* Fairness.  Every goroutine of a node keeps running: the inbox loop handles
\* each message, the heartbeat keeps the replicators sending, a round that is
\* not answered times out, the apply loop and the waiter run when signalled.
\* Nothing obliges an election, a proposal, a transfer or a fault to happen.
Fairness ==
    \A n \in Server :
        /\ WF_vars(\E m \in net : HandleVoteResponse(n, m))
        /\ WF_vars(\E m \in net : RejectStaleAppend(n, m))
        /\ WF_vars(\E m \in net : RejectMismatch(n, m))
        /\ WF_vars(\E m \in net : AcceptAppend(n, m))
        /\ \A p \in Peers(n) :
             /\ WF_vars(SendRound(n, p))
             /\ WF_vars(\E m \in net : HandleAppendResponse(n, p, m))
             /\ WF_vars(ResponseTimeout(n, p))
        /\ WF_vars(ApplyCommitted(n))
        /\ WF_vars(AwaitApplied(n))
        /\ WF_vars(AwaitMaybeCommitted(n))

FairSpec == Spec /\ Fairness

=============================================================================
