--------------------------- MODULE RaftTypeProofs ---------------------------
(***************************************************************************)
(* Type correctness of Raft, for every set of servers, every value of the  *)
(* bounds and every schedule of crashes, lost messages and failed saves.   *)
(* One lemma per action; TypeCorrect puts them together.                   *)
(***************************************************************************)
EXTENDS RaftLemmas

LEMMA TypeInit == Init => TypeOK
<1> SUFFICES ASSUME Init PROVE TypeOK
  OBVIOUS
<1>1. Bootstrap \in Server
  BY ServerAssumption
<1>2. /\ role \in [Server -> {Follower, Candidate, Leader}]
      /\ votedFor \in [Server -> Server \cup {NoVote}]
  BY <1>1 DEF Init
<1>3. hard \in [Server -> HardStateType]
  BY <1>2 DEF Init, HardState, HardStateType
<1>4. /\ log \in [Server -> Seq(Entry)]
      /\ applied \in [Server -> Seq(Entry)]
  BY DEF Init
<1>5. round \in [Server -> [Server -> RoundType]]
  BY DEF Init, RoundType, NoRound
<1>6. /\ ballots \subseteq BallotType
      /\ elected \subseteq ElectedType
  BY <1>1 DEF Init, Ballot, BallotType, ElectedType
<1>7. /\ nextIndex \in [Server -> [Server -> Nat \ {0}]]
      /\ matchIndex \in [Server -> [Server -> Nat]]
  BY DEF Init
<1> QED
  BY <1>2, <1>3, <1>4, <1>5, <1>6, <1>7, Zenon DEF Init, TypeOK

LEMMA CampaignType ==
    ASSUME TypeOK, NEW n \in Server, NEW xfer \in BOOLEAN,
           NEW rest \in SUBSET net, Campaign(n, xfer, rest)
    PROVE  TypeOK'
<1> DEFINE t == currentTerm[n] + 1
<1>1. t \in Nat /\ LastIndex(n) \in Nat /\ LastTerm(n) \in Nat
  BY LastTermType DEF TypeOK
<1>2. hard' \in [Server -> HardStateType] /\ used' \in [EventKind -> Nat]
  BY <1>1, SaveType DEF Campaign
<1>3. net' \subseteq MessageType
  BY <1>1 DEF Campaign, TypeOK, RequestVote, MessageType, RequestVoteType,
              Peers
<1>4. ballots' \subseteq BallotType
  <2>1. Ballot(n, t, n) \in BallotType
    BY <1>1 DEF Ballot, BallotType
  <2> QED
    BY <2>1 DEF Campaign, TypeOK
<1>5. /\ currentTerm' \in [Server -> Nat]
      /\ role' \in [Server -> {Follower, Candidate, Leader}]
      /\ votedFor' \in [Server -> Server \cup {NoVote}]
      /\ votesReceived' \in [Server -> Nat]
      /\ tally' \in [Server -> SUBSET Server]
  <2>1. CASE UNCHANGED <<currentTerm, role, votedFor, votesReceived, tally>>
    BY <2>1 DEF TypeOK
  <2>2. CASE /\ currentTerm' = [currentTerm EXCEPT ![n] = t]
             /\ role' = [role EXCEPT ![n] = Candidate]
             /\ votedFor' = [votedFor EXCEPT ![n] = n]
             /\ votesReceived' = [votesReceived EXCEPT ![n] = 1]
             /\ tally' = [tally EXCEPT ![n] = {n}]
    BY <1>1, <2>2 DEF TypeOK
  <2> QED
    BY <2>1, <2>2 DEF Campaign
<1> QED
  BY <1>2, <1>3, <1>4, <1>5, Zenon
  DEF Campaign, TypeOK, logVars, replVars, xferVars, clientVars
\* Adopting a newer term, with or without stepping down.
LEMMA AdoptType ==
    ASSUME TypeOK, NEW n \in Server, NEW t \in Nat, AdoptTerm(n, t)
    PROVE  /\ currentTerm' \in [Server -> Nat]
           /\ votedFor' \in [Server -> Server \cup {NoVote}]
           /\ transferring' \in [Server -> BOOLEAN]
BY DEF AdoptTerm, TypeOK

LEMMA AdoptAndSaveType ==
    ASSUME TypeOK, NEW n \in Server, NEW t \in Nat, AdoptAndSaveTerm(n, t)
    PROVE  /\ currentTerm' \in [Server -> Nat]
           /\ votedFor' \in [Server -> Server \cup {NoVote}]
           /\ transferring' \in [Server -> BOOLEAN]
           /\ hard' \in [Server -> HardStateType]
           /\ used' \in [EventKind -> Nat]
<1>1. hard' \in [Server -> HardStateType] /\ used' \in [EventKind -> Nat]
  BY SaveType DEF AdoptAndSaveTerm
<1> QED
  BY <1>1, AdoptType DEF AdoptAndSaveTerm

LEMMA StepDownType ==
    ASSUME TypeOK, NEW n \in Server, NEW t \in Nat, StepDown(n, t)
    PROVE  /\ currentTerm' \in [Server -> Nat]
           /\ votedFor' \in [Server -> Server \cup {NoVote}]
           /\ transferring' \in [Server -> BOOLEAN]
           /\ hard' \in [Server -> HardStateType]
           /\ used' \in [EventKind -> Nat]
           /\ role' \in [Server -> {Follower, Candidate, Leader}]
<1>1. role' \in [Server -> {Follower, Candidate, Leader}]
  BY DEF StepDown, TypeOK
<1> QED
  BY <1>1, AdoptAndSaveType DEF StepDown

LEMMA StepDownIfNewerType ==
    ASSUME TypeOK, NEW n \in Server, NEW t \in Nat, StepDownIfNewer(n, t)
    PROVE  /\ currentTerm' \in [Server -> Nat]
           /\ transferring' \in [Server -> BOOLEAN]
           /\ role' \in [Server -> {Follower, Candidate, Leader}]
BY ZenonT(60) DEF StepDownIfNewer, TypeOK

LEMMA RefusalType ==
    ASSUME TypeOK, NEW n \in Server, NEW c \in Server, NEW t \in Nat
    PROVE  Refusal(n, c, t) \subseteq MessageType
<1>1. VoteResponse(n, c, t, FALSE) \in MessageType
  BY DEF VoteResponse, VoteResponseType, MessageType
<1> QED
  BY <1>1, Zenon DEF Refusal

LEMMA GrantVoteType ==
    ASSUME TypeOK, NEW n \in Server, NEW m \in net, GrantVote(n, m)
    PROVE  TypeOK'
<1>1. m \in RequestVoteType
  BY MessageByType DEF GrantVote
<1>2. m.from \in Server /\ m.term \in Nat
  BY <1>1 DEF RequestVoteType
<1>3. hard' \in [Server -> HardStateType] /\ used' \in [EventKind -> Nat]
  BY <1>2, SaveType DEF GrantVote
<1>4. Ballot(n, m.term, m.from) \in BallotType
  BY <1>2 DEF Ballot, BallotType
<1>5. VoteResponse(n, m.from, m.term, TRUE) \in MessageType
  BY <1>2 DEF VoteResponse, VoteResponseType, MessageType
<1>6. /\ currentTerm' \in [Server -> Nat]
      /\ transferring' \in [Server -> BOOLEAN]
      /\ role' \in [Server -> {Follower, Candidate, Leader}]
  BY <1>2, StepDownIfNewerType DEF GrantVote
<1>7. votedFor' \in [Server -> Server \cup {NoVote}]
  BY <1>2 DEF GrantVote, TypeOK
<1> QED
  BY <1>3, <1>4, <1>5, <1>6, <1>7, Zenon
  DEF GrantVote, TypeOK, logVars, replVars, clientVars

LEMMA DeclineType ==
    ASSUME TypeOK, NEW n \in Server, NEW m \in net, DeclineUnsavedVote(n, m)
    PROVE  TypeOK'
<1>1. m \in RequestVoteType
  BY MessageByType DEF DeclineUnsavedVote
<1>2. m.from \in Server /\ m.term \in Nat
  BY <1>1 DEF RequestVoteType
<1>3. used' \in [EventKind -> Nat]
  BY SpendType DEF DeclineUnsavedVote, TypeOK, EventKind
<1>4. hard' \in [Server -> HardStateType]
  <2>1. /\ [hard EXCEPT ![n] = HardState(m.term, m.from)]
             \in [Server -> HardStateType]
        /\ [hard EXCEPT ![n] = HardState(m.term, NoVote)]
             \in [Server -> HardStateType]
    BY <1>2, HardUpdateType
  <2>2. hard \in [Server -> HardStateType]
    BY DEF TypeOK
  <2> QED
    BY <2>1, <2>2 DEF DeclineUnsavedVote
<1>5. Refusal(n, m.from, m.term) \subseteq MessageType
  BY <1>2, RefusalType
<1>6. /\ currentTerm' \in [Server -> Nat]
      /\ transferring' \in [Server -> BOOLEAN]
      /\ role' \in [Server -> {Follower, Candidate, Leader}]
  BY <1>2, StepDownIfNewerType DEF DeclineUnsavedVote
<1>7. votedFor' \in [Server -> Server \cup {NoVote}]
  BY <1>2, Zenon DEF DeclineUnsavedVote, TypeOK, VoteIn
<1> QED
  BY <1>3, <1>4, <1>5, <1>6, <1>7, Zenon
  DEF DeclineUnsavedVote, TypeOK, logVars, replVars, clientVars,
      electionHistory

LEMMA RefuseType ==
    ASSUME TypeOK, NEW n \in Server, NEW m \in net, RefuseVote(n, m)
    PROVE  TypeOK'
<1>1. m \in RequestVoteType
  BY MessageByType DEF RefuseVote
<1>2. m.from \in Server /\ m.term \in Nat
  BY <1>1 DEF RequestVoteType
<1>3. /\ currentTerm' \in [Server -> Nat]
      /\ votedFor' \in [Server -> Server \cup {NoVote}]
      /\ transferring' \in [Server -> BOOLEAN]
      /\ hard' \in [Server -> HardStateType]
      /\ used' \in [EventKind -> Nat]
      /\ role' \in [Server -> {Follower, Candidate, Leader}]
  <2>1. CASE StepDown(n, m.term)
    BY <1>2, <2>1, StepDownType
  <2>2. CASE UNCHANGED <<currentTerm, role, votedFor, transferring, hard,
                         used>>
    BY <2>2 DEF TypeOK
  <2> QED
    BY <2>1, <2>2 DEF RefuseVote
<1>4. Refusal(n, m.from, currentTerm'[n]) \subseteq MessageType
  BY <1>2, <1>3, RefusalType
<1> QED
  BY <1>3, <1>4, ZenonT(60)
  DEF RefuseVote, TypeOK, logVars, replVars, clientVars, electionHistory
LEMMA VoteResponseStepType ==
    ASSUME TypeOK, NEW n \in Server, NEW m \in net, HandleVoteResponse(n, m)
    PROVE  TypeOK'
<1>1. m \in VoteResponseType
  BY MessageByType DEF HandleVoteResponse
<1>2. m.from \in Server /\ m.term \in Nat
  BY <1>1, SMTT(60) DEF VoteResponseType
<1>3. CASE m.term > currentTerm[n] /\ StepDown(n, m.term)
           /\ UNCHANGED <<votesReceived, nextIndex, matchIndex, tally, elected>>
  <2>1. /\ currentTerm' \in [Server -> Nat]
        /\ votedFor' \in [Server -> Server \cup {NoVote}]
        /\ transferring' \in [Server -> BOOLEAN]
        /\ hard' \in [Server -> HardStateType]
        /\ used' \in [EventKind -> Nat]
        /\ role' \in [Server -> {Follower, Candidate, Leader}]
    BY <1>2, <1>3, StepDownType, Zenon
  <2> QED
    BY <1>3, <2>1 DEF HandleVoteResponse, TypeOK, logVars, clientVars
<1>4. CASE UNCHANGED <<currentTerm, role, votedFor, votesReceived, hard,
                       transferring, nextIndex, matchIndex, tally, elected,
                       used>>
  BY <1>4, Zenon DEF HandleVoteResponse, TypeOK, logVars, clientVars
<1>5. CASE /\ votesReceived' = [votesReceived EXCEPT ![n] = @ + 1]
           /\ tally' = [tally EXCEPT ![n] = @ \cup {m.from}]
           /\ UNCHANGED <<currentTerm, votedFor, hard, used>>
           /\ \/ BecomeLeader(n)
              \/ UNCHANGED <<role, transferring, nextIndex, matchIndex,
                             elected>>
  <2>1. votesReceived' \in [Server -> Nat] /\ tally' \in [Server -> SUBSET Server]
    <3>0. votesReceived[n] \in Nat /\ tally[n] \in SUBSET Server
      BY DEF TypeOK
    <3>1. votesReceived[n] + 1 \in Nat /\ tally[n] \cup {m.from} \in SUBSET Server
      BY <1>2, <3>0, SMTT(60)
    <3>2. votesReceived' \in [Server -> Nat]
      BY <1>5, <3>1 DEF TypeOK
    <3>3. tally' \in [Server -> SUBSET Server]
      BY <1>5, <3>1, Zenon DEF TypeOK
    <3> QED
      BY <3>2, <3>3
  <2>2. /\ role' \in [Server -> {Follower, Candidate, Leader}]
        /\ transferring' \in [Server -> BOOLEAN]
        /\ nextIndex' \in [Server -> [Server -> Nat \ {0}]]
        /\ matchIndex' \in [Server -> [Server -> Nat]]
        /\ elected' \subseteq ElectedType
    <3>1. CASE UNCHANGED <<role, transferring, nextIndex, matchIndex, elected>>
      BY <3>1 DEF TypeOK
    <3>2. CASE BecomeLeader(n)
      <4>1. [term |-> currentTerm[n], node |-> n] \in ElectedType
        BY DEF TypeOK, ElectedType
      <4>2. LastIndex(n) + 1 \in Nat \ {0}
        BY DEF TypeOK, LastIndex
      <4>3. nextIndex' \in [Server -> [Server -> Nat \ {0}]]
        BY <3>2, <4>2 DEF BecomeLeader, TypeOK
      <4>4. matchIndex' \in [Server -> [Server -> Nat]]
        BY <3>2 DEF BecomeLeader, TypeOK
      <4>5. /\ role' \in [Server -> {Follower, Candidate, Leader}]
            /\ transferring' \in [Server -> BOOLEAN]
        BY <3>2 DEF BecomeLeader, TypeOK
      <4>6. elected' \subseteq ElectedType
        BY <3>2, <4>1, SMTT(60) DEF BecomeLeader, TypeOK
      <4> QED
        BY <4>3, <4>4, <4>5, <4>6
    <3> QED
      BY <1>5, <3>1, <3>2
  <2> QED
    BY <1>5, <2>1, <2>2, Zenon DEF HandleVoteResponse, TypeOK, logVars, clientVars
<1> QED
  BY <1>3, <1>4, <1>5 DEF HandleVoteResponse

LEMMA SendRoundType ==
    ASSUME TypeOK, NEW n \in Server, NEW p \in Server, SendRound(n, p)
    PROVE  TypeOK'
<1> DEFINE prev == nextIndex[n][p] - 1
           last == LastIndex(n)
           es == EntriesAfter(n, prev)
           r == [term |-> currentTerm[n], prev |-> prev, len |-> Len(es)]
           m == AppendEntries(n, p, currentTerm[n], prev,
                              LogTerm(log[n], prev), es, commitIndex[n])
<1>1. /\ nextIndex[n][p] \in Nat \ {0} /\ currentTerm[n] \in Nat
      /\ log[n] \in Seq(Entry) /\ commitIndex[n] \in Nat
  BY DEF TypeOK
<1>2. prev \in Nat /\ last \in Nat /\ prev <= last /\ last = Len(log[n])
  BY <1>1 DEF SendRound, LastIndex
<1>3. es \in Seq(Entry)
  BY <1>1, <1>2, SubSeqType DEF EntriesAfter
<1>4. r \in RoundType
  <2> HIDE DEF prev, es
  <2> QED
    BY <1>1, <1>2, <1>3 DEF RoundType
<1>5. LogTerm(log[n], prev) \in Nat
  BY <1>1, <1>2, LogTermType
<1>6. m \in MessageType
  <2> HIDE DEF prev, es
  <2> QED
    BY <1>1, <1>2, <1>3, <1>5
    DEF AppendEntries, AppendEntriesType, MessageType
<1>7. net' = net \cup {m} /\ round' = [round EXCEPT ![n][p] = r]
  BY DEF SendRound
<1>8. used' \in [EventKind -> Nat]
  BY SpendType DEF SendRound, TypeOK, EventKind
<1> HIDE DEF m, r
<1>9. round' \in [Server -> [Server -> RoundType]]
  BY <1>4, <1>7, SMTT(60) DEF TypeOK
<1> QED
  BY <1>6, <1>7, <1>8, <1>9, Zenon
  DEF SendRound, TypeOK, voteVars, logVars, xferVars, clientVars,
      electionHistory

\* What FollowLeader and a message of its kind have in common.
LEMMA FollowType ==
    ASSUME TypeOK, NEW n \in Server, NEW m \in net, FollowLeader(n, m)
    PROVE  /\ m.from \in Server /\ m.term \in Nat /\ m.prev \in Nat
           /\ m.entries \in Seq(Entry) /\ m.commit \in Nat
           /\ role' \in [Server -> {Follower, Candidate, Leader}]
           /\ contact' \in [Server -> BOOLEAN]
<1>1. m \in AppendEntriesType
  BY MessageByType DEF FollowLeader
<1> QED
  BY <1>1, Zenon DEF FollowLeader, AppendEntriesType, TypeOK

LEMMA AdoptIfNewerType ==
    ASSUME TypeOK, NEW n \in Server, NEW t \in Nat, AdoptTermIfNewer(n, t)
    PROVE  /\ currentTerm' \in [Server -> Nat]
           /\ votedFor' \in [Server -> Server \cup {NoVote}]
           /\ transferring' \in [Server -> BOOLEAN]
           /\ hard' \in [Server -> HardStateType]
           /\ used' \in [EventKind -> Nat]
<1>1. CASE AdoptAndSaveTerm(n, t)
  BY <1>1, AdoptAndSaveType
<1>2. CASE UNCHANGED <<currentTerm, votedFor, transferring, hard, used>>
  BY <1>2 DEF TypeOK
<1> QED
  BY <1>1, <1>2 DEF AdoptTermIfNewer

LEMMA AppendResponseIsMessage ==
    ASSUME NEW n \in Server, NEW p \in Server, NEW t \in Nat,
           NEW ok \in BOOLEAN, NEW h \in Nat
    PROVE  AppendResponse(n, p, t, ok, h) \in MessageType
BY DEF AppendResponse, AppendResponseType, MessageType

LEMMA RejectStaleType ==
    ASSUME TypeOK, NEW n \in Server, NEW m \in net, RejectStaleAppend(n, m)
    PROVE  TypeOK'
<1>1. m \in AppendEntriesType
  BY MessageByType DEF RejectStaleAppend
<1>2. m.from \in Server /\ currentTerm[n] \in Nat
  BY <1>1 DEF AppendEntriesType, TypeOK
<1>3. AppendResponse(n, m.from, currentTerm[n], FALSE, 0) \in MessageType
  BY <1>2, AppendResponseIsMessage, Zenon
<1> QED
  BY <1>3, Zenon DEF RejectStaleAppend, TypeOK, voteVars, logVars, replVars,
              xferVars, clientVars, electionHistory

LEMMA RejectMismatchType ==
    ASSUME TypeOK, NEW n \in Server, NEW m \in net, RejectMismatch(n, m)
    PROVE  TypeOK'
<1>1. FollowLeader(n, m)
  BY DEF RejectMismatch
<1>2. /\ m.from \in Server /\ m.term \in Nat
      /\ role' \in [Server -> {Follower, Candidate, Leader}]
      /\ contact' \in [Server -> BOOLEAN]
  BY <1>1, FollowType
<1>3. /\ currentTerm' \in [Server -> Nat]
      /\ votedFor' \in [Server -> Server \cup {NoVote}]
      /\ transferring' \in [Server -> BOOLEAN]
      /\ hard' \in [Server -> HardStateType]
      /\ used' \in [EventKind -> Nat]
  BY <1>2, AdoptIfNewerType DEF RejectMismatch
<1>4. LastIndex(n) + 1 \in Nat
  BY LastTermType
<1>5. AppendResponse(n, m.from, m.term, FALSE, LastIndex(n) + 1)
        \in MessageType
  BY <1>2, <1>4, AppendResponseIsMessage, Zenon
<1> QED
  BY <1>2, <1>3, <1>5, ZenonT(60)
  DEF RejectMismatch, FollowLeader, TypeOK, logVars, replVars, clientVars,
      electionHistory

LEMMA AcceptType ==
    ASSUME TypeOK, NEW n \in Server, NEW m \in net, AcceptAppend(n, m)
    PROVE  TypeOK'
<1> DEFINE lg == AppendedUpTo(log[n], m.prev, m.entries, Len(m.entries))
<1>1. FollowLeader(n, m)
  BY DEF AcceptAppend
<1>2. /\ m.from \in Server /\ m.term \in Nat /\ m.prev \in Nat
      /\ m.entries \in Seq(Entry) /\ m.commit \in Nat
      /\ role' \in [Server -> {Follower, Candidate, Leader}]
      /\ contact' \in [Server -> BOOLEAN]
  BY <1>1, FollowType
<1>3. /\ currentTerm' \in [Server -> Nat]
      /\ votedFor' \in [Server -> Server \cup {NoVote}]
      /\ transferring' \in [Server -> BOOLEAN]
      /\ hard' \in [Server -> HardStateType]
      /\ used' \in [EventKind -> Nat]
  BY <1>2, AdoptIfNewerType DEF AcceptAppend
<1>4. lg \in Seq(Entry)
  <2>1. log[n] \in Seq(Entry)
    BY DEF TypeOK
  <2>2. m.prev \in 0..Len(log[n]) /\ Len(m.entries) \in 0..Len(m.entries)
    BY <1>2, <2>1 DEF AcceptAppend, MatchesPrev
  <2> QED
    BY <1>2, <2>1, <2>2, AppendedType
<1>5. FollowedCommit(n, lg, m.commit) \in Nat
  BY <1>2, <1>4, FollowedCommitType, Zenon
<1>6. /\ log' = [log EXCEPT ![n] = lg]
      /\ commitIndex' = [commitIndex EXCEPT ![n] =
                            FollowedCommit(n, lg, m.commit)]
  BY DEF AcceptAppend
<1> HIDE DEF lg
<1>7. log' \in [Server -> Seq(Entry)] /\ commitIndex' \in [Server -> Nat]
  BY <1>4, <1>5, <1>6 DEF TypeOK
<1>8. AppendResponse(n, m.from, m.term, TRUE, 0) \in MessageType
  BY <1>2, AppendResponseIsMessage, Zenon
<1> QED
  BY <1>2, <1>3, <1>7, <1>8, ZenonT(60)
  DEF AcceptAppend, FollowLeader, TypeOK, replVars, clientVars,
      electionHistory
LEMMA DiskErrorType ==
    ASSUME TypeOK, NEW n \in Server, NEW m \in net, AppendDiskError(n, m)
    PROVE  TypeOK'
<1>1. FollowLeader(n, m)
  BY DEF AppendDiskError
<1>2. /\ m.from \in Server /\ m.term \in Nat /\ m.prev \in Nat
      /\ m.entries \in Seq(Entry) /\ m.commit \in Nat
      /\ role' \in [Server -> {Follower, Candidate, Leader}]
      /\ contact' \in [Server -> BOOLEAN]
  BY <1>1, FollowType
<1>3. used' \in [EventKind -> Nat]
  BY SpendType DEF AppendDiskError, TypeOK, EventKind
<1>4. /\ currentTerm' \in [Server -> Nat]
      /\ votedFor' \in [Server -> Server \cup {NoVote}]
      /\ transferring' \in [Server -> BOOLEAN]
      /\ hard' \in [Server -> HardStateType]
  <2>1. CASE m.term > currentTerm[n]
    <3>1. [hard EXCEPT ![n] = HardState(m.term, NoVote)]
            \in [Server -> HardStateType]
      BY <1>2, HardUpdateType
    <3>2. hard \in [Server -> HardStateType]
      BY DEF TypeOK
    <3>3. AdoptTerm(n, m.term) /\ hard' \in [Server -> HardStateType]
      BY <2>1, <3>1, <3>2 DEF AppendDiskError
    <3> QED
      BY <1>2, <3>3, AdoptType
  <2>2. CASE ~ (m.term > currentTerm[n])
    BY <2>2 DEF AppendDiskError, TypeOK
  <2> QED
    BY <2>1, <2>2
<1>5. PICK lg \in FailedAppends(log[n], m.prev, m.entries) :
         log' = [log EXCEPT ![n] = lg]
  BY Zenon DEF AppendDiskError
<1>6. lg \in Seq(Entry)
  <2>1. log[n] \in Seq(Entry)
    BY DEF TypeOK
  <2>2. m.prev \in 0..Len(log[n])
    <3>1. m.prev <= Len(log[n])
      BY Zenon DEF AppendDiskError, MatchesPrev
    <3> QED
      BY <1>2, <2>1, <3>1, PositionType, Zenon
  <2> QED
    BY <1>2, <2>1, <2>2, FailedAppendsType
<1>7. log' \in [Server -> Seq(Entry)]
  BY <1>5, <1>6 DEF TypeOK
<1>8. AppendResponse(n, m.from, m.term, FALSE, m.prev + 1) \in MessageType
  <2>1. m.prev + 1 \in Nat
    BY <1>2, Successor, Zenon
  <2> QED
    BY <1>2, <2>1, AppendResponseIsMessage, ZenonT(60)
<1> QED
  BY <1>2, <1>3, <1>4, <1>7, <1>8, ZenonT(60)
  DEF AppendDiskError, FollowLeader, TypeOK, replVars, clientVars,
      electionHistory

LEMMA AppendResponseStepType ==
    ASSUME TypeOK, NEW n \in Server, NEW p \in Server, NEW m \in net,
           HandleAppendResponse(n, p, m)
    PROVE  TypeOK'
<1> DEFINE r == round[n][p]
           top == IF r.prev + r.len > matchIndex[n][p] THEN r.prev + r.len
                                                       ELSE matchIndex[n][p]
           match == [matchIndex[n] EXCEPT ![p] = top]
<1>1. m \in AppendResponseType
  BY MessageByType DEF HandleAppendResponse, IsMessage
<1>2. m.term \in Nat /\ m.hint \in Nat
  BY <1>1, SMTT(60) DEF AppendResponseType
<1>3. round' \in [Server -> [Server -> RoundType]]
  <2>1. NoRound \in RoundType
    BY DEF NoRound, RoundType
  <2> QED
    BY <2>1, Zenon DEF HandleAppendResponse, TypeOK
<1>4. match \in [Server -> Nat] /\ match[p] + 1 \in Nat \ {0}
  <2>1. r \in RoundType /\ matchIndex[n] \in [Server -> Nat]
    BY DEF TypeOK
  <2>2. top \in Nat
    <3>1. r.prev \in Nat /\ r.len \in Nat
      BY <2>1, Zenon DEF RoundType
    <3>2. matchIndex[n][p] \in Nat
      BY <2>1, Zenon
    <3> QED
      BY <3>1, <3>2, SMTT(60)
  <2> HIDE DEF top
  <2>3. match \in [Server -> Nat]
    BY <2>1, <2>2, ZenonT(60)
  <2>4. match[p] \in Nat
    BY <2>3, Zenon
  <2> HIDE DEF match
  <2> QED
    BY <2>3, <2>4, Successor, Zenon
<1>5. CASE /\ StepDown(n, m.term)
           /\ UNCHANGED <<nextIndex, matchIndex, commitIndex>>
  <2>1. /\ currentTerm' \in [Server -> Nat]
        /\ votedFor' \in [Server -> Server \cup {NoVote}]
        /\ transferring' \in [Server -> BOOLEAN]
        /\ hard' \in [Server -> HardStateType]
        /\ used' \in [EventKind -> Nat]
        /\ role' \in [Server -> {Follower, Candidate, Leader}]
    BY <1>2, <1>5, StepDownType
  <2> QED
    BY <1>3, <1>5, <2>1, ZenonT(60)
    DEF HandleAppendResponse, TypeOK, clientVars, electionHistory
<1>6. CASE UNCHANGED <<currentTerm, role, votedFor, transferring, hard,
                       nextIndex, matchIndex, commitIndex, used>>
  BY <1>3, <1>6, Zenon DEF HandleAppendResponse, TypeOK, clientVars, electionHistory
<1>7. CASE /\ matchIndex' = [matchIndex EXCEPT ![n] = match]
           /\ nextIndex' = [nextIndex EXCEPT ![n][p] = match[p] + 1]
           /\ commitIndex' = [commitIndex EXCEPT ![n] =
                                AdvancedCommit(n, log[n], match)]
           /\ UNCHANGED <<currentTerm, role, votedFor, transferring, hard, used>>
  <2>1. AdvancedCommit(n, log[n], match) \in Nat
    <3>1. log[n] \in Seq(Entry)
      BY DEF TypeOK
    <3> QED
      BY <3>1, AdvancedCommitType, ZenonT(60)
  <2> HIDE DEF match
  <2>2. /\ matchIndex' \in [Server -> [Server -> Nat]]
        /\ nextIndex' \in [Server -> [Server -> Nat \ {0}]]
        /\ commitIndex' \in [Server -> Nat]
    BY <1>4, <1>7, <2>1, ZenonT(60) DEF TypeOK
  <2> QED
    BY <1>3, <1>7, <2>2, ZenonT(60)
    DEF HandleAppendResponse, TypeOK, clientVars, electionHistory
<1>8. CASE /\ nextIndex' = [nextIndex EXCEPT ![n][p] =
                              IF m.hint < 1 THEN 1 ELSE m.hint]
           /\ UNCHANGED <<currentTerm, role, votedFor, transferring, hard,
                          matchIndex, commitIndex, used>>
  <2>1. nextIndex' \in [Server -> [Server -> Nat \ {0}]]
    <3>1. (IF m.hint < 1 THEN 1 ELSE m.hint) \in Nat \ {0}
      BY <1>2
    <3> QED
      BY <1>8, <3>1, SMTT(60) DEF TypeOK
  <2> QED
    BY <1>3, <1>8, <2>1, Zenon
    DEF HandleAppendResponse, TypeOK, clientVars, electionHistory
<1> QED
  BY <1>5, <1>6, <1>7, <1>8 DEF HandleAppendResponse
LEMMA ProposeType ==
    ASSUME TypeOK, NEW n \in Server, NEW v \in Value, Propose(n, v)
    PROVE  TypeOK'
<1> DEFINE e == [term |-> currentTerm[n], val |-> v]
           lg == Append(log[n], e)
<1>1. currentTerm[n] \in Nat /\ log[n] \in Seq(Entry)
  BY SMTT(60) DEF TypeOK
<1>2. e \in Entry
  BY <1>1, ZenonT(60) DEF Entry
<1>3. /\ log' = [log EXCEPT ![n] = lg]
      /\ commitIndex' = [commitIndex EXCEPT ![n] =
                            AdvancedCommit(n, lg, matchIndex[n])]
      /\ waiting' = [waiting EXCEPT ![n] = [index |-> Len(lg), entry |-> e]]
  BY DEF Propose
<1> HIDE DEF e
<1>4. lg \in Seq(Entry)
  BY <1>1, <1>2, AppendType, Zenon
<1> HIDE DEF lg
<1>5. AdvancedCommit(n, lg, matchIndex[n]) \in Nat
  BY <1>4, AdvancedCommitType
<1>6. [index |-> Len(lg), entry |-> e] \in ProposalType
  BY <1>2, <1>4, SMTT(60) DEF ProposalType
<1>7. /\ log' \in [Server -> Seq(Entry)] /\ commitIndex' \in [Server -> Nat]
      /\ waiting' \in [Server -> ProposalType \cup {NoWait}]
  BY <1>3, <1>4, <1>5, <1>6, ZenonT(60) DEF TypeOK
<1> QED
  BY <1>7, ZenonT(60) DEF Propose, TypeOK, voteVars, replVars, xferVars, electionHistory

LEMMA ApplyType ==
    ASSUME TypeOK, NEW n \in Server, ApplyCommitted(n)
    PROVE  TypeOK'
<1>1. log[n] \in Seq(Entry) /\ applied[n] \in Seq(Entry)
  BY DEF TypeOK
<1>2. log[n][Len(applied[n]) + 1] \in Entry
  BY <1>1 DEF ApplyCommitted, LastApplied, LastIndex
<1>3. Append(applied[n], log[n][LastApplied(n) + 1]) \in Seq(Entry)
  BY <1>1, <1>2 DEF LastApplied
<1>4. applied' \in [Server -> Seq(Entry)]
  BY <1>3, SMTT(60) DEF ApplyCommitted, TypeOK
<1> QED
  BY <1>4, ZenonT(60) DEF ApplyCommitted, TypeOK, voteVars, replVars, xferVars, clientVars,
              electionHistory

LEMMA AwaitType ==
    ASSUME TypeOK, NEW n \in Server, AwaitApplied(n) \/ AwaitMaybeCommitted(n)
    PROVE  TypeOK'
<1>1. waiting[n] # NoWait /\ waiting' = [waiting EXCEPT ![n] = NoWait]
  BY Zenon DEF AwaitApplied, AwaitMaybeCommitted
<1>2. waiting[n] \in ProposalType
  BY <1>1 DEF TypeOK
<1>3. waiting' \in [Server -> ProposalType \cup {NoWait}]
  BY <1>1 DEF TypeOK
<1>4. acked' \subseteq ProposalType
  BY <1>2, SMTT(60) DEF AwaitApplied, AwaitMaybeCommitted, TypeOK
<1> QED
  BY <1>3, <1>4, Zenon DEF AwaitApplied, AwaitMaybeCommitted, TypeOK, voteVars,
                    logVars, replVars, xferVars, electionHistory

LEMMA TransferStartType ==
    ASSUME TypeOK, NEW n \in Server, NEW p \in Server, TransferStart(n, p)
    PROVE  TypeOK'
<1>1. [to |-> p, term |-> currentTerm[n], last |-> LastIndex(n),
       stage |-> "catchup"] \in TransferType
  BY LastTermType, Zenon DEF TransferType, TypeOK
<1>2. xfers' \in [Server -> SUBSET TransferType]
  BY <1>1, ZenonT(60) DEF TransferStart, TypeOK
<1>3. transferring' \in [Server -> BOOLEAN]
  BY DEF TransferStart, TypeOK
<1>4. used' \in [EventKind -> Nat]
  BY SpendType DEF TransferStart, TypeOK, EventKind
<1> QED
  BY <1>2, <1>3, <1>4, ZenonT(60) DEF TransferStart, TypeOK, voteVars, logVars, replVars,
                          clientVars, electionHistory

LEMMA TransferStepType ==
    ASSUME TypeOK, NEW n \in Server, NEW x \in xfers[n],
           \/ TransferHandOff(n, x) \/ TransferReturn(n, x)
           \/ TransferExpire(n, x) \/ TransferAbort(n, x)
    PROVE  TypeOK'
<1>1. x \in TransferType
  BY DEF TypeOK
<1>2. xfers' \in [Server -> SUBSET TransferType]
  <2>1. xfers[n] \subseteq TransferType
    BY DEF TypeOK
  <2>2. PICK S : xfers' = [xfers EXCEPT ![n] = S] /\ S \subseteq TransferType
    <3>1. ASSUME NEW st \in {"handoff", "abort"}
          PROVE  (xfers[n] \ {x}) \cup {[x EXCEPT !.stage = st]}
                   \subseteq TransferType
      <4>1. [x EXCEPT !.stage = st] \in TransferType
        BY <1>1 DEF TransferType
      <4> QED
        BY <2>1, <4>1
    <3>2. CASE TransferHandOff(n, x)
      BY <3>1, <3>2, Zenon DEF TransferHandOff, NextStage
    <3>3. CASE TransferExpire(n, x)
      BY <3>1, <3>3, ZenonT(60) DEF TransferExpire, NextStage
    <3>4. CASE TransferReturn(n, x) \/ TransferAbort(n, x)
      BY <2>1, <3>4 DEF TransferReturn, TransferAbort
    <3> QED
      BY <3>2, <3>3, <3>4
  <2> QED
    BY <2>2, SMTT(60) DEF TypeOK
<1>3. TimeoutNow(n, x.to, x.term) \in MessageType
  BY <1>1, Zenon DEF TransferType, TimeoutNow, TimeoutNowType, MessageType
<1>4. net' \subseteq MessageType /\ transferring' \in [Server -> BOOLEAN]
  BY <1>3, ZenonT(60)
  DEF TransferHandOff, TransferReturn, TransferExpire, TransferAbort,
              TypeOK
<1> QED
  BY <1>2, <1>4, ZenonT(60)
  DEF TransferHandOff, TransferReturn, TransferExpire, TransferAbort, TypeOK, voteVars,
      logVars, replVars, clientVars, electionHistory

LEMMA RestartType ==
    ASSUME TypeOK, NEW n \in Server, Restart(n)
    PROVE  TypeOK'
<1> DEFINE h == ResolvedHardState(n)
<1>1. h \in HardStateType /\ h.term \in Nat /\ h.vote \in Server \cup {NoVote}
  BY ResolvedType DEF HardStateType
<1>2. used' \in [EventKind -> Nat]
  <2>1. used \in [EventKind -> Nat] /\ "crash" \in EventKind
    BY DEF TypeOK, EventKind
  <2> QED
    BY <2>1, SpendType DEF Restart
<1>3. /\ NoRound \in RoundType
      /\ RecoveredCommit(n) \in Nat /\ RecoveredLog(n) \in Seq(Entry)
  <2>1. NoRound \in RoundType
    BY SMTT(60) DEF NoRound, RoundType
  <2>2. applied[n] \in Seq(Entry) /\ log[n] \in Seq(Entry)
    BY ZenonT(60) DEF TypeOK
  <2>3. Len(applied[n]) \in Nat
    BY <2>2, SMTT(60)
  <2> QED
    BY <2>1, <2>2, <2>3, Zenon DEF RecoveredCommit, RecoveredLog, LastApplied
<1>4. /\ role' \in [Server -> {Follower, Candidate, Leader}]
      /\ contact' \in [Server -> BOOLEAN]
      /\ transferring' \in [Server -> BOOLEAN]
      /\ waiting' \in [Server -> ProposalType \cup {NoWait}]
  BY ZenonT(60) DEF Restart, TypeOK
<1>5. /\ currentTerm' \in [Server -> Nat]
      /\ votedFor' \in [Server -> Server \cup {NoVote}]
      /\ hard' \in [Server -> HardStateType]
  <2> HIDE DEF h
  <2>1. /\ currentTerm' = [currentTerm EXCEPT ![n] = h.term]
        /\ votedFor' = [votedFor EXCEPT ![n] = h.vote]
        /\ hard' = [hard EXCEPT ![n] = h]
    BY DEF Restart, h
  <2> QED
    BY <1>1, <2>1, Zenon DEF TypeOK
<1>6. /\ tally' \in [Server -> SUBSET Server]
      /\ xfers' \in [Server -> SUBSET TransferType]
  BY Zenon DEF Restart, TypeOK
<1>7. votesReceived' \in [Server -> Nat]
  <2>1. votesReceived' = [votesReceived EXCEPT ![n] = 0]
    BY DEF Restart
  <2> QED
    BY <2>1 DEF TypeOK
<1>8. log' \in [Server -> Seq(Entry)] /\ commitIndex' \in [Server -> Nat]
  <2>1. /\ log' = [log EXCEPT ![n] = RecoveredLog(n)]
        /\ commitIndex' = [commitIndex EXCEPT ![n] = RecoveredCommit(n)]
    BY DEF Restart
  <2> QED
    BY <1>3, <2>1 DEF TypeOK
<1>9. /\ nextIndex' \in [Server -> [Server -> Nat \ {0}]]
      /\ matchIndex' \in [Server -> [Server -> Nat]]
      /\ round' \in [Server -> [Server -> RoundType]]
  <2>1. /\ [p \in Server |-> 1] \in [Server -> Nat \ {0}]
        /\ [p \in Server |-> 0] \in [Server -> Nat]
        /\ [p \in Server |-> NoRound] \in [Server -> RoundType]
    BY <1>3
  <2>2. /\ nextIndex' = [nextIndex EXCEPT ![n] = [p \in Server |-> 1]]
        /\ matchIndex' = [matchIndex EXCEPT ![n] = [p \in Server |-> 0]]
        /\ round' = [round EXCEPT ![n] = [p \in Server |-> NoRound]]
    BY DEF Restart
  <2> QED
    BY <2>1, <2>2, Zenon DEF TypeOK
<1>10. net' \subseteq net
  BY Zenon DEF Restart
<1> QED
  BY <1>2, <1>4, <1>5, <1>6, <1>7, <1>8, <1>9, <1>10, Zenon
  DEF Restart, TypeOK

LEMMA RemainingStepsType ==
    ASSUME TypeOK,
           \/ \E n \in Server : \E m \in net : IgnoreRequestVote(n, m)
           \/ \E n, p \in Server : SendRoundPanics(n, p)
           \/ \E n, p \in Server : ResponseTimeout(n, p)
           \/ \E m \in net : LoseMessage(m)
           \/ UNCHANGED vars
    PROVE  TypeOK'
<1>1. CASE \E n \in Server : \E m \in net : IgnoreRequestVote(n, m)
  <2>1. PICK n \in Server, m \in net : IgnoreRequestVote(n, m)
    BY <1>1
  <2>2. m \in RequestVoteType
    BY <2>1, MessageByType, Zenon DEF IgnoreRequestVote
  <2>3. m.from \in Server /\ currentTerm[n] \in Nat
    BY <2>2, SMTT(60) DEF RequestVoteType, TypeOK
  <2>4. Refusal(n, m.from, currentTerm[n]) \subseteq MessageType
    BY <2>3, RefusalType, Zenon
  <2> QED
    BY <2>1, <2>4, ZenonT(60) DEF IgnoreRequestVote, TypeOK, voteVars, logVars, replVars,
                      xferVars, clientVars, electionHistory
<1>2. CASE \E n, p \in Server : SendRoundPanics(n, p)
  BY <1>2, ZenonT(60) DEF SendRoundPanics, TypeOK, voteVars, logVars, replVars, xferVars,
              clientVars, electionHistory
<1>3. CASE \E n, p \in Server : ResponseTimeout(n, p)
  <2>1. PICK n \in Server, p \in Server : ResponseTimeout(n, p)
    BY <1>3
  <2>2. NoRound \in RoundType
    BY DEF NoRound, RoundType
  <2>3. round' \in [Server -> [Server -> RoundType]]
    BY <2>1, <2>2, Zenon DEF ResponseTimeout, TypeOK
  <2> QED
    BY <2>1, <2>3, ZenonT(60) DEF ResponseTimeout, TypeOK, voteVars, logVars, xferVars,
                      clientVars, electionHistory
<1>4. CASE \E m \in net : LoseMessage(m)
  <2>1. PICK m \in net : LoseMessage(m)
    BY <1>4
  <2>2. used' \in [EventKind -> Nat]
    BY <2>1, SpendType DEF LoseMessage, TypeOK, EventKind
  <2> QED
    BY <2>1, <2>2, Zenon DEF LoseMessage, TypeOK, voteVars, logVars, replVars,
                      xferVars, clientVars, electionHistory
<1>5. CASE UNCHANGED vars
  BY <1>5, Zenon DEF vars, TypeOK, voteVars, logVars, replVars, xferVars, clientVars,
              electionHistory
<1> QED
  BY <1>1, <1>2, <1>3, <1>4, <1>5, SMTT(60)

\* HandleTimeoutNow either campaigns or only takes the message from net.
LEMMA TimeoutNowStepType ==
    ASSUME TypeOK, NEW n \in Server, NEW m \in net, HandleTimeoutNow(n, m)
    PROVE  TypeOK'
<1>1. CASE Campaign(n, TRUE, net \ {m})
  <2>1. net \ {m} \in SUBSET net
    OBVIOUS
  <2> QED
    BY <1>1, <2>1, CampaignType, Zenon
<1>2. CASE net' = net \ {m} /\ UNCHANGED <<voteVars, logVars, replVars,
             xferVars, clientVars, electionHistory, panicked, used>>
  BY <1>2 DEF TypeOK, voteVars, logVars, replVars, xferVars, clientVars,
              electionHistory
<1> QED
  BY <1>1, <1>2, Zenon DEF HandleTimeoutNow

LEMMA TypeNext == TypeOK /\ [Next]_vars => TypeOK'
<1> SUFFICES ASSUME TypeOK, [Next]_vars PROVE TypeOK'
  OBVIOUS
<1>0. Running \subseteq Server
  BY DEF Running
<1>1. ASSUME NEW n \in Server, ElectionTimeout(n) PROVE TypeOK'
  BY <1>1, CampaignType, ZenonT(60) DEF ElectionTimeout
<1>2. ASSUME NEW n \in Server, NEW m \in net,
             \/ HandleTimeoutNow(n, m) \/ IgnoreRequestVote(n, m)
             \/ GrantVote(n, m) \/ DeclineUnsavedVote(n, m)
             \/ RefuseVote(n, m) \/ HandleVoteResponse(n, m)
      PROVE  TypeOK'
  BY <1>2, TimeoutNowStepType, RemainingStepsType, GrantVoteType, DeclineType,
     RefuseType, VoteResponseStepType
<1>3. ASSUME NEW n \in Server, NEW p \in Server,
             \/ SendRound(n, p) \/ SendRoundPanics(n, p)
             \/ ResponseTimeout(n, p) \/ TransferStart(n, p)
      PROVE  TypeOK'
  BY <1>3, SendRoundType, RemainingStepsType, TransferStartType
<1>4. ASSUME NEW n \in Server, NEW m \in net,
             \/ RejectStaleAppend(n, m) \/ RejectMismatch(n, m)
             \/ AcceptAppend(n, m) \/ AppendDiskError(n, m)
      PROVE  TypeOK'
  BY <1>4, RejectStaleType, RejectMismatchType, AcceptType, DiskErrorType
<1>5. ASSUME NEW n \in Server, NEW p \in Server, NEW m \in net,
             HandleAppendResponse(n, p, m)
      PROVE  TypeOK'
  BY <1>5, AppendResponseStepType
<1>6. ASSUME NEW n \in Server, NEW v \in Value, Propose(n, v)
      PROVE  TypeOK'
  BY <1>6, ProposeType
<1>7. ASSUME NEW n \in Server,
             \/ ApplyCommitted(n) \/ AwaitApplied(n)
             \/ AwaitMaybeCommitted(n) \/ Restart(n)
      PROVE  TypeOK'
  BY <1>7, ApplyType, AwaitType, RestartType
<1>8. ASSUME NEW n \in Server, NEW x \in xfers[n],
             \/ TransferHandOff(n, x) \/ TransferReturn(n, x)
             \/ TransferExpire(n, x) \/ TransferAbort(n, x)
      PROVE  TypeOK'
  BY <1>8, TransferStepType
<1>9. ASSUME (\E m \in net : LoseMessage(m)) \/ UNCHANGED vars
      PROVE  TypeOK'
  BY <1>9, RemainingStepsType
<1> QED
  BY <1>0, <1>1, <1>2, <1>3, <1>4, <1>5, <1>6, <1>7, <1>8, <1>9, Zenon DEF Next

\* Every field of a Node, every durable file and every message keeps its type,
\* through every handler, failed save, partial append, restart and loss.
THEOREM TypeCorrect == Spec => []TypeOK
<1>1. Init => TypeOK
  BY TypeInit
<1>2. TypeOK /\ [Next]_vars => TypeOK'
  BY TypeNext
<1> QED
  BY <1>1, <1>2, PTL DEF Spec
=============================================================================
