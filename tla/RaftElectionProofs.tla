------------------------- MODULE RaftElectionProofs -------------------------
(***************************************************************************)
(* Election safety of Raft for every set of servers and every schedule:    *)
(* ElectionInv of RaftElection is inductive, and implies ElectionSafety,   *)
(* VotesSurviveRestart and CountedVotesAreDistinct.                        *)
(*                                                                         *)
(* VoteSteps says what each action does to votes and terms: nothing, a     *)
(* step down, a failed save, or one of the five steps that cast, count or  *)
(* recover votes.  Each kind of step then has one lemma.                   *)
(***************************************************************************)
EXTENDS RaftElection, RaftLemmas, FiniteSetTheorems

\* No message of this step can lead to a vote.
NoNewVotes == \A m \in net' : m \notin net => ~ IsRequest(m) /\ ~ IsGrant(m)

Quiet ==
    /\ NoNewVotes
    /\ UNCHANGED <<role, currentTerm, votedFor, votesReceived, hard, ballots,
                   tally, elected>>

\* n becomes a follower, of the same term or of a newer one.
Demoted(n) ==
    /\ NoNewVotes
    /\ role' = [role EXCEPT ![n] = Follower]
    /\ UNCHANGED <<votesReceived, ballots, tally, elected>>
    /\ \/ UNCHANGED <<currentTerm, votedFor, hard>>
       \/ \E t \in Nat :
            /\ t > currentTerm[n]
            /\ currentTerm' = [currentTerm EXCEPT ![n] = t]
            /\ votedFor' = [votedFor EXCEPT ![n] = NoVote]
            /\ hard' = hard \/ hard' = [hard EXCEPT ![n] = HardState(t, NoVote)]

\* n wanted to campaign but could not save its vote for itself.
CampaignFailed(n) ==
    /\ NoNewVotes
    /\ \/ hard' = hard
       \/ hard' = [hard EXCEPT ![n] = HardState(currentTerm[n] + 1, n)]
    /\ UNCHANGED <<role, currentTerm, votedFor, votesReceived, ballots, tally,
                   elected>>

Campaigned(n) ==
    LET t == currentTerm[n] + 1
    IN  /\ hard' = [hard EXCEPT ![n] = HardState(t, n)]
        /\ currentTerm' = [currentTerm EXCEPT ![n] = t]
        /\ role' = [role EXCEPT ![n] = Candidate]
        /\ votedFor' = [votedFor EXCEPT ![n] = n]
        /\ votesReceived' = [votesReceived EXCEPT ![n] = 1]
        /\ ballots' = ballots \cup {Ballot(n, t, n)}
        /\ tally' = [tally EXCEPT ![n] = {n}]
        /\ UNCHANGED elected
        /\ \E li, lt, x :
             \A m \in net' : m \notin net =>
                \E p \in Server \ {n} : m = RequestVote(n, p, t, li, lt, x)

\* n has counted the vote m grants, and leads if that makes a majority.
Counted(n, m) ==
    /\ CountsVote(n, m)
    /\ m.type = "VoteResponse" /\ m.to = n
    /\ net' = net \ {m}
    /\ votesReceived' = [votesReceived EXCEPT ![n] = @ + 1]
    /\ tally' = [tally EXCEPT ![n] = @ \cup {m.from}]
    /\ \/ /\ votesReceived[n] + 1 >= Majority
          /\ role' = [role EXCEPT ![n] = Leader]
          /\ elected' = elected \cup {[term |-> currentTerm[n], node |-> n]}
       \/ UNCHANGED <<role, elected>>
    /\ UNCHANGED <<currentTerm, votedFor, hard, ballots>>

Restarted(n) ==
    /\ NoNewVotes
    /\ role' = [role EXCEPT ![n] = Follower]
    /\ currentTerm' = [currentTerm EXCEPT ![n] = ResolvedHardState(n).term]
    /\ votedFor' = [votedFor EXCEPT ![n] = ResolvedHardState(n).vote]
    /\ hard' = [hard EXCEPT ![n] = ResolvedHardState(n)]
    /\ tally' = [tally EXCEPT ![n] = {}]
    /\ votesReceived' = [votesReceived EXCEPT ![n] = 0]
    /\ UNCHANGED <<ballots, elected>>

VoteStep ==
    \/ Quiet
    \/ \E n \in Server :
         Demoted(n) \/ CampaignFailed(n) \/ Campaigned(n) \/ Restarted(n)
    \/ \E n \in Server : \E m \in net :
         GrantVote(n, m) \/ DeclineUnsavedVote(n, m) \/ Counted(n, m)

-----------------------------------------------------------------------------
(* What each action does to the votes.                                       *)

LEMMA RefusalIsNoVote ==
    ASSUME NEW n, NEW c, NEW t, NEW m \in Refusal(n, c, t)
    PROVE  ~ IsRequest(m) /\ ~ IsGrant(m)
BY DEF Refusal, VoteResponse, IsRequest, IsGrant

LEMMA AppendResponseIsNoVote ==
    ASSUME NEW n, NEW p, NEW t, NEW ok, NEW h
    PROVE  LET m == AppendResponse(n, p, t, ok, h)
           IN  ~ IsRequest(m) /\ ~ IsGrant(m)
BY DEF AppendResponse, IsRequest, IsGrant

LEMMA CampaignVotes ==
    ASSUME TypeOK, NEW n \in Server, NEW xfer, NEW rest \in SUBSET net,
           Campaign(n, xfer, rest)
    PROVE  Campaigned(n) \/ CampaignFailed(n)
<1> DEFINE t == currentTerm[n] + 1
<1>1. CASE SaveFails(n, t, n) /\ net' = rest
           /\ UNCHANGED <<currentTerm, role, votedFor, votesReceived, ballots,
                          tally>>
  BY <1>1 DEF Campaign, SaveFails, CampaignFailed, NoNewVotes
<1>2. CASE /\ Save(n, t, n)
           /\ currentTerm' = [currentTerm EXCEPT ![n] = t]
           /\ role' = [role EXCEPT ![n] = Candidate]
           /\ votedFor' = [votedFor EXCEPT ![n] = n]
           /\ votesReceived' = [votesReceived EXCEPT ![n] = 1]
           /\ ballots' = ballots \cup {Ballot(n, t, n)}
           /\ tally' = [tally EXCEPT ![n] = {n}]
           /\ net' = rest \cup
                {RequestVote(n, p, t, LastIndex(n), LastTerm(n), xfer) :
                 p \in Peers(n)}
  <2>1. \A m \in net' : m \notin net =>
            \E p \in Server \ {n} :
               m = RequestVote(n, p, t, LastIndex(n), LastTerm(n), xfer)
    BY <1>2 DEF Peers
  <2> QED
    BY <1>2, <2>1 DEF Campaign, Save, Campaigned
<1> QED
  BY <1>1, <1>2 DEF Campaign

LEMMA StepDownVotes ==
    ASSUME NEW n \in Server, NEW t \in Nat, t > currentTerm[n], StepDown(n, t),
           NoNewVotes, UNCHANGED <<votesReceived, ballots, tally, elected>>
    PROVE  Demoted(n)
BY Zenon DEF StepDown, AdoptAndSaveTerm, AdoptTerm, Save, SaveFails, Demoted

LEMMA FollowVotes ==
    ASSUME TypeOK, NEW n \in Server, NEW m \in net,
           \/ RejectMismatch(n, m) \/ AcceptAppend(n, m)
           \/ AppendDiskError(n, m)
    PROVE  Demoted(n)
<1>1. FollowLeader(n, m)
  BY Zenon DEF RejectMismatch, AcceptAppend, AppendDiskError
<1>2. m.term \in Nat
  BY <1>1, MessageByType DEF FollowLeader, AppendEntriesType
<1>3. NoNewVotes
  <2>1. PICK ok, h : net' = (net \ {m}) \cup
                              {AppendResponse(n, m.from, m.term, ok, h)}
    BY Zenon DEF RejectMismatch, AcceptAppend, AppendDiskError
  <2> QED
    BY <2>1, AppendResponseIsNoVote DEF NoNewVotes
<1>4. \/ UNCHANGED <<currentTerm, votedFor, hard>>
      \/ /\ m.term > currentTerm[n]
         /\ currentTerm' = [currentTerm EXCEPT ![n] = m.term]
         /\ votedFor' = [votedFor EXCEPT ![n] = NoVote]
         /\ \/ hard' = hard
            \/ hard' = [hard EXCEPT ![n] = HardState(m.term, NoVote)]
  BY Zenon DEF RejectMismatch, AcceptAppend, AppendDiskError, AdoptTermIfNewer,
         AdoptAndSaveTerm, AdoptTerm, Save, SaveFails
<1> QED
  BY <1>1, <1>2, <1>3, <1>4 DEF Demoted, FollowLeader, electionHistory

LEMMA RefuseVotes ==
    ASSUME TypeOK, NEW n \in Server, NEW m \in net, RefuseVote(n, m)
    PROVE  Demoted(n) \/ Quiet
<1>1. NoNewVotes
  BY RefusalIsNoVote DEF RefuseVote, NoNewVotes
<1>2. m.term \in Nat
  <2>1. m \in RequestVoteType
    BY MessageByType DEF RefuseVote
  <2> QED
    BY <2>1 DEF RequestVoteType
<1>3. CASE m.term > currentTerm[n] /\ StepDown(n, m.term)
  BY <1>1, <1>2, <1>3, StepDownVotes DEF RefuseVote, electionHistory
<1>4. CASE UNCHANGED <<currentTerm, role, votedFor, transferring, hard, used>>
  BY <1>1, <1>4 DEF RefuseVote, Quiet, electionHistory
<1> QED
  BY <1>3, <1>4 DEF RefuseVote

LEMMA ResponseVotes ==
    ASSUME TypeOK, NEW n \in Server, NEW m \in net, HandleVoteResponse(n, m)
    PROVE  Demoted(n) \/ Quiet \/ Counted(n, m)
<1>1. NoNewVotes
  BY DEF HandleVoteResponse, NoNewVotes
<1>2. m.term \in Nat
  <2>1. m \in VoteResponseType
    BY MessageByType DEF HandleVoteResponse
  <2> QED
    BY <2>1 DEF VoteResponseType
<1>3. CASE /\ m.term > currentTerm[n] /\ StepDown(n, m.term)
           /\ UNCHANGED <<votesReceived, nextIndex, matchIndex, tally, elected>>
  BY <1>1, <1>2, <1>3, StepDownVotes DEF HandleVoteResponse
<1>4. CASE UNCHANGED <<currentTerm, role, votedFor, votesReceived, hard,
                       transferring, nextIndex, matchIndex, tally, elected,
                       used>>
  BY <1>1, <1>4 DEF HandleVoteResponse, Quiet
<1>5. CASE /\ CountsVote(n, m)
           /\ votesReceived' = [votesReceived EXCEPT ![n] = @ + 1]
           /\ tally' = [tally EXCEPT ![n] = @ \cup {m.from}]
           /\ IF votesReceived[n] + 1 >= Majority
                THEN BecomeLeader(n)
                ELSE UNCHANGED <<role, transferring, nextIndex, matchIndex,
                                 elected>>
           /\ UNCHANGED <<currentTerm, votedFor, hard, used>>
  <2>1. \/ /\ votesReceived[n] + 1 >= Majority
           /\ role' = [role EXCEPT ![n] = Leader]
           /\ elected' = elected \cup {[term |-> currentTerm[n], node |-> n]}
        \/ UNCHANGED <<role, elected>>
    BY <1>5 DEF BecomeLeader
  <2>2. /\ m.type = "VoteResponse" /\ m.to = n
        /\ net' = net \ {m}
        /\ UNCHANGED ballots
    BY SMTT(60) DEF HandleVoteResponse
  <2> QED
    BY <1>5, <2>1, <2>2 DEF Counted
<1> QED
  BY <1>3, <1>4, <1>5 DEF HandleVoteResponse
LEMMA AppendReplyVotes ==
    ASSUME TypeOK, NEW n \in Server, NEW p \in Server, NEW m \in net,
           HandleAppendResponse(n, p, m)
    PROVE  Demoted(n) \/ Quiet
<1>1. NoNewVotes
  BY DEF HandleAppendResponse, NoNewVotes
<1>2. m.term \in Nat
  <2>1. m \in AppendResponseType
    BY MessageByType, Zenon DEF HandleAppendResponse, IsMessage
  <2> QED
    BY <2>1, SMTT(60) DEF AppendResponseType
<1>3. UNCHANGED <<votesReceived, ballots, tally, elected>>
  BY DEF HandleAppendResponse, electionHistory
<1>4. CASE m.term > currentTerm[n] /\ StepDown(n, m.term)
  BY <1>1, <1>2, <1>3, <1>4, StepDownVotes
<1>5. CASE UNCHANGED <<currentTerm, role, votedFor, hard>>
  BY <1>1, <1>3, <1>5 DEF Quiet
<1> QED
  BY <1>4, <1>5, Zenon DEF HandleAppendResponse

LEMMA SendRoundVotes ==
    ASSUME NEW n, NEW p, SendRound(n, p)
    PROVE  Quiet
<1>1. NoNewVotes
  BY DEF SendRound, AppendEntries, NoNewVotes, IsRequest, IsGrant
<1> QED
  BY <1>1 DEF SendRound, Quiet, voteVars, electionHistory

LEMMA QuietSteps ==
    ASSUME NEW n, NEW p, NEW m, NEW x, NEW v,
           \/ IgnoreRequestVote(n, m) \/ SendRoundPanics(n, p)
           \/ RejectStaleAppend(n, m) \/ ResponseTimeout(n, p)
           \/ Propose(n, v) \/ ApplyCommitted(n) \/ AwaitApplied(n)
           \/ AwaitMaybeCommitted(n) \/ TransferStart(n, p)
           \/ TransferHandOff(n, x) \/ TransferReturn(n, x)
           \/ TransferExpire(n, x) \/ TransferAbort(n, x)
           \/ LoseMessage(m) \/ UNCHANGED vars
    PROVE  Quiet
<1>1. UNCHANGED <<voteVars, electionHistory>>
  BY Zenon DEF IgnoreRequestVote, SendRoundPanics, RejectStaleAppend,
         ResponseTimeout, Propose, ApplyCommitted, AwaitApplied,
         AwaitMaybeCommitted, TransferStart, TransferHandOff, TransferReturn,
         TransferExpire, TransferAbort, LoseMessage, vars
<1>2. NoNewVotes
  <2>1. CASE IgnoreRequestVote(n, m)
    BY <2>1, RefusalIsNoVote DEF IgnoreRequestVote, NoNewVotes
  <2>2. CASE RejectStaleAppend(n, m)
    BY <2>2, AppendResponseIsNoVote, ZenonT(60) DEF RejectStaleAppend, NoNewVotes
  <2>3. CASE TransferHandOff(n, x)
    BY <2>3, SMTT(60) DEF TransferHandOff, TimeoutNow, NoNewVotes, IsRequest, IsGrant
  <2>4. CASE \/ SendRoundPanics(n, p) \/ ResponseTimeout(n, p)
             \/ Propose(n, v) \/ ApplyCommitted(n) \/ AwaitApplied(n)
             \/ AwaitMaybeCommitted(n) \/ TransferStart(n, p)
             \/ TransferReturn(n, x) \/ TransferExpire(n, x)
             \/ TransferAbort(n, x) \/ LoseMessage(m) \/ UNCHANGED vars
    <3>1. net' \subseteq net
      BY <2>4, Zenon DEF SendRoundPanics, ResponseTimeout, Propose, ApplyCommitted,
                  AwaitApplied, AwaitMaybeCommitted, TransferStart,
                  TransferReturn, TransferExpire, TransferAbort, LoseMessage,
                  vars
    <3> QED
      BY <3>1, SMTT(60) DEF NoNewVotes
  <2> QED
    BY <2>1, <2>2, <2>3, <2>4, SMTT(60)
<1> QED
  BY <1>1, <1>2 DEF Quiet, voteVars, electionHistory

LEMMA TimeoutNowVotes ==
    ASSUME TypeOK, NEW n \in Server, NEW m \in net, HandleTimeoutNow(n, m)
    PROVE  Campaigned(n) \/ CampaignFailed(n) \/ Quiet
<1>1. CASE Campaign(n, TRUE, net \ {m})
  <2>1. net \ {m} \in SUBSET net
    OBVIOUS
  <2> QED
    BY <1>1, <2>1, CampaignVotes, Zenon
<1>2. CASE net' = net \ {m} /\ UNCHANGED <<voteVars, electionHistory>>
  BY <1>2, SMTT(60) DEF Quiet, NoNewVotes, voteVars, electionHistory
<1> QED
  BY <1>1, <1>2, Zenon DEF HandleTimeoutNow

LEMMA RestartVotes ==
    ASSUME NEW n \in Server, Restart(n)
    PROVE  Restarted(n)
<1>1. NoNewVotes
  BY Zenon DEF Restart, NoNewVotes
<1> QED
  BY <1>1, SMTT(60) DEF Restart, Restarted

LEMMA VoteSteps == TypeOK /\ [Next]_vars => VoteStep
<1> SUFFICES ASSUME TypeOK, [Next]_vars PROVE VoteStep
  OBVIOUS
<1>0. Running \subseteq Server
  BY DEF Running
<1>1. ASSUME NEW n \in Server, ElectionTimeout(n) \/ Restart(n)
      PROVE  VoteStep
  BY <1>1, CampaignVotes, RestartVotes, Zenon DEF ElectionTimeout, VoteStep
<1>2. ASSUME NEW n \in Server, NEW m \in net,
             \/ HandleTimeoutNow(n, m) \/ RefuseVote(n, m)
             \/ GrantVote(n, m) \/ DeclineUnsavedVote(n, m)
             \/ HandleVoteResponse(n, m) \/ RejectMismatch(n, m)
             \/ AcceptAppend(n, m) \/ AppendDiskError(n, m)
      PROVE  VoteStep
  BY <1>2, TimeoutNowVotes, RefuseVotes, ResponseVotes, FollowVotes
  DEF VoteStep
<1>3. ASSUME NEW n \in Server, NEW p \in Server, NEW m \in net,
             HandleAppendResponse(n, p, m)
      PROVE  VoteStep
  BY <1>3, AppendReplyVotes DEF VoteStep
<1>4. ASSUME NEW n \in Server, NEW p \in Server,
             \/ SendRound(n, p) \/ SendRoundPanics(n, p)
             \/ ResponseTimeout(n, p) \/ TransferStart(n, p)
      PROVE  VoteStep
  BY <1>4, SendRoundVotes, QuietSteps DEF VoteStep
<1>5. ASSUME NEW n \in Server, NEW m \in net,
             IgnoreRequestVote(n, m) \/ RejectStaleAppend(n, m)
      PROVE  VoteStep
  BY <1>5, QuietSteps DEF VoteStep
<1>6. ASSUME NEW n \in Server, NEW v \in Value,
             Propose(n, v)
      PROVE  VoteStep
  BY <1>6, QuietSteps DEF VoteStep
<1>7. ASSUME NEW n \in Server,
             \/ ApplyCommitted(n) \/ AwaitApplied(n) \/ AwaitMaybeCommitted(n)
      PROVE  VoteStep
  BY <1>7, QuietSteps, SMTT(60) DEF VoteStep
<1>8. ASSUME NEW n \in Server, NEW x \in xfers[n],
             \/ TransferHandOff(n, x) \/ TransferReturn(n, x)
             \/ TransferExpire(n, x) \/ TransferAbort(n, x)
      PROVE  VoteStep
  BY <1>8, QuietSteps DEF VoteStep
<1>9. ASSUME (\E m \in net : LoseMessage(m)) \/ UNCHANGED vars
      PROVE  VoteStep
  BY <1>9, QuietSteps DEF VoteStep
<1> QED
  BY <1>0, <1>1, <1>2, <1>3, <1>4, <1>5, <1>6, <1>7, <1>8, <1>9, ZenonT(60) DEF Next
-----------------------------------------------------------------------------
(* Each conjunct of ElectionInv is preserved by each kind of step.           *)

LEMMA BallotFields ==
    ASSUME TypeOK, NEW b \in ballots
    PROVE  b.voter \in Server /\ b.cand \in Server /\ b.term \in Nat
           /\ b = Ballot(b.voter, b.term, b.cand)
<1>1. b \in BallotType
  BY DEF TypeOK
<1> QED
  BY <1>1 DEF BallotType, Ballot

LEMMA HardFields ==
    ASSUME TypeOK, NEW n \in Server
    PROVE  hard[n].term \in Nat /\ hard[n].vote \in Server \cup {NoVote}
<1>1. hard[n] \in HardStateType
  BY DEF TypeOK
<1> QED
  BY <1>1 DEF HardStateType

LEMMA RequestFields ==
    ASSUME TypeOK, NEW m \in net, IsRequest(m)
    PROVE  m.from \in Server /\ m.to \in Server /\ m.term \in Nat
<1>1. m \in RequestVoteType
  BY MessageByType DEF IsRequest
<1> QED
  BY <1>1 DEF RequestVoteType

LEMMA GrantFields ==
    ASSUME TypeOK, NEW m \in net, IsGrant(m)
    PROVE  /\ m \in VoteResponseType
           /\ m.from \in Server /\ m.to \in Server /\ m.term \in Nat
<1>1. m \in VoteResponseType
  BY MessageByType DEF IsGrant
<1> QED
  BY <1>1 DEF VoteResponseType

\* No ballot of n is of a term beyond n's current term.
LEMMA BallotsArePast ==
    ASSUME TypeOK, BallotsBind, NEW b \in ballots
    PROVE  b.term <= currentTerm[b.voter]
<1>1. b.term \in Nat /\ currentTerm[b.voter] \in Nat
  BY BallotFields, Zenon DEF TypeOK
<1> QED
  BY <1>1, SMTT(60) DEF BallotsBind, Binds

\* What a vote of n for c in term t, no older than n's term, does to a ballot
\* of n that votedFor allows.
LEMMA NewVoteBinds ==
    ASSUME TypeOK, BallotsBind, NEW b \in ballots, NEW t \in Nat,
           NEW c \in Server,
           t >= currentTerm[b.voter],
           t = currentTerm[b.voter] => votedFor[b.voter] \in {NoVote, c}
    PROVE  Binds(t, c, b)
<1>1. /\ b.term \in Nat /\ currentTerm[b.voter] \in Nat /\ b.cand \in Server
      /\ NoVote \notin Server
  BY BallotFields, ServerAssumption, ZenonT(60) DEF TypeOK
<1> QED
  BY <1>1, SMTT(60) DEF BallotsBind, Binds

\* Stepping down for a term that is not older sets that term.
LEMMA StepDownTerm ==
    ASSUME TypeOK, NEW n \in Server, NEW t \in Nat, t >= currentTerm[n],
           StepDownIfNewer(n, t)
    PROVE  currentTerm' = [currentTerm EXCEPT ![n] = t]
<1>1. currentTerm \in [Server -> Nat]
  BY ZenonT(60) DEF TypeOK
<1>2. CASE t > currentTerm[n]
  BY <1>2, Zenon DEF StepDownIfNewer
<1>3. CASE ~ (t > currentTerm[n])
  <2>1. currentTerm' = currentTerm
    BY <1>3, Zenon DEF StepDownIfNewer
  <2>2. t = currentTerm[n]
    BY <1>1, <1>3, SMTT(60)
  <2> QED
    BY <1>1, <2>1, <2>2, SMTT(60)
<1> QED
  BY <1>2, <1>3, Zenon

LEMMA BallotsBindStep ==
    ASSUME TypeOK, BallotsBind, VoteStep
    PROVE  BallotsBind'
<1> SUFFICES ASSUME NEW b \in ballots'
             PROVE  /\ Binds(currentTerm'[b.voter], votedFor'[b.voter], b)
                    /\ Binds(hard'[b.voter].term, hard'[b.voter].vote, b)
  BY DEF BallotsBind, Binds
<1>0. /\ currentTerm \in [Server -> Nat]
      /\ votedFor \in [Server -> Server \cup {NoVote}]
      /\ hard \in [Server -> HardStateType]
  BY DEF TypeOK
<1>1. CASE Quiet
  BY <1>1, SMTT(60) DEF Quiet, BallotsBind
<1>2. ASSUME NEW n \in Server, NEW m \in net, Counted(n, m)
      PROVE  /\ Binds(currentTerm'[b.voter], votedFor'[b.voter], b)
             /\ Binds(hard'[b.voter].term, hard'[b.voter].vote, b)
  BY <1>2 DEF Counted, BallotsBind
<1>3. ASSUME NEW n \in Server, Demoted(n)
      PROVE  /\ Binds(currentTerm'[b.voter], votedFor'[b.voter], b)
             /\ Binds(hard'[b.voter].term, hard'[b.voter].vote, b)
  <2>1. b \in ballots /\ b.voter \in Server /\ b.term \in Nat
        /\ b.term <= currentTerm[b.voter]
    BY <1>3, BallotFields, BallotsArePast DEF Demoted
  <2>2. CASE UNCHANGED <<currentTerm, votedFor, hard>>
    BY <2>1, <2>2, SMTT(60) DEF BallotsBind
  <2>3. ASSUME NEW t \in Nat, t > currentTerm[n],
               currentTerm' = [currentTerm EXCEPT ![n] = t],
               votedFor' = [votedFor EXCEPT ![n] = NoVote],
               hard' = hard \/ hard' = [hard EXCEPT ![n] = HardState(t, NoVote)]
        PROVE  /\ Binds(currentTerm'[b.voter], votedFor'[b.voter], b)
               /\ Binds(hard'[b.voter].term, hard'[b.voter].vote, b)
    BY <1>0, <2>1, <2>3, SMTT(60) DEF BallotsBind, Binds, HardState
  <2> QED
    BY <1>3, <2>2, <2>3 DEF Demoted
<1>4. ASSUME NEW n \in Server, CampaignFailed(n)
      PROVE  /\ Binds(currentTerm'[b.voter], votedFor'[b.voter], b)
             /\ Binds(hard'[b.voter].term, hard'[b.voter].vote, b)
  <2>1. b \in ballots /\ b.voter \in Server /\ b.term \in Nat
        /\ b.term <= currentTerm[b.voter]
    BY <1>4, BallotFields, BallotsArePast, SMTT(60) DEF CampaignFailed
  <2> QED
    BY <1>0, <1>4, <2>1 DEF CampaignFailed, BallotsBind, Binds, HardState
<1>5. ASSUME NEW n \in Server, Campaigned(n)
      PROVE  /\ Binds(currentTerm'[b.voter], votedFor'[b.voter], b)
             /\ Binds(hard'[b.voter].term, hard'[b.voter].vote, b)
  <2>1. CASE b \in ballots
    <3>1. b.voter \in Server /\ b.term \in Nat
          /\ b.term <= currentTerm[b.voter]
      BY <2>1, BallotFields, BallotsArePast, SMTT(60)
    <3>2. /\ Binds(currentTerm[b.voter], votedFor[b.voter], b)
          /\ Binds(hard[b.voter].term, hard[b.voter].vote, b)
      BY <2>1, Zenon DEF BallotsBind
    <3>3. /\ currentTerm' = [currentTerm EXCEPT ![n] = currentTerm[n] + 1]
          /\ votedFor' = [votedFor EXCEPT ![n] = n]
          /\ hard' = [hard EXCEPT ![n] = HardState(currentTerm[n] + 1, n)]
      BY <1>5, Zenon DEF Campaigned
    <3>4. CASE b.voter # n
      BY <1>0, <3>1, <3>2, <3>3, <3>4, SMTT(60)
    <3>5. CASE b.voter = n
      BY <1>0, <3>1, <3>3, <3>5, SMTT(60) DEF Binds, HardState
    <3> QED
      BY <3>4, <3>5, Zenon
  <2>2. CASE b = Ballot(n, currentTerm[n] + 1, n)
    BY <1>0, <1>5, <2>2, SMTT(60) DEF Campaigned, Binds, HardState, Ballot
  <2> QED
    BY <1>5, <2>1, <2>2, Zenon DEF Campaigned
<1>6. ASSUME NEW n \in Server, Restarted(n)
      PROVE  /\ Binds(currentTerm'[b.voter], votedFor'[b.voter], b)
             /\ Binds(hard'[b.voter].term, hard'[b.voter].vote, b)
  <2>1. b \in ballots /\ b.voter \in Server /\ b.term \in Nat
    BY <1>6, BallotFields, SMTT(60) DEF Restarted
  <2>2. CASE b.voter # n
    BY <1>0, <1>6, <2>1, <2>2, Zenon DEF Restarted, BallotsBind
  <2>3. CASE b.voter = n
    <3>1. Binds(ResolvedHardState(n).term, ResolvedHardState(n).vote, b)
      <4>1. LastTerm(n) \in Nat /\ hard[n].term \in Nat
        BY LastTermType, HardFields, SMTT(60)
      <4> QED
        BY <2>1, <2>3, <4>1, SMTT(60)
        DEF ResolvedHardState, HardState, BallotsBind, Binds
    <3> QED
      BY <1>0, <1>6, <2>3, <3>1, SMTT(60) DEF Restarted
  <2> QED
    BY <2>2, <2>3, Zenon
<1>7. ASSUME NEW n \in Server, NEW m \in net, GrantVote(n, m)
      PROVE  /\ Binds(currentTerm'[b.voter], votedFor'[b.voter], b)
             /\ Binds(hard'[b.voter].term, hard'[b.voter].vote, b)
  <2>1. m.from \in Server /\ m.term \in Nat
    BY <1>7, RequestFields, SMTT(60) DEF GrantVote, IsRequest
  <2>2. /\ currentTerm' = [currentTerm EXCEPT ![n] = m.term]
        /\ votedFor' = [votedFor EXCEPT ![n] = m.from]
        /\ hard' = [hard EXCEPT ![n] = HardState(m.term, m.from)]
        /\ ballots' = ballots \cup {Ballot(n, m.term, m.from)}
        /\ m.term >= currentTerm[n]
        /\ m.term = currentTerm[n] => votedFor[n] \in {NoVote, m.from}
    <3>1. /\ MayGrant(n, m) /\ StepDownIfNewer(n, m.term)
          /\ votedFor' = [votedFor EXCEPT ![n] = m.from]
          /\ hard' = [hard EXCEPT ![n] = HardState(m.term, m.from)]
          /\ ballots' = ballots \cup {Ballot(n, m.term, m.from)}
      BY <1>7, ZenonT(60) DEF GrantVote, Save
    <3>2. m.term >= currentTerm[n] /\ VoteIn(n, m.term) \in {NoVote, m.from}
      BY <3>1, Zenon DEF MayGrant
    <3>3. m.term = currentTerm[n] => votedFor[n] \in {NoVote, m.from}
      BY <1>0, <2>1, <3>2, SMTT(60) DEF VoteIn
    <3>4. currentTerm' = [currentTerm EXCEPT ![n] = m.term]
      BY <2>1, <3>1, <3>2, StepDownTerm, Zenon
    <3> QED
      BY <3>1, <3>2, <3>3, <3>4, Zenon
  <2>3. CASE b = Ballot(n, m.term, m.from)
    BY <1>0, <2>1, <2>2, <2>3, SMTT(60) DEF Binds, HardState, Ballot
  <2>4. CASE b \in ballots /\ b.voter # n
    <3>1. b.voter \in Server
      BY <2>4, BallotFields, SMTT(60)
    <3> QED
      BY <1>0, <2>2, <2>4, <3>1 DEF BallotsBind
  <2>5. CASE b \in ballots /\ b.voter = n
    <3>1. Binds(m.term, m.from, b)
      BY <2>1, <2>2, <2>5, NewVoteBinds, SMTT(60)
    <3> QED
      BY <1>0, <2>2, <2>5, <3>1, SMTT(60) DEF HardState
  <2> QED
    BY <2>2, <2>3, <2>4, <2>5, Zenon
<1>8. ASSUME NEW n \in Server, NEW m \in net, DeclineUnsavedVote(n, m)
      PROVE  /\ Binds(currentTerm'[b.voter], votedFor'[b.voter], b)
             /\ Binds(hard'[b.voter].term, hard'[b.voter].vote, b)
  <2>1. m.from \in Server /\ m.term \in Nat
    BY <1>8, RequestFields, Zenon DEF DeclineUnsavedVote, IsRequest
  <2>2. b \in ballots /\ b.voter \in Server /\ b.term \in Nat
        /\ b.term <= currentTerm[b.voter]
    BY <1>8, BallotFields, BallotsArePast, Zenon
    DEF DeclineUnsavedVote, electionHistory
  <2>3. /\ currentTerm' = [currentTerm EXCEPT ![n] = m.term]
        /\ votedFor' = [votedFor EXCEPT ![n] = VoteIn(n, m.term)]
        /\ m.term >= currentTerm[n]
        /\ m.term = currentTerm[n] => votedFor[n] \in {NoVote, m.from}
    <3>1. MayGrant(n, m) /\ StepDownIfNewer(n, m.term)
          /\ votedFor' = [votedFor EXCEPT ![n] = VoteIn(n, m.term)]
      BY <1>8, Zenon DEF DeclineUnsavedVote
    <3>2. m.term >= currentTerm[n] /\ VoteIn(n, m.term) \in {NoVote, m.from}
      BY <3>1, Zenon DEF MayGrant
    <3>3. m.term = currentTerm[n] => votedFor[n] \in {NoVote, m.from}
      BY <1>0, <2>1, <3>2, SMTT(60) DEF VoteIn
    <3>4. currentTerm' = [currentTerm EXCEPT ![n] = m.term]
      BY <2>1, <3>1, <3>2, StepDownTerm, Zenon
    <3> QED
      BY <3>1, <3>2, <3>3, <3>4, Zenon
  <2>4. \/ hard' = hard
        \/ hard' = [hard EXCEPT ![n] = HardState(m.term, m.from)]
        \/ /\ m.term > currentTerm[n]
           /\ hard' = [hard EXCEPT ![n] = HardState(m.term, NoVote)]
    BY <1>8, ZenonT(60) DEF DeclineUnsavedVote
  <2>5. CASE b.voter # n
    BY <1>0, <2>2, <2>3, <2>4, <2>5, Zenon DEF BallotsBind
  <2>6. CASE b.voter = n
    <3>1. Binds(m.term, m.from, b)
      BY <2>1, <2>2, <2>3, <2>6, NewVoteBinds, SMTT(60)
    <3>2. Binds(m.term, VoteIn(n, m.term), b)
      BY <1>0, <2>1, <2>2, <2>3, <2>6, SMTT(60) DEF BallotsBind, Binds, VoteIn
    <3>3. m.term > currentTerm[n] => Binds(m.term, NoVote, b)
      BY <1>0, <2>1, <2>2, <2>6, SMTT(60) DEF Binds
    <3>4. Binds(currentTerm'[n], votedFor'[n], b)
      BY <1>0, <2>3, <3>2, SMTT(60)
    <3>5. Binds(hard'[n].term, hard'[n].vote, b)
      <4>1. CASE hard' = hard
        BY <2>2, <2>6, <4>1, Zenon DEF BallotsBind
      <4>2. ASSUME NEW v, Binds(m.term, v, b),
                   hard' = [hard EXCEPT ![n] = HardState(m.term, v)]
            PROVE  Binds(hard'[n].term, hard'[n].vote, b)
        <5>1. hard'[n].term = m.term /\ hard'[n].vote = v
          BY <1>0, <4>2, SMTT(60) DEF HardState
        <5> QED
          BY <4>2, <5>1, Zenon
      <4> QED
        BY <2>4, <3>1, <3>3, <4>1, <4>2, Zenon
    <3> QED
      BY <2>6, <3>4, <3>5, SMTT(60)
  <2> QED
    BY <2>5, <2>6, SMTT(60)
<1> QED
  BY <1>1, <1>2, <1>3, <1>4, <1>5, <1>6, <1>7, <1>8, Zenon DEF VoteStep
\* Ballots are only added, and a new one is its voter's current vote.
LEMMA BallotsGrow ==
    ASSUME TypeOK, VoteStep
    PROVE  /\ ballots \subseteq ballots'
           /\ \A b \in ballots' : b \notin ballots =>
                /\ b.voter \in Server
                /\ b.term = currentTerm'[b.voter]
                /\ b.cand = votedFor'[b.voter]
<1>0. /\ currentTerm \in [Server -> Nat]
      /\ votedFor \in [Server -> Server \cup {NoVote}]
  BY SMTT(60) DEF TypeOK
<1>1. CASE UNCHANGED ballots
  BY <1>1, Zenon
<1>2. ASSUME NEW n \in Server, Campaigned(n)
      PROVE  /\ ballots \subseteq ballots'
             /\ \A b \in ballots' : b \notin ballots =>
                  /\ b.voter \in Server
                  /\ b.term = currentTerm'[b.voter]
                  /\ b.cand = votedFor'[b.voter]
  BY <1>0, <1>2 DEF Campaigned, Ballot
<1>3. ASSUME NEW n \in Server, NEW m \in net, GrantVote(n, m)
      PROVE  /\ ballots \subseteq ballots'
             /\ \A b \in ballots' : b \notin ballots =>
                  /\ b.voter \in Server
                  /\ b.term = currentTerm'[b.voter]
                  /\ b.cand = votedFor'[b.voter]
  <2>1. m.from \in Server /\ m.term \in Nat
    BY <1>3, RequestFields, Zenon DEF GrantVote, IsRequest
  <2>2. /\ currentTerm' = [currentTerm EXCEPT ![n] = m.term]
        /\ votedFor' = [votedFor EXCEPT ![n] = m.from]
        /\ ballots' = ballots \cup {Ballot(n, m.term, m.from)}
    <3>1. /\ m.term >= currentTerm[n] /\ StepDownIfNewer(n, m.term)
          /\ votedFor' = [votedFor EXCEPT ![n] = m.from]
          /\ ballots' = ballots \cup {Ballot(n, m.term, m.from)}
      BY <1>3, ZenonT(60) DEF GrantVote, MayGrant
    <3>2. currentTerm' = [currentTerm EXCEPT ![n] = m.term]
      BY <2>1, <3>1, StepDownTerm, Zenon
    <3> QED
      BY <3>1, <3>2, Zenon
  <2> QED
    BY <1>0, <2>1, <2>2, SMTT(60) DEF Ballot
<1> QED
  BY <1>1, <1>2, <1>3, ZenonT(60) DEF VoteStep, Quiet, Demoted, CampaignFailed, Restarted,
                          DeclineUnsavedVote, Counted, electionHistory

LEMMA OneBallotStep ==
    ASSUME TypeOK, TypeOK', BallotsBind', OneBallotPerTerm, VoteStep
    PROVE  OneBallotPerTerm'
<1> SUFFICES ASSUME NEW b \in ballots', NEW c \in ballots',
                    b.voter = c.voter, b.term = c.term
             PROVE  b.cand = c.cand
  BY DEF OneBallotPerTerm
<1>1. CASE b \in ballots /\ c \in ballots
  BY <1>1, SMTT(60) DEF OneBallotPerTerm
<1>2. CASE b \notin ballots \/ c \notin ballots
  <2>1. b.term = currentTerm'[b.voter] /\ b.voter \in Server
    BY <1>2, BallotsGrow, SMTT(60)
  <2>2. currentTerm'[b.voter] \in Nat
    BY <2>1 DEF TypeOK
  <2>3. /\ Binds(currentTerm'[b.voter], votedFor'[b.voter], b)
        /\ Binds(currentTerm'[b.voter], votedFor'[b.voter], c)
    BY SMTT(60) DEF BallotsBind, Binds
  <2> QED
    BY <2>1, <2>2, <2>3 DEF Binds
<1> QED
  BY <1>1, <1>2

LEMMA TermsStartStep ==
    ASSUME TypeOK, BallotsBind, TermsStartAtBootstrap, RequestsAreBacked,
           VoteStep
    PROVE  TermsStartAtBootstrap'
<1>0. /\ currentTerm \in [Server -> Nat]
      /\ votedFor \in [Server -> Server \cup {NoVote}]
      /\ hard \in [Server -> HardStateType]
  BY DEF TypeOK
<1>1. CASE UNCHANGED <<currentTerm, hard, ballots>>
  BY <1>1 DEF TermsStartAtBootstrap
<1>2. ASSUME NEW n \in Server, Demoted(n) PROVE TermsStartAtBootstrap'
  <2>1. CASE UNCHANGED <<currentTerm, votedFor, hard>>
    BY <1>2, <2>1, SMTT(60) DEF Demoted, TermsStartAtBootstrap
  <2>2. ASSUME NEW t \in Nat, t > currentTerm[n],
               currentTerm' = [currentTerm EXCEPT ![n] = t],
               hard' = hard \/ hard' = [hard EXCEPT ![n] = HardState(t, NoVote)]
        PROVE  TermsStartAtBootstrap'
    BY <1>0, <1>2, <2>2, SMTT(60) DEF Demoted, TermsStartAtBootstrap, HardState
  <2> QED
    BY <1>2, <2>1, <2>2 DEF Demoted
<1>3. ASSUME NEW n \in Server, CampaignFailed(n) PROVE TermsStartAtBootstrap'
  BY <1>0, <1>3, SMTT(60) DEF CampaignFailed, TermsStartAtBootstrap, HardState
<1>4. ASSUME NEW n \in Server, Campaigned(n) PROVE TermsStartAtBootstrap'
  BY <1>0, <1>4, SMTT(60) DEF Campaigned, TermsStartAtBootstrap, HardState, Ballot
<1>5. ASSUME NEW n \in Server, Restarted(n) PROVE TermsStartAtBootstrap'
  <2>1. ResolvedHardState(n).term >= 1
    <3>1. LastTerm(n) \in Nat /\ hard[n].term \in Nat
      BY LastTermType, HardFields, SMTT(60)
    <3> QED
      BY <3>1, SMTT(60) DEF ResolvedHardState, HardState, TermsStartAtBootstrap
  <2> QED
    BY <1>0, <1>5, <2>1, SMTT(60) DEF Restarted, TermsStartAtBootstrap
<1>6. ASSUME NEW n \in Server, NEW m \in net,
             GrantVote(n, m) \/ DeclineUnsavedVote(n, m)
      PROVE  TermsStartAtBootstrap'
  <2>0. IsRequest(m)
    BY <1>6, ZenonT(60) DEF GrantVote, DeclineUnsavedVote, IsRequest
  <2>1. m.from \in Server /\ m.term \in Nat
    BY <2>0, RequestFields
  <2>2. Ballot(m.from, m.term, m.from) \in ballots
    BY <2>0, SMTT(60) DEF RequestsAreBacked
  <2>3. m.term >= 1 /\ (m.term = 1 => m.from = Bootstrap)
    BY <2>2 DEF TermsStartAtBootstrap, Ballot
  <2>4. /\ currentTerm' = [currentTerm EXCEPT ![n] = m.term]
        /\ \/ hard' = hard
           \/ \E v : hard' = [hard EXCEPT ![n] = HardState(m.term, v)]
        /\ ballots' \subseteq ballots \cup {Ballot(n, m.term, m.from)}
    <3>0. StepDownIfNewer(n, m.term) /\ m.term >= currentTerm[n]
      BY <1>6, Zenon DEF GrantVote, DeclineUnsavedVote, MayGrant
    <3>1. currentTerm' = [currentTerm EXCEPT ![n] = m.term]
      BY <2>1, <3>0, StepDownTerm, Zenon
    <3>2. \/ hard' = hard
          \/ hard' = [hard EXCEPT ![n] = HardState(m.term, m.from)]
          \/ hard' = [hard EXCEPT ![n] = HardState(m.term, NoVote)]
      BY <1>6, Zenon DEF GrantVote, DeclineUnsavedVote, Save
    <3>3. ballots' \subseteq ballots \cup {Ballot(n, m.term, m.from)}
      BY <1>6, ZenonT(60) DEF GrantVote, DeclineUnsavedVote, electionHistory
    <3> QED
      BY <3>1, <3>2, <3>3, ZenonT(60)
  <2> QED
    BY <1>0, <2>1, <2>3, <2>4, SMTT(60) DEF TermsStartAtBootstrap, HardState, Ballot
<1> QED
  BY <1>1, <1>2, <1>3, <1>4, <1>5, <1>6, Zenon DEF VoteStep, Quiet, Counted
\* A step other than a campaign sends no vote request, and one other than
\* GrantVote sends no grant.
LEMMA DeclineIsQuiet ==
    ASSUME NEW n, NEW m, DeclineUnsavedVote(n, m)
    PROVE  NoNewVotes
BY RefusalIsNoVote, Zenon DEF DeclineUnsavedVote, NoNewVotes

LEMMA CountedIsQuiet ==
    ASSUME NEW n, NEW m, Counted(n, m)
    PROVE  NoNewVotes
BY DEF Counted, NoNewVotes

LEMMA NewGrant ==
    ASSUME NEW n, NEW m, GrantVote(n, m)
    PROVE  LET g == VoteResponse(n, m.from, m.term, TRUE)
           IN  /\ net' = (net \ {m}) \cup {g}
               /\ ~ IsRequest(g)
               /\ g.from = n /\ g.to = m.from /\ g.term = m.term
BY DEF GrantVote, VoteResponse, IsRequest

\* A campaign sends vote requests for the new term, one to a peer.
LEMMA NewRequests ==
    ASSUME NEW n \in Server, Campaigned(n)
    PROVE  /\ \A m \in net' : m \notin net =>
                  /\ m.from = n /\ m.to # n /\ m.term = currentTerm[n] + 1
                  /\ ~ IsGrant(m)
           /\ \A m, k \in net' :
                  (m \notin net /\ k \notin net /\ m.to = k.to) => m = k
<1>1. PICK li, lt, x : \A m \in net' : m \notin net =>
          \E p \in Server \ {n} :
              m = RequestVote(n, p, currentTerm[n] + 1, li, lt, x)
  BY SMTT(60) DEF Campaigned
<1> DEFINE t == currentTerm[n] + 1
<1> HIDE DEF t
<1>2. ASSUME NEW m \in net', m \notin net
      PROVE  /\ m.from = n /\ m.to # n /\ m.term = t /\ ~ IsGrant(m)
             /\ m = RequestVote(n, m.to, t, li, lt, x)
  <2>1. PICK p \in Server \ {n} : m = RequestVote(n, p, t, li, lt, x)
    BY <1>1, <1>2, ZenonT(60) DEF t
  <2>2. m.from = n /\ m.to = p /\ m.term = t /\ ~ IsGrant(m)
    BY <2>1, Zenon DEF RequestVote, IsGrant
  <2> QED
    BY <2>1, <2>2, ZenonT(60)
<1>3. ASSUME NEW m \in net', NEW k \in net', m \notin net, k \notin net,
             m.to = k.to
      PROVE  m = k
  BY <1>2, <1>3, ZenonT(60)
<1> QED
  BY <1>2, <1>3, ZenonT(60) DEF t

LEMMA RequestsStep ==
    ASSUME TypeOK, BallotsBind, RequestsAreBacked, VoteStep
    PROVE  RequestsAreBacked'
<1>0. ballots \subseteq ballots'
  BY BallotsGrow, SMTT(60)
<1>1. CASE \A m \in net' : m \notin net => ~ IsRequest(m)
  <2> SUFFICES ASSUME NEW m \in net', IsRequest(m)
               PROVE  /\ m.from # m.to
                      /\ Ballot(m.from, m.term, m.from) \in ballots'
                      /\ \A k \in net' : (/\ IsRequest(k) /\ k.from = m.from
                                          /\ k.to = m.to /\ k.term = m.term)
                                           => k = m
    BY Zenon DEF RequestsAreBacked, IsRequest, Ballot
  <2> QED
    BY <1>0, <1>1, Zenon DEF RequestsAreBacked
<1>2. ASSUME NEW n \in Server, Campaigned(n) PROVE RequestsAreBacked'
  <2> DEFINE t == currentTerm[n] + 1
  <2>1. /\ \A m \in net' : m \notin net => m.from = n /\ m.to # n /\ m.term = t
        /\ \A m, k \in net' :
               (m \notin net /\ k \notin net /\ m.to = k.to) => m = k
    BY <1>2, NewRequests, ZenonT(60)
  <2>2. ASSUME NEW m \in net, IsRequest(m), m.from = n PROVE m.term # t
    <3>1. Ballot(n, m.term, n) \in ballots
      BY <2>2 DEF RequestsAreBacked
    <3>2. m.term <= currentTerm[n]
      BY <3>1, BallotsArePast, SMTT(60) DEF Ballot
    <3>3. m.term \in Nat /\ currentTerm[n] \in Nat
      BY <2>2, RequestFields, ZenonT(60) DEF TypeOK
    <3> QED
      BY <3>2, <3>3, SMTT(60)
  <2>3. Ballot(n, t, n) \in ballots'
    BY <1>2, SMTT(60) DEF Campaigned
  <2> HIDE DEF t
  <2> SUFFICES ASSUME NEW m \in net', IsRequest(m)
               PROVE  /\ m.from # m.to
                      /\ Ballot(m.from, m.term, m.from) \in ballots'
                      /\ \A k \in net' : (/\ IsRequest(k) /\ k.from = m.from
                                          /\ k.to = m.to /\ k.term = m.term)
                                           => k = m
    BY Zenon DEF RequestsAreBacked, IsRequest, Ballot
  <2>4. CASE m \in net
    <3>1. ASSUME NEW k \in net', k \notin net
          PROVE  ~ (k.from = m.from /\ k.term = m.term)
      BY <2>1, <2>2, <2>4, <3>1, ZenonT(60)
    <3> QED
      BY <1>0, <2>4, <3>1, Zenon DEF RequestsAreBacked
  <2>5. CASE m \notin net
    <3>1. m.from = n /\ m.to # n /\ m.term = t
      BY <2>1, <2>5, ZenonT(60)
    <3>2. ASSUME NEW k \in net', IsRequest(k), k.from = n, k.to = m.to,
                 k.term = t
          PROVE  k = m
      <4>1. k \notin net
        BY <2>2, <3>2, ZenonT(60)
      <4> QED
        BY <2>1, <2>5, <3>2, <4>1, ZenonT(60)
    <3> QED
      BY <2>3, <3>1, <3>2, ZenonT(60)
  <2> QED
    BY <2>4, <2>5
<1>3. ASSUME NEW n \in Server, NEW m \in net, GrantVote(n, m)
      PROVE  RequestsAreBacked'
  <2> DEFINE g == VoteResponse(n, m.from, m.term, TRUE)
  <2>1. net' = (net \ {m}) \cup {g} /\ ~ IsRequest(g)
    BY <1>3, NewGrant, ZenonT(60)
  <2> QED
    BY <1>1, <2>1, Zenon
<1> QED
  BY <1>1, <1>2, <1>3, DeclineIsQuiet, CountedIsQuiet, ZenonT(60)
  DEF VoteStep, Quiet, Demoted, CampaignFailed, Restarted, NoNewVotes

LEMMA GrantsStep ==
    ASSUME TypeOK, BallotsBind, RequestsAreBacked, GrantsAreBacked, VoteStep
    PROVE  GrantsAreBacked'
<1>0. ballots \subseteq ballots'
  BY BallotsGrow
<1> SUFFICES ASSUME NEW g \in net', IsGrant(g)
             PROVE  /\ Ballot(g.from, g.term, g.to) \in ballots'
                    /\ Ballot(g.to, g.term, g.to) \in ballots'
                    /\ \A k \in net' : IsRequest(k) =>
                          ~ (k.from = g.to /\ k.to = g.from /\ k.term = g.term)
  BY ZenonT(60) DEF GrantsAreBacked, IsRequest, IsGrant, Ballot
<1> DEFINE Goal == /\ Ballot(g.from, g.term, g.to) \in ballots'
                   /\ Ballot(g.to, g.term, g.to) \in ballots'
                   /\ \A k \in net' : IsRequest(k) =>
                         ~ (k.from = g.to /\ k.to = g.from /\ k.term = g.term)
<1>1. CASE NoNewVotes
  BY <1>0, <1>1, Zenon DEF NoNewVotes, GrantsAreBacked
<1>2. ASSUME NEW n \in Server, Campaigned(n) PROVE Goal
  <2> DEFINE t == currentTerm[n] + 1
  <2>1. \A m \in net' : m \notin net =>
            m.from = n /\ m.term = t /\ ~ IsGrant(m)
    BY <1>2, NewRequests, ZenonT(60)
  <2>2. g \in net
    BY <2>1, ZenonT(60)
  <2>3. g.to = n => g.term # t
    <3>1. Ballot(g.to, g.term, g.to) \in ballots
      BY <2>2 DEF GrantsAreBacked
    <3>2. g.term <= currentTerm[g.to]
      BY <3>1, BallotsArePast, SMTT(60) DEF Ballot
    <3>3. g.term \in Nat /\ currentTerm[n] \in Nat
      BY <2>2, GrantFields, ZenonT(60) DEF TypeOK
    <3> QED
      BY <3>2, <3>3, SMTT(60)
  <2> HIDE DEF t
  <2>4. ASSUME NEW k \in net', k \notin net
        PROVE  ~ (k.from = g.to /\ k.term = g.term)
    BY <2>1, <2>3, <2>4, ZenonT(60)
  <2> QED
    BY <1>0, <2>2, <2>4, Zenon DEF GrantsAreBacked
<1>3. ASSUME NEW n \in Server, NEW m \in net, GrantVote(n, m)
      PROVE  Goal
  <2>0. IsRequest(m) /\ m.to = n
    BY <1>3, SMTT(60) DEF GrantVote, IsRequest
  <2> DEFINE h == VoteResponse(n, m.from, m.term, TRUE)
  <2>1. /\ net' = (net \ {m}) \cup {h} /\ ~ IsRequest(h)
        /\ h.from = n /\ h.to = m.from /\ h.term = m.term
    BY <1>3, NewGrant, ZenonT(60)
  <2> HIDE DEF h
  <2>2. CASE g \in net
    BY <1>0, <2>1, <2>2, Zenon DEF GrantsAreBacked
  <2>3. CASE g = h
    <3>1. Ballot(n, m.term, m.from) \in ballots'
      BY <1>3, SMTT(60) DEF GrantVote
    <3>2. Ballot(m.from, m.term, m.from) \in ballots'
      BY <1>0, <2>0, Zenon DEF RequestsAreBacked
    <3>3. ASSUME NEW k \in net', IsRequest(k)
          PROVE  ~ (k.from = m.from /\ k.to = n /\ k.term = m.term)
      <4>1. k \in net /\ k # m
        BY <2>1, <3>3, Zenon
      <4> QED
        BY <2>0, <3>3, <4>1, Zenon DEF RequestsAreBacked
    <3> QED
      BY <2>1, <2>3, <3>1, <3>2, <3>3, Zenon
  <2> QED
    BY <2>1, <2>2, <2>3, Zenon
<1> QED
  BY <1>1, <1>2, <1>3, DeclineIsQuiet, CountedIsQuiet, Zenon
  DEF VoteStep, Quiet, Demoted, CampaignFailed, Restarted
\* A candidate that the step leaves alone still counts each vote once.
LEMMA CountFrame ==
    ASSUME NEW p \in Server, CountsOnce(p), ballots \subseteq ballots',
           currentTerm'[p] = currentTerm[p], tally'[p] = tally[p],
           votesReceived'[p] = votesReceived[p],
           \A m \in net' : m \notin net =>
              /\ IsRequest(m) /\ m.term = currentTerm[p]
                   => (m.from = p => m.to \notin tally[p])
              /\ IsGrant(m) /\ m.term = currentTerm[p]
                   => (m.to = p => m.from \notin tally[p])
    PROVE  CountsOnce(p)'
<1>1. /\ p \in tally'[p]
      /\ votesReceived'[p] = Cardinality(tally'[p])
      /\ \A v \in tally'[p] : Ballot(v, currentTerm'[p], p) \in ballots'
  BY ZenonT(60) DEF CountsOnce
<1>2. ASSUME NEW m \in net'
      PROVE  /\ (IsRequest(m) /\ m.from = p /\ m.term = currentTerm'[p])
                  => m.to \notin tally'[p]
             /\ (IsGrant(m) /\ m.to = p /\ m.term = currentTerm'[p])
                  => m.from \notin tally'[p]
  <2>1. CASE m \in net
    BY <2>1, ZenonT(60) DEF CountsOnce
  <2>2. CASE m \notin net
    BY <2>2, ZenonT(60)
  <2> QED
    BY <2>1, <2>2, Zenon
<1> QED
  BY <1>1, <1>2, ZenonT(60) DEF CountsOnce, IsRequest, IsGrant, Ballot

LEMMA CampaignedFrame ==
    ASSUME NEW p \in Server, HasCampaigned(p)',
           role'[p] = role[p], currentTerm'[p] = currentTerm[p]
    PROVE  HasCampaigned(p)
BY DEF HasCampaigned

\* A step-down leaves every other node's count alone.
LEMMA StepDownFrame ==
    ASSUME NEW p \in Server, NEW n \in Server, NEW t, TypeOK,
           HasCampaigned(p)', StepDownIfNewer(n, t)
    PROVE  HasCampaigned(p) /\ currentTerm'[p] = currentTerm[p]
<1>t. /\ role \in [Server -> {Follower, Candidate, Leader}]
      /\ currentTerm \in [Server -> Nat]
      /\ Follower # Candidate /\ Follower # Leader
  BY Zenon DEF TypeOK, Follower, Candidate, Leader
<1>1. CASE t > currentTerm[n]
  <2>1. /\ currentTerm' = [currentTerm EXCEPT ![n] = t]
        /\ role' = [role EXCEPT ![n] = Follower]
    BY <1>1 DEF StepDownIfNewer
  <2>2. p # n
    BY <1>t, <2>1 DEF HasCampaigned
  <2>3. role'[p] = role[p] /\ currentTerm'[p] = currentTerm[p]
    BY <1>t, <2>1, <2>2, SMTT(60)
  <2> QED
    BY <2>3, CampaignedFrame
<1>2. CASE ~ (t > currentTerm[n])
  <2>1. role' = role /\ currentTerm' = currentTerm
    BY <1>2 DEF StepDownIfNewer
  <2> QED
    BY <2>1, CampaignedFrame
<1> QED
  BY <1>1, <1>2, Zenon

LEMMA CountsStep ==
    ASSUME TypeOK, BallotsBind, RequestsAreBacked, GrantsAreBacked,
           NoVoteCountsTwice, VoteStep
    PROVE  NoVoteCountsTwice'
<1> SUFFICES ASSUME NEW p \in Server, HasCampaigned(p)'
             PROVE  CountsOnce(p)'
  BY DEF NoVoteCountsTwice
<1>0. ballots \subseteq ballots'
  BY BallotsGrow
<1>t. /\ role \in [Server -> {Follower, Candidate, Leader}]
      /\ currentTerm \in [Server -> Nat]
      /\ votesReceived \in [Server -> Nat]
      /\ tally \in [Server -> SUBSET Server]
      /\ Follower # Candidate /\ Follower # Leader
  BY Zenon DEF TypeOK, Follower, Candidate, Leader
<1>1. CASE /\ NoNewVotes
           /\ HasCampaigned(p) /\ currentTerm'[p] = currentTerm[p]
           /\ tally'[p] = tally[p] /\ votesReceived'[p] = votesReceived[p]
  BY <1>0, <1>1, CountFrame, ZenonT(60) DEF NoNewVotes, NoVoteCountsTwice
<1>2. CASE Quiet
  <2>1. /\ HasCampaigned(p) /\ currentTerm'[p] = currentTerm[p]
        /\ tally'[p] = tally[p] /\ votesReceived'[p] = votesReceived[p]
    BY <1>2, CampaignedFrame, Zenon DEF Quiet
  <2> QED
    BY <1>1, <1>2, <2>1, Zenon DEF Quiet
<1>3. ASSUME NEW n \in Server, Demoted(n) PROVE CountsOnce(p)'
  <2>1. p # n
    BY <1>t, <1>3 DEF Demoted, HasCampaigned
  <2>2. /\ role'[p] = role[p] /\ currentTerm'[p] = currentTerm[p]
        /\ tally'[p] = tally[p] /\ votesReceived'[p] = votesReceived[p]
    BY <1>t, <1>3, <2>1, SMTT(60) DEF Demoted
  <2>3. HasCampaigned(p)
    BY <2>2, CampaignedFrame, ZenonT(60)
  <2> QED
    BY <1>1, <1>3, <2>2, <2>3, Zenon DEF Demoted
<1>4. ASSUME NEW n \in Server, CampaignFailed(n) PROVE CountsOnce(p)'
  <2>1. /\ HasCampaigned(p) /\ currentTerm'[p] = currentTerm[p]
        /\ tally'[p] = tally[p] /\ votesReceived'[p] = votesReceived[p]
    BY <1>4, CampaignedFrame, Zenon DEF CampaignFailed
  <2> QED
    BY <1>1, <1>4, <2>1, Zenon DEF CampaignFailed
<1>5. ASSUME NEW n \in Server, Restarted(n) PROVE CountsOnce(p)'
  <2>1. p # n
    BY <1>t, <1>5, SMTT(60) DEF Restarted, HasCampaigned
  <2>2. /\ role'[p] = role[p] /\ currentTerm'[p] = currentTerm[p]
        /\ tally'[p] = tally[p] /\ votesReceived'[p] = votesReceived[p]
    BY <1>t, <1>5, <2>1, SMTT(60) DEF Restarted
  <2>3. HasCampaigned(p)
    BY <2>2, CampaignedFrame, Zenon
  <2> QED
    BY <1>1, <1>5, <2>2, <2>3, SMTT(60) DEF Restarted
<1>6. ASSUME NEW n \in Server, NEW m \in net, DeclineUnsavedVote(n, m)
      PROVE  CountsOnce(p)'
  <2>1. HasCampaigned(p) /\ currentTerm'[p] = currentTerm[p]
    <3>1. StepDownIfNewer(n, m.term)
      BY <1>6, Zenon DEF DeclineUnsavedVote
    <3> QED
      BY <3>1, StepDownFrame, ZenonT(60)
  <2>2. tally'[p] = tally[p] /\ votesReceived'[p] = votesReceived[p]
    BY <1>6, Zenon DEF DeclineUnsavedVote, electionHistory
  <2> QED
    BY <1>1, <1>6, <2>1, <2>2, DeclineIsQuiet, ZenonT(60)
<1>7. ASSUME NEW n \in Server, NEW m \in net, GrantVote(n, m)
      PROVE  CountsOnce(p)'
  <2> DEFINE g == VoteResponse(n, m.from, m.term, TRUE)
  <2>1. /\ net' = (net \ {m}) \cup {g} /\ ~ IsRequest(g)
        /\ g.from = n /\ g.to = m.from /\ g.term = m.term
    BY <1>7, NewGrant, ZenonT(60)
  <2>2. IsRequest(m) /\ m.to = n
    BY <1>7, SMTT(60) DEF GrantVote, IsRequest
  <2>3. HasCampaigned(p) /\ currentTerm'[p] = currentTerm[p]
    <3>1. StepDownIfNewer(n, m.term)
      BY <1>7 DEF GrantVote
    <3> QED
      BY <3>1, StepDownFrame, Zenon
  <2>4. tally'[p] = tally[p] /\ votesReceived'[p] = votesReceived[p]
    BY <1>7, ZenonT(60) DEF GrantVote
  <2>5. CountsOnce(p)
    BY <2>3, SMTT(60) DEF NoVoteCountsTwice
  <2> HIDE DEF g
  <2>6. g.to = p /\ g.term = currentTerm[p] => g.from \notin tally[p]
    BY <2>1, <2>2, <2>5, ZenonT(60) DEF CountsOnce
  <2>7. ASSUME NEW k \in net', k \notin net
        PROVE  /\ IsRequest(k) /\ k.term = currentTerm[p]
                    => (k.from = p => k.to \notin tally[p])
               /\ IsGrant(k) /\ k.term = currentTerm[p]
                    => (k.to = p => k.from \notin tally[p])
    <3>1. k = g
      BY <2>1, <2>7
    <3> QED
      BY <2>1, <2>6, <3>1, ZenonT(60)
  <2> QED
    BY <1>0, <2>3, <2>4, <2>5, <2>7, CountFrame, ZenonT(60)
<1>8. ASSUME NEW n \in Server, Campaigned(n) PROVE CountsOnce(p)'
  <2> DEFINE t == currentTerm[n] + 1
  <2>2. \A m \in net' : m \notin net => m.from = n /\ m.to # n /\ ~ IsGrant(m)
    BY <1>8, NewRequests, ZenonT(60)
  <2>3. CASE p # n
    <3>1. /\ role'[p] = role[p] /\ currentTerm'[p] = currentTerm[p]
          /\ tally'[p] = tally[p] /\ votesReceived'[p] = votesReceived[p]
      BY <1>t, <1>8, <2>3, SMTT(60) DEF Campaigned
    <3>2. HasCampaigned(p)
      BY <3>1, CampaignedFrame, Zenon
    <3>3. CountsOnce(p)
      BY <3>2 DEF NoVoteCountsTwice
    <3>4. ASSUME NEW k \in net', k \notin net
          PROVE  ~ IsGrant(k) /\ k.from # p
      BY <2>2, <2>3, <3>4
    <3> QED
      BY <1>0, <3>1, <3>3, <3>4, CountFrame, ZenonT(60)
  <2>4. CASE p = n
    <3>1. /\ tally'[n] = {n} /\ currentTerm'[n] = t /\ votesReceived'[n] = 1
          /\ Ballot(n, t, n) \in ballots'
      BY <1>t, <1>8, Zenon DEF Campaigned
    <3>2. Cardinality({n}) = 1
      BY FS_Singleton, ZenonT(60)
    <3>3. ASSUME NEW m \in net'
          PROVE  /\ (IsRequest(m) /\ m.from = n /\ m.term = t) => m.to # n
                 /\ (IsGrant(m) /\ m.to = n /\ m.term = t) => m.from # n
      <4>1. CASE m \notin net
        BY <2>2, <4>1, ZenonT(60)
      <4>2. CASE m \in net /\ IsRequest(m)
        BY <4>2, Zenon DEF RequestsAreBacked, IsRequest, IsGrant
      <4>3. CASE m \in net /\ IsGrant(m) /\ m.to = n
        <5>1. Ballot(n, m.term, n) \in ballots
          BY <4>3, Zenon DEF GrantsAreBacked
        <5>2. m.term <= currentTerm[n]
          BY <5>1, BallotsArePast, SMTT(60) DEF Ballot
        <5>3. m.term # t /\ ~ IsRequest(m)
          <6>1. m.term \in Nat /\ currentTerm[n] \in Nat
            BY <1>t, <4>3, GrantFields, ZenonT(60)
          <6>2. m.term # currentTerm[n] + 1
            BY <5>2, <6>1, SMTT(60)
          <6>3. ~ IsRequest(m)
            BY <4>3, SMTT(60) DEF IsRequest, IsGrant
          <6> QED
            BY <6>2, <6>3, Zenon
        <5> QED
          BY <5>3, Zenon
      <4> QED
        BY <4>1, <4>2, <4>3, Zenon
    <3> HIDE DEF t
    <3> QED
      BY <2>4, <3>1, <3>2, <3>3, ZenonT(60) DEF CountsOnce, IsRequest, IsGrant, Ballot
  <2> QED
    BY <2>3, <2>4, SMTT(60)
<1>9. ASSUME NEW n \in Server, NEW m \in net, Counted(n, m)
      PROVE  CountsOnce(p)'
  <2>1. CASE p # n
    <3>1. /\ role'[p] = role[p] /\ currentTerm'[p] = currentTerm[p]
          /\ tally'[p] = tally[p] /\ votesReceived'[p] = votesReceived[p]
      BY <1>t, <1>9, <2>1, Zenon DEF Counted
    <3>2. HasCampaigned(p)
      BY <3>1, CampaignedFrame, Zenon
    <3> QED
      BY <1>1, <1>9, <3>1, <3>2, CountedIsQuiet, ZenonT(60) DEF Counted
  <2>2. CASE p = n
    <3>1. /\ IsGrant(m) /\ m.to = n /\ m.term = currentTerm[n]
          /\ role[n] = Candidate
      BY <1>9, Zenon DEF Counted, CountsVote, IsGrant
    <3>2. m \in VoteResponseType /\ m.from \in Server
      BY <3>1, GrantFields, SMTT(60)
    <3>3. CountsOnce(n) /\ m.from \notin tally[n]
      BY <3>1, ZenonT(60) DEF NoVoteCountsTwice, CountsOnce, HasCampaigned
    <3>4. /\ tally'[n] = tally[n] \cup {m.from}
          /\ votesReceived'[n] = votesReceived[n] + 1
          /\ currentTerm'[n] = currentTerm[n] /\ net' = net \ {m}
      BY <1>t, <1>9, Zenon DEF Counted
    <3>5. Cardinality(tally'[n]) = Cardinality(tally[n]) + 1
      <4>1. IsFiniteSet(tally[n])
        BY <1>t, ServerAssumption, FS_Subset
      <4> QED
        BY <3>3, <3>4, <4>1, FS_AddElement, ZenonT(60)
    <3>6. Ballot(m.from, currentTerm[n], n) \in ballots
      BY <3>1, Zenon DEF GrantsAreBacked
    <3>7. ASSUME NEW k \in net'
          PROVE  /\ (IsRequest(k) /\ k.from = n /\ k.term = currentTerm[n])
                      => k.to \notin tally'[n]
                 /\ (IsGrant(k) /\ k.to = n /\ k.term = currentTerm[n])
                      => k.from \notin tally'[n]
      <4>0. k \in net /\ k # m
        BY <3>4, SMTT(60)
      <4>1. (IsRequest(k) /\ k.from = n /\ k.term = currentTerm[n])
               => k.to # m.from
        BY <3>1, <4>0, ZenonT(60) DEF GrantsAreBacked
      <4>2. (IsGrant(k) /\ k.to = n /\ k.term = currentTerm[n])
               => k.from # m.from
        <5> SUFFICES ASSUME IsGrant(k), k.to = n, k.term = currentTerm[n],
                            k.from = m.from
                     PROVE  k = m
          BY <4>0, SMTT(60)
        <5>1. k \in VoteResponseType
          BY <4>0, GrantFields, SMTT(60)
        <5> QED
          BY <3>1, <3>2, <5>1, SMTT(60) DEF VoteResponseType, IsGrant
      <4> QED
        BY <3>3, <3>4, <4>0, <4>1, <4>2, Zenon DEF CountsOnce
    <3> QED
      BY <1>0, <2>2, <3>3, <3>4, <3>5, <3>6, <3>7, ZenonT(60)
      DEF CountsOnce, IsRequest, IsGrant, Ballot
  <2> QED
    BY <2>1, <2>2, SMTT(60)
<1> QED
  BY <1>2, <1>3, <1>4, <1>5, <1>6, <1>7, <1>8, <1>9, SMTT(60) DEF VoteStep

LEMMA MajorityStep ==
    ASSUME TypeOK, GrantsAreBacked, NoVoteCountsTwice, ElectedByMajority,
           VoteStep
    PROVE  ElectedByMajority'
<1>0. ballots \subseteq ballots'
  BY BallotsGrow
<1>1. ASSUME NEW e, HasMajority(e) PROVE HasMajority(e)'
  BY <1>0, <1>1 DEF HasMajority, Ballot
<1>2. CASE UNCHANGED elected
  BY <1>1, <1>2 DEF ElectedByMajority
<1>3. ASSUME NEW n \in Server, NEW m \in net, Counted(n, m),
             votesReceived[n] + 1 >= Majority,
             elected' = elected \cup {[term |-> currentTerm[n], node |-> n]}
      PROVE  ElectedByMajority'
  <2> DEFINE Q == tally[n] \cup {m.from}
             e == [term |-> currentTerm[n], node |-> n]
  <2>1. /\ IsGrant(m) /\ m.to = n /\ m.term = currentTerm[n]
        /\ role[n] = Candidate
    BY <1>3, Zenon DEF Counted, CountsVote, IsGrant
  <2>2. m.from \in Server /\ tally[n] \subseteq Server
    BY <2>1, GrantFields, ZenonT(60) DEF TypeOK
  <2>3. CountsOnce(n) /\ m.from \notin tally[n]
    BY <2>1, Zenon DEF NoVoteCountsTwice, CountsOnce, HasCampaigned
  <2>4. Cardinality(Q) >= Majority
    <3>1. IsFiniteSet(tally[n])
      BY <2>2, ServerAssumption, FS_Subset
    <3>2. Cardinality(Q) = Cardinality(tally[n]) + 1
      BY <2>3, <3>1, FS_AddElement, ZenonT(60)
    <3> QED
      BY <1>3, <2>3, <3>2, ZenonT(60) DEF CountsOnce
  <2>5. \A v \in Q : Ballot(v, currentTerm[n], n) \in ballots
    BY <2>1, <2>3, ZenonT(60) DEF CountsOnce, GrantsAreBacked
  <2>6. HasMajority(e)
    <3>1. Q \in SUBSET Server
      BY <2>2
    <3> HIDE DEF Q
    <3> QED
      BY <2>4, <2>5, <3>1, SMTT(60) DEF HasMajority
  <2> QED
    BY <1>1, <1>3, <2>6, Zenon DEF ElectedByMajority
<1> QED
  BY <1>2, <1>3, ZenonT(60) DEF VoteStep, Quiet, Demoted, CampaignFailed, Campaigned,
                    Restarted, GrantVote, DeclineUnsavedVote, Counted,
                    electionHistory

LEMMA ElectionInvInit == Init => ElectionInv
<1> SUFFICES ASSUME Init PROVE ElectionInv
  OBVIOUS
<1>0. Bootstrap \in Server
  BY ServerAssumption, SMTT(60)
<1>b. /\ currentTerm = [n \in Server |-> 1]
      /\ votedFor = [n \in Server |-> IF n = Bootstrap THEN n ELSE NoVote]
      /\ hard = [n \in Server |-> HardState(1, votedFor[n])]
      /\ ballots = {Ballot(Bootstrap, 1, Bootstrap)}
  BY ZenonT(60) DEF Init
<1>1. BallotsBind /\ OneBallotPerTerm
  <2>1. ballots = {Ballot(Bootstrap, 1, Bootstrap)}
    BY <1>b
  <2>2. BallotsBind
    BY <1>0, <1>b, <2>1, SMTT(60) DEF BallotsBind, Binds, Ballot, HardState
  <2>3. OneBallotPerTerm
    BY <2>1, ZenonT(60) DEF OneBallotPerTerm
  <2> QED
    BY <2>2, <2>3, Zenon
<1>2. TermsStartAtBootstrap
  BY <1>0, <1>b, SMTT(60) DEF TermsStartAtBootstrap, Ballot, HardState
<1>3. RequestsAreBacked /\ GrantsAreBacked
  BY ZenonT(60) DEF Init, RequestsAreBacked, GrantsAreBacked
<1>4. NoVoteCountsTwice
  <2>1. \A n \in Server : role[n] # Candidate /\ currentTerm[n] = 1
    BY Zenon DEF Init, Follower, Candidate, Leader
  <2> QED
    BY <2>1, SMTT(60) DEF NoVoteCountsTwice, HasCampaigned
<1>5. ElectedByMajority
  BY DEF Init, ElectedByMajority
<1> QED
  BY <1>1, <1>2, <1>3, <1>4, <1>5, SMTT(60) DEF ElectionInv

LEMMA ElectionInvNext ==
    TypeOK /\ TypeOK' /\ ElectionInv /\ [Next]_vars => ElectionInv'
<1> SUFFICES ASSUME TypeOK, TypeOK', ElectionInv, [Next]_vars
             PROVE  ElectionInv'
  OBVIOUS
<1>1. VoteStep
  BY VoteSteps
<1>2. BallotsBind'
  BY <1>1, BallotsBindStep DEF ElectionInv
<1>3. OneBallotPerTerm'
  BY <1>1, <1>2, OneBallotStep DEF ElectionInv
<1>4. TermsStartAtBootstrap'
  BY <1>1, TermsStartStep DEF ElectionInv
<1>5. RequestsAreBacked'
  BY <1>1, RequestsStep DEF ElectionInv
<1>6. GrantsAreBacked'
  BY <1>1, GrantsStep DEF ElectionInv
<1>7. NoVoteCountsTwice'
  BY <1>1, CountsStep DEF ElectionInv
<1>8. ElectedByMajority'
  BY <1>1, MajorityStep, SMTT(60) DEF ElectionInv
<1> QED
  BY <1>2, <1>3, <1>4, <1>5, <1>6, <1>7, <1>8, SMTT(60) DEF ElectionInv

-----------------------------------------------------------------------------
(* The safety properties that follow.                                        *)

\* Two majorities share a voter.
LEMMA MajoritiesMeet ==
    ASSUME NEW Q \in SUBSET Server, NEW R \in SUBSET Server,
           Cardinality(Q) >= Majority, Cardinality(R) >= Majority
    PROVE  Q \cap R # {}
<1>1. IsFiniteSet(Server) /\ Cardinality(Server) \in Nat
  BY ServerAssumption, FS_CardinalityType, SMTT(60)
<1>2. /\ IsFiniteSet(Q) /\ Cardinality(Q) \in Nat
      /\ IsFiniteSet(R) /\ Cardinality(R) \in Nat
  BY <1>1, FS_Subset, FS_CardinalityType, SMTT(60)
<1>3. Cardinality(Q) + Cardinality(R) > Cardinality(Server)
  BY <1>1, <1>2, SMTT(60) DEF Majority
<1> QED
  BY <1>1, <1>3, FS_MajoritiesIntersect, SMTT(60)

LEMMA ElectionInvSafe ==
    ASSUME TypeOK, ElectionInv
    PROVE  ElectionSafety
<1> SUFFICES ASSUME NEW d \in elected, NEW e \in elected, d.term = e.term
             PROVE  d.node = e.node
  BY SMTT(60) DEF ElectionSafety
<1> DEFINE first == [term |-> 1, node |-> Bootstrap]
<1>1. ASSUME NEW c \in elected, HasMajority(c), c.term = 1
      PROVE  c.node = Bootstrap
  <2>1. PICK Q \in SUBSET Server :
           /\ Cardinality(Q) >= Majority
           /\ \A v \in Q : Ballot(v, c.term, c.node) \in ballots
    BY <1>1 DEF HasMajority
  <2>2. PICK v \in Q : TRUE
    BY <2>1, MajoritiesMeet, SMTT(60)
  <2>3. Ballot(v, 1, c.node) \in ballots
    BY <1>1, <2>1, <2>2, SMTT(60)
  <2> QED
    BY <2>3, Zenon DEF ElectionInv, TermsStartAtBootstrap, Ballot
<1>2. CASE HasMajority(d) /\ HasMajority(e)
  <2>1. PICK Q \in SUBSET Server :
           /\ Cardinality(Q) >= Majority
           /\ \A v \in Q : Ballot(v, d.term, d.node) \in ballots
    BY <1>2, SMTT(60) DEF HasMajority
  <2>2. PICK R \in SUBSET Server :
           /\ Cardinality(R) >= Majority
           /\ \A v \in R : Ballot(v, e.term, e.node) \in ballots
    BY <1>2, SMTT(60) DEF HasMajority
  <2>3. PICK v \in Q \cap R : TRUE
    BY <2>1, <2>2, MajoritiesMeet, SMTT(60)
  <2>4. /\ Ballot(v, d.term, d.node) \in ballots
        /\ Ballot(v, e.term, e.node) \in ballots
    BY <2>1, <2>2, <2>3, SMTT(60)
  <2> QED
    BY <2>4, Zenon DEF ElectionInv, OneBallotPerTerm, Ballot
<1>3. CASE d = first \/ e = first
  <2>1. d.term = 1 /\ e.term = 1
    BY <1>3, SMTT(60)
  <2>2. /\ d = first \/ HasMajority(d)
        /\ e = first \/ HasMajority(e)
    BY SMTT(60) DEF ElectionInv, ElectedByMajority
  <2> QED
    BY <1>1, <2>1, <2>2, SMTT(60)
<1> QED
  BY <1>2, <1>3 DEF ElectionInv, ElectedByMajority

LEMMA BallotsSurvive ==
    ASSUME TypeOK, ElectionInv
    PROVE  VotesSurviveRestart
<1> SUFFICES ASSUME NEW b \in ballots
             PROVE  Binds(ResolvedHardState(b.voter).term,
                          ResolvedHardState(b.voter).vote, b)
  BY DEF VotesSurviveRestart, Binds
<1>1. b.voter \in Server /\ b.term \in Nat
  BY BallotFields, SMTT(60)
<1>2. LastTerm(b.voter) \in Nat /\ hard[b.voter].term \in Nat
  BY <1>1, LastTermType, HardFields, SMTT(60)
<1>3. Binds(hard[b.voter].term, hard[b.voter].vote, b)
  BY DEF ElectionInv, BallotsBind
<1>4. CASE LastTerm(b.voter) > hard[b.voter].term
  <2>1. ResolvedHardState(b.voter).term = LastTerm(b.voter)
    BY <1>4, SMTT(60) DEF ResolvedHardState, HardState
  <2>2. hard[b.voter].term >= b.term
    BY <1>1, <1>2, <1>3, SMTT(60) DEF Binds
  <2>3. LastTerm(b.voter) > b.term
    BY <1>1, <1>2, <1>4, <2>2, SMTT(60)
  <2> QED
    BY <2>1, <2>3, Zenon DEF Binds
<1>5. CASE ~ (LastTerm(b.voter) > hard[b.voter].term)
  BY <1>3, <1>5, Zenon DEF ResolvedHardState
<1> QED
  BY <1>4, <1>5, Zenon
=============================================================================
