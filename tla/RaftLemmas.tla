----------------------------- MODULE RaftLemmas -----------------------------
(***************************************************************************)
(* Facts about the operators Raft is built from: terms of log positions,   *)
(* what the append loop leaves in a log, commit indexes, message types and *)
(* writes of raft/state.                                                   *)
(***************************************************************************)
EXTENDS Raft, TLAPS

\* The successor of a number.
LEMMA Successor ==
    ASSUME NEW k \in Nat
    PROVE  k + 1 \in Nat /\ k + 1 \in Nat \ {0}
OBVIOUS

\* A log with one more entry.
LEMMA AppendType ==
    ASSUME NEW lg \in Seq(Entry), NEW e \in Entry
    PROVE  Append(lg, e) \in Seq(Entry)
OBVIOUS

\* A length of a log is a number, and what does not exceed it a position.
LEMMA PositionType ==
    ASSUME NEW lg \in Seq(Entry), NEW k \in Nat, k <= Len(lg)
    PROVE  k \in 0..Len(lg)
OBVIOUS

\* The term of a log position is a number.
LEMMA LogTermType ==
    ASSUME NEW lg \in Seq(Entry), NEW i \in 0..Len(lg)
    PROVE  LogTerm(lg, i) \in Nat
<1>1. i # 0 => lg[i] \in Entry
  OBVIOUS
<1> QED
  BY <1>1 DEF LogTerm, Entry

LEMMA LastTermType ==
    ASSUME TypeOK, NEW n \in Server
    PROVE  LastTerm(n) \in Nat /\ LastIndex(n) \in Nat
<1>1. log[n] \in Seq(Entry) /\ Len(log[n]) \in Nat
  BY DEF TypeOK
<1> QED
  BY <1>1, LogTermType DEF LastTerm, LastIndex

\* What the append loop leaves behind is a log.
LEMMA AppendedType ==
    ASSUME NEW lg \in Seq(Entry), NEW es \in Seq(Entry),
           NEW prev \in 0..Len(lg), NEW k \in 0..Len(es)
    PROVE  AppendedUpTo(lg, prev, es, k) \in Seq(Entry)
<1> DEFINE Same(j) == \A i \in 1..k : prev + i <= j => ~ IsNew(lg, prev, es, i)
           Written == [j \in 1..(prev + k) |-> IF Same(j) THEN lg[j]
                                                          ELSE es[j - prev]]
<1>1. ASSUME NEW j \in 1..(prev + k)
      PROVE  (IF Same(j) THEN lg[j] ELSE es[j - prev]) \in Entry
  <2>1. CASE j <= prev
    <3>1. Same(j)
      BY <2>1
    <3>2. lg[j] \in Entry
      BY <2>1
    <3> QED
      BY <3>1, <3>2
  <2>2. CASE j > prev
    <3>1. j - prev \in 1..k /\ prev + (j - prev) = j
      BY <2>2
    <3>2. es[j - prev] \in Entry
      BY <3>1
    <3>3. Same(j) => lg[j] \in Entry
      <4>1. Same(j) => ~ IsNew(lg, prev, es, j - prev)
        BY <3>1
      <4>2. Same(j) => j <= Len(lg)
        BY <3>1, <4>1 DEF IsNew
      <4> HIDE DEF Same
      <4> QED
        BY <4>2
    <3> QED
      BY <3>2, <3>3
  <2> QED
    BY <2>1, <2>2
<1>2. Written \in Seq(Entry)
  <2>1. prev + k \in Nat
    OBVIOUS
  <2>2. Written \in [1..(prev + k) -> Entry]
    BY <1>1
  <2> HIDE DEF Written
  <2> QED
    BY <2>1, <2>2
<1> QED
  BY <1>2 DEF AppendedUpTo

LEMMA SubSeqType ==
    ASSUME NEW s \in Seq(Entry), NEW a \in Nat \ {0}, NEW b \in 0..Len(s)
    PROVE  SubSeq(s, a, b) \in Seq(Entry)
OBVIOUS

LEMMA FailedAppendsType ==
    ASSUME NEW lg \in Seq(Entry), NEW es \in Seq(Entry),
           NEW prev \in 0..Len(lg), NEW res \in FailedAppends(lg, prev, es)
    PROVE  res \in Seq(Entry)
<1>1. PICK k \in 0..(Len(es) - 1) :
         res \in {AppendedUpTo(lg, prev, es, k),
                  SubSeq(AppendedUpTo(lg, prev, es, k), 1, prev + k)}
  BY DEF FailedAppends
<1>2. AppendedUpTo(lg, prev, es, k) \in Seq(Entry)
  BY AppendedType
<1>3. Len(AppendedUpTo(lg, prev, es, k)) >= prev + k
  <2>1. CASE \A i \in 1..k : ~ IsNew(lg, prev, es, i)
    <3>1. prev + k <= Len(lg)
      <4>1. CASE k = 0
        BY <4>1
      <4>2. CASE k # 0
        <5>1. ~ IsNew(lg, prev, es, k)
          BY <2>1, <4>2
        <5> QED
          BY <5>1 DEF IsNew
      <4> QED
        BY <4>1, <4>2
    <3> QED
      BY <2>1, <3>1 DEF AppendedUpTo
  <2>2. CASE \E i \in 1..k : IsNew(lg, prev, es, i)
    BY <2>2 DEF AppendedUpTo
  <2> QED
    BY <2>1, <2>2
<1>4. SubSeq(AppendedUpTo(lg, prev, es, k), 1, prev + k) \in Seq(Entry)
  BY <1>2, <1>3, SubSeqType
<1> QED
  BY <1>1, <1>2, <1>4, Zenon

LEMMA AdvancedCommitType ==
    ASSUME TypeOK, NEW n \in Server, NEW lg \in Seq(Entry), NEW match
    PROVE  AdvancedCommit(n, lg, match) \in Nat
<1> DEFINE I == (commitIndex[n] + 1)..Len(lg)
<1>1. commitIndex[n] \in Nat /\ Len(lg) \in Nat
  BY DEF TypeOK
<1>2. CASE \E i \in I : MayCommit(n, lg, match, i)
  <2>1. (CHOOSE i \in I : MayCommit(n, lg, match, i)) \in I
    BY <1>2
  <2> QED
    BY <1>1, <1>2, <2>1 DEF AdvancedCommit
<1>3. CASE ~ \E i \in I : MayCommit(n, lg, match, i)
  BY <1>1, <1>3 DEF AdvancedCommit
<1> QED
  BY <1>2, <1>3

LEMMA FollowedCommitType ==
    ASSUME TypeOK, NEW n \in Server, NEW lg \in Seq(Entry), NEW c \in Nat
    PROVE  FollowedCommit(n, lg, c) \in Nat
BY DEF FollowedCommit, TypeOK

\* A message is of the type its type field says.
LEMMA MessageByType ==
    ASSUME TypeOK, NEW m \in net
    PROVE  /\ m.type = "RequestVote" => m \in RequestVoteType
           /\ m.type = "VoteResponse" => m \in VoteResponseType
           /\ m.type = "AppendEntries" => m \in AppendEntriesType
           /\ m.type = "AppendResponse" => m \in AppendResponseType
           /\ m.type = "TimeoutNow" => m \in TimeoutNowType
BY SMTT(60) DEF TypeOK, MessageType, RequestVoteType, VoteResponseType,
       AppendEntriesType, AppendResponseType, TimeoutNowType

LEMMA SpendType ==
    ASSUME used \in [EventKind -> Nat], NEW k \in EventKind, Spend(k)
    PROVE  used' \in [EventKind -> Nat]
BY DEF Spend

\* Writing raft/state keeps its type, and so does failing to.
LEMMA HardUpdateType ==
    ASSUME TypeOK, NEW n \in Server, NEW t \in Nat,
           NEW v \in Server \cup {NoVote}
    PROVE  [hard EXCEPT ![n] = HardState(t, v)] \in [Server -> HardStateType]
<1>1. HardState(t, v) \in HardStateType
  BY DEF HardState, HardStateType
<1> QED
  BY <1>1 DEF TypeOK

LEMMA SaveType ==
    ASSUME TypeOK, NEW n \in Server, NEW t \in Nat,
           NEW v \in Server \cup {NoVote},
           Save(n, t, v) \/ SaveFails(n, t, v)
    PROVE  hard' \in [Server -> HardStateType] /\ used' \in [EventKind -> Nat]
<1>1. "persist" \in EventKind
  BY DEF EventKind
<1>2. hard' \in [Server -> HardStateType]
  <2>1. [hard EXCEPT ![n] = HardState(t, v)] \in [Server -> HardStateType]
    BY HardUpdateType
  <2>2. hard \in [Server -> HardStateType]
    BY DEF TypeOK
  <2> QED
    BY <2>1, <2>2 DEF Save, SaveFails
<1>3. used' \in [EventKind -> Nat]
  BY <1>1, SpendType DEF Save, SaveFails, TypeOK
<1> QED
  BY <1>2, <1>3

LEMMA ResolvedType ==
    ASSUME TypeOK, NEW n \in Server
    PROVE  ResolvedHardState(n) \in HardStateType
BY LastTermType, Zenon DEF ResolvedHardState, TypeOK, HardStateType, HardState
=============================================================================
