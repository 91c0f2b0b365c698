-------------------------- MODULE CompactionProofs --------------------------
(***************************************************************************)
(* What a merge may throw away.  The theorems hold for every set of        *)
(* versions, every watermark and every position of the merged tables in    *)
(* the LSM tree; module Lsm uses the same operators, and TLC checks there  *)
(* that the watermark and the order of the layers are as assumed here.     *)
(***************************************************************************)
EXTENDS Compaction, TLAPS

\* Versions carry a timestamp that can be compared.
Timestamped(S) == \A v \in S : v.ts \in Nat

\* Of one key, the versions of the upper layers are newer than those of the
\* lower ones: the order in which getAsOfSnapshot visits the layers.
Above(upper, lower) == \A u \in upper, v \in lower : u.key = v.key => v.ts < u.ts

-----------------------------------------------------------------------------
\* Nothing is invented: what a merge writes, it read.
LEMMA MergeWritesInputs ==
    ASSUME NEW S, NEW watermark, NEW bottom
    PROVE  CompactSSTables(S, watermark, bottom) \subseteq S
BY DEF CompactSSTables

\* A version that a merge dropped had a version of its key at or below the
\* watermark that is at least as new as itself: itself, if it is a tombstone at
\* the head of its key, or the one that shadows it.
LEMMA DroppedIsCovered ==
    ASSUME NEW S, Timestamped(S), NEW watermark \in Nat, NEW bottom \in BOOLEAN,
           NEW w \in S, w \notin CompactSSTables(S, watermark, bottom)
    PROVE  /\ bottom
           /\ \E u \in S : u.key = w.key /\ w.ts <= u.ts /\ u.ts <= watermark
<1>1. bottom /\ (DeadHead(S, w, watermark) \/ Shadowed(S, w, watermark))
  BY DEF CompactSSTables
<1>2. CASE DeadHead(S, w, watermark)
  BY <1>1, <1>2 DEF DeadHead, Timestamped
<1>3. CASE Shadowed(S, w, watermark)
  BY <1>1, <1>3 DEF Shadowed, Timestamped
<1> QED
  BY <1>1, <1>2, <1>3

\* A kept version has no newer one of its key at or below the watermark, when
\* the merge reaches the bottom of the tree.
LEMMA KeptIsNotShadowed ==
    ASSUME NEW S, Timestamped(S), NEW watermark \in Nat,
           NEW v \in CompactSSTables(S, watermark, TRUE),
           NEW u \in S, u.key = v.key, u.ts <= watermark
    PROVE  u.ts <= v.ts
<1>1. v \in S /\ ~Shadowed(S, v, watermark)
  BY DEF CompactSSTables
<1>2. u.ts \in Nat /\ v.ts \in Nat
  BY <1>1 DEF Timestamped
<1> QED
  BY <1>1, <1>2 DEF Shadowed

-----------------------------------------------------------------------------
\* compactSSTables changes no read at or above the watermark: whatever value a
\* transaction or a scan with such a snapshot read before the merge, through the
\* layers above the merged tables and the tables themselves, it reads after it,
\* and it reads nothing else.  This is what the watermark of computeWatermark is
\* for.
THEOREM MergeKeepsReads ==
    ASSUME NEW upper, NEW S, Timestamped(upper), Timestamped(S), Above(upper, S),
           NEW watermark \in Nat, NEW bottom \in BOOLEAN,
           NEW snapshot \in Nat, watermark <= snapshot, NEW k, NEW v
    PROVE  Reads(upper \cup CompactSSTables(S, watermark, bottom), k, snapshot, v)
               <=> Reads(upper \cup S, k, snapshot, v)
<1> DEFINE C == CompactSSTables(S, watermark, bottom)
<1>1. C \subseteq S
  BY MergeWritesInputs
<1>2. ASSUME Reads(upper \cup C, k, snapshot, v)
      PROVE  Reads(upper \cup S, k, snapshot, v)
  <2>1. /\ v \in upper \cup C /\ v.key = k /\ v.op = "put" /\ v.ts <= snapshot
        /\ \A w \in upper \cup C : w.key = k /\ w.ts <= snapshot => w.ts <= v.ts
    BY <1>2 DEF Reads
  <2>2. ASSUME NEW w \in S, w.key = k, w.ts <= snapshot
        PROVE  w.ts <= v.ts
    <3>1. v.ts \in Nat /\ w.ts \in Nat
      BY <2>1, <1>1 DEF Timestamped
    <3>2. CASE w \in C
      BY <3>2, <2>1, <2>2
    <3>3. CASE v \in upper
      BY <3>1, <3>3, <2>1, <2>2 DEF Above
    <3>4. CASE w \notin C /\ v \in C
      <4>1. PICK u \in S : bottom /\ u.key = w.key /\ w.ts <= u.ts /\ u.ts <= watermark
        BY <3>4, DroppedIsCovered
      <4>2. v \in CompactSSTables(S, watermark, TRUE)
        BY <3>4, <4>1, bottom = TRUE
      <4>3. u.ts <= v.ts /\ u.ts \in Nat
        BY <4>1, <4>2, <2>1, <2>2, KeptIsNotShadowed DEF Timestamped
      <4> QED
        BY <3>1, <4>1, <4>3
    <3> QED
      BY <3>2, <3>3, <3>4, <2>1
  <2> QED
    BY <1>1, <2>1, <2>2 DEF Reads
<1>3. ASSUME Reads(upper \cup S, k, snapshot, v)
      PROVE  Reads(upper \cup C, k, snapshot, v)
  <2>1. /\ v \in upper \cup S /\ v.key = k /\ v.op = "put" /\ v.ts <= snapshot
        /\ \A w \in upper \cup S : w.key = k /\ w.ts <= snapshot => w.ts <= v.ts
    BY <1>3 DEF Reads
  <2>2. ASSUME v \in S
        PROVE  v \in C
    <3>1. ~DeadHead(S, v, watermark)
      BY <2>1 DEF DeadHead
    <3>2. ~Shadowed(S, v, watermark)
      <4> SUFFICES ASSUME NEW w \in S, w.key = v.key, v.ts < w.ts, w.ts <= watermark
                   PROVE  FALSE
        BY DEF Shadowed
      <4>1. w.ts \in Nat /\ v.ts \in Nat
        BY <2>2 DEF Timestamped
      <4> QED
        BY <4>1, <2>1
    <3> QED
      BY <2>2, <3>1, <3>2 DEF CompactSSTables
  <2> QED
    BY <1>1, <2>1, <2>2 DEF Reads
<1> QED
  BY <1>2, <1>3

\* compactSSTables hides no conflict: a transaction whose snapshot is at or above
\* the watermark is refused after the merge exactly when it would have been
\* refused before it (hasCommitNewerThanLocked looks for a version newer than the
\* snapshot, and the merge keeps all of those).
THEOREM MergeKeepsConflicts ==
    ASSUME NEW S, Timestamped(S), NEW watermark \in Nat, NEW bottom \in BOOLEAN,
           NEW readSnap \in Nat, watermark <= readSnap, NEW k
    PROVE  (\E v \in CompactSSTables(S, watermark, bottom) : v.key = k /\ readSnap < v.ts)
               <=> (\E v \in S : v.key = k /\ readSnap < v.ts)
<1>1. ASSUME NEW v \in S, readSnap < v.ts
      PROVE  v \in CompactSSTables(S, watermark, bottom)
  <2>1. v.ts \in Nat
    BY DEF Timestamped
  <2>2. ~DeadHead(S, v, watermark)
    BY <1>1, <2>1 DEF DeadHead
  <2>3. ~Shadowed(S, v, watermark)
    BY <1>1, <2>1 DEF Shadowed, Timestamped
  <2> QED
    BY <2>2, <2>3 DEF CompactSSTables
<1> QED
  BY <1>1, MergeWritesInputs

\* The heap of mergeIterator and compactSSTables yields every version of every
\* layer when no two layers hold the same encoded key, so a scan over the layers
\* and a read through them see the same versions.
THEOREM MergeYieldsAll ==
    ASSUME NEW T, NEW layers \in Seq(T),
           \A i, j \in DOMAIN layers : \A v \in layers[i], w \in layers[j] :
               v.key = w.key /\ v.ts = w.ts => i = j
    PROVE  MergeLayers(layers) = UNION {layers[i] : i \in DOMAIN layers}
BY DEF MergeLayers

=============================================================================
