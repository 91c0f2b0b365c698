----------------------------- MODULE Compaction -----------------------------
(***************************************************************************)
(* The merge of internal/db/compaction.go and scan.go, as a function on    *)
(* sets of versions.  The code pops versions off a heap in encoded-key     *)
(* order, that is key by key and newest first, and carries from one        *)
(* version to the next the timestamp prevTS of the version before it.      *)
(***************************************************************************)
EXTENDS Integers, Sequences

\* One stream out of several layers, newest layer first: of two versions with
\* the same encoded key the newer layer's is kept.
MergeLayers(layers) ==
    {v \in UNION {layers[i] : i \in DOMAIN layers} :
        \E i \in DOMAIN layers :
            /\ v \in layers[i]
            /\ \A j \in DOMAIN layers : \A w \in layers[j] :
                  j < i => ~(w.key = v.key /\ w.ts = v.ts)}

\* The newest version of its key, a tombstone, at or below the watermark.
DeadHead(S, v, watermark) ==
    /\ \A w \in S : w.key = v.key => w.ts <= v.ts
    /\ v.op = "del"
    /\ v.ts <= watermark

\* A newer version of the key is at or below the watermark.  prevTS is the
\* oldest of the newer versions, so it is at or below it if any of them is.
Shadowed(S, v, watermark) ==
    \E w \in S : w.key = v.key /\ v.ts < w.ts /\ w.ts <= watermark

\* What compactSSTables writes.
CompactSSTables(S, watermark, bottomOfLSM) ==
    {v \in S : ~(bottomOfLSM /\ (DeadHead(S, v, watermark) \/ Shadowed(S, v, watermark)))}

-----------------------------------------------------------------------------
\* v is the value a read of its key at the snapshot finds among the versions S.
Reads(S, k, snapshot, v) ==
    /\ v \in S
    /\ v.key = k
    /\ v.op = "put"
    /\ v.ts <= snapshot
    /\ \A w \in S : w.key = k /\ w.ts <= snapshot => w.ts <= v.ts

=============================================================================
