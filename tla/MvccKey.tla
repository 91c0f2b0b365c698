------------------------------ MODULE MvccKey ------------------------------
(***************************************************************************)
(* How a version of a key is stored and found: the encoding of a user key  *)
(* and a timestamp as one byte string (internal/mvcckey), the seek of the  *)
(* memtable's skip list (internal/memtable), and the search of an SSTable  *)
(* through its block index (internal/sstable).                             *)
(*                                                                         *)
(* A layer is the set of versions it holds; no two versions of a layer     *)
(* have the same encoded key.  A version is a record with a user key (a    *)
(* sequence of bytes), a timestamp, an op and a value.  The values are     *)
(* never looked at here.                                                   *)
(***************************************************************************)
EXTENDS Integers, Sequences, FiniteSets, SequencesExt

CONSTANTS
    Key,             \* the user keys in use, as sequences of bytes
    Base,            \* how many values a byte has (256)
    Width,           \* TimestampSize: bytes in the timestamp suffix (8)
    BlockRecords     \* records in a full data block (a size in bytes in the code)

ASSUME MvccKeyAssumption ==
    /\ Base \in Nat \ {0, 1}
    /\ Width \in Nat \ {0}
    /\ BlockRecords \in Nat \ {0}
    /\ \A k \in Key : k \in Seq(0 .. Base - 1)

\* ^uint64(0), the largest timestamp.
MaxTimestamp == Base ^ Width - 1

\* PutUint64: the Width bytes of x, most significant first.
BigEndian(x) == [i \in 1 .. Width |-> (x \div (Base ^ (Width - i))) % Base]

\* userKey || bigEndian(^timestamp).
Encode(userKey, timestamp) == userKey \o BigEndian(MaxTimestamp - timestamp)

\* bytes.Compare(a, b) < 0.
Before(a, b) ==
    \/ IsStrictPrefix(a, b)
    \/ \E i \in 1 .. Len(a) :
          /\ i <= Len(b)
          /\ SubSeq(a, 1, i - 1) = SubSeq(b, 1, i - 1)
          /\ a[i] < b[i]

\* The place of each encoded key in the byte order of all encoded keys.
Place ==
    LET all == {Encode(k, ts) : k \in Key, ts \in 0 .. MaxTimestamp}
    IN  [k \in Key |-> [ts \in 0 .. MaxTimestamp |->
            Cardinality({e \in all : Before(e, Encode(k, ts))})]]

PlaceOf(v) == Place[v.key][v.ts]

\* The first version of a layer at or after the target, as a set of at most
\* one version: what skiplist.SeekGE returns.
SeekGE(layer, target) ==
    LET after == {v \in layer : PlaceOf(v) >= target}
    IN  {v \in after : \A w \in after : PlaceOf(v) <= PlaceOf(w)}

\* Memtable.GetAsOf and NewestVersionTS: seek, then keep the hit if it is a
\* version of the key asked for.
MemtableSeek(layer, userKey, snapshot) ==
    {v \in SeekGE(layer, Place[userKey][snapshot]) : v.key = userKey}

\* The block a record lies in: the writer fills blocks in key order.
BlockOf(layer, v) ==
    Cardinality({w \in layer : PlaceOf(w) < PlaceOf(v)}) \div BlockRecords

\* The index entry of a block is the encoded key of its first record.
FirstKeys(layer) ==
    {PlaceOf(v) : v \in {w \in layer :
        Cardinality({u \in layer : PlaceOf(u) < PlaceOf(w)}) % BlockRecords = 0}}

\* sort.Search finds the first block whose first key is past the target; the
\* search starts in the block before it.
StartBlock(layer, target) ==
    LET hi == Cardinality({first \in FirstKeys(layer) : first <= target})
    IN  IF hi > 0 THEN hi - 1 ELSE 0

\* Mutant: only the start block is read.
ReaderSeekOneBlock(layer, userKey, snapshot) ==
    LET target == Place[userKey][snapshot]
        start  == StartBlock(layer, target)
    IN  {v \in SeekGE({w \in layer : BlockOf(layer, w) = start}, target) : v.key = userKey}

\* Reader.GetAsOf and NewestVersionTS read the start block and the next one.
ReaderSeek(layer, userKey, snapshot) ==
    LET target == Place[userKey][snapshot]
        start  == StartBlock(layer, target)
        read   == {v \in layer : BlockOf(layer, v) \in {start, start + 1}}
    IN  {v \in SeekGE(read, target) : v.key = userKey}

-----------------------------------------------------------------------------
\* What the two searches are for: the newest version of the key at or below
\* the snapshot, or nothing.
NewestAsOf(layer, userKey, snapshot) ==
    LET seen == {v \in layer : v.key = userKey /\ v.ts <= snapshot}
    IN  {v \in seen : \A w \in seen : w.ts <= v.ts}

=============================================================================
