----------------------------- MODULE LsmProofs -----------------------------
(***************************************************************************)
(* The two "unexpectedly" errors of tryCompactOnce are unreachable, for    *)
(* every trigger, every set of keys and transactions and every bound.      *)
(***************************************************************************)
EXTENDS Lsm, FiniteSetTheorems, TLAPS

\* The steps of the goroutine during which the inputs are kept for later.
Busy == {"watermark", "readers", "merge", "written"}

\* The record of the goroutine.  What it merges does not matter here, only that
\* sets T, W and L of tables, watermarks and numbers exist.
Goroutine(T, W, L) ==
    [pc : {"wait", "try", "watermark", "readers", "merge", "written", "remove"},
     inputs : Seq(T), bottom : BOOLEAN, watermark : W, left : L]

\* The shape of the table list, the goroutine and the directory.
Shape ==
    /\ IsFiniteSet(DOMAIN files)
    /\ \E T, W, L : tables \in Seq(T) /\ compaction \in Goroutine(T, W, L)

\* The inductive invariant: the shape, and the property itself.
TailInv == Shape /\ InputsStayTheTail

\* No goroutine runs in a process that is down, so Open finds none.
NoneWhenDown == status = "down" => compaction = Waiting

-----------------------------------------------------------------------------
\* A sequence stays a sequence when its elements are allowed to be more.
LEMMA SeqGrows ==
    ASSUME NEW T, NEW x, NEW s \in Seq(T)
    PROVE  s \in Seq(T \cup {x})
OBVIOUS

\* A flush puts its table in front, so what was the end is still the end.
LEMMA TailUnderPrepend ==
    ASSUME NEW T, NEW s \in Seq(T), NEW t \in Seq(T), NEW x \in T, IsTail(s, t)
    PROVE  /\ <<x>> \o t \in Seq(T)
           /\ IsTail(s, <<x>> \o t)
<1>1. <<x>> \o t \in Seq(T) /\ Len(<<x>> \o t) = Len(t) + 1
  OBVIOUS
<1>2. \A i \in 1 .. Len(t) : (<<x>> \o t)[i + 1] = t[i]
  OBVIOUS
<1>3. Len(s) <= Len(<<x>> \o t)
  BY <1>1 DEF IsTail
<1>4. ASSUME NEW i \in 1 .. Len(s)
      PROVE  s[i] = (<<x>> \o t)[Len(<<x>> \o t) - Len(s) + i]
  <2>1. s[i] = t[Len(t) - Len(s) + i] /\ Len(t) - Len(s) + i \in 1 .. Len(t)
    BY DEF IsTail
  <2> QED
    BY <1>1, <1>2, <2>1
<1> QED
  BY <1>1, <1>3, <1>4 DEF IsTail

\* The tables tryCompactOnce picks are the end of the list.
LEMMA PickedIsTail ==
    ASSUME NEW T, NEW t \in Seq(T), NEW n \in Nat, n <= Len(t)
    PROVE  /\ SubSeq(t, Len(t) - n + 1, Len(t)) \in Seq(T)
           /\ IsTail(SubSeq(t, Len(t) - n + 1, Len(t)), t)
<1> DEFINE s == SubSeq(t, Len(t) - n + 1, Len(t))
<1>1. s \in Seq(T) /\ Len(s) = n
  OBVIOUS
<1>2. \A i \in 1 .. n : s[i] = t[Len(t) - n + i]
  OBVIOUS
<1> QED
  BY <1>1, <1>2 DEF IsTail

-----------------------------------------------------------------------------
\* The initial state is an empty store with the goroutine waiting.
LEMMA InitTail == Init => TailInv
<1> SUFFICES ASSUME Init PROVE TailInv
  OBVIOUS
<1>1. DOMAIN files = {} /\ tables = <<>> /\ compaction = Waiting
  BY DEF Init
<1>2. tables \in Seq({}) /\ compaction \in Goroutine({}, {0}, {{}})
  BY <1>1 DEF Waiting, Goroutine
<1>3. Shape
  BY <1>1, <1>2, FS_EmptySet DEF Shape
<1>4. compaction.pc = "wait"
  BY <1>1 DEF Waiting
<1> QED
  BY <1>3, <1>4 DEF TailInv, InputsStayTheTail

\* A step that leaves the three variables alone keeps the invariant.
LEMMA UntouchedTail ==
    ASSUME TailInv, UNCHANGED <<files, tables, compaction>>
    PROVE  TailInv'
BY DEF TailInv, Shape, InputsStayTheTail, IsTail, Goroutine

\* A commit, with or without a flush.
LEMMA InstallTail ==
    ASSUME TailInv, NEW e, Install(e), UNCHANGED compaction
    PROVE  TailInv'
<1>1. CASE UNCHANGED <<files, tables>>
  BY <1>1, UntouchedTail
<1>2. CASE Flush(MemtableWith(e))
  <2> DEFINE x == [id |-> nextID, versions |-> MemtableWith(e)]
  <2>1. DOMAIN files' = DOMAIN files \cup {nextID} /\ tables' = <<x>> \o tables
    BY <1>2 DEF Flush
  <2>2. IsFiniteSet(DOMAIN files')
    BY <2>1, FS_AddElement DEF TailInv, Shape
  <2>3. PICK T, W, L : tables \in Seq(T) /\ compaction \in Goroutine(T, W, L)
    BY DEF TailInv, Shape
  <2> DEFINE U == T \cup {x}
  <2>4. tables \in Seq(U) /\ compaction.inputs \in Seq(U) /\ x \in U
    BY <2>3, SeqGrows DEF Goroutine
  <2> HIDE DEF x, U
  <2>5. tables' \in Seq(U)
    BY <2>1, <2>4
  <2>6. compaction' \in Goroutine(U, W, L)
    BY <2>3, <2>4 DEF Goroutine
  <2>7. Shape'
    BY <2>2, <2>5, <2>6 DEF Shape
  <2>8. ASSUME compaction'.pc \in Busy
        PROVE  IsTail(compaction'.inputs, tables')
    <3>1. IsTail(compaction.inputs, tables)
      BY <2>8 DEF TailInv, InputsStayTheTail, Busy
    <3> QED
      BY <3>1, <2>1, <2>4, TailUnderPrepend
  <2> QED
    BY <2>7, <2>8 DEF TailInv, InputsStayTheTail, Busy
<1> QED
  BY <1>1, <1>2 DEF Install

\* A step of the goroutine that keeps the tables and the inputs, or stops
\* keeping the inputs.
LEMMA CompactionTail ==
    ASSUME TailInv, UNCHANGED tables, IsFiniteSet(DOMAIN files'),
           NEW T, NEW W, NEW L, tables \in Seq(T), compaction' \in Goroutine(T, W, L),
           compaction'.pc \in Busy => /\ compaction.pc \in Busy
                                     /\ compaction'.inputs = compaction.inputs
    PROVE  TailInv'
<1>1. Shape'
  BY DEF Shape
<1>2. compaction'.pc \in Busy => IsTail(compaction'.inputs, tables')
  BY DEF TailInv, InputsStayTheTail, Busy
<1> QED
  BY <1>1, <1>2 DEF TailInv, InputsStayTheTail, Busy

\* Removing a file leaves a finite directory.
LEMMA WithoutFinite ==
    ASSUME TailInv, NEW id, files' = Without(id)
    PROVE  IsFiniteSet(DOMAIN files')
BY FS_RemoveElement DEF TailInv, Shape, Without

\* Every step of the compaction goroutine.
LEMMA CompactionNextTail ==
    ASSUME TailInv, CompactionNext, LsmAssumption
    PROVE  TailInv'
<1>1. PICK T, W, L : tables \in Seq(T) /\ compaction \in Goroutine(T, W, L)
  BY DEF TailInv, Shape
<1>2. IsFiniteSet(DOMAIN files)
  BY DEF TailInv, Shape
<1> DEFINE M == L \cup {{}}
           V == W \cup {0}
<1>3. Waiting \in Goroutine(T, V, M) /\ Waiting.pc = "wait" /\ "wait" \notin Busy
  BY DEF Waiting, Goroutine, Busy
<1>4. CASE CompactWake
  <2>1. compaction' \in Goroutine(T, W, L) /\ compaction'.pc = "try"
    BY <1>1, <1>4 DEF CompactWake, Goroutine
  <2> QED
    BY <1>1, <1>2, <1>4, <2>1, CompactionTail DEF CompactWake, Busy
<1>5. CASE CompactPick
  <2> DEFINE picked == SubSeq(tables, Len(tables) - CompactionTrigger + 1, Len(tables))
             lowest == Min(TableIDs(picked)) = Min(TableIDs(tables))
  <2>1. UNCHANGED <<files, tables>>
    BY <1>5 DEF CompactPick
  <2>2. CASE compaction' = Waiting
    BY <1>1, <1>2, <1>3, <2>1, <2>2, CompactionTail
  <2>3. CASE /\ CompactionTrigger <= Len(tables)
             /\ compaction' = [compaction EXCEPT !.pc = "watermark", !.inputs = picked,
                                                 !.bottom = lowest]
    <3>1. picked \in Seq(T) /\ IsTail(picked, tables)
      BY <1>1, <2>3, PickedIsTail DEF LsmAssumption
    <3> HIDE DEF picked
    <3>2. lowest \in BOOLEAN
      OBVIOUS
    <3> HIDE DEF lowest
    <3>3. compaction' \in Goroutine(T, W, L) /\ compaction'.inputs = picked
      BY <1>1, <2>3, <3>1, <3>2 DEF Goroutine
    <3>4. IsTail(compaction'.inputs, tables')
      BY <2>1, <3>1, <3>3
    <3>5. Shape'
      BY <1>1, <1>2, <2>1, <3>3 DEF Shape
    <3> QED
      BY <3>4, <3>5 DEF TailInv, InputsStayTheTail
  <2>4. Len(tables) \in Nat /\ CompactionTrigger \in Nat
    BY <1>1 DEF LsmAssumption
  <2> QED
    BY <1>5, <2>2, <2>3, <2>4 DEF CompactPick
<1>6. CASE CompactWatermark
  <2> DEFINE X == W \cup {nextTimestamp - 1}
  <2>1. compaction' \in Goroutine(T, X, L) /\ compaction'.inputs = compaction.inputs
    BY <1>1, <1>6 DEF CompactWatermark, Goroutine
  <2>2. compaction.pc \in Busy
    BY <1>6 DEF CompactWatermark, Busy
  <2>3. UNCHANGED <<files, tables>>
    BY <1>6 DEF CompactWatermark
  <2> QED
    BY <1>1, <1>2, <2>1, <2>2, <2>3, CompactionTail
<1>7. CASE CompactReaders
  <2> DEFINE wm == Min({compaction.watermark} \cup
                         {txns[t].readSnap : t \in {u \in Txn : txns[u].state # "idle"}})
             X == W \cup {wm}
  <2>1. compaction' = [compaction EXCEPT !.pc = "merge", !.watermark = wm]
    BY <1>7 DEF CompactReaders
  <2> HIDE DEF wm
  <2>2. compaction' \in Goroutine(T, X, L) /\ compaction'.inputs = compaction.inputs
    BY <1>1, <2>1 DEF Goroutine
  <2>3. compaction.pc \in Busy
    BY <1>7 DEF CompactReaders, Busy
  <2>4. UNCHANGED <<files, tables>>
    BY <1>7 DEF CompactReaders
  <2> QED
    BY <1>1, <1>2, <2>2, <2>3, <2>4, CompactionTail
<1>8. CASE CompactWrite
  <2>1. compaction' \in Goroutine(T, W, L) /\ compaction'.inputs = compaction.inputs
    BY <1>1, <1>8 DEF CompactWrite, Goroutine
  <2>2. compaction.pc \in Busy /\ UNCHANGED tables
    BY <1>8 DEF CompactWrite, Busy
  <2>3. DOMAIN files' = DOMAIN files \cup {OutputID}
    BY <1>8 DEF CompactWrite
  <2>4. IsFiniteSet(DOMAIN files')
    BY <1>2, <2>3, FS_AddElement
  <2> QED
    BY <1>1, <2>1, <2>2, <2>4, CompactionTail
<1>9. CASE CompactFails \/ CompactAbandon
  <2>1. compaction' = Waiting /\ UNCHANGED tables /\ files' = Without(OutputID)
    BY <1>9 DEF CompactFails, CompactAbandon
  <2> QED
    BY <1>1, <1>3, <2>1, WithoutFinite, CompactionTail
<1>10. CASE CompactInstall
  <2> DEFINE kept == SubSeq(tables, 1, Len(tables) - Len(compaction.inputs))
             x == [id |-> OutputID, versions |-> files[OutputID]]
             U == T \cup {x}
             X == L \cup {TableIDs(compaction.inputs) \ {OutputID}}
  <2>1. /\ tables' = Append(kept, x)
        /\ UNCHANGED files
        /\ compaction' = [compaction EXCEPT !.pc = "remove",
                                            !.left = TableIDs(compaction.inputs) \ {OutputID}]
    BY <1>10 DEF CompactInstall
  <2>2. Len(compaction.inputs) <= Len(tables)
    BY <1>10 DEF CompactInstall, TailInv, InputsStayTheTail, IsTail
  <2>3. compaction.inputs \in Seq(T) /\ Len(compaction.inputs) \in Nat /\ Len(tables) \in Nat
    BY <1>1 DEF Goroutine
  <2>4. kept \in Seq(T)
    BY <1>1, <2>2, <2>3
  <2>5. kept \in Seq(U) /\ compaction.inputs \in Seq(U) /\ x \in U
    BY <2>3, <2>4, SeqGrows
  <2> HIDE DEF kept, x, U
  <2>6. tables' \in Seq(U)
    BY <2>1, <2>5
  <2>7. compaction' \in Goroutine(U, W, X) /\ compaction'.pc = "remove"
    BY <1>1, <2>1, <2>5 DEF Goroutine
  <2>8. Shape'
    BY <1>2, <2>1, <2>6, <2>7 DEF Shape
  <2> QED
    BY <2>7, <2>8 DEF TailInv, InputsStayTheTail
<1>11. CASE CompactRemove
  <2>1. UNCHANGED tables /\ compaction.pc = "remove"
    BY <1>11 DEF CompactRemove
  <2>2. CASE compaction' = [Waiting EXCEPT !.pc = "try"] /\ UNCHANGED files
    <3>1. compaction' \in Goroutine(T, V, M) /\ compaction'.pc = "try"
      BY <1>3, <2>2 DEF Goroutine
    <3> QED
      BY <1>1, <1>2, <2>1, <2>2, <3>1, CompactionTail DEF Busy
  <2>3. CASE /\ files' = Without(Max(compaction.left))
             /\ compaction' = [compaction EXCEPT !.left = compaction.left \ {Max(compaction.left)}]
    <3> DEFINE rest == compaction.left \ {Max(compaction.left)}
    <3>1. compaction' = [compaction EXCEPT !.left = rest]
      BY <2>3
    <3> HIDE DEF rest
    <3>2. compaction' \in Goroutine(T, W, L \cup {rest}) /\ compaction'.pc = "remove"
      BY <1>1, <2>1, <3>1 DEF Goroutine
    <3>3. IsFiniteSet(DOMAIN files')
      BY <2>3, WithoutFinite
    <3> QED
      BY <1>1, <2>1, <3>2, <3>3, CompactionTail DEF Busy
  <2> QED
    BY <1>11, <2>2, <2>3 DEF CompactRemove
<1> QED
  BY <1>4, <1>5, <1>6, <1>7, <1>8, <1>9, <1>10, <1>11 DEF CompactionNext

\* Going down forgets the tables and ends the goroutine.
LEMMA GoDownTail ==
    ASSUME TailInv, GoDown
    PROVE  TailInv'
<1>1. tables' = <<>> /\ compaction' = Waiting /\ UNCHANGED files
  BY DEF GoDown
<1>2. tables' \in Seq({}) /\ compaction' \in Goroutine({}, {0}, {{}}) /\ compaction'.pc = "wait"
  BY <1>1 DEF Waiting, Goroutine
<1>3. Shape'
  BY <1>1, <1>2 DEF TailInv, Shape
<1> QED
  BY <1>2, <1>3 DEF TailInv, InputsStayTheTail

\* Open reads the tables from the directory; the goroutine has not started.
LEMMA OpenTail ==
    ASSUME TailInv, Open, compaction = Waiting
    PROVE  TailInv'
<1> DEFINE n == Cardinality(DOMAIN files)
           nth(i) == CHOOSE id \in DOMAIN files : Cardinality({j \in DOMAIN files : j >= id}) = i
           table(i) == [id |-> nth(i), versions |-> files[nth(i)]]
           T == {table(i) : i \in 1 .. n}
<1>1. n \in Nat
  BY FS_CardinalityType DEF TailInv, Shape
<1>2. tables' = [i \in 1 .. n |-> table(i)]
  BY DEF Open, TablesOnDisk
<1> HIDE DEF n, table
<1>3. tables' \in Seq(T)
  BY <1>1, <1>2
<1>4. UNCHANGED <<files, compaction>>
  BY DEF Open
<1>5. compaction' \in Goroutine(T, {0}, {{}}) /\ compaction'.pc = "wait"
  BY <1>4 DEF Waiting, Goroutine
<1>6. Shape'
  BY <1>3, <1>4, <1>5 DEF TailInv, Shape
<1> QED
  BY <1>5, <1>6 DEF TailInv, InputsStayTheTail

\* A process goes down only through GoDown, and nothing but Open happens in one
\* that is down as far as the goroutine is concerned.
LEMMA NextDown ==
    ASSUME NoneWhenDown, [Next]_vars
    PROVE  NoneWhenDown'
<1>1. CASE UNCHANGED vars
  BY <1>1 DEF vars, NoneWhenDown
<1>2. ASSUME NEW t \in Txn, Begin(t) \/ Rollback(t)
      PROVE  NoneWhenDown'
  BY <1>2 DEF Begin, Rollback, NoneWhenDown
<1>3. ASSUME NEW t \in Txn, NEW w \in Writes, CommitNext(t, w)
      PROVE  NoneWhenDown'
  BY <1>3 DEF CommitNext, Commit, PrepareCommit, CommitRefused, CommitFails, NoneWhenDown
<1>4. ASSUME NEW w \in Writes, ForeignEntry(w)
      PROVE  NoneWhenDown'
  BY <1>4 DEF ForeignEntry, NoneWhenDown
<1>5. CASE GiveUp \/ ApplyEntry
  BY <1>5 DEF GiveUp, ApplyEntry, NoneWhenDown
<1>6. CASE ScanNext
  BY <1>6 DEF ScanNext, SnapshotScan, ScanNow, ScanCapture, ScanClose, NoneWhenDown
<1>7. CASE CompactionNext
  <2>1. status # "down" /\ UNCHANGED status
    BY <1>7 DEF CompactionNext, CompactWake, CompactPick, CompactWatermark, CompactReaders,
                CompactWrite, CompactFails, CompactInstall, CompactAbandon, CompactRemove,
                CompactionOnly
  <2> QED
    BY <2>1 DEF NoneWhenDown
<1>8. CASE Close \/ Open
  BY <1>8 DEF Close, Open, NoneWhenDown
<1>9. CASE CloseDone \/ Crash
  BY <1>9 DEF CloseDone, Crash, GoDown, NoneWhenDown
<1> QED
  BY <1>1, <1>2, <1>3, <1>4, <1>5, <1>6, <1>7, <1>8, <1>9 DEF Next

\* Every step keeps the invariant.
LEMMA NextTail ==
    ASSUME TailInv, NoneWhenDown, [Next]_vars, LsmAssumption
    PROVE  TailInv'
<1>1. CASE UNCHANGED vars
  BY <1>1, UntouchedTail DEF vars
<1>2. ASSUME NEW t \in Txn, Begin(t) \/ Rollback(t)
      PROVE  TailInv'
  BY <1>2, UntouchedTail DEF Begin, Rollback, layers
<1>3. ASSUME NEW t \in Txn, NEW w \in Writes, CommitNext(t, w)
      PROVE  TailInv'
  <2>1. CASE Commit(t, w)
    <3> DEFINE e == [ts |-> nextTimestamp, puts |-> w.puts, deletes |-> w.deletes,
                     local |-> TRUE, base |-> txns[t].base]
    <3>1. Install(e) /\ UNCHANGED compaction
      BY <2>1 DEF Commit
    <3> QED
      BY <3>1, InstallTail
  <2>2. CASE PrepareCommit(t, w) \/ CommitRefused(t, w) \/ CommitFails(t, w)
    BY <2>2, UntouchedTail DEF PrepareCommit, CommitRefused, CommitFails, layers
  <2> QED
    BY <1>3, <2>1, <2>2 DEF CommitNext
<1>4. ASSUME NEW w \in Writes, ForeignEntry(w)
      PROVE  TailInv'
  BY <1>4, UntouchedTail DEF ForeignEntry, layers
<1>5. CASE GiveUp
  BY <1>5, UntouchedTail DEF GiveUp, layers
<1>6. CASE ApplyEntry
  BY <1>6, InstallTail DEF ApplyEntry
<1>7. CASE ScanNext
  BY <1>7, UntouchedTail DEF ScanNext, SnapshotScan, ScanNow, ScanCapture, ScanClose, layers
<1>8. CASE CompactionNext
  BY <1>8, CompactionNextTail
<1>9. CASE Close
  BY <1>9, UntouchedTail DEF Close, layers
<1>10. CASE CloseDone \/ Crash
  BY <1>10, GoDownTail DEF CloseDone, Crash
<1>11. CASE Open
  BY <1>11, OpenTail DEF Open, NoneWhenDown
<1> QED
  BY <1>1, <1>2, <1>3, <1>4, <1>5, <1>6, <1>7, <1>8, <1>9, <1>10, <1>11 DEF Next

-----------------------------------------------------------------------------
\* tryCompactOnce finds the tables it merged at the end of the list, for every
\* interleaving of commits, flushes, scans, Close and restarts: the checks
\* "sstables shrank unexpectedly" and "tail IDs changed unexpectedly" never fail,
\* and the swap under db.mu replaces exactly the tables that were merged.
THEOREM MergeInputsStayTheTail == Spec => []InputsStayTheTail
<1>1. Init => TailInv /\ NoneWhenDown
  BY InitTail DEF Init, NoneWhenDown
<1>2. TailInv /\ NoneWhenDown /\ [Next]_vars => (TailInv /\ NoneWhenDown)'
  BY NextTail, NextDown, LsmAssumption
<1>3. TailInv => InputsStayTheTail
  BY DEF TailInv
<1> QED
  BY <1>1, <1>2, <1>3, PTL DEF Spec

=============================================================================
