-------------------------------- MODULE Lsm --------------------------------
(***************************************************************************)
(* The transactional LSM store of internal/db: transactions with snapshot  *)
(* reads and first-committer-wins commits, the memtable and the SSTables,  *)
(* flush, background compaction with garbage collection of old versions,   *)
(* range scans, Close, crash and Open.                                     *)
(*                                                                         *)
(* Every block of code that runs under db.mu is one step.  Compaction, the *)
(* two scans and Close release db.mu between their parts and are split     *)
(* there, and compaction's file operations are steps of their own, so that *)
(* commits, flushes, crashes and Close come in between.  How a commit and  *)
(* a flush reach the disk, record by record, is the subject of module      *)
(* Store; here the WAL simply holds what the memtable holds.               *)
(***************************************************************************)
EXTENDS MvccKey, Compaction

CONSTANTS
    Txn,                  \* transaction handles
    Writes,               \* what a transaction may write: keys put and deleted
    CompactionTrigger,    \* opts.CompactionTrigger
    Modes,                \* which of {"single", "leader"} a behaviour may start in
    MaxCommits,           \* bound: commits applied
    MaxTxns,              \* bound: transactions begun
    MaxEvents             \* bound: restarts, disk errors, scans and changes of leader

ASSUME LsmAssumption ==
    /\ CompactionTrigger \in Nat \ {0, 1}
    /\ Modes \subseteq {"single", "leader"}
    /\ \A w \in Writes : /\ w.puts \cup w.deletes \in SUBSET Key \ {{}}
                        /\ w.puts \cap w.deletes = {}

VARIABLES
    files,           \* on disk: SSTable number -> versions
    memtable,        \* db.memtable (and the WAL, which holds the same commits)
    tables,          \* db.sstables with db.sstableIDs, newest first
    nextID,          \* db.nextID
    nextTimestamp,   \* db.nextTimestamp
    appliedTS,       \* db.appliedTS
    status,          \* "open", "closing" (closed set, Close waits), "down"
    mode,            \* "leader" when db.commitOverride is the cluster's commit
    txns,            \* what each handle holds: state, readSnap
    pending,         \* committed Raft entries this leader has yet to apply
    awaited,         \* a committer holds commitMu until the last of them applies
    signal,          \* db.compactCh has an element (capacity 1)
    compaction,      \* the compaction goroutine
    scan,            \* one range scan
    begun, events,   \* transactions and events so far, for the bounds
    \* History, read by no step of the store:
    kv,              \* the map the commits applied so far define
    commits,         \* how many there were
    wrote,           \* the last commit that wrote each key
    collected,       \* the highest watermark a merge installed since Open
    lostUpdate,      \* a commit overwrote one its transaction never saw
    raced,           \* a commit was prepared over entries not yet applied
    broken           \* compaction was cut off where that loses or revives data

clocks == <<nextTimestamp, appliedTS>>
layers == <<files, memtable, tables, nextID, signal>>
history == <<kv, commits, wrote, lostUpdate>>
vars == <<files, memtable, tables, nextID, nextTimestamp, appliedTS, status, mode,
          txns, pending, awaited, signal, compaction, scan, begun, events,
          kv, commits, wrote, collected, lostUpdate, raced, broken>>

Absent == 0
Idle == [state |-> "idle", readSnap |-> 0, base |-> 0, view |-> [k \in Key |-> Absent]]
Waiting == [pc |-> "wait", inputs |-> <<>>, bottom |-> FALSE, watermark |-> 0, left |-> {}]
NoScan == [state |-> "idle", snapshot |-> 0, live |-> FALSE, layers |-> <<>>,
           view |-> [k \in Key |-> Absent], exact |-> TRUE]

Init ==
    /\ files = [id \in {} |-> {}]
    /\ memtable = {}
    /\ tables = <<>>
    /\ nextID = 1
    /\ nextTimestamp = 1
    /\ appliedTS = 0
    /\ status = "open"
    /\ mode \in Modes
    /\ txns = [t \in Txn |-> Idle]
    /\ pending = <<>>
    /\ awaited = FALSE
    /\ signal = TRUE
    /\ compaction = Waiting
    /\ scan = NoScan
    /\ begun = 0
    /\ events = 0
    /\ kv = [k \in Key |-> Absent]
    /\ commits = 0
    /\ wrote = [k \in Key |-> 0]
    /\ collected = 0
    /\ lostUpdate = FALSE
    /\ raced = FALSE
    /\ broken = FALSE

bounds == <<begun, events>>

\* One of the events whose number is bounded.
Event == events < MaxEvents /\ events' = events + 1 /\ UNCHANGED begun
-----------------------------------------------------------------------------
(* Reads.  The layers a read goes through are the memtable, then the       *)
(* SSTables newest first.  db.frozen is nil whenever db.mu is free, except *)
(* after a failed flush (module Store).                                    *)

ValueOf(hit) ==
    IF \E v \in hit : v.op = "put" THEN (CHOOSE v \in hit : TRUE).val ELSE Absent

\* The first layer that has a version at or below the snapshot answers.
GetAsOf(mem, tabs, k, snapshot) ==
    LET hit(i) == IF i = 0 THEN MemtableSeek(mem, k, snapshot)
                  ELSE ReaderSeek(tabs[i].versions, k, snapshot)
        found  == {i \in 0 .. Len(tabs) : hit(i) # {}}
    IN  IF found = {} THEN Absent ELSE ValueOf(hit(Min(found)))

View(mem, tabs, snapshot) == [k \in Key |-> GetAsOf(mem, tabs, k, snapshot)]

\* Mutant: only the memtable is searched.
HasCommitInMemtable(k, readSnap) ==
    \E v \in MemtableSeek(memtable, k, MaxTimestamp) : v.ts > readSnap

HasCommitNewerThan(k, readSnap) ==
    \/ \E v \in MemtableSeek(memtable, k, MaxTimestamp) : v.ts > readSnap
    \/ \E i \in DOMAIN tables :
          \E v \in ReaderSeek(tables[i].versions, k, MaxTimestamp) : v.ts > readSnap

\* What a scan over these layers yields at its snapshot.
ScanView(lrs, snapshot) ==
    [k \in Key |-> ValueOf(NewestAsOf(MergeLayers(lrs), k, snapshot))]

\* The layers of the scan in progress: the memtable it captured is still the
\* active one until a flush replaces it.
ScanLayers == IF scan.live THEN <<memtable>> \o scan.layers ELSE scan.layers

-----------------------------------------------------------------------------
(* Transactions.  The writes of a transaction are private to it until      *)
(* Commit, so a step picks them there.                                     *)

Begin(t) ==
    /\ status = "open"
    /\ txns[t].state = "idle"
    /\ begun < MaxTxns
    /\ txns' = [txns EXCEPT ![t] = [state |-> "active", readSnap |-> appliedTS,
                                    base |-> commits, view |-> kv]]
    /\ begun' = begun + 1
    /\ UNCHANGED events
    /\ UNCHANGED <<layers, clocks, status, mode, pending, awaited, compaction, scan,
                   history, collected, raced, broken>>

\* Rollback, or a Commit with no writes.
Rollback(t) ==
    /\ txns[t].state = "active"
    /\ txns' = [txns EXCEPT ![t] = Idle]
    /\ UNCHANGED <<layers, clocks, status, mode, pending, awaited, compaction, scan,
                   bounds, history, collected, raced, broken>>

Conflicts(t, w) == \E k \in w.puts \cup w.deletes : HasCommitNewerThan(k, txns[t].readSnap)

\* ErrConflict: first committer wins.
CommitRefused(t, w) ==
    /\ status = "open"
    /\ txns[t].state = "active"
    /\ ~awaited
    /\ Conflicts(t, w)
    /\ txns' = [txns EXCEPT ![t] = Idle]
    /\ UNCHANGED <<layers, clocks, status, mode, pending, awaited, compaction, scan,
                   bounds, history, collected, raced, broken>>

\* The WAL refuses a record, or the Raft log refuses the entry: the timestamp
\* is used up and nothing else happens.
CommitFails(t, w) ==
    /\ status = "open"
    /\ txns[t].state = "active"
    /\ ~awaited
    /\ ~Conflicts(t, w)
    /\ Event
    /\ nextTimestamp' = nextTimestamp + 1
    /\ txns' = [txns EXCEPT ![t] = Idle]
    /\ UNCHANGED <<layers, appliedTS, status, mode, pending, awaited, compaction, scan,
                   history, collected, raced, broken>>

Versions(e) ==
    {[key |-> k, ts |-> e.ts, op |-> "put", val |-> commits + 1] : k \in e.puts}
    \cup {[key |-> k, ts |-> e.ts, op |-> "del", val |-> Absent] : k \in e.deletes}

\* memtable.Put and Delete replace a version with the same key and timestamp.
MemtableWith(e) ==
    {v \in memtable : ~\E w \in Versions(e) : w.key = v.key /\ w.ts = v.ts} \cup Versions(e)

\* flushLocked and signalCompact: the memtable becomes the newest SSTable.
Flush(mem) ==
    /\ files' = [id \in DOMAIN files \cup {nextID} |-> IF id = nextID THEN mem ELSE files[id]]
    /\ tables' = <<[id |-> nextID, versions |-> mem]>> \o tables
    /\ nextID' = nextID + 1
    /\ memtable' = {}
    /\ signal' = TRUE
    /\ scan' = IF scan.live
               THEN [scan EXCEPT !.live = FALSE, !.layers = <<mem>> \o @]
               ELSE scan

\* The commit's versions enter the memtable, and the memtable is flushed if
\* that made it too large.
Install(e) ==
    /\ \/ memtable' = MemtableWith(e) /\ UNCHANGED <<files, tables, nextID, signal, scan>>
       \/ Flush(MemtableWith(e))
    /\ commits' = commits + 1
    /\ kv' = [k \in Key |-> IF k \in e.puts THEN commits + 1
                            ELSE IF k \in e.deletes THEN Absent ELSE kv[k]]
    /\ wrote' = [k \in Key |-> IF k \in e.puts \cup e.deletes THEN commits + 1 ELSE wrote[k]]
    /\ lostUpdate' = \/ lostUpdate
                     \/ e.local /\ \E k \in e.puts \cup e.deletes : wrote[k] > e.base

\* Txn.Commit on a single node: check, allocate, log and apply under db.mu.
Commit(t, w) ==
    /\ mode = "single"
    /\ status = "open"
    /\ txns[t].state = "active"
    /\ commits < MaxCommits
    /\ ~Conflicts(t, w)
    /\ Install([ts |-> nextTimestamp, puts |-> w.puts, deletes |-> w.deletes,
                local |-> TRUE, base |-> txns[t].base])
    /\ nextTimestamp' = nextTimestamp + 1
    /\ appliedTS' = nextTimestamp
    /\ txns' = [txns EXCEPT ![t] = Idle]
    /\ UNCHANGED <<status, mode, pending, awaited, compaction, bounds, collected, raced, broken>>

-----------------------------------------------------------------------------
(* The leader's commit.  PrepareCommit checks for conflicts and allocates  *)
(* the timestamp; the entry is applied when it has been replicated.  The   *)
(* committer keeps commitMu, and its transaction stays registered, until   *)
(* the entry is applied or leadership is lost.                             *)

EndCommitting == [t \in Txn |-> IF txns[t].state = "committing" THEN Idle ELSE txns[t]]

PrepareCommit(t, w) ==
    /\ mode = "leader"
    /\ status = "open"
    /\ ~awaited
    /\ txns[t].state = "active"
    /\ commits + Len(pending) < MaxCommits
    /\ ~Conflicts(t, w)
    /\ pending' = Append(pending, [ts |-> nextTimestamp, puts |-> w.puts, deletes |-> w.deletes,
                                   local |-> TRUE, base |-> txns[t].base])
    /\ awaited' = TRUE
    /\ nextTimestamp' = nextTimestamp + 1
    /\ raced' = (raced \/ pending # <<>>)
    /\ txns' = [txns EXCEPT ![t].state = "committing"]
    /\ UNCHANGED <<layers, appliedTS, status, mode, compaction, scan, bounds, history,
                   collected, broken>>

\* ErrMaybeCommitted: the leader stepped down and the committer stopped waiting;
\* the entry stays in the log.  (The node may then be elected again.)
GiveUp ==
    /\ awaited
    /\ Event
    /\ awaited' = FALSE
    /\ txns' = EndCommitting
    /\ UNCHANGED <<layers, clocks, status, mode, pending, compaction, scan, history,
                   collected, raced, broken>>

\* Another leader's entry reaches this node's log, with the timestamp that
\* leader allocated: one past everything in the log.
ForeignEntry(w) ==
    /\ mode = "leader"
    /\ status = "open"
    /\ ~awaited
    /\ commits + Len(pending) < MaxCommits
    /\ Event
    /\ pending' = Append(pending,
                    [ts |-> Max({nextTimestamp} \cup {pending[i].ts + 1 : i \in DOMAIN pending}),
                     puts |-> w.puts, deletes |-> w.deletes, local |-> FALSE, base |-> 0])
    /\ UNCHANGED <<layers, clocks, status, mode, txns, awaited, compaction, scan, history,
                   collected, raced, broken>>

\* ApplyEntry on the oldest entry not yet applied.
ApplyEntry ==
    /\ status = "open"
    /\ pending # <<>>
    /\ Install(Head(pending))
    /\ nextTimestamp' = Max({nextTimestamp, Head(pending).ts + 1})
    /\ appliedTS' = Max({appliedTS, Head(pending).ts})
    /\ pending' = Tail(pending)
    /\ awaited' = (awaited /\ Len(pending) > 1)
    /\ txns' = IF Len(pending) > 1 THEN txns ELSE EndCommitting
    /\ UNCHANGED <<status, mode, compaction, bounds, collected, raced, broken>>

-----------------------------------------------------------------------------
(* Scans.  SnapshotScan takes its snapshot and its layers under one lock;  *)
(* ScanNow takes the snapshot first and the layers under a second lock.    *)

\* Mutant: the snapshot is the next timestamp instead of the last applied one.
SnapshotScanAhead ==
    /\ status = "open"
    /\ scan.state = "idle"
    /\ scan' = [state |-> "pinned", snapshot |-> nextTimestamp, live |-> TRUE,
                layers |-> [i \in DOMAIN tables |-> tables[i].versions],
                view |-> kv, exact |-> TRUE]
    /\ Event
    /\ UNCHANGED <<layers, clocks, status, mode, txns, pending, awaited, compaction,
                   history, collected, raced, broken>>

SnapshotScan ==
    /\ status = "open"
    /\ scan.state = "idle"
    /\ scan' = [state |-> "pinned", snapshot |-> appliedTS, live |-> TRUE,
                layers |-> [i \in DOMAIN tables |-> tables[i].versions],
                view |-> kv, exact |-> TRUE]
    /\ Event
    /\ UNCHANGED <<layers, clocks, status, mode, txns, pending, awaited, compaction,
                   history, collected, raced, broken>>

\* A timestamp of an entry that is not applied yet is below the snapshot: the
\* scan may or may not see that entry.
ScanNow ==
    /\ status = "open"
    /\ scan.state = "idle"
    /\ scan' = [NoScan EXCEPT !.state = "snapshot", !.snapshot = nextTimestamp - 1,
                              !.view = kv, !.exact = (pending = <<>>)]
    /\ Event
    /\ UNCHANGED <<layers, clocks, status, mode, txns, pending, awaited, compaction,
                   history, collected, raced, broken>>

ScanCapture ==
    /\ status = "open"
    /\ scan.state = "snapshot"
    /\ scan' = [scan EXCEPT !.state = "pinned", !.live = TRUE,
                            !.layers = [i \in DOMAIN tables |-> tables[i].versions],
                            !.exact = @ /\ collected <= scan.snapshot]
    /\ UNCHANGED <<layers, clocks, status, mode, txns, pending, awaited, compaction, bounds,
                   history, collected, raced, broken>>

ScanClose ==
    /\ scan.state = "pinned"
    /\ scan' = NoScan
    /\ UNCHANGED <<layers, clocks, status, mode, txns, pending, awaited, compaction, bounds,
                   history, collected, raced, broken>>

-----------------------------------------------------------------------------
(* The compaction goroutine: compactLoop and tryCompactOnce.               *)

TableIDs(tabs) == {tabs[i].id : i \in DOMAIN tabs}
OutputID == compaction.inputs[1].id
Inputs == MergeLayers([i \in DOMAIN compaction.inputs |-> compaction.inputs[i].versions])
Without(id) == [i \in DOMAIN files \ {id} |-> files[i]]

\* The steps that touch none of the layers in memory.
CompactionOnly == UNCHANGED <<memtable, nextID, clocks, status, mode, txns, pending,
                              awaited, scan, history, raced>>

\* for range db.compactCh.
CompactWake ==
    /\ status # "down"
    /\ compaction.pc = "wait"
    /\ signal
    /\ signal' = FALSE
    /\ compaction' = [compaction EXCEPT !.pc = "try"]
    /\ UNCHANGED <<files, tables, bounds, collected, broken>>
    /\ CompactionOnly

\* Mutant: the newest tables are the inputs.
CompactPickNewest ==
    /\ status # "down"
    /\ compaction.pc = "try"
    /\ compaction' =
          IF status = "closing" \/ Len(tables) < CompactionTrigger
          THEN Waiting
          ELSE LET inputs == SubSeq(tables, 1, CompactionTrigger)
               IN  [compaction EXCEPT !.pc = "watermark", !.inputs = inputs,
                                      !.bottom = Min(TableIDs(inputs)) = Min(TableIDs(tables))]
    /\ UNCHANGED <<files, tables, signal, bounds, collected, broken>>
    /\ CompactionOnly

\* The oldest tables are the inputs; the output takes the number of the newest.
CompactPick ==
    /\ status # "down"
    /\ compaction.pc = "try"
    /\ compaction' =
          IF status = "closing" \/ Len(tables) < CompactionTrigger
          THEN Waiting
          ELSE LET inputs == SubSeq(tables, Len(tables) - CompactionTrigger + 1, Len(tables))
               IN  [compaction EXCEPT !.pc = "watermark", !.inputs = inputs,
                                      !.bottom = Min(TableIDs(inputs)) = Min(TableIDs(tables))]
    /\ UNCHANGED <<files, tables, signal, bounds, collected, broken>>
    /\ CompactionOnly

\* computeWatermark reads the clock under db.mu ...
CompactWatermark ==
    /\ status # "down"
    /\ compaction.pc = "watermark"
    /\ compaction' = [compaction EXCEPT !.pc = "readers", !.watermark = nextTimestamp - 1]
    /\ UNCHANGED <<files, tables, signal, bounds, collected, broken>>
    /\ CompactionOnly

\* Mutant: the registered transactions are not looked at.
CompactReadersNone ==
    /\ status # "down"
    /\ compaction.pc = "readers"
    /\ compaction' = [compaction EXCEPT !.pc = "merge"]
    /\ UNCHANGED <<files, tables, signal, bounds, collected, broken>>
    /\ CompactionOnly

\* ... and the registered transactions under activeTxnsMu.
CompactReaders ==
    /\ status # "down"
    /\ compaction.pc = "readers"
    /\ compaction' = [compaction EXCEPT
          !.pc = "merge",
          !.watermark = Min({@} \cup {txns[t].readSnap : t \in {u \in Txn : txns[u].state # "idle"}})]
    /\ UNCHANGED <<files, tables, signal, bounds, collected, broken>>
    /\ CompactionOnly

\* The merged table is written to a temporary file and renamed over the
\* newest input.
CompactWrite ==
    /\ status # "down"
    /\ compaction.pc = "merge"
    /\ files' = [i \in DOMAIN files \cup {OutputID} |->
                    IF i = OutputID
                    THEN CompactSSTables(Inputs, compaction.watermark, compaction.bottom)
                    ELSE files[i]]
    /\ compaction' = [compaction EXCEPT !.pc = "written"]
    /\ UNCHANGED <<tables, signal, bounds, collected, broken>>
    /\ CompactionOnly

\* The merge fails, or its output cannot be opened: the output path is removed,
\* which is the newest input's path.
CompactFails ==
    /\ status # "down"
    /\ compaction.pc \in {"merge", "written"}
    /\ Event
    /\ files' = Without(OutputID)
    /\ broken' = TRUE
    /\ compaction' = Waiting
    /\ UNCHANGED <<tables, signal, collected>>
    /\ CompactionOnly

\* Mutant: the output's file is removed and the others are kept.
CompactInstallSwapped ==
    /\ status = "open"
    /\ compaction.pc = "written"
    /\ tables' = Append(SubSeq(tables, 1, Len(tables) - Len(compaction.inputs)),
                        [id |-> OutputID, versions |-> files[OutputID]])
    /\ collected' = Max({collected, compaction.watermark})
    /\ compaction' = [compaction EXCEPT !.pc = "remove", !.left = {OutputID}]
    /\ UNCHANGED <<files, signal, bounds, broken>>
    /\ CompactionOnly

\* Under db.mu again: the tail of the table list is replaced by the output.
CompactInstall ==
    /\ status = "open"
    /\ compaction.pc = "written"
    /\ tables' = Append(SubSeq(tables, 1, Len(tables) - Len(compaction.inputs)),
                        [id |-> OutputID, versions |-> files[OutputID]])
    /\ collected' = Max({collected, compaction.watermark})
    /\ compaction' = [compaction EXCEPT !.pc = "remove",
                                        !.left = TableIDs(compaction.inputs) \ {OutputID}]
    /\ UNCHANGED <<files, signal, bounds, broken>>
    /\ CompactionOnly

\* The store was closed meanwhile: the output is removed.
CompactAbandon ==
    /\ status = "closing"
    /\ compaction.pc = "written"
    /\ files' = Without(OutputID)
    /\ broken' = TRUE
    /\ compaction' = Waiting
    /\ UNCHANGED <<tables, signal, bounds, collected>>
    /\ CompactionOnly

\* Mutant: one merge for each signal.
CompactRemoveOnce ==
    /\ status # "down"
    /\ compaction.pc = "remove"
    /\ IF compaction.left = {}
       THEN compaction' = Waiting /\ UNCHANGED files
       ELSE /\ files' = Without(Max(compaction.left))
            /\ compaction' = [compaction EXCEPT !.left = @ \ {Max(@)}]
    /\ UNCHANGED <<tables, signal, bounds, collected, broken>>
    /\ CompactionOnly

\* The other inputs' files are removed one by one, newest first.
CompactRemove ==
    /\ status # "down"
    /\ compaction.pc = "remove"
    /\ IF compaction.left = {}
       THEN /\ compaction' = [Waiting EXCEPT !.pc = "try"]
            /\ UNCHANGED files
       ELSE /\ files' = Without(Max(compaction.left))
            /\ compaction' = [compaction EXCEPT !.left = @ \ {Max(@)}]
    /\ UNCHANGED <<tables, signal, bounds, collected, broken>>
    /\ CompactionOnly

-----------------------------------------------------------------------------
(* Close, crash and Open.                                                  *)

Close ==
    /\ status = "open"
    /\ ~awaited
    /\ Event
    /\ status' = "closing"
    /\ UNCHANGED <<layers, clocks, mode, txns, pending, awaited, compaction, scan,
                   history, collected, raced, broken>>

\* What is left is what is on disk.
GoDown ==
    /\ status' = "down"
    /\ tables' = <<>>
    /\ nextID' = 1
    /\ nextTimestamp' = 1
    /\ appliedTS' = 0
    /\ txns' = [t \in Txn |-> Idle]
    /\ awaited' = FALSE
    /\ signal' = FALSE
    /\ compaction' = Waiting
    /\ scan' = NoScan
    /\ collected' = 0
    /\ UNCHANGED <<files, memtable, mode, pending, history, raced>>

\* compactCh is closed and drained, so the goroutine ends and Close returns.
CloseDone ==
    /\ status = "closing"
    /\ compaction.pc = "wait"
    /\ ~signal
    /\ GoDown
    /\ UNCHANGED <<bounds, broken>>

\* The output is in place of one input while others are still there.
InWindow ==
    \/ compaction.pc = "written"
    \/ compaction.pc = "remove" /\ compaction.left # {}

\* The merge dropped a tombstone.
DroppedTombstone == \E v \in Inputs : v.op = "del" /\ v \notin files[OutputID]

Crash ==
    /\ status # "down"
    /\ Event
    /\ broken' = (broken \/ (InWindow /\ DroppedTombstone))
    /\ GoDown

\* discoverSSTables: every file in the directory, by descending number.
TablesOnDisk ==
    LET nth(i) == CHOOSE id \in DOMAIN files :
                     Cardinality({j \in DOMAIN files : j >= id}) = i
    IN  [i \in 1 .. Cardinality(DOMAIN files) |-> [id |-> nth(i), versions |-> files[nth(i)]]]

\* The highest timestamp in a table's footer or in the WAL.
MaxTimestampOnDisk ==
    Max({0} \cup {v.ts : v \in memtable \cup UNION {files[id] : id \in DOMAIN files}})

\* A directory that a cut-off compaction left incomplete is not followed further:
\* RestartAlwaysFindsCommits says what it would have to hold.
Open ==
    /\ status = "down"
    /\ ~broken
    /\ status' = "open"
    /\ tables' = TablesOnDisk
    /\ nextID' = Max({0} \cup DOMAIN files) + 1
    /\ nextTimestamp' = MaxTimestampOnDisk + 1
    /\ appliedTS' = MaxTimestampOnDisk
    /\ signal' = TRUE
    /\ UNCHANGED <<files, memtable, mode, txns, pending, awaited, compaction, scan, bounds,
                   history, collected, raced, broken>>

-----------------------------------------------------------------------------
CommitNext(t, w) ==
    \/ Commit(t, w)
    \/ PrepareCommit(t, w)
    \/ CommitRefused(t, w)
    \/ CommitFails(t, w)

CompactionNext ==
    \/ CompactWake
    \/ CompactPick
    \/ CompactWatermark
    \/ CompactReaders
    \/ CompactWrite
    \/ CompactFails
    \/ CompactInstall
    \/ CompactAbandon
    \/ CompactRemove

ScanNext ==
    \/ SnapshotScan
    \/ ScanNow
    \/ ScanCapture
    \/ ScanClose

Next ==
    \/ \E t \in Txn : Begin(t) \/ Rollback(t)
    \/ \E t \in Txn, w \in Writes : CommitNext(t, w)
    \/ \E w \in Writes : ForeignEntry(w)
    \/ GiveUp
    \/ ApplyEntry
    \/ ScanNext
    \/ CompactionNext
    \/ Close
    \/ CloseDone
    \/ Crash
    \/ Open

Spec == Init /\ [][Next]_vars

-----------------------------------------------------------------------------
(* Properties.                                                             *)

Version == [key : Key, ts : Nat, op : {"put", "del"}, val : Nat]

\* Every variable of the store has its type.
TypeOK ==
    /\ \A id \in DOMAIN files : id \in Nat /\ files[id] \subseteq Version
    /\ memtable \subseteq Version
    /\ \A i \in DOMAIN tables : tables[i].id \in Nat /\ tables[i].versions \subseteq Version
    /\ nextID \in Nat /\ nextTimestamp \in Nat /\ appliedTS \in Nat
    /\ status \in {"open", "closing", "down"}
    /\ mode \in {"single", "leader"}
    /\ \A t \in Txn : txns[t].state \in {"idle", "active", "committing"}
    /\ \A i \in DOMAIN pending : pending[i].ts \in Nat
    /\ awaited \in BOOLEAN /\ signal \in BOOLEAN
    /\ compaction.pc \in {"wait", "try", "watermark", "readers", "merge", "written", "remove"}
    /\ scan.state \in {"idle", "snapshot", "pinned"}
    /\ commits \in 0 .. MaxCommits

\* A read of the latest state sees the map the commits define, and an open
\* transaction goes on reading the map as it was when it began: no flush, merge,
\* garbage collection, later commit or restart changes what either sees
\* (getAsOfSnapshot, compactSSTables, computeWatermark, Begin), unless a commit was
\* prepared over unapplied entries.
ReadersSeeTheMap ==
    status # "down" /\ ~raced =>
        /\ View(memtable, tables, nextTimestamp) = kv
        /\ \A t \in Txn : txns[t].state # "idle" =>
              View(memtable, tables, txns[t].readSnap) = txns[t].view

\* No commit overwrites a version its transaction could not see, even when the
\* version it should have conflicted with has been merged or collected away,
\* unless the commit was prepared while entries waited to be applied (Begin,
\* hasCommitNewerThanLocked, PrepareCommit).
NoLostUpdateUnlessRaced == lostUpdate => raced

\* The same with no exception: what the comment in Begin says of a transaction
\* that misses a commit, whatever the keys.
NoLostUpdate == ~lostUpdate

\* A scan yields the map as it was when its snapshot was taken, whatever is
\* committed, flushed or merged while it runs.  A ScanNow whose snapshot was
\* overtaken by a merge before it captured its layers is the exception (Scan,
\* SnapshotScan, ScanNow, mergeIterator, Iterator.Next).
ScansAreSnapshots ==
    scan.state = "pinned" /\ scan.exact /\ ~raced =>
        ScanView(ScanLayers, scan.snapshot) = scan.view

\* A restart at any moment finds every commit, except inside the window in which
\* the merged table and its inputs are both on disk (tryCompactOnce, OpenWith).
RestartFindsCommits ==
    raced \/ broken \/ InWindow
        \/ View(memtable, TablesOnDisk, MaxTimestampOnDisk + 1) = kv

\* The same with no exception.
RestartAlwaysFindsCommits ==
    raced \/ View(memtable, TablesOnDisk, MaxTimestampOnDisk + 1) = kv

\* Both searches find the newest version at or below the snapshot in every
\* table the store builds, whatever block it is in, and the newest of all when
\* they seek for the largest timestamp, as the conflict check does
\* (Reader.GetAsOf, Memtable.GetAsOf, NewestVersionTS).
SearchFindsNewest ==
    \A k \in Key, snapshot \in (0 .. nextTimestamp) \cup {MaxTimestamp} :
        /\ MemtableSeek(memtable, k, snapshot) = NewestAsOf(memtable, k, snapshot)
        /\ \A i \in DOMAIN tables :
              ReaderSeek(tables[i].versions, k, snapshot)
                  = NewestAsOf(tables[i].versions, k, snapshot)

\* s is the end of t.
IsTail(s, t) ==
    /\ Len(s) <= Len(t)
    /\ \A i \in 1 .. Len(s) : s[i] = t[Len(t) - Len(s) + i]

\* The inputs a merge picked are still the oldest tables, in the same order, when
\* it comes back for them, however many flushes came in between: neither
\* "sstables shrank unexpectedly" nor "tail IDs changed unexpectedly" is reached
\* (tryCompactOnce).
InputsStayTheTail ==
    compaction.pc \in {"watermark", "readers", "merge", "written"} =>
        IsTail(compaction.inputs, tables)

\* Compaction does not sleep through a flush: with enough tables to merge, the
\* goroutine is at work or a signal waits for it, unless a merge has failed
\* (signalCompact, compactLoop).
NoLostWakeup ==
    status = "open" /\ Len(tables) >= CompactionTrigger /\ compaction.pc = "wait" =>
        signal \/ broken

=============================================================================
