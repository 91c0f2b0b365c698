------------------------------- MODULE Store -------------------------------
(***************************************************************************)
(* The durable side of internal/db: the order in which a commit, a         *)
(* replicated apply and a flush write the WAL, the tables, applied.base    *)
(* and the session table, against a crash or an I/O error at every step,   *)
(* and what OpenWith makes of the files it finds.                          *)
(*                                                                         *)
(* A store is either the single-node database (Txn.Commit) or the state    *)
(* machine of a Raft node (ApplyEntry and ApplyControlEntry, driven by     *)
(* applyCommitted).  A version is a key with its commit timestamp; values, *)
(* tombstones and conflict checks are not told apart here.  Every write to *)
(* the WAL is synced (SyncOnWrite, the default).                           *)
(***************************************************************************)
EXTENDS Integers, Sequences, FiniteSets

CONSTANTS
    Key,                    \* user keys, numbers in the order of sort.Strings
    WriteSets,              \* the sets of keys a transaction may write
    Session,                \* client sessions
    NoSession,              \* the empty session of a plain write
    Kinds,                  \* TRUE: the store of a Raft node, FALSE: a single node's
    MaxIndex,               \* bound on entries of the Raft log
    MaxCommits,             \* bound on commits of a single node
    MaxSeq,                 \* bound on sequence numbers of a session
    MaxCrashes, MaxFaults   \* bounds on crashes and on I/O errors

ASSUME StoreAssumption ==
    /\ Key \subseteq Nat /\ IsFiniteSet(Key)
    /\ WriteSets \subseteq SUBSET Key /\ {} \notin WriteSets
    /\ NoSession \notin Session
    /\ Kinds \subseteq BOOLEAN

ASSUME StoreBounds ==
    /\ MaxIndex \in Nat /\ MaxCommits \in Nat
    /\ MaxSeq \in Nat /\ MaxCrashes \in Nat /\ MaxFaults \in Nat

VARIABLES
    replicated,     \* which of Kinds the store is
    wal,            \* disk: the records of littledb.log
    tables,         \* disk: the SSTables
    base,           \* disk: applied.base
    sessionsFile,   \* disk: the session table of the last flush
    raftBase,       \* disk: baseIndex of the Raft log
    pc,             \* what the holder of db.mu does next; "down" when stopped
    op,             \* the commit or apply in progress
    memtable, frozen, sstables, nextID,
    nextTimestamp, appliedIndex, sessions, walOpen,
    lastApplied,    \* of the Raft node
    entries,        \* history: what was committed by Raft, or locally begun
    acked,          \* history: versions whose caller was told nil
    logged,         \* history: the highest index with a marker in the WAL
    cutOff,         \* history: the process stopped between the removal of a WAL
                    \* and the end of that flush
    crashes, faults

disk == <<wal, tables, base, sessionsFile, raftBase>>
memory == <<memtable, frozen, sstables, nextID, nextTimestamp, appliedIndex,
            sessions, walOpen, lastApplied>>
history == <<entries, acked, logged, cutOff>>
vars == <<replicated, disk, pc, op, memory, history, crashes, faults>>

-----------------------------------------------------------------------------
(* Records, entries and versions.                                            *)

NoKey == 0

Data(k, ts) ==
    [op |-> "data", ts |-> ts, key |-> k, session |-> NoSession, seq |-> 0]
Marker(ts, s, q) ==
    [op |-> "commit", ts |-> ts, key |-> NoKey, session |-> s, seq |-> q]

\* What an append that failed or was cut off leaves behind.
Torn == [op |-> "torn", ts |-> 0, key |-> NoKey, session |-> NoSession, seq |-> 0]

Entry(kind, ts, keys, s, q) ==
    [kind |-> kind, ts |-> ts, keys |-> keys, session |-> s, seq |-> q]

Versions(keys, ts) == {[key |-> k, ts |-> ts] : k \in keys}

\* Whether the i-th entry is the first with its session and sequence number:
\* the others are retries.
Effective(i) ==
    LET e == entries[i]
    IN  \/ e.session = NoSession
        \/ \A j \in 1 .. i - 1 :
             entries[j].session = e.session => entries[j].seq < e.seq

Largest(S) == IF S = {} THEN 0 ELSE CHOOSE x \in S : \A y \in S : y <= x
Smallest(S) == CHOOSE x \in S : \A y \in S : x <= y

-----------------------------------------------------------------------------
(* Recovery: what OpenWith reads from the files.                             *)

\* wal.recover truncates the file at the first record that does not decode.
ValidPrefix(w) ==
    LET bad == {i \in DOMAIN w : w[i].op = "torn"}
    IN  IF bad = {} THEN w ELSE SubSeq(w, 1, Smallest(bad) - 1)

Markers(w) == {i \in DOMAIN w : w[i].op = "commit"}

\* The marker that drains the record at i from the replay buffer.
DrainedBy(w, i) == {j \in Markers(w) : i < j /\ ~ \E m \in Markers(w) : i < m /\ m < j}

\* Replay returns an error when a marker drains a record of another timestamp.
ReplayFails(w) ==
    \E i \in DOMAIN w : /\ w[i].op = "data"
                        /\ \E j \in DrainedBy(w, i) : w[i].ts # w[j].ts

\* Mutant: records without a marker are applied at the end of the scan.
ReplayedAll(w) == {[key |-> w[i].key, ts |-> w[i].ts] :
                     i \in {d \in DOMAIN w : w[d].op = "data"}}
Replayed(w) ==
    {[key |-> w[i].key, ts |-> w[i].ts] :
       i \in {d \in DOMAIN w : w[d].op = "data" /\ DrainedBy(w, d) # {}}}

Stored == UNION {t.versions : t \in tables}

\* The versions a database opened from these files would read.
Recoverable == Replayed(ValidPrefix(wal)) \cup Stored

MaxTimestamp ==
    LET w == ValidPrefix(wal)
    IN  Largest({w[i].ts : i \in DOMAIN w} \cup {v.ts : v \in Stored})

Footer == Largest({t.applied : t \in tables})

\* Mutant: the markers are counted on top of the footer.
RecoveredSum == Footer + Cardinality(Markers(ValidPrefix(wal)))
\* Mutant: the last marker is not counted.
RecoveredShort == Largest({base + Cardinality(Markers(ValidPrefix(wal))) - 1, Footer})
RecoveredApplied ==
    Largest({base + Cardinality(Markers(ValidPrefix(wal))), Footer})

\* Mutant: the file of the last flush is not read.
SessionsOfWal ==
    LET w == ValidPrefix(wal)
    IN  [s \in Session |->
           Largest({w[i].seq : i \in {m \in Markers(w) : w[m].session = s}})]

\* The file of the last flush, and the markers since on top of it.
RecoveredSessions ==
    LET w == ValidPrefix(wal)
    IN  [s \in Session |->
           Largest({sessionsFile[s]}
                     \cup {w[i].seq : i \in {m \in Markers(w) : w[m].session = s}})]

\* Mutant: the number of the newest table is taken again.
ReusedID == Largest({t.id : t \in tables})
RecoveredNextID == Largest({t.id : t \in tables}) + 1

\* The versions the running database reads.
View == memtable \cup frozen \cup UNION {t.versions : t \in sstables}

-----------------------------------------------------------------------------

NoOp == [idx |-> 0, ts |-> 0, keys |-> {}, left |-> {},
         session |-> NoSession, seq |-> 0]

Init ==
    /\ replicated \in Kinds
    /\ wal = <<>> /\ tables = {} /\ base = 0 /\ raftBase = 0
    /\ sessionsFile = [s \in Session |-> 0]
    /\ pc = "ready" /\ op = NoOp
    /\ memtable = {} /\ frozen = {} /\ sstables = {} /\ nextID = 1
    /\ nextTimestamp = 1 /\ appliedIndex = 0 /\ lastApplied = 0
    /\ sessions = [s \in Session |-> 0]
    /\ walOpen = TRUE
    /\ entries = <<>> /\ acked = {} /\ logged = 0 /\ cutOff = FALSE
    /\ crashes = 0 /\ faults = 0

-----------------------------------------------------------------------------
(* Commits and applies.                                                      *)

Begin(idx, ts, keys, s, q) ==
    op' = [idx |-> idx, ts |-> ts, keys |-> keys, left |-> keys,
           session |-> s, seq |-> q]

\* Txn.Commit on a single node, after its conflict check.
StartCommit(keys) ==
    /\ ~ replicated
    /\ pc = "ready"
    /\ Len(entries) < MaxCommits
    /\ Begin(0, nextTimestamp, keys, NoSession, 0)
    /\ nextTimestamp' = nextTimestamp + 1
    /\ entries' = Append(entries, Entry("data", nextTimestamp, keys, NoSession, 0))
    /\ pc' = "log"
    /\ UNCHANGED <<disk, memtable, frozen, sstables, nextID, appliedIndex,
                   sessions, walOpen, lastApplied, acked, logged, cutOff,
                   crashes, faults>>

\* Mutant: no entry is recognised as a retry.
NeverDuplicate(e) == FALSE
IsDuplicate(e) == e.session # NoSession /\ e.seq <= sessions[e.session]

\* applyCommitted takes the entry after lastApplied.  Raft commits it now,
\* unless it was committed before; one timestamp is minted for each.
NextEntry(e) ==
    LET idx == lastApplied + 1
    IN  IF idx <= Len(entries)
        THEN e = entries[idx] /\ UNCHANGED entries
        ELSE /\ idx <= MaxIndex /\ e.ts = idx
             /\ entries' = Append(entries, e)

\* ApplyEntry: a data entry or a no-op; a retry keeps only its marker.
StartApply(e) ==
    /\ replicated
    /\ pc = "ready"
    /\ NextEntry(e) /\ e.kind = "data"
    /\ Begin(lastApplied + 1, e.ts, IF IsDuplicate(e) THEN {} ELSE e.keys,
             e.session, e.seq)
    /\ pc' = "log"
    /\ UNCHANGED <<disk, memory, acked, logged, cutOff, crashes, faults>>

\* ApplyControlEntry mints a timestamp of its own.
StartApplyControl(e) ==
    /\ replicated
    /\ pc = "ready"
    /\ NextEntry(e) /\ e.kind = "config"
    /\ Begin(lastApplied + 1, nextTimestamp, {}, NoSession, 0)
    /\ nextTimestamp' = nextTimestamp + 1
    /\ pc' = "log"
    /\ UNCHANGED <<disk, memtable, frozen, sstables, nextID, appliedIndex,
                   sessions, walOpen, lastApplied, acked, logged, cutOff,
                   crashes, faults>>

\* The record that is appended next: data in key order, then the marker.
NextRecord ==
    IF op.left # {} THEN Data(Smallest(op.left), op.ts)
                    ELSE Marker(op.ts, op.session, op.seq)

AppendData ==
    /\ pc = "log" /\ walOpen /\ op.left # {}
    /\ wal' = Append(wal, NextRecord)
    /\ op' = [op EXCEPT !.left = @ \ {Smallest(op.left)}]
    /\ UNCHANGED <<tables, base, sessionsFile, raftBase, pc, memory, history,
                   crashes, faults>>

AppendMarker ==
    /\ pc = "log" /\ walOpen /\ op.left = {}
    /\ wal' = Append(wal, NextRecord)
    /\ logged' = Largest({logged, op.idx})
    /\ pc' = "logged"
    /\ UNCHANGED <<tables, base, sessionsFile, raftBase, op, memory, entries,
                   acked, cutOff, crashes, faults>>

\* The memtable, the session table and the counters follow the WAL.  A
\* memtable over its limit is flushed before the call returns.
ApplyLogged ==
    /\ pc = "logged"
    /\ memtable' = memtable \cup Versions(op.keys, op.ts)
    /\ sessions' = IF op.session # NoSession /\ op.seq > sessions[op.session]
                   THEN [sessions EXCEPT ![op.session] = op.seq]
                   ELSE sessions
    /\ nextTimestamp' = Largest({nextTimestamp, op.ts + 1})
    /\ appliedIndex' = Largest({appliedIndex, op.idx})
    /\ \/ pc' = "return"
       \/ pc' = "freeze" /\ memtable' # {}
    /\ UNCHANGED <<disk, op, frozen, sstables, nextID, walOpen, lastApplied,
                   history, crashes, faults>>

\* The caller is told nil; a Raft node moves lastApplied and may compact its log.
Return ==
    /\ pc = "return"
    /\ acked' = acked \cup Versions(op.keys, op.ts)
    /\ lastApplied' = IF replicated THEN op.idx ELSE lastApplied
    /\ raftBase' \in {raftBase} \cup (IF replicated THEN {op.idx} ELSE {})
    /\ pc' = "ready" /\ op' = NoOp
    /\ UNCHANGED <<wal, tables, base, sessionsFile, memtable, frozen, sstables,
                   nextID, nextTimestamp, appliedIndex, sessions, walOpen,
                   entries, logged, cutOff, crashes, faults>>

-----------------------------------------------------------------------------
(* flushLocked, one action for each step that reaches the disk.              *)

FreezeMemtable ==
    /\ pc = "freeze"
    /\ frozen' = memtable /\ memtable' = {}
    /\ pc' = "table"
    /\ UNCHANGED <<disk, op, sstables, nextID, nextTimestamp, appliedIndex,
                   sessions, walOpen, lastApplied, history, crashes, faults>>

\* Mutant: the footer records the index before this entry.
StaleFooterTable == [id |-> nextID, versions |-> frozen, applied |-> lastApplied]
FlushedTable == [id |-> nextID, versions |-> frozen, applied |-> appliedIndex]

\* The rename in Finish replaces whatever file has this name.
WithTable(t) == {u \in tables : u.id # t.id} \cup {t}

WriteTable ==
    /\ pc = "table"
    /\ tables' = WithTable(FlushedTable)
    /\ pc' = "truncate"
    /\ UNCHANGED <<wal, base, sessionsFile, raftBase, op, memory, history,
                   crashes, faults>>

\* Mutant: the new table is not put in front of the others.
SameTables == sstables
WithNewTable == sstables \cup {FlushedTable}

TruncateWal ==
    /\ pc = "truncate"
    /\ wal' = <<>>
    /\ sstables' = WithNewTable
    /\ frozen' = {} /\ nextID' = nextID + 1
    /\ pc' = "base"
    /\ UNCHANGED <<tables, base, sessionsFile, raftBase, op, memtable,
                   nextTimestamp, appliedIndex, sessions, walOpen, lastApplied,
                   history, crashes, faults>>

WriteAppliedBase ==
    /\ pc = "base"
    /\ base' = appliedIndex
    /\ pc' = "sessions"
    /\ UNCHANGED <<wal, tables, sessionsFile, raftBase, op, memory, history,
                   crashes, faults>>

WriteSessionsFile ==
    /\ pc = "sessions"
    /\ sessionsFile' = sessions
    /\ pc' = "return"
    /\ UNCHANGED <<wal, tables, base, raftBase, op, memory, history, crashes,
                   faults>>

-----------------------------------------------------------------------------
(* I/O errors, crashes and restarts.                                         *)

MemoryLost ==
    /\ memtable' = {} /\ frozen' = {} /\ sstables' = {} /\ nextID' = 1
    /\ nextTimestamp' = 1 /\ appliedIndex' = 0 /\ lastApplied' = 0
    /\ sessions' = [s \in Session |-> 0]
    /\ walOpen' = FALSE

\* The call returns an error.  A single-node database goes on; applyCommitted
\* panics.
ReturnError(open) ==
    /\ op' = NoOp
    /\ IF replicated
       THEN pc' = "down" /\ MemoryLost
       ELSE /\ pc' = "ready" /\ walOpen' = open
            /\ UNCHANGED <<memtable, frozen, sstables, nextID, nextTimestamp,
                           appliedIndex, sessions, lastApplied>>

Fault ==
    /\ faults < MaxFaults
    /\ faults' = faults + 1

\* A failed write leaves nothing, a torn record, or (when the sync failed) all
\* of the record, and the next append lands behind it.
AppendFails ==
    /\ pc = "log" /\ walOpen
    /\ Fault
    /\ wal' \in {wal, Append(wal, Torn), Append(wal, NextRecord)}
    /\ ReturnError(TRUE)
    /\ logged' = IF wal' = Append(wal, NextRecord) /\ op.left = {}
                 THEN Largest({logged, op.idx}) ELSE logged
    /\ UNCHANGED <<tables, base, sessionsFile, raftBase, entries, acked, cutOff,
                   crashes>>

AppendToClosedWal ==
    /\ pc = "log" /\ ~ walOpen
    /\ ReturnError(FALSE)
    /\ UNCHANGED <<disk, history, crashes, faults>>

\* NewWriter, Add or Finish fails before the rename; or the sync of the
\* directory or OpenReader fails after it.
TableFails ==
    /\ pc = "table"
    /\ Fault
    /\ tables' \in {tables, WithTable(FlushedTable)}
    /\ ReturnError(walOpen)
    /\ UNCHANGED <<wal, base, sessionsFile, raftBase, history, crashes>>

\* Close or Remove fails, or OpenWith after the removal.  The WAL in memory is
\* closed in each case.
TruncateFails ==
    /\ pc = "truncate"
    /\ Fault
    /\ wal' \in {wal, <<>>}
    /\ cutOff' = (cutOff \/ wal' = <<>>)
    /\ ReturnError(FALSE)
    /\ UNCHANGED <<tables, base, sessionsFile, raftBase, entries, acked, logged,
                   crashes>>

AppliedBaseFails ==
    /\ pc = "base"
    /\ Fault
    /\ base' \in {base, appliedIndex}
    /\ cutOff' = TRUE
    /\ ReturnError(walOpen)
    /\ UNCHANGED <<wal, tables, sessionsFile, raftBase, entries, acked, logged, crashes>>

SessionsFileFails ==
    /\ pc = "sessions"
    /\ Fault
    /\ sessionsFile' \in {sessionsFile, sessions}
    /\ cutOff' = TRUE
    /\ ReturnError(walOpen)
    /\ UNCHANGED <<wal, tables, base, raftBase, entries, acked, logged, crashes>>

Crash ==
    /\ pc # "down"
    /\ crashes < MaxCrashes
    /\ crashes' = crashes + 1
    /\ wal' \in {wal} \cup (IF pc = "log" /\ walOpen THEN {Append(wal, Torn)} ELSE {})
    /\ cutOff' = (cutOff \/ pc \in {"base", "sessions"})
    /\ pc' = "down" /\ op' = NoOp /\ MemoryLost
    /\ UNCHANGED <<tables, base, sessionsFile, raftBase, entries, acked, logged,
                   faults>>

\* buildNode refuses an index below the base of the Raft log.
CoversRaftBase == replicated => RecoveredApplied >= raftBase

Open ==
    /\ pc = "down"
    /\ ~ ReplayFails(ValidPrefix(wal)) /\ CoversRaftBase
    /\ wal' = ValidPrefix(wal)
    /\ memtable' = Replayed(ValidPrefix(wal)) /\ frozen' = {}
    /\ sstables' = tables
    /\ nextID' = RecoveredNextID
    /\ nextTimestamp' = MaxTimestamp + 1
    /\ appliedIndex' = RecoveredApplied
    /\ lastApplied' = IF replicated THEN RecoveredApplied ELSE 0
    /\ sessions' = RecoveredSessions
    /\ walOpen' = TRUE
    /\ pc' = "ready"
    /\ UNCHANGED <<tables, base, sessionsFile, raftBase, op, history, crashes,
                   faults>>

\* What Raft may commit at the next index: a configuration, a no-op or a plain
\* write, or a session's next command or a retry of one it sent before.
Entries ==
    LET ts == lastApplied + 1
    IN  {Entry("config", ts, {}, NoSession, 0)}
          \cup {Entry("data", ts, keys, NoSession, 0) : keys \in WriteSets \cup {{}}}
          \cup {Entry("data", ts, keys, s, q) :
                  keys \in WriteSets, s \in Session, q \in 1 .. MaxSeq}

Next ==
    /\ UNCHANGED replicated
    /\ \/ \E keys \in WriteSets : StartCommit(keys)
       \/ \E e \in Entries : StartApply(e) \/ StartApplyControl(e)
       \/ AppendData \/ AppendMarker \/ ApplyLogged \/ Return
       \/ FreezeMemtable \/ WriteTable \/ TruncateWal
       \/ WriteAppliedBase \/ WriteSessionsFile
       \/ AppendFails \/ AppendToClosedWal \/ TableFails \/ TruncateFails
       \/ AppliedBaseFails \/ SessionsFileFails
       \/ Crash \/ Open

Spec == Init /\ [][Next]_vars

-----------------------------------------------------------------------------
(* Properties.                                                               *)

Version == [key : Key, ts : Nat]
Table == [id : Nat, versions : SUBSET Version, applied : Nat]
Record == [op : {"data", "commit", "torn"}, ts : Nat, key : Key \cup {NoKey},
           session : Session \cup {NoSession}, seq : Nat]

TypeOK ==
    /\ wal \in Seq(Record) /\ tables \in SUBSET Table
    /\ base \in Nat /\ raftBase \in Nat
    /\ sessionsFile \in [Session -> Nat]
    /\ pc \in {"down", "ready", "log", "logged", "freeze", "table", "truncate",
               "base", "sessions", "return"}
    /\ op \in [idx : Nat, ts : Nat, keys : SUBSET Key, left : SUBSET Key,
               session : Session \cup {NoSession}, seq : Nat]
    /\ memtable \in SUBSET Version /\ frozen \in SUBSET Version
    /\ sstables \in SUBSET Table /\ nextID \in Nat
    /\ nextTimestamp \in Nat /\ appliedIndex \in Nat /\ lastApplied \in Nat
    /\ sessions \in [Session -> Nat]
    /\ walOpen \in BOOLEAN
    /\ entries \in Seq([kind : {"data", "config"}, ts : Nat, keys : SUBSET Key,
                        session : Session \cup {NoSession}, seq : Nat])
    /\ acked \in SUBSET Version /\ logged \in Nat /\ cutOff \in BOOLEAN
    /\ crashes \in Nat /\ faults \in Nat

\* "when the call returns nil, the record is on disk": whatever step of a later
\* commit or flush is cut off, Open reads every acknowledged version back.
AckedIsDurable == acked \subseteq Recoverable

\* The running database reads every acknowledged version, while a flush moves
\* it from the memtable to the frozen one to a table, and after every Open.  (A
\* single-node database that goes on after an error may not.)
AckedIsReadable ==
    (replicated \/ faults = 0) /\ pc # "down" => acked \subseteq View

\* A transaction is recovered whole or not at all: what a successful replay
\* yields is a union of commits.
CommitsAreAtomic ==
    ~ ReplayFails(ValidPrefix(wal)) =>
        \A v \in Recoverable :
            \E i \in DOMAIN entries :
                LET vs == Versions(entries[i].keys, entries[i].ts)
                IN  v \in vs /\ vs \subseteq Recoverable

\* A restarted node never skips an entry: all entries up to the index it
\* resumes after have taken effect on disk.
NothingIsSkipped ==
    replicated =>
        /\ RecoveredApplied <= logged
        /\ \A i \in 1 .. RecoveredApplied :
             Effective(i) => Versions(entries[i].keys, entries[i].ts) \subseteq Recoverable

\* max(footer, base+walCount) is "correct in every crash window": the index
\* that Open reconstructs is that of the last entry whose marker was written.
RecoveryIsExact == replicated => RecoveredApplied = logged

\* A retry of a session's command never takes effect a second time.
ExactlyOnce ==
    \A i \in DOMAIN entries :
        ~ Effective(i) =>
            Versions(entries[i].keys, entries[i].ts) \cap (Recoverable \cup View) = {}

\* "Three crash windows, all recoverable": whatever a crash leaves in the WAL,
\* replay accepts it.
ReplaySucceeds == ~ ReplayFails(ValidPrefix(wal))

-----------------------------------------------------------------------------
(* What a stop between the removal of the WAL and the end of its flush, or an *)
(* I/O error of a single-node database, is known to break holds without them. *)

\* An index that is too low is only recovered after such a stop.
ExactUnlessCutOff == cutOff \/ RecoveryIsExact

\* A retry only takes effect again after such a stop.
OnceUnlessCutOff == cutOff \/ ExactlyOnce

\* A replicated store applies an entry again under its old timestamp, so that
\* the records a crash left are drained by a marker that fits them.
ReplaysUnlessCutOff == replicated => cutOff \/ ReplaySucceeds

\* Every acknowledged version is on disk: on a replica always, and in a
\* single-node database until a commit or a flush has returned an error.
KeptUntilError == replicated \/ faults = 0 => AckedIsDurable

\* The files of a replicated store implement AppliedLog: appending a marker
\* applies an entry, and every other step, a flush, a crash or a restart
\* included, leaves what Open would read as it was, until a stop as above.
Replica == INSTANCE AppliedLog
           WITH log <- entries, applied <- RecoveredApplied, state <- Recoverable
ImplementsAppliedLog ==
    Replica!ALInit /\ [][~replicated \/ cutOff' \/ [Replica!ALNext]_(Replica!alvars)]_vars
=============================================================================
