------------------------------ MODULE Snapshot ------------------------------
(***************************************************************************)
(* A leader brings a follower up to date, by log entries or by a snapshot: *)
(* log compaction, InstallSnapshot with its staged swap, and the restart   *)
(* that finishes a swap that was cut off (internal/cluster/install.go,     *)
(* replication.go, raftlogfile.go, config.go).                             *)
(*                                                                         *)
(* Leader and follower share one history, the constant Log: elections and  *)
(* conflicting entries are the subject of module Raft.  An entry is named  *)
(* by its index.  Durable state is kept file by file, and the follower can *)
(* crash between any two changes of a file.  Every file that the code      *)
(* writes as tmp, fsync, rename is replaced in one step.                   *)
(***************************************************************************)
EXTENDS Integers, Sequences, SequencesExt

CONSTANTS
    Log,                 \* the history: records with kind, session and seq
    SnapshotThreshold,   \* cfg.SnapshotThreshold
    MaxEvents            \* bound: crashes, disk errors, timeouts, losses, elections

ASSUME SnapshotAssumption ==
    /\ Log \in Seq([kind : {"data", "config"}, session : Nat, seq : Nat])
    /\ SnapshotThreshold \in Nat \ {0}

VARIABLES
    last, applied, base,   \* the leader's log: last entry, last applied, compacted up to
    next, match,           \* nextIndex and matchIndex of the follower
    sender,                \* sendLoop for the follower
    toFollower, toLeader,  \* the two channels
    db,                    \* disk: the data directory
    staged,                \* disk: raft/staged-db
    stagedConfig,          \* disk: raft/install.config
    marker,                \* disk: raft/install.marker
    config,                \* disk: raft/config
    logFile,               \* disk: raft/raft.log
    node,                  \* the follower's memory
    events,                \* how many there were, for the bound
    \* History, read by no step of the program:
    torn,       \* a session table newer than the data was sent
    late,       \* a reply was taken for that of a later round
    leftover,   \* a disk error left the marker of an install that is over
    broken      \* a disk error left log file and memory apart, or a parked node answered

leader == <<last, applied, base, next, match, sender>>
disk == <<db, staged, stagedConfig, marker, config, logFile>>
channels == <<toFollower, toLeader>>
flags == <<torn, late, leftover, broken>>
vars == <<leader, channels, disk, node, events, flags>>

-----------------------------------------------------------------------------
(* What the history defines.                                               *)

None == -1
Sessions == {Log[i].session : i \in DOMAIN Log} \ {0}

\* The configuration in force after entry i, named by the entry that set it
\* (0 is the one the cluster started with).
ConfigAt(i) == Max({0} \cup {j \in 1 .. i : Log[j].kind = "config"})

\* ApplyEntry and ApplyControlEntry on a store: the index always moves, a command
\* of a session takes effect once.
Apply(store, i) ==
    LET e == Log[i]
        duplicate == e.session # 0 /\ e.seq <= store.sessions[e.session]
    IN  IF e.kind = "config" \/ duplicate THEN [store EXCEPT !.index = i]
        ELSE [index |-> i, data |-> store.data \cup {i},
              sessions |-> IF e.session = 0 THEN store.sessions
                           ELSE [store.sessions EXCEPT ![e.session] = e.seq]]

EmptyStore == [index |-> 0, data |-> {}, sessions |-> [s \in Sessions |-> 0]]

\* A directory that is not there, and one in which files are missing.
NoStore == [EmptyStore EXCEPT !.index = None - 1]
Partial == [EmptyStore EXCEPT !.index = None]

\* The store after the first i entries.
StoreAt == LET st[i \in 0 .. Len(Log)] ==
                   IF i = 0 THEN EmptyStore ELSE Apply(st[i - 1], i)
           IN  st

-----------------------------------------------------------------------------
(* The Raft log file.  A frame is the index of its entry, or Torn.         *)

Torn == None
EmptyLog(b) == [base |-> b, frames |-> <<>>]

\* load: the frames up to the first that is cut short.
Load(file) ==
    LET bad == {i \in DOMAIN file.frames : file.frames[i] = Torn}
    IN  IF bad = {} THEN file.frames ELSE SubSeq(file.frames, 1, Min(bad) - 1)

AppendFrames(file, entries) == [file EXCEPT !.frames = @ \o entries]

\* compact: a new file with the entries after the new base.
Compact(b, survivors) == [base |-> b, frames |-> survivors]

LastIndex(lg) == lg.base + Len(lg.entries)

\* deriveConfigLocked and configAsOfLocked: the latest configuration entry among
\* those given, or the base configuration.
LatestConfig(entries, baseConfig) ==
    LET found == {i \in DOMAIN entries : Log[entries[i]].kind = "config"}
    IN  IF found = {} THEN baseConfig ELSE entries[Max(found)]

-----------------------------------------------------------------------------
Idle == [pc |-> "idle", upto |-> 0, store |-> EmptyStore]

\* A node that is down has no memory.
Down == [pc |-> "down", installing |-> FALSE, base |-> 0, entries |-> <<>>, commit |-> 0,
         applied |-> 0, baseConfig |-> 0, config |-> 0, attached |-> TRUE,
         msg |-> <<>>]

Init ==
    /\ last = 0 /\ applied = 0 /\ base = 0
    /\ next = 1 /\ match = 0
    /\ sender = Idle
    /\ toFollower = <<>> /\ toLeader = <<>>
    /\ db = EmptyStore
    /\ staged = NoStore /\ stagedConfig = None /\ marker = None
    /\ config = 0
    /\ logFile = EmptyLog(0)
    /\ node = [Down EXCEPT !.pc = "run"]
    /\ events = 0
    /\ torn = FALSE /\ late = FALSE /\ leftover = FALSE /\ broken = FALSE

Event == events < MaxEvents /\ events' = events + 1

-----------------------------------------------------------------------------
(* The leader.  What the rest of the cluster does to it is that its log    *)
(* and its applied index grow, and that it may be replaced.                *)

Propose ==
    /\ last < Len(Log)
    /\ last' = last + 1
    /\ UNCHANGED <<applied, base, next, match, sender, channels, disk, node, events, flags>>

\* maybeCompactLocked.
CompactedBase(a) == IF last - base >= SnapshotThreshold THEN a ELSE base

LeaderApply ==
    /\ applied < last
    /\ applied' = applied + 1
    /\ base' = CompactedBase(applied + 1)
    /\ UNCHANGED <<last, next, match, sender, channels, disk, node, events, flags>>

\* Another node becomes leader, which has compacted up to b; messages of the old
\* one are refused for their term, and the reply to one goes to the old leader.
NewLeader(b) ==
    /\ Event
    /\ b <= applied
    /\ base' = b
    /\ next' = last + 1
    /\ match' = 0
    /\ sender' = Idle
    /\ toFollower' = <<>> /\ toLeader' = <<>>
    /\ node' = [node EXCEPT !.msg = [i \in DOMAIN @ |-> [@[i] EXCEPT !.live = FALSE]]]
    /\ UNCHANGED <<last, applied, disk, flags>>

\* A message may be lost on its way.
Send(msg) ==
    \/ toFollower' = Append(toFollower, msg) /\ UNCHANGED events
    \/ toFollower' = toFollower /\ Event

\* sendLoop: the entries the follower lacks (none, in a heartbeat), or a snapshot
\* when the leader no longer has them.
SendAppend ==
    /\ sender.pc = "idle"
    /\ next - 1 >= base
    /\ sender' = [Idle EXCEPT !.pc = "append", !.upto = last]
    /\ Send([type |-> "append", current |-> TRUE, live |-> TRUE, prev |-> next - 1,
             upto |-> last, commit |-> applied])
    /\ UNCHANGED <<last, applied, base, next, match, toLeader, disk, node, flags>>

\* sendSnapshot: SnapshotScan pins index and data ...
SnapshotScan ==
    /\ sender.pc = "idle"
    /\ next - 1 < base
    /\ sender' = [Idle EXCEPT !.pc = "sessions", !.store = StoreAt[applied]]
    /\ UNCHANGED <<last, applied, base, next, match, channels, disk, node, events, flags>>

\* ... SessionTable reads the sessions under a lock of its own ...
SessionTable ==
    /\ sender.pc = "sessions"
    /\ sender' = [sender EXCEPT !.pc = "send", !.store.sessions = StoreAt[applied].sessions]
    /\ UNCHANGED <<last, applied, base, next, match, channels, disk, node, events, flags>>

\* ... and the rest is read from the log, unless it was compacted further.
SendSnapshot ==
    /\ sender.pc = "send"
    /\ IF sender.store.index < base
       THEN sender' = Idle /\ UNCHANGED <<toFollower, events, torn>>
       ELSE /\ sender' = [sender EXCEPT !.pc = "snapshot"]
            /\ Send([type |-> "snapshot", current |-> TRUE, live |-> TRUE,
                     store |-> sender.store, config |-> ConfigAt(sender.store.index)])
            /\ torn' = (torn \/ sender.store # StoreAt[sender.store.index])
    /\ UNCHANGED <<last, applied, base, next, match, toLeader, disk, node, late, leftover, broken>>

\* The first reply in the channel is taken for the reply to this round.
\* (onAppendSuccessLocked, onAppendRejectLocked, and the end of sendSnapshot.)
Receive ==
    /\ sender.pc \in {"append", "snapshot"}
    /\ toLeader # <<>>
    /\ toLeader' = Tail(toLeader)
    /\ sender' = Idle
    /\ late' = (late \/ ~Head(toLeader).current)
    /\ LET reply == Head(toLeader)
           got   == IF sender.pc = "append" THEN sender.upto ELSE sender.store.index
       IN  IF reply.success
           THEN /\ match' = Max({match, got})
                /\ next' = (IF sender.pc = "append" THEN Max({match, got}) ELSE got) + 1
                /\ base' = IF sender.pc = "append" THEN CompactedBase(applied) ELSE base
           ELSE /\ next' = IF sender.pc = "append" THEN Max({1, reply.hint}) ELSE next
                /\ UNCHANGED <<match, base>>
    /\ UNCHANGED <<last, applied, toFollower, disk, node, events, torn, leftover, broken>>

\* Messages and replies of a round that is over.
Outdated(channel) == [i \in DOMAIN channel |-> [channel[i] EXCEPT !.current = FALSE]]

\* The reply was lost, or is late.
Timeout ==
    /\ sender.pc \in {"append", "snapshot"}
    /\ sender' = Idle
    /\ IF toFollower \o node.msg \o toLeader = <<>> THEN UNCHANGED events ELSE Event
    /\ toFollower' = Outdated(toFollower)
    /\ toLeader' = Outdated(toLeader)
    /\ node' = [node EXCEPT !.msg = Outdated(@)]
    /\ UNCHANGED <<last, applied, base, next, match, disk, flags>>

-----------------------------------------------------------------------------
(* The follower: AppendEntries, apply and compaction.                      *)

Reply(m, success, hint) ==
    toLeader' = IF m.live
                THEN Append(toLeader, [current |-> m.current, success |-> success, hint |-> hint])
                ELSE toLeader

Arrives(type) ==
    /\ node.pc = "run"
    /\ toFollower # <<>>
    /\ Head(toFollower).type = type
    /\ toFollower' = Tail(toFollower)

\* The entries of the message that the log lacks.
NewEntries(m) == [i \in 1 .. m.upto - LastIndex(node) |-> LastIndex(node) + i]

\* raftLogFile.append; a file that was replaced behind its handle is not reached.
Appended(frames) == IF node.attached THEN AppendFrames(logFile, frames) ELSE logFile

\* Mutant: the hint is one too high.
RejectAppendHigh ==
    /\ Arrives("append")
    /\ Head(toFollower).prev > LastIndex(node)
    /\ Reply(Head(toFollower), FALSE, LastIndex(node) + 2)
    /\ UNCHANGED <<leader, disk, node, events, flags>>

RejectAppend ==
    /\ Arrives("append")
    /\ Head(toFollower).prev > LastIndex(node)
    /\ Reply(Head(toFollower), FALSE, LastIndex(node) + 1)
    /\ UNCHANGED <<leader, disk, node, events, flags>>

HandleAppendEntries ==
    /\ Arrives("append")
    /\ LET m       == Head(toFollower)
           entries == node.entries \o NewEntries(m)
           lastNew == node.base + Len(entries)
       IN  /\ m.prev <= LastIndex(node)
           /\ logFile' = Appended(NewEntries(m))
           /\ node' = [node EXCEPT !.entries = entries,
                                   !.config = LatestConfig(entries, node.baseConfig),
                                   !.commit = Max({@, Min({m.commit, lastNew})})]
           /\ Reply(m, TRUE, 0)
           /\ broken' = (broken \/ (node.installing /\ NewEntries(m) # <<>>))
    /\ UNCHANGED <<leader, db, staged, stagedConfig, marker, config, events, torn, late, leftover>>

\* The write of an entry fails after k others: part of its frame, or all of it
\* if it was the fsync that failed, stays in the file.
AppendFails(k, written) ==
    /\ Arrives("append")
    /\ Event
    /\ LET m   == Head(toFollower)
           new == NewEntries(m)
       IN  /\ m.prev <= LastIndex(node)
           /\ k < Len(new)
           /\ logFile' = Appended(SubSeq(new, 1, k) \o
                                  (CASE written = "nothing" -> <<>>
                                     [] written = "part" -> <<Torn>>
                                     [] written = "all" -> <<new[k + 1]>>))
           /\ node' = [node EXCEPT !.entries = @ \o SubSeq(new, 1, k)]
           /\ Reply(m, FALSE, m.prev + 1)
           /\ broken' = (broken \/ written # "nothing" \/ ConfigAt(LastIndex(node) + k) # node.config)
    /\ UNCHANGED <<leader, db, staged, stagedConfig, marker, config, torn, late, leftover>>

\* applyCommitted, up to maybeCompactLocked.
FollowerApply ==
    /\ node.pc = "run"
    /\ ~node.installing
    /\ node.applied < node.commit
    /\ LET i == node.applied + 1
       IN  /\ db' = Apply(db, node.entries[i - node.base])
           /\ node' = [node EXCEPT !.applied = i,
                                   !.pc = IF Len(node.entries) >= SnapshotThreshold /\ i > node.base
                                          THEN "foldBase" ELSE "run"]
    /\ UNCHANGED <<leader, channels, staged, stagedConfig, marker, config, logFile, events, flags>>

\* Mutant: the first entry above the new base is left out.
SurvivorsShort == SubSeq(node.entries, node.applied - node.base + 2, Len(node.entries))

Survivors == SubSeq(node.entries, node.applied - node.base + 1, Len(node.entries))

\* maybeCompactLocked: the configuration as of the new base becomes durable ...
FoldBaseConfig ==
    /\ node.pc = "foldBase"
    /\ LET c == LatestConfig(SubSeq(node.entries, 1, node.applied - node.base), node.baseConfig)
       IN  /\ config' = c
           /\ node' = [node EXCEPT !.pc = "compact", !.baseConfig = c]
    /\ UNCHANGED <<leader, channels, db, staged, stagedConfig, marker, logFile, events, flags>>

\* ... before the log is rewritten.
CompactLog ==
    /\ node.pc = "compact"
    /\ logFile' = Compact(node.applied, Survivors)
    /\ node' = [node EXCEPT !.pc = "run", !.base = node.applied, !.entries = Survivors,
                            !.attached = TRUE]
    /\ UNCHANGED <<leader, channels, db, staged, stagedConfig, marker, config, events, flags>>

\* Either write fails; that of the log possibly after its rename, when the old
\* file is still open and memory is left as it was.
CompactFails(renamed) ==
    /\ node.pc \in {"foldBase", "compact"}
    /\ Event
    /\ renamed => node.pc = "compact"
    /\ logFile' = IF renamed THEN Compact(node.applied, Survivors) ELSE logFile
    /\ node' = [node EXCEPT !.pc = "run", !.attached = @ /\ ~renamed]
    /\ broken' = (broken \/ renamed)
    /\ UNCHANGED <<leader, channels, db, staged, stagedConfig, marker, config, torn, late, leftover>>

-----------------------------------------------------------------------------
(* The follower: InstallSnapshot.  The handler runs alone on the message   *)
(* loop, and from the close of the store on it holds storeMu, so that only *)
(* the leader, the clock and a crash come between its steps.               *)

\* Parked by an install that failed, or not behind the snapshot: answer at once.
AnswerSnapshot ==
    /\ Arrives("snapshot")
    /\ node.installing \/ Head(toFollower).store.index <= node.applied
    /\ Reply(Head(toFollower), ~node.installing, 0)
    /\ UNCHANGED <<leader, disk, node, events, flags>>

HandleInstallSnapshot ==
    /\ Arrives("snapshot")
    /\ ~node.installing
    /\ Head(toFollower).store.index > node.applied
    /\ node' = [node EXCEPT !.pc = "stage", !.installing = TRUE, !.msg = <<Head(toFollower)>>]
    /\ UNCHANGED <<leader, toLeader, disk, events, flags>>

\* Mutant: the marker is written after the swap.
AfterMarkLast == [stage |-> "build", build |-> "fill", fill |-> "config", config |-> "clear",
          clear |-> "copy", copy |-> "mark", mark |-> "fold", fold |-> "reset",
          reset |-> "unmark", unmark |-> "unstage",
          redoClear |-> "redoCopy", redoCopy |-> "redoReset", redoReset |-> "redoFold",
          redoFold |-> "redoUnmark", redoUnmark |-> "redoUnstage", redoUnstage |-> "open"]

\* The steps of an install, and of the restart that finishes one, in order.
After == [stage |-> "build", build |-> "fill", fill |-> "config", config |-> "mark",
          mark |-> "clear", clear |-> "copy", copy |-> "fold", fold |-> "reset",
          reset |-> "unmark", unmark |-> "unstage",
          redoClear |-> "redoCopy", redoCopy |-> "redoReset", redoReset |-> "redoFold",
          redoFold |-> "redoUnmark", redoUnmark |-> "redoUnstage", redoUnstage |-> "open"]

At(steps) == node.pc \in steps /\ node' = [node EXCEPT !.pc = After[@]]

\* Mutant: the staged store has no session table.
StageWithoutSessions ==
    /\ At({"stage", "build", "fill"})
    /\ staged' = CASE node.pc = "stage" -> NoStore
                   [] node.pc = "build" -> Partial
                   [] node.pc = "fill"  -> [node.msg[1].store EXCEPT !.sessions = EmptyStore.sessions]
    /\ UNCHANGED <<leader, channels, db, stagedConfig, marker, config, logFile, events, flags>>

\* installSnapshot: os.RemoveAll, then BuildSnapshotDB file by file.
Stage ==
    /\ At({"stage", "build", "fill"})
    /\ staged' = CASE node.pc = "stage" -> NoStore
                   [] node.pc = "build" -> Partial
                   [] node.pc = "fill"  -> node.msg[1].store
    /\ UNCHANGED <<leader, channels, db, stagedConfig, marker, config, logFile, events, flags>>

WriteInstallConfig ==
    /\ At({"config"})
    /\ stagedConfig' = node.msg[1].config
    /\ UNCHANGED <<leader, channels, db, staged, marker, config, logFile, events, flags>>

\* The commit point.
WriteInstallMarker ==
    /\ At({"mark"})
    /\ marker' = node.msg[1].store.index
    /\ UNCHANGED <<leader, channels, db, staged, stagedConfig, config, logFile, events, flags>>

\* swapInStagedDB.
SwapInStagedDB ==
    /\ At({"clear", "copy", "redoClear", "redoCopy"})
    /\ db' = IF node.pc \in {"clear", "redoClear"} THEN Partial ELSE staged
    /\ UNCHANGED <<leader, channels, staged, stagedConfig, marker, config, logFile, events, flags>>

\* Mutant: the configuration of the snapshot is not folded in.
InstallNoConfig ==
    /\ At({"fold", "redoFold"})
    /\ UNCHANGED <<leader, channels, disk, events, flags>>

InstallStagedConfig ==
    /\ At({"fold", "redoFold"})
    /\ config' = IF stagedConfig = None THEN config ELSE stagedConfig
    /\ UNCHANGED <<leader, channels, db, staged, stagedConfig, marker, logFile, events, flags>>

\* resetToBase, and what completeInstall sets with it under raftMu.
ResetToBase ==
    /\ node.pc = "reset"
    /\ logFile' = EmptyLog(node.msg[1].store.index)
    /\ node' = [node EXCEPT !.pc = After[@], !.installing = FALSE, !.attached = TRUE,
                            !.base = node.msg[1].store.index, !.entries = <<>>,
                            !.commit = node.msg[1].store.index,
                            !.applied = node.msg[1].store.index,
                            !.baseConfig = config, !.config = config]
    /\ UNCHANGED <<leader, channels, db, staged, stagedConfig, marker, config, events, flags>>

\* resetRaftLogFileTo.
ResetRaftLogFileTo ==
    /\ At({"redoReset"})
    /\ logFile' = EmptyLog(marker)
    /\ UNCHANGED <<leader, channels, db, staged, stagedConfig, marker, config, events, flags>>

ClearInstallMarker ==
    /\ At({"unmark", "redoUnmark"})
    /\ marker' = None
    /\ UNCHANGED <<leader, channels, db, staged, stagedConfig, config, logFile, events, flags>>

\* The end of an install: back to the message loop, with an answer.
Answer(success) ==
    /\ node' = [node EXCEPT !.pc = "run", !.msg = <<>>]
    /\ Reply(node.msg[1], success, 0)

FinishInstall ==
    /\ node.pc = "unstage"
    /\ staged' = NoStore
    /\ stagedConfig' = None
    /\ Answer(TRUE)
    /\ UNCHANGED <<leader, toFollower, db, marker, config, logFile, events, flags>>

\* A failure up to the marker is recoverable.  The marker may be in place if only
\* the sync of its directory failed.
StagingFails(marked) ==
    /\ node.pc \in {"stage", "build", "fill", "config", "mark"}
    /\ Event
    /\ marked => node.pc = "mark"
    /\ marker' = IF marked THEN node.msg[1].store.index ELSE marker
    /\ leftover' = (leftover \/ marked)
    /\ node' = [node EXCEPT !.pc = "run", !.installing = FALSE, !.msg = <<>>]
    /\ Reply(node.msg[1], FALSE, 0)
    /\ UNCHANGED <<leader, toFollower, db, staged, stagedConfig, config, logFile, torn, late, broken>>

\* A failure after it parks the node.
SwapFails ==
    /\ node.pc \in {"clear", "copy", "fold", "reset"}
    /\ Event
    /\ Answer(FALSE)
    /\ UNCHANGED <<leader, toFollower, disk, flags>>

\* A failure of the last steps is reported to the leader, and the node goes on.
CleanupFails ==
    /\ node.pc \in {"unmark", "unstage"}
    /\ Event
    /\ leftover' = (leftover \/ node.pc = "unmark")
    /\ Answer(FALSE)
    /\ UNCHANGED <<leader, toFollower, disk, torn, late, broken>>

-----------------------------------------------------------------------------
(* Crash and restart.                                                      *)

Crash ==
    /\ node.pc # "down"
    /\ Event
    /\ node' = Down
    /\ UNCHANGED <<leader, channels, disk, flags>>

\* Mutant: the marker is not looked at.
RestartUnmarked ==
    /\ node.pc = "down"
    /\ ~broken
    /\ node' = [node EXCEPT !.pc = "open"]
    /\ UNCHANGED <<leader, channels, disk, events, flags>>

\* completeInstallIfPending.  A log file and a memory that went apart are not
\* followed further: the properties say what the file would have to hold.
Restart ==
    /\ node.pc = "down"
    /\ ~broken
    /\ node' = [node EXCEPT !.pc = IF marker # None /\ staged # NoStore THEN "redoClear" ELSE "open"]
    /\ marker' = IF staged = NoStore THEN None ELSE marker
    /\ UNCHANGED <<leader, channels, db, staged, stagedConfig, config, logFile, events, flags>>

FinishRedo ==
    /\ At({"redoUnstage"})
    /\ staged' = NoStore
    /\ stagedConfig' = None
    /\ UNCHANGED <<leader, channels, db, marker, config, logFile, events, flags>>

\* buildNode, with the guard on the recovered index.
CanOpen == db # Partial /\ db.index >= logFile.base

Open ==
    /\ node.pc = "open"
    /\ CanOpen
    /\ LET entries == Load(logFile)
       IN  node' = [Down EXCEPT !.pc = "run", !.base = logFile.base, !.entries = entries,
                                !.commit = db.index, !.applied = db.index,
                                !.baseConfig = config, !.config = LatestConfig(entries, config)]
    /\ UNCHANGED <<leader, channels, disk, events, flags>>

-----------------------------------------------------------------------------
LeaderNext ==
    \/ Propose
    \/ LeaderApply
    \/ \E b \in 0 .. Len(Log) : NewLeader(b)

SenderNext ==
    \/ SendAppend
    \/ SnapshotScan
    \/ SessionTable
    \/ SendSnapshot
    \/ Receive
    \/ Timeout

ApplyNext ==
    \/ FollowerApply
    \/ FoldBaseConfig
    \/ CompactLog

HandlerNext ==
    \/ RejectAppend
    \/ HandleAppendEntries
    \/ AnswerSnapshot
    \/ HandleInstallSnapshot
    \/ Stage
    \/ WriteInstallConfig
    \/ WriteInstallMarker
    \/ SwapInStagedDB
    \/ InstallStagedConfig
    \/ ResetToBase
    \/ ResetRaftLogFileTo
    \/ ClearInstallMarker
    \/ FinishInstall
    \/ Restart
    \/ FinishRedo
    \/ Open

FaultNext ==
    \/ \E k \in 0 .. Len(Log), written \in {"nothing", "part", "all"} : AppendFails(k, written)
    \/ \E renamed \in BOOLEAN : CompactFails(renamed)
    \/ \E marked \in BOOLEAN : StagingFails(marked)
    \/ SwapFails
    \/ CleanupFails
    \/ Crash

Next == LeaderNext \/ SenderNext \/ ApplyNext \/ HandlerNext \/ FaultNext

\* The leader's clients, its apply loop and its replicator, the follower's apply
\* loop, and its message loop or whoever restarts it, all go on; faults and
\* elections need not happen.
Spec ==
    /\ Init
    /\ [][Next]_vars
    /\ WF_vars(Propose)
    /\ WF_vars(LeaderApply)
    /\ WF_vars(SenderNext)
    /\ WF_vars(ApplyNext)
    /\ WF_vars(HandlerNext)

-----------------------------------------------------------------------------
(* Properties.                                                             *)

\* What a restart at this moment would go by: a complete install if one is marked,
\* or the files as they are.
Pending == marker # None /\ staged # NoStore
RecoveredLast == IF Pending THEN marker ELSE logFile.base + Len(Load(logFile))
RecoveredIndex == IF Pending THEN marker ELSE db.index
RecoveredConfig ==
    IF Pending THEN stagedConfig ELSE LatestConfig(Load(logFile), config)

\* Every variable has its type.
TypeOK ==
    /\ applied <= last /\ base <= applied /\ last <= Len(Log)
    /\ next \in 1 .. last + 1 /\ match \in 0 .. last
    /\ db.index \in None .. Len(Log)
    /\ staged.index \in None - 1 .. Len(Log)
    /\ marker \in None .. Len(Log) /\ config \in 0 .. Len(Log)
    /\ node.base <= node.applied /\ node.applied <= node.commit
    /\ node.commit <= LastIndex(node) \/ broken \/ leftover
    /\ node.config \in 0 .. Len(Log)

\* The follower's data, and the table that keeps a retried command from taking
\* effect twice, are those of a prefix of the log, however it got there: entry by
\* entry, through a snapshot, or through a swap that was cut off and redone.  The
\* exception is a session table read later than the data it was sent with
\* (handleInstallSnapshot, BuildSnapshotDB, ApplyEntry).
StoreIsAPrefix == db = Partial \/ torn \/ db = StoreAt[db.index]

\* The same with no exception: what the comment in sendSnapshot says of the
\* session table.
StoreIsAlwaysAPrefix == db = Partial \/ db = StoreAt[db.index]

\* A restart finds a complete store that is not behind the compacted log, whatever
\* step of an install, of a compaction or of an earlier restart the crash hit, and
\* a node that serves has such a store open (completeInstallIfPending, buildNode).
RestartSucceeds ==
    leftover \/ broken \/
        /\ node.pc = "open" => CanOpen
        /\ node.pc = "run" /\ ~node.installing => CanOpen /\ db.index = node.applied

\* What the leader counts as replicated on the follower is on the follower's disk,
\* and would still be there after a restart at this moment: no install and no
\* compaction drops an entry that was acknowledged (matchIndex, resetToBase,
\* maybeCompactLocked).
AckedEntriesKept == late \/ leftover \/ broken \/ match <= RecoveredLast

\* The follower acts on the latest configuration in its log, and would do so after
\* a restart, although compaction and installs discard the entries that set it
\* (deriveConfigLocked, maybeCompactLocked, installStagedConfig).
ConfigIsLatest ==
    leftover \/ broken \/
        /\ node.pc = "run" /\ ~node.installing => node.config = ConfigAt(LastIndex(node))
        /\ RecoveredConfig = ConfigAt(RecoveredLast)

\* A restart never takes the store back to an earlier index, whenever it comes.
NeverGoesBack ==
    [][leftover' \/ broken' \/ RecoveredIndex' >= RecoveredIndex]_vars

\* The follower catches up with the whole log, unless an install that failed
\* halfway has parked it until its next restart, or a disk error damaged its files.
CatchesUp ==
    <>(\/ node.pc = "run" /\ node.applied = Len(Log)
       \/ node.pc = "run" /\ node.installing
       \/ leftover
       \/ broken)

=============================================================================
