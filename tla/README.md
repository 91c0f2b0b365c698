# TLA+ verification of littledb

littledb is a key-value store in Go: an LSM tree with MVCC transactions
(`internal/db` and the packages under it) that a Raft group replicates
(`internal/cluster`). This directory models its concurrent and crash-prone parts
in TLA+, checks small instances with TLC, and proves with TLAPS that elections are
safe, that a merge of tables changes no read and finds its inputs where it left
them, and that a server outside its configuration leads only to see its own removal
through. `PROJECT.json` maps every definition to the source lines it translates.

Run a model with `tlc -config MCRaft_election.cfg MCRaft`, and check proofs with
`tlapm RaftProofs.tla` (and the three modules it extends), `tlapm CompactionProofs.tla`,
`tlapm LsmProofs.tla` and `tlapm MembershipProofs.tla`.

## 1. The system

| part | state | operations | what is hard about it |
|---|---|---|---|
| elections (`election.go`, `raftstate.go`) | role, currentTerm, votedFor, votesReceived, the hard-state file | electionTimer, maybeStartElection, handleRequestVote, handleVoteResponse, stepDownLocked, save | the save may fail or be cut off by a crash; votes are a bare counter |
| replication (`replication.go`, `raftlog.go`, `cluster.go`) | log, commitIndex, lastApplied, nextIndex, matchIndex, one outstanding round per peer | sendLoop, handleAppendEntries, maybeAdvanceCommitLocked, applyCommitted | replies are matched to rounds by position only; timeouts; partial disk failures |
| client commits (`cluster.go`) | commitMu, the proposer's wait | commit, proposeAndAwait, readBarrier | the wait ends on an index, not on an entry |
| leadership transfer (`cluster.go`) | transferring, the call's stage | transferLeadership, handleTimeoutNow | races proposals, elections and other transfers |
| membership (`config.go`, `cluster.go`) | config, baseConfig, learners | addServer, removeServer, deriveConfigLocked | adopt-on-append, roll-back on truncation |
| snapshots (`install.go`, `snapshot.go`) | staged directory, configuration and marker | sendSnapshot, handleInstallSnapshot, completeInstall, completeInstallIfPending | a swap of directories in several steps, under two locks |
| Raft log file (`raftlogfile.go`) | frames, base header | append, truncateFrom, compact, load | torn frames, failed writes |
| transport (`transport.go`) | inboxes | Send, Inbox | a full inbox blocks the sender |
| store (`db.go`, `txn.go`, `wal.go`) | WAL, tables, applied.base, sessions file; memtable, frozen memtable, indices | Commit, ApplyEntry, ApplyControlEntry, flushLocked, OpenWith | five durable steps of a flush, each of which a crash or an error can cut off |
| transactions (`txn.go`, `db.go`) | appliedTS, nextTimestamp, active snapshots | Begin, Get, Commit, PrepareCommit | snapshot isolation, first committer wins, the GC watermark |
| compaction (`compaction.go`) | tables on disk and in memory | tryCompactOnce, compactSSTables | the output replaces the newest input's file; Close and crashes race it |
| reading (`scan.go`, `sstable`, `memtable`, `skiplist`, `mvcckey`, `record`, `bloom`) | immutable or lock-protected | get, scan, search, encode | order of versions, block boundaries |
| linearizability checker (`lincheck`) | a history | check, linearize | a search with pruning |
| command line (`cmd`, `repl`) | none | | input and output only |

The parts meet in four places. `applyCommitted` hands committed entries to the
store, one marker in the WAL for each, and a restart seeds `commitIndex` and
`lastApplied` from what the store recovers. `commit` asks the store for an entry
(`PrepareCommit`) and gives it to Raft. Compaction of the Raft log and
`InstallSnapshot` replace the log prefix by the store's content. Membership
entries travel in the same log and change who counts in a majority.

What must hold: at most one leader a term; logs agree where they claim to; a
committed entry is in every later leader's log and is never rewritten; a client
that was told "committed" finds its write; every call returns; after any crash
the store holds every acknowledged commit, whole, and nothing of an unfinished
one; each session's command takes effect once; a transaction reads one snapshot
and never overwrites a commit it did not see; compaction drops no visible version.

`PROJECT.json` lists the hazards that threaten these, at the line where each
bites, with the properties that cover it or the reason why none does.

## 2. How the models divide the system

| module | part | stands on |
|---|---|---|
| `Raft` | elections, replication, client waits, transfer, with a fixed set of voters | messages one by one |
| `Membership` | changing voters | exchanges of two nodes as one step |
| `Snapshot` | log compaction, the Raft log file, installing a snapshot | one leader, one follower, one history |
| `Store` | WAL, flush, recovery; implements `AppliedLog` | a log that Raft hands over in order |
| `Lsm` | transactions, reads, scans, compaction, Close | a WAL that holds what the memtable holds |
| `Compaction`, `MvccKey` | the merge, key encoding and search, as functions | |

Each module keeps the control of its own part at the grain of critical sections and
file operations and takes from the others only what they promise. They are not
composed into one specification: the product is out of TLC's reach. What one part
assumes of another is named where it is assumed.

## 3. The modules

### Raft

One node has the variables of `Node` under `raftMu` (`role`, `currentTerm`,
`votedFor`, `votesReceived`, `log`, `commitIndex`, `nextIndex`, `matchIndex`,
`transferring`), its durable term and vote (`hard`), the sequence of entries it
applied, the round each replicator waits in, the proposer waiting in
`proposeAndAwait`, and the transfers in progress. `net` is the set of messages in
flight. Each critical section of `raftMu` is one action: `sendLoop` is therefore
two, `SendRound` and `HandleAppendResponse` or `ResponseTimeout`, and
`transferLeadership` is four. `Restart` is a crash at any moment followed by
`buildNode`: memory is lost, `hard` and `log` stay.

The history variables `ballots`, `tally`, `elected` and `acked` record what was
voted, whose votes were counted, who led and which writes were reported as
committed; no guard reads them.

Data is abstracted to what the properties tell apart: an entry is its term and a
value; time is absent, so a timer may fire whenever the code would let it.

Two switches choose how much of the environment is present. `LateReplies` lets a
reply that missed its round's timeout stay in the response channel for the next
round, as the code's buffered channel does; `LateWakeups` lets a proposer that was
signalled run later than other steps of its node. Both are behaviours of the real
program. They are off in the passing runs, which show what holds when a timeout
fires only on loss and a woken proposer runs at once, and on in the run
`lateWaiter` and, for the first switch, in section 6, which show what then fails.

### RaftElection, RaftLemmas, RaftTypeProofs, RaftElectionProofs, RaftProofs

`RaftElection` states the inductive invariant of elections. The other four hold
its proof, see section 5.

### MCRaft

The instances: three servers, how often each rare event may happen, and the state
`DivergedInit` with two conflicting uncommitted histories, from which the deeper
replication cases are a few steps away. Init reaches it without a fault.

### Store

`Store` is one database directory and the process that owns it: the single-node
database (`Txn.Commit`) or the state machine of a Raft node
(`ApplyEntry`, `ApplyControlEntry`, called by `applyCommitted`); the variable
`replicated` says which, and `Kinds` which of the two an instance starts in. On disk are `wal`,
`tables`, `base` (applied.base), `sessionsFile` and the Raft log's `raftBase`; in
memory the fields of `DB` that these operations write. `db.mu` is held from the
first record of a commit to the end of its flush, so there is one operation in
progress, `op`, and `pc` says which durable step it takes next. Each step is an
action, with an error action beside it, and `Crash` may come between any two.
On an error a single-node database returns it and goes on; a Raft node panics,
which loses its memory. `Open` is `OpenWith` with the test of `buildNode`.

A version is a key and a timestamp. A memtable, a table and the content of the
store are sets of versions; the WAL stays a sequence, because replay depends on
its order. The memtable's size is not modelled: a flush may follow any apply.
Raft is reduced to what it promises the store, a sequence `entries` that grows and
is handed over in order, retries of a session's command included.

`acked`, `entries` and `logged` are history: what callers were told, what was
committed or begun, and the highest index with a marker in the WAL.

`cutOff` is history too: the process has stopped between the removal of the old
WAL and the end of that flush. Such a stop is an ordinary step of the model, and it
breaks what the comments in `flushLocked` promise (section 6). The properties named
`...UnlessCutOff`, and the refinement, say that it is the only cause: until it
happens a replica's recovery is exact and retries take no effect, whatever else goes
wrong. Atomicity and the absence of gaps hold without exception, and so does
durability, except in a single-node database that goes on after an error.

### AppliedLog

What a replica promises: `state` is the effect of the first `applied` entries of
the log, each session's command counted once. `Store` maps `applied` to the index
`Open` would reconstruct and `state` to the versions it would read, so the
refinement is about the files and not about memory.

### MvccKey and Compaction

`MvccKey` has the encoding of a key and a timestamp, byte by byte, with `Base`
values a byte and `Width` bytes a timestamp instead of 256 and 8, and the two
searches: `SeekGE` of the skip list and the block search of a table. The searches
are compared with `NewestAsOf`, what they are for. `Compaction` has the merge of
several layers and the garbage collection of `compactSSTables`, as functions on
sets of versions.

### Lsm

The store under `db.mu`: each critical section is one step. A merge goes through
`CompactPick`, the two lock sections of `computeWatermark`, the write of the output,
its installation and the removal of each input, and commits, flushes, `Close`,
errors and crashes come between. `mode` is `single`, where `Commit` does everything
under one lock, or `leader`, where `PrepareCommit` mints a timestamp and `ApplyEntry`
comes later, with entries of an earlier leader before it (`ForeignEntry`). A
transaction's reads are the whole map at its snapshot (`View`).

History: `kv` is the map the commits define; `wrote` and `lostUpdate` record whether
a commit overwrote one its transaction never saw; `raced` that a commit was prepared
over unapplied entries; `broken` that a merge was cut off where that loses data.

### Snapshot

A leader and one follower that share one history, the constant `Log`. The leader
compacts its log and sends entries or a snapshot; the follower keeps six things on
disk, file by file, and an install is the eight steps from `Stage` to
`FinishInstall`, each with its error and with a crash before and after it. `Restart`,
`FinishRedo` and `Open` are `completeInstallIfPending` and `buildNode`. The session
table is read in a step of its own (`SessionTable`), as in `sendSnapshot`.

History: `torn` (a session table newer than the data it was sent with), `late` (a
reply credited to a later round), `leftover` (a disk error left the marker of an
install that is over), `broken` (a disk error left log file and memory apart, or a
parked node answered). The properties name the ones they except.

### Membership

Every node takes its configuration from its own log (`Config`), committed or not.
`RemoveServer`, `AddLearner` and `PromoteLearner` are the calls, `Relinquish` the end
of a leader's own removal, `AddFails` the timeout. A vote and a round of
AppendEntries are one step of both nodes. History: `early` (a leader changed the
voters before it had committed in its own term), `stale` (a server was added by a
matchIndex of an earlier leadership).

## 4. The runs

### Raft

All instances have three servers, the smallest number with a majority that is not
everyone, except `live`, which has two: enough to unseat a leader. `MaxTerm` and `MaxIndex` bound terms and log length, `Campaigner` the
nodes that may time out, and `MaxEvents` the number of rounds per run, lost
messages, crashes, failed saves, failed log writes and transfers. The bounds stop the
model, not the system, so deadlock is not checked. In `election` the two
servers other than the bootstrap node are symmetric.

| run | shows |
|---|---|
| `election` | one leader a term, durable votes, exact counts and the inductive invariant, with a crash and a failed save, over three terms |
| `replication` | sound match and commit indices, the same entries applied everywhere, unrewritten commits and surviving acknowledged writes across a change of leader, a lost message, a failed write and a crash of any node |
| `diverged` | matching logs, complete leaders, the overwriting of conflicting suffixes, the rule that only entries of the current term are committed by counting, and that a transfer's target holds the leader's log |
| `live` | every proposal returns, with a lost message and with a leader unseated while a client waits |
| `lateWaiter` | violated: a proposer that wakes late takes another entry for its own |

Three terms and two log positions are enough for the classical failures: a vote
given twice needs one term and a restart, a lost commit two terms, the commit of an
old-term entry three leaders, two of which `diverged` starts after. Every property has a
mutant of the code that breaks it within these bounds.

Fairness, in the run `live`: weak fairness of the replicators, of message
handlers, of the apply loop and of the waiting proposer. Each is a goroutine that
loops until the node stops, so a step that stays possible is taken; heartbeats keep
the replicators signalled. Elections, losses and crashes have no fairness.

### Store

Bounds: `MaxIndex` entries, `MaxSeq` sequence numbers, `MaxCrashes`, `MaxFaults`.
Two keys make a commit of more than one record. Three entries and two crashes are
enough for a flush, a crash in it, an entry after the restart and a second
recovery, which is the length of the shortest failure of every mutant. The bounds
stop the model, so deadlock is not checked.

| run | shows |
|---|---|
| `store` | readable and atomic commits and no skipped entry, with crashes and an error at any step; durability until a call returned an error; exact recovery, commands that take effect once, a WAL that replays and the refinement of `AppliedLog` until a flush is cut off |

### Lsm

Two transactions at a time and four in all, three commits, a trigger of two tables,
one of {restart, disk error, scan, change of leader}. Three commits fill the two
inputs of a merge and a flush during it. `Base` 3 and `Width` 2 leave room for nine
timestamps, and two records a block split the versions of a key over blocks. The two
keys of `lsm` and `restart` are not prefixes of each other; those of `prefix` are.

| run | shows |
|---|---|
| `lsm` | readers, transactions and scans keep their snapshots; no update is lost; both searches find the newest version; merges find their inputs, lose no wakeup, and a restart finds every commit outside the window of the file swap |
| `restart` | violated: a merge that fails removes a table that is in use |
| `prefix` | violated: a longer key that begins with the one written hides its newer version from the conflict check |

What holds on a leader holds unless a commit was prepared over entries not yet
applied (`raced`); section 6.

### Snapshot

A history of three entries, a command, a change of configuration and the session's
next command, compaction after two entries, and two events among crashes, disk
errors, timeouts and changes of leader: enough for an install that is cut off, redone
and cut off again. The run `snapshot` checks that the follower's store is that of a
prefix of the log, that restarts succeed and never go back, that acknowledged entries
and the latest configuration are kept, and that the follower catches up.

Fairness: weak fairness of the leader's clients, of its apply loop and replicator, and
of the follower's apply loop and message loop, which includes being restarted after a
crash. These are goroutines that loop, and the replicator is signalled by heartbeats.
Faults and changes of leader have none.

### Membership

Four servers, founded as four or as two that others join; two of them campaign; two
campaigns or restarts, logs of two entries. Four servers allow
two single changes of one configuration whose majorities do not meet, such as the
removal of c and that of d from {a, b, c, d}.

| run | shows |
|---|---|
| `membership` | one leader a term, complete leaders, sound match indices and no outsider that leads, up to the first `early` change |
| `early` | violated: two leaders change the same configuration differently, and a committed entry is missing in a leader's log |

`membership` follows behaviours up to the first change that its properties except
(`MCFollowed`). No behaviour of the instance is `stale`: with the bound on `early`
alone TLC finds the same states.

## 5. The proofs

### Elections

For every finite set of servers and every value of the bounds:

| theorem | says |
|---|---|
| `TypeCorrect` | `TypeOK` is an invariant |
| `ElectionInvariant` | `ElectionInv` is an invariant |
| `ElectionIsSafe` | at most one node leads a term |
| `VotesAreDurable` | a granted vote binds its voter through a restart |
| `VoteCountIsExact` | `votesReceived` counts distinct voters with a durable vote |

The assumptions are `ServerAssumption` (a finite set with the bootstrap node in it)
and `BoundAssumption` (types of the bounds).

The argument. `ElectionSafety` alone is not inductive: a leader is made by a
counter, so one must know that what is counted are votes of different voters, and
that a voter votes once. `ElectionInv` says where votes can be: a ballot binds its
voter's term and vote, in memory and on disk (`BallotsBind`); a request in flight
was sent after the candidate's own vote was saved; a grant in flight is backed by a
ballot; and no voter whose vote is counted can still have a request or a grant for
that candidacy in flight (`NoVoteCountsTwice`), which is what makes the counter
exact. Two leaders of a term then have majorities of ballots that share a voter,
who would have voted for both. `RaftTypeProofs` proves types action by action,
`RaftElectionProofs` reduces each action to one of a few abstract steps (campaign,
grant, count, step down) and proves each conjunct against those.

### Compaction

| theorem | says |
|---|---|
| `MergeKeepsReads` | a merge changes no read at a snapshot at or above the watermark |
| `MergeKeepsConflicts` | a conflict check at or above the watermark finds a newer version after the merge exactly when it did before |
| `MergeYieldsAll` | if no encoded key is in two layers, the merged stream is all versions of all layers |
| `MergeInputsStayTheTail` | whatever is flushed meanwhile, a merge finds its inputs at the end of the table list |

The first three are about the functions of `Compaction` and hold for every set of
versions with natural timestamps, every watermark, and merges that do or do not reach
the oldest table. The argument is that a dropped version has a version of its key at
or below the watermark that is at least as new (`DroppedIsCovered`), so no read at or
above the watermark would have returned it. `MergeKeepsReads` assumes that the layers
above the merged tables hold newer versions of each key than the tables do (`Above`).
That the store keeps the watermark below every reader is checked by `ReadersSeeTheMap`.

`MergeInputsStayTheTail` is about the steps of `Lsm`, for every trigger, set of keys
and bound. `InputsStayTheTail` needs `Shape`, that the table list and the inputs are
sequences and the directory finite, to be inductive: a flush puts its table in front
(`TailUnderPrepend`), and only the merge itself shortens the list.

### Membership

| theorem | says |
|---|---|
| `OutsidersFinish` | a server outside its own configuration is never elected, and leads only while its call waits for the entry that removed it |

It holds for every set of servers, every founding set and every bound, from
`MembershipAssumption`. The property speaks of single steps; `OutsiderInv` is the
state they start from: candidates are voters, and a leader that is no voter has a
call that waits for an entry of its log whose configuration excludes it (`Placed`).
That is what keeps such a leader from proposing anything else, since it still holds
`commitMu`. A configuration is that of the latest configuration entry, so the proof
must know that appending moves the latest entry (`AppendedIsAdopted`) or leaves it
alone (`DataKeepsConfig`). That a log has a latest such entry at all would take an
induction over its length; it is a conjunct of the invariant instead (`HasLatest`).
A voter that becomes an outsider by following another leader's log is a follower by
then, and no node replicates to itself. `OutsiderInv` quantifies over all sets and is
not evaluated by TLC; the run `membership` checks the property.

### What is only model-checked

Everything about logs and commits in `Raft`; all of `Store` and `Snapshot`; the
other properties of `Lsm` and `Membership`; and all liveness, which is outside the
prover's reach, as are inductions over data.

## 6. Known deviations

Where the code does not do what its comments or documents say. Four are runs of
`PROJECT.json` that TLC refutes, with a finding each: `lateWaiter`, `restart`,
`prefix` and `early`. TLC also refutes the following, each on an instance that
differs from a passing run only as said. In the passing runs a property excepts
them, or a switch leaves them out.

| what | refuted | instance |
|---|---|---|
| a reply that missed its timeout is credited to the next round (`replication.go:126`) | `MatchIndexIsHeld` | `replication` with `LateReplies = TRUE`, `SkipNoOps = FALSE`, no campaigner, one term, one entry and two rounds |
| a hint past the leader's log makes the next round ask for a term out of range (`replication.go:89`) | `NoPanic` | `diverged` |
| a commit prepared over unapplied entries overwrites one its transaction did not see (`txn.go:247`) | `NoLostUpdate` | `lsm` with `Modes = {"leader"}` |
| a session table is newer than the data it is sent with (`install.go:535`) | `StoreIsAlwaysAPrefix` | `snapshot` |
| a crash before applied.base is written makes a later recovery resume too early (`db.go:424`) | `RecoveryIsExact` | `store` |
| records of a commit that was cut off make every later Open fail (`db.go:190`) | `ReplaySucceeds` | `store` with `Kinds = {FALSE}` |
| a flush that fails leaves a memtable that the next flush overwrites (`db.go:364`) | `AckedIsDurable` | `store` with `Kinds = {FALSE}` |

## 7. What is not modelled

`PROJECT.json` gives the status and the reason for each component.

- The modules are not composed. In `Raft` the voters are fixed and the log is never
  compacted; `Snapshot` has no conflicting entries; `Membership` loses no message.
- Channels have no capacity, so goroutines that block each other on full inboxes and
  response channels are absent.
- Overlapping transfers are in `Raft`, but the run `diverged` has one. With two, TLC
  finds `TransferTargetHoldsLog` to hold in about four minutes; that property claims
  nothing once an earlier call has cleared the flag of a later one.
- A promotion by a matchIndex of an earlier leadership is in `Membership` (`stale`),
  but the instance does not reach one.
- `TypeOK` is part of the run `election`. Those of `Store`, `Lsm`, `Snapshot` and
  `Membership` document the state; no listed run includes them.
- Liveness of elections depends on random timeouts and is not stated, and neither is
  that a read after a barrier is linearizable.
- Every write is synced (`SyncOnWrite`, the default), and a crash loses nothing that
  was synced.
- Checksums, byte layouts, the Bloom filter, the tower of the skip list, range bounds
  and block loading of cursors, the linearizability checker and the command line.
