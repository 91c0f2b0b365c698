----------------------------- MODULE AppliedLog -----------------------------
(***************************************************************************)
(* What a replicated store promises: its durable state is the effect of a  *)
(* prefix of the committed log, each entry taken once and in order, and a  *)
(* retry of a session's command taken not at all.  There is no crash here: *)
(* in terms of what is on disk a crash changes nothing.                    *)
(***************************************************************************)
EXTENDS Integers, Sequences

CONSTANT NoSession

VARIABLES
    log,        \* committed entries
    applied,    \* how many of them have taken effect
    state       \* versions written by those

alvars == <<log, applied, state>>

\* Whether the i-th entry repeats a command of its session.
IsRetry(i) ==
    /\ log[i].session # NoSession
    /\ \E j \in 1 .. i - 1 : /\ log[j].session = log[i].session
                             /\ log[j].seq >= log[i].seq

Effect(i) ==
    IF IsRetry(i) THEN {} ELSE {[key |-> k, ts |-> log[i].ts] : k \in log[i].keys}

ALInit == log = <<>> /\ applied = 0 /\ state = {}

\* Raft commits one more entry.
Extend ==
    /\ Len(log') = Len(log) + 1
    /\ SubSeq(log', 1, Len(log)) = log
    /\ UNCHANGED <<applied, state>>

\* The next entry takes effect, all of it at once.
ApplyNext ==
    /\ applied < Len(log)
    /\ applied' = applied + 1
    /\ state' = state \cup Effect(applied + 1)
    /\ UNCHANGED log

ALNext == Extend \/ ApplyNext

ALSpec == ALInit /\ [][ALNext]_alvars
=============================================================================
