----------------------------- MODULE MCSnapshot -----------------------------
(***************************************************************************)
(* An instance of Snapshot for TLC.                                        *)
(***************************************************************************)
EXTENDS Snapshot

\* A command of a session, a change of configuration, and the next command of the
\* session.
MCLog == <<[kind |-> "data", session |-> 1, seq |-> 1],
           [kind |-> "config", session |-> 0, seq |-> 0],
           [kind |-> "data", session |-> 1, seq |-> 2]>>
=============================================================================
