----------------------------- MODULE RaftProofs -----------------------------
(***************************************************************************)
(* What is proved of every behaviour of Raft, for every set of servers:    *)
(* the election theorems, from type correctness and from the fact that     *)
(* ElectionInv is inductive.                                               *)
(***************************************************************************)
EXTENDS RaftTypeProofs, RaftElectionProofs

\* ElectionInv holds throughout: every vote that handleVoteResponse counts or
\* may still count is one durable ballot of one voter.
THEOREM ElectionInvariant == Spec => []ElectionInv
<1>1. Init => ElectionInv
  BY ElectionInvInit
<1>2. TypeOK /\ TypeOK' /\ ElectionInv /\ [Next]_vars => ElectionInv'
  BY ElectionInvNext
<1> QED
  BY <1>1, <1>2, TypeCorrect, PTL DEF Spec

\* At most one node ever leads a term, whatever votes were saved, lost in a
\* crash before the save, or granted by a node that then restarted.
THEOREM ElectionIsSafe == Spec => []ElectionSafety
<1>1. TypeOK /\ ElectionInv => ElectionSafety
  BY ElectionInvSafe
<1> QED
  BY <1>1, TypeCorrect, ElectionInvariant, PTL

\* A vote that was granted binds the voter through a crash at any moment: what
\* buildNode would resolve is a later term, or the same term and vote.
THEOREM VotesAreDurable == Spec => []VotesSurviveRestart
<1>1. TypeOK /\ ElectionInv => VotesSurviveRestart
  BY BallotsSurvive
<1> QED
  BY <1>1, TypeCorrect, ElectionInvariant, PTL

\* The bare counter votesReceived is the number of distinct voters with a
\* durable ballot for this candidate in its term.
THEOREM VoteCountIsExact == Spec => []CountedVotesAreDistinct
<1>1. ElectionInv => CountedVotesAreDistinct
  BY DEF ElectionInv, NoVoteCountsTwice, CountsOnce, CountedVotesAreDistinct
<1> QED
  BY <1>1, ElectionInvariant, PTL
=============================================================================
