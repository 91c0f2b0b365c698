---------------------------- MODULE MCMembership ----------------------------
(***************************************************************************)
(* Instances of Membership for TLC.                                        *)
(***************************************************************************)
EXTENDS Membership, TLC

CONSTANTS a, b, c, d

\* A cluster of four, and one of two that others join.
MCFoundings == {{a, b, c, d}, {a, b}}

\* The two servers that never campaign are alike.
MCSymmetry == Permutations({c, d})

\* Behaviours are followed up to the first change that the properties except.
MCFollowed == ~early /\ ~stale
=============================================================================
