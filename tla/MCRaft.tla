------------------------------- MODULE MCRaft -------------------------------
(***************************************************************************)
(* Instances of Raft for TLC: how often each rare event may happen, and a  *)
(* later starting point.                                                   *)
(***************************************************************************)
EXTENDS RaftElection, TLC

\* Nothing goes wrong; the replicators run the given number of rounds.
Rounds(k) == [e \in EventKind |-> IF e = "round" THEN k ELSE 0]

ElectionEvents == [Rounds(1) EXCEPT !["crash"] = 1, !["persist"] = 1]
ReplicationEvents ==
    [Rounds(3) EXCEPT !["loss"] = 1, !["disk"] = 1, !["crash"] = 1]
LateWaiterEvents == Rounds(3)
TransferEvents == [Rounds(2) EXCEPT !["transfer"] = 1]
EndlessRoundsOneLoss == [Rounds(Unlimited) EXCEPT !["loss"] = 1]

-----------------------------------------------------------------------------
(* Two uncommitted histories.  Node 0 led term 1 and wrote one entry that    *)
(* reached nobody; node a led term 2 and did the same; node 0 won term 3     *)
(* with the vote of b and wrote a second entry.  Init leads here without a   *)
(* replication round and without a fault.                                    *)

CONSTANTS a, b

Val == CHOOSE v \in Value : TRUE
Wrote(t) == [term |-> t, val |-> Val]
Votes(t, S, c) == {Ballot(s, t, c) : s \in S}
PerNode(x, y, z) == [n \in Server |-> CASE n = Bootstrap -> x
                                        [] n = a -> y
                                        [] n = b -> z]

DivergedInit ==
    /\ Server = {Bootstrap, a, b}
    /\ role = PerNode(Leader, Follower, Follower)
    /\ currentTerm = [n \in Server |-> 3]
    /\ votedFor = PerNode(Bootstrap, NoVote, Bootstrap)
    /\ votesReceived = PerNode(2, 2, 0)
    /\ contact = [n \in Server |-> FALSE]
    /\ hard = [n \in Server |-> HardState(3, votedFor[n])]
    /\ log = PerNode(<<Wrote(1), Wrote(3)>>, <<Wrote(2)>>, <<>>)
    /\ commitIndex = [n \in Server |-> 0]
    /\ applied = [n \in Server |-> <<>>]
    /\ nextIndex = [n \in Server |->
                      [p \in Server |-> IF n = Bootstrap THEN 2 ELSE 1]]
    /\ matchIndex = [n \in Server |-> [p \in Server |-> 0]]
    /\ round = [n \in Server |-> [p \in Server |-> NoRound]]
    /\ waiting = PerNode([index |-> 2, entry |-> Wrote(3)], NoWait, NoWait)
    /\ transferring = [n \in Server |-> FALSE]
    /\ xfers = [n \in Server |-> {}]
    /\ net = {}
    /\ panicked = FALSE
    /\ used = [k \in EventKind |-> 0]
    /\ ballots = {Ballot(Bootstrap, 1, Bootstrap)} \cup Votes(2, {a, b}, a)
                   \cup Votes(3, {Bootstrap, b}, Bootstrap)
    /\ tally = PerNode({Bootstrap, b}, {a, b}, {})
    /\ elected = {[term |-> 1, node |-> Bootstrap], [term |-> 2, node |-> a],
                  [term |-> 3, node |-> Bootstrap]}
    /\ acked = {}

\* The two servers other than the bootstrap node are alike, from Init.
Followers == Permutations({a, b})

DivergedSpec == DivergedInit /\ [][Next]_vars
=============================================================================
