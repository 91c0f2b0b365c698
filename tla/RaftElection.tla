---------------------------- MODULE RaftElection ----------------------------
(***************************************************************************)
(* Why at most one node leads a term: the inductive invariant behind       *)
(* ElectionSafety, VotesSurviveRestart and CountedVotesAreDistinct.  It    *)
(* follows a vote from the durable ballot that casts it, through the       *)
(* message that carries it, to the counter that counts it.                 *)
(***************************************************************************)
EXTENDS Raft

IsRequest(m) == m.type = "RequestVote"

IsGrant(m) == m.type = "VoteResponse" /\ m.granted = TRUE

\* A node in term t with vote v can no longer vote against ballot b.
Binds(t, v, b) == t > b.term \/ (t = b.term /\ v = b.cand)

\* A ballot binds its voter in memory and on disk.
BallotsBind ==
    \A b \in ballots :
        /\ Binds(currentTerm[b.voter], votedFor[b.voter], b)
        /\ Binds(hard[b.voter].term, hard[b.voter].vote, b)

OneBallotPerTerm ==
    \A b, c \in ballots :
        b.voter = c.voter /\ b.term = c.term => b.cand = c.cand

\* Term 1 belongs to the bootstrap leader, and no node is ever in term 0.
TermsStartAtBootstrap ==
    /\ \A n \in Server : currentTerm[n] >= 1 /\ hard[n].term >= 1
    /\ \A b \in ballots : b.term >= 1 /\ (b.term = 1 => b.cand = Bootstrap)

\* A vote request was preceded by its sender's own ballot, and there is one
\* of it.
RequestsAreBacked ==
    \A m \in net : IsRequest(m) =>
        /\ m.from # m.to
        /\ Ballot(m.from, m.term, m.from) \in ballots
        /\ \A k \in net : (/\ IsRequest(k) /\ k.from = m.from /\ k.to = m.to
                           /\ k.term = m.term) => k = m

\* A granted vote is a durable ballot, and answers a request that is gone.
GrantsAreBacked ==
    \A m \in net : IsGrant(m) =>
        /\ Ballot(m.from, m.term, m.to) \in ballots
        /\ Ballot(m.to, m.term, m.to) \in ballots
        /\ \A k \in net : IsRequest(k) =>
              ~ (k.from = m.to /\ k.to = m.from /\ k.term = m.term)

\* Nothing in flight can be counted, or lead to a grant that can be counted,
\* if its voter is counted already.
CountsOnce(n) ==
    /\ n \in tally[n]
    /\ votesReceived[n] = Cardinality(tally[n])
    /\ \A v \in tally[n] : Ballot(v, currentTerm[n], n) \in ballots
    /\ \A m \in net :
         /\ (IsRequest(m) /\ m.from = n /\ m.term = currentTerm[n])
              => m.to \notin tally[n]
         /\ (IsGrant(m) /\ m.to = n /\ m.term = currentTerm[n])
              => m.from \notin tally[n]

NoVoteCountsTwice ==
    \A n \in Server : HasCampaigned(n) => CountsOnce(n)

HasMajority(e) ==
    \E Q \in SUBSET Server :
        /\ Cardinality(Q) >= Majority
        /\ \A v \in Q : Ballot(v, e.term, e.node) \in ballots

ElectedByMajority ==
    \A e \in elected :
        e = [term |-> 1, node |-> Bootstrap] \/ HasMajority(e)

\* Every vote that is or will be counted is one durable ballot of one voter:
\* what handleRequestVote, maybeStartElection, handleVoteResponse and
\* buildNode preserve between them.
ElectionInv ==
    /\ BallotsBind
    /\ OneBallotPerTerm
    /\ TermsStartAtBootstrap
    /\ RequestsAreBacked
    /\ GrantsAreBacked
    /\ NoVoteCountsTwice
    /\ ElectedByMajority
=============================================================================
