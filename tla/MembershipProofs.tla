-------------------------- MODULE MembershipProofs --------------------------
(***************************************************************************)
(* A server outside its own configuration leads only to see its own        *)
(* removal through, for every set of servers, every founding set and every *)
(* bound.                                                                  *)
(***************************************************************************)
EXTENDS Membership, TLAPS

\* A log without a configuration entry, or with a latest one.
HasLatest(lg) ==
    ConfigEntries(lg) # {} =>
        \E m \in ConfigEntries(lg) : \A x \in ConfigEntries(lg) : m >= x

\* The shape of the state.  What an entry looks like does not matter, only that
\* logs are sequences over some set T; no node replicates to itself.
Shape ==
    /\ \E T : log \in [Server -> Seq(T)]
    /\ role \in [Server -> {"follower", "candidate", "leader"}]
    /\ call \in [Server -> Nat]
    /\ DOMAIN base = Server
    /\ DOMAIN match = Server
    /\ \A s \in Server : s \notin DOMAIN match[s]
    /\ \A s \in Server : HasLatest(log[s])

\* Only voters stand for election, and a leader that is no voter waits for the
\* entry that removed it.
Placed(s) ==
    /\ role[s] = "candidate" => InConfig(s)
    /\ role[s] = "leader" /\ ~InConfig(s) =>
          /\ call[s] \in 1 .. Len(log[s])
          /\ s \notin log[s][call[s]].config

\* The inductive invariant.
OutsiderInv == Shape /\ \A s \in Server : Placed(s)

\* No step makes a leader of a server outside its configuration.
NoOutsiderElected(s) ==
    role'[s] = "leader" /\ ~InConfig(s)' => role[s] = "leader"

-----------------------------------------------------------------------------
\* The largest element of a set of numbers that has one.
LEMMA MaxIs ==
    ASSUME NEW S, NEW m \in S, m \in Nat, \A x \in S : x \in Nat /\ x <= m
    PROVE  Max(S) = m
<1>1. \A y \in S : m >= y
  OBVIOUS
<1>2. ASSUME NEW x \in S, \A y \in S : x >= y
      PROVE  x = m
  BY <1>2
<1> QED
  BY <1>1, <1>2 DEF Max

\* A configuration entry that is appended is the one adopted (adoptConfigLocked).
LEMMA AppendedIsAdopted ==
    ASSUME NEW s \in Server, NEW T, log[s] \in Seq(T), NEW e, e.config # Data,
           log'[s] = Append(log[s], e)
    PROVE  Config(s)' = e.config /\ HasLatest(log'[s])
<1> DEFINE lg == Append(log[s], e)
           n  == Len(log[s]) + 1
<1>1. Len(lg) = n /\ DOMAIN lg = 1 .. n /\ lg[n] = e /\ n \in Nat
  OBVIOUS
<1>2. n \in ConfigEntries(lg) /\ \A x \in ConfigEntries(lg) : x \in Nat /\ x <= n
  BY <1>1 DEF ConfigEntries
<1>3. Max(ConfigEntries(lg)) = n
  BY <1>1, <1>2, MaxIs
<1>4. ConfigEntries(lg) # {}
  BY <1>2
<1>5. Config(s)' = IF ConfigEntries(log'[s]) = {} THEN base'[s]
                   ELSE log'[s][Max(ConfigEntries(log'[s]))].config
  BY DEF Config, ConfigEntries
<1> QED
  BY <1>1, <1>2, <1>3, <1>4, <1>5 DEF HasLatest

\* Any other entry leaves the configuration alone.
LEMMA DataKeepsConfig ==
    ASSUME NEW s \in Server, NEW T, log[s] \in Seq(T), NEW e, e.config = Data,
           log'[s] = Append(log[s], e), base'[s] = base[s], HasLatest(log[s])
    PROVE  Config(s)' = Config(s) /\ HasLatest(log'[s])
<1> DEFINE lg == Append(log[s], e)
           n  == Len(log[s]) + 1
<1>1. /\ DOMAIN lg = 1 .. n /\ lg[n] = e /\ n \in Nat
      /\ DOMAIN log[s] = 1 .. n - 1
      /\ \A i \in 1 .. n - 1 : lg[i] = log[s][i]
  OBVIOUS
<1>2. ConfigEntries(lg) = ConfigEntries(log[s])
  BY <1>1 DEF ConfigEntries
<1>3. ASSUME ConfigEntries(log[s]) # {}
      PROVE  lg[Max(ConfigEntries(log[s]))] = log[s][Max(ConfigEntries(log[s]))]
  <2> DEFINE S == ConfigEntries(log[s])
  <2>1. S \subseteq 1 .. n - 1
    BY <1>1 DEF ConfigEntries
  <2>2. \E m \in S : \A x \in S : m >= x
    BY <1>3 DEF HasLatest
  <2>3. Max(S) \in S
    BY <2>2 DEF Max
  <2> QED
    BY <1>1, <2>1, <2>3
<1>4. Config(s)' = IF ConfigEntries(log'[s]) = {} THEN base'[s]
                   ELSE log'[s][Max(ConfigEntries(log'[s]))].config
  BY DEF Config, ConfigEntries
<1> QED
  BY <1>2, <1>3, <1>4 DEF Config, HasLatest

\* The configuration follows from the log and the base configuration.
LEMMA SameLogSameConfig ==
    ASSUME NEW s \in Server, log'[s] = log[s], base'[s] = base[s]
    PROVE  InConfig(s)' <=> InConfig(s)
BY DEF InConfig, Config, ConfigEntries

\* A server that a step leaves as it was, or makes a follower.
LEMMA Untouched ==
    ASSUME NEW s \in Server, Placed(s), log'[s] = log[s], base'[s] = base[s],
           \/ role'[s] = "follower"
           \/ role'[s] = role[s] /\ call'[s] = call[s]
    PROVE  Placed(s)' /\ NoOutsiderElected(s)
BY SameLogSameConfig DEF Placed, NoOutsiderElected

\* A follower may stand anywhere.
LEMMA FollowersArePlaced ==
    ASSUME NEW s \in Server, role'[s] = "follower"
    PROVE  Placed(s)' /\ NoOutsiderElected(s)
BY DEF Placed, NoOutsiderElected

-----------------------------------------------------------------------------
(* One lemma per kind of step.                                             *)

Preserved == OutsiderInv' /\ \A x \in Server : NoOutsiderElected(x)

\* maybeStartElection.
LEMMA CampaignKeeps ==
    ASSUME OutsiderInv, NEW s \in Server, Campaign(s)
    PROVE  Preserved
<1>1. Shape'
  BY DEF OutsiderInv, Shape, Campaign
<1>2. ASSUME NEW x \in Server
      PROVE  Placed(x)' /\ NoOutsiderElected(x)
  <2>1. log'[x] = log[x] /\ base'[x] = base[x] /\ call'[x] = call[x] /\ Placed(x)
    BY DEF OutsiderInv, Campaign
  <2>2. CASE x = s
    <3>1. role'[x] = "candidate" /\ InConfig(x)
      BY <2>2 DEF OutsiderInv, Shape, Campaign
    <3> QED
      BY <2>1, <3>1, SameLogSameConfig DEF Placed, NoOutsiderElected
  <2>3. CASE x # s
    <3>1. role'[x] = role[x]
      BY <2>3 DEF OutsiderInv, Shape, Campaign
    <3> QED
      BY <2>1, <3>1, Untouched
  <2> QED
    BY <2>2, <2>3
<1> QED
  BY <1>1, <1>2 DEF Preserved, OutsiderInv

\* becomeLeaderLocked keeps a peer that is no server's own.
LEMMA LeaderMatchHasNoSelf ==
    ASSUME NEW c \in Server, c \notin DOMAIN match[c]
    PROVE  c \notin DOMAIN LeaderMatch(c)
BY DEF LeaderMatch, VotingPeers

\* handleRequestVote and handleVoteResponse: who is elected was a candidate, and
\* candidates are voters.
LEMMA GrantKeeps ==
    ASSUME OutsiderInv, NEW c \in Server, NEW v \in Server, Grant(c, v)
    PROVE  Preserved
<1>0. c # v /\ role[c] = "candidate" /\ log' = log /\ base' = base
  BY DEF Grant, VotingPeers
<1>1. /\ role'[v] = "follower"
      /\ role'[c] \in {"candidate", "leader"}
      /\ role' \in [Server -> {"follower", "candidate", "leader"}]
      /\ \A x \in Server \ {c, v} : role'[x] = role[x]
      /\ \A x \in Server \ {v} : call'[x] = call[x]
      /\ call' \in [Server -> Nat]
  BY <1>0 DEF OutsiderInv, Shape, Grant, StepDown
<1>2. DOMAIN match' = Server /\ \A x \in Server : x \notin DOMAIN match'[x]
  <2>1. match' = match \/ match' = [match EXCEPT ![c] = LeaderMatch(c)]
    BY DEF Grant
  <2>2. c \notin DOMAIN LeaderMatch(c)
    BY LeaderMatchHasNoSelf DEF OutsiderInv, Shape
  <2> QED
    BY <2>1, <2>2 DEF OutsiderInv, Shape
<1>3. Shape'
  BY <1>0, <1>1, <1>2 DEF OutsiderInv, Shape
<1>4. ASSUME NEW x \in Server
      PROVE  Placed(x)' /\ NoOutsiderElected(x)
  <2>1. log'[x] = log[x] /\ base'[x] = base[x] /\ Placed(x)
    BY <1>0 DEF OutsiderInv
  <2>2. CASE x = c
    <3>1. InConfig(x)'
      BY <1>0, <2>1, <2>2, SameLogSameConfig DEF Placed
    <3> QED
      BY <3>1 DEF Placed, NoOutsiderElected
  <2>3. CASE x # c
    BY <1>1, <2>1, <2>3, Untouched
  <2> QED
    BY <2>2, <2>3
<1> QED
  BY <1>3, <1>4 DEF Preserved, OutsiderInv

\* stepDownLocked, on a refused vote, a refused round or a restart, and the end
\* of a removal: a node becomes a follower and its calls return.
LEMMA FollowerKeeps ==
    ASSUME OutsiderInv, NEW s \in Server, log' = log, base' = base,
           role' = [role EXCEPT ![s] = "follower"], call' = [call EXCEPT ![s] = 0],
           DOMAIN match' = Server, \A x \in Server : DOMAIN match'[x] = DOMAIN match[x]
    PROVE  Preserved
<1>1. Shape'
  BY DEF OutsiderInv, Shape
<1>2. ASSUME NEW x \in Server
      PROVE  Placed(x)' /\ NoOutsiderElected(x)
  <2>1. \/ role'[x] = "follower"
        \/ role'[x] = role[x] /\ call'[x] = call[x]
    BY DEF OutsiderInv, Shape
  <2> QED
    BY <2>1, Untouched DEF OutsiderInv
<1> QED
  BY <1>1, <1>2 DEF Preserved, OutsiderInv

\* handleAppendEntries makes its node a follower; the leader's own wait goes on
\* as long as it is outside its configuration.
LEMMA ReplicateKeeps ==
    ASSUME OutsiderInv, NEW l \in Server, NEW p \in Server, Replicate(l, p)
    PROVE  Preserved
<1>0. l # p /\ base' = base
  BY DEF OutsiderInv, Shape, Replicate, Reaches
<1>1. PICK T : log \in [Server -> Seq(T)]
  BY DEF OutsiderInv, Shape
<1>2. log' = [log EXCEPT ![p] = Replicated(l, p)] /\ Replicated(l, p) \in {log[l], log[p]}
  BY DEF Replicate, Replicated
<1>3. log' \in [Server -> Seq(T)] /\ \A x \in Server : HasLatest(log'[x])
  BY <1>1, <1>2 DEF OutsiderInv, Shape
<1>4. PICK now, known :
        /\ match' = [match EXCEPT ![l] = known]
        /\ DOMAIN known = DOMAIN match[l]
        /\ call' = [call EXCEPT ![p] = 0, ![l] = StillWaiting(call[l], now, Config(l), l)]
  BY <1>0 DEF OutsiderInv, Shape, Replicate
<1>5. StillWaiting(call[l], now, Config(l), l) \in {0, call[l]}
      /\ (~InConfig(l) => StillWaiting(call[l], now, Config(l), l) = call[l])
  BY DEF StillWaiting, InConfig
<1>6. /\ role' = [role EXCEPT ![p] = "follower"]
      /\ role' \in [Server -> {"follower", "candidate", "leader"}]
      /\ call' \in [Server -> Nat]
  <2>1. role' = [role EXCEPT ![p] = "follower"]
    BY DEF Replicate
  <2>2. role' \in [Server -> {"follower", "candidate", "leader"}]
    BY <2>1 DEF OutsiderInv, Shape
  <2>3. call \in [Server -> Nat] /\ StillWaiting(call[l], now, Config(l), l) \in Nat
    BY <1>5 DEF OutsiderInv, Shape
  <2>4. call' \in [Server -> Nat]
    BY <1>4, <2>3
  <2> QED
    BY <2>1, <2>2, <2>4
<1>7. DOMAIN match' = Server /\ \A x \in Server : x \notin DOMAIN match'[x]
  BY <1>4 DEF OutsiderInv, Shape
<1>8. Shape'
  BY <1>0, <1>3, <1>6, <1>7 DEF OutsiderInv, Shape
<1>9. ASSUME NEW x \in Server
      PROVE  Placed(x)' /\ NoOutsiderElected(x)
  <2>1. CASE x = p
    BY <1>6, <2>1, FollowersArePlaced DEF OutsiderInv, Shape
  <2>2. CASE x # p
    <3>1. log'[x] = log[x] /\ base'[x] = base[x] /\ role'[x] = role[x] /\ Placed(x)
      BY <1>0, <1>1, <1>2, <1>6, <2>2 DEF OutsiderInv, Shape
    <3>2. call'[x] = call[x] \/ InConfig(x)
      BY <1>4, <1>5, <2>2 DEF OutsiderInv, Shape
    <3> QED
      BY <3>1, <3>2, SameLogSameConfig DEF Placed, NoOutsiderElected
  <2> QED
    BY <2>1, <2>2
<1> QED
  BY <1>8, <1>9 DEF Preserved, OutsiderInv

\* proposeAndAwait, of anything but a change that leaves no voter.  Its caller is
\* a voter, since a leader that is none waits; after the change it still is, or
\* it waits for the entry that removed it.
LEMMA ProposeKeeps ==
    ASSUME OutsiderInv, NEW s \in Server, NEW config, Propose(s, config),
           base' = base, role' = role, match' = match
    PROVE  Preserved
<1> DEFINE e   == [term |-> term[s], config |-> config]
           lg  == Append(log[s], e)
           cfg == IF config = Data THEN Config(s) ELSE config
<1>1. PICK T : log \in [Server -> Seq(T)]
  BY DEF OutsiderInv, Shape
<1>2. log' = [log EXCEPT ![s] = lg] /\ role[s] = "leader" /\ call[s] = 0
  BY DEF Propose
<1>3. PICK now : call' = [call EXCEPT ![s] = StillWaiting(Len(lg), now, cfg, s)]
  BY DEF Propose
<1>4. log[s] \in Seq(T) /\ lg \in Seq(T \cup {e}) /\ Len(lg) = Len(log[s]) + 1
      /\ lg[Len(lg)] = e /\ Len(lg) \in Nat /\ log'[s] = lg
  <2>1. log[s] \in Seq(T) /\ log'[s] = lg
    BY <1>1, <1>2
  <2>2. log[s] \in Seq(T \cup {e})
    BY <2>1
  <2> QED
    BY <2>1, <2>2
<1>5. log' \in [Server -> Seq(T \cup {e})]
  <2>1. \A x \in Server : log[x] \in Seq(T \cup {e})
    BY <1>1
  <2> QED
    BY <1>1, <1>2, <1>4, <2>1
<1>6. Config(s)' = cfg /\ HasLatest(log'[s])
  <2>0. e.config = config /\ log'[s] = Append(log[s], e)
        /\ base'[s] = base[s] /\ HasLatest(log[s])
    BY <1>4 DEF OutsiderInv, Shape
  <2> HIDE DEF e
  <2>1. CASE config = Data
    BY <1>4, <2>0, <2>1, DataKeepsConfig
  <2>2. CASE config # Data
    BY <1>4, <2>0, <2>2, AppendedIsAdopted
  <2> QED
    BY <2>1, <2>2
<1>7. InConfig(s)
  BY <1>2 DEF OutsiderInv, Placed
<1>8. call' \in [Server -> Nat]
  BY <1>3, <1>4 DEF OutsiderInv, Shape, StillWaiting
<1>9. \A x \in Server : HasLatest(log'[x])
  BY <1>1, <1>2, <1>6 DEF OutsiderInv, Shape
<1>10. Shape'
  BY <1>5, <1>8, <1>9 DEF OutsiderInv, Shape
<1>11. ASSUME NEW x \in Server
       PROVE  Placed(x)' /\ NoOutsiderElected(x)
  <2>1. CASE x # s
    <3>1. log'[x] = log[x] /\ call'[x] = call[x]
      BY <1>1, <1>2, <1>3, <2>1 DEF OutsiderInv, Shape
    <3> QED
      BY <3>1, Untouched DEF OutsiderInv
  <2>2. CASE x = s
    <3>1. CASE s \in cfg
      BY <1>2, <1>6, <2>2, <3>1 DEF Placed, NoOutsiderElected, InConfig
    <3>2. CASE s \notin cfg
      <4>1. config # Data /\ s \notin config
        BY <1>7, <3>2 DEF InConfig
      <4>2. call'[s] = Len(lg)
        BY <1>3, <3>2 DEF OutsiderInv, Shape, StillWaiting
      <4>3. call'[s] \in 1 .. Len(log'[s]) /\ s \notin log'[s][call'[s]].config
        BY <1>4, <4>1, <4>2
      <4> QED
        BY <1>2, <2>2, <4>3 DEF Placed, NoOutsiderElected
    <3> QED
      BY <3>1, <3>2
  <2> QED
    BY <2>1, <2>2
<1> QED
  BY <1>10, <1>11 DEF Preserved, OutsiderInv

\* addServer's learner phase touches no role, no log and no wait.
LEMMA AddKeeps ==
    ASSUME OutsiderInv, NEW s \in Server,
           (\E id \in Server : AddLearner(s, id)) \/ AddFails(s)
    PROVE  Preserved
<1>1. log' = log /\ base' = base /\ role' = role /\ call' = call
  BY DEF AddLearner, AddFails
<1>2. DOMAIN match' = Server /\ \A x \in Server : x \notin DOMAIN match'[x]
  <2>1. CASE AddFails(s)
    BY <2>1 DEF AddFails, OutsiderInv, Shape
  <2>2. ASSUME NEW id \in Server, AddLearner(s, id)
        PROVE  DOMAIN match' = Server /\ \A x \in Server : x \notin DOMAIN match'[x]
    <3>1. PICK known : match' = [match EXCEPT ![s] = known]
                       /\ DOMAIN known \in {DOMAIN match[s], DOMAIN match[s] \cup {id}}
      BY <2>2 DEF AddLearner
    <3>2. id # s
      BY <2>2 DEF AddLearner
    <3> QED
      BY <3>1, <3>2 DEF OutsiderInv, Shape
  <2> QED
    BY <2>1, <2>2
<1>3. Shape'
  BY <1>1, <1>2 DEF OutsiderInv, Shape
<1>4. \A x \in Server : Placed(x)' /\ NoOutsiderElected(x)
  BY <1>1, Untouched DEF OutsiderInv
<1> QED
  BY <1>3, <1>4 DEF Preserved, OutsiderInv

-----------------------------------------------------------------------------
\* A cluster starts with its voters in place.
LEMMA InitPlaced == Init => OutsiderInv
<1> SUFFICES ASSUME Init PROVE OutsiderInv
  OBVIOUS
<1>1. PICK f \in Foundings :
        /\ base = [s \in Server |-> IF s \in f THEN f ELSE {}]
        /\ match = [s \in Server |-> [p \in f \ {s} |-> 0]]
  BY DEF Init
<1>2. log = [s \in Server |-> <<>>] /\ call = [s \in Server |-> 0]
      /\ \E first \in {"leader", "follower"} :
            role = [s \in Server |-> IF s = Node0 THEN first ELSE "follower"]
  BY DEF Init
<1>3. \A s \in Server : ConfigEntries(log[s]) = {}
  BY <1>2 DEF ConfigEntries
<1>4. log \in [Server -> Seq({})]
  BY <1>2
<1>5. Shape
  BY <1>1, <1>2, <1>3, <1>4 DEF Shape, HasLatest
<1>6. Node0 \in f
  BY <1>1, MembershipAssumption
<1>7. ASSUME NEW s \in Server
      PROVE  Placed(s)
  <2>1. role[s] # "candidate" /\ (role[s] = "leader" => s = Node0)
    BY <1>2
  <2>2. s = Node0 => InConfig(s)
    BY <1>1, <1>3, <1>6 DEF InConfig, Config
  <2> QED
    BY <2>1, <2>2 DEF Placed
<1> QED
  BY <1>5, <1>7 DEF OutsiderInv

\* Every step keeps the invariant, and elects no outsider.
LEMMA NextKeeps ==
    ASSUME OutsiderInv, [Next]_vars
    PROVE  Preserved
<1>1. CASE UNCHANGED vars
  <2>1. Shape'
    BY <1>1 DEF OutsiderInv, Shape, vars, nodes
  <2>2. \A x \in Server : Placed(x)' /\ NoOutsiderElected(x)
    BY <1>1, Untouched DEF OutsiderInv, vars, nodes
  <2> QED
    BY <2>1, <2>2 DEF Preserved, OutsiderInv
<1>2. ASSUME NEW s \in Server, Put(s) \/ PromoteLearner(s)
      PROVE  Preserved
  BY <1>2, ProposeKeeps DEF Put, PromoteLearner
<1>3. ASSUME NEW s \in Server, NEW id \in Server, RemoveServer(s, id)
      PROVE  Preserved
  BY <1>3, ProposeKeeps DEF RemoveServer
<1>4. ASSUME NEW s \in Server, Relinquish(s) \/ Restart(s)
      PROVE  Preserved
  <2>1. /\ log' = log /\ base' = base
        /\ role' = [role EXCEPT ![s] = "follower"] /\ call' = [call EXCEPT ![s] = 0]
    BY <1>4 DEF Relinquish, Restart
  <2>2. DOMAIN match' = Server /\ \A x \in Server : DOMAIN match'[x] = DOMAIN match[x]
    BY <1>4 DEF Relinquish, Restart, OutsiderInv, Shape
  <2> QED
    BY <2>1, <2>2, FollowerKeeps
<1>5. ASSUME NEW s \in Server, NEW p \in Server, Refuse(s, p) \/ RefuseAppend(s, p)
      PROVE  Preserved
  <2>1. log' = log /\ base' = base /\ match' = match
    BY <1>5 DEF Refuse, RefuseAppend
  <2>2. \E x \in Server : /\ role' = [role EXCEPT ![x] = "follower"]
                          /\ call' = [call EXCEPT ![x] = 0]
    BY <1>5 DEF Refuse, RefuseAppend, Follow, StepDown
  <2>3. DOMAIN match' = Server /\ \A x \in Server : DOMAIN match'[x] = DOMAIN match[x]
    BY <2>1 DEF OutsiderInv, Shape
  <2> QED
    BY <2>1, <2>2, <2>3, FollowerKeeps
<1>6. CASE Next
  BY <1>2, <1>3, <1>4, <1>5, <1>6, CampaignKeeps, GrantKeeps, ReplicateKeeps, AddKeeps DEF Next
<1> QED
  BY <1>1, <1>6

-----------------------------------------------------------------------------
\* A server that is not in its own configuration leads only to see its own
\* removal through, for every set of servers and every sequence of additions,
\* removals, elections and restarts: maybeStartElection and the lock commitMu that
\* removeServer holds until the leader relinquishes are enough.
THEOREM OutsidersFinish == Spec => OutsidersOnlyFinish
<1>1. Init => OutsiderInv
  BY InitPlaced
<1>2. OutsiderInv /\ [Next]_vars => OutsiderInv'
  BY NextKeeps DEF Preserved
<1>3. OutsiderInv /\ [Next]_vars =>
        [\A s \in Server : role'[s] = "leader" /\ ~InConfig(s)' =>
            role[s] = "leader" /\ call'[s] # 0 /\ s \notin log'[s][call'[s]].config]_vars
  <2> SUFFICES ASSUME OutsiderInv, [Next]_vars, NEW s \in Server,
                      role'[s] = "leader", ~InConfig(s)'
               PROVE  role[s] = "leader" /\ call'[s] # 0 /\ s \notin log'[s][call'[s]].config
    OBVIOUS
  <2>1. Placed(s)' /\ NoOutsiderElected(s)
    BY NextKeeps DEF Preserved, OutsiderInv
  <2> QED
    BY <2>1 DEF Placed, NoOutsiderElected
<1> QED
  BY <1>1, <1>2, <1>3, PTL DEF Spec, OutsidersOnlyFinish

=============================================================================
