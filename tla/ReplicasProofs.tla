--------------------------- MODULE ReplicasProofs ---------------------------
(***************************************************************************)
(* Gossip as the replication of one writer's entries, for any nodes, keys  *)
(* and values.  Failure detection and expiry remove the nodes they should, *)
(* and every step of Gossip is a step of Replicas.  All from the           *)
(* invariants of GossipProofs.                                             *)
(***************************************************************************)
EXTENDS GossipProofs

(***************************************************************************)
(* What each method of clusterState keeps.                                 *)
(***************************************************************************)
Buried(c) == c.tombstones \cap c.nodes = {}

Expires(st) == st.expiry <=> st.left \/ st.unreachable

ExpiryInv(c, n) ==
    /\ Buried(c)
    /\ \A o \in Node \ {n} : Expires(c.state[o])

LEMMA AddNodesBuries ==
    ASSUME NEW c \in ClusterStates, NEW sender, NEW ids \in SUBSET Node, Buried(c)
    PROVE  LET r == AddNodes(c, sender, ids)
           IN  /\ Buried(r)
               /\ r.tombstones \subseteq c.tombstones
               /\ \A o \in c.tombstones : o \in r.nodes => o = sender
               /\ \A o \in c.tombstones : o # sender => o \in r.tombstones
<1> DEFINE new == Admitted(c, sender, ids)
           r == AddNodes(c, sender, ids)
<1>1. \A o \in new : o \in ids /\ o \notin c.nodes /\ (o \in c.tombstones => o = sender)
  BY Zenon DEF Admitted
<1>2. r.nodes = c.nodes \cup new /\ r.tombstones = c.tombstones \ new
  BY Zenon DEF AddNodes, ClusterStates
<1> HIDE DEF new, r
<1>3. Buried(r)
  BY Zenon, <1>1, <1>2 DEF Buried
<1>4. /\ r.tombstones \subseteq c.tombstones
      /\ \A o \in c.tombstones : o \in r.nodes => o = sender
      /\ \A o \in c.tombstones : o # sender => o \in r.tombstones
  BY Zenon, <1>1, <1>2 DEF Buried
<1> QED  BY Zenon, <1>3, <1>4 DEF r

LEMMA ApplyDigestExpiry ==
    ASSUME NEW c \in ClusterStates, NEW n, NEW sender, NEW digest, IsDigest(digest),
           ExpiryInv(c, n)
    PROVE  LET r == ApplyDigest(c, sender, digest)
           IN  /\ ExpiryInv(r, n)
               /\ \A o \in c.tombstones : o \in r.nodes => o = sender
               /\ \A o \in c.tombstones : o # sender => o \in r.tombstones
<1> DEFINE ids == {o \in DOMAIN digest : ~digest[o].left}
           r == ApplyDigest(c, sender, digest)
<1>1. ids \in SUBSET Node
  BY Zenon DEF IsDigest
<1>2. r = AddNodes(c, sender, ids)
  BY Zenon DEF ApplyDigest
<1>3. r.state = c.state
  BY Zenon, ApplyDigestFacts
<1> HIDE DEF ids, r
<1>4. /\ Buried(r)
      /\ \A o \in c.tombstones : o \in r.nodes => o = sender
      /\ \A o \in c.tombstones : o # sender => o \in r.tombstones
  BY Zenon, <1>1, <1>2, AddNodesBuries DEF ExpiryInv
<1>5. ExpiryInv(r, n)
  BY Zenon, <1>3, <1>4 DEF ExpiryInv
<1> QED  BY Zenon, <1>4, <1>5 DEF r

LEMMA ApplyEntriesExpiry ==
    ASSUME NEW st \in NodeState, NEW es, Expires(st)
    PROVE  Expires(ApplyEntries(st, es))
<1> DEFINE new == {e \in es : e.version > st.version}
           r == ApplyEntries(st, es)
<1>1. CASE new = {}
  BY Zenon, <1>1 DEF ApplyEntries
<1>2. CASE new # {}
  <2>1. /\ r.left = (st.left \/ HasKey(new, leftKey))
        /\ r.expiry = (st.expiry \/ HasKey(new, leftKey))
        /\ r.unreachable = st.unreachable
    BY Zenon, <1>2 DEF ApplyEntries, NodeState
  <2> QED  BY Zenon, <2>1 DEF Expires
<1> QED  BY Zenon, <1>1, <1>2

LEMMA ApplyDeltaExpiry ==
    ASSUME NEW c \in ClusterStates, NEW n, NEW sender, NEW delta, IsDelta(delta),
           ExpiryInv(c, n)
    PROVE  LET r == ApplyDelta(c, n, sender, delta)
           IN  /\ ExpiryInv(r, n)
               /\ \A o \in c.tombstones : o \in r.nodes => o = sender
               /\ \A o \in c.tombstones : o # sender => o \in r.tombstones
<1> DEFINE added == AddNodes(c, sender, DOMAIN delta)
           state == [o \in Node |->
                        IF o \in (DOMAIN delta \cap added.nodes) \ {n}
                        THEN ApplyEntries(c.state[o], delta[o])
                        ELSE c.state[o]]
           r == ApplyDelta(c, n, sender, delta)
<1>1. DOMAIN delta \in SUBSET Node
  BY Zenon DEF IsDelta
<1>2. /\ Buried(added)
      /\ \A o \in c.tombstones : o \in added.nodes => o = sender
      /\ \A o \in c.tombstones : o # sender => o \in added.tombstones
  BY Zenon, <1>1, AddNodesBuries DEF ExpiryInv
<1>3. added \in ClusterStates
  BY Zenon, <1>1, AddNodesFacts
<1>4. r = [added EXCEPT !.state = state]
  BY Zenon DEF ApplyDelta
<1>5. \A o \in Node \ {n} : Expires(state[o])
  <2> SUFFICES ASSUME NEW o \in Node \ {n} PROVE Expires(state[o])
    BY Zenon
  <2>1. c.state[o] \in NodeState /\ Expires(c.state[o])
    BY Zenon DEF ClusterStates, ExpiryInv
  <2>2. Expires(ApplyEntries(c.state[o], delta[o]))
    BY Zenon, <2>1, ApplyEntriesExpiry
  <2>3. state[o] = ApplyEntries(c.state[o], delta[o]) \/ state[o] = c.state[o]
    BY Zenon
  <2> HIDE DEF state
  <2> QED  BY Zenon, <2>1, <2>2, <2>3
<1> HIDE DEF added, state, r
<1>6. r.nodes = added.nodes /\ r.tombstones = added.tombstones /\ r.state = state
  BY Zenon, <1>3, <1>4 DEF ClusterStates
<1>7. ExpiryInv(r, n)
  BY Zenon, <1>2, <1>5, <1>6 DEF ExpiryInv, Buried
<1> QED  BY Zenon, <1>2, <1>6, <1>7 DEF r

LEMMA UpdateLivenessExpiry ==
    ASSUME NEW c \in ClusterStates, NEW n, NEW suspects, ExpiryInv(c, n)
    PROVE  LET r == UpdateLiveness(c, n, suspects)
           IN  ExpiryInv(r, n) /\ r.nodes = c.nodes
<1> DEFINE Checked(o) == [c.state[o] EXCEPT !.unreachable = o \in suspects,
                                            !.expiry = o \in suspects]
           state == [o \in Node |-> IF o \in c.nodes \ {n} /\ ~c.state[o].left
                                      /\ c.state[o].unreachable # (o \in suspects)
                                    THEN Checked(o) ELSE c.state[o]]
           r == UpdateLiveness(c, n, suspects)
<1>1. r = [c EXCEPT !.state = state]
  BY Zenon DEF UpdateLiveness
<1>2. ASSUME NEW o \in Node \ {n} PROVE Expires(state[o])
  <2>1. c.state[o] \in NodeState /\ Expires(c.state[o])
    BY Zenon DEF ClusterStates, ExpiryInv
  <2>2. ~c.state[o].left => Expires(Checked(o))
    BY Zenon, <2>1 DEF Expires, NodeState
  <2>3. state[o] = c.state[o] \/ (~c.state[o].left /\ state[o] = Checked(o))
    BY Zenon
  <2> HIDE DEF state, Checked
  <2> QED  BY Zenon, <2>1, <2>2, <2>3
<1> HIDE DEF state, r
<1>3. r.nodes = c.nodes /\ r.tombstones = c.tombstones /\ r.state = state
  BY Zenon, <1>1 DEF ClusterStates
<1> QED  BY Zenon, <1>2, <1>3 DEF ExpiryInv, Buried, r

LEMMA RemoveExpiredExpiry ==
    ASSUME NEW c \in ClusterStates, NEW n, NEW expired \in SUBSET Node, NEW stale, ExpiryInv(c, n)
    PROVE  LET r == RemoveExpired(c, expired, stale)
           IN  ExpiryInv(r, n) /\ r.nodes \subseteq c.nodes
<1> DEFINE r == RemoveExpired(c, expired, stale)
<1>1. /\ r.nodes = c.nodes \ expired
      /\ r.tombstones = (c.tombstones \ stale) \cup expired
      /\ \A o \in Node : r.state[o] = NewNode \/ r.state[o] = c.state[o]
  BY Zenon DEF RemoveExpired
<1>2. Expires(NewNode)
  BY Zenon DEF Expires, NewNode
<1> HIDE DEF r
<1>3. Buried(r)
  BY Zenon, <1>1 DEF ExpiryInv, Buried
<1> QED  BY Zenon, <1>1, <1>2, <1>3 DEF ExpiryInv, r

-----------------------------------------------------------------------------
(***************************************************************************)
(* So every step keeps it at every node.                                   *)
(***************************************************************************)
AllExpire == \A n \in Node : ExpiryInv(cluster[n], n)

SelfResurrects ==
    \A n, o \in Node :
        o \in cluster[n].tombstones /\ o \in cluster'[n].nodes =>
            \E p \in net : p.from = o /\ p.to = n

LEMMA ChangeExpiry ==
    ASSUME IInv, AllExpire, NEW m \in Node, NEW c,
           cluster' = [cluster EXCEPT ![m] = c],
           ExpiryInv(c, m),
           \A o \in cluster[m].tombstones : o \in c.nodes => \E p \in net : p.from = o /\ p.to = m
    PROVE  AllExpire' /\ SelfResurrects
<1>1. \A n \in Node : cluster'[n] = IF n = m THEN c ELSE cluster[n]
  BY Zenon DEF IInv, TypeOK
<1>2. AllExpire'
  BY Zenon, <1>1 DEF AllExpire
<1>3. ASSUME NEW n \in Node, NEW o \in Node, o \in cluster[n].tombstones, o \in cluster'[n].nodes
      PROVE  \E p \in net : p.from = o /\ p.to = n
  <2>1. CASE n = m
    BY <1>1, <1>3, <2>1
  <2>2. CASE n # m
    <3>1. cluster'[n] = cluster[n]
      BY Zenon, <1>1, <2>2
    <3>2. cluster[n].tombstones \cap cluster[n].nodes = {}
      BY Zenon DEF AllExpire, ExpiryInv, Buried
    <3> QED  BY Zenon, <1>3, <3>1, <3>2
  <2> QED  BY Zenon, <2>1, <2>2
<1> QED  BY Zenon, <1>2, <1>3 DEF SelfResurrects

LEMMA SameExpiry ==
    ASSUME IInv, AllExpire, NEW m \in Node, NEW c,
           cluster' = [cluster EXCEPT ![m] = c],
           ExpiryInv(c, m), c.nodes \subseteq cluster[m].nodes
    PROVE  AllExpire' /\ SelfResurrects
<1>1. cluster[m].tombstones \cap cluster[m].nodes = {}
  BY Zenon DEF AllExpire, ExpiryInv, Buried
<1>2. \A o \in cluster[m].tombstones : o \in c.nodes => \E p \in net : p.from = o /\ p.to = m
  BY Zenon, <1>1
<1> QED  BY Zenon, <1>2, ChangeExpiry

LEMMA LocalExpirySame ==
    ASSUME IInv, AllExpire, NEW n \in Node, NEW st, SetLocal(n, st)
    PROVE  AllExpire' /\ SelfResurrects
<1> DEFINE c == [cluster[n] EXCEPT !.state[n] = st]
<1>1. cluster[n] \in ClusterStates /\ ExpiryInv(cluster[n], n)
  BY Zenon, OwnState DEF AllExpire
<1>2. cluster' = [cluster EXCEPT ![n] = c]
  BY Zenon DEF SetLocal
<1>3. /\ c.nodes = cluster[n].nodes /\ c.tombstones = cluster[n].tombstones
      /\ \A o \in Node \ {n} : c.state[o] = cluster[n].state[o]
  BY Zenon, <1>1 DEF ClusterStates
<1> HIDE DEF c
<1>4. ExpiryInv(c, n)
  BY Zenon, <1>1, <1>3 DEF ExpiryInv, Buried
<1> QED  BY Zenon, <1>2, <1>3, <1>4, SameExpiry

LEMMA ReceiveExpiry ==
    ASSUME IInv, AllExpire, NEW p \in net, ReceiveDigest(p) \/ ReceiveDelta(p) \/ ReceiveJoin(p)
    PROVE  AllExpire' /\ SelfResurrects
<1>1. p.from \in Node /\ p.to \in Node /\ IsDigest(p.digest) /\ IsDelta(p.delta)
  BY Zenon, ReceiveFacts
<1> DEFINE a == cluster[p.to]
           b == ApplyDelta(a, p.to, p.from, p.delta)
           d == ApplyDigest(a, p.from, p.digest)
           c == ApplyDigest(b, p.from, p.digest)
           Fine(x) == /\ ExpiryInv(x, p.to)
                      /\ \A o \in a.tombstones : o \in x.nodes => o = p.from
<1>2. a \in ClusterStates /\ ExpiryInv(a, p.to)
  BY Zenon, <1>1, OwnState DEF AllExpire
<1>3. b \in ClusterStates
  BY ZenonT(60), DeltaApplied
<1>4. \/ cluster' = [cluster EXCEPT ![p.to] = b]
      \/ cluster' = [cluster EXCEPT ![p.to] = c]
      \/ cluster' = [cluster EXCEPT ![p.to] = d]
  BY Zenon DEF ReceiveDigest, ReceiveDelta, ReceiveJoin
<1> HIDE DEF a
<1>5. Fine(b) /\ \A o \in a.tombstones : o # p.from => o \in b.tombstones
  BY Zenon, <1>1, <1>2, ApplyDeltaExpiry
<1>6. Fine(d)
  BY Zenon, <1>1, <1>2, ApplyDigestExpiry
<1> HIDE DEF b
<1>7. Fine(c)
  <2>1. ExpiryInv(c, p.to) /\ \A o \in b.tombstones : o \in c.nodes => o = p.from
    BY Zenon, <1>1, <1>3, <1>5, ApplyDigestExpiry
  <2> HIDE DEF c
  <2> QED  BY Zenon, <1>5, <2>1
<1> HIDE DEF c, d
<1>8. \A x : Fine(x) /\ cluster' = [cluster EXCEPT ![p.to] = x] => AllExpire' /\ SelfResurrects
  BY Zenon, <1>1, ChangeExpiry DEF a
<1> HIDE DEF Fine
<1> QED  BY Zenon, <1>4, <1>5, <1>6, <1>7, <1>8

LEMMA ExpiryStep ==
    ASSUME IInv, AllExpire, Next
    PROVE  AllExpire' /\ SelfResurrects
<1> DEFINE Goal == AllExpire' /\ SelfResurrects
<1>1. ASSUME NEW n \in Node,
             \/ \E k \in Key, v \in Value : Upsert(n, k, v)
             \/ \E k \in Key : Delete(n, k)
             \/ Leave(n)
             \/ Compact(n)
      PROVE  Goal
  BY Zenon, <1>1, LocalExpirySame DEF Upsert, Delete, Leave, Compact
<1>2. ASSUME NEW n \in Node, CheckLiveness(n)
      PROVE  Goal
  <2>1. PICK suspects \in Suspects :
            cluster' = [cluster EXCEPT ![n] = UpdateLiveness(cluster[n], n, suspects)]
    BY Zenon, <1>2 DEF CheckLiveness
  <2>2. cluster[n] \in ClusterStates /\ ExpiryInv(cluster[n], n)
    BY Zenon, OwnState DEF AllExpire
  <2> QED  BY Zenon, <2>1, <2>2, UpdateLivenessExpiry, SameExpiry
<1>3. ASSUME NEW n \in Node, Expire(n)
      PROVE  Goal
  <2>1. PICK expired \in SUBSET cluster[n].nodes, stale \in SUBSET cluster[n].tombstones :
            cluster' = [cluster EXCEPT ![n] = RemoveExpired(cluster[n], expired, stale)]
    BY Zenon, <1>3 DEF Expire
  <2>2. cluster[n] \in ClusterStates /\ ExpiryInv(cluster[n], n)
    BY Zenon, OwnState DEF AllExpire
  <2>3. expired \in SUBSET Node
    BY Zenon, <2>2 DEF ClusterStates
  <2> QED  BY Zenon, <2>1, <2>2, <2>3, RemoveExpiredExpiry, SameExpiry
<1>4. ASSUME cluster' = cluster
      PROVE  Goal
  <2>1. AllExpire'
    BY Zenon, <1>4 DEF AllExpire
  <2>2. \A n \in Node : cluster[n].tombstones \cap cluster[n].nodes = {}
    BY Zenon DEF AllExpire, ExpiryInv, Buried
  <2> QED  BY Zenon, <1>4, <2>1, <2>2 DEF SelfResurrects
<1>5. ASSUME NEW n \in Node, NEW m \in Node, GossipRound(n, m) \/ Join(n, m) \/ SendLeave(n, m)
      PROVE  cluster' = cluster
  BY Zenon, <1>5 DEF GossipRound, Join, SendLeave
<1>6. ASSUME NEW p \in net, ReceiveDigest(p) \/ ReceiveDelta(p) \/ ReceiveJoin(p)
      PROVE  Goal
  BY Zenon, <1>6, ReceiveExpiry
<1>7. ASSUME NEW p \in net, Lose(p)
      PROVE  cluster' = cluster
  BY Zenon, <1>7 DEF Lose
<1> HIDE DEF Goal
<1>8. Goal
  BY Zenon, <1>1, <1>2, <1>3, <1>4, <1>5, <1>6, <1>7 DEF Next
<1> QED  BY Zenon, <1>8 DEF Goal

LEMMA ExpiryInitial == Init => AllExpire
<1> SUFFICES ASSUME Init, NEW n \in Node PROVE ExpiryInv(cluster[n], n)
  BY Zenon DEF AllExpire
<1>1. Expires(NewNode)
  BY Zenon DEF Expires, NewNode
<1>2. cluster[n] = newClusterState(n)
  BY Zenon DEF Init
<1>3. /\ newClusterState(n).tombstones = {}
      /\ \A o \in Node : newClusterState(n).state[o] = NewNode
  BY Zenon DEF newClusterState
<1> QED  BY Zenon, <1>1, <1>2, <1>3 DEF ExpiryInv, Buried

\* The invariant the theorems below need: of every view, an expiry goes with being
\* dead, and a tombstone with being unknown (UpdateLiveness, RemoveExpiredAt).
THEOREM AllExpireAlways == Spec => []AllExpire
<1>1. Init => AllExpire
  BY Zenon, ExpiryInitial
<1>2. IInv /\ AllExpire /\ [Next]_vars => AllExpire'
  <2>1. AllExpire /\ UNCHANGED vars => AllExpire'
    BY Zenon DEF AllExpire, vars
  <2> QED  BY Zenon, <2>1, ExpiryStep
<1> QED  BY <1>1, <1>2, Invariance, PTL DEF Spec

\* A node removed as expired is unknown while its tombstone lasts
\* (RemoveExpiredAt, tombstoned).
THEOREM TombstonesStayUnknown == Spec => []TombstonesAreUnknown
<1>1. AllExpire => TombstonesAreUnknown
  BY Zenon DEF AllExpire, ExpiryInv, Buried, TombstonesAreUnknown
<1> QED  BY <1>1, AllExpireAlways, PTL

\* A known node has an expiry exactly when it has left or is unreachable
\* (UpdateLiveness, applyDeltaEntry), in whatever order it left, was suspected
\* and recovered.
THEOREM ExpiryMatchesLiveness == Spec => []DeadNodesExpire
<1>1. IInv /\ AllExpire => DeadNodesExpire
  <2> SUFFICES ASSUME IInv, AllExpire, NEW n \in Node, NEW o \in cluster[n].nodes \ {n}
               PROVE  View(n, o).expiry <=> View(n, o).left \/ View(n, o).unreachable
    BY Zenon DEF DeadNodesExpire
  <2>1. o \in Node \ {n}
    BY Zenon DEF IInv, TypeOK, ClusterStates
  <2> QED  BY Zenon, <2>1 DEF AllExpire, ExpiryInv, Expires, View
<1> QED  BY <1>1, Invariance, AllExpireAlways, PTL

\* No other node reintroduces a node that was removed as expired (tombstoned).
THEOREM NoSecondHandReturn == Spec => OnlySelfResurrects
<1>1. IInv /\ AllExpire /\ [Next]_vars =>
          [\A n, o \in Node :
              o \in cluster[n].tombstones /\ o \in cluster'[n].nodes =>
                  \E p \in net : p.from = o /\ p.to = n]_vars
  BY Zenon, ExpiryStep DEF SelfResurrects
<1> QED  BY <1>1, Invariance, AllExpireAlways, PTL DEF Spec, OnlySelfResurrects

-----------------------------------------------------------------------------
(***************************************************************************)
(* The three kinds of step.                                                *)
(***************************************************************************)
Writes(n) ==
    \E st \in NodeState :
        /\ cluster' = [cluster EXCEPT ![n].state[n] = st]
        /\ Local(n).version < st.version
        /\ Local(n).left => st.left
        /\ UNCHANGED expiries

Learns(n) ==
    \E c \in ClusterStates :
        /\ cluster' = [cluster EXCEPT ![n] = c]
        /\ cluster[n].nodes \subseteq c.nodes
        /\ c.state[n] = Local(n)
        /\ UNCHANGED expiries

Drops(n) ==
    \E expired \in SUBSET (cluster[n].nodes \ {n}), stale \in SUBSET cluster[n].tombstones :
        /\ cluster' = [cluster EXCEPT ![n] = RemoveExpired(cluster[n], expired, stale)]
        /\ expiries' = [o \in Node |-> expiries[o] + IF o \in expired THEN 1 ELSE 0]

LEMMA PutWrites ==
    ASSUME IInv, NEW n \in Node, NEW k, NEW v, NEW deleted,
           [key |-> k, value |-> v, version |-> Local(n).version + 1, deleted |-> deleted] \in Entry
    PROVE  LET st == Put(Local(n), k, v, deleted)
           IN  st \in NodeState /\ Local(n).version < st.version /\ st.left = Local(n).left
<1>1. Local(n) \in NodeState /\ Local(n).version \in Nat
  BY Zenon, OwnerFacts
<1>2. /\ Put(Local(n), k, v, deleted) \in NodeState
      /\ Put(Local(n), k, v, deleted).version = Local(n).version + 1
      /\ Put(Local(n), k, v, deleted).left = Local(n).left
  BY SMTT(30), <1>1, PutFacts
<1> QED  BY <1>1, <1>2

LEMMA LocalOperationWrites ==
    ASSUME IInv, NEW n \in Node,
           \/ \E k \in Key, v \in Value : Upsert(n, k, v)
           \/ \E k \in Key : Delete(n, k)
           \/ Leave(n)
           \/ Compact(n)
    PROVE  Writes(n)
<1>1. Local(n).version + 1 \in Version
  BY OwnerFacts DEF Version
<1>2. ASSUME NEW k \in Key, NEW v \in Value, Upsert(n, k, v)
      PROVE  Writes(n)
  <2>1. [key |-> k, value |-> v, version |-> Local(n).version + 1, deleted |-> FALSE] \in Entry
    BY Zenon, <1>1 DEF Entry
  <2>2. /\ cluster' = [cluster EXCEPT ![n].state[n] = Put(Local(n), k, v, FALSE)]
        /\ UNCHANGED expiries
    BY Zenon, <1>2 DEF Upsert, SetLocal
  <2> QED  BY Zenon, <2>1, <2>2, PutWrites DEF Writes
<1>3. ASSUME NEW k \in Key, Delete(n, k)
      PROVE  Writes(n)
  <2>1. [key |-> k, value |-> Empty, version |-> Local(n).version + 1, deleted |-> TRUE] \in Entry
    BY Zenon, <1>1 DEF Entry
  <2>2. /\ cluster' = [cluster EXCEPT ![n].state[n] = Put(Local(n), k, Empty, TRUE)]
        /\ UNCHANGED expiries
    BY Zenon, <1>3 DEF Delete, SetLocal
  <2> QED  BY Zenon, <2>1, <2>2, PutWrites DEF Writes
<1>4. CASE Leave(n)
  <2> DEFINE put == Put(Local(n), leftKey, Empty, FALSE)
             st  == LeaveLocal(Local(n))
  <2>1. [key |-> leftKey, value |-> Empty, version |-> Local(n).version + 1, deleted |-> FALSE] \in Entry
    BY Zenon, <1>1 DEF Entry
  <2>2. put \in NodeState /\ Local(n).version < put.version
    BY Zenon, <2>1, PutWrites
  <2>3. st = [put EXCEPT !.left = TRUE]
    BY Zenon DEF LeaveLocal
  <2>4. cluster' = [cluster EXCEPT ![n].state[n] = st] /\ UNCHANGED expiries
    BY Zenon, <1>4 DEF Leave, SetLocal
  <2> HIDE DEF put, st
  <2>5. st \in NodeState /\ st.version = put.version /\ st.left
    BY Zenon, <2>2, <2>3 DEF NodeState
  <2> QED  BY Zenon, <2>2, <2>4, <2>5 DEF Writes
<1>5. CASE Compact(n)
  <2> DEFINE old == Local(n)
             st  == CompactLocal(old)
  <2>1. /\ old \in NodeState /\ old.version \in Nat
        /\ IsFiniteSet(old.entries)
        /\ \A e, f \in old.entries : e.key = f.key => e = f
        /\ old.entries # {} => \E e \in old.entries : e.version = old.version
        /\ \A e \in old.entries : e.version <= old.version
    BY Zenon, OwnerFacts
  <2>2. cluster' = [cluster EXCEPT ![n].state[n] = st] /\ UNCHANGED expiries
    BY Zenon, <1>5 DEF Compact, SetLocal
  <2>3. old.entries # {}
    <3> SUFFICES ASSUME old.entries = {} PROVE FALSE
      BY Zenon
    <3>1. {e \in old.entries : e.deleted} = {}
      BY Zenon
    <3>2. Cardinality({e \in old.entries : e.deleted}) >= CompactThreshold
      BY Zenon, <1>5 DEF Compact, Compacts
    <3>3. Cardinality({}) >= CompactThreshold
      <4> HIDE DEF old
      <4> QED  BY Zenon, <3>1, <3>2
    <3> QED  BY <3>3, FS_EmptySet, BoundAssumption
  <2> HIDE DEF old
  <2>4. st \in NodeState /\ st.version > old.version /\ st.left = old.left
    BY Zenon, <2>1, <2>3, CompactFacts
  <2> HIDE DEF st
  <2> QED  BY Zenon, <2>2, <2>4 DEF Writes, old
<1> QED  BY Zenon, <1>2, <1>3, <1>4, <1>5

LEMMA SendingLearnsNothing ==
    ASSUME IInv, NEW n \in Node, UNCHANGED <<cluster, expiries>>
    PROVE  Learns(n)
<1>1. /\ cluster[n] \in ClusterStates
      /\ cluster = [cluster EXCEPT ![n] = cluster[n]]
      /\ cluster[n].state[n] = Local(n)
  BY Zenon, OwnState
<1>2. cluster' = [cluster EXCEPT ![n] = cluster[n]] /\ UNCHANGED expiries
  BY Zenon, <1>1
<1> QED  BY Zenon, <1>1, <1>2 DEF Learns

LEMMA ReceivingLearns ==
    ASSUME IInv, NEW p \in net, ReceiveDigest(p) \/ ReceiveDelta(p) \/ ReceiveJoin(p)
    PROVE  p.to \in Node /\ Learns(p.to)
<1>1. p.from \in Node /\ p.to \in Node /\ IsDigest(p.digest)
  BY Zenon, ReceiveFacts
<1>2. cluster[p.to] \in ClusterStates /\ cluster[p.to].state[p.to] = Local(p.to)
  BY Zenon, <1>1, OwnState
<1> DEFINE b == ApplyDelta(cluster[p.to], p.to, p.from, p.delta)
           d == ApplyDigest(cluster[p.to], p.from, p.digest)
           c == ApplyDigest(b, p.from, p.digest)
<1>3. /\ b \in ClusterStates /\ cluster[p.to].nodes \subseteq b.nodes
      /\ b.state[p.to] = Local(p.to)
  BY ZenonT(60), DeltaApplied
<1>4. d \in ClusterStates /\ d.state = cluster[p.to].state /\ cluster[p.to].nodes \subseteq d.nodes
  BY ZenonT(30), <1>1, <1>2, ApplyDigestFacts
<1>5. c \in ClusterStates /\ c.state = b.state /\ b.nodes \subseteq c.nodes
  <2> HIDE DEF b
  <2> QED  BY ZenonT(30), <1>1, <1>3, ApplyDigestFacts
<1>6. \/ cluster' = [cluster EXCEPT ![p.to] = b] /\ UNCHANGED expiries
      \/ cluster' = [cluster EXCEPT ![p.to] = c] /\ UNCHANGED expiries
      \/ cluster' = [cluster EXCEPT ![p.to] = d] /\ UNCHANGED expiries
  BY Zenon DEF ReceiveDigest, ReceiveDelta, ReceiveJoin
<1> HIDE DEF b, c, d
<1> QED  BY Zenon, <1>1, <1>2, <1>3, <1>4, <1>5, <1>6 DEF Learns

LEMMA CheckingLearnsNothing ==
    ASSUME IInv, NEW n \in Node, CheckLiveness(n)
    PROVE  Learns(n)
<1>1. PICK suspects \in Suspects :
          cluster' = [cluster EXCEPT ![n] = UpdateLiveness(cluster[n], n, suspects)]
  BY Zenon DEF CheckLiveness
<1> DEFINE c == UpdateLiveness(cluster[n], n, suspects)
<1>2. cluster[n] \in ClusterStates /\ cluster[n].state[n] = Local(n)
  BY Zenon, OwnState
<1>3. SameUpToLiveness(c, cluster[n], n)
  BY Zenon, <1>2, UpdateLivenessFacts
<1>4. cluster' = [cluster EXCEPT ![n] = c] /\ UNCHANGED expiries
  BY Zenon, <1>1 DEF CheckLiveness
<1> HIDE DEF c
<1>5. c \in ClusterStates /\ c.nodes = cluster[n].nodes /\ c.state[n] = cluster[n].state[n]
  BY Zenon, <1>3 DEF SameUpToLiveness
<1> QED  BY Zenon, <1>2, <1>4, <1>5 DEF Learns

LEMMA ExpiringDrops ==
    ASSUME IInv, NEW n \in Node, Expire(n)
    PROVE  Drops(n)
<1> DEFINE due == {o \in cluster[n].nodes : cluster[n].state[o].expiry}
<1>1. due \subseteq cluster[n].nodes \ {n}
  BY Zenon DEF IInv, LocalNodeStays, Local
<1>2. \E expired \in SUBSET due, stale \in SUBSET cluster[n].tombstones :
        /\ cluster' = [cluster EXCEPT ![n] = RemoveExpired(cluster[n], expired, stale)]
        /\ expiries' = [o \in Node |-> expiries[o] + IF o \in expired THEN 1 ELSE 0]
  BY Zenon DEF Expire
<1> HIDE DEF due
<1> QED  BY Zenon, <1>1, <1>2 DEF Drops

LEMMA StepKinds ==
    ASSUME IInv, Next
    PROVE  \E n \in Node : Writes(n) \/ Learns(n) \/ Drops(n)
<1> DEFINE Goal == \E n \in Node : Writes(n) \/ Learns(n) \/ Drops(n)
<1>1. ASSUME NEW n \in Node,
             \/ \E k \in Key, v \in Value : Upsert(n, k, v)
             \/ \E k \in Key : Delete(n, k)
             \/ Leave(n)
             \/ Compact(n)
      PROVE  Goal
  BY Zenon, <1>1, LocalOperationWrites
<1>2. ASSUME NEW n \in Node, CheckLiveness(n) \/ Expire(n)
      PROVE  Goal
  BY Zenon, <1>2, CheckingLearnsNothing, ExpiringDrops
<1>3. ASSUME NEW n \in Node, NEW m \in Node, GossipRound(n, m) \/ Join(n, m) \/ SendLeave(n, m)
      PROVE  Goal
  <2>1. UNCHANGED <<cluster, expiries>>
    BY Zenon, <1>3 DEF GossipRound, Join, SendLeave
  <2> QED  BY Zenon, <2>1, SendingLearnsNothing
<1>4. ASSUME NEW p \in net, ReceiveDigest(p) \/ ReceiveDelta(p) \/ ReceiveJoin(p)
      PROVE  Goal
  BY Zenon, <1>4, ReceivingLearns
<1>5. ASSUME NEW p \in net, Lose(p)
      PROVE  Goal
  <2>1. p.to \in Node
    BY Zenon, ReceiveFacts
  <2>2. UNCHANGED <<cluster, expiries>>
    BY Zenon, <1>5 DEF Lose
  <2> QED  BY Zenon, <2>1, <2>2, SendingLearnsNothing
<1> HIDE DEF Goal
<1>6. Goal
  BY Zenon, <1>1, <1>2, <1>3, <1>4, <1>5 DEF Next
<1> QED  BY Zenon, <1>6 DEF Goal

-----------------------------------------------------------------------------
(***************************************************************************)
(* Each kind of step is a step of Replicas.                                *)
(***************************************************************************)

\* What the invariant says of a replica.
Good(n, o) ==
    /\ Replica(n, o).version <= Replica(o, o).version
    /\ Replica(n, o).left => Replica(o, o).left
    /\ o \notin Removed =>
           /\ \A e \in Replica(o, o).entries :
                 e.version <= Replica(n, o).version => e \in Replica(n, o).entries
           /\ Replica(n, o).version = Replica(o, o).version =>
                 /\ Replica(n, o).entries = Replica(o, o).entries
                 /\ Replica(n, o).left = Replica(o, o).left

AllGood == \A n, o \in Node : Good(n, o)

LEMMA ReplicasAreGood == IInv /\ Agreement => AllGood
<1> SUFFICES ASSUME IInv, Agreement, NEW n \in Node, NEW o \in Node
             PROVE  Good(n, o)
  BY Zenon DEF AllGood
<1>1. GoodView(View(n, o), o)
  BY Zenon DEF IInv, ViewInv
<1>2. o \notin Removed /\ View(n, o).version = Local(o).version =>
          View(n, o).entries = Local(o).entries /\ View(n, o).left = Local(o).left
  BY Zenon DEF Agreement
<1>3. View(o, o) = Local(o)
  BY Zenon DEF View, Local
<1> QED  BY Zenon, <1>1, <1>2, <1>3 DEF Good, Replica, GoodView

LEMMA ReplicaFields ==
    ASSUME NEW n, NEW o
    PROVE  /\ Replica(n, o).known <=> o \in cluster[n].nodes
           /\ Replica(n, o).version = View(n, o).version
           /\ Replica(n, o).left = View(n, o).left
           /\ Replica(n, o)'.known <=> o \in cluster'[n].nodes
           /\ Replica(n, o)'.version = View(n, o)'.version
           /\ Replica(n, o)'.left = View(n, o)'.left
BY Zenon DEF Replica

\* A replica of a node that is not known, or just started.
LEMMA NewReplica ==
    ASSUME NEW n, NEW o
    PROVE  /\ View(n, o) = NewNode /\ (o \in cluster[n].nodes <=> n = o) =>
                 Replica(n, o) = [known |-> n = o, version |-> 0, entries |-> {}, left |-> FALSE]
           /\ View(n, o)' = NewNode /\ (o \in cluster'[n].nodes <=> n = o) =>
                 Replica(n, o)' = [known |-> n = o, version |-> 0, entries |-> {}, left |-> FALSE]
<1>1. NewNode.version = 0 /\ NewNode.entries = {} /\ NewNode.left = FALSE
  BY Zenon DEF NewNode
<1>2. (o \in cluster[n].nodes <=> n = o) => (o \in cluster[n].nodes) = (n = o)
  OBVIOUS
<1>3. (o \in cluster'[n].nodes <=> n = o) => (o \in cluster'[n].nodes) = (n = o)
  OBVIOUS
<1> QED  BY Zenon, <1>1, <1>2, <1>3 DEF Replica

LEMMA SameReplica ==
    ASSUME NEW n, NEW o, View(n, o)' = View(n, o),
           o \in cluster'[n].nodes <=> o \in cluster[n].nodes
    PROVE  Replica(n, o)' = Replica(n, o)
BY DEF Replica

LEMMA WriteReplicas ==
    ASSUME IInv, IInv', \A m, o \in Node : Good(m, o)', NEW n \in Node, Writes(n)
    PROVE  R!Next
<1>1. PICK st \in NodeState : /\ cluster' = [cluster EXCEPT ![n].state[n] = st]
                              /\ Local(n).version < st.version
                              /\ Local(n).left => st.left
                              /\ UNCHANGED expiries
  BY Zenon DEF Writes
<1>2. cluster \in [Node -> ClusterStates]
  BY Zenon DEF IInv, TypeOK
<1>3. \A m, o \in Node : View(m, o)' = IF m = n /\ o = n THEN st ELSE View(m, o)
  BY <1>1, <1>2 DEF View, ClusterStates
<1>4. \A m \in Node : cluster'[m].nodes = cluster[m].nodes
  BY <1>1, <1>2 DEF ClusterStates
<1>5. \A m, p \in Node : m # n \/ p # n => Replica(m, p)' = Replica(m, p)
  BY Zenon, <1>3, <1>4, SameReplica
<1>6. /\ Replica(n, n).version < Replica(n, n)'.version
      /\ Replica(n, n).version <= Replica(n, n)'.version
      /\ Replica(n, n).left => Replica(n, n)'.left
      /\ Replica(n, n)'.known
  <2>1. View(n, n) = Local(n) /\ View(n, n)' = st
    BY Zenon, <1>3 DEF View, Local
  <2>2. n \in cluster'[n].nodes
    BY Zenon, <1>4 DEF IInv, LocalNodeStays
  <2>3. Local(n).version \in Nat /\ st.version \in Nat
    BY Zenon, OwnerFacts DEF NodeState
  <2> QED  BY SMTT(30), <1>1, <2>1, <2>2, <2>3, ReplicaFields
<1>7. Removed' = Removed
  BY Zenon, <1>1 DEF Removed
<1>8. R!Write(n)
  BY Zenon, <1>5, <1>6, <1>7 DEF R!Write, R!Owner, R!Forward, R!Allowed, R!Faithful, Good
<1> QED  BY Zenon, <1>8 DEF R!Next

LEMMA LearnReplicas ==
    ASSUME IInv, IInv', Advance, \A m, o \in Node : Good(m, o)', NEW n \in Node, Learns(n)
    PROVE  R!Next
<1>1. PICK c \in ClusterStates : /\ cluster' = [cluster EXCEPT ![n] = c]
                                 /\ cluster[n].nodes \subseteq c.nodes
                                 /\ c.state[n] = Local(n)
                                 /\ UNCHANGED expiries
  BY Zenon DEF Learns
<1>2. cluster \in [Node -> ClusterStates]
  BY Zenon DEF IInv, TypeOK
<1>3. \A m, o \in Node : View(m, o)' = IF m = n THEN c.state[o] ELSE View(m, o)
  BY Zenon, <1>1, <1>2 DEF View
<1>4. \A m \in Node : cluster'[m].nodes = IF m = n THEN c.nodes ELSE cluster[m].nodes
  BY Zenon, <1>1, <1>2
<1>5. \A m, o \in Node : m # n \/ o = n => Replica(m, o)' = Replica(m, o)
  <2>1. ASSUME NEW m \in Node, NEW o \in Node, m # n
        PROVE  Replica(m, o)' = Replica(m, o)
    BY Zenon, <1>3, <1>4, <2>1, SameReplica
  <2>2. Replica(n, n)' = Replica(n, n)
    <3>1. View(n, n)' = View(n, n)
      BY Zenon, <1>1, <1>3 DEF View, Local
    <3>2. n \in cluster[n].nodes /\ n \in cluster'[n].nodes
      BY Zenon DEF IInv, LocalNodeStays
    <3> QED  BY Zenon, <3>1, <3>2, SameReplica
  <2> QED  BY Zenon, <2>1, <2>2
<1>6. ASSUME NEW o \in Node, Replica(n, o).known
      PROVE  /\ Replica(n, o)'.known
             /\ Replica(n, o).version <= Replica(n, o)'.version
             /\ Replica(n, o).left => Replica(n, o)'.left
  <2>1. o \in cluster[n].nodes /\ o \in cluster'[n].nodes
    BY Zenon, <1>1, <1>4, <1>6 DEF Replica
  <2>2. View(n, o).version <= View(n, o)'.version /\ (View(n, o).left => View(n, o)'.left)
    BY Zenon, <2>1 DEF Advance
  <2> QED  BY Zenon, <2>1, <2>2 DEF Replica
<1>7. Removed' = Removed
  BY Zenon, <1>1 DEF Removed
<1>8. R!CatchUp(n)
  BY Zenon, <1>5, <1>6, <1>7 DEF R!CatchUp, R!Owner, R!Forward, R!Allowed, R!Faithful, Good
<1> QED  BY Zenon, <1>8 DEF R!Next

LEMMA DropReplicas ==
    ASSUME IInv, IInv', NEW n \in Node, Drops(n)
    PROVE  R!Next
<1>1. PICK expired \in SUBSET (cluster[n].nodes \ {n}), stale \in SUBSET cluster[n].tombstones :
        /\ cluster' = [cluster EXCEPT ![n] = RemoveExpired(cluster[n], expired, stale)]
        /\ expiries' = [o \in Node |-> expiries[o] + IF o \in expired THEN 1 ELSE 0]
  BY Zenon DEF Drops
<1> DEFINE c == RemoveExpired(cluster[n], expired, stale)
<1>2. cluster \in [Node -> ClusterStates] /\ expiries \in [Node -> Nat]
  BY Zenon DEF IInv, TypeOK
<1>3. expired \in SUBSET (Node \ {n})
  BY Zenon, <1>2 DEF ClusterStates
<1>4. /\ c.nodes = cluster[n].nodes \ expired
      /\ \A o \in Node : c.state[o] = IF o \in expired THEN NewNode ELSE View(n, o)
  BY Zenon DEF RemoveExpired, View
<1>5. cluster' = [cluster EXCEPT ![n] = c]
  BY Zenon, <1>1
<1> HIDE DEF c
<1>6. \A m, o \in Node :
          View(m, o)' = IF m = n /\ o \in expired THEN NewNode ELSE View(m, o)
  BY Zenon, <1>2, <1>4, <1>5 DEF View
<1>7. \A m \in Node : cluster'[m].nodes = IF m = n THEN cluster[n].nodes \ expired ELSE cluster[m].nodes
  BY Zenon, <1>2, <1>4, <1>5
<1>8. \A m, o \in Node : m # n \/ o \notin expired => Replica(m, o)' = Replica(m, o)
  <2> SUFFICES ASSUME NEW m \in Node, NEW o \in Node, m # n \/ o \notin expired
               PROVE  Replica(m, o)' = Replica(m, o)
    BY Zenon
  <2>1. View(m, o)' = View(m, o) /\ (o \in cluster'[m].nodes <=> o \in cluster[m].nodes)
    BY Zenon, <1>6, <1>7
  <2> QED  BY Zenon, <2>1, SameReplica
<1>9. ASSUME NEW o \in expired
      PROVE  /\ Replica(n, o).known
             /\ Replica(n, o)' = [known |-> n = o, version |-> 0, entries |-> {}, left |-> FALSE]
  <2>1. o \in Node /\ o \in cluster[n].nodes /\ o \notin cluster'[n].nodes /\ n # o
    BY Zenon, <1>3, <1>7
  <2>2. View(n, o)' = NewNode
    BY Zenon, <1>6, <2>1
  <2> QED  BY SMTT(30), <2>1, <2>2, ReplicaFields, NewReplica
<1>10. Removed' = Removed \cup expired
  BY SMTT(30), <1>1, <1>2, <1>3 DEF Removed
<1>11. R!Forget(n, expired)
  BY Zenon, <1>3, <1>8, <1>9, <1>10 DEF R!Forget, R!Initial
<1> QED  BY Zenon, <1>3, <1>11 DEF R!Next

LEMMA ReplicaStep ==
    ASSUME IInv, IInv', AllGood', [Next]_vars
    PROVE  [R!Next]_R!vars
<1>1. CASE UNCHANGED vars
  <2>1. cluster' = cluster /\ expiries' = expiries
    BY Zenon, <1>1 DEF vars
  <2>2. \A n, o : Replica(n, o)' = Replica(n, o)
    BY Zenon, <2>1 DEF Replica, View
  <2>3. Removed' = Removed
    BY Zenon, <2>1 DEF Removed
  <2> QED  BY Zenon, <2>2, <2>3 DEF R!vars
<1>2. CASE Next
  <2>1. Advance /\ \E n \in Node : Writes(n) \/ Learns(n) \/ Drops(n)
    BY Zenon, <1>2, NextStep, StepKinds
  <2>2. \A n, o \in Node : Good(n, o)'
    BY Zenon DEF AllGood
  <2> QED  BY Zenon, <2>1, <2>2, WriteReplicas, LearnReplicas, DropReplicas
<1> QED  BY Zenon, <1>1, <1>2

LEMMA ReplicaInit == Init => R!Init
<1> SUFFICES ASSUME Init PROVE R!Init
  BY Zenon
<1>1. \A n, o \in Node : Replica(n, o) = [known |-> n = o, version |-> 0, entries |-> {}, left |-> FALSE]
  <2> SUFFICES ASSUME NEW n \in Node, NEW o \in Node
               PROVE  View(n, o) = NewNode /\ (o \in cluster[n].nodes <=> n = o)
    BY NewReplica
  <2> QED  BY Zenon DEF Init, newClusterState, View
<1>2. Removed = {}
  BY DEF Init, Removed
<1> QED  BY <1>1, <1>2 DEF R!Init, R!Initial

\* The protocol replicates: whatever packets are lost, cut, duplicated or
\* reordered, a node's view of another is its state at a version, never goes
\* back, and ends only by expiry (pkg/gossip, as the Watcher sees it).
THEOREM GossipReplicates == Spec => ImplementsReplicas
<1>1. Init => R!Init
  BY Zenon, ReplicaInit
<1>2. IInv /\ IInv' /\ AllGood' /\ [Next]_vars => [R!Next]_R!vars
  BY Zenon, ReplicaStep
<1>3. IInv /\ Agreement => AllGood
  BY Zenon, ReplicasAreGood
<1> QED  BY <1>1, <1>2, <1>3, Invariance, SameVersionSameState, PTL DEF Spec, ImplementsReplicas, R!Spec
=============================================================================
