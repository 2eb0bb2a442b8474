------------------------------- MODULE Gossip -------------------------------
(***************************************************************************)
(* The gossip protocol (pkg/gossip): nodes spread their versioned entries  *)
(* with digests and deltas over UDP (gossip.go, listener.go) and with the  *)
(* join and leave streams over TCP.                                        *)
(*                                                                         *)
(* net is the set of messages in flight.  A packet may be lost, delivered  *)
(* late, out of order or more than once; a stream's message may be lost    *)
(* with its connection, but is not delivered twice.                        *)
(*                                                                         *)
(* A handler locks clusterState.mu once per method; here a handler is one  *)
(* step.  What may run between two of its methods commutes with the first, *)
(* or has the effect of a loss or a truncation of the reply.               *)
(***************************************************************************)
EXTENDS ClusterState

CONSTANTS
    JoinAddrs,        \* the nodes that node n is configured to join
    CompactThreshold, \* deleted entries that make CompactLocal compact
    MinEntries,       \* entries that always fit in a packet
    Unstable,         \* bound: the nodes a failure detector may suspect
    MaxVersion,       \* bound: the last version node n may write
    MaxPackets,       \* bound: messages in flight
    MaxExpiries       \* bound: how often a node is removed as expired

ASSUME BoundAssumption ==
    /\ JoinAddrs \in [Node -> SUBSET Node]
    /\ CompactThreshold \in Nat \ {0}
    /\ MinEntries \in Nat
    /\ Unstable \subseteq Node
    /\ MaxVersion \in [Node -> Nat]
    /\ MaxPackets \in Nat
    /\ MaxExpiries \in Nat

VARIABLES
    cluster,  \* cluster[n]: the clusterState of node n
    net,      \* messages in flight
    expiries  \* history: how often o was removed as expired, by any node

vars == <<cluster, net, expiries>>

Removed == {o \in Node : expiries[o] > 0}

-----------------------------------------------------------------------------
(***************************************************************************)
(* Messages.                                                               *)
(***************************************************************************)
IsMessage(p) ==
    /\ p.type \in {"digest", "delta", "join", "stream"}
    /\ p.from \in Node /\ p.to \in Node
    /\ p.request \in BOOLEAN
    /\ IsDigest(p.digest) /\ IsDelta(p.delta)

NoDigest == [o \in {} |-> [version |-> 0, left |-> FALSE]]
NoDelta  == [o \in {} |-> {}]

DigestMsg(n, m, digest, request) ==
    [type |-> "digest", from |-> n, to |-> m,
     request |-> request, digest |-> digest, delta |-> NoDelta]

DeltaMsg(n, m, type, delta) ==
    [type |-> type, from |-> n, to |-> m,
     request |-> FALSE, digest |-> NoDigest, delta |-> delta]

JoinMsg(n, m, digest, delta) ==
    [type |-> "join", from |-> n, to |-> m,
     request |-> TRUE, digest |-> digest, delta |-> delta]

\* What of a digest fits in a packet: it is shuffled, so any part of it.
PartialDigests(digest) ==
    {[o \in S |-> digest[o]] : S \in SUBSET DOMAIN digest}

\* Mutant: entries are written in any order.
PrefixesUnsorted(es) == SUBSET es

\* A node's entries are written in version order until the packet is full.
Prefixes(es) ==
    {{e \in es : e.version <= v} : v \in {0} \cup {e.version : e \in es}}

EntriesTotal(delta) ==
    MapThenSumSet(LAMBDA o : Cardinality(delta[o]), DOMAIN delta)

\* What of a delta fits in a packet: some nodes in full, then at most one cut.
PartialDeltas(delta) ==
    LET Cut(S, last) ==
            {[o \in S |-> IF o = last THEN es ELSE delta[o]] :
                 es \in Prefixes(delta[last])}
        Parts == {NoDelta} \cup
                 UNION {UNION {Cut(S, last) : last \in S} : S \in SUBSET DOMAIN delta}
    IN  {d \in Parts : EntriesTotal(d) >= MinEntries \/ d = delta}

-----------------------------------------------------------------------------
(***************************************************************************)
(* Local operations.                                                       *)
(***************************************************************************)
Local(n) == cluster[n].state[n]

SetLocal(n, st) ==
    /\ st.version <= MaxVersion[n]
    /\ cluster' = [cluster EXCEPT ![n].state[n] = st]
    /\ UNCHANGED <<net, expiries>>

Upsert(n, k, v) ==
    /\ UpsertChanges(Local(n), k, v)
    /\ SetLocal(n, Put(Local(n), k, v, FALSE))

Delete(n, k) ==
    /\ DeleteChanges(Local(n), k)
    /\ SetLocal(n, Put(Local(n), k, Empty, TRUE))

Leave(n) ==
    /\ ~Local(n).left
    /\ SetLocal(n, LeaveLocal(Local(n)))

Compact(n) ==
    /\ Compacts(Local(n), CompactThreshold)
    /\ SetLocal(n, CompactLocal(Local(n)))

-----------------------------------------------------------------------------
(***************************************************************************)
(* Sending.                                                                *)
(***************************************************************************)
Send(ms) ==
    /\ net' = net \cup ms
    /\ Cardinality(net') <= MaxPackets

\* The nodes a gossip round may pick: a live one and an unreachable one.
GossipTargets(n) ==
    {m \in cluster[n].nodes \ {n} :
        ~cluster[n].state[m].left \/ cluster[n].state[m].unreachable}

GossipRound(n, m) ==
    /\ m \in GossipTargets(n)
    /\ \E digest \in PartialDigests(Digest(cluster[n])) :
           Send({DigestMsg(n, m, digest, TRUE)})
    /\ UNCHANGED <<cluster, expiries>>

Join(n, m) ==
    /\ m \in JoinAddrs[n] \ {n}
    /\ Send({JoinMsg(n, m, Digest(cluster[n]), LocalDelta(cluster[n], n))})
    /\ UNCHANGED <<cluster, expiries>>

SendLeave(n, m) ==
    /\ Local(n).left
    /\ m \in cluster[n].nodes \ {n}
    /\ ~cluster[n].state[m].left /\ ~cluster[n].state[m].unreachable
    /\ Send({DeltaMsg(n, m, "stream", LocalDelta(cluster[n], n))})
    /\ UNCHANGED <<cluster, expiries>>

-----------------------------------------------------------------------------
(***************************************************************************)
(* Receiving.                                                              *)
(***************************************************************************)

\* Take p from the network, unless it is a packet that will be delivered
\* again, and send the replies, any of which may be lost.
Receive(p, replies) ==
    \E rest \in {net \ {p}} \cup (IF p.type \in {"digest", "delta"} THEN {net} ELSE {}),
       sent \in SUBSET replies :
        /\ net' = rest \cup sent
        /\ Cardinality(net') <= MaxPackets

ReceiveDigest(p) ==
    LET c == ApplyDigest(cluster[p.to], p.from, p.digest)
    IN  /\ p.type = "digest"
        /\ cluster' = [cluster EXCEPT ![p.to] = c]
        /\ \E delta \in PartialDeltas(Delta(c, p.digest, FALSE)) :
           \E digest \in IF p.request THEN PartialDigests(Digest(c)) ELSE {NoDigest} :
               Receive(p, {DeltaMsg(p.to, p.from, "delta", delta)}
                            \cup IF p.request
                                 THEN {DigestMsg(p.to, p.from, digest, FALSE)}
                                 ELSE {})
        /\ UNCHANGED expiries

ReceiveDelta(p) ==
    /\ p.type \in {"delta", "stream"}
    /\ cluster' = [cluster EXCEPT ![p.to] = ApplyDelta(@, p.to, p.from, p.delta)]
    /\ Receive(p, {})
    /\ UNCHANGED expiries

ReceiveJoin(p) ==
    LET c == ApplyDigest(ApplyDelta(cluster[p.to], p.to, p.from, p.delta),
                         p.from, p.digest)
    IN  /\ p.type = "join"
        /\ cluster' = [cluster EXCEPT ![p.to] = c]
        /\ Receive(p, {DeltaMsg(p.to, p.from, "stream", Delta(c, p.digest, TRUE))})
        /\ UNCHANGED expiries

Lose(p) ==
    /\ net' = net \ {p}
    /\ UNCHANGED <<cluster, expiries>>

-----------------------------------------------------------------------------
(***************************************************************************)
(* Periodic tasks.                                                         *)
(***************************************************************************)

\* accrualFailureDetector: the nodes whose suspicion level is above the
\* threshold.  Levels depend on when packets arrived, so any may be suspected,
\* running or not, and may be trusted again later.
Suspects == SUBSET Unstable

CheckLiveness(n) ==
    /\ \E suspects \in Suspects :
           cluster' = [cluster EXCEPT ![n] = UpdateLiveness(@, n, suspects)]
    /\ UNCHANGED <<net, expiries>>

Expire(n) ==
    \E expired \in SUBSET {o \in cluster[n].nodes : cluster[n].state[o].expiry},
       stale \in SUBSET cluster[n].tombstones :
        /\ cluster' = [cluster EXCEPT ![n] = RemoveExpired(@, expired, stale)]
        /\ expiries' = [o \in Node |-> expiries[o] + IF o \in expired THEN 1 ELSE 0]
        /\ \A o \in Node : expiries'[o] <= MaxExpiries
        /\ UNCHANGED net

-----------------------------------------------------------------------------
Init ==
    /\ cluster = [n \in Node |-> newClusterState(n)]
    /\ net = {}
    /\ expiries = [o \in Node |-> 0]

Next ==
    \/ \E n \in Node : \/ \E k \in Key, v \in Value : Upsert(n, k, v)
                       \/ \E k \in Key : Delete(n, k)
                       \/ Leave(n)
                       \/ Compact(n)
                       \/ CheckLiveness(n)
                       \/ Expire(n)
    \/ \E n, m \in Node : \/ GossipRound(n, m)
                          \/ Join(n, m)
                          \/ SendLeave(n, m)
    \/ \E p \in net : \/ ReceiveDigest(p)
                      \/ ReceiveDelta(p)
                      \/ ReceiveJoin(p)
                      \/ Lose(p)

Spec == Init /\ [][Next]_vars

-----------------------------------------------------------------------------
(***************************************************************************)
(* Properties.                                                             *)
(***************************************************************************)

\* Every clusterState and every message has the shape of the Go types.
TypeOK ==
    /\ cluster \in [Node -> ClusterStates]
    /\ \A p \in net : IsMessage(p)
    /\ expiries \in [Node -> Nat]

View(n, o) == cluster[n].state[o]

\* Applying h discards e: h has its key, or is a compaction past its version.
Supersedes(h, e) ==
    \/ h.key = e.key
    \/ h.key = compactKey /\ e.version <= h.value

\* Entry e of o is overtaken by an entry o now holds at a version above v.
Overtaken(e, o, v) ==
    \E h \in Local(o).entries : h.version > v /\ Supersedes(h, e)

\* A view of o that has reached version v (applyDeltaEntry) holds every entry
\* o still has up to v, however the entries were relayed, cut to fit packets,
\* duplicated or reordered: moving to version v skips nothing.
NothingSkipped ==
    \A n \in Node, o \in Node \ Removed :
        \A h \in Local(o).entries :
            h.version <= View(n, o).version => h \in View(n, o).entries

\* What a view holds and o no longer does is overtaken by an entry the view has
\* yet to receive, so no value or deleted key outlives its catching up, not
\* even when CompactLocal has discarded the deletion.
StaleIsBehind ==
    \A n \in Node, o \in Node \ Removed :
        \A e \in View(n, o).entries :
            e \in Local(o).entries \/ Overtaken(e, o, View(n, o).version)

\* Two nodes that advertise the same version of o in their digests, so send
\* each other no delta, hold the same entries when that is o's version.
Agreement ==
    \A n \in Node, o \in Node \ Removed :
        View(n, o).version = Local(o).version =>
            /\ View(n, o).entries = Local(o).entries
            /\ View(n, o).left = Local(o).left

\* A node that is behind another about o is told so, and a delta that is not cut
\* brings it level in one exchange: whatever compactions discarded, some entry
\* has the version a digest advertises, so no digest is answered with nothing
\* while it is behind (Delta, applyDeltaEntry).
CatchesUp ==
    \A n, m, o \in Node :
        LET news == DeltaEntries(View(n, o), View(m, o).version)
        IN  View(m, o).version < View(n, o).version =>
                /\ news # {}
                /\ ApplyEntries(View(m, o), news).version = View(n, o).version

\* A version of o names one write: no two entries of o, in any view or in any
\* message, share a version and differ, though compaction rewrites versions.
VersionNamesWrite ==
    \A o \in Node :
        LET all == (UNION {View(n, o).entries : n \in Node})
                     \cup (UNION {p.delta[o] : p \in {q \in net : o \in DOMAIN q.delta}})
        IN  \A e, f \in all : e.version = f.version => e = f

\* A node removed as expired is not known until its tombstone is gone
\* (RemoveExpiredAt, tombstoned), so it cannot be removed or joined twice over.
TombstonesAreUnknown ==
    \A n \in Node : cluster[n].tombstones \cap cluster[n].nodes = {}

\* A known node is waiting to expire exactly when it has left or is
\* unreachable (UpdateLiveness, applyDeltaEntry): a dead node cannot stay in
\* the cluster for good and a live one is not removed.
DeadNodesExpire ==
    \A n \in Node : \A o \in cluster[n].nodes \ {n} :
        View(n, o).expiry <=> View(n, o).left \/ View(n, o).unreachable

\* A node removed as expired is known again only once its tombstone is
\* discarded or it is heard from directly: no other node reintroduces it.
OnlySelfResurrects ==
    [][\A n, o \in Node :
          o \in cluster[n].tombstones /\ o \in cluster'[n].nodes =>
              \E p \in net : p.from = o /\ p.to = n]_vars

\* A node is never removed from its own state (UpdateLiveness skips it, a
\* delta about it is ignored): the gossip loop never expires its own node.
LocalNodeStays ==
    \A n \in Node : n \in cluster[n].nodes /\ ~Local(n).expiry

Advance ==
    \A n, o \in Node :
        o \in cluster[n].nodes /\ o \in cluster'[n].nodes =>
            /\ View(n, o).version <= View(n, o)'.version
            /\ View(n, o).left => View(n, o)'.left

\* While a node stays known its version never goes back and it never un-leaves,
\* whatever old delta arrives (applyDeltaEntry discards old versions).
ViewsAdvance == [][Advance]_vars

\* What node n holds about o, as the abstract specification sees it.
Replica(n, o) ==
    [known |-> o \in cluster[n].nodes, version |-> View(n, o).version,
     entries |-> View(n, o).entries, left |-> View(n, o).left]

R == INSTANCE Replicas WITH
         replica   <- [n \in Node |-> [o \in Node |-> Replica(n, o)]],
         forgotten <- Removed

\* Digests and deltas, however lost, cut, duplicated, reordered and relayed,
\* replicate each node's state: every step of the protocol is a write of an
\* owner, a node catching up, a node forgetting, or nothing (Replicas).
ImplementsReplicas == R!Spec

-----------------------------------------------------------------------------
(***************************************************************************)
(* The inductive invariant behind NothingSkipped, StaleIsBehind, Agreement *)
(* and ViewsAdvance: what holds of an owner, of any entry it ever wrote,   *)
(* of views and of messages.                                               *)
(***************************************************************************)

\* A node's own entries have one entry per key and one at its version; it has
\* a left entry exactly when it has left.
OwnerInv(o) ==
    LET es == Local(o).entries
    IN  /\ IsFiniteSet(es)
        /\ \A e, f \in es : e.key = f.key => e = f
        /\ es # {} => \E e \in es : e.version = Local(o).version
        /\ Local(o).left <=> HasKey(es, leftKey)

\* An entry of o, wherever it is, was written by o; a compaction discards
\* nothing that o still has.
Sound(e, o) ==
    /\ e.version <= Local(o).version
    /\ e.key = leftKey => Local(o).left
    /\ e.key = compactKey =>
           /\ e.value <= Local(o).version
           /\ \A h \in Local(o).entries : h.version > e.value

\* A view is behind its owner; unless the owner was removed as expired, it
\* lacks nothing up to its version and holds nothing stale for good.
GoodView(st, o) ==
    /\ st.version <= Local(o).version
    /\ \A e \in st.entries : e.version <= st.version /\ Sound(e, o)
    /\ HasKey(st.entries, leftKey) => st.left
    /\ st.left => Local(o).left
    /\ o \notin Removed =>
           /\ \A h \in Local(o).entries : h.version <= st.version => h \in st.entries
           /\ \A e \in st.entries : e \in Local(o).entries \/ Overtaken(e, o, st.version)

ViewInv(n, o) == GoodView(View(n, o), o)

\* A digest never claims more than its sender holds.  A delta continues its
\* receiver's view without a gap: between what the receiver has and any entry
\* of the delta, it has all that the owner has.
MessageInv(p) ==
    /\ \A o \in DOMAIN p.digest \ Removed : p.digest[o].version <= View(p.from, o).version
    /\ \A o \in DOMAIN p.delta :
        LET es == p.delta[o]
        IN  /\ \A e \in es : Sound(e, o)
            /\ o \notin Removed =>
                /\ \A x \in es, h \in Local(o).entries :
                       View(p.to, o).version < h.version /\ h.version <= x.version => h \in es
                /\ \A e \in es :
                       \/ e \in Local(o).entries
                       \/ \E h \in Local(o).entries :
                             (\A x \in es : h.version > x.version) /\ Supersedes(h, e)

IInv ==
    /\ TypeOK
    /\ \A o \in Node : OwnerInv(o)
    /\ \A n, o \in Node : ViewInv(n, o)
    /\ \A p \in net : MessageInv(p)
    /\ LocalNodeStays

-----------------------------------------------------------------------------
(***************************************************************************)
(* Liveness.  A node gossips with every node it knows again and again and  *)
(* its digests are shuffled, so that each part of one is sent; the network *)
(* loses packets, but not every packet that has news.                      *)
(***************************************************************************)

\* p holds an entry its receiver has not seen.
HasNews(p) ==
    \E o \in DOMAIN p.delta \ {p.to} :
        \E e \in p.delta[o] : e.version > View(p.to, o).version

GossipFullDigest(n, m) ==
    /\ GossipRound(n, m)
    /\ DigestMsg(n, m, Digest(cluster[n]), TRUE) \in net'

AnswerWithNews ==
    \E p \in net : /\ ReceiveDigest(p)
                   /\ \E q \in net' : q.type = "delta" /\ q.to = p.from /\ HasNews(q)

LearnFromDigest ==
    \E p \in net : ReceiveDigest(p) /\ cluster' # cluster

LearnFromDelta ==
    \E p \in net : ReceiveDelta(p) /\ HasNews(p)

Fairness ==
    /\ WF_vars(\E p \in net : Lose(p))
    /\ \A n \in Node : \A m \in Node \ {n} : SF_vars(GossipFullDigest(n, m))
    /\ SF_vars(AnswerWithNews)
    /\ SF_vars(LearnFromDigest)
    /\ SF_vars(LearnFromDelta)

FairSpec == Spec /\ Fairness

Active == {n \in Node : ~Local(n).left}

\* Once writes stop, the nodes that have not left and know each other, directly
\* or through others, all know each other and hold the same state: the state
\* of remote nodes "is eventually consistent and propagated via gossip"
\* (state.go:129), with packets lost, cut, duplicated and reordered.
EventuallyConsistent ==
    <>[](\A n, o \in Active :
            o \in cluster[n].nodes =>
                /\ n \in cluster[o].nodes
                /\ View(n, o).entries = Local(o).entries
                /\ \A m \in Active : m \in cluster[o].nodes => m \in cluster[n].nodes)
=============================================================================
