------------------------------- MODULE Syncer -------------------------------
(***************************************************************************)
(* Gossip with the syncer of every node (server/gossip/syncer.go), which   *)
(* publishes the node's own addresses and endpoints as gossip entries and, *)
(* as gossip's Watcher, keeps cluster.State (server/cluster/state.go), the *)
(* map requests are routed by, in line with the entries of other nodes.    *)
(*                                                                         *)
(* Gossip calls its Watcher with clusterState.mu held, so the callbacks of *)
(* a Gossip step are part of the step.  A callback about a node touches no *)
(* other node, so the calls of a step are followed node by node.  The      *)
(* value of an endpoint's entry is the number its decimal text denotes.    *)
(***************************************************************************)
EXTENDS Gossip

CONSTANTS
    proxy_addr, admin_addr,  \* the keys of the immutable fields
    Endpoint,                \* endpoint e stands for the key "endpoint:e"
    Addr,                    \* an address
    MaxListeners             \* bound: the listeners of an endpoint

ASSUME KeysAssumption ==
    /\ proxy_addr # admin_addr
    /\ proxy_addr \notin Endpoint /\ admin_addr \notin Endpoint
    /\ Key = {proxy_addr, admin_addr} \cup Endpoint
    /\ Value = {Addr} \cup 1..MaxListeners

VARIABLES
    pendingNodes,  \* pendingNodes[n][o]: what n's syncer knows of o, in part
    nodes          \* nodes[n][o]: o in n's cluster.State

syncVars == <<vars, pendingNodes, nodes>>

AddrKeys == {proxy_addr, admin_addr}

\* cluster.Node: fields are the immutable ones that are set, endpoints[e] is 0
\* when e is not in Endpoints.  NoNode stands for a node not in the map.
NoNode == [status |-> "none", fields |-> {}, endpoints |-> [e \in Endpoint |-> 0]]

\* The status of a node before it is known.
Unset == ""

NewPending == [NoNode EXCEPT !.status = Unset]

\* What n's syncer and its cluster.State hold of o.
Held(n, o) == [pending |-> pendingNodes[n][o], node |-> nodes[n][o]]

-----------------------------------------------------------------------------
(***************************************************************************)
(* The Watcher callbacks about a node other than the local one, on what is *)
(* held of it.                                                             *)
(***************************************************************************)
OnJoin(h) ==
    IF h.node # NoNode \/ h.pending # NoNode THEN h ELSE [h EXCEPT !.pending = NewPending]

\* OnReachable and OnUnreachable.
OnStatus(h, status) ==
    IF h.node # NoNode THEN [h EXCEPT !.node.status = status]
    ELSE IF h.pending # NoNode THEN [h EXCEPT !.pending.status = status]
    ELSE h

\* Mutant: the status of a pending node is forgotten when it is added.
PromotedActive(node) == [node EXCEPT !.status = "active"]

Promoted(node) == [node EXCEPT !.status = IF @ = Unset THEN "active" ELSE @]

OnLeave(h) ==
    IF h.node # NoNode THEN [h EXCEPT !.node.status = "left"] ELSE [h EXCEPT !.pending = NoNode]

\* Mutant: a pending node is kept.
OnExpiredInCluster(h) == [h EXCEPT !.node = NoNode]

OnExpired(h) ==
    IF h.node # NoNode THEN [h EXCEPT !.node = NoNode] ELSE [h EXCEPT !.pending = NoNode]

WithKey(node, k, v) ==
    IF k \in Endpoint THEN [node EXCEPT !.endpoints[k] = v]
    ELSE [node EXCEPT !.fields = @ \cup {k}]

\* Add key k to a pending node, which joins the cluster once it has its addresses.
UpsertPending(h, k, v) ==
    LET node == WithKey(h.pending, k, v)
    IN  IF node.fields = AddrKeys THEN [pending |-> NoNode, node |-> Promoted(node)]
        ELSE [h EXCEPT !.pending = node]

\* Mutant: a node in the cluster is not updated.
OnUpsertKeyPending(h, k, v) ==
    IF h.pending # NoNode THEN UpsertPending(h, k, v) ELSE h

OnUpsertKey(h, k, v) ==
    IF h.node # NoNode
    THEN IF k \in Endpoint THEN [h EXCEPT !.node = WithKey(@, k, v)] ELSE h
    ELSE IF h.pending # NoNode THEN UpsertPending(h, k, v) ELSE h

WithoutKeys(node, ks) ==
    [node EXCEPT !.endpoints = [e \in Endpoint |-> IF e \in ks THEN 0 ELSE @[e]]]

\* For each key of ks, in any order: only endpoints can be deleted.
OnDeleteKey(h, ks) ==
    IF h.node # NoNode THEN [h EXCEPT !.node = WithoutKeys(@, ks)]
    ELSE IF h.pending # NoNode THEN [h EXCEPT !.pending = WithoutKeys(@, ks)]
    ELSE h

-----------------------------------------------------------------------------
(***************************************************************************)
(* The calls gossip makes about node o, in order.                          *)
(***************************************************************************)

\* For entry e, applied to st (applyDeltaEntry).
OnEntry(h, st, e) ==
    IF e.key = leftKey THEN OnLeave(h)
    ELSE IF e.key = compactKey
    THEN OnDeleteKey(h, {f.key : f \in {f \in st.entries : f.version <= e.value /\ ~f.deleted}})
    ELSE IF e.deleted THEN OnDeleteKey(h, {e.key})
    ELSE OnUpsertKey(h, e.key, e.value)

\* For the entry of es with version v, if it is new, once those before it are
\* applied to st.
AfterVersion(h, st, es, v) ==
    LET new == {e \in es : e.version = v /\ v > st.version}
    IN  IF new = {} THEN h
        ELSE OnEntry(h, ApplyEntries(st, {f \in es : f.version < v}), CHOOSE e \in new : TRUE)

\* For the entries of es, applied to st in version order.
AfterEntries(h, st, es) ==
    LET last == ApplyEntries(st, es).version
        upTo[v \in 0..last] == IF v = 0 THEN h ELSE AfterVersion(upTo[v - 1], st, es, v)
    IN  upTo[last]

AfterDigest(h, o, c, sender, digest) ==
    IF o \in Admitted(c, sender, {x \in DOMAIN digest : ~digest[x].left}) THEN OnJoin(h) ELSE h

AfterDelta(h, o, c, sender, delta) ==
    LET joined == IF o \in Admitted(c, sender, DOMAIN delta) THEN OnJoin(h) ELSE h
    IN  IF o \in DOMAIN delta \cap AddNodes(c, sender, DOMAIN delta).nodes
        THEN AfterEntries(joined, c.state[o], delta[o]) ELSE joined

\* From cluster state c to d.
AfterLiveness(h, o, c, d) ==
    IF o \in d.nodes /\ c.state[o].unreachable # d.state[o].unreachable
    THEN OnStatus(h, IF d.state[o].unreachable THEN "unreachable" ELSE "active") ELSE h

AfterExpiry(h, o, c, d) == IF o \in c.nodes \ d.nodes THEN OnExpired(h) ELSE h

\* Every callback ignores the local node.
Handle(n, held) ==
    /\ pendingNodes' = [pendingNodes EXCEPT ![n] =
                           [o \in Node |-> IF o = n THEN @[o] ELSE held[o].pending]]
    /\ nodes' = [nodes EXCEPT ![n] = [o \in Node |-> IF o = n THEN @[o] ELSE held[o].node]]

-----------------------------------------------------------------------------
(***************************************************************************)
(* The local node: Sync publishes its addresses when it starts, and        *)
(* onLocalEndpointUpdate each change of the listeners of an endpoint.      *)
(***************************************************************************)
Sync(n) ==
    /\ IF HasKey(Local(n).entries, proxy_addr)
       THEN ~HasKey(Local(n).entries, admin_addr) /\ Upsert(n, admin_addr, Addr)
       ELSE Upsert(n, proxy_addr, Addr)
    /\ UNCHANGED <<pendingNodes, nodes>>

\* Mutant: an endpoint without listeners is not withdrawn.
PublishNoDelete(n, e, count) ==
    IF count > 0 THEN Upsert(n, e, count) ELSE UNCHANGED vars

Publish(n, e, count) == IF count > 0 THEN Upsert(n, e, count) ELSE Delete(n, e)

\* AddLocalEndpoint and RemoveLocalEndpoint, by the manager, which starts after
\* Sync is done.
UpdateLocalEndpoint(n, e, count) ==
    /\ HasKey(Local(n).entries, admin_addr)
    /\ nodes[n][n].endpoints[e] \in {count - 1, count + 1}
    /\ Publish(n, e, count)
    /\ nodes' = [nodes EXCEPT ![n][n].endpoints[e] = count]
    /\ UNCHANGED pendingNodes

-----------------------------------------------------------------------------
SyncInit ==
    /\ Init
    /\ pendingNodes = [n \in Node |-> [o \in Node |-> NoNode]]
    /\ nodes = [n \in Node |-> [o \in Node |->
                   IF o = n THEN [NoNode EXCEPT !.status = "active", !.fields = AddrKeys]
                   ELSE NoNode]]

\* What n holds of every node, and handles with the callbacks of a step.
LivenessHandled(n) ==
    Handle(n, [o \in Node |-> AfterLiveness(Held(n, o), o, cluster[n], cluster'[n])])

ExpiryHandled(n) ==
    Handle(n, [o \in Node |-> AfterExpiry(Held(n, o), o, cluster[n], cluster'[n])])

DigestHandled(p) ==
    Handle(p.to, [o \in Node |->
        AfterDigest(Held(p.to, o), o, cluster[p.to], p.from, p.digest)])

DeltaHandled(p) ==
    Handle(p.to, [o \in Node |->
        AfterDelta(Held(p.to, o), o, cluster[p.to], p.from, p.delta)])

JoinHandled(p) ==
    LET applied == ApplyDelta(cluster[p.to], p.to, p.from, p.delta)
    IN  Handle(p.to, [o \in Node |->
            AfterDigest(AfterDelta(Held(p.to, o), o, cluster[p.to], p.from, p.delta),
                        o, applied, p.from, p.digest)])

SyncNext ==
    \/ \E n \in Node :
           \/ Sync(n)
           \/ \E e \in Endpoint, count \in 0..MaxListeners : UpdateLocalEndpoint(n, e, count)
           \/ (Leave(n) \/ Compact(n)) /\ UNCHANGED <<pendingNodes, nodes>>
           \/ CheckLiveness(n) /\ LivenessHandled(n)
           \/ Expire(n) /\ ExpiryHandled(n)
    \/ \E n, m \in Node :
           /\ GossipRound(n, m) \/ Join(n, m) \/ SendLeave(n, m)
           /\ UNCHANGED <<pendingNodes, nodes>>
    \/ \E p \in net :
           \/ ReceiveDigest(p) /\ DigestHandled(p)
           \/ ReceiveDelta(p) /\ DeltaHandled(p)
           \/ ReceiveJoin(p) /\ JoinHandled(p)
           \/ Lose(p) /\ UNCHANGED <<pendingNodes, nodes>>

SyncSpec == SyncInit /\ [][SyncNext]_syncVars

FairSyncSpec == SyncSpec /\ Fairness

-----------------------------------------------------------------------------
(***************************************************************************)
(* Properties.                                                             *)
(***************************************************************************)
StatusOf(st) ==
    IF st.left THEN "left" ELSE IF st.unreachable THEN "unreachable" ELSE "active"

\* What the entries of a node say of its endpoints.
EndpointsOf(st) ==
    [e \in Endpoint |->
        IF \E f \in st.entries : f.key = e /\ ~f.deleted
        THEN (CHOOSE f \in st.entries : f.key = e).value ELSE 0]

FieldsOf(st) == {k \in AddrKeys : \E f \in st.entries : f.key = k /\ ~f.deleted}

InCluster(n) == {o \in Node : nodes[n][o] # NoNode}

\* The nodes LookupEndpoint may route e to.
LookupEndpoint(n, e) ==
    {o \in InCluster(n) \ {n} : nodes[n][o].status = "active" /\ nodes[n][o].endpoints[e] > 0}

\* The routing map never lies about what gossip knows: a node in cluster.State
\* is known to gossip, with the status and the endpoints gossip has for it,
\* whatever order entries, compactions, failures and expiries came in.
ClusterMatchesGossip ==
    \A n \in Node : \A o \in InCluster(n) \ {n} :
        /\ o \in cluster[n].nodes
        /\ nodes[n][o].status = StatusOf(View(n, o))
        /\ nodes[n][o].endpoints = EndpointsOf(View(n, o))
        /\ nodes[n][o].fields = AddrKeys

\* What gossip says of a node's own endpoints is what its cluster.State counts,
\* through every update, deletion and compaction (onLocalEndpointUpdate).
LocalIsPublished ==
    \A n \in Node : EndpointsOf(Local(n)) = nodes[n][n].endpoints

\* The map requests are routed by is right about every node whose version it
\* has: it lists exactly the endpoints, with the listeners, that the node itself
\* counts, and has it as left exactly when it has left.
RoutesAgree ==
    \A n \in Node : \A o \in InCluster(n) \ ({n} \cup Removed) :
        View(n, o).version = Local(o).version =>
            /\ nodes[n][o].endpoints = nodes[o][o].endpoints
            /\ nodes[n][o].status = "left" <=> Local(o).left

\* The pending nodes are the known ones that are not in the cluster and have not
\* left, and gossip lacks an address of each (OnJoin, OnUpsertKey): none stays
\* pending once its addresses are here, none is pending and in the cluster,
\* none is forgotten and none outlives gossip's state of it.
PendingLacksAddress ==
    \A n \in Node :
        LET pending == {o \in Node : pendingNodes[n][o] # NoNode}
        IN  /\ pending = {o \in cluster[n].nodes \ {n} : ~View(n, o).left} \ InCluster(n)
            /\ \A o \in pending : FieldsOf(View(n, o)) # AddrKeys

\* Once the upstreams stop changing, every node that knows an active node
\* routes to it for exactly the endpoints that have a listener there.
RoutesConverge ==
    <>[](\A n \in Active : \A o \in Active \ {n}, e \in Endpoint :
            o \in cluster[n].nodes =>
                (o \in LookupEndpoint(n, e) <=> nodes[o][o].endpoints[e] > 0))
=============================================================================
