---------------------------- MODULE SyncerProofs ----------------------------
(***************************************************************************)
(* Proofs about Syncer, for any nodes, endpoints and bounds: gossip with   *)
(* its syncers is still Gossip, so its theorems hold, what the syncers     *)
(* hold follows what gossip knows, and so do the routes their owners.      *)
(***************************************************************************)
EXTENDS Syncer, GossipProofs

(***************************************************************************)
(* Gossip with syncers is Gossip.                                          *)
(***************************************************************************)
LEMMA SyncWrites ==
    ASSUME NEW n \in Node, Sync(n)
    PROVE  Operates(n)
<1>1. proxy_addr \in Key /\ admin_addr \in Key /\ Addr \in Value
  BY Zenon, KeysAssumption
<1>2. Upsert(n, proxy_addr, Addr) \/ Upsert(n, admin_addr, Addr)
  BY Zenon DEF Sync
<1> QED  BY Zenon, <1>1, <1>2 DEF Operates

LEMMA UpdateWrites ==
    ASSUME NEW n \in Node, NEW e \in Endpoint, NEW count \in 0..MaxListeners,
           UpdateLocalEndpoint(n, e, count)
    PROVE  Operates(n)
<1>1. e \in Key
  BY Zenon, KeysAssumption
<1>2. IF count > 0 THEN Upsert(n, e, count) ELSE Delete(n, e)
  BY Zenon DEF UpdateLocalEndpoint, Publish
<1>3. count > 0 => count \in Value
  <2>1. count > 0 => count \in 1..MaxListeners
    OBVIOUS
  <2> QED  BY Zenon, <2>1, KeysAssumption
<1> QED  BY Zenon, <1>1, <1>2, <1>3 DEF Operates

LEMMA SyncStep == SyncNext => Next
<1> SUFFICES ASSUME SyncNext PROVE Next
  BY Zenon
<1>1. ASSUME NEW n \in Node, Operates(n) \/ CheckLiveness(n) \/ Expire(n)
      PROVE  Next
  BY Zenon, <1>1 DEF Operates, Next
<1>2. ASSUME NEW n \in Node, NEW m \in Node, GossipRound(n, m) \/ Join(n, m) \/ SendLeave(n, m)
      PROVE  Next
  BY Zenon, <1>2 DEF Next
<1>3. ASSUME NEW p \in net, ReceiveDigest(p) \/ ReceiveDelta(p) \/ ReceiveJoin(p) \/ Lose(p)
      PROVE  Next
  BY Zenon, <1>3 DEF Next
<1>4. ASSUME NEW n \in Node, Leave(n) \/ Compact(n)
      PROVE  Operates(n)
  BY Zenon, <1>4 DEF Operates
<1> QED  BY ZenonT(60), <1>1, <1>2, <1>3, <1>4, SyncWrites, UpdateWrites DEF SyncNext

\* A cluster whose nodes publish their endpoints (Sync, onLocalEndpointUpdate)
\* and follow each other's with the Watcher callbacks behaves as Gossip does,
\* so every property of Gossip holds of it.
THEOREM SyncersGossip == SyncSpec => Spec
<1>1. SyncInit => Init
  BY Zenon DEF SyncInit
<1>2. [SyncNext]_syncVars => [Next]_vars
  BY Zenon, SyncStep DEF syncVars
<1> QED  BY <1>1, <1>2, PTL DEF SyncSpec, Spec

-----------------------------------------------------------------------------
(***************************************************************************)
(* What a syncer holds of a node fits what gossip knows of it: a node is   *)
(* pending until it has its addresses or leaves, and a node in the cluster *)
(* has the status and the endpoints of its gossip state.                   *)
(***************************************************************************)
Count == Value \cup {Empty, 0}

ClusterNode ==
    [status: {"none", Unset, "active", "unreachable", "left"}, fields: SUBSET AddrKeys,
     endpoints: [Endpoint -> Count]]

HeldStates == [pending: ClusterNode, node: ClusterNode]

\* The addresses of a pending node may have been lost by gossip, when a relay
\* compacts: fields are among those held.
Fits(h, known, status, endpoints, fields) ==
    /\ h \in HeldStates
    /\ h.node # NoNode =>
           /\ known /\ h.node.status = status
           /\ h.node.endpoints = endpoints /\ h.node.fields = AddrKeys
    /\ h.pending # NoNode <=> known /\ status # "left" /\ h.node = NoNode
    /\ h.pending # NoNode =>
           /\ h.pending.status = status \/ (h.pending.status = Unset /\ status = "active")
           /\ h.pending.endpoints = endpoints
           /\ fields \subseteq h.pending.fields /\ h.pending.fields # AddrKeys

Tracks(h, known, st) ==
    /\ Fits(h, known, StatusOf(st), EndpointsOf(st), FieldsOf(st))
    /\ ~known => st = NewNode

Statuses == {"active", "unreachable", "left"}

LEMMA UnsetFacts == Unset # "none" /\ Unset \notin Statuses
BY Zenon DEF Unset, Statuses

LEMMA NodeFacts ==
    /\ NoNode \in ClusterNode /\ NewPending \in ClusterNode
    /\ NoNode.status = "none" /\ NoNode.fields = {} /\ NoNode.endpoints = [e \in Endpoint |-> 0]
    /\ NewPending.status = Unset /\ NewPending.fields = {}
    /\ NewPending.endpoints = [e \in Endpoint |-> 0]
    /\ AddrKeys # {} /\ NewPending # NoNode
BY Zenon, UnsetFacts DEF NoNode, NewPending, ClusterNode, Count, AddrKeys

\* OnJoin makes a node gossip adds pending.
LEMMA JoinFits ==
    ASSUME NEW h, Fits(h, FALSE, "active", [e \in Endpoint |-> 0], {})
    PROVE  Fits(OnJoin(h), TRUE, "active", [e \in Endpoint |-> 0], {})
<1> DEFINE zero == [e \in Endpoint |-> 0]
<1>1. h \in HeldStates /\ h.node = NoNode /\ h.pending = NoNode
  BY Zenon DEF Fits
<1>2. OnJoin(h) = [h EXCEPT !.pending = NewPending]
  BY Zenon, <1>1 DEF OnJoin
<1>3. OnJoin(h) \in HeldStates /\ OnJoin(h).node = NoNode /\ OnJoin(h).pending = NewPending
  BY Zenon, <1>1, <1>2, NodeFacts DEF HeldStates
<1>4. NewPending # NoNode /\ NewPending.fields # AddrKeys
  BY Zenon, NodeFacts
<1>5. NewPending.endpoints = zero /\ NewPending.status = Unset
  BY Zenon, NodeFacts
<1> HIDE DEF zero
<1> QED  BY Zenon, <1>3, <1>4, <1>5 DEF Fits, zero

\* OnReachable and OnUnreachable set the status.
LEMMA StatusFits ==
    ASSUME NEW h, NEW old \in {"active", "unreachable"}, NEW status \in {"active", "unreachable"},
           NEW endpoints, NEW fields, Fits(h, TRUE, old, endpoints, fields)
    PROVE  Fits(OnStatus(h, status), TRUE, status, endpoints, fields)
<1>1. h \in HeldStates
  BY Zenon DEF Fits
<1>2. CASE h.node # NoNode
  <2>1. OnStatus(h, status) = [h EXCEPT !.node = [h.node EXCEPT !.status = status]]
    BY Zenon, <1>1, <1>2 DEF OnStatus, HeldStates
  <2> DEFINE node == [h.node EXCEPT !.status = status]
  <2>2. node \in ClusterNode /\ node.status = status /\ node.endpoints = h.node.endpoints /\ node.fields = h.node.fields
    BY Zenon, <1>1 DEF HeldStates, ClusterNode
  <2> HIDE DEF node
  <2>3. OnStatus(h, status) \in HeldStates /\ OnStatus(h, status).node = node /\ OnStatus(h, status).pending = h.pending
    BY Zenon, <1>1, <2>1, <2>2 DEF HeldStates, node
  <2>4. node # NoNode
    BY Zenon, <2>2, NodeFacts
  <2> QED  BY Zenon, <1>2, <2>2, <2>3, <2>4 DEF Fits
<1>3. CASE h.node = NoNode
  <2>1. h.pending # NoNode
    BY Zenon, <1>3 DEF Fits
  <2>2. OnStatus(h, status) = [h EXCEPT !.pending = [h.pending EXCEPT !.status = status]]
    BY Zenon, <1>1, <1>3, <2>1 DEF OnStatus, HeldStates
  <2> DEFINE node == [h.pending EXCEPT !.status = status]
  <2>3. node \in ClusterNode /\ node.status = status /\ node.endpoints = h.pending.endpoints /\ node.fields = h.pending.fields
    BY Zenon, <1>1 DEF HeldStates, ClusterNode
  <2> HIDE DEF node
  <2>4. OnStatus(h, status) \in HeldStates /\ OnStatus(h, status).pending = node /\ OnStatus(h, status).node = h.node
    BY Zenon, <1>1, <2>2, <2>3 DEF HeldStates, node
  <2>5. node # NoNode
    BY Zenon, <2>3, NodeFacts
  <2> QED  BY ZenonT(30), <1>3, <2>1, <2>3, <2>4, <2>5 DEF Fits
<1> QED  BY Zenon, <1>2, <1>3

\* OnLeave: a pending node is forgotten, one in the cluster has left.
LEMMA LeaveFits ==
    ASSUME NEW h, NEW old, NEW endpoints, NEW fields, Fits(h, TRUE, old, endpoints, fields)
    PROVE  Fits(OnLeave(h), TRUE, "left", endpoints, fields)
<1>1. h \in HeldStates
  BY Zenon DEF Fits
<1>2. CASE h.node # NoNode
  <2>1. OnLeave(h) = [h EXCEPT !.node = [h.node EXCEPT !.status = "left"]]
    BY Zenon, <1>1, <1>2 DEF OnLeave, HeldStates
  <2> DEFINE node == [h.node EXCEPT !.status = "left"]
  <2>2. node \in ClusterNode /\ node.status = "left" /\ node.endpoints = h.node.endpoints /\ node.fields = h.node.fields
    BY Zenon, <1>1 DEF HeldStates, ClusterNode
  <2> HIDE DEF node
  <2>3. OnLeave(h) \in HeldStates /\ OnLeave(h).node = node /\ OnLeave(h).pending = h.pending
    BY Zenon, <1>1, <2>1, <2>2 DEF HeldStates, node
  <2>4. node # NoNode
    BY Zenon, <2>2, NodeFacts
  <2>5. h.pending = NoNode
    BY Zenon, <1>2 DEF Fits
  <2> QED  BY ZenonT(30), <1>2, <2>2, <2>3, <2>4, <2>5 DEF Fits
<1>3. CASE h.node = NoNode
  <2>1. OnLeave(h) = [h EXCEPT !.pending = NoNode]
    BY Zenon, <1>3 DEF OnLeave
  <2>2. OnLeave(h) \in HeldStates /\ OnLeave(h).node = NoNode /\ OnLeave(h).pending = NoNode
    BY Zenon, <1>1, <1>3, <2>1, NodeFacts DEF HeldStates
  <2> QED  BY Zenon, <2>2 DEF Fits
<1> QED  BY Zenon, <1>2, <1>3

\* OnExpired forgets the node.
LEMMA ExpiredFits ==
    ASSUME NEW h, NEW old, NEW endpoints, NEW fields, Fits(h, TRUE, old, endpoints, fields)
    PROVE  Fits(OnExpired(h), FALSE, "active", [e \in Endpoint |-> 0], {})
<1>1. h \in HeldStates
  BY Zenon DEF Fits
<1>2. h.node # NoNode => h.pending = NoNode
  BY Zenon DEF Fits
<1>3. OnExpired(h) \in HeldStates /\ OnExpired(h).node = NoNode /\ OnExpired(h).pending = NoNode
  BY Zenon, <1>1, <1>2, NodeFacts DEF OnExpired, HeldStates
<1> QED  BY Zenon, <1>3 DEF Fits

\* OnDeleteKey: deleting keys removes endpoints and keeps addresses.
LEMMA DeleteFits ==
    ASSUME NEW h, NEW status \in Statuses, NEW endpoints \in [Endpoint -> Count],
           NEW fields, NEW less, less \subseteq fields, NEW ks,
           Fits(h, TRUE, status, endpoints, fields)
    PROVE  Fits(OnDeleteKey(h, ks), TRUE, status,
                [e \in Endpoint |-> IF e \in ks THEN 0 ELSE endpoints[e]], less)
<1> DEFINE eps == [e \in Endpoint |-> IF e \in ks THEN 0 ELSE endpoints[e]]
<1>1. h \in HeldStates
  BY Zenon DEF Fits
<1>2. ASSUME NEW node \in ClusterNode, node.endpoints = endpoints
      PROVE  /\ WithoutKeys(node, ks) \in ClusterNode
             /\ WithoutKeys(node, ks).status = node.status
             /\ WithoutKeys(node, ks).fields = node.fields
             /\ WithoutKeys(node, ks).endpoints = eps
  <2>1. [e \in Endpoint |-> IF e \in ks THEN 0 ELSE node.endpoints[e]] = eps
    BY Zenon, <1>2
  <2>2. WithoutKeys(node, ks) = [node EXCEPT !.endpoints = eps]
    BY Zenon, <2>1 DEF WithoutKeys, ClusterNode
  <2>3. eps \in [Endpoint -> Count]
    BY Zenon DEF Count
  <2> HIDE DEF eps
  <2> QED  BY Zenon, <2>2, <2>3 DEF ClusterNode
<1> HIDE DEF eps
<1>3. CASE h.node # NoNode
  <2>1. OnDeleteKey(h, ks) = [h EXCEPT !.node = WithoutKeys(h.node, ks)]
    BY Zenon, <1>1, <1>3 DEF OnDeleteKey, HeldStates
  <2> DEFINE node == WithoutKeys(h.node, ks)
  <2>2. node \in ClusterNode /\ node.status = status /\ node.fields = AddrKeys /\ node.endpoints = eps
    BY Zenon, <1>1, <1>2, <1>3 DEF Fits, HeldStates
  <2> HIDE DEF node
  <2>3. OnDeleteKey(h, ks) \in HeldStates /\ OnDeleteKey(h, ks).node = node /\ OnDeleteKey(h, ks).pending = h.pending
    BY Zenon, <1>1, <2>1, <2>2 DEF HeldStates, node
  <2>4. node # NoNode /\ h.pending = NoNode
    BY Zenon, <1>3, <2>2, NodeFacts DEF Fits
  <2> QED  BY Zenon, <2>2, <2>3, <2>4 DEF Fits, eps
<1>4. CASE h.node = NoNode /\ h.pending # NoNode
  <2>1. OnDeleteKey(h, ks) = [h EXCEPT !.pending = WithoutKeys(h.pending, ks)]
    BY Zenon, <1>1, <1>4 DEF OnDeleteKey, HeldStates
  <2> DEFINE node == WithoutKeys(h.pending, ks)
  <2>2. /\ node \in ClusterNode /\ node.status = h.pending.status /\ node.fields = h.pending.fields
        /\ node.endpoints = eps
    BY Zenon, <1>1, <1>2, <1>4 DEF Fits, HeldStates
  <2> HIDE DEF node
  <2>3. OnDeleteKey(h, ks) \in HeldStates /\ OnDeleteKey(h, ks).pending = node /\ OnDeleteKey(h, ks).node = NoNode
    BY Zenon, <1>1, <1>4, <2>1, <2>2 DEF HeldStates, node
  <2>4. h.pending.status # "none"
    BY Zenon, <1>4, UnsetFacts DEF Fits, Statuses
  <2>5. node # NoNode
    BY Zenon, <2>2, <2>4, NodeFacts
  <2> QED  BY Zenon, <1>4, <2>2, <2>3, <2>5 DEF Fits, eps
<1>5. CASE h.node = NoNode /\ h.pending = NoNode
  <2>1. OnDeleteKey(h, ks) = h
    BY Zenon, <1>5 DEF OnDeleteKey
  <2> QED  BY Zenon, <1>5, <2>1 DEF Fits
<1> QED  BY Zenon, <1>3, <1>4, <1>5

\* OnUpsertKey of an endpoint sets its listeners.
LEMMA EndpointFits ==
    ASSUME NEW h, NEW status \in Statuses, NEW endpoints \in [Endpoint -> Count],
           NEW fields, NEW k \in Endpoint, NEW v \in Count,
           Fits(h, TRUE, status, endpoints, fields)
    PROVE  Fits(OnUpsertKey(h, k, v), TRUE, status, [endpoints EXCEPT ![k] = v], fields)
<1> DEFINE eps == [endpoints EXCEPT ![k] = v]
<1>1. h \in HeldStates
  BY Zenon DEF Fits
<1>2. ASSUME NEW node \in ClusterNode, node.endpoints = endpoints
      PROVE  /\ WithKey(node, k, v) \in ClusterNode
             /\ WithKey(node, k, v).status = node.status
             /\ WithKey(node, k, v).fields = node.fields
             /\ WithKey(node, k, v).endpoints = eps
  <2>1. WithKey(node, k, v) = [node EXCEPT !.endpoints = eps]
    BY Zenon, <1>2 DEF WithKey, ClusterNode
  <2>2. eps \in [Endpoint -> Count]
    BY Zenon
  <2> HIDE DEF eps
  <2> QED  BY Zenon, <2>1, <2>2 DEF ClusterNode
<1> HIDE DEF eps
<1>3. CASE h.node # NoNode
  <2>1. OnUpsertKey(h, k, v) = [h EXCEPT !.node = WithKey(h.node, k, v)]
    BY Zenon, <1>1, <1>3 DEF OnUpsertKey, HeldStates
  <2> DEFINE node == WithKey(h.node, k, v)
  <2>2. node \in ClusterNode /\ node.status = status /\ node.fields = AddrKeys /\ node.endpoints = eps
    BY Zenon, <1>1, <1>2, <1>3 DEF Fits, HeldStates
  <2> HIDE DEF node
  <2>3. OnUpsertKey(h, k, v) \in HeldStates /\ OnUpsertKey(h, k, v).node = node /\ OnUpsertKey(h, k, v).pending = h.pending
    BY Zenon, <1>1, <2>1, <2>2 DEF HeldStates, node
  <2>4. node # NoNode /\ h.pending = NoNode
    BY Zenon, <1>3, <2>2, NodeFacts DEF Fits
  <2> QED  BY Zenon, <2>2, <2>3, <2>4 DEF Fits, eps
<1>4. CASE h.node = NoNode /\ h.pending # NoNode
  <2> DEFINE node == WithKey(h.pending, k, v)
  <2>1. /\ node \in ClusterNode /\ node.status = h.pending.status /\ node.fields = h.pending.fields
        /\ node.endpoints = eps
    BY Zenon, <1>1, <1>2, <1>4 DEF Fits, HeldStates
  <2>2. node.fields # AddrKeys
    BY Zenon, <1>4, <2>1 DEF Fits
  <2>3. OnUpsertKey(h, k, v) = [h EXCEPT !.pending = node]
    BY Zenon, <1>4, <2>2 DEF OnUpsertKey, UpsertPending
  <2> HIDE DEF node
  <2>4. OnUpsertKey(h, k, v) \in HeldStates /\ OnUpsertKey(h, k, v).pending = node /\ OnUpsertKey(h, k, v).node = NoNode
    BY Zenon, <1>1, <1>4, <2>1, <2>3 DEF HeldStates
  <2>5. h.pending.status # "none"
    BY Zenon, <1>4, UnsetFacts DEF Fits, Statuses
  <2>6. node # NoNode
    BY Zenon, <2>1, <2>5, NodeFacts
  <2> QED  BY Zenon, <1>4, <2>1, <2>2, <2>4, <2>6 DEF Fits, eps
<1>5. CASE h.node = NoNode /\ h.pending = NoNode
  <2>1. OnUpsertKey(h, k, v) = h
    BY Zenon, <1>5 DEF OnUpsertKey
  <2> QED  BY Zenon, <1>5, <2>1 DEF Fits
<1> QED  BY Zenon, <1>3, <1>4, <1>5

\* OnUpsertKey of an address: a pending node that now has both is added to the
\* cluster.
LEMMA AddressFits ==
    ASSUME NEW h, NEW status \in Statuses, NEW endpoints, NEW fields,
           NEW k \in AddrKeys, NEW v, NEW more, more \subseteq fields \cup {k},
           Fits(h, TRUE, status, endpoints, fields)
    PROVE  Fits(OnUpsertKey(h, k, v), TRUE, status, endpoints, more)
<1>1. h \in HeldStates /\ k \notin Endpoint
  BY Zenon, KeysAssumption DEF Fits, AddrKeys
<1>2. CASE h.node # NoNode
  <2>1. OnUpsertKey(h, k, v) = h
    BY Zenon, <1>1, <1>2 DEF OnUpsertKey
  <2> QED  BY Zenon, <1>2, <2>1 DEF Fits
<1>3. CASE h.node = NoNode /\ h.pending # NoNode
  <2> DEFINE node == WithKey(h.pending, k, v)
  <2>1. /\ node \in ClusterNode /\ node.status = h.pending.status
        /\ node.fields = h.pending.fields \cup {k} /\ node.endpoints = h.pending.endpoints
    BY Zenon, <1>1 DEF WithKey, HeldStates, ClusterNode
  <2>2. /\ h.pending.status = status \/ (h.pending.status = Unset /\ status = "active")
        /\ h.pending.endpoints = endpoints /\ fields \subseteq h.pending.fields
        /\ status # "left"
    BY Zenon, <1>3 DEF Fits
  <2>3. OnUpsertKey(h, k, v) = IF node.fields = AddrKeys
                               THEN [pending |-> NoNode, node |-> Promoted(node)]
                               ELSE [h EXCEPT !.pending = node]
    BY Zenon, <1>3 DEF OnUpsertKey, UpsertPending
  <2> HIDE DEF node
  <2>4. CASE node.fields = AddrKeys
    <3> DEFINE new == Promoted(node)
    <3>1. OnUpsertKey(h, k, v) = [pending |-> NoNode, node |-> new]
      BY Zenon, <2>3, <2>4
    <3>2. /\ new \in ClusterNode /\ new.status = IF node.status = Unset THEN "active" ELSE node.status
          /\ new.fields = node.fields /\ new.endpoints = node.endpoints
      BY Zenon, <2>1 DEF Promoted, ClusterNode
    <3>3. new.status = status
      BY Zenon, <2>1, <2>2, <3>2, UnsetFacts DEF Statuses
    <3> HIDE DEF new
    <3>4. /\ OnUpsertKey(h, k, v) \in HeldStates /\ OnUpsertKey(h, k, v).pending = NoNode
          /\ OnUpsertKey(h, k, v).node = new
      BY <3>1, <3>2, NodeFacts DEF HeldStates
    <3>5. new # NoNode
      BY Zenon, <3>3, NodeFacts, UnsetFacts DEF Statuses
    <3> QED  BY Zenon, <2>1, <2>2, <2>4, <3>2, <3>3, <3>4, <3>5 DEF Fits
  <2>5. CASE node.fields # AddrKeys
    <3>1. OnUpsertKey(h, k, v) = [h EXCEPT !.pending = node]
      BY Zenon, <2>3, <2>5
    <3>2. /\ OnUpsertKey(h, k, v) \in HeldStates /\ OnUpsertKey(h, k, v).pending = node
          /\ OnUpsertKey(h, k, v).node = NoNode
      BY Zenon, <1>1, <1>3, <2>1, <3>1 DEF HeldStates
    <3>3. node # NoNode
      BY Zenon, <2>1, <2>2, NodeFacts, UnsetFacts DEF Statuses
    <3> QED  BY Zenon, <1>3, <2>1, <2>2, <2>5, <3>2, <3>3 DEF Fits
  <2> QED  BY Zenon, <2>4, <2>5
<1>4. CASE h.node = NoNode /\ h.pending = NoNode
  <2>1. OnUpsertKey(h, k, v) = h
    BY Zenon, <1>4 DEF OnUpsertKey
  <2> QED  BY Zenon, <1>4, <2>1 DEF Fits
<1> QED  BY Zenon, <1>2, <1>3, <1>4

-----------------------------------------------------------------------------
(***************************************************************************)
(* Applying entries one by one, in version order, is applying them all.    *)
(***************************************************************************)

\* What ApplyEntries needs of the entries of a delta.
Orderly(es) ==
    /\ es \in SUBSET Entry
    /\ OneEntryPerKey(es)
    /\ \A e, f \in es : e.version = f.version => e = f
    /\ \A e \in es : CompactsBelow(e)

\* State b is a with the new entry e applied.
Applies(b, a, e) ==
    /\ \A x : x \in b.entries <=>
           \/ x = e
           \/ x \in a.entries /\ x.key # e.key /\ ~(e.key = compactKey /\ x.version <= e.value)
    /\ b.left <=> a.left \/ e.key = leftKey
    /\ b.unreachable = a.unreachable

LEMMA KeyOfEntry ==
    ASSUME NEW e \in Entry
    PROVE  /\ e.key \in Key \cup {leftKey, compactKey}
           /\ e.key \in Key => e.value \in Value \cup {Empty}
<1>1. CASE e \in [key: Key, value: Value \cup {Empty}, version: Version, deleted: BOOLEAN]
  BY Zenon, <1>1, KeyAssumption
<1>2. CASE e \in [key: {leftKey}, value: {Empty}, version: Version, deleted: {FALSE}]
  BY Zenon, <1>2, KeyAssumption
<1>3. CASE e \in [key: {compactKey}, value: Nat, version: Version, deleted: {FALSE}]
  BY Zenon, <1>3, KeyAssumption
<1> QED  BY Zenon, <1>1, <1>2, <1>3 DEF Entry

\* ApplyEntries depends on the new entries only.
LEMMA SameNew ==
    ASSUME NEW st, NEW es, NEW fs,
           {e \in es : e.version > st.version} = {e \in fs : e.version > st.version}
    PROVE  ApplyEntries(st, es) = ApplyEntries(st, fs)
BY Zenon DEF ApplyEntries

LEMMA NextEntry ==
    ASSUME NEW st \in NodeState, NEW es, Orderly(es),
           NEW N \in Nat, \A x \in es : x.version <= N,
           NEW e \in es, e.version > st.version
    PROVE  LET a == ApplyEntries(st, {f \in es : f.version < e.version})
               b == ApplyEntries(st, {f \in es : f.version <= e.version})
           IN  a \in NodeState /\ b \in NodeState /\ Applies(b, a, e)
<1> DEFINE before == {f \in es : f.version < e.version}
           upto == {f \in es : f.version <= e.version}
           a == ApplyEntries(st, before)
           b == ApplyEntries(st, upto)
           newA == {f \in before : f.version > st.version}
           newB == {f \in upto : f.version > st.version}
<1>1. /\ es \in SUBSET Entry /\ st.version \in Nat
      /\ \A f \in es : f.version \in Nat /\ (f.key = compactKey => f.value \in Nat)
  BY Zenon, EntryFacts DEF Orderly, NodeState
<1>2. /\ before \in SUBSET Entry /\ upto \in SUBSET Entry
      /\ \A x \in before : x.version <= N
      /\ \A x \in upto : x.version <= N
  BY Zenon, <1>1
<1>3. /\ a \in NodeState
      /\ \A x : x \in a.entries <=>
             /\ x \in newA \/ (x \in st.entries /\ ~\E f \in newA : f.key = x.key)
             /\ ~\E f \in newA : f.key = compactKey /\ x.version <= f.value
      /\ a.left <=> (st.left \/ \E f \in newA : f.key = leftKey)
      /\ a.unreachable = st.unreachable
  <2> HIDE DEF before
  <2> QED  BY Zenon, <1>2, ApplyFacts
<1>4. /\ b \in NodeState
      /\ \A x : x \in b.entries <=>
             /\ x \in newB \/ (x \in st.entries /\ ~\E f \in newB : f.key = x.key)
             /\ ~\E f \in newB : f.key = compactKey /\ x.version <= f.value
      /\ b.left <=> (st.left \/ \E f \in newB : f.key = leftKey)
      /\ b.unreachable = st.unreachable
  <2> HIDE DEF upto
  <2> QED  BY Zenon, <1>2, ApplyFacts
<1>5. \A f : f \in newB <=> f \in newA \/ f = e
  BY <1>1 DEF Orderly
<1>6. \A f \in newA : f.key # e.key
  BY <1>1 DEF Orderly, OneEntryPerKey
<1>7. \A f \in newB : f.key = compactKey => ~(e.version <= f.value)
  BY <1>1 DEF Orderly, CompactsBelow
<1>8. e \notin newA
  BY <1>1
<1> HIDE DEF a, b, newA, newB
<1>9. e \in b.entries
  BY Zenon, <1>4, <1>5, <1>7
<1>10. ASSUME NEW x, x # e
       PROVE  x \in b.entries <=>
                  x \in a.entries /\ x.key # e.key /\ ~(e.key = compactKey /\ x.version <= e.value)
  <2>1. /\ (x \in newB \/ (x \in st.entries /\ ~\E f \in newB : f.key = x.key))
             <=> (x \in newA \/ (x \in st.entries /\ ~\E f \in newA : f.key = x.key)) /\ x.key # e.key
        /\ (\E f \in newB : f.key = compactKey /\ x.version <= f.value)
             <=> \/ \E f \in newA : f.key = compactKey /\ x.version <= f.value
                 \/ e.key = compactKey /\ x.version <= e.value
    BY Zenon, <1>5, <1>6, <1>10
  <2> QED  BY Zenon, <1>3, <1>4, <2>1
<1>11. b.left <=> a.left \/ e.key = leftKey
  BY Zenon, <1>3, <1>4, <1>5
<1>12. Applies(b, a, e)
  BY Zenon, <1>3, <1>4, <1>9, <1>10, <1>11 DEF Applies
<1> QED  BY Zenon, <1>3, <1>4, <1>12 DEF a, b

-----------------------------------------------------------------------------
(***************************************************************************)
(* The callbacks of one entry, and of a delta's entries in version order.  *)
(***************************************************************************)
LEMMA EndpointsFacts ==
    ASSUME NEW st \in NodeState, OneEntryPerKey(st.entries)
    PROVE  /\ EndpointsOf(st) \in [Endpoint -> Count]
           /\ \A k \in Endpoint : \A f \in st.entries :
                  f.key = k /\ ~f.deleted => EndpointsOf(st)[k] = f.value
           /\ \A k \in Endpoint :
                  (\A f \in st.entries : f.key = k => f.deleted) => EndpointsOf(st)[k] = 0
<1> DEFINE eps == EndpointsOf(st)
           Listed(k) == \E f \in st.entries : f.key = k /\ ~f.deleted
<1>1. eps = [k \in Endpoint |-> IF Listed(k) THEN (CHOOSE f \in st.entries : f.key = k).value ELSE 0]
  BY Zenon DEF EndpointsOf
<1>2. \A k \in Endpoint : eps[k] = IF Listed(k) THEN (CHOOSE f \in st.entries : f.key = k).value ELSE 0
  BY Zenon, <1>1
<1>3. ASSUME NEW k \in Endpoint, NEW f \in st.entries, f.key = k, ~f.deleted
      PROVE  eps[k] = f.value
  <2>1. (CHOOSE g \in st.entries : g.key = k) = f
    BY Zenon, <1>3 DEF OneEntryPerKey
  <2> QED  BY <1>2, <1>3, <2>1
<1>4. ASSUME NEW k \in Endpoint, \A f \in st.entries : f.key = k => f.deleted
      PROVE  eps[k] = 0
  BY Zenon, <1>2, <1>4
<1>5. \A k \in Endpoint : eps[k] \in Count
  <2> SUFFICES ASSUME NEW k \in Endpoint PROVE eps[k] \in Count
    BY Zenon
  <2>1. CASE Listed(k)
    <3>1. PICK f \in st.entries : f.key = k /\ ~f.deleted
      BY Zenon, <2>1
    <3>2. f \in Entry /\ f.key \in Key
      BY Zenon, <3>1, KeysAssumption DEF NodeState
    <3>3. f.value \in Value \cup {Empty}
      BY Zenon, <3>2, KeyOfEntry
    <3>4. eps[k] = f.value
      BY Zenon, <1>3, <3>1
    <3> QED  BY Zenon, <3>3, <3>4 DEF Count
  <2>2. CASE ~Listed(k)
    BY Zenon, <1>2, <2>2 DEF Count
  <2> QED  BY Zenon, <2>1, <2>2
<1>6. eps \in [Endpoint -> Count]
  <2>1. eps = [k \in Endpoint |-> eps[k]]
    BY Zenon, <1>1
  <2> HIDE DEF eps
  <2> QED  BY Zenon, <1>5, <2>1
<1> QED  BY Zenon, <1>3, <1>4, <1>6

\* Two states with the same entries for every key have the same endpoints.
LEMMA SameEndpoint ==
    ASSUME NEW a \in NodeState, NEW b \in NodeState,
           OneEntryPerKey(a.entries), OneEntryPerKey(b.entries),
           NEW k \in Endpoint, \A f : f.key = k => (f \in b.entries <=> f \in a.entries)
    PROVE  EndpointsOf(b)[k] = EndpointsOf(a)[k]
<1>1. CASE \E f \in a.entries : f.key = k /\ ~f.deleted
  <2>1. PICK f \in a.entries : f.key = k /\ ~f.deleted
    BY Zenon, <1>1
  <2>2. f \in b.entries
    BY Zenon, <2>1
  <2> QED  BY SMTT(30), <2>1, <2>2, EndpointsFacts
<1>2. CASE ~\E f \in a.entries : f.key = k /\ ~f.deleted
  <2>1. \A f \in a.entries : f.key = k => f.deleted
    BY Zenon, <1>2
  <2>2. \A f \in b.entries : f.key = k => f.deleted
    BY Zenon, <2>1
  <2> QED  BY <2>1, <2>2, EndpointsFacts
<1> QED  BY Zenon, <1>1, <1>2

LEMMA StatusFacts ==
    ASSUME NEW a \in NodeState, NEW b \in NodeState, NEW e, Applies(b, a, e)
    PROVE  /\ StatusOf(a) \in Statuses
           /\ e.key # leftKey => StatusOf(b) = StatusOf(a)
           /\ e.key = leftKey => StatusOf(b) = "left"
<1>1. StatusOf(a) \in Statuses
  BY Zenon DEF StatusOf, Statuses
<1>2. e.key # leftKey => (b.left <=> a.left)
  BY Zenon DEF Applies
<1>3. e.key = leftKey => b.left
  BY Zenon DEF Applies
<1>4. b.unreachable <=> a.unreachable
  BY Zenon DEF Applies
<1> QED  BY Zenon, <1>1, <1>2, <1>3, <1>4 DEF StatusOf

LEMMA EntryTracked ==
    ASSUME NEW a \in NodeState, NEW b \in NodeState,
           OneEntryPerKey(a.entries), OneEntryPerKey(b.entries),
           NEW e \in Entry, Applies(b, a, e), NEW h, Tracks(h, TRUE, a)
    PROVE  Tracks(OnEntry(h, a, e), TRUE, b)
<1> DEFINE epsA == EndpointsOf(a)
           epsB == EndpointsOf(b)
           fldA == FieldsOf(a)
           fldB == FieldsOf(b)
           status == StatusOf(a)
<1>1. Fits(h, TRUE, status, epsA, fldA)
  BY Zenon DEF Tracks
<1>2. status \in Statuses /\ (e.key # leftKey => StatusOf(b) = status) /\ (e.key = leftKey => StatusOf(b) = "left")
  BY Zenon, StatusFacts
<1>3. epsA \in [Endpoint -> Count] /\ epsB \in [Endpoint -> Count]
  BY Zenon, EndpointsFacts
<1>4. \A x : x \in b.entries <=>
          \/ x = e
          \/ x \in a.entries /\ x.key # e.key /\ ~(e.key = compactKey /\ x.version <= e.value)
  BY Zenon DEF Applies
<1>5. Endpoint \subseteq Key /\ AddrKeys \subseteq Key /\ Endpoint \cup AddrKeys = Key
      /\ leftKey \notin Key /\ compactKey \notin Key /\ leftKey # compactKey
  BY Zenon, KeysAssumption, KeyAssumption DEF AddrKeys
<1>6. \A k \in Endpoint : (\A f : f.key = k => (f \in b.entries <=> f \in a.entries)) => epsB[k] = epsA[k]
  BY Zenon, SameEndpoint
<1>7. fldB = {k \in AddrKeys : \E f \in b.entries : f.key = k /\ ~f.deleted}
      /\ fldA = {k \in AddrKeys : \E f \in a.entries : f.key = k /\ ~f.deleted}
  BY Zenon DEF FieldsOf
<1>8. fldB \subseteq fldA \cup {k \in {e.key} : ~e.deleted}
  BY Zenon, <1>4, <1>7
<1> SUFFICES Fits(OnEntry(h, a, e), TRUE, StatusOf(b), epsB, fldB)
  BY Zenon DEF Tracks
<1> HIDE DEF epsA, epsB, fldA, fldB, status
<1>9. CASE e.key = leftKey
  <2>1. OnEntry(h, a, e) = OnLeave(h)
    BY Zenon, <1>9 DEF OnEntry
  <2>2. \A k \in Key : \A f : f.key = k => (f \in b.entries <=> f \in a.entries)
    BY Zenon, <1>4, <1>5, <1>9
  <2>3. epsB = epsA
    BY SMTT(30), <1>3, <1>5, <1>6, <2>2
  <2>4. fldB = fldA
    BY ZenonT(30), <1>5, <1>7, <2>2
  <2> QED  BY ZenonT(30), <1>1, <1>2, <1>9, <2>1, <2>3, <2>4, LeaveFits
<1>10. CASE e.key = compactKey
  <2> DEFINE ks == {f.key : f \in {f \in a.entries : f.version <= e.value /\ ~f.deleted}}
  <2>1. OnEntry(h, a, e) = OnDeleteKey(h, ks)
    BY Zenon, <1>5, <1>10 DEF OnEntry
  <2>2. ASSUME NEW k \in Endpoint PROVE epsB[k] = IF k \in ks THEN 0 ELSE epsA[k]
    <3>1. CASE k \in ks
      <4>1. PICK f \in a.entries : f.key = k /\ f.version <= e.value /\ ~f.deleted
        BY Zenon, <3>1
      <4>2. \A g \in b.entries : g.key # k
        BY Zenon, <1>4, <1>5, <1>10, <4>1 DEF OneEntryPerKey
      <4>3. epsB[k] = 0
        BY ZenonT(30), <4>2, EndpointsFacts DEF epsB
      <4> QED  BY Zenon, <3>1, <4>3
    <3>2. CASE k \notin ks
      <4>1. \A f \in a.entries : f.key = k => ~(f.version <= e.value) \/ f.deleted
        BY Zenon, <3>2
      <4>2. CASE \E f \in a.entries : f.key = k /\ ~f.deleted
        <5>1. PICK f \in a.entries : f.key = k /\ ~f.deleted
          BY Zenon, <4>2
        <5>2. f \in b.entries
          BY ZenonT(30), <1>4, <1>5, <1>10, <4>1, <5>1
        <5>3. epsB[k] = epsA[k]
          BY SMTT(30), <5>1, <5>2, EndpointsFacts DEF epsA, epsB
        <5> QED  BY Zenon, <3>2, <5>3
      <4>3. CASE \A f \in a.entries : f.key = k => f.deleted
        <5>1. \A f \in b.entries : f.key = k => f.deleted
          BY ZenonT(30), <1>4, <1>5, <1>10, <4>3
        <5>2. epsB[k] = 0 /\ epsA[k] = 0
          BY Zenon, <4>3, <5>1, EndpointsFacts DEF epsA, epsB
        <5> QED  BY Zenon, <5>2
      <4> QED  BY Zenon, <4>2, <4>3
    <3> QED  BY Zenon, <3>1, <3>2
  <2> HIDE DEF ks
  <2>3. epsB = [k \in Endpoint |-> IF k \in ks THEN 0 ELSE epsA[k]]
    BY Zenon, <1>3, <2>2
  <2>4. fldB \subseteq fldA
    BY Zenon, <1>5, <1>7, <1>8, <1>10
  <2>5. Fits(OnDeleteKey(h, ks), TRUE, status, epsB, fldB)
    BY ZenonT(30), <1>1, <1>2, <1>3, <2>3, <2>4, DeleteFits
  <2> QED  BY ZenonT(30), <1>2, <1>5, <1>10, <2>1, <2>5
<1>11. CASE e.key \in Key /\ e.deleted
  <2> DEFINE ks == {e.key}
  <2>1. OnEntry(h, a, e) = OnDeleteKey(h, ks)
    BY Zenon, <1>5, <1>11 DEF OnEntry
  <2>2. ASSUME NEW k \in Endpoint PROVE epsB[k] = IF k \in ks THEN 0 ELSE epsA[k]
    <3>1. CASE k = e.key
      <4>1. \A f \in b.entries : f.key = k => f.deleted
        BY Zenon, <1>4, <1>11, <3>1
      <4>2. epsB[k] = 0
        BY Zenon, <4>1, EndpointsFacts DEF epsB
      <4> QED  BY Zenon, <3>1, <4>2
    <3>2. CASE k # e.key
      <4>1. \A f : f.key = k => (f \in b.entries <=> f \in a.entries)
        BY ZenonT(30), <1>4, <1>5, <1>11, <3>2
      <4> QED  BY Zenon, <1>6, <3>2, <4>1
    <3> QED  BY Zenon, <3>1, <3>2
  <2> HIDE DEF ks
  <2>3. epsB = [k \in Endpoint |-> IF k \in ks THEN 0 ELSE epsA[k]]
    BY Zenon, <1>3, <2>2
  <2>4. fldB \subseteq fldA
    BY ZenonT(30), <1>8, <1>11
  <2>5. Fits(OnDeleteKey(h, ks), TRUE, status, epsB, fldB)
    BY Zenon, <1>1, <1>2, <1>3, <2>3, <2>4, DeleteFits
  <2> QED  BY ZenonT(30), <1>2, <1>5, <1>11, <2>1, <2>5
<1>12. CASE e.key \in Endpoint /\ ~e.deleted
  <2>1. OnEntry(h, a, e) = OnUpsertKey(h, e.key, e.value)
    BY Zenon, <1>5, <1>12 DEF OnEntry
  <2>2. e.value \in Count
    BY Zenon, <1>5, <1>12, KeyOfEntry DEF Count
  <2>3. e \in b.entries
    BY Zenon, <1>4
  <2>4. epsB[e.key] = e.value
    BY Zenon, <1>12, <2>3, EndpointsFacts DEF epsB
  <2>5. \A k \in Key \ {e.key} : \A f : f.key = k => (f \in b.entries <=> f \in a.entries)
    BY Zenon, <1>4, <1>5, <1>12
  <2>6. epsB = [epsA EXCEPT ![e.key] = e.value]
    <3>1. \A k \in Endpoint : k # e.key => epsB[k] = epsA[k]
      BY Zenon, <1>5, <1>6, <2>5
    <3> QED  BY ZenonT(30), <1>3, <1>12, <2>2, <2>4, <3>1
  <2>7. fldB = fldA
    <3>1. e.key \notin AddrKeys
      BY Zenon, <1>12, KeysAssumption DEF AddrKeys
    <3> QED  BY Zenon, <1>5, <1>7, <2>5, <3>1
  <2>8. Fits(OnUpsertKey(h, e.key, e.value), TRUE, status, epsB, fldB)
    BY ZenonT(30), <1>1, <1>2, <1>3, <1>12, <2>2, <2>6, <2>7, EndpointFits
  <2> QED  BY ZenonT(30), <1>2, <1>5, <1>12, <2>1, <2>8
<1>13. CASE e.key \in AddrKeys /\ ~e.deleted
  <2>1. OnEntry(h, a, e) = OnUpsertKey(h, e.key, e.value)
    BY Zenon, <1>5, <1>13 DEF OnEntry
  <2>2. \A k \in Endpoint : \A f : f.key = k => (f \in b.entries <=> f \in a.entries)
    <3>1. e.key \notin Endpoint
      BY Zenon, <1>13, KeysAssumption DEF AddrKeys
    <3> QED  BY ZenonT(30), <1>4, <1>5, <1>13, <3>1
  <2>3. epsB = epsA
    BY SMTT(30), <1>3, <1>6, <2>2
  <2>4. fldB \subseteq fldA \cup {e.key}
    BY Zenon, <1>8
  <2>5. Fits(OnUpsertKey(h, e.key, e.value), TRUE, status, epsB, fldB)
    BY ZenonT(30), <1>1, <1>2, <1>13, <2>3, <2>4, AddressFits
  <2> QED  BY ZenonT(30), <1>2, <1>5, <1>13, <2>1, <2>5
<1> QED  BY ZenonT(30), <1>5, <1>9, <1>10, <1>11, <1>12, <1>13, KeyOfEntry

LEMMA LeastNumber ==
    ASSUME NEW T, T \in SUBSET Nat, T # {}
    PROVE  \E m \in T : \A k \in T : m <= k
<1> DEFINE Less == OpToRel(<, Nat)
<1>1. IsWellFoundedOn(Less, Nat)
  BY Zenon, NatLessThanWellFounded
<1>2. \A x, y \in Nat : <<y, x>> \in Less <=> y < x
  BY Zenon DEF OpToRel
<1> HIDE DEF Less
<1>3. PICK m \in T : \A k \in T : ~(<<k, m>> \in Less)
  BY ZenonT(30), <1>1, WFMin
<1>4. \A k \in T : ~(k < m)
  BY ZenonT(30), <1>2, <1>3
<1> QED  BY <1>4

LEMMA NumberInduction ==
    ASSUME NEW T, T \in SUBSET Nat, 0 \in T, \A n \in T : n + 1 \in T
    PROVE  T = Nat
<1> DEFINE U == Nat \ T
<1> SUFFICES ASSUME U # {} PROVE FALSE
  BY Zenon
<1>1. U \in SUBSET Nat
  BY Zenon
<1> HIDE DEF U
<1>2. PICK m \in U : \A k \in U : m <= k
  BY Zenon, <1>1, LeastNumber
<1>3. m # 0 /\ m - 1 \in Nat /\ m - 1 \notin U
  BY <1>1, <1>2 DEF U
<1> QED  BY SMTT(30), <1>2, <1>3 DEF U

\* What is held after each version, as AfterEntries computes it.
UpTo(h, st, es) ==
    LET last == ApplyEntries(st, es).version
        upTo[v \in 0..last] == IF v = 0 THEN h ELSE AfterVersion(upTo[v - 1], st, es, v)
    IN  upTo

LEMMA UpToFacts ==
    ASSUME NEW h, NEW st, NEW es, ApplyEntries(st, es).version \in Nat
    PROVE  LET last == ApplyEntries(st, es).version
               upTo == UpTo(h, st, es)
           IN  /\ AfterEntries(h, st, es) = upTo[last]
               /\ upTo[0] = h
               /\ \A v \in Nat : v < last => upTo[v + 1] = AfterVersion(upTo[v], st, es, v + 1)
<1> DEFINE last == ApplyEntries(st, es).version
           upTo == UpTo(h, st, es)
           Solves(g, n) == g = [v \in 0..n |-> IF v = 0 THEN h ELSE AfterVersion(g[v - 1], st, es, v)]
           T == {n \in Nat : \E g : Solves(g, n)}
<1>1. 0 \in T
  <2> DEFINE g == [v \in 0..0 |-> h]
  <2>1. Solves(g, 0)
    OBVIOUS
  <2> QED  BY Zenon, <2>1
<1>2. ASSUME NEW n \in T PROVE n + 1 \in T
  <2>1. PICK g : Solves(g, n)
    BY Zenon
  <2> DEFINE f == [v \in 0..n + 1 |-> IF v = n + 1 THEN AfterVersion(g[n], st, es, n + 1) ELSE g[v]]
  <2>2. Solves(f, n + 1)
    BY <2>1
  <2> HIDE DEF Solves
  <2> QED  BY <2>2
<1>3. T = Nat
  <2>1. T \in SUBSET Nat
    BY Zenon
  <2> HIDE DEF T
  <2> QED  BY ZenonT(30), <1>1, <1>2, <2>1, NumberInduction
<1>4. \E g : Solves(g, last)
  BY Zenon, <1>3
<1>5. upTo = CHOOSE g : Solves(g, last)
  BY Zenon DEF UpTo
<1>6. Solves(upTo, last)
  BY <1>4, <1>5, Zenon DEF Solves
<1>7. AfterEntries(h, st, es) = upTo[last]
  BY Zenon DEF AfterEntries, UpTo
<1> HIDE DEF upTo, last
<1>8. \A v \in 0..last : upTo[v] = IF v = 0 THEN h ELSE AfterVersion(upTo[v - 1], st, es, v)
  BY Zenon, <1>6
<1>9. last \in Nat
  BY Zenon DEF last
<1>10. upTo[0] = h
  BY SMTT(30), <1>8, <1>9
<1>11. ASSUME NEW v \in Nat, v < last
       PROVE  upTo[v + 1] = AfterVersion(upTo[v], st, es, v + 1)
  <2>1. v + 1 \in 0..last /\ v + 1 # 0 /\ (v + 1) - 1 = v
    BY SMTT(30), <1>9, <1>11
  <2>2. upTo[v + 1] = AfterVersion(upTo[(v + 1) - 1], st, es, v + 1)
    BY Zenon, <1>8, <2>1
  <2> QED  BY ZenonT(30), <2>1, <2>2
<1> QED  BY ZenonT(30), <1>7, <1>10, <1>11 DEF upTo, last

LEMMA VersionTracked ==
    ASSUME NEW st \in NodeState, OneEntryPerKey(st.entries), NEW es, Orderly(es),
           NEW N \in Nat, \A x \in es : x.version <= N, NEW v \in Nat, NEW h,
           Tracks(h, TRUE, ApplyEntries(st, {f \in es : f.version <= v}))
    PROVE  Tracks(AfterVersion(h, st, es, v + 1), TRUE,
                   ApplyEntries(st, {f \in es : f.version <= v + 1}))
<1> DEFINE before == {f \in es : f.version < v + 1}
           upto == {f \in es : f.version <= v + 1}
           new == {e \in es : e.version = v + 1 /\ v + 1 > st.version}
           a == ApplyEntries(st, before)
           b == ApplyEntries(st, upto)
<1>1. es \in SUBSET Entry /\ st.version \in Nat /\ \A f \in es : f.version \in Nat
  BY Zenon, EntryFacts DEF Orderly, NodeState
<1>2. {f \in es : f.version <= v} = before
  BY <1>1
<1>3. Tracks(h, TRUE, a)
  BY Zenon, <1>2
<1>4. CASE new = {}
  <2>1. {e \in before : e.version > st.version} = {e \in upto : e.version > st.version}
    BY <1>1, <1>4
  <2> HIDE DEF before, upto
  <2>2. a = b
    BY Zenon, <2>1, SameNew
  <2>3. AfterVersion(h, st, es, v + 1) = h
    BY Zenon, <1>4 DEF AfterVersion
  <2> QED  BY ZenonT(30), <1>3, <2>2, <2>3 DEF upto
<1>5. CASE new # {}
  <2> DEFINE e == CHOOSE e \in new : TRUE
  <2>1. e \in new
    BY Zenon, <1>5
  <2>2. AfterVersion(h, st, es, v + 1) = OnEntry(h, a, e)
    BY Zenon, <1>5 DEF AfterVersion
  <2>3. e \in es /\ e.version = v + 1 /\ e.version > st.version /\ e \in Entry
    BY Zenon, <1>1, <2>1
  <2> HIDE DEF e, new
  <2>4. before = {f \in es : f.version < e.version} /\ upto = {f \in es : f.version <= e.version}
    BY Zenon, <2>3
  <2>5. /\ a \in NodeState /\ b \in NodeState /\ Applies(b, a, e)
    <3> HIDE DEF before, upto
    <3> QED  BY Zenon, <2>3, <2>4, NextEntry
  <2>6. OneEntryPerKey(before) /\ OneEntryPerKey(upto)
    BY Zenon DEF Orderly, OneEntryPerKey
  <2> HIDE DEF before, upto
  <2>7. OneEntryPerKey(a.entries) /\ OneEntryPerKey(b.entries)
    BY Zenon, <2>6, AppliedKeys
  <2> HIDE DEF a, b
  <2>8. Tracks(OnEntry(h, a, e), TRUE, b)
    BY ZenonT(30), <1>3, <2>3, <2>5, <2>7, EntryTracked
  <2> QED  BY Zenon, <2>2, <2>8 DEF b, upto
<1> QED  BY Zenon, <1>4, <1>5

\* The callbacks of a delta's entries leave the syncer with what gossip has
\* once the delta is applied.
LEMMA EntriesTracked ==
    ASSUME NEW st \in NodeState, OneEntryPerKey(st.entries), NEW es, Orderly(es),
           NEW N \in Nat, \A x \in es : x.version <= N, NEW h, Tracks(h, TRUE, st)
    PROVE  Tracks(AfterEntries(h, st, es), TRUE, ApplyEntries(st, es))
<1> DEFINE last == ApplyEntries(st, es).version
           upTo == UpTo(h, st, es)
           seen(v) == {f \in es : f.version <= v}
           P(v) == v <= last => Tracks(upTo[v], TRUE, ApplyEntries(st, seen(v)))
           T == {v \in Nat : P(v)}
<1>1. es \in SUBSET Entry /\ st.version \in Nat /\ \A f \in es : f.version \in Nat /\ f.version > 0
  BY Zenon, EntryFacts DEF Orderly, NodeState
<1>2. last \in Nat /\ \A x \in es : x.version <= last
  BY Zenon, <1>1, ApplyFacts DEF NodeState
<1>3. /\ AfterEntries(h, st, es) = upTo[last]
      /\ upTo[0] = h
      /\ \A v \in Nat : v < last => upTo[v + 1] = AfterVersion(upTo[v], st, es, v + 1)
  BY <1>2, UpToFacts
<1> HIDE DEF last, upTo
<1>4. P(0)
  <2>1. {e \in seen(0) : e.version > st.version} = {e \in {} : e.version > st.version}
    BY <1>1
  <2>2. ApplyEntries(st, seen(0)) = ApplyEntries(st, {})
    <3> HIDE DEF seen
    <3> QED  BY Zenon, <2>1, SameNew
  <2>3. ApplyEntries(st, {}) = st
    BY Zenon DEF ApplyEntries
  <2> QED  BY ZenonT(30), <1>3, <2>2, <2>3
<1>5. ASSUME NEW v \in Nat, P(v) PROVE P(v + 1)
  <2> SUFFICES ASSUME v + 1 <= last
               PROVE  Tracks(upTo[v + 1], TRUE, ApplyEntries(st, seen(v + 1)))
    BY ZenonT(30)
  <2>1. v <= last /\ v < last
    BY <1>2
  <2>2. Tracks(upTo[v], TRUE, ApplyEntries(st, seen(v)))
    BY Zenon, <1>5, <2>1
  <2>3. upTo[v + 1] = AfterVersion(upTo[v], st, es, v + 1)
    BY Zenon, <1>3, <2>1
  <2>4. Tracks(AfterVersion(upTo[v], st, es, v + 1), TRUE, ApplyEntries(st, seen(v + 1)))
    BY Zenon, <2>2, VersionTracked
  <2> QED  BY Zenon, <2>3, <2>4
<1>6. T = Nat
  <2> HIDE DEF P
  <2>1. T \in SUBSET Nat /\ 0 \in T /\ \A v \in T : v + 1 \in T
    BY <1>4, <1>5
  <2> HIDE DEF T
  <2> QED  BY Zenon, <2>1, NumberInduction
<1>7. Tracks(upTo[last], TRUE, ApplyEntries(st, seen(last)))
  <2>1. P(last)
    <3> HIDE DEF P
    <3> QED  BY Zenon, <1>2, <1>6
  <2>2. last <= last
    BY <1>2
  <2> QED  BY Zenon, <2>1, <2>2
<1>8. seen(last) = es
  BY Zenon, <1>2
<1> HIDE DEF seen
<1> QED  BY ZenonT(30), <1>3, <1>7, <1>8

-----------------------------------------------------------------------------
(***************************************************************************)
(* The callbacks of each method of clusterState.                           *)
(***************************************************************************)
LEMMA NewNodeFacts ==
    /\ StatusOf(NewNode) = "active"
    /\ EndpointsOf(NewNode) = [e \in Endpoint |-> 0]
    /\ FieldsOf(NewNode) = {}
<1>1. NewNode.entries = {} /\ ~NewNode.left /\ ~NewNode.unreachable
  BY Zenon DEF NewNode
<1>2. FieldsOf(NewNode) = {}
  BY Zenon, <1>1 DEF FieldsOf
<1>3. EndpointsOf(NewNode) = [e \in Endpoint |-> 0]
  BY Zenon, <1>1 DEF EndpointsOf
<1>4. StatusOf(NewNode) = "active"
  BY Zenon, <1>1 DEF StatusOf
<1> QED  BY Zenon, <1>2, <1>3, <1>4

LEMMA KnownTracks ==
    ASSUME NEW h, NEW st, NEW o, NEW S
    PROVE  /\ o \in S => (Tracks(h, o \in S, st) <=> Tracks(h, TRUE, st))
           /\ o \notin S => (Tracks(h, o \in S, st) <=> Tracks(h, FALSE, st))
BY Zenon DEF Tracks, Fits

\* OnJoin for the nodes gossip adds (ApplyDigest, ApplyDelta).
LEMMA AdmitTracked ==
    ASSUME NEW c \in ClusterStates, NEW sender, NEW ids \in SUBSET Node, NEW o \in Node,
           NEW h, Tracks(h, o \in c.nodes, c.state[o])
    PROVE  Tracks(IF o \in Admitted(c, sender, ids) THEN OnJoin(h) ELSE h,
                  o \in AddNodes(c, sender, ids).nodes, c.state[o])
<1> DEFINE new == Admitted(c, sender, ids)
           all == AddNodes(c, sender, ids).nodes
<1>1. all = c.nodes \cup new
  BY Zenon DEF AddNodes, ClusterStates
<1>2. new \cap c.nodes = {}
  BY Zenon DEF Admitted
<1> HIDE DEF new, all
<1>3. CASE o \in new
  <2>1. o \notin c.nodes /\ o \in all
    BY Zenon, <1>1, <1>2, <1>3
  <2>2. Tracks(h, FALSE, c.state[o])
    BY Zenon, <2>1, KnownTracks
  <2>3. c.state[o] = NewNode
    BY Zenon, <2>2 DEF Tracks
  <2>4. Tracks(OnJoin(h), TRUE, NewNode)
    BY Zenon, <2>2, <2>3, NewNodeFacts, JoinFits DEF Tracks
  <2>5. Tracks(OnJoin(h), o \in all, c.state[o])
    BY ZenonT(30), <2>1, <2>3, <2>4, KnownTracks
  <2> QED  BY Zenon, <1>3, <2>5 DEF new, all
<1>4. CASE o \notin new
  <2>1. o \in all <=> o \in c.nodes
    BY Zenon, <1>1, <1>4
  <2>2. Tracks(h, o \in all, c.state[o])
    BY Zenon, <2>1, KnownTracks
  <2> QED  BY Zenon, <1>4, <2>2 DEF new, all
<1> QED  BY Zenon, <1>3, <1>4

LEMMA DigestTracked ==
    ASSUME NEW c \in ClusterStates, NEW sender, NEW digest, IsDigest(digest), NEW o \in Node,
           NEW h, Tracks(h, o \in c.nodes, c.state[o])
    PROVE  Tracks(AfterDigest(h, o, c, sender, digest),
                  o \in ApplyDigest(c, sender, digest).nodes,
                  ApplyDigest(c, sender, digest).state[o])
<1> DEFINE ids == {x \in DOMAIN digest : ~digest[x].left}
<1>1. ids \in SUBSET Node
  BY Zenon DEF IsDigest
<1>2. ApplyDigest(c, sender, digest) = AddNodes(c, sender, ids)
  BY Zenon DEF ApplyDigest
<1>3. AfterDigest(h, o, c, sender, digest) = IF o \in Admitted(c, sender, ids) THEN OnJoin(h) ELSE h
  BY Zenon DEF AfterDigest
<1> HIDE DEF ids
<1>4. AddNodes(c, sender, ids).state = c.state
  BY Zenon, <1>1, AddNodesFacts
<1>5. Tracks(IF o \in Admitted(c, sender, ids) THEN OnJoin(h) ELSE h,
             o \in AddNodes(c, sender, ids).nodes, c.state[o])
  BY Zenon, <1>1, AdmitTracked
<1> QED  BY ZenonT(30), <1>2, <1>3, <1>4, <1>5

LEMMA DeltaTracked ==
    ASSUME NEW c \in ClusterStates, NEW localID, NEW sender, NEW delta, IsDelta(delta),
           NEW o \in Node, o # localID, OneEntryPerKey(c.state[o].entries),
           o \in DOMAIN delta => Orderly(delta[o]),
           NEW N \in Nat, o \in DOMAIN delta => \A e \in delta[o] : e.version <= N,
           NEW h, Tracks(h, o \in c.nodes, c.state[o])
    PROVE  Tracks(AfterDelta(h, o, c, sender, delta),
                  o \in ApplyDelta(c, localID, sender, delta).nodes,
                  ApplyDelta(c, localID, sender, delta).state[o])
<1> DEFINE ids == DOMAIN delta
           added == AddNodes(c, sender, ids)
           joined == IF o \in Admitted(c, sender, ids) THEN OnJoin(h) ELSE h
           state == [x \in Node |-> IF x \in (ids \cap added.nodes) \ {localID}
                                    THEN ApplyEntries(c.state[x], delta[x]) ELSE c.state[x]]
           r == ApplyDelta(c, localID, sender, delta)
<1>1. ids \in SUBSET Node
  BY Zenon DEF IsDelta
<1>2. added \in ClusterStates
  BY Zenon, <1>1, AddNodesFacts
<1>3. r = [added EXCEPT !.state = state]
  BY Zenon DEF ApplyDelta
<1>4. r.nodes = added.nodes /\ r.state = state
  <2> HIDE DEF added, state, r
  <2> QED  BY Zenon, <1>2, <1>3 DEF ClusterStates
<1>5. Tracks(joined, o \in added.nodes, c.state[o])
  BY Zenon, <1>1, AdmitTracked
<1>6. AfterDelta(h, o, c, sender, delta) =
          IF o \in ids \cap added.nodes THEN AfterEntries(joined, c.state[o], delta[o]) ELSE joined
  BY ZenonT(30) DEF AfterDelta
<1>7. state[o] = IF o \in ids \cap added.nodes THEN ApplyEntries(c.state[o], delta[o]) ELSE c.state[o]
  BY Zenon
<1>8. c.state[o] \in NodeState
  BY Zenon DEF ClusterStates
<1> HIDE DEF added, joined, state, r
<1>9. CASE o \in ids \cap added.nodes
  <2>1. Tracks(joined, TRUE, c.state[o])
    BY ZenonT(30), <1>5, <1>9, KnownTracks
  <2>2. Tracks(AfterEntries(joined, c.state[o], delta[o]), TRUE, ApplyEntries(c.state[o], delta[o]))
    BY ZenonT(30), <1>8, <1>9, <2>1, EntriesTracked
  <2>3. Tracks(AfterEntries(joined, c.state[o], delta[o]), o \in r.nodes, r.state[o])
    BY ZenonT(30), <1>4, <1>7, <1>9, <2>2, KnownTracks
  <2> QED  BY ZenonT(30), <1>6, <1>9, <2>3 DEF r
<1>10. CASE o \notin ids \cap added.nodes
  <2>1. Tracks(joined, o \in r.nodes, r.state[o])
    BY ZenonT(30), <1>4, <1>5, <1>7, <1>10
  <2> QED  BY ZenonT(30), <1>6, <1>10, <2>1 DEF r
<1> QED  BY Zenon, <1>9, <1>10

LEMMA LivenessTracked ==
    ASSUME NEW c \in ClusterStates, NEW localID \in Node, NEW suspects, NEW o \in Node,
           NEW h, Tracks(h, o \in c.nodes, c.state[o])
    PROVE  LET d == UpdateLiveness(c, localID, suspects)
           IN  Tracks(AfterLiveness(h, o, c, d), o \in d.nodes, d.state[o])
<1> DEFINE d == UpdateLiveness(c, localID, suspects)
           changed == [c.state[o] EXCEPT !.unreachable = o \in suspects, !.expiry = o \in suspects]
           Checked == o \in c.nodes \ {localID} /\ ~c.state[o].left
                      /\ c.state[o].unreachable # (o \in suspects)
<1>1. d.nodes = c.nodes /\ d.state[o] = IF Checked THEN changed ELSE c.state[o]
  BY Zenon DEF UpdateLiveness, ClusterStates
<1>2. c.state[o] \in NodeState /\ (o \in suspects) \in BOOLEAN
  BY DEF ClusterStates
<1>3. /\ changed.unreachable = (o \in suspects) /\ changed.left = c.state[o].left
      /\ changed.entries = c.state[o].entries
  <2> DEFINE b == o \in suspects
  <2>1. b \in BOOLEAN
    OBVIOUS
  <2> HIDE DEF b
  <2>2. LET x == [c.state[o] EXCEPT !.unreachable = b, !.expiry = b]
        IN  x.unreachable = b /\ x.left = c.state[o].left /\ x.entries = c.state[o].entries
    BY Zenon, <1>2, <2>1 DEF NodeState
  <2> QED  BY Zenon, <2>2 DEF b
<1> HIDE DEF d, changed
<1>4. CASE ~Checked
  <2>1. d.state[o] = c.state[o]
    BY ZenonT(30), <1>1, <1>4
  <2>2. AfterLiveness(h, o, c, d) = h
    BY Zenon, <2>1 DEF AfterLiveness
  <2> QED  BY ZenonT(30), <1>1, <2>1, <2>2 DEF d
<1>5. CASE Checked
  <2>1. d.state[o] = changed /\ o \in d.nodes /\ o \in c.nodes
    BY ZenonT(30), <1>1, <1>5
  <2> DEFINE status == IF changed.unreachable THEN "unreachable" ELSE "active"
  <2>2. AfterLiveness(h, o, c, d) = OnStatus(h, status)
    BY ZenonT(30), <1>3, <1>5, <2>1 DEF AfterLiveness
  <2>3. StatusOf(changed) = status /\ status \in {"active", "unreachable"}
    BY ZenonT(30), <1>3, <1>5 DEF StatusOf
  <2>4. StatusOf(c.state[o]) \in {"active", "unreachable"}
    BY ZenonT(30), <1>5 DEF StatusOf
  <2>5. EndpointsOf(changed) = EndpointsOf(c.state[o]) /\ FieldsOf(changed) = FieldsOf(c.state[o])
    BY SMTT(30), <1>3 DEF EndpointsOf, FieldsOf
  <2> HIDE DEF status
  <2>6. Fits(h, TRUE, StatusOf(c.state[o]), EndpointsOf(c.state[o]), FieldsOf(c.state[o]))
    BY ZenonT(30), <2>1, KnownTracks DEF Tracks
  <2>7. Tracks(OnStatus(h, status), TRUE, changed)
    BY ZenonT(30), <2>3, <2>4, <2>5, <2>6, StatusFits DEF Tracks
  <2>8. Tracks(AfterLiveness(h, o, c, d), o \in d.nodes, d.state[o])
    BY ZenonT(30), <2>1, <2>2, <2>7, KnownTracks
  <2> QED  BY Zenon, <2>8 DEF d
<1> QED  BY Zenon, <1>4, <1>5

LEMMA ExpiryTracked ==
    ASSUME NEW c \in ClusterStates, NEW expired \in SUBSET c.nodes, NEW stale, NEW o \in Node,
           NEW h, Tracks(h, o \in c.nodes, c.state[o])
    PROVE  LET d == RemoveExpired(c, expired, stale)
           IN  Tracks(AfterExpiry(h, o, c, d), o \in d.nodes, d.state[o])
<1> DEFINE d == RemoveExpired(c, expired, stale)
<1>1. d.nodes = c.nodes \ expired /\ d.state[o] = IF o \in expired THEN NewNode ELSE c.state[o]
  BY Zenon DEF RemoveExpired
<1> HIDE DEF d
<1>2. CASE o \in expired
  <2>1. o \in c.nodes /\ o \notin d.nodes /\ d.state[o] = NewNode
    BY ZenonT(30), <1>1, <1>2
  <2>2. AfterExpiry(h, o, c, d) = OnExpired(h)
    BY Zenon, <2>1 DEF AfterExpiry
  <2>3. Fits(h, TRUE, StatusOf(c.state[o]), EndpointsOf(c.state[o]), FieldsOf(c.state[o]))
    BY ZenonT(30), <2>1, KnownTracks DEF Tracks
  <2>4. Tracks(OnExpired(h), FALSE, NewNode)
    BY ZenonT(30), <2>3, NewNodeFacts, ExpiredFits DEF Tracks
  <2>5. Tracks(AfterExpiry(h, o, c, d), o \in d.nodes, d.state[o])
    BY ZenonT(30), <2>1, <2>2, <2>4, KnownTracks
  <2> QED  BY Zenon, <2>5 DEF d
<1>3. CASE o \notin expired
  <2>1. (o \in d.nodes <=> o \in c.nodes) /\ d.state[o] = c.state[o]
    BY ZenonT(30), <1>1, <1>3
  <2>2. AfterExpiry(h, o, c, d) = h
    BY Zenon, <2>1 DEF AfterExpiry
  <2>3. Tracks(AfterExpiry(h, o, c, d), o \in d.nodes, d.state[o])
    BY ZenonT(30), <2>1, <2>2, KnownTracks
  <2> QED  BY Zenon, <2>3 DEF d
<1> QED  BY ZenonT(30), <1>2, <1>3

-----------------------------------------------------------------------------
(***************************************************************************)
(* The inductive invariant: every syncer tracks gossip's state of every    *)
(* other node.                                                             *)
(***************************************************************************)
SyncInv ==
    /\ pendingNodes \in [Node -> [Node -> ClusterNode]]
    /\ nodes \in [Node -> [Node -> ClusterNode]]
    /\ \A n \in Node : pendingNodes[n][n] = NoNode
    /\ \A n, o \in Node : n # o => Tracks(Held(n, o), o \in cluster[n].nodes, View(n, o))

\* A step of m that changes its state to c and runs the callbacks.
LEMMA HandleStep ==
    ASSUME IInv, SyncInv, NEW m \in Node, NEW c \in ClusterStates,
           cluster' = [cluster EXCEPT ![m] = c], NEW held, Handle(m, held),
           \A o \in Node \ {m} : Tracks(held[o], o \in c.nodes, c.state[o])
    PROVE  SyncInv'
<1>1. /\ \A n, o \in Node : View(n, o)' = IF n = m THEN c.state[o] ELSE View(n, o)
      /\ \A n \in Node : cluster'[n] = IF n = m THEN c ELSE cluster[n]
  <2>1. cluster \in [Node -> ClusterStates]
    BY Zenon DEF IInv, TypeOK
  <2> QED  BY ZenonT(30), <2>1, SetCluster DEF IInv
<1>2. \A o \in Node \ {m} : held[o] \in HeldStates
  BY Zenon DEF Tracks, Fits
<1> DEFINE pending == [o \in Node |-> IF o = m THEN pendingNodes[m][o] ELSE held[o].pending]
           known == [o \in Node |-> IF o = m THEN nodes[m][o] ELSE held[o].node]
<1>3. pendingNodes' = [pendingNodes EXCEPT ![m] = pending] /\ nodes' = [nodes EXCEPT ![m] = known]
  BY Zenon DEF Handle
<1>4. pending \in [Node -> ClusterNode] /\ known \in [Node -> ClusterNode]
  BY SMTT(30), <1>2 DEF SyncInv, HeldStates
<1>5. /\ pending[m] = NoNode
      /\ \A o \in Node \ {m} : pending[o] = held[o].pending /\ known[o] = held[o].node
  BY Zenon DEF SyncInv
<1> HIDE DEF pending, known
<1>6. /\ pendingNodes' \in [Node -> [Node -> ClusterNode]]
      /\ nodes' \in [Node -> [Node -> ClusterNode]]
      /\ \A n \in Node : pendingNodes'[n] = IF n = m THEN pending ELSE pendingNodes[n]
      /\ \A n \in Node : nodes'[n] = IF n = m THEN known ELSE nodes[n]
  BY ZenonT(30), <1>3, <1>4 DEF SyncInv
<1>7. ASSUME NEW n \in Node, NEW o \in Node, n # o
      PROVE  Tracks(Held(n, o)', o \in cluster'[n].nodes, View(n, o)')
  <2>1. CASE n = m
    <3>1. Held(n, o)' = [pending |-> held[o].pending, node |-> held[o].node]
      BY ZenonT(30), <1>5, <1>6, <1>7, <2>1 DEF Held
    <3>2. held[o] = [pending |-> held[o].pending, node |-> held[o].node]
      BY ZenonT(30), <1>2, <1>7, <2>1 DEF HeldStates
    <3>3. Held(n, o)' = held[o]
      BY ZenonT(30), <3>1, <3>2
    <3>4. cluster'[n] = c /\ View(n, o)' = c.state[o]
      BY ZenonT(30), <1>1, <2>1
    <3> QED  BY ZenonT(30), <1>7, <2>1, <3>3, <3>4
  <2>2. CASE n # m
    <3>1. Held(n, o)' = Held(n, o)
      BY ZenonT(30), <1>6, <2>2 DEF Held
    <3>2. cluster'[n] = cluster[n] /\ View(n, o)' = View(n, o)
      BY Zenon, <1>1, <2>2
    <3> QED  BY Zenon, <1>7, <3>1, <3>2 DEF SyncInv
  <2> QED  BY ZenonT(30), <2>1, <2>2
<1>8. \A n \in Node : pendingNodes'[n][n] = NoNode
  BY ZenonT(30), <1>5, <1>6 DEF SyncInv
<1> QED  BY ZenonT(30), <1>6, <1>7, <1>8 DEF SyncInv

\* A step that writes m's own state and touches what is held of m only.
LEMMA OwnStep ==
    ASSUME IInv, SyncInv, NEW m \in Node, NEW st,
           cluster' = [cluster EXCEPT ![m].state[m] = st], UNCHANGED pendingNodes,
           nodes' \in [Node -> [Node -> ClusterNode]],
           \A n, o \in Node : n # o => nodes'[n][o] = nodes[n][o]
    PROVE  SyncInv'
<1>1. cluster \in [Node -> ClusterStates]
  BY Zenon DEF IInv, TypeOK
<1>2. \A n, o \in Node : n # o => View(n, o)' = View(n, o)
  BY <1>1 DEF View, ClusterStates
<1>3. \A n \in Node : cluster'[n].nodes = cluster[n].nodes
  BY <1>1 DEF ClusterStates
<1>4. \A n, o \in Node : n # o => Held(n, o)' = Held(n, o)
  BY Zenon DEF Held
<1>5. ASSUME NEW n \in Node, NEW o \in Node, n # o
      PROVE  Tracks(Held(n, o)', o \in cluster'[n].nodes, View(n, o)')
  BY ZenonT(30), <1>2, <1>3, <1>4, <1>5 DEF SyncInv
<1> QED  BY Zenon, <1>5 DEF SyncInv

\* A step that changes no state of a node.
LEMMA SameStep ==
    ASSUME SyncInv, UNCHANGED <<cluster, pendingNodes, nodes>>
    PROVE  SyncInv'
<1>1. \A n, o \in Node : View(n, o)' = View(n, o) /\ Held(n, o)' = Held(n, o)
  BY Zenon DEF View, Held
<1>2. ASSUME NEW n \in Node, NEW o \in Node, n # o
      PROVE  Tracks(Held(n, o)', o \in cluster'[n].nodes, View(n, o)')
  BY Zenon, <1>1, <1>2 DEF SyncInv
<1> QED  BY Zenon, <1>2 DEF SyncInv

LEMMA UpdateEndpointStep ==
    ASSUME IInv, SyncInv, NEW n \in Node, NEW e \in Endpoint, NEW count \in 0..MaxListeners,
           UpdateLocalEndpoint(n, e, count)
    PROVE  SyncInv'
<1>1. PICK st : SetLocal(n, st)
  BY Zenon DEF UpdateLocalEndpoint, Publish, Upsert, Delete
<1>2. cluster' = [cluster EXCEPT ![n].state[n] = st]
  BY Zenon, <1>1 DEF SetLocal
<1>3. count \in Count
  <2>1. count = 0 \/ count \in 1..MaxListeners
    OBVIOUS
  <2> QED  BY ZenonT(30), <2>1, KeysAssumption DEF Count
<1>4. nodes \in [Node -> [Node -> ClusterNode]]
  BY Zenon DEF SyncInv
<1> DEFINE own == [nodes[n][n] EXCEPT !.endpoints[e] = count]
<1>5. nodes' = [nodes EXCEPT ![n] = [nodes[n] EXCEPT ![n] = own]] /\ UNCHANGED pendingNodes
  BY Zenon, <1>4 DEF UpdateLocalEndpoint
<1>6. own \in ClusterNode
  <2>1. nodes[n][n] \in ClusterNode
    BY Zenon, <1>4
  <2> QED  BY Zenon, <1>3, <2>1 DEF ClusterNode
<1> HIDE DEF own
<1>7. /\ nodes' \in [Node -> [Node -> ClusterNode]]
      /\ \A m, o \in Node : m # o => nodes'[m][o] = nodes[m][o]
  BY ZenonT(30), <1>4, <1>5, <1>6
<1> QED  BY ZenonT(30), <1>2, <1>5, <1>7, OwnStep

LEMMA WriteOwnStep ==
    ASSUME IInv, SyncInv, NEW n \in Node,
           Sync(n) \/ ((Leave(n) \/ Compact(n)) /\ UNCHANGED <<pendingNodes, nodes>>)
    PROVE  SyncInv'
<1>1. UNCHANGED <<pendingNodes, nodes>>
  BY Zenon DEF Sync
<1>2. PICK st : SetLocal(n, st)
  BY Zenon DEF Sync, Upsert, Leave, Compact
<1>3. cluster' = [cluster EXCEPT ![n].state[n] = st]
  BY Zenon, <1>2 DEF SetLocal
<1>4. /\ nodes' \in [Node -> [Node -> ClusterNode]]
      /\ \A m, o \in Node : m # o => nodes'[m][o] = nodes[m][o]
  BY Zenon, <1>1 DEF SyncInv
<1> QED  BY ZenonT(30), <1>1, <1>3, <1>4, OwnStep

LEMMA HeldOf ==
    ASSUME IInv, SyncInv, NEW m \in Node
    PROVE  /\ cluster[m] \in ClusterStates
           /\ \A o \in Node \ {m} : Tracks(Held(m, o), o \in cluster[m].nodes, cluster[m].state[o])
BY Zenon DEF IInv, TypeOK, SyncInv, View

LEMMA LivenessStep ==
    ASSUME IInv, SyncInv, NEW n \in Node, CheckLiveness(n), LivenessHandled(n)
    PROVE  SyncInv'
<1>1. PICK suspects \in Suspects :
          cluster' = [cluster EXCEPT ![n] = UpdateLiveness(cluster[n], n, suspects)]
  BY Zenon DEF CheckLiveness
<1> DEFINE c == cluster[n]
           d == UpdateLiveness(c, n, suspects)
           held == [o \in Node |-> AfterLiveness(Held(n, o), o, c, d)]
<1>2. c \in ClusterStates /\ \A o \in Node \ {n} : Tracks(Held(n, o), o \in c.nodes, c.state[o])
  BY Zenon, HeldOf
<1>3. d \in ClusterStates
  BY Zenon, <1>2, UpdateLivenessFacts DEF SameUpToLiveness
<1>4. cluster' = [cluster EXCEPT ![n] = d]
  BY Zenon, <1>1
<1>5. cluster'[n] = d
  <2> HIDE DEF d
  <2> QED  BY ZenonT(30), <1>3, <1>4, SetCluster DEF IInv
<1>6. Handle(n, held)
  BY Zenon, <1>5 DEF LivenessHandled
<1>7. ASSUME NEW o \in Node \ {n} PROVE Tracks(held[o], o \in d.nodes, d.state[o])
  BY ZenonT(30), <1>2, LivenessTracked
<1> HIDE DEF d, held
<1> QED  BY ZenonT(30), <1>3, <1>4, <1>6, <1>7, HandleStep

LEMMA ExpiryHandledStep ==
    ASSUME IInv, SyncInv, NEW n \in Node, Expire(n), ExpiryHandled(n)
    PROVE  SyncInv'
<1>1. PICK expired \in SUBSET {o \in cluster[n].nodes : cluster[n].state[o].expiry},
           stale \in SUBSET cluster[n].tombstones :
          cluster' = [cluster EXCEPT ![n] = RemoveExpired(cluster[n], expired, stale)]
  BY Zenon DEF Expire
<1> DEFINE c == cluster[n]
           d == RemoveExpired(c, expired, stale)
           held == [o \in Node |-> AfterExpiry(Held(n, o), o, c, d)]
<1>2. c \in ClusterStates /\ \A o \in Node \ {n} : Tracks(Held(n, o), o \in c.nodes, c.state[o])
  BY Zenon, HeldOf
<1>3. expired \in SUBSET c.nodes /\ expired \in SUBSET Node
  BY Zenon, <1>2 DEF ClusterStates
<1>4. d \in ClusterStates
  BY ZenonT(30), <1>2, <1>3, RemoveExpiredFacts
<1>5. cluster' = [cluster EXCEPT ![n] = d]
  BY Zenon, <1>1
<1>6. cluster'[n] = d
  <2> HIDE DEF d
  <2> QED  BY ZenonT(30), <1>4, <1>5, SetCluster DEF IInv
<1>7. Handle(n, held)
  BY Zenon, <1>6 DEF ExpiryHandled
<1>8. ASSUME NEW o \in Node \ {n} PROVE Tracks(held[o], o \in d.nodes, d.state[o])
  BY ZenonT(30), <1>2, <1>3, ExpiryTracked
<1> HIDE DEF d, held
<1> QED  BY ZenonT(30), <1>4, <1>5, <1>7, <1>8, HandleStep

\* The deltas in flight are orderly, and the views have one entry per key.
LEMMA ReceivedDelta ==
    ASSUME IInv, EntriesInv, NEW p \in net, NEW o \in Node
    PROVE  /\ OneEntryPerKey(cluster[p.to].state[o].entries)
           /\ o \in DOMAIN p.delta => Orderly(p.delta[o])
           /\ \E N \in Nat : o \in DOMAIN p.delta => \A e \in p.delta[o] : e.version <= N
<1>1. p.to \in Node /\ IsDelta(p.delta)
  BY Zenon, ReceiveFacts
<1>2. OneEntryPerKey(cluster[p.to].state[o].entries)
  BY Zenon, <1>1 DEF EntriesInv, KeyInv, View
<1>3. ASSUME o \in DOMAIN p.delta PROVE Orderly(p.delta[o])
  <2>1. \A e \in p.delta[o] : Exists(e, o)
    BY Zenon, <1>3 DEF Exists
  <2>2. OneEntryPerKey(p.delta[o]) /\ p.delta[o] \in SUBSET Entry
    BY ZenonT(30), <1>1, <1>3 DEF EntriesInv, KeyInv, IsDelta
  <2>3. \A e, f \in p.delta[o] : e.version = f.version => e = f
    BY Zenon, <2>1 DEF EntriesInv, VersionInv
  <2>4. \A e \in p.delta[o] : CompactsBelow(e)
    BY Zenon, <2>1 DEF EntriesInv, CompactInv
  <2> QED  BY ZenonT(30), <2>2, <2>3, <2>4 DEF Orderly
<1>4. Local(o).version \in Nat
  BY ZenonT(30), OwnerFacts DEF NodeState
<1>5. o \in DOMAIN p.delta => \A e \in p.delta[o] : e.version <= Local(o).version
  BY ZenonT(30) DEF IInv, MessageInv, Sound
<1> QED  BY ZenonT(30), <1>2, <1>3, <1>4, <1>5

LEMMA DigestStep ==
    ASSUME IInv, SyncInv, NEW p \in net, ReceiveDigest(p), DigestHandled(p)
    PROVE  SyncInv'
<1> DEFINE m == p.to
           c == cluster[m]
           d == ApplyDigest(c, p.from, p.digest)
           held == [o \in Node |-> AfterDigest(Held(m, o), o, c, p.from, p.digest)]
<1>1. m \in Node /\ IsDigest(p.digest)
  BY Zenon, ReceiveFacts
<1>2. c \in ClusterStates /\ \A o \in Node \ {m} : Tracks(Held(m, o), o \in c.nodes, c.state[o])
  BY Zenon, <1>1, HeldOf
<1>3. cluster' = [cluster EXCEPT ![m] = d]
  BY Zenon DEF ReceiveDigest
<1>4. Handle(m, held)
  BY Zenon DEF DigestHandled
<1>5. d \in ClusterStates
  BY Zenon, <1>1, <1>2, ApplyDigestFacts
<1>6. ASSUME NEW o \in Node \ {m} PROVE Tracks(held[o], o \in d.nodes, d.state[o])
  BY ZenonT(30), <1>1, <1>2, DigestTracked
<1> HIDE DEF d, held, m
<1> QED  BY ZenonT(30), <1>1, <1>3, <1>4, <1>5, <1>6, HandleStep

\* Applying the delta of p.
LEMMA DeltaHeld ==
    ASSUME IInv, SyncInv, EntriesInv, NEW p \in net
    PROVE  LET d == ApplyDelta(cluster[p.to], p.to, p.from, p.delta)
           IN  /\ d \in ClusterStates
               /\ \A o \in Node \ {p.to} :
                      Tracks(AfterDelta(Held(p.to, o), o, cluster[p.to], p.from, p.delta),
                             o \in d.nodes, d.state[o])
<1> DEFINE m == p.to
           c == cluster[m]
           d == ApplyDelta(c, m, p.from, p.delta)
<1>1. m \in Node /\ IsDelta(p.delta)
  BY Zenon, ReceiveFacts
<1>2. c \in ClusterStates /\ \A o \in Node \ {m} : Tracks(Held(m, o), o \in c.nodes, c.state[o])
  BY ZenonT(30), <1>1, HeldOf
<1>3. d \in ClusterStates
  <2> DEFINE N == [o \in Node |-> Local(o).version]
  <2>1. \A o \in Node : Local(o).version \in Nat
    BY Zenon, OwnerFacts DEF NodeState
  <2>2. N \in [Node -> Nat]
    BY ZenonT(30), <2>1
  <2>3. \A o \in DOMAIN p.delta : \A e \in p.delta[o] : e.version <= N[o]
    BY ZenonT(30), <1>1 DEF IInv, MessageInv, Sound, IsDelta
  <2> HIDE DEF N
  <2> QED  BY ZenonT(30), <1>1, <1>2, <2>2, <2>3, ApplyDeltaFacts
<1>4. ASSUME NEW o \in Node \ {m}
      PROVE  Tracks(AfterDelta(Held(m, o), o, c, p.from, p.delta), o \in d.nodes, d.state[o])
  <2>1. /\ OneEntryPerKey(c.state[o].entries)
        /\ o \in DOMAIN p.delta => Orderly(p.delta[o])
    BY Zenon, ReceivedDelta
  <2>2. PICK N \in Nat : o \in DOMAIN p.delta => \A e \in p.delta[o] : e.version <= N
    BY Zenon, ReceivedDelta
  <2> QED  BY ZenonT(30), <1>1, <1>2, <2>1, <2>2, DeltaTracked
<1> QED  BY ZenonT(30), <1>3, <1>4

LEMMA DeltaStep ==
    ASSUME IInv, SyncInv, EntriesInv, NEW p \in net, ReceiveDelta(p), DeltaHandled(p)
    PROVE  SyncInv'
<1> DEFINE m == p.to
           c == cluster[m]
           d == ApplyDelta(c, m, p.from, p.delta)
           held == [o \in Node |-> AfterDelta(Held(m, o), o, c, p.from, p.delta)]
<1>1. m \in Node
  BY Zenon, ReceiveFacts
<1>2. cluster' = [cluster EXCEPT ![m] = d]
  BY Zenon DEF ReceiveDelta
<1>3. Handle(m, held)
  BY Zenon DEF DeltaHandled
<1>4. d \in ClusterStates
  BY Zenon, DeltaHeld
<1>5. ASSUME NEW o \in Node \ {m} PROVE Tracks(held[o], o \in d.nodes, d.state[o])
  BY Zenon, DeltaHeld
<1> HIDE DEF d, held, m
<1> QED  BY ZenonT(30), <1>1, <1>2, <1>3, <1>4, <1>5, HandleStep

LEMMA JoinHandledStep ==
    ASSUME IInv, SyncInv, EntriesInv, NEW p \in net, ReceiveJoin(p), JoinHandled(p)
    PROVE  SyncInv'
<1> DEFINE m == p.to
           a == ApplyDelta(cluster[m], m, p.from, p.delta)
           d == ApplyDigest(a, p.from, p.digest)
           after(o) == AfterDelta(Held(m, o), o, cluster[m], p.from, p.delta)
           held == [o \in Node |-> AfterDigest(after(o), o, a, p.from, p.digest)]
<1>1. m \in Node /\ IsDigest(p.digest)
  BY Zenon, ReceiveFacts
<1>2. cluster' = [cluster EXCEPT ![m] = d]
  BY Zenon DEF ReceiveJoin
<1>3. Handle(m, held)
  BY Zenon DEF JoinHandled
<1>4. a \in ClusterStates /\ \A o \in Node \ {m} : Tracks(after(o), o \in a.nodes, a.state[o])
  BY ZenonT(30), DeltaHeld
<1> HIDE DEF a, after
<1>5. d \in ClusterStates
  BY ZenonT(30), <1>1, <1>4, ApplyDigestFacts
<1>6. ASSUME NEW o \in Node \ {m} PROVE Tracks(held[o], o \in d.nodes, d.state[o])
  BY ZenonT(30), <1>1, <1>4, DigestTracked
<1> HIDE DEF d, held, m
<1> QED  BY ZenonT(30), <1>1, <1>2, <1>3, <1>5, <1>6, HandleStep

LEMMA SyncInvInit == SyncInit => SyncInv
<1> SUFFICES ASSUME SyncInit PROVE SyncInv
  BY Zenon
<1>1. NoNode \in ClusterNode /\ [NoNode EXCEPT !.status = "active", !.fields = AddrKeys] \in ClusterNode
  BY Zenon, NodeFacts DEF ClusterNode
<1>2. /\ pendingNodes \in [Node -> [Node -> ClusterNode]]
      /\ nodes \in [Node -> [Node -> ClusterNode]]
      /\ \A n \in Node : pendingNodes[n][n] = NoNode
      /\ \A n, o \in Node : n # o => pendingNodes[n][o] = NoNode /\ nodes[n][o] = NoNode
  BY Zenon, <1>1 DEF SyncInit
<1>3. ASSUME NEW n \in Node, NEW o \in Node, n # o
      PROVE  Tracks(Held(n, o), o \in cluster[n].nodes, View(n, o))
  <2>1. o \notin cluster[n].nodes /\ View(n, o) = NewNode
    BY Zenon, <1>3 DEF SyncInit, Init, newClusterState, View
  <2>2. Held(n, o) \in HeldStates /\ Held(n, o).node = NoNode /\ Held(n, o).pending = NoNode
    BY ZenonT(30), <1>1, <1>2, <1>3 DEF Held, HeldStates
  <2>3. Tracks(Held(n, o), FALSE, NewNode)
    BY Zenon, <2>2 DEF Tracks, Fits
  <2> QED  BY ZenonT(30), <2>1, <2>3, KnownTracks
<1> QED  BY Zenon, <1>2, <1>3 DEF SyncInv

LEMMA SyncInvStep ==
    ASSUME IInv, EntriesInv, SyncInv, [SyncNext]_syncVars
    PROVE  SyncInv'
<1>1. CASE UNCHANGED syncVars
  BY ZenonT(30), <1>1, SameStep DEF syncVars, vars
<1>2. ASSUME NEW n \in Node, Sync(n) PROVE SyncInv'
  BY ZenonT(30), <1>2, WriteOwnStep
<1>3. ASSUME NEW n \in Node, NEW e \in Endpoint, NEW count \in 0..MaxListeners,
             UpdateLocalEndpoint(n, e, count)
      PROVE  SyncInv'
  BY Zenon, <1>3, UpdateEndpointStep
<1>4. ASSUME NEW n \in Node, (Leave(n) \/ Compact(n)) /\ UNCHANGED <<pendingNodes, nodes>>
      PROVE  SyncInv'
  BY ZenonT(30), <1>4, WriteOwnStep
<1>5. ASSUME NEW n \in Node, CheckLiveness(n) /\ LivenessHandled(n) PROVE SyncInv'
  BY Zenon, <1>5, LivenessStep
<1>6. ASSUME NEW n \in Node, Expire(n) /\ ExpiryHandled(n) PROVE SyncInv'
  BY ZenonT(30), <1>6, ExpiryHandledStep
<1>7. ASSUME NEW n \in Node, NEW m \in Node, GossipRound(n, m) \/ Join(n, m) \/ SendLeave(n, m),
             UNCHANGED <<pendingNodes, nodes>>
      PROVE  SyncInv'
  <2>1. UNCHANGED cluster
    BY Zenon, <1>7 DEF GossipRound, Join, SendLeave
  <2> QED  BY ZenonT(30), <1>7, <2>1, SameStep
<1>8. ASSUME NEW p \in net, ReceiveDigest(p) /\ DigestHandled(p) PROVE SyncInv'
  BY ZenonT(30), <1>8, DigestStep
<1>9. ASSUME NEW p \in net, ReceiveDelta(p) /\ DeltaHandled(p) PROVE SyncInv'
  BY ZenonT(30), <1>9, DeltaStep
<1>10. ASSUME NEW p \in net, ReceiveJoin(p) /\ JoinHandled(p) PROVE SyncInv'
  BY Zenon, <1>10, JoinHandledStep
<1>11. ASSUME NEW p \in net, Lose(p) /\ UNCHANGED <<pendingNodes, nodes>> PROVE SyncInv'
  BY Zenon, <1>11, SameStep DEF Lose
<1> QED  BY ZenonT(60), <1>1, <1>2, <1>3, <1>4, <1>5, <1>6, <1>7, <1>8, <1>9, <1>10, <1>11
         DEF SyncNext

\* Every syncer tracks gossip's state of every other node, whatever order
\* entries, compactions, failures and expiries come in (the Watcher callbacks
\* of syncer.go, as applyDeltaEntry, UpdateLiveness and RemoveExpiredAt make
\* them).
THEOREM SyncersTrack == SyncSpec => []SyncInv
<1>1. SyncInit => SyncInv
  BY Zenon, SyncInvInit
<1>2. IInv /\ EntriesInv /\ SyncInv /\ [SyncNext]_syncVars => SyncInv'
  BY Zenon, SyncInvStep
<1> QED  BY <1>1, <1>2, SyncersGossip, Invariance, EntriesInvAlways, PTL DEF SyncSpec

\* A node in cluster.State is known to gossip, with the status, the endpoints
\* and the addresses gossip has for it: requests are routed by what gossip knows.
THEOREM RoutesAreGossip == SyncSpec => []ClusterMatchesGossip
<1>1. SyncInv => ClusterMatchesGossip
  <2> SUFFICES ASSUME SyncInv, NEW n \in Node, NEW o \in InCluster(n) \ {n}
               PROVE  /\ o \in cluster[n].nodes
                      /\ nodes[n][o].status = StatusOf(View(n, o))
                      /\ nodes[n][o].endpoints = EndpointsOf(View(n, o))
                      /\ nodes[n][o].fields = AddrKeys
    BY Zenon DEF ClusterMatchesGossip
  <2>1. o \in Node /\ n # o /\ nodes[n][o] # NoNode
    BY Zenon DEF InCluster
  <2>2. Fits(Held(n, o), o \in cluster[n].nodes, StatusOf(View(n, o)),
             EndpointsOf(View(n, o)), FieldsOf(View(n, o)))
    BY Zenon, <2>1 DEF SyncInv, Tracks
  <2>3. Held(n, o).node = nodes[n][o]
    BY Zenon DEF Held
  <2> QED  BY ZenonT(30), <2>1, <2>2, <2>3 DEF Fits
<1> QED  BY <1>1, SyncersTrack, PTL

\* The pending nodes are the known ones that have not left and are not in
\* cluster.State, and gossip lacks an address of each: OnUpsertKey adds a node
\* with the entry that completes it, and no callback forgets one.
THEOREM PendingNodesLackAddress == SyncSpec => []PendingLacksAddress
<1>1. IInv /\ SyncInv => PendingLacksAddress
  <2> SUFFICES ASSUME IInv, SyncInv, NEW n \in Node
               PROVE  LET pending == {o \in Node : pendingNodes[n][o] # NoNode}
                      IN  /\ pending = {o \in cluster[n].nodes \ {n} : ~View(n, o).left} \ InCluster(n)
                          /\ \A o \in pending : FieldsOf(View(n, o)) # AddrKeys
    BY Zenon DEF PendingLacksAddress
  <2> DEFINE pending == {o \in Node : pendingNodes[n][o] # NoNode}
  <2>1. n \notin pending
    BY Zenon DEF SyncInv
  <2>2. cluster[n].nodes \subseteq Node
    BY Zenon DEF IInv, TypeOK, ClusterStates
  <2>3. ASSUME NEW o \in Node, o # n
        PROVE  /\ o \in pending <=> o \in cluster[n].nodes /\ ~View(n, o).left /\ o \notin InCluster(n)
               /\ o \in pending => FieldsOf(View(n, o)) # AddrKeys
    <3>1. Fits(Held(n, o), o \in cluster[n].nodes, StatusOf(View(n, o)),
               EndpointsOf(View(n, o)), FieldsOf(View(n, o)))
      BY Zenon, <2>3 DEF SyncInv, Tracks
    <3>2. Held(n, o).node = nodes[n][o] /\ Held(n, o).pending = pendingNodes[n][o]
      BY Zenon DEF Held
    <3>3. StatusOf(View(n, o)) # "left" <=> ~View(n, o).left
      BY Zenon DEF StatusOf
    <3>4. Held(n, o).pending.fields \subseteq AddrKeys
      BY Zenon, <3>1 DEF Fits, HeldStates, ClusterNode
    <3> QED  BY ZenonT(30), <3>1, <3>2, <3>3, <3>4 DEF Fits, InCluster
  <2> QED  BY ZenonT(30), <2>1, <2>2, <2>3
<1> QED  BY <1>1, SyncersGossip, Invariance, SyncersTrack, PTL

-----------------------------------------------------------------------------
(***************************************************************************)
(* A node's own endpoints: what it gossips is what its cluster.State       *)
(* counts.                                                                 *)
(***************************************************************************)
LEMMA OwnEntries ==
    ASSUME IInv, NEW n \in Node
    PROVE  Local(n) \in NodeState /\ OneEntryPerKey(Local(n).entries)
BY Zenon, OwnerFacts DEF OneEntryPerKey

\* A write changes the endpoint it is about, if it is about one.
LEMMA WrittenEndpoints ==
    ASSUME NEW a \in NodeState, NEW b \in NodeState,
           OneEntryPerKey(a.entries), OneEntryPerKey(b.entries), NEW k, NEW v, NEW deleted,
           b.entries = Put(a, k, v, deleted).entries, NEW e \in Endpoint
    PROVE  /\ e # k => EndpointsOf(b)[e] = EndpointsOf(a)[e]
           /\ e = k /\ ~deleted => EndpointsOf(b)[e] = v
           /\ e = k /\ deleted => EndpointsOf(b)[e] = 0
<1> DEFINE new == [key |-> k, value |-> v, version |-> a.version + 1, deleted |-> deleted]
<1>1. b.entries = {f \in a.entries : f.key # k} \cup {new}
  BY Zenon DEF Put, NodeState
<1>2. new.key = k /\ new.value = v /\ new.deleted = deleted
  BY Zenon
<1> HIDE DEF new
<1>3. ASSUME e # k PROVE EndpointsOf(b)[e] = EndpointsOf(a)[e]
  <2>1. \A f : f.key = e => (f \in b.entries <=> f \in a.entries)
    BY Zenon, <1>1, <1>2, <1>3
  <2> QED  BY Zenon, <2>1, SameEndpoint
<1>4. ASSUME e = k, ~deleted PROVE EndpointsOf(b)[e] = v
  <2>1. new \in b.entries /\ new.key = e /\ ~new.deleted
    BY Zenon, <1>1, <1>2, <1>4
  <2>2. EndpointsOf(b)[e] = new.value
    BY Zenon, <2>1, EndpointsFacts
  <2> QED  BY Zenon, <1>2, <2>2
<1>5. ASSUME e = k, deleted PROVE EndpointsOf(b)[e] = 0
  <2>1. \A f \in b.entries : f.key = e => f.deleted
    BY Zenon, <1>1, <1>2, <1>5
  <2> QED  BY Zenon, <2>1, EndpointsFacts
<1> QED  BY Zenon, <1>3, <1>4, <1>5

\* Compaction gives entries new versions and leaves out the deleted ones.
LEMMA RenumberedEntry ==
    ASSUME NEW e \in Entry, NEW v
    PROVE  LET r == [e EXCEPT !.version = v]
           IN  r.key = e.key /\ r.value = e.value /\ r.deleted = e.deleted
<1>1. DOMAIN e = {"key", "value", "version", "deleted"}
  BY Zenon DEF Entry
<1> QED  BY Zenon, <1>1

LEMMA CompactedEndpoints ==
    ASSUME NEW a \in NodeState, NEW b \in NodeState,
           OneEntryPerKey(a.entries), OneEntryPerKey(b.entries), b = CompactLocal(a),
           NEW k \in Endpoint
    PROVE  EndpointsOf(b)[k] = EndpointsOf(a)[k]
<1> DEFINE K == Kept(a.entries)
           N == Renumbered(a)
           New(f) == [f EXCEPT !.version = a.version + Rank(f, K)]
           last == Max({f.version : f \in a.entries})
           s == [a EXCEPT !.version = a.version + Cardinality(K), !.entries = N]
           new == [key |-> compactKey, value |-> last, version |-> s.version + 1, deleted |-> FALSE]
<1>1. b.entries = {f \in N : f.key # compactKey} \cup {new}
  <2>1. s.entries = N /\ DOMAIN s = DOMAIN a /\ "entries" \in DOMAIN a
    BY Zenon DEF NodeState
  <2>2. b = [s EXCEPT !.version = s.version + 1,
                      !.entries = {f \in s.entries : f.key # compactKey} \cup {new}]
    BY Zenon DEF CompactLocal, Put
  <2> HIDE DEF s, N, new
  <2>3. \A w, es : [s EXCEPT !.version = w, !.entries = es].entries = es
    BY Zenon, <2>1
  <2> QED  BY Zenon, <2>1, <2>2, <2>3
<1>2. k \in Key /\ k # compactKey /\ new.key = compactKey
  BY Zenon, KeysAssumption, KeyAssumption
<1>3. N = {New(f) : f \in K}
  BY Zenon DEF Renumbered
<1>4. \A f \in K : f \in a.entries /\ f \in Entry /\ ~f.deleted
  BY Zenon DEF Kept, NodeState
<1>5. \A f \in K : New(f).key = f.key /\ New(f).value = f.value /\ New(f).deleted = f.deleted
  BY Zenon, <1>4, RenumberedEntry
<1> HIDE DEF N, New, new, s
<1>6. CASE \E f \in a.entries : f.key = k /\ ~f.deleted
  <2>1. PICK f \in a.entries : f.key = k /\ ~f.deleted
    BY Zenon, <1>6
  <2>2. f \in K
    BY Zenon, <1>2, <2>1 DEF Kept
  <2>3. New(f) \in b.entries /\ New(f).key = k /\ ~New(f).deleted /\ New(f).value = f.value
    BY Zenon, <1>1, <1>2, <1>3, <1>5, <2>1, <2>2
  <2>4. EndpointsOf(b)[k] = New(f).value /\ EndpointsOf(a)[k] = f.value
    BY Zenon, <2>1, <2>3, EndpointsFacts
  <2> QED  BY Zenon, <2>3, <2>4
<1>7. CASE \A f \in a.entries : f.key = k => f.deleted
  <2>1. ASSUME NEW g \in b.entries, g.key = k PROVE FALSE
    <3>1. PICK f \in K : g = New(f)
      BY Zenon, <1>1, <1>2, <1>3, <2>1
    <3>2. f.key = k /\ ~f.deleted /\ f \in a.entries
      BY Zenon, <1>4, <1>5, <2>1, <3>1
    <3> QED  BY Zenon, <1>7, <3>2
  <2>2. EndpointsOf(b)[k] = 0 /\ EndpointsOf(a)[k] = 0
    BY Zenon, <1>7, <2>1, EndpointsFacts
  <2> QED  BY Zenon, <2>2
<1> QED  BY Zenon, <1>6, <1>7

\* The endpoints are those of the entries.
LEMMA SameEntriesSameEndpoints ==
    ASSUME NEW a, NEW b, a.entries = b.entries
    PROVE  EndpointsOf(a) = EndpointsOf(b)
<1> DEFINE F(es) == [k \in Endpoint |->
                        IF \E e \in es : e.key = k /\ ~e.deleted
                        THEN (CHOOSE e \in es : e.key = k).value ELSE 0]
<1>1. EndpointsOf(a) = F(a.entries) /\ EndpointsOf(b) = F(b.entries)
  BY Zenon DEF EndpointsOf
<1> HIDE DEF F
<1> QED  BY Zenon, <1>1

OwnUnchanged == \A n \in Node : Local(n)' = Local(n) /\ nodes'[n][n] = nodes[n][n]

LEMMA UnchangedPublished ==
    ASSUME LocalIsPublished, OwnUnchanged
    PROVE  LocalIsPublished'
<1>1. \A n \in Node : EndpointsOf(Local(n))' = EndpointsOf(Local(n)')
  BY Zenon DEF EndpointsOf
<1>2. \A n \in Node : EndpointsOf(Local(n)') = EndpointsOf(Local(n))
  BY Zenon DEF OwnUnchanged
<1> QED  BY Zenon, <1>1, <1>2 DEF LocalIsPublished, OwnUnchanged

\* The callbacks ignore the local node, as does what gossip applies.
LEMMA HandleKeepsOwn ==
    ASSUME IInv, SyncInv, NEW m \in Node, NEW c \in ClusterStates,
           cluster' = [cluster EXCEPT ![m] = c], c.state[m] = Local(m),
           NEW held, Handle(m, held)
    PROVE  OwnUnchanged
<1>1. \A n, o \in Node : View(n, o)' = IF n = m THEN c.state[o] ELSE View(n, o)
  BY Zenon, SetCluster DEF IInv
<1>2. \A n \in Node : Local(n)' = Local(n)
  BY Zenon, <1>1 DEF View, Local
<1> DEFINE known == [o \in Node |-> IF o = m THEN nodes[m][o] ELSE held[o].node]
<1>3. nodes' = [nodes EXCEPT ![m] = known]
  BY Zenon DEF Handle
<1>4. known[m] = nodes[m][m]
  BY Zenon
<1> HIDE DEF known
<1>5. \A n \in Node : nodes'[n] = IF n = m THEN known ELSE nodes[n]
  BY Zenon, <1>3 DEF SyncInv
<1> QED  BY Zenon, <1>2, <1>4, <1>5 DEF OwnUnchanged

LEMMA PeriodicKeepsOwn ==
    ASSUME IInv, SyncInv, NEW n \in Node,
           (CheckLiveness(n) /\ LivenessHandled(n)) \/ (Expire(n) /\ ExpiryHandled(n))
    PROVE  OwnUnchanged
<1>1. cluster[n] \in ClusterStates /\ cluster[n].state[n] = Local(n)
  BY Zenon, OwnState
<1>2. ASSUME CheckLiveness(n), LivenessHandled(n) PROVE OwnUnchanged
  <2>1. PICK suspects \in Suspects :
            cluster' = [cluster EXCEPT ![n] = UpdateLiveness(cluster[n], n, suspects)]
    BY Zenon, <1>2 DEF CheckLiveness
  <2> DEFINE d == UpdateLiveness(cluster[n], n, suspects)
  <2>2. d \in ClusterStates /\ d.state[n] = Local(n)
    BY Zenon, <1>1, UpdateLivenessFacts DEF SameUpToLiveness
  <2>3. cluster' = [cluster EXCEPT ![n] = d]
    BY Zenon, <2>1
  <2> HIDE DEF d
  <2> QED  BY Zenon, <1>2, <2>2, <2>3, HandleKeepsOwn DEF LivenessHandled
<1>3. ASSUME Expire(n), ExpiryHandled(n) PROVE OwnUnchanged
  <2>1. PICK expired \in SUBSET {o \in cluster[n].nodes : cluster[n].state[o].expiry},
             stale \in SUBSET cluster[n].tombstones :
            cluster' = [cluster EXCEPT ![n] = RemoveExpired(cluster[n], expired, stale)]
    BY Zenon, <1>3 DEF Expire
  <2> DEFINE d == RemoveExpired(cluster[n], expired, stale)
  <2>2. n \notin expired /\ expired \in SUBSET Node
    BY Zenon, <1>1 DEF IInv, LocalNodeStays, Local, ClusterStates
  <2>3. d \in ClusterStates /\ d.state[n] = Local(n)
    <3>1. d.state[n] = cluster[n].state[n]
      BY Zenon, <2>2 DEF RemoveExpired
    <3> QED  BY Zenon, <1>1, <2>2, <3>1, RemoveExpiredFacts
  <2>4. cluster' = [cluster EXCEPT ![n] = d]
    BY Zenon, <2>1
  <2> HIDE DEF d
  <2> QED  BY Zenon, <1>3, <2>3, <2>4, HandleKeepsOwn DEF ExpiryHandled
<1> QED  BY Zenon, <1>2, <1>3

LEMMA ReceiveKeepsOwn ==
    ASSUME IInv, SyncInv, NEW p \in net,
           \/ ReceiveDigest(p) /\ DigestHandled(p)
           \/ ReceiveDelta(p) /\ DeltaHandled(p)
           \/ ReceiveJoin(p) /\ JoinHandled(p)
    PROVE  OwnUnchanged
<1> DEFINE m == p.to
           a == ApplyDelta(cluster[m], m, p.from, p.delta)
<1>1. m \in Node /\ IsDigest(p.digest)
  BY Zenon, ReceiveFacts
<1>2. cluster[m] \in ClusterStates /\ cluster[m].state[m] = Local(m)
  BY Zenon, <1>1, OwnState
<1>3. a \in ClusterStates /\ a.state[m] = Local(m)
  BY ZenonT(30), DeltaApplied
<1>4. ASSUME ReceiveDigest(p), DigestHandled(p) PROVE OwnUnchanged
  <2> DEFINE d == ApplyDigest(cluster[m], p.from, p.digest)
  <2>1. cluster' = [cluster EXCEPT ![m] = d]
    BY Zenon, <1>4 DEF ReceiveDigest
  <2>2. d \in ClusterStates /\ d.state[m] = Local(m)
    BY Zenon, <1>1, <1>2, ApplyDigestFacts
  <2> HIDE DEF d
  <2> QED  BY Zenon, <1>1, <1>4, <2>1, <2>2, HandleKeepsOwn DEF DigestHandled
<1>5. ASSUME ReceiveDelta(p), DeltaHandled(p) PROVE OwnUnchanged
  <2>1. cluster' = [cluster EXCEPT ![m] = a]
    BY Zenon, <1>5 DEF ReceiveDelta
  <2> HIDE DEF a
  <2> QED  BY Zenon, <1>1, <1>3, <1>5, <2>1, HandleKeepsOwn DEF DeltaHandled
<1>6. ASSUME ReceiveJoin(p), JoinHandled(p) PROVE OwnUnchanged
  <2> DEFINE d == ApplyDigest(a, p.from, p.digest)
  <2>1. cluster' = [cluster EXCEPT ![m] = d]
    BY Zenon, <1>6 DEF ReceiveJoin
  <2>2. \E held : Handle(m, held)
    BY Zenon, <1>6 DEF JoinHandled
  <2> HIDE DEF a
  <2>3. d \in ClusterStates /\ d.state[m] = Local(m)
    BY Zenon, <1>1, <1>3, ApplyDigestFacts
  <2> HIDE DEF d
  <2> QED  BY Zenon, <1>1, <2>1, <2>2, <2>3, HandleKeepsOwn
<1> QED  BY Zenon, <1>4, <1>5, <1>6

\* A write of m's own state.
LEMMA OwnWritten ==
    ASSUME IInv, NEW m \in Node, NEW st, SetLocal(m, st)
    PROVE  \A n \in Node : Local(n)' = IF n = m THEN st ELSE Local(n)
<1>1. cluster' = [cluster EXCEPT ![m].state[m] = st]
  BY Zenon DEF SetLocal
<1> QED  BY <1>1 DEF Local, IInv, TypeOK, ClusterStates

\* A write that changes no endpoint.
LEMMA OtherWritten ==
    ASSUME IInv, IInv', SyncInv, LocalIsPublished, NEW m \in Node, NEW st, SetLocal(m, st),
           UNCHANGED nodes,
           \A e \in Endpoint : EndpointsOf(st)[e] = EndpointsOf(Local(m))[e]
    PROVE  LocalIsPublished'
<1>1. \A n \in Node : Local(n)' = IF n = m THEN st ELSE Local(n)
  BY Zenon, OwnWritten
<1>2. EndpointsOf(st) = EndpointsOf(Local(m))
  BY Zenon DEF EndpointsOf
<1>3. \A n \in Node : EndpointsOf(Local(n)') = EndpointsOf(Local(n))
  BY Zenon, <1>1, <1>2
<1>4. \A n \in Node : EndpointsOf(Local(n))' = EndpointsOf(Local(n)')
  BY Zenon DEF EndpointsOf
<1> QED  BY Zenon, <1>3, <1>4 DEF LocalIsPublished

LEMMA WriteKeepsPublished ==
    ASSUME IInv, IInv', SyncInv, LocalIsPublished, NEW n \in Node,
           Sync(n) \/ ((Leave(n) \/ Compact(n)) /\ UNCHANGED <<pendingNodes, nodes>>)
    PROVE  LocalIsPublished'
<1>1. UNCHANGED nodes
  BY Zenon DEF Sync
<1>2. Local(n) \in NodeState /\ OneEntryPerKey(Local(n).entries)
  BY Zenon, OwnEntries
<1>3. Local(n)' \in NodeState /\ OneEntryPerKey(Local(n)'.entries)
  BY Zenon, OwnerFacts DEF IInv, OwnerInv, OneEntryPerKey, TypeOK, ClusterStates, Local
<1>4. ASSUME NEW st, NEW k, NEW v, NEW deleted, k \notin Endpoint, SetLocal(n, st),
             st.entries = Put(Local(n), k, v, deleted).entries
      PROVE  LocalIsPublished'
  <2>1. Local(n)' = st
    BY Zenon, <1>4, OwnWritten
  <2>2. st \in NodeState /\ OneEntryPerKey(st.entries)
    BY Zenon, <1>3, <2>1
  <2>3. ASSUME NEW e \in Endpoint PROVE EndpointsOf(st)[e] = EndpointsOf(Local(n))[e]
    <3>1. e # k
      BY Zenon, <1>4
    <3>2. st.entries = Put(Local(n), k, v, deleted).entries
      BY Zenon, <1>4
    <3>3. /\ e # k => EndpointsOf(st)[e] = EndpointsOf(Local(n))[e]
          /\ e = k /\ ~deleted => EndpointsOf(st)[e] = v
          /\ e = k /\ deleted => EndpointsOf(st)[e] = 0
      BY SMTT(30), <1>2, <2>2, <3>2, WrittenEndpoints
    <3> QED  BY Zenon, <3>1, <3>3
  <2> QED  BY Zenon, <1>1, <1>4, <2>3, OtherWritten
<1>5. CASE Sync(n)
  BY Zenon, <1>4, <1>5, KeysAssumption DEF Sync, Upsert
<1>6. CASE Leave(n)
  <2> DEFINE st == LeaveLocal(Local(n))
  <2>1. SetLocal(n, st)
    BY Zenon, <1>6 DEF Leave
  <2>2. st.entries = Put(Local(n), leftKey, Empty, FALSE).entries
    BY Zenon, <1>2 DEF LeaveLocal, Put, NodeState
  <2>3. leftKey \notin Endpoint
    BY Zenon, KeysAssumption, KeyAssumption
  <2> HIDE DEF st
  <2> QED  BY Zenon, <1>4, <2>1, <2>2, <2>3
<1>7. CASE Compact(n)
  <2> DEFINE st == CompactLocal(Local(n))
  <2>1. SetLocal(n, st) /\ Local(n)' = st
    BY Zenon, <1>7, OwnWritten DEF Compact
  <2>2. \A e \in Endpoint : EndpointsOf(st)[e] = EndpointsOf(Local(n))[e]
    BY Zenon, <1>2, <1>3, <2>1, CompactedEndpoints
  <2> HIDE DEF st
  <2> QED  BY Zenon, <1>1, <2>1, <2>2, OtherWritten
<1> QED  BY Zenon, <1>5, <1>6, <1>7

LEMMA UpdatePublishes ==
    ASSUME IInv, IInv', SyncInv, LocalIsPublished, NEW n \in Node, NEW e \in Endpoint,
           NEW count \in 0..MaxListeners, UpdateLocalEndpoint(n, e, count)
    PROVE  LocalIsPublished'
<1>1. Local(n) \in NodeState /\ OneEntryPerKey(Local(n).entries)
  BY Zenon, OwnEntries
<1>2. Local(n)' \in NodeState /\ OneEntryPerKey(Local(n)'.entries)
  BY Zenon, OwnerFacts DEF IInv, OwnerInv, OneEntryPerKey, TypeOK, ClusterStates, Local
<1>3. \E st : /\ SetLocal(n, st)
              /\ \/ st = Put(Local(n), e, count, FALSE)
                 \/ st = Put(Local(n), e, Empty, TRUE) /\ ~(count > 0)
  BY Zenon DEF UpdateLocalEndpoint, Publish, Upsert, Delete
<1>4. PICK st : /\ SetLocal(n, st)
                /\ \/ st = Put(Local(n), e, count, FALSE)
                   \/ st = Put(Local(n), e, Empty, TRUE) /\ ~(count > 0)
  BY Zenon, <1>3
<1>5. \A m \in Node : Local(m)' = IF m = n THEN st ELSE Local(m)
  BY Zenon, <1>4, OwnWritten
<1>6. ~(count > 0) => count = 0
  OBVIOUS
<1>7. /\ \A f \in Endpoint : f # e => EndpointsOf(st)[f] = EndpointsOf(Local(n))[f]
      /\ EndpointsOf(st)[e] = count
  <2>1. st \in NodeState /\ OneEntryPerKey(st.entries)
    BY Zenon, <1>2, <1>5
  <2>2. ASSUME NEW v, NEW deleted, st = Put(Local(n), e, v, deleted), NEW f \in Endpoint
        PROVE  /\ f # e => EndpointsOf(st)[f] = EndpointsOf(Local(n))[f]
               /\ f = e /\ ~deleted => EndpointsOf(st)[f] = v
               /\ f = e /\ deleted => EndpointsOf(st)[f] = 0
    <3>1. st.entries = Put(Local(n), e, v, deleted).entries
      BY Zenon, <2>2
    <3> QED  BY SMTT(30), <1>1, <2>1, <3>1, WrittenEndpoints
  <2>3. CASE st = Put(Local(n), e, count, FALSE)
    BY Zenon, <2>2, <2>3
  <2>4. CASE st = Put(Local(n), e, Empty, TRUE) /\ ~(count > 0)
    BY Zenon, <1>6, <2>2, <2>4
  <2> QED  BY Zenon, <1>4, <2>3, <2>4
<1>8. nodes \in [Node -> [Node -> ClusterNode]]
  BY Zenon DEF SyncInv
<1> DEFINE own == [nodes[n][n] EXCEPT !.endpoints[e] = count]
<1>9. nodes' = [nodes EXCEPT ![n] = [nodes[n] EXCEPT ![n] = own]]
  BY Zenon, <1>8 DEF UpdateLocalEndpoint
<1>10. nodes[n][n] \in ClusterNode
  BY Zenon, <1>8
<1>11. own.endpoints = [nodes[n][n].endpoints EXCEPT ![e] = count]
  BY Zenon, <1>10 DEF ClusterNode
<1> HIDE DEF own
<1>12. /\ nodes'[n][n] = own
       /\ \A m \in Node : m # n => nodes'[m][m] = nodes[m][m]
  BY Zenon, <1>8, <1>9
<1>13. nodes[n][n].endpoints = EndpointsOf(Local(n))
  BY Zenon DEF LocalIsPublished
<1>14. \A f \in Endpoint : own.endpoints[f] = EndpointsOf(st)[f]
  <2>1. \A f \in Endpoint : own.endpoints[f] = IF f = e THEN count ELSE EndpointsOf(Local(n))[f]
    BY Zenon, <1>10, <1>11, <1>13 DEF ClusterNode
  <2> QED  BY Zenon, <1>7, <2>1
<1>15. own.endpoints = EndpointsOf(st)
  <2>1. own.endpoints = [f \in Endpoint |-> own.endpoints[f]]
    BY Zenon, <1>10, <1>11 DEF ClusterNode
  <2>2. EndpointsOf(st) \in [Endpoint -> Count]
    BY Zenon, <1>2, <1>5, EndpointsFacts
  <2> QED  BY Zenon, <1>14, <2>1, <2>2
<1>16. ASSUME NEW m \in Node PROVE EndpointsOf(Local(m)') = nodes'[m][m].endpoints
  <2>1. CASE m = n
    BY Zenon, <1>5, <1>12, <1>15, <2>1
  <2>2. CASE m # n
    BY Zenon, <1>5, <1>12, <2>2 DEF LocalIsPublished
  <2> QED  BY Zenon, <2>1, <2>2
<1>17. \A m \in Node : EndpointsOf(Local(m))' = EndpointsOf(Local(m)')
  BY Zenon DEF EndpointsOf
<1> QED  BY Zenon, <1>16, <1>17 DEF LocalIsPublished

LEMMA PublishedStep ==
    ASSUME IInv, IInv', SyncInv, LocalIsPublished, [SyncNext]_syncVars
    PROVE  LocalIsPublished'
<1>1. ASSUME UNCHANGED <<cluster, nodes>> PROVE LocalIsPublished'
  <2>1. OwnUnchanged
    BY Zenon, <1>1 DEF OwnUnchanged, Local
  <2> QED  BY Zenon, <2>1, UnchangedPublished
<1>2. CASE UNCHANGED syncVars
  BY Zenon, <1>1, <1>2 DEF syncVars, vars
<1>3. ASSUME NEW n \in Node,
             Sync(n) \/ ((Leave(n) \/ Compact(n)) /\ UNCHANGED <<pendingNodes, nodes>>)
      PROVE  LocalIsPublished'
  BY Zenon, <1>3, WriteKeepsPublished
<1>4. ASSUME NEW n \in Node, NEW e \in Endpoint, NEW count \in 0..MaxListeners,
             UpdateLocalEndpoint(n, e, count)
      PROVE  LocalIsPublished'
  BY Zenon, <1>4, UpdatePublishes
<1>5. ASSUME NEW n \in Node,
             (CheckLiveness(n) /\ LivenessHandled(n)) \/ (Expire(n) /\ ExpiryHandled(n))
      PROVE  LocalIsPublished'
  BY Zenon, <1>5, PeriodicKeepsOwn, UnchangedPublished
<1>6. ASSUME NEW n \in Node, NEW m \in Node, GossipRound(n, m) \/ Join(n, m) \/ SendLeave(n, m),
             UNCHANGED <<pendingNodes, nodes>>
      PROVE  LocalIsPublished'
  BY Zenon, <1>1, <1>6 DEF GossipRound, Join, SendLeave
<1>7. ASSUME NEW p \in net,
             \/ ReceiveDigest(p) /\ DigestHandled(p)
             \/ ReceiveDelta(p) /\ DeltaHandled(p)
             \/ ReceiveJoin(p) /\ JoinHandled(p)
      PROVE  LocalIsPublished'
  BY Zenon, <1>7, ReceiveKeepsOwn, UnchangedPublished
<1>8. ASSUME NEW p \in net, Lose(p) /\ UNCHANGED <<pendingNodes, nodes>>
      PROVE  LocalIsPublished'
  BY Zenon, <1>1, <1>8 DEF Lose
<1> QED  BY ZenonT(60), <1>2, <1>3, <1>4, <1>5, <1>6, <1>7, <1>8 DEF SyncNext

\* A node always gossips of its endpoints what its cluster.State counts: every
\* change of a listener is an entry, and no compaction, leave or callback
\* changes the one without the other (onLocalEndpointUpdate, CompactLocal).
THEOREM EndpointsArePublished == SyncSpec => []LocalIsPublished
<1>1. SyncInit => LocalIsPublished
  <2> SUFFICES ASSUME SyncInit, NEW n \in Node
               PROVE  EndpointsOf(Local(n)) = nodes[n][n].endpoints
    BY Zenon DEF LocalIsPublished
  <2>1. Local(n).entries = {}
    BY Zenon DEF SyncInit, Init, Local, newClusterState, NewNode
  <2>2. EndpointsOf(Local(n)) = [e \in Endpoint |-> 0]
    BY Zenon, <2>1 DEF EndpointsOf
  <2>3. nodes[n][n] = [NoNode EXCEPT !.status = "active", !.fields = AddrKeys]
    BY Zenon DEF SyncInit
  <2>4. nodes[n][n].endpoints = [e \in Endpoint |-> 0]
    BY Zenon, <2>3 DEF NoNode
  <2> QED  BY Zenon, <2>2, <2>4
<1>2. IInv /\ IInv' /\ SyncInv /\ LocalIsPublished /\ [SyncNext]_syncVars => LocalIsPublished'
  BY Zenon, PublishedStep
<1> QED  BY <1>1, <1>2, SyncersGossip, Invariance, SyncersTrack, PTL DEF SyncSpec

\* The map requests are routed by is right about every node it is up to date
\* with: from AddLocalEndpoint at the one node, over its gossip entries, any
\* relays, compactions and deltas, to OnUpsertKey and OnDeleteKey at the other,
\* no endpoint is lost, left over or miscounted, and a node that left is left.
THEOREM RoutesAgreeWithOwners == SyncSpec => []RoutesAgree
<1>1. ASSUME IInv, SyncInv, Agreement, ClusterMatchesGossip, LocalIsPublished
      PROVE  RoutesAgree
  <2> SUFFICES ASSUME NEW n \in Node, NEW o \in InCluster(n) \ ({n} \cup Removed),
                      View(n, o).version = Local(o).version
               PROVE  /\ nodes[n][o].endpoints = nodes[o][o].endpoints
                      /\ nodes[n][o].status = "left" <=> Local(o).left
    BY Zenon DEF RoutesAgree
  <2>1. o \in Node \ Removed /\ o \in InCluster(n) \ {n}
    BY Zenon DEF InCluster
  <2>2. View(n, o).entries = Local(o).entries /\ View(n, o).left = Local(o).left
    BY Zenon, <1>1, <2>1 DEF Agreement
  <2>3. nodes[n][o].status = StatusOf(View(n, o)) /\ nodes[n][o].endpoints = EndpointsOf(View(n, o))
    BY Zenon, <1>1, <2>1 DEF ClusterMatchesGossip
  <2>4. EndpointsOf(View(n, o)) = EndpointsOf(Local(o))
    BY Zenon, <2>2, SameEntriesSameEndpoints
  <2>5. EndpointsOf(Local(o)) = nodes[o][o].endpoints
    BY Zenon, <1>1, <2>1 DEF LocalIsPublished
  <2>6. StatusOf(View(n, o)) = "left" <=> View(n, o).left
    BY Zenon DEF StatusOf
  <2> QED  BY Zenon, <2>2, <2>3, <2>4, <2>5, <2>6
<1>2. IInv /\ SyncInv /\ Agreement /\ ClusterMatchesGossip /\ LocalIsPublished => RoutesAgree
  BY Zenon, <1>1
<1> QED
  BY <1>2, SyncersGossip, Invariance, SyncersTrack, SameVersionSameState, RoutesAreGossip,
     EndpointsArePublished, PTL
=============================================================================
