------------------------------ MODULE Routing -------------------------------
(***************************************************************************)
(* Proxy requests across the cluster (server/proxy, Manager.Select and     *)
(* LookupEndpoint): the node that receives a request serves it with an     *)
(* upstream of its own, or forwards it to a node that it believes to have  *)
(* one, over one hop at most.  Rebalancing moves upstreams between nodes.  *)
(*                                                                         *)
(* The upstreams are of the endpoint `served'.  What module Upstreams does *)
(* in steps is a number of connections here, and what gossip and syncer do *)
(* (module Syncer) is Learn: at some time a node learns how many listeners *)
(* another has, so that it routes by what was true at some earlier time.   *)
(***************************************************************************)
EXTENDS Auth, Rebalance

CONSTANTS
    Node,
    Request,    \* concurrent requests
    Message,    \* what requests may carry
    verifier,   \* of the proxy server
    served,     \* the endpoint with upstreams
    MaxConns    \* bound: upstream connections in the cluster

ASSUME RoutingAssumption ==
    /\ IsFiniteSet(Node)
    /\ served \in Endpoint
    /\ MaxConns \in Nat

VARIABLES
    conns,      \* conns[n]: the upstream connections of n
    up,         \* the nodes whose servers run
    nodes,      \* nodes[n][o]: status and listeners of o in n's cluster.State
    request

vars == <<conns, up, nodes, request>>

-----------------------------------------------------------------------------
Idle == [step |-> "idle"]

InFlight(r) == request[r].step \in {"route", "dial", "forward"}

\* Every node knows what upstreams the others have.
Settled ==
    \A n \in up : \A o \in Node \ {n} :
        nodes[n][o] = [active |-> o \in up, listeners |-> conns[o]]

\* History: the cluster changed while a request was in flight.  gone: the
\* upstream it has selected at a node in N may be the one that was closed.
Disturbed(N) ==
    request' = [r \in Request |->
        IF InFlight(r)
        THEN [request[r] EXCEPT !.disturbed = TRUE,
                                !.gone = @ \/ (request[r].step = "dial" /\ request[r].node \in N)]
        ELSE request[r]]

-----------------------------------------------------------------------------
(***************************************************************************)
(* The cluster.                                                            *)
(***************************************************************************)
Total == SumFunction(conns)

Connect(n) ==
    /\ n \in up
    /\ Total < MaxConns
    /\ conns' = [conns EXCEPT ![n] = @ + 1]
    /\ Disturbed({})
    /\ UNCHANGED <<up, nodes>>

Disconnect(n) ==
    /\ conns[n] > 0
    /\ conns' = [conns EXCEPT ![n] = @ - 1]
    /\ Disturbed({n})
    /\ UNCHANGED <<up, nodes>>

\* State.AvgConns of node n.
AvgConns(n) ==
    LET active == {o \in Node \ {n} : nodes[n][o].active}
    IN  (conns[n] + SumFunction([o \in active |-> nodes[n][o].listeners]))
          \div (1 + Cardinality(active))

\* The clients of the closed sessions reconnect later, by Connect.
RebalanceNode(n) ==
    /\ n \in up
    /\ Cardinality(Node) > 1
    /\ Rebalances(conns[n], AvgConns(n))
    /\ conns' = [conns EXCEPT ![n] = @ - Closed(Shedding(@, AvgConns(n)), @)]
    /\ Disturbed({n})
    /\ UNCHANGED <<up, nodes>>

\* The node stops, or crashes.
Stop(n) ==
    /\ n \in up
    /\ up' = up \ {n}
    /\ conns' = [conns EXCEPT ![n] = 0]
    /\ Disturbed({n})
    /\ UNCHANGED nodes

\* n learns the listeners of o, or that it has left or is unreachable; a
\* running node may be suspected for a while.
Learn(n, o) ==
    /\ n \in up /\ o # n
    /\ \E active \in {(o \in up), FALSE} :
          nodes' = [nodes EXCEPT ![n][o] = [active |-> active, listeners |-> conns[o]]]
    /\ nodes' # nodes
    /\ Disturbed({})
    /\ UNCHANGED <<conns, up>>

-----------------------------------------------------------------------------
(***************************************************************************)
(* Requests: proxyHTTPRoute and proxyTCPRoute, which differ in how bytes   *)
(* are copied.                                                             *)
(***************************************************************************)
Receive(r, n, m) ==
    /\ request[r] = Idle
    /\ n \in up
    /\ request' = [request EXCEPT ![r] =
                     [step |-> "route", node |-> n, message |-> m, forwarded |-> FALSE,
                      hops |-> 0, gone |-> FALSE, disturbed |-> ~Settled \/ Total = 0]]
    /\ UNCHANGED <<conns, up, nodes>>

Respond(r, status) ==
    /\ request' = [request EXCEPT ![r] =
                     [step |-> "done", status |-> status, message |-> @.message,
                      disturbed |-> @.disturbed]]
    /\ UNCHANGED <<conns, up, nodes>>

Proceed(r, step, node) ==
    /\ request' = [request EXCEPT ![r].step = step, ![r].node = node]
    /\ UNCHANGED <<conns, up, nodes>>

\* Mutant: a request is not verified again by the node it is forwarded to.
DeniedAtFirst(m, forwarded) ==
    LET token == Verify(verifier, [t \in {} |-> verifier], m)
    IN  ~forwarded /\ (token.error # "none"
                        \/ ~EndpointPermitted(token, EndpointIDFromRequest(m)))

\* The middleware, or the check of the token's endpoints, answers 401, to a
\* forwarded request as to any other.
Denied(m, forwarded) ==
    LET token == Verify(verifier, [t \in {} |-> verifier], m)
    IN  \/ token.error # "none"
        \/ EndpointIDFromRequest(m) # NoEndpoint
             /\ ~EndpointPermitted(token, EndpointIDFromRequest(m))

\* Mutant: a node with one listener is passed over.
LookupMany(n) ==
    {o \in Node \ {n} : nodes[n][o].active /\ nodes[n][o].listeners > 1}

\* The nodes LookupEndpoint may return.
LookupEndpoint(n) ==
    {o \in Node \ {n} : nodes[n][o].active /\ nodes[n][o].listeners > 0}

\* Verify and select an upstream: a local one if there is one, or another node
\* unless another node has forwarded the request.
Route(r) ==
    LET n == request[r].node
        m == request[r].message
        endpointID == EndpointIDFromRequest(m)
        local == endpointID = served /\ conns[n] > 0
        remote == IF endpointID = served /\ ~request[r].forwarded
                  THEN LookupEndpoint(n) ELSE {}
    IN  /\ request[r].step = "route"
        /\ n \in up
        /\ IF Denied(m, request[r].forwarded) THEN Respond(r, 401)
           ELSE IF endpointID = NoEndpoint THEN Respond(r, 400)
           ELSE IF local THEN Proceed(r, "dial", n)
           ELSE IF remote # {} THEN \E o \in remote : Proceed(r, "forward", o)
           ELSE Respond(r, 502)

\* Mutant: the request is not marked.
ForwardUnmarked(r) ==
    /\ request[r].step = "forward"
    /\ IF request[r].node \in up
       THEN /\ request' = [request EXCEPT ![r].step = "route", ![r].hops = @ + 1]
            /\ UNCHANGED <<conns, up, nodes>>
       ELSE Respond(r, 502)

\* NodeUpstream.Dial, and the request as ServeHTTPWithUpstream sends it on.
Forward(r) ==
    /\ request[r].step = "forward"
    /\ IF request[r].node \in up
       THEN /\ request' = [request EXCEPT ![r].step = "route", ![r].hops = @ + 1,
                                          ![r].forwarded = TRUE]
            /\ UNCHANGED <<conns, up, nodes>>
       ELSE Respond(r, 502)

\* ConnUpstream.Dial: the session selected may be closed by now.
Dial(r) ==
    /\ request[r].step = "dial"
    /\ request[r].node \in up
    /\ \/ conns[request[r].node] > 0 /\ Respond(r, 200)
       \/ request[r].gone /\ Respond(r, 502)

\* The proxy's timeout.
Timeout(r) ==
    /\ request[r].step \in {"forward", "dial"}
    /\ Respond(r, 504)

\* The node handling the request is gone.
Drop(r) ==
    /\ request[r].step \in {"route", "dial"}
    /\ request[r].node \notin up
    /\ Respond(r, 502)

\* The token expires on the way to another node.
Expire(r) ==
    /\ request[r].step = "forward"
    /\ ~request[r].message.token.expired
    /\ request' = [request EXCEPT ![r].message.token.expired = TRUE]
    /\ UNCHANGED <<conns, up, nodes>>

Finish(r) ==
    /\ request[r].step = "done"
    /\ request' = [request EXCEPT ![r] = Idle]
    /\ UNCHANGED <<conns, up, nodes>>

-----------------------------------------------------------------------------
Init ==
    /\ conns = [n \in Node |-> 0]
    /\ up = Node
    /\ nodes = [n \in Node |-> [o \in Node |-> [active |-> TRUE, listeners |-> 0]]]
    /\ request = [r \in Request |-> Idle]

Next ==
    \/ \E n \in Node : Connect(n) \/ Disconnect(n) \/ RebalanceNode(n) \/ Stop(n)
    \/ \E n, o \in Node : Learn(n, o)
    \/ \E r \in Request :
          \/ \E n \in Node, m \in Message : Receive(r, n, m)
          \/ Route(r) \/ Forward(r) \/ Dial(r) \/ Timeout(r) \/ Drop(r)
          \/ Expire(r) \/ Finish(r)

Spec == Init /\ [][Next]_vars

-----------------------------------------------------------------------------
(***************************************************************************)
(* Properties.                                                             *)
(***************************************************************************)

\* A request is forwarded once at most, however stale what the nodes know, so
\* that it cannot go round in circles.
OneHop == \A r \in Request : InFlight(r) => request[r].hops <= 1

\* A request for an endpoint with an upstream is answered 502 only if something
\* changed, or not every node had learnt of a change, while it was in flight.
RefusedWhenUnsettled ==
    \A r \in Request :
        request[r].step = "done" /\ request[r].status = 502
          /\ EndpointIDFromRequest(request[r].message) = served
            => request[r].disturbed

\* A request that is served carries a token that permits the endpoint and had
\* not expired when the node serving it received it, whether that node or
\* another was asked first.
ServedIsPermitted ==
    \A r \in Request :
        request[r].step = "done" /\ request[r].status = 200 =>
            LET token == request[r].message.token
            IN  /\ token # NoToken
                /\ token.key = verifier.key
                /\ ~token.expired
                /\ served \in {NameEndpoint(name) : name \in token.claim} \/ token.claim = {}

\* Rebalancing only moves a node towards the average: a node that sheds
\* connections keeps at least what it believes to be the cluster's average, so
\* that nodes do not trade connections back and forth.
ShedsOnlyExcess ==
    [][\A n \in Node : RebalanceNode(n) => conns'[n] >= AvgConns(n)]_vars
=============================================================================
