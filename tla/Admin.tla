------------------------------- MODULE Admin --------------------------------
(***************************************************************************)
(* Requests to the admin servers (server/admin), beside the proxy requests *)
(* of Routing: a node answers a request itself, or forwards it to the node *)
(* whose ID its `forward' query names, at the admin address it knows of it.*)
(* Both nodes authenticate it, with a token or a session.                  *)
(*                                                                         *)
(* A node's ID is generated when it starts, but its address may be reused: *)
(* once a node has stopped, another one may run at its address, while the  *)
(* cluster still knows the node that stopped.  The proxy treats it as any  *)
(* node without upstreams.                                                 *)
(***************************************************************************)
EXTENDS Routing

CONSTANTS
    AdminMessage,   \* what admin requests may carry
    config,         \* config[n]: the verifier and the password of n's admin server
    NoVerifier,
    NoPassword,
    NoSession,      \* a request without the session cookie
    NoForward,      \* a request without the `forward' query
    Other,          \* the ID of a node running at another's address
    MaxHops         \* bound: how often a request is forwarded

ASSUME AdminAssumption ==
    /\ DOMAIN config = Node
    /\ Other \notin Node /\ NoForward \notin Node
    /\ \A m \in AdminMessage : DOMAIN m = {"path", "forward", "token", "session", "tenantID"}
    /\ MaxHops \in Nat

VARIABLE replaced   \* the nodes at whose address another one runs

adminVars == <<vars, replaced>>

-----------------------------------------------------------------------------
\* A session that loginRoute issued: it is signed with a key derived from the
\* password, so that any node with that password accepts it.
ValidSession(password, session) ==
    /\ session # NoSession
    /\ session.key = password
    /\ ~session.expired

ValidToken(n, m) == Verify(config[n].verifier, [t \in {} |-> verifier], m).error = "none"

\* The middleware: when both are configured, a request with a token is verified
\* by its token alone.
Authenticated(n, m) ==
    LET c == config[n]
        byToken == c.verifier # NoVerifier /\ (c.password = NoPassword \/ m.token # NoToken)
    IN  IF byToken THEN ValidToken(n, m)
        ELSE c.password = NoPassword \/ ValidSession(c.password, m.session)

\* The ID of the node that runs at the address of n, and whether one does.
LocalID(n) == IF n \in replaced THEN Other ELSE n

Running(n) == n \in up \cup replaced

-----------------------------------------------------------------------------
AdminReceive(r, n, m) ==
    /\ request[r] = Idle
    /\ Running(n)
    /\ request' = [request EXCEPT ![r] =
                     [step |-> "admin", node |-> n, asked |-> LocalID(n), message |-> m,
                      hops |-> 0]]
    /\ UNCHANGED <<conns, up, nodes, replaced>>

Answer(r, status) ==
    /\ request' = [request EXCEPT ![r] =
                     [step |-> "answered", status |-> status, asked |-> @.asked,
                      node |-> @.node, by |-> LocalID(@.node), message |-> @.message]]
    /\ UNCHANGED <<conns, up, nodes, replaced>>

\* State.Node: a node that is not believed active may have been removed, and a
\* node that has just started may not have learnt of the others.
MayLack(n, o) == n \in replaced \/ (n # o /\ ~nodes[n][o].active)

\* Mutants: a request that has been forwarded is answered by whoever gets it;
\* the node does not recognise its own ID.
HandledHereOnceForwarded(n, m, hops) == m.forward \in {NoForward, LocalID(n)} \/ hops > 0

HandledHereUnlessForward(n, m, hops) == m.forward = NoForward

\* forwardInterceptor: whether the node answers the request itself.
HandledHere(n, m, hops) == m.forward \in {NoForward, LocalID(n)}

\* What the routes that need no authentication answer: the probes, the panel,
\* login and logout.
OpenStatus == {200, 204, 400, 401, 404, 500, 503}

\* A request at a node.  The open routes are not forwarded.
AdminRoute(r) ==
    LET n == request[r].node
        m == request[r].message
    IN  /\ request[r].step = "admin"
        /\ Running(n)
        /\ IF m.path = "open" THEN \E status \in OpenStatus : Answer(r, status)
           ELSE IF ~Authenticated(n, m) THEN Answer(r, 401)
           ELSE IF HandledHere(n, m, request[r].hops) THEN Answer(r, 200)
           ELSE \/ MayLack(n, m.forward) /\ Answer(r, 404)
                \/ /\ request' = [request EXCEPT ![r].step = "proxied", ![r].node = m.forward]
                   /\ UNCHANGED <<conns, up, nodes, replaced>>

\* ReverseProxy.ServeHTTP: the request goes to the address with its query and
\* credentials as they are.
AdminForward(r) ==
    /\ request[r].step = "proxied"
    /\ IF Running(request[r].node)
       THEN /\ request[r].hops < MaxHops
            /\ request' = [request EXCEPT ![r].step = "admin", ![r].hops = @ + 1]
            /\ UNCHANGED <<conns, up, nodes, replaced>>
       ELSE Answer(r, 502)

\* The timeout of the node that forwarded it.
AdminTimeout(r) ==
    /\ request[r].step = "proxied" \/ (request[r].step = "admin" /\ request[r].hops > 0)
    /\ Answer(r, 504)

\* The node handling the request is gone.
AdminDrop(r) ==
    /\ request[r].step = "admin"
    /\ ~Running(request[r].node)
    /\ Answer(r, 502)

\* The session expires on the way.
AdminExpire(r) ==
    /\ request[r].step = "proxied"
    /\ request[r].message.session # NoSession
    /\ ~request[r].message.session.expired
    /\ request' = [request EXCEPT ![r].message.session.expired = TRUE]
    /\ UNCHANGED <<conns, up, nodes, replaced>>

AdminFinish(r) ==
    /\ request[r].step = "answered"
    /\ request' = [request EXCEPT ![r] = Idle]
    /\ UNCHANGED <<conns, up, nodes, replaced>>

\* A new node starts at the address of one that stopped, whose requests are gone.
Replace(n) ==
    /\ ~Running(n)
    /\ \A r \in Request : ~(request[r].step = "admin" /\ request[r].node = n)
    /\ replaced' = replaced \cup {n}
    /\ UNCHANGED vars

-----------------------------------------------------------------------------
AdminInit == Init /\ replaced = {}

AdminNext ==
    \/ Next /\ UNCHANGED replaced
    \/ \E n \in Node : Replace(n)
    \/ \E r \in Request :
          \/ \E n \in Node, m \in AdminMessage : AdminReceive(r, n, m)
          \/ AdminRoute(r) \/ AdminForward(r) \/ AdminTimeout(r) \/ AdminDrop(r)
          \/ AdminExpire(r) \/ AdminFinish(r)

AdminSpec == AdminInit /\ [][AdminNext]_adminVars

-----------------------------------------------------------------------------
(***************************************************************************)
(* Properties.                                                             *)
(***************************************************************************)

\* What a client is told of a node comes from that node, or from the node asked
\* if it named none: a node that runs at the address of the one named does not
\* answer for it.  A session with which it asks is one the node that answers
\* accepts, with its own password, when the request gets there.
AnsweredByTarget ==
    \A r \in Request :
        LET q == request[r]
            m == q.message
        IN  q.step = "answered" /\ q.status = 200 /\ m.path # "open" =>
                /\ q.by = IF m.forward = NoForward THEN q.asked ELSE m.forward
                /\ m.token = NoToken /\ config[q.node].password # NoPassword =>
                       ValidSession(config[q.node].password, m.session)

\* A request is forwarded more than once only if the node named has stopped and
\* another one runs at its address, which forwards to itself until the timeout.
LoopsOnlyIfReplaced ==
    \A r \in Request :
        request[r].step = "admin" /\ request[r].hops > 1 =>
            request[r].message.forward \in replaced
=============================================================================
