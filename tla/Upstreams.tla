----------------------------- MODULE Upstreams ------------------------------
(***************************************************************************)
(* The upstream connections of one node: the handlers of the upstream      *)
(* server (upstreamRoute in server/upstream/server.go), the manager        *)
(* (server/upstream/manager.go) with the local endpoints it registers in   *)
(* cluster.State, the proxy's requests that use the connections            *)
(* (server/proxy), rebalancing and shutdown.                               *)
(*                                                                         *)
(* A step is a critical section.  AddConn and RemoveConn hold manager.mu   *)
(* to the end: they update the listeners under cluster.mu and, with that   *)
(* unlocked again, call onLocalEndpointUpdate (server/gossip/syncer.go),   *)
(* which reads them under cluster.mu and publishes them under gossip's     *)
(* clusterState.mu.  Gossip in turn calls the syncer and cluster.State     *)
(* with clusterState.mu held.  No mutex is taken under cluster.mu.         *)
(*                                                                         *)
(* yamux is external: a session is open, has been told GoAway by its       *)
(* client, or is closed.                                                   *)
(***************************************************************************)
EXTENDS Integers, Sequences, SequencesExt

CONSTANTS
    Conn,       \* upstream connections: ConnUpstream and its session
    Request,    \* concurrent proxy requests
    Endpoint,
    endpointID, \* endpointID[u]: the endpoint u listens on
    GoingAway,  \* the connections whose client may send GoAway
    Expiring    \* the connections whose token expires

ASSUME ConnAssumption ==
    /\ endpointID \in [Conn -> Endpoint]
    /\ GoingAway \subseteq Conn
    /\ Expiring \subseteq Conn

VARIABLES
    pc,         \* pc[u]: how far the handler of u is
    session,    \* session[u]: the yamux session of u
    sessions,   \* Server.sessions
    lb,         \* lb[e]: the loadBalancer of e; empty when there is none
    listeners,  \* the Endpoints of the local node in cluster.State
    published,  \* published[e]: what the node's gossip entry says of e; 0 if deleted
    mu,         \* who holds manager.mu, if anyone
    update,     \* update[t]: how far the AddConn or RemoveConn of t is
    gossiping,  \* whether gossip is in a callback, and holds clusterState.mu
    request,    \* request[r]: the upstream a request uses, and for what
    shedding,   \* the sessions a rebalance is about to close
    phase,      \* of Server.Shutdown
    turn        \* history: the upstreams of e selected in the current round

locks == <<published, mu, update, gossiping>>
vars == <<pc, session, sessions, lb, listeners, locks, request, shedding, phase, turn>>

-----------------------------------------------------------------------------
NoUpstreams == [upstreams |-> <<>>, nextIndex |-> 0]

Idle == [step |-> "idle"]

Nobody == [holder |-> {}]
By(t) == [holder |-> {t}]

NoUpdate == [at |-> "none"]

\* Mutant: the index is not brought back into range.
RemoveFromStale(b, u) ==
    LET rest == RemoveFirst(b.upstreams, u)
    IN  IF rest = <<>> THEN NoUpstreams ELSE [b EXCEPT !.upstreams = rest]

\* loadBalancer.Remove, and the deletion of a loadBalancer left empty.
RemoveFrom(b, u) ==
    LET rest == RemoveFirst(b.upstreams, u)
    IN  IF rest = <<>> THEN NoUpstreams
        ELSE IF rest = b.upstreams THEN b
        ELSE [upstreams |-> rest, nextIndex |-> b.nextIndex % Len(rest)]

\* Mutant: manager.mu is unlocked before the subscriber is called.
NotifyUnlocked(t, e) ==
    /\ mu = Nobody
    /\ update' = [update EXCEPT ![t] = [at |-> "read", endpoint |-> e]]
    /\ UNCHANGED <<mu, published, gossiping>>

\* t has locked manager.mu, and calls the subscriber next.
Notify(t, e) ==
    /\ mu = Nobody
    /\ mu' = By(t)
    /\ update' = [update EXCEPT ![t] = [at |-> "read", endpoint |-> e]]
    /\ UNCHANGED <<published, gossiping>>

\* Manager.AddConn by t with State.AddLocalEndpoint.
AddConn(t, u) ==
    LET e == endpointID[u]
    IN  /\ Notify(t, e)
        /\ lb' = [lb EXCEPT ![e].upstreams = Append(@, u)]
        /\ listeners' = [listeners EXCEPT ![e] = @ + 1]
        /\ turn' = [turn EXCEPT ![e] = {}]

\* Mutants: the number of listeners is not checked; the last listener is not
\* unregistered; the first upstream is removed instead of u.
RemoveConnUnchecked(t, u) ==
    LET e == endpointID[u]
    IN  /\ Notify(t, e)
        /\ lb' = [lb EXCEPT ![e] = RemoveFrom(@, u)]
        /\ listeners' = [listeners EXCEPT ![e] = @ - 1]
        /\ turn' = [turn EXCEPT ![e] = {}]

RemoveConnKeepsEndpoint(t, u) ==
    LET e == endpointID[u]
    IN  /\ Notify(t, e)
        /\ lb' = [lb EXCEPT ![e] = RemoveFrom(@, u)]
        /\ listeners' = [listeners EXCEPT ![e] = IF @ > 1 THEN @ - 1 ELSE @]
        /\ turn' = [turn EXCEPT ![e] = {}]

RemoveConnFirst(t, u) ==
    LET e == endpointID[u]
    IN  IF lb[e] = NoUpstreams
        THEN mu = Nobody /\ UNCHANGED <<lb, listeners, turn, locks>>
        ELSE /\ IF listeners[e] > 0 THEN Notify(t, e) ELSE mu = Nobody /\ UNCHANGED locks
             /\ lb' = [lb EXCEPT ![e] = RemoveFrom(@, Head(@.upstreams))]
             /\ listeners' = [listeners EXCEPT ![e] = IF @ = 0 THEN 0 ELSE @ - 1]
             /\ turn' = [turn EXCEPT ![e] = {}]

\* Manager.RemoveConn by t with State.RemoveLocalEndpoint: does nothing when u's
\* endpoint has no upstream, and otherwise unregisters a listener, if there is
\* one left, whether or not it found u.
RemoveConn(t, u) ==
    LET e == endpointID[u]
    IN  IF lb[e] = NoUpstreams
        THEN mu = Nobody /\ UNCHANGED <<lb, listeners, turn, locks>>
        ELSE /\ IF listeners[e] > 0 THEN Notify(t, e) ELSE mu = Nobody /\ UNCHANGED locks
             /\ lb' = [lb EXCEPT ![e] = RemoveFrom(@, u)]
             /\ listeners' = [listeners EXCEPT ![e] = IF @ = 0 THEN 0 ELSE @ - 1]
             /\ turn' = [turn EXCEPT ![e] = {}]

-----------------------------------------------------------------------------
(***************************************************************************)
(* onLocalEndpointUpdate, and what gossip does meanwhile.                  *)
(***************************************************************************)
others == <<pc, session, sessions, lb, listeners, request, shedding, phase, turn>>

ReadListeners(t) ==
    /\ update[t].at = "read"
    /\ update' = [update EXCEPT ![t] = [at |-> "publish", endpoint |-> @.endpoint,
                                        count |-> listeners[@.endpoint]]]
    /\ UNCHANGED <<published, mu, gossiping, others>>

\* UpsertLocal or DeleteLocal.  Then AddConn or RemoveConn returns.
Publish(t) ==
    /\ update[t].at = "publish"
    /\ ~gossiping
    /\ published' = [published EXCEPT ![update[t].endpoint] = update[t].count]
    /\ update' = [update EXCEPT ![t] = NoUpdate]
    /\ mu' = Nobody
    /\ UNCHANGED <<gossiping, others>>

\* Gossip applies a delta, checks liveness or removes a node, and gets its mutex
\* before t does.  A callback at another time keeps nobody here waiting.
Gossip(t) ==
    /\ update[t].at = "read"
    /\ ~gossiping
    /\ gossiping' = TRUE
    /\ UNCHANGED <<published, mu, update, others>>

\* Mutant: a callback asks the manager for its upstreams.
GossipAsksManager ==
    /\ gossiping
    /\ mu = Nobody
    /\ gossiping' = FALSE
    /\ UNCHANGED <<published, mu, update, others>>

\* The syncer's callback needs cluster.mu and syncer.mu only.
GossipDone ==
    /\ gossiping
    /\ gossiping' = FALSE
    /\ UNCHANGED <<published, mu, update, others>>

-----------------------------------------------------------------------------
(***************************************************************************)
(* The handler of a connection.                                            *)
(***************************************************************************)
Accept(u) ==
    /\ pc[u] = "new"
    /\ phase = "running"
    /\ pc' = [pc EXCEPT ![u] = "accepted"]
    /\ UNCHANGED <<session, sessions, lb, listeners, locks, request, shedding, phase, turn>>

Upgrade(u) ==
    /\ pc[u] = "accepted"
    /\ pc' = [pc EXCEPT ![u] = "opened"]
    /\ session' = [session EXCEPT ![u] = "open"]
    /\ UNCHANGED <<sessions, lb, listeners, locks, request, shedding, phase, turn>>

\* The token does not permit the endpoint, or the upgrade fails.
Reject(u) ==
    /\ pc[u] = "accepted"
    /\ pc' = [pc EXCEPT ![u] = "closed"]
    /\ UNCHANGED <<session, sessions, lb, listeners, locks, request, shedding, phase, turn>>

AddSession(u) ==
    /\ pc[u] = "opened"
    /\ pc' = [pc EXCEPT ![u] = "listed"]
    /\ sessions' = sessions \cup {u}
    /\ UNCHANGED <<session, lb, listeners, locks, request, shedding, phase, turn>>

Register(u) ==
    /\ pc[u] = "listed"
    /\ pc' = [pc EXCEPT ![u] = "serving"]
    /\ AddConn(u, u)
    /\ UNCHANGED <<session, sessions, request, shedding, phase>>

\* Mutants: the handler does not notice that the session was closed; it does
\* not notice that the server has shut down.
ReturnsUnlessClosed(u) == phase = "shutdown" \/ u \in Expiring

ReturnsUnlessShutdown(u) == session[u] = "closed" \/ u \in Expiring

\* AcceptStreamWithContext fails: the session is closed, the server has shut
\* down, or the token has expired.
Returns(u) == session[u] = "closed" \/ phase = "shutdown" \/ u \in Expiring

Return(u) ==
    /\ pc[u] = "serving"
    /\ Returns(u)
    /\ pc' = [pc EXCEPT ![u] = "returned"]
    /\ UNCHANGED <<session, sessions, lb, listeners, locks, request, shedding, phase, turn>>

Unregister(u) ==
    /\ pc[u] = "returned"
    /\ pc' = [pc EXCEPT ![u] = "unregistered"]
    /\ RemoveConn(u, u)
    /\ UNCHANGED <<session, sessions, request, shedding, phase>>

RemoveSession(u) ==
    /\ pc[u] = "unregistered"
    /\ pc' = [pc EXCEPT ![u] = "unlisted"]
    /\ sessions' = sessions \ {u}
    /\ UNCHANGED <<session, lb, listeners, locks, request, shedding, phase, turn>>

Close(u) ==
    /\ pc[u] = "unlisted"
    /\ pc' = [pc EXCEPT ![u] = "closed"]
    /\ session' = [session EXCEPT ![u] = "closed"]
    /\ UNCHANGED <<sessions, lb, listeners, locks, request, shedding, phase, turn>>

Handler(u) ==
    /\ update[u] = NoUpdate
    /\ \/ Upgrade(u)
       \/ Reject(u)
       \/ AddSession(u)
       \/ Register(u)
       \/ Return(u)
       \/ Unregister(u)
       \/ RemoveSession(u)
       \/ Close(u)

-----------------------------------------------------------------------------
(***************************************************************************)
(* The client: it stops accepting streams, or its connection ends.         *)
(***************************************************************************)
GoAway(u) ==
    /\ u \in GoingAway
    /\ session[u] = "open"
    /\ session' = [session EXCEPT ![u] = "goaway"]
    /\ UNCHANGED <<pc, sessions, lb, listeners, locks, request, shedding, phase, turn>>

Disconnect(u) ==
    /\ session[u] \in {"open", "goaway"}
    /\ session' = [session EXCEPT ![u] = "closed"]
    /\ UNCHANGED <<pc, sessions, lb, listeners, locks, request, shedding, phase, turn>>

-----------------------------------------------------------------------------
(***************************************************************************)
(* The proxy.                                                              *)
(***************************************************************************)

\* Mutant: the first upstream is always selected.
NextFirst(b) == b

\* loadBalancer.Next's effect on the loadBalancer.
NextOf(b) == [b EXCEPT !.nextIndex = (@ + 1) % Len(b.upstreams)]

\* Manager.Select of a local upstream.  An endpoint without one is forwarded
\* or refused, which changes nothing here.
Select(r, e) ==
    LET u == lb[e].upstreams[lb[e].nextIndex + 1]
        round == turn[e] \cup {u}
    IN  /\ request[r] = Idle
        /\ update[r] = NoUpdate
        /\ mu = Nobody
        /\ lb[e] # NoUpstreams
        /\ request' = [request EXCEPT ![r] = [step |-> "dial", conn |-> u]]
        /\ lb' = [lb EXCEPT ![e] = NextOf(@)]
        /\ turn' = [turn EXCEPT ![e] = IF round = ToSet(lb[e].upstreams) THEN {} ELSE round]
        /\ UNCHANGED <<pc, session, sessions, listeners, locks, shedding, phase>>

\* Upstream.Dial: a stream is opened and used, or fails for good, or the
\* client has sent GoAway.
Dial(r) ==
    /\ request[r].step = "dial"
    /\ request' = [request EXCEPT ![r] =
                     IF session[@.conn] = "goaway" THEN [@ EXCEPT !.step = "gone"] ELSE Idle]
    /\ UNCHANGED <<pc, session, sessions, lb, listeners, locks, shedding, phase, turn>>

\* ErrGone: the proxy removes the upstream.
RemoveGone(r) ==
    /\ request[r].step = "gone"
    /\ request' = [request EXCEPT ![r] = Idle]
    /\ RemoveConn(r, request[r].conn)
    /\ UNCHANGED <<pc, session, sessions, shedding, phase>>

-----------------------------------------------------------------------------
(***************************************************************************)
(* Rebalancing closes sessions, whichever and however many; shutdown.      *)
(***************************************************************************)
Shed ==
    /\ shedding = {}
    /\ \E S \in SUBSET sessions \ {{}} : shedding' = S
    /\ UNCHANGED <<pc, session, sessions, lb, listeners, locks, request, phase, turn>>

CloseShed(u) ==
    /\ u \in shedding
    /\ shedding' = shedding \ {u}
    /\ session' = [session EXCEPT ![u] = "closed"]
    /\ UNCHANGED <<pc, sessions, lb, listeners, locks, request, phase, turn>>

\* Server.Shutdown of the upstream server.  Its HTTP server waits for the
\* handlers that have not upgraded yet, but only for the grace period, and not
\* for the others, whose connections the WebSocket upgrade hijacked.
Shutdown ==
    /\ phase = "running"
    /\ phase' = "shutdown"
    /\ UNCHANGED <<pc, session, sessions, lb, listeners, locks, request, shedding, turn>>

-----------------------------------------------------------------------------
Init ==
    /\ pc = [u \in Conn |-> "new"]
    /\ session = [u \in Conn |-> "none"]
    /\ sessions = {}
    /\ lb = [e \in Endpoint |-> NoUpstreams]
    /\ listeners = [e \in Endpoint |-> 0]
    /\ published = [e \in Endpoint |-> 0]
    /\ mu = Nobody
    /\ update = [t \in Conn \cup Request |-> NoUpdate]
    /\ gossiping = FALSE
    /\ request = [r \in Request |-> Idle]
    /\ shedding = {}
    /\ phase = "running"
    /\ turn = [e \in Endpoint |-> {}]

Next ==
    \/ \E u \in Conn : \/ Accept(u)
                       \/ Handler(u)
                       \/ GoAway(u)
                       \/ Disconnect(u)
                       \/ CloseShed(u)
    \/ \E r \in Request : \/ \E e \in Endpoint : Select(r, e)
                          \/ Dial(r)
                          \/ RemoveGone(r)
    \/ \E t \in Conn \cup Request : ReadListeners(t) \/ Publish(t) \/ Gossip(t)
    \/ GossipDone
    \/ Shed
    \/ Shutdown

Spec == Init /\ [][Next]_vars

\* A goroutine that can run does.
Fairness ==
    /\ \A u \in Conn : WF_vars(Handler(u)) /\ WF_vars(CloseShed(u))
    /\ \A r \in Request : WF_vars(Dial(r) \/ RemoveGone(r))
    /\ \A t \in Conn \cup Request : WF_vars(ReadListeners(t) \/ Publish(t))
    /\ WF_vars(GossipDone)

FairSpec == Spec /\ Fairness

-----------------------------------------------------------------------------
(***************************************************************************)
(* Properties.                                                             *)
(***************************************************************************)

\* The types; in particular a number of listeners is never negative, though
\* RemoveConn is called more often than AddConn.
TypeOK ==
    /\ pc \in [Conn -> {"new", "accepted", "opened", "listed", "serving",
                        "returned", "unregistered", "unlisted", "closed"}]
    /\ session \in [Conn -> {"none", "open", "goaway", "closed"}]
    /\ sessions \subseteq Conn
    /\ \A e \in Endpoint : /\ lb[e].upstreams \in Seq(Conn)
                           /\ lb[e].nextIndex \in Nat
    /\ listeners \in [Endpoint -> Nat] /\ published \in [Endpoint -> Nat]
    /\ mu \in {Nobody} \cup {By(t) : t \in Conn \cup Request} /\ gossiping \in BOOLEAN
    /\ \A t \in Conn \cup Request : mu = By(t) <=> update[t] # NoUpdate
    /\ \A r \in Request : request[r] = Idle \/
           (request[r].step \in {"dial", "gone"} /\ request[r].conn \in Conn)
    /\ shedding \subseteq Conn
    /\ phase \in {"running", "shutdown"}

\* Next indexes an upstream that is there, whatever was removed since the last
\* selection, and a loadBalancer without upstreams is not kept, so Select
\* neither panics nor returns nil.
IndexInRange ==
    \A e \in Endpoint :
        lb[e] = NoUpstreams \/ lb[e].nextIndex < Len(lb[e].upstreams)

\* An upstream whose handler is done is never selected again, and one that is
\* being served and has not announced GoAway always can be: neither the
\* handler nor a request that finds another upstream gone removes it.
OnlyServingSelected ==
    \A u \in Conn :
        LET listed == u \in ToSet(lb[endpointID[u]].upstreams)
        IN  /\ listed => pc[u] \in {"serving", "returned"}
            /\ pc[u] = "serving" /\ session[u] = "open" => listed

\* A node gossips the listeners it has as soon as no AddConn or RemoveConn is
\* under way, in whatever order they ran, though the number is read again after
\* cluster.mu was unlocked (onLocalEndpointUpdate).
PublishedIsCurrent ==
    (\A t \in Conn \cup Request : update[t] = NoUpdate) => published = listeners

\* AddConn and RemoveConn return, so that manager.mu is unlocked: they wait for
\* gossip, which holds its mutex while it calls the syncer, but gossip never
\* waits for them.
UpdatesReturn ==
    \A t \in Conn \cup Request : update[t] # NoUpdate ~> update[t] = NoUpdate

\* A node never tells the cluster of more listeners than it has upstreams, so
\* no other node routes to an endpoint because of a listener that is gone.
NeverOvercounts ==
    \A e \in Endpoint : listeners[e] <= Len(lb[e].upstreams)

\* "Endpoints contains the known active endpoints on the node (endpoints with
\* at least one upstream listener)" and their number (server/cluster/node.go:47).
EndpointsCountListeners ==
    \A e \in Endpoint : listeners[e] = Len(lb[e].upstreams)

\* Round robin: between two selections of an upstream every other upstream of
\* its endpoint is selected, unless one was added or removed.
EachInTurn ==
    [][\A r \in Request :
          request[r] = Idle /\ request'[r] # Idle =>
              request'[r].conn \notin turn[endpointID[request'[r].conn]]]_vars

\* Once its session is closed, whoever closed it, an upstream is withdrawn for
\* good: rebalancing does not count it and requests do not select it.
ClosedIsWithdrawn ==
    \A u \in Conn :
        session[u] = "closed" ~>
            [](u \notin sessions /\ u \notin ToSet(lb[endpointID[u]].upstreams))

\* The half of ClosedIsWithdrawn that needs no fairness: a handler that is past
\* its deferred RemoveConn and removeSession has withdrawn its upstream for good,
\* whatever requests, rebalancing and other handlers do after it.
Withdrawn(u) ==
    u \notin sessions /\ u \notin ToSet(lb[endpointID[u]].upstreams)

WithdrawnForGood(u) ==
    [](pc[u] \in {"unlisted", "closed"} => []Withdrawn(u))

\* Shutdown drains the node: it ends with no upstream connected or gossiped,
\* though it does not wait for the handlers.
ShutdownDrains ==
    phase = "shutdown" ~> [](sessions = {} /\ \A e \in Endpoint : published[e] = 0)

\* The half of ShutdownDrains that needs no fairness: once the handlers have
\* returned after a shutdown, nothing registers an upstream or publishes an
\* endpoint again, though requests that found one gone still call RemoveConn.
Drained ==
    /\ phase = "shutdown"
    /\ \A u \in Conn : pc[u] \in {"new", "closed"}
    /\ \A t \in Conn \cup Request : update[t] = NoUpdate

DrainedForGood ==
    [](Drained => [](sessions = {} /\ \A e \in Endpoint : published[e] = 0))

\* What a node publishes changes by one listener of one endpoint at a time: no
\* AddConn or RemoveConn is overtaken by another between the change and its
\* publication (manager.mu), as Syncer's UpdateLocalEndpoint takes for granted.
OneListenerAtATime ==
    [][\E e \in Endpoint : \E count \in {published[e] - 1, published[e] + 1} :
           published' = [published EXCEPT ![e] = count]]_published
=============================================================================
