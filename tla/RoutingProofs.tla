--------------------------- MODULE RoutingProofs ----------------------------
(***************************************************************************)
(* Proofs about proxy and admin requests across the cluster, for any       *)
(* nodes, requests and messages, and about how many connections            *)
(* rebalancing closes, for any configuration.                              *)
(***************************************************************************)
EXTENDS Admin, FiniteSetTheorems, WellFoundedInduction, TLAPS

(***************************************************************************)
(* A request in flight is marked when it has been forwarded, and only an   *)
(* unmarked one is about to be; one that has selected an upstream has been *)
(* admitted by the node it is at.                                          *)
(***************************************************************************)
Fields == {"step", "node", "message", "forwarded", "hops", "gone", "disturbed"}

Flight(x) ==
    /\ DOMAIN x = Fields
    /\ x.step \in {"route", "dial", "forward"}
    /\ x.hops \in 0..1
    /\ x.hops = 1 => x.forwarded
    /\ x.step = "forward" => ~x.forwarded

Over(x) == x.step = "done"

\* An admin request (of Admin).
OfAdmin(x) == x.step \in {"admin", "proxied", "answered"}

Admitted(m) ==
    LET token == m.token
    IN  /\ token # NoToken
        /\ token.key = verifier.key
        /\ ~token.expired
        /\ served \in {NameEndpoint(name) : name \in token.claim} \/ token.claim = {}

Fine(x) ==
    \/ x = Idle
    \/ Flight(x) /\ (x.step = "dial" => Admitted(x.message))
    \/ Over(x) /\ (x.status = 200 => Admitted(x.message))

Inv ==
    /\ request = [r \in Request |-> request[r]]
    /\ \A r \in Request : Fine(request[r]) \/ OfAdmin(request[r])

\* A step of Next keeps Inv and does nothing to admin requests.
Preserves ==
    /\ Inv'
    /\ \A r \in Request : OfAdmin(request'[r]) => request'[r] = request[r]

LEMMA Steps ==
    /\ Idle.step = "idle"
    /\ \A x : Over(x) => x.step = "done"
    /\ \A x : Flight(x) => x.step \in {"route", "dial", "forward"}
    /\ \A x : OfAdmin(x) => x.step \in {"admin", "proxied", "answered"}
    /\ \A x : Fine(x) => ~OfAdmin(x)
<1>1. Idle.step = "idle"
  BY Zenon DEF Idle
<1> QED  BY Zenon, <1>1 DEF Over, Flight, OfAdmin, Fine

\* A request that Denied lets pass, and that is for an endpoint, is admitted.
LEMMA NotDenied ==
    ASSUME NEW m, NEW f, ~Denied(m, f),
           EndpointIDFromRequest(m) = served, served # NoEndpoint
    PROVE  Admitted(m)
<1> DEFINE tenants == [t \in {} |-> verifier]
           token == Verify(verifier, tenants, m)
<1>1. token.error = "none" /\ EndpointPermitted(token, served)
  BY Zenon DEF Denied
<1>2. DOMAIN tenants = {}
  BY Zenon
<1>3. \A e : Error(e).error = e
  BY Zenon DEF Error
<1>4. m.token # NoToken /\ token = MultiTenantVerify(verifier, tenants, m.token, m.tenantID)
  <2>1. ASSUME m.token = NoToken PROVE FALSE
    <3>1. token = Error("missing authorization")
      BY Zenon, <2>1 DEF Verify
    <3> HIDE DEF token, tenants
    <3>2. token.error = "missing authorization"
      BY Zenon, <1>3, <3>1
    <3> QED  BY Zenon, <1>1, <3>2
  <2>2. m.token # NoToken
    BY Zenon, <2>1
  <2> QED  BY Zenon, <2>2 DEF Verify
<1> HIDE DEF tenants
<1>5. token = JWTVerify(verifier, m.token)
  BY Zenon, <1>1, <1>2, <1>3, <1>4 DEF MultiTenantVerify
<1> HIDE DEF token
<1>6. /\ m.token.key = verifier.key /\ ~m.token.expired
      /\ token.endpoints = extractEndpoints(m.token)
  <2>1. m.token.key = verifier.key
    BY Zenon, <1>1, <1>3, <1>5 DEF JWTVerify
  <2>2. ~m.token.expired
    <3>1. ASSUME m.token.expired PROVE FALSE
      <4>1. token = Error("expired")
        BY Zenon, <1>5, <2>1, <3>1 DEF JWTVerify
      <4> QED  BY <1>1, <1>3, <4>1
    <3> QED  BY Zenon, <3>1
  <2>3. CASE verifier.requireEndpoints /\ extractEndpoints(m.token) = {}
    <3>1. token = Error("missing endpoints")
      BY Zenon, <1>5, <2>1, <2>2, <2>3 DEF JWTVerify
    <3> QED  BY Zenon, <1>1, <1>3, <3>1
  <2>4. CASE ~(verifier.requireEndpoints /\ extractEndpoints(m.token) = {})
    <3>1. token = [error |-> "none", endpoints |-> extractEndpoints(m.token)]
      BY Zenon, <1>5, <2>1, <2>2, <2>4 DEF JWTVerify
    <3> QED  BY Zenon, <2>1, <2>2, <3>1
  <2> QED  BY Zenon, <2>3, <2>4
<1>7. served \in extractEndpoints(m.token) \/ extractEndpoints(m.token) = {}
  BY Zenon, <1>1, <1>6 DEF EndpointPermitted
<1>8. extractEndpoints(m.token) = {} => m.token.claim = {}
  BY Zenon DEF extractEndpoints
<1> QED  BY Zenon, <1>4, <1>6, <1>7, <1>8 DEF Admitted, extractEndpoints

-----------------------------------------------------------------------------
LEMMA OneRequest ==
    ASSUME Inv, NEW r \in Request, NEW x, Fine(x), request' = [request EXCEPT ![r] = x]
    PROVE  Preserves
<1>1. DOMAIN request = Request
  BY Zenon DEF Inv
<1>2. \A q \in Request : request'[q] = IF q = r THEN x ELSE request[q]
  BY Zenon, <1>1 DEF Inv
<1>3. request' = [q \in Request |-> request'[q]]
  BY Zenon, <1>1 DEF Inv
<1>4. \A q \in Request : Fine(request'[q]) \/ OfAdmin(request'[q])
  BY Zenon, <1>2 DEF Inv
<1>5. \A q \in Request : OfAdmin(request'[q]) => request'[q] = request[q]
  BY Zenon, <1>2, Steps
<1> QED  BY Zenon, <1>3, <1>4, <1>5 DEF Inv, Preserves

LEMMA RespondStep ==
    ASSUME Inv, NEW r \in Request, NEW status, Respond(r, status),
           status = 200 => Admitted(request[r].message)
    PROVE  Preserves
<1> DEFINE x == [step |-> "done", status |-> status, message |-> request[r].message,
                 disturbed |-> request[r].disturbed]
<1>1. request' = [request EXCEPT ![r] = x]
  BY Zenon DEF Respond
<1>2. x.status = status /\ x.message = request[r].message /\ Over(x)
  BY Zenon DEF Over
<1> HIDE DEF x
<1>3. Fine(x)
  BY Zenon, <1>2 DEF Fine
<1> QED  BY Zenon, <1>1, <1>3, OneRequest

\* The fields that the steps of a request set.
LEMMA ProceedFields ==
    ASSUME NEW x, DOMAIN x = Fields, NEW s, NEW n
    PROVE  LET y == [x EXCEPT !.step = s, !.node = n]
           IN  /\ DOMAIN y = Fields /\ y.step = s /\ y.message = x.message
               /\ y.forwarded = x.forwarded /\ y.hops = x.hops
BY Zenon DEF Fields

LEMMA ForwardFields ==
    ASSUME NEW x, DOMAIN x = Fields, NEW s, NEW h, NEW f
    PROVE  LET y == [x EXCEPT !.step = s, !.hops = h, !.forwarded = f]
           IN  DOMAIN y = Fields /\ y.step = s /\ y.forwarded = f /\ y.hops = h
BY Zenon DEF Fields

LEMMA DisturbedFields ==
    ASSUME NEW x, DOMAIN x = Fields, NEW d, NEW g
    PROVE  LET y == [x EXCEPT !.disturbed = d, !.gone = g]
           IN  /\ DOMAIN y = Fields /\ y.step = x.step /\ y.message = x.message
               /\ y.forwarded = x.forwarded /\ y.hops = x.hops
BY Zenon DEF Fields

LEMMA ExpireFields ==
    ASSUME NEW x, DOMAIN x = Fields, NEW m
    PROVE  LET y == [x EXCEPT !.message = m]
           IN  /\ DOMAIN y = Fields /\ y.step = x.step
               /\ y.forwarded = x.forwarded /\ y.hops = x.hops
BY Zenon DEF Fields

LEMMA RouteStep ==
    ASSUME Inv, NEW r \in Request, Route(r)
    PROVE  Preserves
<1> DEFINE x == request[r]
           m == x.message
<1>1. x.step = "route" /\ Flight(x)
  BY Zenon, Steps DEF Route, Inv, Fine, Idle, Over
<1>2. ASSUME NEW s \in {"dial", "forward"}, NEW n, Proceed(r, s, n),
             s = "dial" => Admitted(m), s = "forward" => ~x.forwarded
      PROVE  Preserves
  <2> DEFINE y == [x EXCEPT !.step = s, !.node = n]
  <2>1. request' = [request EXCEPT ![r] = y]
    <3>1. request' = [request EXCEPT ![r].step = s, ![r].node = n]
      BY Zenon, <1>2 DEF Proceed
    <3>2. r \in DOMAIN request
      BY Zenon DEF Inv
    <3> QED  BY Zenon, <3>1, <3>2
  <2>2. /\ DOMAIN y = Fields /\ y.step = s /\ y.message = x.message
        /\ y.forwarded = x.forwarded /\ y.hops = x.hops
    BY <1>1, ProceedFields DEF Flight
  <2> HIDE DEF y
  <2>3. Flight(y) /\ (y.step = "dial" => Admitted(y.message))
    BY Zenon, <1>1, <1>2, <2>2 DEF Flight
  <2>4. Fine(y)
    BY Zenon, <2>3 DEF Fine
  <2> QED  BY Zenon, <2>1, <2>4, OneRequest
<1>3. ASSUME NEW status \in {400, 401, 502}, Respond(r, status) PROVE Preserves
  <2>1. status # 200
    OBVIOUS
  <2> QED  BY <1>3, <2>1, RespondStep
<1>4. \/ Respond(r, 401) \/ Respond(r, 400) \/ Respond(r, 502)
      \/ /\ ~Denied(m, x.forwarded) /\ EndpointIDFromRequest(m) # NoEndpoint
         /\ EndpointIDFromRequest(m) = served /\ Proceed(r, "dial", x.node)
      \/ \E o : ~x.forwarded /\ Proceed(r, "forward", o)
  BY Zenon DEF Route
<1>5. ASSUME ~Denied(m, x.forwarded), EndpointIDFromRequest(m) # NoEndpoint,
             EndpointIDFromRequest(m) = served, Proceed(r, "dial", x.node)
      PROVE  Preserves
  <2>1. Admitted(m)
    BY Zenon, <1>5, NotDenied
  <2> QED  BY Zenon, <1>2, <1>5, <2>1
<1> HIDE DEF x, m
<1> QED  BY <1>2, <1>3, <1>4, <1>5

LEMMA ForwardStep ==
    ASSUME Inv, NEW r \in Request, Forward(r)
    PROVE  Preserves
<1> DEFINE x == request[r]
           y == [x EXCEPT !.step = "route", !.hops = x.hops + 1, !.forwarded = TRUE]
<1>1. x.step = "forward" /\ Flight(x)
  BY Zenon, Steps DEF Forward, Inv, Fine, Idle, Over
<1>2. CASE Respond(r, 502)
  BY <1>2, RespondStep
<1>3. CASE request' = [request EXCEPT ![r].step = "route", ![r].hops = @ + 1, ![r].forwarded = TRUE]
  <2>1. request' = [request EXCEPT ![r] = y]
    <3>1. r \in DOMAIN request /\ DOMAIN x = Fields
      BY Zenon, <1>1 DEF Inv, Flight
    <3> QED  BY Zenon, <1>3, <3>1 DEF Fields
  <2>2. DOMAIN y = Fields /\ y.step = "route" /\ y.forwarded = TRUE /\ y.hops = x.hops + 1
    BY <1>1, ForwardFields DEF Flight
  <2>3. x.hops = 0
    BY <1>1 DEF Flight
  <2> HIDE DEF x, y
  <2>4. Fine(y)
    BY <2>2, <2>3 DEF Fine, Flight
  <2> QED  BY Zenon, <2>1, <2>4, OneRequest
<1> QED  BY Zenon, <1>2, <1>3 DEF Forward

LEMMA ExpireStep ==
    ASSUME Inv, NEW r \in Request, Expire(r)
    PROVE  Preserves
<1> DEFINE x == request[r]
<1>1. x.step = "forward" /\ Flight(x)
  BY Zenon, Steps DEF Expire, Inv, Fine, Idle, Over
<1>2. PICK m : request' = [request EXCEPT ![r] = [x EXCEPT !.message = m]]
  BY Zenon DEF Expire
<1> DEFINE y == [x EXCEPT !.message = m]
<1>3. DOMAIN y = Fields /\ y.step = x.step /\ y.forwarded = x.forwarded /\ y.hops = x.hops
  BY Zenon, <1>1, ExpireFields DEF Flight
<1> HIDE DEF x, y
<1>4. Fine(y)
  BY Zenon, <1>1, <1>3 DEF Fine, Flight
<1> QED  BY Zenon, <1>2, <1>4, OneRequest DEF y, x

LEMMA ReceiveStep ==
    ASSUME Inv, NEW r \in Request, NEW n, NEW m, Receive(r, n, m)
    PROVE  Preserves
<1> DEFINE x == [step |-> "route", node |-> n, message |-> m, forwarded |-> FALSE,
                 hops |-> 0, gone |-> FALSE, disturbed |-> ~Settled \/ Total = 0]
<1>1. request' = [request EXCEPT ![r] = x]
  BY Zenon DEF Receive
<1>2. DOMAIN x = Fields /\ x.step = "route" /\ x.forwarded = FALSE /\ x.hops = 0
  BY Zenon DEF Fields
<1> HIDE DEF x
<1>3. Fine(x)
  BY <1>2 DEF Fine, Flight
<1> QED  BY Zenon, <1>1, <1>3, OneRequest

\* A change of the cluster marks the requests in flight.
LEMMA DisturbedStep ==
    ASSUME Inv, NEW N, Disturbed(N)
    PROVE  Preserves
<1>1. request' = [r \in Request |->
          IF InFlight(r)
          THEN [request[r] EXCEPT !.disturbed = TRUE,
                                  !.gone = @ \/ (request[r].step = "dial" /\ request[r].node \in N)]
          ELSE request[r]]
  BY Zenon DEF Disturbed
<1>2. ASSUME NEW r \in Request
      PROVE  /\ Fine(request'[r]) \/ OfAdmin(request'[r])
             /\ OfAdmin(request'[r]) => request'[r] = request[r]
  <2>1. CASE ~InFlight(r)
    <3>1. request'[r] = request[r]
      BY Zenon, <1>1, <2>1
    <3> QED  BY Zenon, <3>1 DEF Inv
  <2>2. CASE InFlight(r)
    <3> DEFINE x == request[r]
    <3>1. Flight(x) /\ Fine(x)
      BY Zenon, <2>2, Steps DEF InFlight, Inv, Fine, Idle, Over
    <3>2. \E g : request'[r] = [x EXCEPT !.disturbed = TRUE, !.gone = g]
      BY Zenon, <1>1, <2>2
    <3>3. PICK g : request'[r] = [x EXCEPT !.disturbed = TRUE, !.gone = g]
      BY Zenon, <3>2
    <3> DEFINE y == [x EXCEPT !.disturbed = TRUE, !.gone = g]
    <3>4. /\ DOMAIN y = Fields /\ y.step = x.step /\ y.message = x.message
          /\ y.forwarded = x.forwarded /\ y.hops = x.hops
      BY <3>1, DisturbedFields DEF Flight
    <3>5. x.step # "done" /\ x.step # "idle"
      BY Zenon, <3>1 DEF Flight
    <3>6. x.step = "dial" => Admitted(x.message)
      BY Zenon, <3>1, <3>5, Steps DEF Fine, Over
    <3> HIDE DEF x, y
    <3>7. Fine(y)
      BY Zenon, <3>1, <3>4, <3>6 DEF Fine, Flight
    <3> QED  BY Zenon, <3>3, <3>7, Steps DEF y
  <2> QED  BY Zenon, <2>1, <2>2
<1>3. request' = [r \in Request |-> request'[r]]
  BY Zenon, <1>1
<1> QED  BY Zenon, <1>2, <1>3 DEF Inv, Preserves

LEMMA RequestStep ==
    ASSUME Inv, NEW r \in Request,
           Dial(r) \/ Timeout(r) \/ Drop(r) \/ Finish(r)
    PROVE  Preserves
<1>1. CASE Dial(r)
  <2>1. request[r].step = "dial"
    BY Zenon, <1>1 DEF Dial
  <2>2. Admitted(request[r].message)
    BY Zenon, <2>1, Steps DEF Inv, Fine, Over
  <2>3. Respond(r, 200) \/ Respond(r, 502)
    BY Zenon, <1>1 DEF Dial
  <2> QED  BY ZenonT(30), <2>2, <2>3, RespondStep
<1>2. CASE Timeout(r)
  BY <1>2, RespondStep DEF Timeout
<1>3. CASE Drop(r)
  BY <1>3, RespondStep DEF Drop
<1>4. CASE Finish(r)
  <2>1. Fine(Idle)
    BY Zenon DEF Fine
  <2> QED  BY Zenon, <1>4, <2>1, OneRequest DEF Finish
<1> QED  BY Zenon, <1>1, <1>2, <1>3, <1>4

LEMMA NextPreserves ==
    ASSUME Inv, Next
    PROVE  Preserves
<1> DEFINE Goal == Preserves
<1>1. ASSUME NEW n \in Node, Connect(n) \/ Disconnect(n) \/ RebalanceNode(n) \/ Stop(n) PROVE Goal
  <2>1. \E N : Disturbed(N)
    BY Zenon, <1>1 DEF Connect, Disconnect, RebalanceNode, Stop
  <2> QED  BY Zenon, <2>1, DisturbedStep
<1>2. ASSUME NEW n \in Node, NEW o \in Node, Learn(n, o) PROVE Goal
  <2>1. Disturbed({})
    BY Zenon, <1>2 DEF Learn
  <2> QED  BY Zenon, <2>1, DisturbedStep
<1>3. ASSUME NEW r \in Request, NEW n \in Node, NEW m \in Message, Receive(r, n, m) PROVE Goal
  BY Zenon, <1>3, ReceiveStep
<1>4. ASSUME NEW r \in Request, Route(r) \/ Forward(r) \/ Expire(r) PROVE Goal
  BY Zenon, <1>4, RouteStep, ForwardStep, ExpireStep
<1>5. ASSUME NEW r \in Request, Dial(r) \/ Timeout(r) \/ Drop(r) \/ Finish(r) PROVE Goal
  BY Zenon, <1>5, RequestStep
<1> HIDE DEF Goal
<1>6. Goal
  BY Zenon, <1>1, <1>2, <1>3, <1>4, <1>5 DEF Next
<1> QED  BY Zenon, <1>6 DEF Goal

LEMMA InitInv == Init => Inv
<1> SUFFICES ASSUME Init PROVE Inv
  BY Zenon
<1>1. request = [r \in Request |-> Idle]
  BY Zenon DEF Init
<1> HIDE DEF Idle
<1> QED  BY Zenon, <1>1 DEF Inv, Fine

-----------------------------------------------------------------------------
(***************************************************************************)
(* Admin requests.  One that is at a node it was forwarded to is at the    *)
(* address of the node it names; and that node has been replaced if it was *)
(* forwarded from there.                                                   *)
(***************************************************************************)
AdminFields == {"step", "node", "asked", "message", "hops"}

MessageFields == {"path", "forward", "token", "session", "tenantID"}

\* The ID at the address of n when the nodes of R have been replaced.
IDAt(n, R) == IF n \in R THEN Other ELSE n

Asking(x, R) ==
    /\ DOMAIN x = AdminFields
    /\ DOMAIN x.message = MessageFields
    /\ x.step \in {"admin", "proxied"}
    /\ x.hops \in Nat
    /\ x.step = "admin" /\ x.hops = 0 => x.asked = IDAt(x.node, R)
    /\ x.step = "proxied" \/ x.hops > 0 =>
           x.message.forward # NoForward /\ x.node = x.message.forward
    /\ (x.step = "proxied" /\ x.hops > 0) \/ x.hops > 1 => x.message.forward \in R

Truthful(x) ==
    x.status = 200 /\ x.message.path # "open" =>
        /\ x.by = IF x.message.forward = NoForward THEN x.asked ELSE x.message.forward
        /\ x.message.token = NoToken /\ config[x.node].password # NoPassword =>
               ValidSession(config[x.node].password, x.message.session)

AdminFine(x, R) ==
    \/ ~OfAdmin(x)
    \/ Asking(x, R)
    \/ x.step = "answered" /\ Truthful(x)

AdminInv ==
    /\ Inv
    /\ \A r \in Request : AdminFine(request[r], replaced)

LEMMA OneAdminRequest ==
    ASSUME AdminInv, NEW r \in Request, NEW x, OfAdmin(x) \/ Fine(x), AdminFine(x, replaced),
           request' = [request EXCEPT ![r] = x], replaced' = replaced
    PROVE  AdminInv'
<1>1. DOMAIN request = Request
  BY Zenon DEF AdminInv, Inv
<1>2. \A q \in Request : request'[q] = IF q = r THEN x ELSE request[q]
  BY Zenon, <1>1 DEF AdminInv, Inv
<1>3. request' = [q \in Request |-> request'[q]]
  BY Zenon, <1>1 DEF AdminInv, Inv
<1>4. \A q \in Request : Fine(request'[q]) \/ OfAdmin(request'[q])
  BY Zenon, <1>2 DEF AdminInv, Inv
<1>5. \A q \in Request : AdminFine(request'[q], replaced')
  BY Zenon, <1>2 DEF AdminInv
<1> QED  BY Zenon, <1>3, <1>4, <1>5 DEF AdminInv, Inv

\* The fields that the steps of an admin request set.
LEMMA AdminFieldsOf ==
    ASSUME NEW x, DOMAIN x = AdminFields, NEW s, NEW v
    PROVE  /\ LET y == [x EXCEPT !.step = s, !.node = v]
              IN  /\ DOMAIN y = AdminFields /\ y.step = s /\ y.node = v
                  /\ y.message = x.message /\ y.hops = x.hops /\ y.asked = x.asked
           /\ LET y == [x EXCEPT !.step = s, !.hops = v]
              IN  /\ DOMAIN y = AdminFields /\ y.step = s /\ y.hops = v
                  /\ y.message = x.message /\ y.node = x.node /\ y.asked = x.asked
           /\ LET y == [x EXCEPT !.message = v]
              IN  /\ DOMAIN y = AdminFields /\ y.message = v /\ y.step = x.step
                  /\ y.node = x.node /\ y.hops = x.hops /\ y.asked = x.asked
BY Zenon DEF AdminFields

LEMMA SessionFieldsOf ==
    ASSUME NEW m, DOMAIN m = MessageFields, NEW v
    PROVE  LET y == [m EXCEPT !.session = v]
           IN  DOMAIN y = MessageFields /\ y.forward = m.forward
BY Zenon DEF MessageFields

LEMMA AnswerStep ==
    ASSUME AdminInv, NEW r \in Request, NEW status, Answer(r, status),
           LET x == request[r]
           IN  status = 200 /\ x.message.path # "open" =>
                  /\ IDAt(x.node, replaced) =
                        IF x.message.forward = NoForward THEN x.asked ELSE x.message.forward
                  /\ x.message.token = NoToken /\ config[x.node].password # NoPassword =>
                        ValidSession(config[x.node].password, x.message.session)
    PROVE  AdminInv'
<1> DEFINE x == request[r]
           y == [step |-> "answered", status |-> status, asked |-> x.asked,
                 node |-> x.node, by |-> LocalID(x.node), message |-> x.message]
<1>1. request' = [request EXCEPT ![r] = y] /\ replaced' = replaced
  BY Zenon DEF Answer
<1>2. /\ y.step = "answered" /\ y.status = status /\ y.asked = x.asked
      /\ y.node = x.node /\ y.by = IDAt(x.node, replaced) /\ y.message = x.message
  BY Zenon DEF LocalID, IDAt
<1> HIDE DEF x, y
<1>3. OfAdmin(y) /\ Truthful(y)
  BY <1>2 DEF OfAdmin, Truthful, x
<1>4. AdminFine(y, replaced)
  BY Zenon, <1>2, <1>3 DEF AdminFine
<1> QED  BY Zenon, <1>1, <1>3, <1>4, OneAdminRequest

LEMMA AdminAsking ==
    ASSUME AdminInv, NEW r \in Request, request[r].step \in {"admin", "proxied"}
    PROVE  Asking(request[r], replaced) /\ OfAdmin(request[r])
BY Zenon DEF AdminInv, AdminFine, OfAdmin

LEMMA AdminReceiveStep ==
    ASSUME AdminInv, NEW r \in Request, NEW n, NEW m \in AdminMessage, AdminReceive(r, n, m)
    PROVE  AdminInv'
<1> DEFINE x == [step |-> "admin", node |-> n, asked |-> LocalID(n), message |-> m, hops |-> 0]
<1>1. request' = [request EXCEPT ![r] = x] /\ replaced' = replaced
  BY Zenon DEF AdminReceive
<1>2. /\ DOMAIN x = AdminFields /\ x.step = "admin" /\ x.node = n
      /\ x.asked = IDAt(n, replaced) /\ x.message = m /\ x.hops = 0
  BY Zenon DEF AdminFields, LocalID, IDAt
<1>3. DOMAIN m = MessageFields
  BY Zenon, AdminAssumption DEF MessageFields
<1> HIDE DEF x
<1>4. OfAdmin(x) /\ Asking(x, replaced)
  BY <1>2, <1>3 DEF OfAdmin, Asking
<1> QED  BY Zenon, <1>1, <1>4, OneAdminRequest DEF AdminFine

LEMMA AdminRouteStep ==
    ASSUME AdminInv, NEW r \in Request, AdminRoute(r)
    PROVE  AdminInv'
<1> DEFINE x == request[r]
           m == x.message
           n == x.node
<1>1. x.step = "admin" /\ Asking(x, replaced)
  BY Zenon, AdminAsking DEF AdminRoute
<1>2. \/ m.path = "open" /\ \E status : Answer(r, status)
      \/ Answer(r, 401) \/ Answer(r, 404)
      \/ Authenticated(n, m) /\ m.forward \in {NoForward, LocalID(n)} /\ Answer(r, 200)
      \/ /\ m.forward \notin {NoForward, LocalID(n)}
         /\ request' = [request EXCEPT ![r].step = "proxied", ![r].node = m.forward]
         /\ replaced' = replaced
  BY Zenon DEF AdminRoute, HandledHere
<1>3. CASE m.path = "open" /\ \E status : Answer(r, status)
  BY Zenon, <1>3, AnswerStep
<1>4. CASE Answer(r, 401) \/ Answer(r, 404)
  BY <1>4, AnswerStep
<1>5. CASE Authenticated(n, m) /\ m.forward \in {NoForward, LocalID(n)} /\ Answer(r, 200)
  <2>1. m.forward = NoForward => x.asked = IDAt(n, replaced)
    BY <1>1 DEF Asking
  <2>2. m.forward # NoForward => m.forward = IDAt(n, replaced)
    BY Zenon, <1>5 DEF LocalID, IDAt
  <2>3. m.token = NoToken /\ config[n].password # NoPassword =>
            ValidSession(config[n].password, m.session)
    <3> SUFFICES ASSUME m.token = NoToken, config[n].password # NoPassword
                 PROVE  ValidSession(config[n].password, m.session)
      BY Zenon
    <3> QED  BY Zenon, <1>5 DEF Authenticated
  <2> QED  BY ZenonT(30), <1>5, <2>1, <2>2, <2>3, AnswerStep
<1>6. CASE /\ m.forward \notin {NoForward, LocalID(n)}
           /\ request' = [request EXCEPT ![r].step = "proxied", ![r].node = m.forward]
           /\ replaced' = replaced
  <2> DEFINE y == [x EXCEPT !.step = "proxied", !.node = m.forward]
  <2>1. request' = [request EXCEPT ![r] = y]
    <3>1. r \in DOMAIN request /\ DOMAIN x = AdminFields
      BY Zenon, <1>1 DEF AdminInv, Inv, Asking
    <3> QED  BY Zenon, <1>6, <3>1 DEF AdminFields
  <2>2. /\ DOMAIN y = AdminFields /\ y.step = "proxied" /\ y.node = m.forward
        /\ y.message = m /\ y.hops = x.hops
    BY <1>1, AdminFieldsOf DEF Asking
  <2>3. x.hops > 0 => m.forward \in replaced
    BY Zenon, <1>1, <1>6 DEF Asking, LocalID
  <2> HIDE DEF y
  <2>4. Asking(y, replaced) /\ OfAdmin(y)
    BY Zenon, <1>1, <1>6, <2>2, <2>3 DEF Asking, OfAdmin
  <2> QED  BY Zenon, <1>6, <2>1, <2>4, OneAdminRequest DEF AdminFine
<1> HIDE DEF x, m, n
<1> QED  BY ZenonT(30), <1>2, <1>3, <1>4, <1>5, <1>6

LEMMA AdminForwardStep ==
    ASSUME AdminInv, NEW r \in Request, AdminForward(r)
    PROVE  AdminInv'
<1> DEFINE x == request[r]
           y == [x EXCEPT !.step = "admin", !.hops = x.hops + 1]
<1>1. x.step = "proxied" /\ Asking(x, replaced)
  BY Zenon, AdminAsking DEF AdminForward
<1>2. CASE Answer(r, 502)
  BY <1>2, AnswerStep
<1>3. CASE /\ request' = [request EXCEPT ![r].step = "admin", ![r].hops = @ + 1]
           /\ replaced' = replaced
  <2>1. request' = [request EXCEPT ![r] = y]
    <3>1. r \in DOMAIN request /\ DOMAIN x = AdminFields
      BY Zenon, <1>1 DEF AdminInv, Inv, Asking
    <3> QED  BY Zenon, <1>3, <3>1 DEF AdminFields
  <2>2. /\ DOMAIN y = AdminFields /\ y.step = "admin" /\ y.hops = x.hops + 1
        /\ y.message = x.message /\ y.node = x.node
    BY <1>1, AdminFieldsOf DEF Asking
  <2> HIDE DEF x, y
  <2>3. Asking(y, replaced) /\ OfAdmin(y)
    BY <1>1, <2>2 DEF Asking, OfAdmin
  <2> QED  BY Zenon, <1>3, <2>1, <2>3, OneAdminRequest DEF AdminFine
<1> QED  BY Zenon, <1>2, <1>3 DEF AdminForward

LEMMA AdminExpireStep ==
    ASSUME AdminInv, NEW r \in Request, AdminExpire(r)
    PROVE  AdminInv'
<1> DEFINE x == request[r]
<1>1. x.step = "proxied" /\ Asking(x, replaced)
  BY Zenon, AdminAsking DEF AdminExpire
<1>2. \E v : request' = [request EXCEPT ![r] = [x EXCEPT !.message = [x.message EXCEPT !.session = v]]]
  BY Zenon DEF AdminExpire
<1>3. PICK v : request' = [request EXCEPT ![r] = [x EXCEPT !.message = [x.message EXCEPT !.session = v]]]
  BY Zenon, <1>2
<1> DEFINE m == [x.message EXCEPT !.session = v]
           y == [x EXCEPT !.message = m]
<1>4. DOMAIN m = MessageFields /\ m.forward = x.message.forward
  BY Zenon, <1>1, SessionFieldsOf DEF Asking
<1> HIDE DEF m
<1>5. /\ DOMAIN y = AdminFields /\ y.step = x.step /\ y.node = x.node
      /\ y.message = m /\ y.hops = x.hops /\ y.asked = x.asked
  BY <1>1, AdminFieldsOf DEF Asking
<1> HIDE DEF x, y
<1>6. Asking(y, replaced) /\ OfAdmin(y)
  BY Zenon, <1>1, <1>4, <1>5 DEF Asking, OfAdmin
<1>7. request' = [request EXCEPT ![r] = y] /\ replaced' = replaced
  BY Zenon, <1>3 DEF y, m, AdminExpire
<1> QED  BY Zenon, <1>6, <1>7, OneAdminRequest DEF AdminFine

LEMMA ReplaceStep ==
    ASSUME AdminInv, NEW n \in Node, Replace(n)
    PROVE  AdminInv'
<1>1. request' = request /\ replaced' = replaced \cup {n}
  BY Zenon DEF Replace, vars
<1>2. ASSUME NEW r \in Request PROVE AdminFine(request[r], replaced')
  <2>1. ~(request[r].step = "admin" /\ request[r].node = n)
    BY Zenon DEF Replace
  <2>2. CASE Asking(request[r], replaced)
    <3>1. Asking(request[r], replaced')
      BY Zenon, <1>1, <2>1, <2>2 DEF Asking, IDAt
    <3> QED  BY Zenon, <3>1 DEF AdminFine
  <2>3. CASE ~Asking(request[r], replaced)
    BY Zenon, <2>3 DEF AdminInv, AdminFine
  <2> QED  BY Zenon, <2>2, <2>3
<1> QED  BY Zenon, <1>1, <1>2 DEF AdminInv, Inv

LEMMA AdminInvAlways == AdminSpec => []AdminInv
<1>1. AdminInit => AdminInv
  <2> SUFFICES ASSUME AdminInit PROVE AdminInv
    BY Zenon
  <2>1. Inv
    BY Zenon, InitInv DEF AdminInit
  <2>2. \A r \in Request : request[r] = Idle
    BY Zenon DEF AdminInit, Init
  <2>3. ~OfAdmin(Idle)
    BY Zenon, Steps DEF OfAdmin
  <2> HIDE DEF Idle
  <2> QED  BY Zenon, <2>1, <2>2, <2>3 DEF AdminInv, AdminFine
<1>2. ASSUME AdminInv, [AdminNext]_adminVars
      PROVE  AdminInv'
  <2> DEFINE Goal == AdminInv'
  <2>1. ASSUME Next, UNCHANGED replaced PROVE Goal
    <3>1. Preserves
      BY Zenon, <1>2, <2>1, NextPreserves DEF AdminInv
    <3>2. ASSUME NEW r \in Request PROVE AdminFine(request'[r], replaced')
      <4>1. CASE OfAdmin(request'[r])
        <5>1. request'[r] = request[r]
          BY Zenon, <3>1, <4>1 DEF Preserves
        <5> QED  BY Zenon, <1>2, <2>1, <5>1 DEF AdminInv
      <4>2. CASE ~OfAdmin(request'[r])
        BY Zenon, <4>2 DEF AdminFine
      <4> QED  BY Zenon, <4>1, <4>2
    <3> QED  BY Zenon, <3>1, <3>2 DEF AdminInv, Preserves
  <2>2. ASSUME NEW n \in Node, Replace(n) PROVE Goal
    BY Zenon, <1>2, <2>2, ReplaceStep
  <2>3. ASSUME NEW r \in Request, NEW n \in Node, NEW m \in AdminMessage, AdminReceive(r, n, m)
        PROVE  Goal
    BY Zenon, <1>2, <2>3, AdminReceiveStep
  <2>4. ASSUME NEW r \in Request, AdminRoute(r) \/ AdminForward(r) \/ AdminExpire(r) PROVE Goal
    BY Zenon, <1>2, <2>4, AdminRouteStep, AdminForwardStep, AdminExpireStep
  <2>5. ASSUME NEW r \in Request, AdminTimeout(r) \/ AdminDrop(r) PROVE Goal
    <3>1. Answer(r, 504) \/ Answer(r, 502)
      BY Zenon, <2>5 DEF AdminTimeout, AdminDrop
    <3> QED  BY <1>2, <3>1, AnswerStep
  <2>6. ASSUME NEW r \in Request, AdminFinish(r) PROVE Goal
    <3>1. Fine(Idle) /\ ~OfAdmin(Idle)
      BY Zenon, Steps DEF Fine, OfAdmin
    <3>2. request' = [request EXCEPT ![r] = Idle] /\ replaced' = replaced
      BY Zenon, <2>6 DEF AdminFinish
    <3> HIDE DEF Idle
    <3> QED  BY Zenon, <1>2, <3>1, <3>2, OneAdminRequest DEF AdminFine
  <2>7. ASSUME UNCHANGED adminVars PROVE Goal
    <3>1. request' = request /\ replaced' = replaced
      BY Zenon, <2>7 DEF adminVars, vars
    <3> QED  BY Zenon, <1>2, <3>1 DEF AdminInv, Inv
  <2> HIDE DEF Goal
  <2>8. Goal
    BY Zenon, <1>2, <2>1, <2>2, <2>3, <2>4, <2>5, <2>6, <2>7 DEF AdminNext
  <2> QED  BY Zenon, <2>8 DEF Goal
<1> QED  BY <1>1, <1>2, PTL DEF AdminSpec

\* Whatever was replaced meanwhile, an admin request is answered for a node by
\* that node only, and the session it was let in with counts at that node
\* (forwardInterceptor, passwordAuth.Verify).
THEOREM AnswersComeFromTarget == AdminSpec => []AnsweredByTarget
<1>1. AdminInv => AnsweredByTarget
  <2> SUFFICES ASSUME AdminInv, NEW r \in Request, request[r].step = "answered"
               PROVE  Truthful(request[r])
    BY Zenon DEF AnsweredByTarget, Truthful
  <2> QED  BY Zenon DEF AdminInv, AdminFine, Asking, OfAdmin
<1> QED  BY <1>1, AdminInvAlways, PTL

\* For any number of nodes and forwards, an admin request goes round only at the
\* address of a node that has been replaced (forwardInterceptor).
THEOREM OnlyReplacedLoop == AdminSpec => []LoopsOnlyIfReplaced
<1>1. AdminInv => LoopsOnlyIfReplaced
  <2> SUFFICES ASSUME AdminInv, NEW r \in Request, request[r].step = "admin", request[r].hops > 1
               PROVE  request[r].message.forward \in replaced
    BY Zenon DEF LoopsOnlyIfReplaced
  <2> QED  BY Zenon, AdminAsking DEF Asking
<1> QED  BY <1>1, AdminInvAlways, PTL

\* Forwarding never loops: whatever the nodes believe of each other, and however
\* it changes meanwhile, a request is forwarded once at most, because the node
\* it is forwarded to sees that it has been and selects local upstreams only.
THEOREM ForwardedOnce == AdminSpec => []OneHop
<1>1. Inv => OneHop
  <2> SUFFICES ASSUME Inv, NEW r \in Request, InFlight(r) PROVE request[r].hops <= 1
    BY Zenon DEF OneHop
  <2>1. Flight(request[r])
    BY Zenon, Steps DEF InFlight, Inv, Fine, Over
  <2> QED  BY <2>1 DEF Flight
<1> QED  BY <1>1, AdminInvAlways, PTL DEF AdminInv

\* No path to an upstream goes round the check of the token: a request that is
\* served was let through by the node that served it, forwarded or not.
THEOREM ServedWerePermitted == AdminSpec => []ServedIsPermitted
<1>1. Inv => ServedIsPermitted
  <2> SUFFICES ASSUME Inv, NEW r \in Request, request[r].step = "done", request[r].status = 200
               PROVE  Admitted(request[r].message)
    BY Zenon DEF ServedIsPermitted, Admitted
  <2> QED  BY Zenon, Steps DEF Inv, Fine
<1> QED  BY <1>1, AdminInvAlways, PTL DEF AdminInv

-----------------------------------------------------------------------------
(***************************************************************************)
(* Rebalancing.                                                            *)
(***************************************************************************)
LEMMA ClosedValue ==
    ASSUME NEW n \in Int, NEW sessions \in Nat
    PROVE  LET m == IF n >= 1 THEN n ELSE 1
           IN  Closed(n, sessions) = IF sessions <= m THEN sessions ELSE m
<1> DEFINE m == IF n >= 1 THEN n ELSE 1
<1>1. Max({n, 1}) = m
  BY DEF Max
<1>2. m \in Nat
  OBVIOUS
<1> HIDE DEF m
<1>3. Min({sessions, m}) = IF sessions <= m THEN sessions ELSE m
  BY <1>2 DEF Min
<1>4. Closed(n, sessions) = Min({sessions, m})
  BY Zenon, <1>1 DEF Closed
<1> QED  BY Zenon, <1>3, <1>4 DEF m

LEMMA DivBound ==
    ASSUME NEW x \in Nat, NEW d \in Nat \ {0}, NEW k \in Nat, x <= k * d
    PROVE  (x + d - 1) \div d <= k /\ (x + d - 1) \div d \in Nat
OBVIOUS

\* Rebalancing never takes a node below the average it computed, for any number
\* of connections and any average, if the shed rate does not exceed the
\* threshold.  (With a larger one it may: shedSessions closes a share of the
\* average that the excess need not cover.)
THEOREM ShedsNoMoreThanExcess ==
    ASSUME ShedRate <= Threshold,
           NEW local \in Nat, NEW avg \in Nat, Rebalances(local, avg)
    PROVE  local - Closed(Shedding(local, avg), local) >= avg
<1> USE RateAssumption
<1> DEFINE n == Shedding(local, avg)
<1>1. local # 0 /\ Unbalanced(local, avg)
  BY Zenon DEF Rebalances
<1>2. ASSUME n \in Nat, NEW k \in Nat, n <= k, 1 <= k, k <= local
      PROVE  Closed(n, local) <= k
  <2> HIDE DEF n
  <2> QED  BY <1>2, ClosedValue
<1>3. CASE avg = 0
  <2>1. n = (0 + Denominator - 1) \div Denominator
    BY <1>3 DEF Shedding
  <2>2. n \in Nat /\ n <= 0
    BY <2>1, DivBound
  <2> HIDE DEF n
  <2>3. Closed(n, local) <= 1
    BY <1>1, <1>2, <2>2
  <2>4. Closed(n, local) \in Int
    BY <2>2, ClosedValue
  <2> QED  BY <1>1, <1>3, <2>3, <2>4 DEF n
<1>4. CASE avg > 0
  <2> DEFINE k == local - avg
             kd == k * Denominator
             rate == avg * ShedRate
  <2>1. k \in Int /\ kd \in Int /\ rate \in Nat /\ kd >= Threshold * avg
    BY <1>1, <1>4 DEF Unbalanced
  <2>2. Threshold * avg >= avg /\ rate <= Threshold * avg
    <3>1. \A a, b \in Nat : a <= b => a * avg <= b * avg
      OBVIOUS
    <3>2. 1 * avg <= Threshold * avg /\ ShedRate * avg <= Threshold * avg
      BY <3>1
    <3> QED  BY <3>2
  <2>3. kd >= 1 /\ rate <= kd
    BY <1>4, <2>1, <2>2
  <2>4. k >= 1
    <3>1. ASSUME k <= 0 PROVE FALSE
      <4>1. \A a \in Int : a <= 0 => a * Denominator <= 0
        OBVIOUS
      <4>2. kd <= 0
        BY Zenon, <2>1, <3>1, <4>1
      <4> QED  BY <2>1, <2>3, <4>2
    <3> QED  BY <2>1, <3>1
  <2>5. local * (local - avg) * Denominator > rate * avg
    <3>1. local * (local - avg) * Denominator = (avg * kd) + (k * kd)
      OBVIOUS
    <3> HIDE DEF kd, rate
    <3>2. k * kd >= 1
      BY <2>1, <2>3, <2>4
    <3>3. avg * kd >= rate * avg
      BY <2>1, <2>3
    <3>4. k * kd \in Int /\ avg * kd \in Int /\ rate * avg \in Int
      BY <2>1
    <3> QED  BY <3>1, <3>2, <3>3, <3>4
  <2>6. n = (rate + Denominator - 1) \div Denominator
    BY Zenon, <2>5 DEF Shedding
  <2> HIDE DEF n, rate
  <2>7. n \in Nat /\ n <= k
    BY SMTT(30), <2>1, <2>3, <2>4, <2>6, DivBound
  <2>8. Closed(n, local) <= k
    BY <1>2, <1>4, <2>1, <2>4, <2>7
  <2>9. Closed(n, local) \in Int
    BY <2>7, ClosedValue
  <2> QED  BY <2>8, <2>9 DEF n
<1> QED  BY <1>3, <1>4

-----------------------------------------------------------------------------
(***************************************************************************)
(* Sums: the numbers of connections of finitely many nodes add up to a     *)
(* natural number, and to none only if every one of them is none.          *)
(***************************************************************************)
LEMMA LeastOf ==
    ASSUME NEW T, T \in SUBSET Nat, T # {}
    PROVE  \E m \in T : \A k \in T : m <= k
<1> DEFINE R == OpToRel(<, Nat)
<1>1. IsWellFoundedOn(R, Nat)
  BY Zenon, NatLessThanWellFounded
<1>2. \A x, y \in Nat : <<y, x>> \in R <=> y < x
  BY Zenon DEF OpToRel
<1> HIDE DEF R
<1>3. PICK m \in T : \A k \in T : ~(<<k, m>> \in R)
  BY Zenon, <1>1, WFMin
<1>4. \A k \in T : ~(k < m)
  BY Zenon, <1>2, <1>3
<1>5. \A k \in T : m <= k
  BY <1>4
<1> QED  BY Zenon, <1>5

LEMMA SetInduction ==
    ASSUME NEW T, T \in SUBSET Nat, 0 \in T, \A n \in T : n + 1 \in T
    PROVE  T = Nat
<1> DEFINE U == Nat \ T
<1> SUFFICES ASSUME U # {} PROVE FALSE
  BY Zenon
<1>1. U \in SUBSET Nat
  BY Zenon
<1> HIDE DEF U
<1>2. PICK m \in U : \A k \in U : m <= k
  BY Zenon, <1>1, LeastOf
<1>3. m # 0 /\ m - 1 \in Nat /\ m - 1 \notin U
  BY <1>1, <1>2 DEF U
<1> QED  BY <1>2, <1>3 DEF U

LEMMA SumValue ==
    ASSUME NEW w, IsFiniteSet(DOMAIN w), \A x \in DOMAIN w : w[x] \in Nat
    PROVE  /\ SumFunction(w) \in Nat
           /\ (\A x \in DOMAIN w : w[x] = 0) => SumFunction(w) = 0
<1> DEFINE S == DOMAIN w
           pick(s) == CHOOSE x \in s : TRUE
           body(g, s) == IF s = {} THEN 0 ELSE w[pick(s)] + g[s \ {pick(s)}]
           iter == CHOOSE g : g = [s \in SUBSET S |-> body(g, s)]
           card(s) == Cardinality(s)
<1>1. SumFunction(w) = iter[S]
  BY Zenon DEF SumFunction, SumFunctionOnSet, FoldFunctionOnSet, MapThenFoldSet
<1>2. \A s \in SUBSET S :
          /\ card(s) \in Nat /\ card(s) <= card(S)
          /\ s # {} => /\ pick(s) \in s /\ s \ {pick(s)} \in SUBSET S
                       /\ card(s \ {pick(s)}) = card(s) - 1
  <2> SUFFICES ASSUME NEW s \in SUBSET S
               PROVE  /\ card(s) \in Nat /\ card(s) <= card(S)
                      /\ s # {} => /\ pick(s) \in s /\ s \ {pick(s)} \in SUBSET S
                                   /\ card(s \ {pick(s)}) = card(s) - 1
    BY Zenon
  <2>1. IsFiniteSet(s) /\ card(s) <= card(S)
    BY Zenon, FS_Subset
  <2>2. card(s) \in Nat
    BY Zenon, <2>1, FS_CardinalityType
  <2>3. s # {} => pick(s) \in s
    BY Zenon
  <2> HIDE DEF pick
  <2> QED  BY Zenon, <2>1, <2>2, <2>3, FS_RemoveElement
<1>3. \A s \in SUBSET S : card(s) = 0 <=> s = {}
  BY Zenon, FS_Subset, FS_EmptySet
<1>4. card(S) \in Nat
  BY Zenon, <1>2
<1> DEFINE Upto(g, n) == \A s \in SUBSET S : card(s) <= n => g[s] = body(g, s)
           T == {n \in Nat : \E g : Upto(g, n)}
<1> HIDE DEF pick, card, S
<1>5. 0 \in T
  <2>1. Upto([s \in SUBSET S |-> 0], 0)
    BY SMTT(30), <1>2, <1>3
  <2> HIDE DEF Upto
  <2> QED  BY Zenon, <2>1
<1>6. ASSUME NEW n \in T PROVE n + 1 \in T
  <2>1. n \in Nat /\ \E g : Upto(g, n)
    BY Zenon
  <2>2. PICK g : Upto(g, n)
    BY Zenon, <2>1
  <2> DEFINE h == [s \in SUBSET S |-> IF card(s) <= n THEN g[s] ELSE body(g, s)]
  <2>3. ASSUME NEW s \in SUBSET S, card(s) <= n + 1 PROVE h[s] = body(h, s)
    <3>1. h[s] = body(g, s)
      BY Zenon, <2>2
    <3>2. CASE s = {}
      BY Zenon, <3>1, <3>2
    <3>3. CASE s # {}
      <4>1. s \ {pick(s)} \in SUBSET S /\ card(s \ {pick(s)}) <= n
        BY <1>2, <2>1, <2>3, <3>3
      <4>2. h[s \ {pick(s)}] = g[s \ {pick(s)}]
        BY Zenon, <4>1
      <4> HIDE DEF h
      <4> QED  BY Zenon, <3>1, <3>3, <4>2
    <3> QED  BY Zenon, <3>2, <3>3
  <2>4. Upto(h, n + 1)
    <3> HIDE DEF h, body
    <3> QED  BY Zenon, <2>3
  <2> HIDE DEF Upto, h
  <2> QED  BY <2>1, <2>4
<1>7. T = Nat
  <2>1. T \in SUBSET Nat
    BY Zenon
  <2> HIDE DEF T
  <2> QED  BY Zenon, <1>5, <1>6, <2>1, SetInduction
<1>8. \E g : g = [s \in SUBSET S |-> body(g, s)]
  <2>1. card(S) \in T
    BY Zenon, <1>4, <1>7
  <2>2. PICK g : Upto(g, card(S))
    BY Zenon, <2>1
  <2> DEFINE h == [s \in SUBSET S |-> g[s]]
  <2>3. \A s \in SUBSET S : g[s] = body(g, s)
    BY Zenon, <1>2, <2>2
  <2>4. ASSUME NEW s \in SUBSET S PROVE h[s] = body(h, s)
    <3>1. s # {} => s \ {pick(s)} \in SUBSET S
      BY Zenon, <1>2
    <3> QED  BY Zenon, <2>3, <3>1
  <2>5. h = [s \in SUBSET S |-> body(h, s)]
    <3>1. h = [s \in SUBSET S |-> h[s]]
      BY Zenon
    <3> HIDE DEF h, body
    <3> QED  BY Zenon, <2>4, <3>1
  <2> HIDE DEF h
  <2> QED  BY Zenon, <2>5
<1>9. iter = [s \in SUBSET S |-> body(iter, s)]
  <2> HIDE DEF body
  <2> QED  BY Zenon, <1>8
<1> DEFINE Known(s) == iter[s] \in Nat /\ ((\A x \in S : w[x] = 0) => iter[s] = 0)
           K == {n \in Nat : \A s \in SUBSET S : card(s) <= n => Known(s)}
<1> HIDE DEF iter
<1>10. 0 \in K
  <2>1. iter[{}] = 0
    BY Zenon, <1>9
  <2>2. ASSUME NEW s \in SUBSET S, card(s) <= 0 PROVE s = {}
    <3>1. card(s) \in Nat
      BY Zenon, <1>2
    <3>2. card(s) = 0
      BY <2>2, <3>1
    <3> QED  BY Zenon, <1>3, <3>2
  <2> QED  BY <2>1, <2>2
<1>11. ASSUME NEW n \in K PROVE n + 1 \in K
  <2> SUFFICES ASSUME NEW s \in SUBSET S, card(s) <= n + 1 PROVE Known(s)
    OBVIOUS
  <2>1. CASE s = {}
    BY <1>9, <2>1
  <2>2. CASE s # {}
    <3> DEFINE rest == s \ {pick(s)}
    <3>1. rest \in SUBSET S /\ card(rest) <= n /\ pick(s) \in S
      BY <1>2, <2>2
    <3>2. Known(rest)
      BY Zenon, <3>1
    <3>3. iter[s] = w[pick(s)] + iter[rest]
      BY Zenon, <1>9, <2>2
    <3>4. w[pick(s)] \in Nat
      BY Zenon, <3>1 DEF S
    <3> QED  BY <3>1, <3>2, <3>3, <3>4
  <2> QED  BY Zenon, <2>1, <2>2
<1>12. K = Nat
  <2>1. K \in SUBSET Nat
    BY Zenon
  <2> HIDE DEF K
  <2> QED  BY Zenon, <1>10, <1>11, <2>1, SetInduction
<1>13. card(S) \in K
  BY <1>4, <1>12
<1>14. Known(S)
  BY <1>4, <1>13
<1> QED  BY Zenon, <1>1, <1>14 DEF S

LEMMA NodesHaveConns ==
    ASSUME conns \in [Node -> Nat], Total # 0
    PROVE  \E n \in Node : conns[n] > 0
<1>1. DOMAIN conns = Node /\ \A n \in DOMAIN conns : conns[n] \in Nat
  BY Zenon
<1>2. ~ \A n \in DOMAIN conns : conns[n] = 0
  BY Zenon, <1>1, SumValue, RoutingAssumption DEF Total
<1> QED  BY <1>1, <1>2

-----------------------------------------------------------------------------
(***************************************************************************)
(* The cluster, whatever the requests do.                                  *)
(***************************************************************************)
Cluster ==
    /\ conns \in [Node -> Nat]
    /\ up \subseteq Node
    /\ nodes \in [Node -> [Node -> [active: BOOLEAN, listeners: Nat]]]
    /\ \A n \in Node : conns[n] > 0 => n \in up

LEMMA AvgIsNumber ==
    ASSUME Cluster, NEW n \in Node
    PROVE  AvgConns(n) \in Nat
<1> DEFINE active == {o \in Node \ {n} : nodes[n][o].active}
           listeners == [o \in active |-> nodes[n][o].listeners]
<1>1. IsFiniteSet(active)
  <2>1. active \in SUBSET Node
    BY Zenon
  <2> HIDE DEF active
  <2> QED  BY Zenon, <2>1, FS_Subset, RoutingAssumption
<1>2. Cardinality(active) \in Nat
  BY Zenon, <1>1, FS_CardinalityType
<1>3. DOMAIN listeners = active /\ \A o \in active : listeners[o] \in Nat
  BY Zenon DEF Cluster
<1>4. AvgConns(n) = (conns[n] + SumFunction(listeners)) \div (1 + Cardinality(active))
  BY Zenon DEF AvgConns
<1> HIDE DEF active, listeners
<1>5. SumFunction(listeners) \in Nat
  BY Zenon, <1>1, <1>3, SumValue
<1>6. conns[n] \in Nat
  BY Zenon DEF Cluster
<1>7. \A a \in Nat, d \in Nat \ {0} : a \div d \in Nat
  OBVIOUS
<1>8. 1 + Cardinality(active) \in Nat \ {0} /\ conns[n] + SumFunction(listeners) \in Nat
  BY <1>2, <1>5, <1>6
<1> QED  BY Zenon, <1>4, <1>7, <1>8

LEMMA SheddingIsNumber ==
    ASSUME NEW local \in Nat, NEW avg \in Nat
    PROVE  Shedding(local, avg) \in Int
<1>1. \A a \in Int, d \in Nat \ {0} : a \div d \in Int
  OBVIOUS
<1>2. avg * ShedRate \in Int /\ local * (local - avg) \in Int
  BY RateAssumption
<1>3. avg * ShedRate + Denominator - 1 \in Int
  BY <1>2, RateAssumption
<1>4. (avg * ShedRate + Denominator - 1) \div Denominator \in Int
  BY Zenon, <1>1, <1>3, RateAssumption
<1>5. avg # 0 => (local * (local - avg)) \div avg \in Int
  BY Zenon, <1>1, <1>2
<1> QED  BY <1>4, <1>5, Zenon DEF Shedding

LEMMA ClusterSteps ==
    ASSUME Cluster, NEW n \in Node, Connect(n) \/ Disconnect(n) \/ RebalanceNode(n) \/ Stop(n)
    PROVE  Cluster'
<1>1. CASE Connect(n)
  BY <1>1 DEF Connect, Cluster
<1>2. CASE Disconnect(n)
  BY <1>2 DEF Disconnect, Cluster
<1>3. CASE RebalanceNode(n)
  <2> DEFINE closed == Closed(Shedding(conns[n], AvgConns(n)), conns[n])
  <2>1. conns[n] \in Nat /\ conns[n] - closed \in Nat
    <3>1. conns[n] \in Nat /\ AvgConns(n) \in Nat
      BY Zenon, AvgIsNumber DEF Cluster
    <3>2. Shedding(conns[n], AvgConns(n)) \in Int
      BY Zenon, <3>1, SheddingIsNumber
    <3>3. closed \in Nat /\ closed <= conns[n]
      BY <3>1, <3>2, ClosedValue
    <3> HIDE DEF closed
    <3> QED  BY <3>1, <3>3
  <2>2. conns' = [conns EXCEPT ![n] = conns[n] - closed] /\ n \in up /\ UNCHANGED <<up, nodes>>
    BY Zenon, <1>3 DEF RebalanceNode
  <2> HIDE DEF closed
  <2> QED  BY Zenon, <2>1, <2>2 DEF Cluster
<1>4. CASE Stop(n)
  BY <1>4 DEF Stop, Cluster
<1> QED  BY Zenon, <1>1, <1>2, <1>3, <1>4

LEMMA LearnStep ==
    ASSUME Cluster, NEW n \in Node, NEW o \in Node, Learn(n, o)
    PROVE  Cluster'
<1>1. PICK active \in {(o \in up), FALSE} :
          nodes' = [nodes EXCEPT ![n][o] = [active |-> active, listeners |-> conns[o]]]
  BY Zenon DEF Learn
<1>2. active \in BOOLEAN /\ conns[o] \in Nat
  <2>1. (o \in up) \in BOOLEAN /\ FALSE \in BOOLEAN
    OBVIOUS
  <2>2. active = (o \in up) \/ active = FALSE
    BY Zenon, <1>1
  <2>3. active \in BOOLEAN
    BY Zenon, <2>1, <2>2
  <2> QED  BY Zenon, <2>3 DEF Cluster
<1>3. [active |-> active, listeners |-> conns[o]] \in [active: BOOLEAN, listeners: Nat]
  BY Zenon, <1>2
<1>4. nodes' \in [Node -> [Node -> [active: BOOLEAN, listeners: Nat]]]
  BY Zenon, <1>1, <1>3 DEF Cluster
<1>5. UNCHANGED <<conns, up>>
  BY Zenon DEF Learn
<1> QED  BY Zenon, <1>4, <1>5 DEF Cluster

-----------------------------------------------------------------------------
(***************************************************************************)
(* A request that nothing disturbs: the cluster is as it was when it was   *)
(* received, settled and with an upstream, and the request is at, or on    *)
(* its way to, a node that runs; at one with an upstream, unless it has    *)
(* just been received.                                                     *)
(***************************************************************************)
Calm(x) ==
    x.step \in {"route", "dial", "forward"} /\ ~x.disturbed =>
        /\ Settled
        /\ \E n \in Node : conns[n] > 0
        /\ ~x.gone
        /\ x.node \in up
        /\ x.forwarded \/ x.step # "route" => conns[x.node] > 0

Explained(x) ==
    x.step = "done" /\ x.status = 502 /\ EndpointIDFromRequest(x.message) = served => x.disturbed

CalmInv ==
    /\ Cluster
    /\ \A r \in Request : Calm(request[r]) /\ Explained(request[r])

\* A step of one request.
LEMMA OneCalmRequest ==
    ASSUME CalmInv, Inv, NEW r \in Request, NEW x, request' = [request EXCEPT ![r] = x],
           UNCHANGED <<conns, up, nodes>>, Calm(x), Explained(x)
    PROVE  CalmInv'
<1>1. \A q \in Request : request'[q] = IF q = r THEN x ELSE request[q]
  BY Zenon DEF Inv
<1>2. Cluster'
  BY Zenon DEF CalmInv, Cluster
<1>3. Settled' <=> Settled
  BY Zenon DEF Settled
<1>4. ASSUME NEW q \in Request PROVE Calm(request'[q]) /\ Explained(request'[q])
  BY Zenon, <1>1 DEF CalmInv
<1>5. ASSUME NEW q \in Request PROVE (Calm(request[q]) /\ Explained(request[q]))'
  BY Zenon, <1>3, <1>4 DEF Calm, Explained
<1> QED  BY Zenon, <1>2, <1>5 DEF CalmInv

LEMMA CalmRespond ==
    ASSUME CalmInv, Inv, NEW r \in Request, NEW status, Respond(r, status),
           status = 502 /\ EndpointIDFromRequest(request[r].message) = served =>
               request[r].disturbed
    PROVE  CalmInv'
<1> DEFINE x == [step |-> "done", status |-> status, message |-> request[r].message,
                 disturbed |-> request[r].disturbed]
<1>1. request' = [request EXCEPT ![r] = x] /\ UNCHANGED <<conns, up, nodes>>
  BY Zenon DEF Respond
<1>2. /\ x.step = "done" /\ x.status = status /\ x.message = request[r].message
      /\ x.disturbed = request[r].disturbed
  BY Zenon
<1> HIDE DEF x
<1>3. Calm(x) /\ Explained(x)
  BY Zenon, <1>2 DEF Calm, Explained
<1> QED  BY Zenon, <1>1, <1>3, OneCalmRequest

\* The fields that Calm is about, after the steps of a request.
LEMMA CalmFields ==
    ASSUME NEW x, DOMAIN x = Fields, NEW s, NEW n, NEW h, NEW f, NEW m, NEW d, NEW g
    PROVE  /\ LET y == [x EXCEPT !.step = s, !.node = n]
              IN  /\ y.step = s /\ y.node = n /\ y.gone = x.gone
                  /\ y.disturbed = x.disturbed /\ y.forwarded = x.forwarded
           /\ LET y == [x EXCEPT !.step = s, !.hops = h, !.forwarded = f]
              IN  /\ y.step = s /\ y.node = x.node /\ y.gone = x.gone
                  /\ y.disturbed = x.disturbed /\ y.forwarded = f
           /\ LET y == [x EXCEPT !.message = m]
              IN  /\ y.step = x.step /\ y.node = x.node /\ y.gone = x.gone
                  /\ y.disturbed = x.disturbed /\ y.forwarded = x.forwarded
           /\ LET y == [x EXCEPT !.disturbed = d, !.gone = g]
              IN  y.step = x.step /\ y.disturbed = d
BY Zenon DEF Fields

LEMMA CalmRoute ==
    ASSUME CalmInv, Inv, NEW r \in Request, Route(r)
    PROVE  CalmInv'
<1> DEFINE x == request[r]
           m == x.message
           n == x.node
<1>1. x.step = "route" /\ Flight(x) /\ n \in up
  BY Zenon, Steps DEF Route, Inv, Fine, Idle, Over
<1>2. Calm(x) /\ Cluster
  BY Zenon DEF CalmInv
<1>3. n \in Node
  BY Zenon, <1>1, <1>2 DEF Cluster
<1>4. ASSUME ~x.disturbed
      PROVE  \A o \in Node \ {n} : (nodes[n][o].active <=> o \in up) /\ nodes[n][o].listeners = conns[o]
  <2> SUFFICES ASSUME NEW o \in Node \ {n}
               PROVE  (nodes[n][o].active <=> o \in up) /\ nodes[n][o].listeners = conns[o]
    BY Zenon
  <2>1. nodes[n][o] = [active |-> o \in up, listeners |-> conns[o]]
    BY Zenon, <1>1, <1>2, <1>4 DEF Calm, Settled
  <2> DEFINE known == [active |-> o \in up, listeners |-> conns[o]]
  <2>2. (known.active <=> o \in up) /\ known.listeners = conns[o]
    BY Zenon
  <2> HIDE DEF known
  <2>3. nodes[n][o] = known
    BY Zenon, <2>1 DEF known
  <2> QED  BY Zenon, <2>2, <2>3
<1>5. ASSUME NEW s \in {"dial", "forward"}, NEW o, Proceed(r, s, o),
             ~x.disturbed => o \in up /\ conns[o] > 0
      PROVE  CalmInv'
  <2> DEFINE y == [x EXCEPT !.step = s, !.node = o]
  <2>1. request' = [request EXCEPT ![r] = y] /\ UNCHANGED <<conns, up, nodes>>
    <3>1. /\ request' = [request EXCEPT ![r].step = s, ![r].node = o]
          /\ UNCHANGED <<conns, up, nodes>>
      BY Zenon, <1>5 DEF Proceed
    <3>2. r \in DOMAIN request
      BY Zenon DEF Inv
    <3> QED  BY Zenon, <3>1, <3>2
  <2>2. /\ y.step = s /\ y.node = o /\ y.gone = x.gone
        /\ y.disturbed = x.disturbed /\ y.forwarded = x.forwarded
    BY <1>1, CalmFields DEF Flight
  <2> HIDE DEF y
  <2>3. Calm(y) /\ Explained(y)
    BY Zenon, <1>1, <1>2, <1>5, <2>2 DEF Calm, Explained
  <2> QED  BY Zenon, <2>1, <2>3, OneCalmRequest
<1>6. \/ Respond(r, 401) \/ Respond(r, 400)
      \/ conns[n] > 0 /\ Proceed(r, "dial", n)
      \/ \E o \in LookupEndpoint(n) : Proceed(r, "forward", o)
      \/ /\ Respond(r, 502)
         /\ EndpointIDFromRequest(m) = served =>
               ~(conns[n] > 0) /\ (x.forwarded \/ LookupEndpoint(n) = {})
  BY ZenonT(30) DEF Route
<1>7. CASE Respond(r, 401) \/ Respond(r, 400)
  BY <1>7, CalmRespond
<1>8. CASE conns[n] > 0 /\ Proceed(r, "dial", n)
  BY Zenon, <1>1, <1>5, <1>8
<1>9. ASSUME NEW o \in LookupEndpoint(n), Proceed(r, "forward", o)
      PROVE  CalmInv'
  <2>1. ~x.disturbed => o \in up /\ conns[o] > 0
    BY Zenon, <1>4, <1>9 DEF LookupEndpoint
  <2> QED  BY Zenon, <1>5, <1>9, <2>1
<1>10. ASSUME Respond(r, 502),
              EndpointIDFromRequest(m) = served =>
                  ~(conns[n] > 0) /\ (x.forwarded \/ LookupEndpoint(n) = {})
       PROVE  CalmInv'
  <2>1. ASSUME EndpointIDFromRequest(m) = served, ~x.disturbed PROVE FALSE
    <3>1. ~x.forwarded
      BY Zenon, <1>1, <1>2, <1>10, <2>1 DEF Calm
    <3>2. PICK k \in Node : conns[k] > 0
      BY Zenon, <1>1, <1>2, <2>1 DEF Calm
    <3>3. k \in Node \ {n} /\ k \in up
      BY Zenon, <1>2, <1>10, <2>1, <3>2 DEF Cluster
    <3>4. k \in LookupEndpoint(n)
      BY Zenon, <1>4, <2>1, <3>2, <3>3 DEF LookupEndpoint
    <3> QED  BY Zenon, <1>10, <2>1, <3>1, <3>4
  <2> QED  BY <1>10, <2>1, CalmRespond
<1> HIDE DEF x, m, n
<1> QED  BY <1>6, <1>7, <1>8, <1>9, <1>10

LEMMA CalmForward ==
    ASSUME CalmInv, Inv, NEW r \in Request, Forward(r)
    PROVE  CalmInv'
<1> DEFINE x == request[r]
           y == [x EXCEPT !.step = "route", !.hops = x.hops + 1, !.forwarded = TRUE]
<1>1. x.step = "forward" /\ Flight(x) /\ Calm(x)
  BY Zenon, Steps DEF Forward, Inv, Fine, Idle, Over, CalmInv
<1>2. CASE x.node \notin up /\ Respond(r, 502)
  <2>1. x.disturbed
    BY Zenon, <1>1, <1>2 DEF Calm
  <2> QED  BY Zenon, <1>2, <2>1, CalmRespond
<1>3. CASE /\ request' = [request EXCEPT ![r].step = "route", ![r].hops = @ + 1, ![r].forwarded = TRUE]
           /\ UNCHANGED <<conns, up, nodes>>
  <2>1. request' = [request EXCEPT ![r] = y]
    <3>1. r \in DOMAIN request /\ DOMAIN x = Fields
      BY Zenon, <1>1 DEF Inv, Flight
    <3> QED  BY Zenon, <1>3, <3>1 DEF Fields
  <2>2. /\ y.step = "route" /\ y.node = x.node /\ y.gone = x.gone
        /\ y.disturbed = x.disturbed /\ y.forwarded = TRUE
    BY <1>1, CalmFields DEF Flight
  <2> HIDE DEF x, y
  <2>3. Calm(y) /\ Explained(y)
    BY Zenon, <1>1, <2>2 DEF Calm, Explained
  <2> QED  BY Zenon, <1>3, <2>1, <2>3, OneCalmRequest
<1> QED  BY ZenonT(30), <1>2, <1>3 DEF Forward

LEMMA CalmExpire ==
    ASSUME CalmInv, Inv, NEW r \in Request, Expire(r)
    PROVE  CalmInv'
<1> DEFINE x == request[r]
<1>1. x.step = "forward" /\ Flight(x) /\ Calm(x)
  BY Zenon, Steps DEF Expire, Inv, Fine, Idle, Over, CalmInv
<1>2. PICK m : request' = [request EXCEPT ![r] = [x EXCEPT !.message = m]]
  BY Zenon DEF Expire
<1>3. UNCHANGED <<conns, up, nodes>>
  BY Zenon DEF Expire
<1> DEFINE y == [x EXCEPT !.message = m]
<1>4. /\ y.step = x.step /\ y.node = x.node /\ y.gone = x.gone
      /\ y.disturbed = x.disturbed /\ y.forwarded = x.forwarded
  BY <1>1, CalmFields DEF Flight
<1> HIDE DEF x, y
<1>5. Calm(y) /\ Explained(y)
  BY Zenon, <1>1, <1>4 DEF Calm, Explained
<1> QED  BY Zenon, <1>2, <1>3, <1>5, OneCalmRequest DEF y, x

LEMMA CalmReceive ==
    ASSUME CalmInv, Inv, NEW r \in Request, NEW n, NEW m, Receive(r, n, m)
    PROVE  CalmInv'
<1> DEFINE x == [step |-> "route", node |-> n, message |-> m, forwarded |-> FALSE,
                 hops |-> 0, gone |-> FALSE, disturbed |-> ~Settled \/ Total = 0]
<1>1. request' = [request EXCEPT ![r] = x]
  BY Zenon DEF Receive
<1>2. n \in up /\ UNCHANGED <<conns, up, nodes>>
  BY Zenon DEF Receive
<1>3. /\ x.step = "route" /\ x.node = n /\ x.forwarded = FALSE /\ x.gone = FALSE
      /\ ~x.disturbed => Settled /\ Total # 0
  BY Zenon
<1> HIDE DEF x
<1>4. Total # 0 => \E k \in Node : conns[k] > 0
  BY Zenon, NodesHaveConns DEF CalmInv, Cluster
<1>5. Calm(x) /\ Explained(x)
  BY Zenon, <1>2, <1>3, <1>4 DEF Calm, Explained
<1> QED  BY Zenon, <1>1, <1>2, <1>5, OneCalmRequest

\* The other steps of a request.
LEMMA CalmEnd ==
    ASSUME CalmInv, Inv, NEW r \in Request, Dial(r) \/ Timeout(r) \/ Drop(r) \/ Finish(r)
    PROVE  CalmInv'
<1>1. Calm(request[r])
  BY Zenon DEF CalmInv
<1>2. CASE Dial(r)
  <2>1. request[r].gone => request[r].disturbed
    BY Zenon, <1>1, <1>2 DEF Dial, Calm
  <2>2. Respond(r, 200) \/ (request[r].gone /\ Respond(r, 502))
    BY Zenon, <1>2 DEF Dial
  <2> QED  BY <2>1, <2>2, CalmRespond
<1>3. CASE Timeout(r)
  BY <1>3, CalmRespond DEF Timeout
<1>4. CASE Drop(r)
  <2>1. request[r].disturbed /\ Respond(r, 502)
    BY Zenon, <1>1, <1>4 DEF Drop, Calm
  <2> QED  BY Zenon, <2>1, CalmRespond
<1>5. CASE Finish(r)
  <2>1. Calm(Idle) /\ Explained(Idle)
    <3>1. Idle.step = "idle"
      BY Zenon DEF Idle
    <3> QED  BY Zenon, <3>1 DEF Calm, Explained
  <2>2. request' = [request EXCEPT ![r] = Idle] /\ UNCHANGED <<conns, up, nodes>>
    BY Zenon, <1>5 DEF Finish
  <2> HIDE DEF Idle
  <2> QED  BY Zenon, <2>1, <2>2, OneCalmRequest
<1> QED  BY Zenon, <1>2, <1>3, <1>4, <1>5

\* A change of the cluster disturbs every request in flight.
LEMMA CalmDisturbed ==
    ASSUME CalmInv, Inv, NEW N, Disturbed(N), Cluster'
    PROVE  CalmInv'
<1>1. request' = [r \in Request |->
          IF InFlight(r)
          THEN [request[r] EXCEPT !.disturbed = TRUE,
                                  !.gone = @ \/ (request[r].step = "dial" /\ request[r].node \in N)]
          ELSE request[r]]
  BY Zenon DEF Disturbed
<1>2. ASSUME NEW r \in Request
      PROVE  (Calm(request[r]) /\ Explained(request[r]))'
  <2>1. CASE ~InFlight(r)
    <3>1. request'[r] = request[r]
      BY Zenon, <1>1, <2>1
    <3>2. Explained(request[r])
      BY Zenon DEF CalmInv
    <3> QED  BY <2>1, <3>1, <3>2 DEF InFlight, Calm, Explained
  <2>2. CASE InFlight(r)
    <3> DEFINE x == request[r]
    <3>1. Flight(x)
      BY Zenon, <2>2, Steps DEF InFlight, Inv, Fine, Idle, Over
    <3>2. \E g : request'[r] = [x EXCEPT !.disturbed = TRUE, !.gone = g]
      BY Zenon, <1>1, <2>2
    <3>3. PICK g : request'[r] = [x EXCEPT !.disturbed = TRUE, !.gone = g]
      BY Zenon, <3>2
    <3>4. request'[r].disturbed = TRUE
      BY <3>1, <3>3, CalmFields DEF Flight
    <3> QED  BY Zenon, <3>4 DEF Calm, Explained
  <2> QED  BY Zenon, <2>1, <2>2
<1> QED  BY Zenon, <1>2 DEF CalmInv

\* A step of admin request r leaves y in its place.
AdminMove(r, y) ==
    /\ UNCHANGED <<conns, up, nodes>>
    /\ y.step \in {"idle", "admin", "proxied", "answered"}
    /\ request' = [request EXCEPT ![r] = y]

LEMMA AdminMoves ==
    ASSUME AdminInv, NEW r \in Request,
           \/ \E n \in Node, m \in AdminMessage : AdminReceive(r, n, m)
           \/ AdminRoute(r) \/ AdminForward(r) \/ AdminTimeout(r) \/ AdminDrop(r)
           \/ AdminExpire(r) \/ AdminFinish(r)
    PROVE  \E y : AdminMove(r, y)
<1> DEFINE x == request[r]
           Goal == \E y : AdminMove(r, y)
<1>1. ASSUME NEW n \in Node, NEW m \in AdminMessage, AdminReceive(r, n, m) PROVE Goal
  <2> DEFINE y == [step |-> "admin", node |-> n, asked |-> LocalID(n), message |-> m, hops |-> 0]
  <2>1. request' = [request EXCEPT ![r] = y] /\ UNCHANGED <<conns, up, nodes>> /\ y.step = "admin"
    BY Zenon, <1>1 DEF AdminReceive
  <2> HIDE DEF y
  <2>2. AdminMove(r, y)
    BY Zenon, <2>1 DEF AdminMove
  <2> QED  BY Zenon, <2>2
<1>2. ASSUME NEW status, Answer(r, status) PROVE Goal
  <2> DEFINE y == [step |-> "answered", status |-> status, asked |-> x.asked,
                   node |-> x.node, by |-> LocalID(x.node), message |-> x.message]
  <2>1. request' = [request EXCEPT ![r] = y] /\ UNCHANGED <<conns, up, nodes>> /\ y.step = "answered"
    BY Zenon, <1>2 DEF Answer
  <2> HIDE DEF y
  <2>2. AdminMove(r, y)
    BY Zenon, <2>1 DEF AdminMove
  <2> QED  BY Zenon, <2>2
<1>3. x.step \in {"admin", "proxied"} => DOMAIN x = AdminFields /\ r \in DOMAIN request
  BY Zenon, AdminAsking DEF Asking, AdminInv, Inv
<1>4. CASE AdminRoute(r)
  <2>1. /\ x.step = "admin"
        /\ \/ \E status : Answer(r, status)
           \/ /\ request' = [request EXCEPT ![r].step = "proxied", ![r].node = x.message.forward]
              /\ UNCHANGED <<conns, up, nodes>>
    BY ZenonT(30), <1>4 DEF AdminRoute
  <2>2. CASE /\ request' = [request EXCEPT ![r].step = "proxied", ![r].node = x.message.forward]
             /\ UNCHANGED <<conns, up, nodes>>
    <3> DEFINE y == [x EXCEPT !.step = "proxied", !.node = x.message.forward]
    <3>1. request' = [request EXCEPT ![r] = y]
      BY Zenon, <1>3, <2>1, <2>2 DEF AdminFields
    <3>2. y.step = "proxied"
      BY <1>3, <2>1, AdminFieldsOf
    <3> HIDE DEF y
    <3>3. AdminMove(r, y)
      BY Zenon, <2>2, <3>1, <3>2 DEF AdminMove
    <3> QED  BY Zenon, <3>3
  <2> QED  BY Zenon, <1>2, <2>1, <2>2
<1>5. CASE AdminForward(r)
  <2>1. /\ x.step = "proxied"
        /\ \/ Answer(r, 502)
           \/ /\ request' = [request EXCEPT ![r].step = "admin", ![r].hops = @ + 1]
              /\ UNCHANGED <<conns, up, nodes>>
    BY Zenon, <1>5 DEF AdminForward
  <2>2. CASE /\ request' = [request EXCEPT ![r].step = "admin", ![r].hops = @ + 1]
             /\ UNCHANGED <<conns, up, nodes>>
    <3> DEFINE y == [x EXCEPT !.step = "admin", !.hops = x.hops + 1]
    <3>1. request' = [request EXCEPT ![r] = y]
      BY Zenon, <1>3, <2>1, <2>2 DEF AdminFields
    <3>2. y.step = "admin"
      BY <1>3, <2>1, AdminFieldsOf
    <3> HIDE DEF y
    <3>3. AdminMove(r, y)
      BY Zenon, <2>2, <3>1, <3>2 DEF AdminMove
    <3> QED  BY Zenon, <3>3
  <2> QED  BY Zenon, <1>2, <2>1, <2>2
<1>6. CASE AdminTimeout(r) \/ AdminDrop(r)
  <2>1. Answer(r, 504) \/ Answer(r, 502)
    BY Zenon, <1>6 DEF AdminTimeout, AdminDrop
  <2> QED  BY Zenon, <1>2, <2>1
<1>7. CASE AdminExpire(r)
  <2>1. x.step = "proxied" /\ UNCHANGED <<conns, up, nodes>>
    BY Zenon, <1>7 DEF AdminExpire
  <2>2. PICK m : request' = [request EXCEPT ![r] = [x EXCEPT !.message = m]]
    BY Zenon, <1>7 DEF AdminExpire
  <2> DEFINE y == [x EXCEPT !.message = m]
  <2>3. y.step = "proxied"
    BY <1>3, <2>1, AdminFieldsOf
  <2>4. request' = [request EXCEPT ![r] = y]
    BY Zenon, <2>2
  <2> HIDE DEF y
  <2>5. AdminMove(r, y)
    BY Zenon, <2>1, <2>3, <2>4 DEF AdminMove
  <2> QED  BY Zenon, <2>5
<1>8. CASE AdminFinish(r)
  <2>1. /\ request' = [request EXCEPT ![r] = Idle] /\ UNCHANGED <<conns, up, nodes>>
        /\ Idle.step = "idle"
    BY Zenon, <1>8, Steps DEF AdminFinish
  <2> HIDE DEF Idle
  <2>2. AdminMove(r, Idle)
    BY Zenon, <2>1 DEF AdminMove
  <2> QED  BY Zenon, <2>2
<1> QED  BY Zenon, <1>1, <1>4, <1>5, <1>6, <1>7, <1>8

LEMMA CalmInvAlways == AdminSpec => []CalmInv
<1>1. AdminInit => CalmInv
  <2> SUFFICES ASSUME AdminInit PROVE CalmInv
    BY Zenon
  <2>1. Cluster
    BY Zenon DEF AdminInit, Init, Cluster
  <2>2. Idle.step = "idle" /\ \A r \in Request : request[r] = Idle
    BY Zenon, Steps DEF AdminInit, Init
  <2> HIDE DEF Idle
  <2> QED  BY Zenon, <2>1, <2>2 DEF CalmInv, Calm, Explained
<1>2. CalmInv /\ AdminInv /\ [AdminNext]_adminVars => CalmInv'
  <2> SUFFICES ASSUME CalmInv, AdminInv, [AdminNext]_adminVars PROVE CalmInv'
    BY Zenon
  <2> DEFINE Goal == CalmInv'
  <2>1. Inv /\ Cluster
    BY Zenon DEF AdminInv, CalmInv
  <2>2. ASSUME UNCHANGED vars PROVE Goal
    BY <2>2 DEF vars, CalmInv, Cluster, Calm, Explained, Settled
  <2>3. ASSUME NEW n \in Node, Connect(n) \/ Disconnect(n) \/ RebalanceNode(n) \/ Stop(n) PROVE Goal
    <3>1. \E N : Disturbed(N)
      BY Zenon, <2>3 DEF Connect, Disconnect, RebalanceNode, Stop
    <3> QED  BY Zenon, <2>1, <2>3, <3>1, ClusterSteps, CalmDisturbed
  <2>4. ASSUME NEW n \in Node, NEW o \in Node, Learn(n, o) PROVE Goal
    <3>1. Disturbed({})
      BY Zenon, <2>4 DEF Learn
    <3> QED  BY Zenon, <2>1, <2>4, <3>1, LearnStep, CalmDisturbed
  <2>5. ASSUME NEW r \in Request, NEW n \in Node, NEW m \in Message, Receive(r, n, m) PROVE Goal
    BY Zenon, <2>1, <2>5, CalmReceive
  <2>6. ASSUME NEW r \in Request, Route(r) \/ Forward(r) \/ Expire(r) PROVE Goal
    BY Zenon, <2>1, <2>6, CalmRoute, CalmForward, CalmExpire
  <2>7. ASSUME NEW r \in Request, Dial(r) \/ Timeout(r) \/ Drop(r) \/ Finish(r) PROVE Goal
    BY Zenon, <2>1, <2>7, CalmEnd
  <2>8. ASSUME NEW r \in Request,
               \/ \E n \in Node, m \in AdminMessage : AdminReceive(r, n, m)
               \/ AdminRoute(r) \/ AdminForward(r) \/ AdminTimeout(r) \/ AdminDrop(r)
               \/ AdminExpire(r) \/ AdminFinish(r)
        PROVE  Goal
    <3>1. PICK y : AdminMove(r, y)
      BY Zenon, <2>8, AdminMoves
    <3>2. /\ UNCHANGED <<conns, up, nodes>> /\ request' = [request EXCEPT ![r] = y]
          /\ y.step \in {"idle", "admin", "proxied", "answered"}
      BY Zenon, <3>1 DEF AdminMove
    <3>3. Calm(y) /\ Explained(y)
      BY Zenon, <3>2 DEF Calm, Explained
    <3> QED  BY Zenon, <2>1, <3>2, <3>3, OneCalmRequest
  <2>9. ASSUME NEW n \in Node, Replace(n) PROVE Goal
    BY Zenon, <2>2, <2>9 DEF Replace
  <2>10. ASSUME UNCHANGED adminVars PROVE Goal
    BY Zenon, <2>2, <2>10 DEF adminVars
  <2> HIDE DEF Goal
  <2>11. ASSUME Next PROVE Goal
    BY Zenon, <2>3, <2>4, <2>5, <2>6, <2>7, <2>11 DEF Next
  <2>12. Goal
    BY Zenon, <2>8, <2>9, <2>10, <2>11 DEF AdminNext
  <2> QED  BY Zenon, <2>12 DEF Goal
<1> QED  BY <1>1, <1>2, AdminInvAlways, PTL DEF AdminSpec

\* In a cluster that has settled, a request for an endpoint that any node has an
\* upstream for finds it, from whichever node it is sent to: a 502 means that
\* the cluster was changing (Manager.Select, LookupEndpoint).
THEOREM SettledClusterServes == AdminSpec => []RefusedWhenUnsettled
<1>1. CalmInv => RefusedWhenUnsettled
  BY DEF CalmInv, Explained, RefusedWhenUnsettled
<1> QED  BY <1>1, CalmInvAlways, PTL

\* Rebalancing keeps at least the average, as a node computes it from whatever
\* it knows of the other nodes, if the shed rate does not exceed the threshold
\* (Server.Rebalance, shedSessions).
THEOREM RebalancingKeepsAverage ==
    ASSUME ShedRate <= Threshold
    PROVE  AdminSpec => ShedsOnlyExcess
<1>1. ASSUME Cluster, NEW n \in Node, RebalanceNode(n)
      PROVE  conns'[n] >= AvgConns(n)
  <2> DEFINE closed == Closed(Shedding(conns[n], AvgConns(n)), conns[n])
  <2>1. /\ conns' = [conns EXCEPT ![n] = conns[n] - closed]
        /\ Rebalances(conns[n], AvgConns(n))
    BY Zenon, <1>1 DEF RebalanceNode
  <2>2. conns \in [Node -> Nat] /\ AvgConns(n) \in Nat
    BY Zenon, <1>1, AvgIsNumber DEF Cluster
  <2>3. conns[n] - closed >= AvgConns(n)
    BY Zenon, <2>1, <2>2, ShedsNoMoreThanExcess
  <2> HIDE DEF closed
  <2> QED  BY Zenon, <2>1, <2>2, <2>3
<1>2. CalmInv => [\A n \in Node : RebalanceNode(n) => conns'[n] >= AvgConns(n)]_vars
  BY Zenon, <1>1 DEF CalmInv
<1> QED  BY <1>2, CalmInvAlways, PTL DEF ShedsOnlyExcess
=============================================================================
