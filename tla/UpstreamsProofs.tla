--------------------------- MODULE UpstreamsProofs --------------------------
(***************************************************************************)
(* Proofs about Upstreams, for any connections, requests and endpoints:    *)
(* what a node gossips of its listeners (LockInv), what its load balancers *)
(* hold (ListInv), and what stays withdrawn (SessionInv).                  *)
(***************************************************************************)
EXTENDS Upstreams, SequenceTheorems, TLAPS

Thread == Conn \cup Request

(***************************************************************************)
(* The load balancers: each holds distinct upstreams of its endpoint, those*)
(* that are served or about to be removed by their handler, and among them *)
(* every upstream that is served and has an open session.                  *)
(***************************************************************************)
Has(s, v) == \E i \in 1..Len(s) : s[i] = v

Distinct(s) == \A i, j \in 1..Len(s) : s[i] = s[j] => i = j

LEMMA HasIsMember ==
    ASSUME NEW s \in Seq(Conn), NEW v
    PROVE  v \in ToSet(s) <=> Has(s, v)
BY DEF ToSet, Has

LEMMA RemoveAtElements ==
    ASSUME NEW s \in Seq(Conn), NEW i \in 1..Len(s)
    PROVE  /\ RemoveAt(s, i) \in Seq(Conn)
           /\ Len(RemoveAt(s, i)) = Len(s) - 1
           /\ \A j \in 1..(Len(s) - 1) : RemoveAt(s, i)[j] = IF j < i THEN s[j] ELSE s[j + 1]
<1> DEFINE a == SubSeq(s, 1, i - 1)
           b == SubSeq(s, i + 1, Len(s))
<1>0. Len(s) \in Nat /\ i \in Nat /\ 1 <= i /\ i <= Len(s)
  BY LenProperties
<1>1. a \in Seq(Conn) /\ Len(a) = i - 1 /\ \A j \in 1..(i - 1) : a[j] = s[j]
  BY <1>0
<1>2. b \in Seq(Conn) /\ Len(b) = Len(s) - i /\ \A j \in 1..(Len(s) - i) : b[j] = s[i + j]
  BY <1>0
<1>3. RemoveAt(s, i) = a \o b
  BY Zenon DEF RemoveAt
<1> HIDE DEF a, b
<1>4. /\ a \o b \in Seq(Conn) /\ Len(a \o b) = Len(a) + Len(b)
      /\ \A j \in 1..(Len(a) + Len(b)) : (a \o b)[j] = IF j <= Len(a) THEN a[j] ELSE b[j - Len(a)]
  BY Zenon, <1>1, <1>2, ConcatProperties
<1>5. ASSUME NEW j \in 1..(Len(s) - 1)
      PROVE  (a \o b)[j] = IF j < i THEN s[j] ELSE s[j + 1]
  <2>1. CASE j < i
    BY SMTT(30), <1>0, <1>1, <1>2, <1>4, <2>1
  <2>2. CASE ~(j < i)
    <3>1. j - (i - 1) \in 1..(Len(s) - i)
      BY <1>0, <2>2
    <3>2. (a \o b)[j] = b[j - (i - 1)]
      BY <1>0, <1>1, <1>2, <1>4, <2>2
    <3>3. i + (j - (i - 1)) = j + 1
      BY <1>0
    <3> QED  BY Zenon, <1>2, <2>2, <3>1, <3>2, <3>3
  <2> QED  BY Zenon, <2>1, <2>2
<1> QED  BY SMTT(30), <1>0, <1>1, <1>2, <1>3, <1>4, <1>5

LEMMA RemoveFirstElements ==
    ASSUME NEW s \in Seq(Conn), NEW u, Distinct(s)
    PROVE  /\ RemoveFirst(s, u) \in Seq(Conn)
           /\ Distinct(RemoveFirst(s, u))
           /\ \A v : Has(RemoveFirst(s, u), v) <=> Has(s, v) /\ v # u
           /\ Has(s, u) => Len(RemoveFirst(s, u)) = Len(s) - 1
           /\ ~Has(s, u) => RemoveFirst(s, u) = s
<1>1. CASE ~Has(s, u)
  <2>1. RemoveFirst(s, u) = s
    BY Zenon, <1>1 DEF RemoveFirst, Has
  <2>2. \A v : Has(s, v) => v # u
    BY Zenon, <1>1
  <2> QED  BY Zenon, <1>1, <2>1, <2>2
<1>2. CASE Has(s, u)
  <2>1. PICK i \in 1..Len(s) : s[i] = u
    BY Zenon, <1>2 DEF Has
  <2>2. {k \in 1..Len(s) : s[k] = u} = {i}
    BY Zenon, <2>1 DEF Distinct
  <2>3. Min({i}) = i
    BY <2>1 DEF Min
  <2>4. SelectInSeq(s, LAMBDA v : v = u) = i
    BY Zenon, <2>2, <2>3 DEF SelectInSeq
  <2>5. RemoveFirst(s, u) = RemoveAt(s, i)
    BY Zenon, <1>2, <2>4 DEF RemoveFirst, Has
  <2> DEFINE r == RemoveAt(s, i)
  <2>6. /\ r \in Seq(Conn) /\ Len(r) = Len(s) - 1
        /\ \A j \in 1..(Len(s) - 1) : r[j] = IF j < i THEN s[j] ELSE s[j + 1]
    BY Zenon, RemoveAtElements
  <2>7. Len(s) \in Nat
    BY Zenon, LenProperties
  <2> HIDE DEF r
  <2> DEFINE old(j) == IF j < i THEN j ELSE j + 1
  <2>8. \A j \in 1..Len(r) : old(j) \in 1..Len(s) /\ old(j) # i /\ r[j] = s[old(j)]
    BY <2>6, <2>7
  <2>9. \A j, k \in 1..Len(r) : old(j) = old(k) => j = k
    BY <2>6, <2>7
  <2>10. \A k \in 1..Len(s) : k # i => \E j \in 1..Len(r) : old(j) = k
    <3> SUFFICES ASSUME NEW k \in 1..Len(s), k # i PROVE \E j \in 1..Len(r) : old(j) = k
      BY Zenon
    <3>1. CASE k < i
      <4>1. k \in 1..Len(r) /\ old(k) = k
        BY <2>6, <2>7, <3>1
      <4> QED  BY Zenon, <4>1
    <3>2. CASE k > i
      <4>1. (k - 1) \in 1..Len(r) /\ old(k - 1) = k
        BY SMTT(30), <2>6, <2>7, <3>2
      <4> QED  BY Zenon, <4>1
    <3> QED  BY <2>7, <3>1, <3>2
  <2> HIDE DEF old
  <2>11. Distinct(r)
    BY Zenon, <2>8, <2>9 DEF Distinct
  <2>12. \A v : Has(r, v) <=> Has(s, v) /\ v # u
    <3>1. ASSUME NEW v, Has(r, v) PROVE Has(s, v) /\ v # u
      BY Zenon, <2>1, <2>8, <3>1 DEF Has, Distinct
    <3>2. ASSUME NEW v, Has(s, v), v # u PROVE Has(r, v)
      <4>1. PICK k \in 1..Len(s) : s[k] = v
        BY Zenon, <3>2 DEF Has
      <4>2. k # i
        BY Zenon, <2>1, <3>2, <4>1
      <4>3. PICK j \in 1..Len(r) : old(j) = k
        BY Zenon, <2>10, <4>2
      <4> QED  BY Zenon, <2>8, <4>1, <4>3 DEF Has
    <3> QED  BY Zenon, <3>1, <3>2
  <2> QED  BY ZenonT(30), <1>2, <2>5, <2>6, <2>11, <2>12 DEF r
<1> QED  BY Zenon, <1>1, <1>2

-----------------------------------------------------------------------------
Balancer == [upstreams: Seq(Conn), nextIndex: Nat]

Good(b) ==
    /\ b \in Balancer
    /\ Distinct(b.upstreams)
    /\ b = NoUpstreams \/ b.nextIndex < Len(b.upstreams)

LEMMA NoUpstreamsIsGood ==
    Good(NoUpstreams) /\ NoUpstreams.upstreams = <<>> /\ Len(NoUpstreams.upstreams) = 0
<1>1. NoUpstreams.upstreams = <<>> /\ NoUpstreams \in Balancer
  BY Zenon, EmptySeq DEF NoUpstreams, Balancer
<1>2. Distinct(<<>>) /\ Len(<<>>) = 0
  BY EmptySeq DEF Distinct
<1> QED  BY Zenon, <1>1, <1>2 DEF Good

LEMMA RemoveFromElements ==
    ASSUME NEW b, Good(b), NEW u
    PROVE  /\ Good(RemoveFrom(b, u))
           /\ \A v : Has(RemoveFrom(b, u).upstreams, v) <=> Has(b.upstreams, v) /\ v # u
           /\ Len(RemoveFrom(b, u).upstreams) >= Len(b.upstreams) - 1
<1> DEFINE s == b.upstreams
           rest == RemoveFirst(s, u)
<1>1. s \in Seq(Conn) /\ Distinct(s) /\ b.nextIndex \in Nat
  BY Zenon DEF Good, Balancer
<1>2. /\ rest \in Seq(Conn) /\ Distinct(rest)
      /\ \A v : Has(rest, v) <=> Has(s, v) /\ v # u
      /\ Has(s, u) => Len(rest) = Len(s) - 1
      /\ ~Has(s, u) => rest = s
  BY Zenon, <1>1, RemoveFirstElements
<1>3. Len(s) \in Nat /\ Len(rest) \in Nat /\ Len(rest) >= Len(s) - 1
  BY <1>1, <1>2, LenProperties
<1>4. RemoveFrom(b, u) = IF rest = <<>> THEN NoUpstreams
                         ELSE IF rest = s THEN b
                         ELSE [upstreams |-> rest, nextIndex |-> b.nextIndex % Len(rest)]
  BY Zenon DEF RemoveFrom
<1> HIDE DEF rest, s
<1>5. CASE rest = <<>>
  <2>1. RemoveFrom(b, u).upstreams = rest /\ Good(RemoveFrom(b, u))
    BY Zenon, <1>4, <1>5, NoUpstreamsIsGood
  <2> QED  BY Zenon, <1>2, <1>3, <2>1 DEF s
<1>6. CASE rest # <<>> /\ rest = s
  BY Zenon, <1>2, <1>3, <1>4, <1>6 DEF s
<1>7. CASE rest # <<>> /\ rest # s
  <2> DEFINE n == b.nextIndex % Len(rest)
  <2>1. Len(rest) > 0
    BY <1>2, <1>3, <1>7, EmptySeq
  <2>2. n \in Nat /\ n < Len(rest)
    BY <1>1, <1>3, <2>1
  <2> HIDE DEF n
  <2>3. RemoveFrom(b, u) = [upstreams |-> rest, nextIndex |-> n]
    BY Zenon, <1>4, <1>7 DEF n
  <2>4. Good(RemoveFrom(b, u)) /\ RemoveFrom(b, u).upstreams = rest
    BY <1>2, <2>2, <2>3 DEF Good, Balancer
  <2> QED  BY Zenon, <1>2, <1>3, <2>4 DEF s
<1> QED  BY Zenon, <1>5, <1>6, <1>7

LEMMA AppendElements ==
    ASSUME NEW b, Good(b), NEW u \in Conn, ~Has(b.upstreams, u)
    PROVE  LET c == [b EXCEPT !.upstreams = Append(@, u)]
           IN  /\ Good(c)
               /\ \A v : Has(c.upstreams, v) <=> Has(b.upstreams, v) \/ v = u
               /\ Len(c.upstreams) = Len(b.upstreams) + 1
<1> DEFINE s == b.upstreams
           c == [b EXCEPT !.upstreams = Append(@, u)]
           t == Append(s, u)
<1>1. s \in Seq(Conn) /\ Distinct(s) /\ b.nextIndex \in Nat
  BY Zenon DEF Good, Balancer
<1>2. c.upstreams = t /\ c.nextIndex = b.nextIndex /\ (t \in Seq(Conn) => c \in Balancer)
  BY Zenon DEF Good, Balancer
<1>3. /\ t \in Seq(Conn) /\ Len(t) = Len(s) + 1 /\ Len(s) \in Nat
      /\ \A i \in 1..Len(s) : t[i] = s[i]
      /\ t[Len(s) + 1] = u
  BY <1>1, AppendProperties, LenProperties
<1>4. b.nextIndex < Len(t)
  BY <1>1, <1>3, NoUpstreamsIsGood DEF Good, NoUpstreams
<1> HIDE DEF c, t
<1>5. \A v : Has(t, v) <=> Has(s, v) \/ v = u
  <2>1. ASSUME NEW v, Has(t, v) PROVE Has(s, v) \/ v = u
    <3>1. PICK i \in 1..(Len(s) + 1) : t[i] = v
      BY Zenon, <1>3, <2>1 DEF Has
    <3> QED  BY SMTT(30), <1>3, <3>1 DEF Has
  <2>2. ASSUME NEW v, Has(s, v) PROVE Has(t, v)
    <3>1. PICK i \in 1..Len(s) : s[i] = v
      BY Zenon, <2>2 DEF Has
    <3>2. i \in 1..Len(t)
      BY <1>3
    <3> QED  BY Zenon, <1>3, <3>1, <3>2 DEF Has
  <2>3. Has(t, u)
    <3>1. Len(s) + 1 \in 1..Len(t)
      BY <1>3
    <3> QED  BY Zenon, <1>3, <3>1 DEF Has
  <2> QED  BY Zenon, <2>1, <2>2, <2>3
<1>6. Distinct(t)
  <2> SUFFICES ASSUME NEW i \in 1..Len(t), NEW j \in 1..Len(t), t[i] = t[j] PROVE i = j
    BY Zenon DEF Distinct
  <2>1. \A k \in 1..Len(s) : s[k] # u
    BY Zenon DEF Has
  <2>2. i \in 1..Len(s) \/ i = Len(s) + 1
    BY <1>3
  <2>3. j \in 1..Len(s) \/ j = Len(s) + 1
    BY <1>3
  <2> QED  BY Zenon, <1>1, <1>3, <2>1, <2>2, <2>3 DEF Distinct
<1>7. Good(c)
  BY Zenon, <1>2, <1>3, <1>4, <1>6 DEF Good
<1> QED  BY Zenon, <1>2, <1>3, <1>5, <1>7 DEF c

-----------------------------------------------------------------------------
Lists ==
    /\ listeners \in [Endpoint -> Nat]
    /\ lb \in [Endpoint -> Balancer]
    /\ \A e \in Endpoint : Good(lb[e]) /\ listeners[e] <= Len(lb[e].upstreams)

Listed(e, v) == Has(lb[e].upstreams, v)

Held ==
    /\ \A e \in Endpoint : \A v : Listed(e, v) =>
           v \in Conn /\ endpointID[v] = e /\ pc[v] \in {"serving", "returned"}
    /\ \A u \in Conn : pc[u] = "serving" /\ session[u] = "open" => Listed(endpointID[u], u)

Using ==
    /\ request \in [Request -> {Idle} \cup [step: {"dial", "gone"}, conn: Conn]]
    /\ \A r \in Request : request[r].step # "idle" =>
           pc[request[r].conn] \notin {"new", "accepted"}
    /\ \A r \in Request : request[r].step = "gone" => session[request[r].conn] # "open"

Handlers ==
    /\ pc \in [Conn -> {"new", "accepted", "opened", "listed", "serving",
                        "returned", "unregistered", "unlisted", "closed"}]
    /\ session \in [Conn -> {"none", "open", "goaway", "closed"}]

ListInv == Handlers /\ Lists /\ Held /\ Using

LEMMA RequestFields ==
    ASSUME NEW x \in {Idle} \cup [step: {"dial", "gone"}, conn: Conn]
    PROVE  /\ x.step = "idle" <=> x = Idle
           /\ x.step # "idle" => x.conn \in Conn
           /\ Idle.step = "idle"
<1>1. Idle.step = "idle"
  BY Zenon DEF Idle
<1> HIDE DEF Idle
<1> QED  BY Zenon, <1>1

\* A step of one connection that leaves the load balancers alone.
LEMMA ConnStep ==
    ASSUME ListInv, Handlers', NEW u \in Conn,
           UNCHANGED <<lb, listeners, request>>,
           \A v \in Conn \ {u} : pc'[v] = pc[v] /\ session'[v] = session[v],
           pc[u] \in {"serving", "returned"} => pc'[u] \in {"serving", "returned"},
           pc'[u] = "serving" /\ session'[u] = "open" => pc[u] = "serving" /\ session[u] = "open",
           pc[u] \notin {"new", "accepted"} =>
               /\ pc'[u] \notin {"new", "accepted"}
               /\ session'[u] = "open" => session[u] = "open"
    PROVE  ListInv'
<1>1. Lists'
  BY Zenon DEF ListInv, Lists
<1>2. \A e, v : Listed(e, v)' <=> Listed(e, v)
  BY Zenon DEF Listed
<1>3. Held'
  BY <1>2 DEF ListInv, Held
<1>4. Using'
  <2>1. \A r \in Request : request[r].step # "idle" => request[r].conn \in Conn
    BY Zenon, RequestFields DEF ListInv, Using
  <2>2. \A r \in Request : request[r].step = "gone" => request[r].step # "idle"
    BY Zenon
  <2>3. request' = request
    BY Zenon
  <2> QED  BY <2>1, <2>2, <2>3 DEF ListInv, Using
<1> QED  BY Zenon, <1>1, <1>3, <1>4 DEF ListInv

LEMMA HandlerSteps ==
    ASSUME ListInv, NEW u \in Conn,
           \/ Accept(u) \/ Upgrade(u) \/ Reject(u) \/ AddSession(u) \/ Return(u)
           \/ RemoveSession(u) \/ Close(u) \/ GoAway(u) \/ Disconnect(u) \/ CloseShed(u)
    PROVE  ListInv'
<1>1. Handlers
  BY Zenon DEF ListInv
<1>2. CASE Accept(u)
  BY Zenon, <1>1, <1>2, ConnStep DEF Accept, Handlers
<1>3. CASE Upgrade(u)
  BY Zenon, <1>1, <1>3, ConnStep DEF Upgrade, Handlers
<1>4. CASE Reject(u)
  BY Zenon, <1>1, <1>4, ConnStep DEF Reject, Handlers
<1>5. CASE AddSession(u)
  BY Zenon, <1>1, <1>5, ConnStep DEF AddSession, Handlers
<1>6. CASE Return(u)
  BY Zenon, <1>1, <1>6, ConnStep DEF Return, Handlers
<1>7. CASE RemoveSession(u)
  BY Zenon, <1>1, <1>7, ConnStep DEF RemoveSession, Handlers
<1>8. CASE Close(u)
  BY Zenon, <1>1, <1>8, ConnStep DEF Close, Handlers
<1>9. CASE GoAway(u)
  BY Zenon, <1>1, <1>9, ConnStep DEF GoAway, Handlers
<1>10. CASE Disconnect(u)
  BY Zenon, <1>1, <1>10, ConnStep DEF Disconnect, Handlers
<1>11. CASE CloseShed(u)
  BY Zenon, <1>1, <1>11, ConnStep DEF CloseShed, Handlers
<1> QED  BY ZenonT(30), <1>2, <1>3, <1>4, <1>5, <1>6, <1>7, <1>8, <1>9, <1>10, <1>11

LEMMA AddConnLists ==
    ASSUME Lists, NEW t, NEW u \in Conn, AddConn(t, u), ~Listed(endpointID[u], u)
    PROVE  /\ Lists'
           /\ \A e \in Endpoint : \A v : Listed(e, v)' <=> Listed(e, v) \/ (v = u /\ e = endpointID[u])
<1> DEFINE e == endpointID[u]
           c == [lb[e] EXCEPT !.upstreams = Append(@, u)]
<1>1. e \in Endpoint
  BY Zenon, ConnAssumption
<1>2. lb' = [lb EXCEPT ![e] = c] /\ listeners' = [listeners EXCEPT ![e] = listeners[e] + 1]
  BY Zenon DEF AddConn
<1>3. Good(lb[e]) /\ listeners[e] \in Nat /\ listeners[e] <= Len(lb[e].upstreams)
  BY Zenon, <1>1 DEF Lists
<1>4. /\ Good(c)
      /\ \A v : Has(c.upstreams, v) <=> Has(lb[e].upstreams, v) \/ v = u
      /\ Len(c.upstreams) = Len(lb[e].upstreams) + 1
  BY Zenon, <1>3, AppendElements DEF Listed
<1>5. Len(lb[e].upstreams) \in Nat
  BY Zenon, <1>3, LenProperties DEF Good, Balancer
<1> HIDE DEF c, e
<1>6. \A f \in Endpoint : /\ lb'[f] = IF f = e THEN c ELSE lb[f]
                          /\ listeners'[f] = IF f = e THEN listeners[e] + 1 ELSE listeners[f]
  BY Zenon, <1>1, <1>2 DEF Lists
<1>7. listeners' \in [Endpoint -> Nat] /\ lb' \in [Endpoint -> Balancer]
  <2>1. listeners[e] + 1 \in Nat /\ c \in Balancer
    BY <1>3, <1>4 DEF Good
  <2> QED  BY Zenon, <1>2, <2>1 DEF Lists
<1>8. \A f \in Endpoint : Good(lb'[f]) /\ listeners'[f] <= Len(lb'[f].upstreams)
  <2> SUFFICES ASSUME NEW f \in Endpoint PROVE Good(lb'[f]) /\ listeners'[f] <= Len(lb'[f].upstreams)
    BY Zenon
  <2>1. CASE f = e
    BY SMTT(30), <1>3, <1>4, <1>5, <1>6, <2>1
  <2>2. CASE f # e
    BY Zenon, <1>6, <2>2 DEF Lists
  <2> QED  BY Zenon, <2>1, <2>2
<1>9. Lists'
  BY Zenon, <1>7, <1>8 DEF Lists
<1>10. \A f \in Endpoint : \A v : Has(lb'[f].upstreams, v) <=> Has(lb[f].upstreams, v) \/ (v = u /\ f = e)
  BY Zenon, <1>4, <1>6
<1> QED  BY Zenon, <1>9, <1>10 DEF Listed, e

LEMMA RemoveConnLists ==
    ASSUME Lists, NEW t, NEW u \in Conn, RemoveConn(t, u)
    PROVE  /\ Lists'
           /\ \A e \in Endpoint : \A v : Listed(e, v)' <=> Listed(e, v) /\ ~(v = u /\ e = endpointID[u])
<1> DEFINE e == endpointID[u]
           c == RemoveFrom(lb[e], u)
           k == IF listeners[e] = 0 THEN 0 ELSE listeners[e] - 1
<1>1. e \in Endpoint
  BY Zenon, ConnAssumption
<1>2. Good(lb[e]) /\ listeners[e] \in Nat /\ listeners[e] <= Len(lb[e].upstreams)
  BY Zenon, <1>1 DEF Lists
<1>3. CASE lb[e] = NoUpstreams
  <2>1. lb' = lb /\ listeners' = listeners
    BY Zenon, <1>3 DEF RemoveConn
  <2>2. \A v : ~Has(lb[e].upstreams, v)
    <3>1. Len(lb[e].upstreams) = 0
      BY Zenon, <1>3, NoUpstreamsIsGood
    <3> QED  BY <3>1 DEF Has
  <2> QED  BY Zenon, <2>1, <2>2 DEF Lists, Listed
<1>4. CASE lb[e] # NoUpstreams
  <2>1. lb' = [lb EXCEPT ![e] = c] /\ listeners' = [listeners EXCEPT ![e] = k]
    BY Zenon, <1>4 DEF RemoveConn
  <2>2. /\ Good(c)
        /\ \A v : Has(c.upstreams, v) <=> Has(lb[e].upstreams, v) /\ v # u
        /\ Len(c.upstreams) >= Len(lb[e].upstreams) - 1
    BY Zenon, <1>2, RemoveFromElements
  <2>3. Len(lb[e].upstreams) \in Nat /\ Len(c.upstreams) \in Nat
    BY Zenon, <1>2, <2>2, LenProperties DEF Good, Balancer
  <2>4. k \in Nat /\ k <= Len(c.upstreams)
    BY <1>2, <2>2, <2>3
  <2> HIDE DEF c, e, k
  <2>5. \A f \in Endpoint : /\ lb'[f] = IF f = e THEN c ELSE lb[f]
                            /\ listeners'[f] = IF f = e THEN k ELSE listeners[f]
    BY Zenon, <1>1, <2>1 DEF Lists
  <2>6. listeners' \in [Endpoint -> Nat] /\ lb' \in [Endpoint -> Balancer]
    BY Zenon, <2>1, <2>2, <2>4 DEF Lists, Good
  <2>7. \A f \in Endpoint : Good(lb'[f]) /\ listeners'[f] <= Len(lb'[f].upstreams)
    BY Zenon, <2>2, <2>4, <2>5 DEF Lists
  <2>8. Lists'
    BY Zenon, <2>6, <2>7 DEF Lists
  <2>9. \A f \in Endpoint : \A v : Has(lb'[f].upstreams, v) <=> Has(lb[f].upstreams, v) /\ ~(v = u /\ f = e)
    BY Zenon, <2>2, <2>5
  <2> QED  BY Zenon, <2>8, <2>9 DEF Listed, e
<1> QED  BY Zenon, <1>3, <1>4

LEMMA RegisterLists ==
    ASSUME ListInv, NEW u \in Conn, Register(u)
    PROVE  ListInv'
<1>1. /\ pc[u] = "listed" /\ pc' = [pc EXCEPT ![u] = "serving"]
      /\ AddConn(u, u) /\ session' = session /\ request' = request
  BY Zenon DEF Register
<1>2. Handlers' /\ \A v \in Conn : pc'[v] = IF v = u THEN "serving" ELSE pc[v]
  BY Zenon, <1>1 DEF ListInv, Handlers
<1>3. endpointID[u] \in Endpoint
  BY Zenon, ConnAssumption
<1>4. ~Listed(endpointID[u], u)
  BY Zenon, <1>1, <1>3 DEF ListInv, Held
<1>5. /\ Lists'
      /\ \A e \in Endpoint : \A v : Listed(e, v)' <=> Listed(e, v) \/ (v = u /\ e = endpointID[u])
  BY Zenon, <1>1, <1>4, AddConnLists DEF ListInv
<1>6. Held'
  <2>1. ASSUME NEW e \in Endpoint, NEW v, Listed(e, v)'
        PROVE  v \in Conn /\ endpointID[v] = e /\ pc'[v] \in {"serving", "returned"}
    BY <1>2, <1>5, <2>1 DEF ListInv, Held
  <2>2. ASSUME NEW v \in Conn, pc'[v] = "serving", session'[v] = "open"
        PROVE  Listed(endpointID[v], v)'
    <3>1. endpointID[v] \in Endpoint
      BY Zenon, ConnAssumption
    <3> QED  BY SMTT(30), <1>1, <1>2, <1>5, <2>2, <3>1 DEF ListInv, Held
  <2> QED  BY Zenon, <2>1, <2>2 DEF Held
<1>7. Using'
  <2>1. \A r \in Request : request[r].step # "idle" => request[r].conn \in Conn
    BY Zenon, RequestFields DEF ListInv, Using
  <2> QED  BY <1>1, <1>2, <2>1 DEF ListInv, Using
<1> QED  BY Zenon, <1>2, <1>5, <1>6, <1>7 DEF ListInv

LEMMA UnregisterLists ==
    ASSUME ListInv, NEW u \in Conn, Unregister(u)
    PROVE  ListInv'
<1>1. /\ pc[u] = "returned" /\ pc' = [pc EXCEPT ![u] = "unregistered"]
      /\ RemoveConn(u, u) /\ session' = session /\ request' = request
  BY Zenon DEF Unregister
<1>2. Handlers' /\ \A v \in Conn : pc'[v] = IF v = u THEN "unregistered" ELSE pc[v]
  BY Zenon, <1>1 DEF ListInv, Handlers
<1>3. /\ Lists'
      /\ \A e \in Endpoint : \A v : Listed(e, v)' <=> Listed(e, v) /\ ~(v = u /\ e = endpointID[u])
  BY ZenonT(30), <1>1, RemoveConnLists DEF ListInv
<1>4. Held'
  <2>1. ASSUME NEW e \in Endpoint, NEW v, Listed(e, v)'
        PROVE  v \in Conn /\ endpointID[v] = e /\ pc'[v] \in {"serving", "returned"}
    BY <1>2, <1>3, <2>1 DEF ListInv, Held
  <2>2. ASSUME NEW v \in Conn, pc'[v] = "serving", session'[v] = "open"
        PROVE  Listed(endpointID[v], v)'
    <3>1. endpointID[v] \in Endpoint
      BY Zenon, ConnAssumption
    <3> QED  BY SMTT(30), <1>1, <1>2, <1>3, <2>2, <3>1 DEF ListInv, Held
  <2> QED  BY Zenon, <2>1, <2>2 DEF Held
<1>5. Using'
  <2>1. \A r \in Request : request[r].step # "idle" => request[r].conn \in Conn
    BY Zenon, RequestFields DEF ListInv, Using
  <2> QED  BY SMTT(30), <1>1, <1>2, <2>1 DEF ListInv, Using
<1> QED  BY Zenon, <1>2, <1>3, <1>4, <1>5 DEF ListInv

LEMMA RemoveGoneLists ==
    ASSUME ListInv, NEW r \in Request, RemoveGone(r)
    PROVE  ListInv' /\ request[r].conn \in Conn
<1> DEFINE u == request[r].conn
<1>1. /\ request[r].step = "gone" /\ request' = [request EXCEPT ![r] = Idle]
      /\ RemoveConn(r, u) /\ pc' = pc /\ session' = session
  BY Zenon DEF RemoveGone
<1>2. u \in Conn /\ session[u] # "open"
  <2>1. request[r].step # "idle"
    BY Zenon, <1>1
  <2> QED  BY Zenon, <1>1, <2>1, RequestFields DEF ListInv, Using
<1> HIDE DEF u
<1>3. /\ Lists'
      /\ \A e \in Endpoint : \A v : Listed(e, v)' <=> Listed(e, v) /\ ~(v = u /\ e = endpointID[u])
  BY Zenon, <1>1, <1>2, RemoveConnLists DEF ListInv
<1>4. Held'
  <2>1. ASSUME NEW e \in Endpoint, NEW v, Listed(e, v)'
        PROVE  v \in Conn /\ endpointID[v] = e /\ pc'[v] \in {"serving", "returned"}
    BY Zenon, <1>1, <1>3, <2>1 DEF ListInv, Held
  <2>2. ASSUME NEW v \in Conn, pc'[v] = "serving", session'[v] = "open"
        PROVE  Listed(endpointID[v], v)'
    <3>1. endpointID[v] \in Endpoint
      BY Zenon, ConnAssumption
    <3>2. v # u /\ Listed(endpointID[v], v)
      BY Zenon, <1>1, <1>2, <2>2 DEF ListInv, Held
    <3> QED  BY Zenon, <1>3, <3>1, <3>2
  <2> QED  BY Zenon, <2>1, <2>2 DEF Held
<1>5. Using'
  <2>1. Idle.step = "idle"
    BY Zenon DEF Idle
  <2>2. /\ request' \in [Request -> {Idle} \cup [step: {"dial", "gone"}, conn: Conn]]
        /\ \A q \in Request : request'[q] = IF q = r THEN Idle ELSE request[q]
    BY Zenon, <1>1 DEF ListInv, Using
  <2> QED  BY Zenon, <1>1, <2>1, <2>2 DEF ListInv, Using
<1>6. Handlers'
  BY Zenon, <1>1 DEF ListInv, Handlers
<1> QED  BY ZenonT(30), <1>2, <1>3, <1>4, <1>5, <1>6 DEF ListInv, u

LEMMA SelectLists ==
    ASSUME ListInv, NEW r \in Request, NEW e \in Endpoint, Select(r, e)
    PROVE  ListInv'
<1> DEFINE s == lb[e].upstreams
           u == s[lb[e].nextIndex + 1]
           c == NextOf(lb[e])
           new == [step |-> "dial", conn |-> u]
<1>1. /\ lb[e] # NoUpstreams /\ request' = [request EXCEPT ![r] = new]
      /\ lb' = [lb EXCEPT ![e] = c]
      /\ pc' = pc /\ session' = session /\ listeners' = listeners
  BY Zenon DEF Select
<1>2. Good(lb[e])
  BY Zenon DEF ListInv, Lists
<1>3. s \in Seq(Conn) /\ lb[e].nextIndex \in Nat /\ lb[e].nextIndex < Len(s) /\ Len(s) \in Nat
  BY Zenon, <1>1, <1>2, LenProperties DEF Good, Balancer
<1>4. Has(s, u) /\ u \in Conn
  <2>1. lb[e].nextIndex + 1 \in 1..Len(s)
    BY <1>3
  <2> QED  BY <1>3, <2>1 DEF Has
<1>5. pc[u] \in {"serving", "returned"}
  BY Zenon, <1>4 DEF ListInv, Held, Listed
<1>6. Good(c) /\ c.upstreams = s
  <2> DEFINE n == (lb[e].nextIndex + 1) % Len(s)
  <2>1. n \in Nat /\ n < Len(s)
    BY <1>3
  <2> HIDE DEF n
  <2>2. c = [lb[e] EXCEPT !.nextIndex = n]
    BY Zenon DEF NextOf, n
  <2>3. c \in Balancer /\ c.upstreams = s /\ c.nextIndex = n
    BY Zenon, <1>2, <2>1, <2>2 DEF Good, Balancer
  <2> HIDE DEF c, s
  <2> QED  BY Zenon, <1>2, <2>1, <2>3 DEF Good, s
<1> HIDE DEF s, u, c
<1>7. \A f \in Endpoint : lb'[f] = IF f = e THEN c ELSE lb[f]
  BY Zenon, <1>1 DEF ListInv, Lists
<1>8. Lists' /\ \A f \in Endpoint : \A v : Listed(f, v)' <=> Listed(f, v)
  <2>1. lb' \in [Endpoint -> Balancer]
    BY Zenon, <1>1, <1>6 DEF ListInv, Lists, Good
  <2>2. \A f \in Endpoint : lb'[f].upstreams = lb[f].upstreams /\ Good(lb'[f])
    BY Zenon, <1>6, <1>7 DEF ListInv, Lists, s
  <2> QED  BY Zenon, <1>1, <2>1, <2>2 DEF ListInv, Lists, Listed
<1>9. Held'
  <2>1. \A v \in Conn : endpointID[v] \in Endpoint
    BY Zenon, ConnAssumption
  <2> QED  BY Zenon, <1>1, <1>8, <2>1 DEF ListInv, Held
<1>10. Using'
  <2>1. new \in [step: {"dial", "gone"}, conn: Conn] /\ new.step = "dial" /\ new.conn = u
    BY Zenon, <1>4
  <2> HIDE DEF new
  <2>2. /\ request' \in [Request -> {Idle} \cup [step: {"dial", "gone"}, conn: Conn]]
        /\ \A q \in Request : request'[q] = IF q = r THEN new ELSE request[q]
    BY Zenon, <1>1, <2>1 DEF ListInv, Using
  <2> QED  BY Zenon, <1>1, <1>5, <2>1, <2>2 DEF ListInv, Using
<1>11. Handlers'
  BY Zenon, <1>1 DEF ListInv, Handlers
<1> QED  BY Zenon, <1>8, <1>9, <1>10, <1>11 DEF ListInv

LEMMA DialLists ==
    ASSUME ListInv, NEW r \in Request, Dial(r)
    PROVE  ListInv'
<1> DEFINE u == request[r].conn
           new == IF session[u] = "goaway" THEN [request[r] EXCEPT !.step = "gone"] ELSE Idle
<1>1. /\ request[r].step = "dial" /\ request' = [request EXCEPT ![r] = new]
      /\ UNCHANGED <<pc, session, lb, listeners>>
  BY Zenon DEF Dial
<1>2. request[r] \in [step: {"dial", "gone"}, conn: Conn]
  BY <1>1 DEF ListInv, Using, Idle
<1>3. pc[u] \notin {"new", "accepted"}
  <2>1. request[r].step # "idle"
    BY Zenon, <1>1
  <2> QED  BY Zenon, <2>1 DEF ListInv, Using
<1>4. \/ new = Idle
      \/ /\ session[u] = "goaway" /\ new \in [step: {"dial", "gone"}, conn: Conn]
         /\ new.step = "gone" /\ new.conn = u
  BY Zenon, <1>2
<1>5. Idle.step = "idle"
  BY Zenon DEF Idle
<1> HIDE DEF new, u
<1>6. /\ request' \in [Request -> {Idle} \cup [step: {"dial", "gone"}, conn: Conn]]
      /\ \A q \in Request : request'[q] = IF q = r THEN new ELSE request[q]
  BY Zenon, <1>1, <1>4 DEF ListInv, Using
<1>7. Using'
  BY ZenonT(30), <1>1, <1>3, <1>4, <1>5, <1>6 DEF ListInv, Using
<1>8. Handlers' /\ Lists' /\ Held'
  BY Zenon, <1>1 DEF ListInv, Handlers, Lists, Held, Listed
<1> QED  BY Zenon, <1>7, <1>8 DEF ListInv

LEMMA ListFrame ==
    ASSUME ListInv, UNCHANGED <<pc, session, lb, listeners, request>>
    PROVE  ListInv'
BY Zenon DEF ListInv, Handlers, Lists, Held, Listed, Using

LEMMA ListInvInductive ==
    Spec => []ListInv
<1>1. Init => ListInv
  <2> SUFFICES ASSUME Init PROVE ListInv
    BY Zenon
  <2>1. \A e \in Endpoint : lb[e] = NoUpstreams
    BY Zenon DEF Init
  <2>2. Lists
    BY <2>1, NoUpstreamsIsGood DEF Init, Lists, Good
  <2>3. \A e \in Endpoint : \A v : ~Listed(e, v)
    BY <2>1, NoUpstreamsIsGood DEF Listed, Has
  <2>4. Held
    BY Zenon, <2>3 DEF Init, Held
  <2>5. Using
    BY Zenon DEF Init, Using, Idle
  <2>6. Handlers
    BY Zenon DEF Init, Handlers
  <2> QED  BY Zenon, <2>2, <2>4, <2>5, <2>6 DEF ListInv
<1>2. ASSUME ListInv, [Next]_vars
      PROVE  ListInv'
  <2>1. CASE UNCHANGED vars
    BY Zenon, <1>2, <2>1, ListFrame DEF vars
  <2>2. ASSUME NEW u \in Conn, Accept(u) \/ Handler(u) \/ GoAway(u) \/ Disconnect(u) \/ CloseShed(u)
        PROVE  ListInv'
    BY Zenon, <1>2, <2>2, HandlerSteps, RegisterLists, UnregisterLists DEF Handler
  <2>3. ASSUME NEW r \in Request, (\E e \in Endpoint : Select(r, e)) \/ Dial(r) \/ RemoveGone(r)
        PROVE  ListInv'
    BY Zenon, <1>2, <2>3, SelectLists, DialLists, RemoveGoneLists
  <2>4. ASSUME NEW t \in Conn \cup Request, ReadListeners(t) \/ Publish(t) \/ Gossip(t)
        PROVE  ListInv'
    BY Zenon, <1>2, <2>4, ListFrame DEF ReadListeners, Publish, Gossip, others
  <2>5. GossipDone \/ Shed \/ Shutdown => ListInv'
    BY Zenon, <1>2, ListFrame DEF GossipDone, Shed, Shutdown, others
  <2> QED  BY ZenonT(30), <1>2, <2>1, <2>2, <2>3, <2>4, <2>5 DEF Next
<1> QED  BY <1>1, <1>2, PTL DEF Spec

\* Select always finds an upstream at the index of a load balancer: adding and
\* removing upstreams in any order leaves nextIndex in range.
THEOREM IndexStaysInRange ==
    Spec => []IndexInRange
<1>1. ListInv => IndexInRange
  BY Zenon DEF ListInv, Lists, Good, IndexInRange
<1> QED  BY <1>1, ListInvInductive, PTL

\* No interleaving of handlers and requests that remove an upstream counts a
\* listener for which the node has no upstream.
THEOREM ListenersNeverOvercount ==
    Spec => []NeverOvercounts
<1>1. ListInv => NeverOvercounts
  BY Zenon DEF ListInv, Lists, NeverOvercounts
<1> QED  BY <1>1, ListInvInductive, PTL

\* The upstreams that can be selected are those being served: RemoveConn by a
\* request that found a session gone removes no other upstream, and one whose
\* handler unregistered it does not come back.
THEOREM SelectedAreServing ==
    Spec => []OnlyServingSelected
<1>1. ListInv => OnlyServingSelected
  <2> SUFFICES ASSUME ListInv, NEW u \in Conn
               PROVE  LET listed == u \in ToSet(lb[endpointID[u]].upstreams)
                      IN  /\ listed => pc[u] \in {"serving", "returned"}
                          /\ pc[u] = "serving" /\ session[u] = "open" => listed
    BY Zenon DEF OnlyServingSelected
  <2>1. endpointID[u] \in Endpoint
    BY Zenon, ConnAssumption
  <2>2. lb[endpointID[u]].upstreams \in Seq(Conn)
    BY Zenon, <2>1 DEF ListInv, Lists, Balancer
  <2>3. u \in ToSet(lb[endpointID[u]].upstreams) <=> Listed(endpointID[u], u)
    BY Zenon, <2>2, HasIsMember DEF Listed
  <2> QED  BY Zenon, <2>1, <2>3 DEF ListInv, Held
<1> QED  BY <1>1, ListInvInductive, PTL

-----------------------------------------------------------------------------
(***************************************************************************)
(* The locks: whoever is between AddConn's update of the listeners and its *)
(* publication holds manager.mu, and only its endpoint may be out of date. *)
(***************************************************************************)
Update ==
    {NoUpdate}
      \cup [at: {"read"}, endpoint: Endpoint]
      \cup [at: {"publish"}, endpoint: Endpoint, count: Nat]

Busy(t) == update[t].at # "none"

LockInv ==
    /\ listeners \in [Endpoint -> Nat]
    /\ published \in [Endpoint -> Nat]
    /\ update \in [Thread -> Update]
    /\ mu \in {Nobody} \cup {By(t) : t \in Thread}
    /\ \A t \in Thread : Busy(t) <=> mu = By(t)
    /\ \A t \in Thread : update[t].at = "publish" =>
           update[t].count = listeners[update[t].endpoint]
    /\ \A e \in Endpoint :
           \/ published[e] = listeners[e]
           \/ \E t \in Thread : Busy(t) /\ update[t].endpoint = e

LEMMA HolderIsOne ==
    /\ \A t, s : By(t) = By(s) => t = s
    /\ \A t : By(t) # Nobody
<1>1. \A t : By(t).holder = {t}
  BY Zenon DEF By
<1>2. Nobody.holder = {}
  BY Zenon DEF Nobody
<1>3. \A t, s : By(t) = By(s) => t = s
  <2> SUFFICES ASSUME NEW t, NEW s, By(t) = By(s) PROVE t = s
    BY Zenon
  <2>1. {t} = {s}
    BY Zenon, <1>1
  <2> QED  BY Zenon, <2>1
<1>4. \A t : By(t) # Nobody
  <2> SUFFICES ASSUME NEW t, By(t) = Nobody PROVE FALSE
    BY Zenon
  <2>1. {t} = {}
    BY Zenon, <1>1, <1>2
  <2> QED  BY Zenon, <2>1
<1> QED  BY Zenon, <1>3, <1>4

LEMMA UpdateFields ==
    ASSUME NEW x \in Update
    PROVE  /\ x.at \in {"none", "read", "publish"}
           /\ x.at = "none" <=> x = NoUpdate
           /\ x.at # "none" => x.endpoint \in Endpoint
           /\ x.at = "publish" => x.count \in Nat
           /\ NoUpdate.at = "none"
<1>1. NoUpdate.at = "none"
  BY Zenon DEF NoUpdate
<1> HIDE DEF NoUpdate
<1> QED  BY Zenon, <1>1 DEF Update

\* Steps that leave the locks and listeners alone.
LEMMA LockFrame ==
    ASSUME LockInv, UNCHANGED <<listeners, published, mu, update>>
    PROVE  LockInv'
BY Zenon DEF LockInv, Busy

\* AddConn, or RemoveConn that finds a listener: t changes the listeners of e.
LEMMA NotifyLocks ==
    ASSUME LockInv, NEW t \in Thread, NEW e \in Endpoint, NEW k \in Nat,
           Notify(t, e), listeners' = [listeners EXCEPT ![e] = k]
    PROVE  LockInv'
<1> DEFINE new == [at |-> "read", endpoint |-> e]
<1>1. /\ mu = Nobody /\ mu' = By(t) /\ published' = published
      /\ update' = [update EXCEPT ![t] = new]
  BY Zenon DEF Notify
<1>2. new \in Update /\ new.at = "read" /\ new.endpoint = e
  BY Zenon DEF Update
<1> HIDE DEF new
<1>3. \A s \in Thread : ~Busy(s)
  BY Zenon, <1>1, HolderIsOne DEF LockInv
<1>4. update' \in [Thread -> Update] /\ listeners' \in [Endpoint -> Nat]
  BY Zenon, <1>1, <1>2 DEF LockInv
<1>5. \A s \in Thread : update'[s] = IF s = t THEN new ELSE update[s]
  BY Zenon, <1>1 DEF LockInv
<1>6. \A s \in Thread : Busy(s)' <=> s = t
  BY Zenon, <1>2, <1>3, <1>5 DEF Busy
<1>7. \A s \in Thread : update'[s].at # "publish"
  BY Zenon, <1>2, <1>3, <1>5 DEF Busy
<1>8. ASSUME NEW f \in Endpoint
      PROVE  published'[f] = listeners'[f] \/ \E s \in Thread : Busy(s)' /\ update'[s].endpoint = f
  <2>1. CASE f = e
    BY Zenon, <1>2, <1>5, <1>6, <2>1
  <2>2. CASE f # e
    <3>1. published[f] = listeners[f]
      BY Zenon, <1>3 DEF LockInv
    <3>2. listeners'[f] = listeners[f]
      BY Zenon, <2>2 DEF LockInv
    <3> QED  BY Zenon, <1>1, <3>1, <3>2
  <2> QED  BY Zenon, <2>1, <2>2
<1>9. published' \in [Endpoint -> Nat]
  BY Zenon, <1>1 DEF LockInv
<1>10. \A s \in Thread : Busy(s)' <=> mu' = By(s)
  BY Zenon, <1>1, <1>6, HolderIsOne
<1> QED  BY SMTT(30), <1>1, <1>4, <1>7, <1>8, <1>9, <1>10 DEF LockInv

LEMMA AddConnLocks ==
    ASSUME LockInv, NEW t \in Thread, NEW u \in Conn, AddConn(t, u)
    PROVE  LockInv'
<1>1. endpointID[u] \in Endpoint
  BY Zenon, ConnAssumption
<1>2. listeners[endpointID[u]] + 1 \in Nat
  BY <1>1 DEF LockInv
<1>3. Notify(t, endpointID[u]) /\ listeners' = [listeners EXCEPT ![endpointID[u]] = listeners[endpointID[u]] + 1]
  BY Zenon DEF AddConn
<1> QED  BY Zenon, <1>1, <1>2, <1>3, NotifyLocks

LEMMA RemoveConnLocks ==
    ASSUME LockInv, NEW t \in Thread, NEW u \in Conn, RemoveConn(t, u)
    PROVE  LockInv'
<1> DEFINE e == endpointID[u]
           k == IF listeners[e] = 0 THEN 0 ELSE listeners[e] - 1
<1>1. e \in Endpoint
  BY Zenon, ConnAssumption
<1>2. listeners[e] \in Nat /\ k \in Nat
  BY <1>1 DEF LockInv
<1>3. \/ UNCHANGED <<listeners, published, mu, update>>
      \/ Notify(t, e) /\ listeners' = [listeners EXCEPT ![e] = k]
      \/ /\ listeners[e] = 0 /\ listeners' = [listeners EXCEPT ![e] = k]
         /\ UNCHANGED <<published, mu, update>>
  BY <1>2 DEF RemoveConn, locks
<1>4. listeners[e] = 0 => [listeners EXCEPT ![e] = k] = listeners
  BY Zenon, <1>1 DEF LockInv
<1> QED  BY ZenonT(30), <1>1, <1>2, <1>3, <1>4, LockFrame, NotifyLocks

LEMMA ReadListenersLocks ==
    ASSUME LockInv, NEW t \in Thread, ReadListeners(t)
    PROVE  LockInv'
<1> DEFINE e == update[t].endpoint
           new == [at |-> "publish", endpoint |-> e, count |-> listeners[e]]
<1>1. /\ update[t].at = "read" /\ update' = [update EXCEPT ![t] = new]
      /\ UNCHANGED <<listeners, published, mu>>
  BY Zenon DEF ReadListeners, others
<1>2. update[t] \in Update /\ e \in Endpoint
  <2>1. update[t] \in Update
    BY Zenon DEF LockInv
  <2>2. update[t].at # "none"
    BY Zenon, <1>1
  <2> QED  BY Zenon, <2>1, <2>2, UpdateFields
<1>3. listeners[e] \in Nat
  BY Zenon, <1>2 DEF LockInv
<1>4. new \in Update /\ new.at = "publish" /\ new.endpoint = e /\ new.count = listeners[e]
  BY Zenon, <1>2, <1>3 DEF Update
<1> HIDE DEF new, e
<1>5. \A s \in Thread : update'[s] = IF s = t THEN new ELSE update[s]
  BY Zenon, <1>1 DEF LockInv
<1>6. \A s \in Thread : /\ Busy(s)' <=> Busy(s)
                        /\ Busy(s) => update'[s].endpoint = update[s].endpoint
  BY Zenon, <1>1, <1>4, <1>5 DEF Busy, e
<1>7. \A s \in Thread : update'[s].at = "publish" => update'[s].count = listeners'[update'[s].endpoint]
  BY Zenon, <1>1, <1>4, <1>5 DEF LockInv
<1>8. update' \in [Thread -> Update]
  BY Zenon, <1>1, <1>4 DEF LockInv
<1>9. \A f \in Endpoint : published'[f] = listeners'[f] \/ \E s \in Thread : Busy(s)' /\ update'[s].endpoint = f
  BY Zenon, <1>1, <1>6 DEF LockInv
<1> QED  BY ZenonT(30), <1>1, <1>6, <1>7, <1>8, <1>9 DEF LockInv

LEMMA PublishLocks ==
    ASSUME LockInv, NEW t \in Thread, Publish(t)
    PROVE  LockInv'
<1> DEFINE e == update[t].endpoint
<1>1. /\ update[t].at = "publish" /\ update' = [update EXCEPT ![t] = NoUpdate]
      /\ published' = [published EXCEPT ![e] = update[t].count]
      /\ mu' = Nobody /\ listeners' = listeners
  BY Zenon DEF Publish, others
<1>2. update[t] \in Update /\ e \in Endpoint /\ update[t].count \in Nat
  <2>1. update[t] \in Update
    BY Zenon DEF LockInv
  <2>2. update[t].at # "none"
    BY Zenon, <1>1
  <2> QED  BY ZenonT(30), <1>1, <2>1, <2>2, UpdateFields
<1>3. update[t].count = listeners[e]
  BY Zenon, <1>1 DEF LockInv
<1> HIDE DEF e
<1>4. \A s \in Thread : Busy(s) => s = t
  <2>1. mu = By(t)
    BY Zenon, <1>1 DEF LockInv, Busy
  <2> QED  BY Zenon, <2>1, HolderIsOne DEF LockInv
<1>5. NoUpdate.at = "none" /\ NoUpdate \in Update
  BY Zenon DEF NoUpdate, Update
<1>6. update' \in [Thread -> Update] /\ \A s \in Thread : update'[s] = IF s = t THEN NoUpdate ELSE update[s]
  BY Zenon, <1>1, <1>5 DEF LockInv
<1>7. \A s \in Thread : ~Busy(s)'
  BY Zenon, <1>4, <1>5, <1>6 DEF Busy
<1>8. \A s \in Thread : update'[s].at # "publish"
  BY Zenon, <1>7 DEF Busy
<1>9. \A f \in Endpoint : published'[f] = listeners'[f]
  <2> SUFFICES ASSUME NEW f \in Endpoint PROVE published'[f] = listeners'[f]
    BY Zenon
  <2>1. CASE f = e
    BY Zenon, <1>1, <1>3, <2>1 DEF LockInv
  <2>2. CASE f # e
    <3>1. published[f] = listeners[f]
      BY Zenon, <1>4, <2>2 DEF LockInv, e
    <3> QED  BY Zenon, <1>1, <2>2, <3>1 DEF LockInv
  <2> QED  BY Zenon, <2>1, <2>2
<1>10. published' \in [Endpoint -> Nat] /\ listeners' \in [Endpoint -> Nat]
  BY Zenon, <1>1, <1>2 DEF LockInv
<1> QED  BY ZenonT(30), <1>1, <1>6, <1>7, <1>8, <1>9, <1>10, HolderIsOne DEF LockInv

\* What each action does to the variables of LockInv.
LEMMA LockActions ==
    ASSUME Next
    PROVE  \/ UNCHANGED <<listeners, published, mu, update>>
           \/ \E u \in Conn : AddConn(u, u) \/ RemoveConn(u, u)
           \/ \E r \in Request : request[r].step = "gone" /\ RemoveConn(r, request[r].conn)
           \/ \E t \in Thread : ReadListeners(t) \/ Publish(t)
<1>1. ASSUME NEW u \in Conn, Accept(u) \/ GoAway(u) \/ Disconnect(u) \/ CloseShed(u)
      PROVE  UNCHANGED <<listeners, published, mu, update>>
  BY Zenon, <1>1 DEF Accept, GoAway, Disconnect, CloseShed, locks
<1>2. ASSUME NEW u \in Conn, Handler(u)
      PROVE  UNCHANGED <<listeners, published, mu, update>> \/ AddConn(u, u) \/ RemoveConn(u, u)
  BY Zenon, <1>2 DEF Handler, Upgrade, Reject, AddSession, Register, Return, Unregister, RemoveSession,
              Close, locks
<1>3. ASSUME NEW r \in Request, NEW e \in Endpoint, Select(r, e)
      PROVE  UNCHANGED <<listeners, published, mu, update>>
  BY Zenon, <1>3 DEF Select, locks
<1>4. ASSUME NEW r \in Request, Dial(r)
      PROVE  UNCHANGED <<listeners, published, mu, update>>
  BY Zenon, <1>4 DEF Dial, locks
<1>5. ASSUME NEW r \in Request, RemoveGone(r)
      PROVE  request[r].step = "gone" /\ RemoveConn(r, request[r].conn)
  BY Zenon, <1>5 DEF RemoveGone
<1>6. ASSUME NEW t \in Thread, Gossip(t)
      PROVE  UNCHANGED <<listeners, published, mu, update>>
  BY Zenon, <1>6 DEF Gossip, others
<1>7. GossipDone \/ Shed \/ Shutdown => UNCHANGED <<listeners, published, mu, update>>
  BY Zenon DEF GossipDone, Shed, Shutdown, locks, others
<1> QED  BY ZenonT(30), <1>1, <1>2, <1>3, <1>4, <1>5, <1>6, <1>7 DEF Next, Thread

LEMMA LockInvInductive ==
    Spec => []LockInv
<1>1. Init => LockInv
  <2> SUFFICES ASSUME Init PROVE LockInv
    BY Zenon
  <2>1. NoUpdate \in Update /\ NoUpdate.at = "none"
    BY Zenon DEF Update, NoUpdate
  <2>2. \A t \in Thread : update[t] = NoUpdate
    BY Zenon DEF Init, Thread
  <2>3. update \in [Thread -> Update]
    BY Zenon, <2>1 DEF Init, Thread
  <2> QED  BY ZenonT(30), <2>1, <2>2, <2>3, HolderIsOne DEF Init, LockInv, Busy
<1>2. ASSUME LockInv, ListInv, [Next]_vars
      PROVE  LockInv'
  <2>1. CASE UNCHANGED vars
    BY Zenon, <1>2, <2>1, LockFrame DEF vars, locks
  <2>2. CASE Next
    <3>1. ASSUME NEW u \in Conn, AddConn(u, u) \/ RemoveConn(u, u)
          PROVE  LockInv'
      BY Zenon, <1>2, <3>1, AddConnLocks, RemoveConnLocks DEF Thread
    <3>2. ASSUME NEW r \in Request, request[r].step = "gone", RemoveConn(r, request[r].conn)
          PROVE  LockInv'
      <4>1. request[r].step # "idle"
        BY Zenon, <3>2
      <4>2. request[r].conn \in Conn
        BY Zenon, <1>2, <4>1, RequestFields DEF ListInv, Using
      <4> QED  BY Zenon, <1>2, <3>2, <4>2, RemoveConnLocks DEF Thread
    <3>3. ASSUME NEW t \in Thread, ReadListeners(t) \/ Publish(t)
          PROVE  LockInv'
      BY ZenonT(30), <1>2, <3>3, ReadListenersLocks, PublishLocks
    <3> QED  BY ZenonT(30), <1>2, <2>2, <3>1, <3>2, <3>3, LockActions, LockFrame
  <2> QED  BY Zenon, <1>2, <2>1, <2>2
<1> QED  BY <1>1, <1>2, ListInvInductive, PTL DEF Spec

\* The node gossips the listeners it has whenever no AddConn or RemoveConn is
\* under way, for any number of connections and requests: manager.mu keeps two
\* updates from publishing their counts in the wrong order.
THEOREM PublishedStaysCurrent ==
    Spec => []PublishedIsCurrent
<1>1. LockInv => PublishedIsCurrent
  <2> SUFFICES ASSUME LockInv, \A t \in Conn \cup Request : update[t] = NoUpdate
               PROVE  published = listeners
    BY Zenon DEF PublishedIsCurrent
  <2>1. \A t \in Thread : ~Busy(t)
    BY DEF Busy, NoUpdate, Thread
  <2>2. \A e \in Endpoint : published[e] = listeners[e]
    BY Zenon, <2>1 DEF LockInv
  <2> QED  BY <2>2 DEF LockInv
<1> QED  BY <1>1, LockInvInductive, PTL

-----------------------------------------------------------------------------
(***************************************************************************)
(* Types: with the lists and the locks, what is left of the state.         *)
(***************************************************************************)
RestInv ==
    /\ sessions \subseteq Conn
    /\ shedding \subseteq Conn
    /\ phase \in {"running", "shutdown"}
    /\ gossiping \in BOOLEAN

LEMMA RestInvInductive == Spec => []RestInv
<1>1. Init => RestInv
  BY Zenon DEF Init, RestInv
<1>2. ASSUME RestInv, [Next]_vars
      PROVE  RestInv'
  <2> USE <1>2 DEF RestInv
  <2>1. CASE UNCHANGED vars
    BY Zenon, <2>1 DEF vars, locks
  <2>2. ASSUME NEW u \in Conn, Accept(u) \/ GoAway(u) \/ Disconnect(u) \/ CloseShed(u)
        PROVE  RestInv'
    BY Zenon, <2>2 DEF Accept, GoAway, Disconnect, CloseShed, locks
  <2>3. ASSUME NEW u \in Conn, Upgrade(u) \/ Reject(u) \/ AddSession(u) \/ Return(u)
                                 \/ RemoveSession(u) \/ Close(u)
        PROVE  RestInv'
    BY Zenon, <2>3 DEF Upgrade, Reject, AddSession, Return, RemoveSession, Close, locks
  <2>4. ASSUME NEW u \in Conn, Register(u) \/ Unregister(u)
        PROVE  RestInv'
    BY Zenon, <2>4 DEF Register, Unregister, AddConn, RemoveConn, Notify, locks
  <2>5. ASSUME NEW r \in Request, (\E e \in Endpoint : Select(r, e)) \/ Dial(r) \/ RemoveGone(r)
        PROVE  RestInv'
    BY Zenon, <2>5 DEF Select, Dial, RemoveGone, RemoveConn, Notify, locks
  <2>6. ASSUME NEW t \in Conn \cup Request, ReadListeners(t) \/ Publish(t) \/ Gossip(t)
        PROVE  RestInv'
    BY Zenon, <2>6 DEF ReadListeners, Publish, Gossip, others
  <2>7. GossipDone \/ Shed \/ Shutdown => RestInv'
    BY Zenon DEF GossipDone, Shed, Shutdown, locks, others
  <2> QED  BY ZenonT(30), <2>1, <2>2, <2>3, <2>4, <2>5, <2>6, <2>7 DEF Next, Handler
<1> QED  BY <1>1, <1>2, PTL DEF Spec

\* The state keeps its types however handlers, requests, rebalancing and
\* shutdown interleave: in particular manager.mu is held by exactly the one
\* that is within AddConn or RemoveConn, and no count becomes negative.
THEOREM TypesHold ==
    Spec => []TypeOK
<1>1. ListInv /\ LockInv /\ RestInv => TypeOK
  <2> SUFFICES ASSUME ListInv, LockInv, RestInv PROVE TypeOK
    BY Zenon
  <2>1. \A e \in Endpoint : lb[e].upstreams \in Seq(Conn) /\ lb[e].nextIndex \in Nat
    BY Zenon DEF ListInv, Lists, Balancer
  <2>2. \A t \in Conn \cup Request : mu = By(t) <=> update[t] # NoUpdate
    BY Zenon, UpdateFields DEF LockInv, Busy, Thread
  <2>3. \A r \in Request : request[r] = Idle \/
            (request[r].step \in {"dial", "gone"} /\ request[r].conn \in Conn)
    BY Zenon DEF ListInv, Using
  <2> QED
    BY Zenon, <2>1, <2>2, <2>3 DEF TypeOK, ListInv, LockInv, RestInv, Handlers, Thread
<1> QED  BY <1>1, ListInvInductive, LockInvInductive, RestInvInductive, PTL

-----------------------------------------------------------------------------
(***************************************************************************)
(* Round robin: the upstreams selected in the current round are the last k *)
(* before nextIndex, going round, and k is less than all.                  *)
(***************************************************************************)

\* How many selections ago index j was next, when i is next of n.
Ago(j, i, n) == IF j < i THEN i - j ELSE i - j + n

Recent(b, k) == {b.upstreams[j + 1] : j \in {j \in 0..(Len(b.upstreams) - 1) :
                                              Ago(j, b.nextIndex, Len(b.upstreams)) <= k}}

Rounds == \A e \in Endpoint :
    \E k \in Nat : /\ turn[e] = Recent(lb[e], k)
                   /\ k = 0 \/ k < Len(lb[e].upstreams)

TurnInv == turn \in [Endpoint -> SUBSET Conn] /\ Rounds

\* A round that starts has selected nothing.
LEMMA NothingRecent ==
    ASSUME NEW b, Good(b)
    PROVE  Recent(b, 0) = {}
<1>1. Len(b.upstreams) \in Nat /\ b.nextIndex \in Nat
  BY Zenon, LenProperties DEF Good, Balancer
<1>2. b.upstreams # <<>> => b.nextIndex < Len(b.upstreams)
  BY Zenon, NoUpstreamsIsGood DEF Good
<1>3. \A j \in 0..(Len(b.upstreams) - 1) : Ago(j, b.nextIndex, Len(b.upstreams)) > 0
  <2> SUFFICES ASSUME NEW j \in 0..(Len(b.upstreams) - 1)
               PROVE  Ago(j, b.nextIndex, Len(b.upstreams)) > 0
    BY Zenon
  <2> QED  BY <1>1, <1>2, EmptySeq DEF Ago
<1>4. \A j \in 0..(Len(b.upstreams) - 1) : Ago(j, b.nextIndex, Len(b.upstreams)) \in Int
  BY <1>1 DEF Ago
<1> QED  BY <1>3, <1>4 DEF Recent

\* Next selects an upstream that is not recent, which is then the most recent.
LEMMA NextIsRecent ==
    ASSUME NEW b, Good(b), b # NoUpstreams, NEW k \in Nat, k < Len(b.upstreams)
    PROVE  LET u == b.upstreams[b.nextIndex + 1]
           IN  /\ u \notin Recent(b, k)
               /\ Recent(NextOf(b), k + 1) = Recent(b, k) \cup {u}
               /\ k + 1 = Len(b.upstreams) => Recent(b, k) \cup {u} = ToSet(b.upstreams)
<1> DEFINE s == b.upstreams
           n == Len(s)
           i == b.nextIndex
           c == NextOf(b)
           u == s[i + 1]
           next == (i + 1) % n
<1>1. s \in Seq(Conn) /\ n \in Nat /\ i \in Nat /\ i < n /\ Distinct(s)
  BY Zenon, LenProperties DEF Good, Balancer
<1>2. next = IF i + 1 = n THEN 0 ELSE i + 1
  <2>1. CASE i + 1 = n
    BY <1>1, <2>1
  <2>2. CASE i + 1 < n
    BY <1>1, <2>2
  <2> QED  BY SMTT(30), <1>1, <2>1, <2>2
<1>3. c.upstreams = s /\ c.nextIndex = next
  BY Zenon DEF NextOf, Good, Balancer
<1> HIDE DEF c, next, s, n, i
<1>4. \A j \in 0..(n - 1) :
          /\ Ago(j, i, n) \in 1..n
          /\ Ago(j, i, n) = n <=> j = i
          /\ Ago(j, next, n) = IF j = i THEN 1 ELSE Ago(j, i, n) + 1
  BY <1>1, <1>2 DEF Ago
<1>5. \A m : Recent(b, m) = {s[j + 1] : j \in {j \in 0..(n - 1) : Ago(j, i, n) <= m}}
  BY Zenon DEF Recent, s, n, i
<1>6. \A m : Recent(c, m) = {s[j + 1] : j \in {j \in 0..(n - 1) : Ago(j, next, n) <= m}}
  BY Zenon, <1>3 DEF Recent, n
<1>7. i \in 0..(n - 1)
  BY <1>1
<1>8. u \notin Recent(b, k)
  <2> SUFFICES ASSUME NEW j \in 0..(n - 1), Ago(j, i, n) <= k, u = s[j + 1] PROVE FALSE
    BY Zenon, <1>5
  <2>1. j = i
    <3>1. i + 1 \in 1..Len(s) /\ j + 1 \in 1..Len(s)
      BY <1>1 DEF n
    <3>2. i + 1 = j + 1
      BY Zenon, <1>1, <3>1 DEF Distinct
    <3> QED  BY <1>1, <3>2
  <2> QED  BY <1>1, <1>4, <2>1 DEF n, s
<1>9. Recent(c, k + 1) = Recent(b, k) \cup {u}
  <2>1. ASSUME NEW v \in Recent(c, k + 1) PROVE v \in Recent(b, k) \cup {u}
    <3>1. PICK j \in 0..(n - 1) : Ago(j, next, n) <= k + 1 /\ v = s[j + 1]
      BY Zenon, <1>6
    <3>2. j = i \/ Ago(j, i, n) <= k
      BY SMTT(30), <1>1, <1>4, <3>1
    <3> QED  BY Zenon, <1>5, <3>1, <3>2
  <2>2. ASSUME NEW v \in Recent(b, k) PROVE v \in Recent(c, k + 1)
    <3>1. PICK j \in 0..(n - 1) : Ago(j, i, n) <= k /\ v = s[j + 1]
      BY Zenon, <1>5
    <3>2. Ago(j, next, n) <= k + 1
      BY SMTT(30), <1>1, <1>4, <3>1
    <3> QED  BY ZenonT(30), <1>6, <3>1, <3>2
  <2>3. u \in Recent(c, k + 1)
    <3>1. Ago(i, next, n) <= k + 1
      BY <1>4, <1>7
    <3> QED  BY ZenonT(30), <1>6, <1>7, <3>1
  <2> QED  BY Zenon, <2>1, <2>2, <2>3
<1>10. k + 1 = n => Recent(b, k) \cup {u} = ToSet(s)
  <2> SUFFICES ASSUME k + 1 = n PROVE Recent(b, k) \cup {u} = ToSet(s)
    BY Zenon
  <2>1. ToSet(s) = {s[j + 1] : j \in 0..(n - 1)}
    <3>1. ToSet(s) = {s[j] : j \in 1..n}
      BY <1>1 DEF ToSet, n
    <3>2. \A j \in 1..n : j - 1 \in 0..(n - 1) /\ (j - 1) + 1 = j
      BY <1>1
    <3>3. \A j \in 0..(n - 1) : j + 1 \in 1..n
      BY <1>1
    <3> QED  BY ZenonT(30), <3>1, <3>2, <3>3
  <2>2. \A j \in 0..(n - 1) : j = i \/ Ago(j, i, n) <= k
    BY <1>1, <1>4
  <2> QED  BY ZenonT(30), <1>5, <1>7, <2>1, <2>2
<1> QED  BY Zenon, <1>8, <1>9, <1>10 DEF c, s, n, i

\* A round goes on, or starts again.
LEMMA TurnStep ==
    ASSUME TurnInv, ListInv', turn' \in [Endpoint -> SUBSET Conn],
           \A e \in Endpoint : \/ turn'[e] = turn[e] /\ lb'[e] = lb[e]
                              \/ turn'[e] = {}
    PROVE  TurnInv'
<1> SUFFICES ASSUME NEW e \in Endpoint
             PROVE  \E k \in Nat : /\ turn'[e] = Recent(lb'[e], k)
                                   /\ k = 0 \/ k < Len(lb'[e].upstreams)
  BY Zenon DEF TurnInv, Rounds
<1>1. CASE turn'[e] = turn[e] /\ lb'[e] = lb[e]
  BY Zenon, <1>1 DEF TurnInv, Rounds
<1>2. CASE turn'[e] = {}
  <2>1. Good(lb'[e])
    BY Zenon DEF ListInv, Lists
  <2>2. Recent(lb'[e], 0) = {}
    BY Zenon, <2>1, NothingRecent
  <2> QED  BY ZenonT(30), <1>2, <2>2
<1> QED  BY Zenon, <1>1, <1>2

LEMMA ChangeTurns ==
    ASSUME TurnInv, ListInv, ListInv', NEW t, NEW u \in Conn, AddConn(t, u) \/ RemoveConn(t, u)
    PROVE  TurnInv'
<1>1. endpointID[u] \in Endpoint
  BY Zenon, ConnAssumption
<1>2. lb \in [Endpoint -> Balancer] /\ turn \in [Endpoint -> SUBSET Conn]
  BY Zenon DEF ListInv, Lists, TurnInv
<1>3. CASE AddConn(t, u)
  BY ZenonT(30), <1>1, <1>2, <1>3, TurnStep DEF AddConn
<1>4. CASE RemoveConn(t, u)
  BY Zenon, <1>1, <1>2, <1>4, TurnStep DEF RemoveConn
<1> QED  BY Zenon, <1>3, <1>4

LEMMA SelectTurns ==
    ASSUME TurnInv, ListInv, ListInv', NEW r \in Request, NEW e \in Endpoint, Select(r, e)
    PROVE  /\ TurnInv'
           /\ request'[r].conn \notin turn[endpointID[request'[r].conn]]
           /\ \A q \in Request : q # r => request'[q] = request[q]
<1> DEFINE b == lb[e]
           u == b.upstreams[b.nextIndex + 1]
           round == turn[e] \cup {u}
<1>1. Good(b) /\ b # NoUpstreams /\ lb \in [Endpoint -> Balancer]
  BY Zenon DEF Select, ListInv, Lists
<1>2. /\ b.upstreams \in Seq(Conn) /\ Len(b.upstreams) \in Nat
      /\ b.nextIndex + 1 \in 1..Len(b.upstreams)
  BY <1>1, LenProperties DEF Good, Balancer
<1>3. PICK k \in Nat : turn[e] = Recent(b, k) /\ (k = 0 \/ k < Len(b.upstreams))
  BY Zenon DEF TurnInv, Rounds
<1>4. k < Len(b.upstreams)
  BY SMTT(30), <1>2, <1>3
<1>5. /\ u \notin turn[e]
      /\ Recent(NextOf(b), k + 1) = round
      /\ k + 1 = Len(b.upstreams) => round = ToSet(b.upstreams)
  BY SMTT(30), <1>1, <1>3, <1>4, NextIsRecent
<1>6. u \in Conn /\ endpointID[u] = e
  BY <1>2 DEF ListInv, Held, Listed, Has
<1>7. /\ request' = [request EXCEPT ![r] = [step |-> "dial", conn |-> u]]
      /\ lb' = [lb EXCEPT ![e] = NextOf(b)]
      /\ turn' = [turn EXCEPT ![e] = IF round = ToSet(b.upstreams) THEN {} ELSE round]
  BY Zenon DEF Select
<1>8. NextOf(b).upstreams = b.upstreams
  BY Zenon, <1>1 DEF NextOf, Good, Balancer
<1>9. request \in [Request -> {Idle} \cup [step: {"dial", "gone"}, conn: Conn]]
  BY Zenon DEF ListInv, Using
<1>10. turn \in [Endpoint -> SUBSET Conn]
  BY Zenon DEF TurnInv
<1> HIDE DEF b, u, round
<1>11. request'[r].conn = u
  BY Zenon, <1>7, <1>9
<1>12. \A q \in Request : q # r => request'[q] = request[q]
  BY Zenon, <1>7, <1>9
<1>13. turn' \in [Endpoint -> SUBSET Conn]
  BY Zenon, <1>6, <1>7, <1>10 DEF round
<1>14. CASE round = ToSet(b.upstreams)
  <2>1. \A d \in Endpoint : (turn'[d] = turn[d] /\ lb'[d] = lb[d]) \/ turn'[d] = {}
    BY ZenonT(30), <1>1, <1>7, <1>10, <1>14
  <2>2. TurnInv'
    BY ZenonT(30), <1>13, <2>1, TurnStep
  <2> QED  BY ZenonT(30), <1>5, <1>6, <1>11, <1>12, <2>2
<1>15. CASE round # ToSet(b.upstreams)
  <2>1. k + 1 \in Nat /\ k + 1 < Len(b.upstreams)
    BY SMTT(30), <1>2, <1>4, <1>5, <1>15
  <2>2. turn'[e] = Recent(lb'[e], k + 1) /\ k + 1 < Len(lb'[e].upstreams)
    BY ZenonT(30), <1>1, <1>5, <1>7, <1>8, <1>10, <1>15, <2>1
  <2>3. \A d \in Endpoint : d # e => turn'[d] = turn[d] /\ lb'[d] = lb[d]
    BY Zenon, <1>1, <1>7, <1>10
  <2>4. Rounds'
    BY ZenonT(30), <2>1, <2>2, <2>3 DEF TurnInv, Rounds
  <2>5. TurnInv'
    BY Zenon, <1>13, <2>4 DEF TurnInv
  <2> QED  BY Zenon, <1>5, <1>6, <1>11, <1>12, <2>5
<1> QED  BY Zenon, <1>14, <1>15

\* What Next does to the rounds and to the requests that are idle.
LEMMA TurnActions ==
    ASSUME TurnInv, ListInv, ListInv', [Next]_vars
    PROVE  /\ TurnInv'
           /\ \A r \in Request :
                  request[r] = Idle /\ request'[r] # Idle =>
                      request'[r].conn \notin turn[endpointID[request'[r].conn]]
<1> DEFINE Starts == \A r \in Request :
                  request[r] = Idle /\ request'[r] # Idle =>
                      request'[r].conn \notin turn[endpointID[request'[r].conn]]
           Goal == TurnInv' /\ Starts
<1>1. UNCHANGED request => Starts
  BY Zenon
<1>2. UNCHANGED <<turn, lb>> => TurnInv'
  BY Zenon DEF TurnInv, Rounds
<1>3. request \in [Request -> {Idle} \cup [step: {"dial", "gone"}, conn: Conn]]
  BY Zenon DEF ListInv, Using
<1>4. ASSUME NEW r \in Request, request[r].step # "idle",
             \A q \in Request : q # r => request'[q] = request[q]
      PROVE  Starts
  <2>1. request[r] # Idle
    BY Zenon, <1>3, <1>4, RequestFields
  <2> QED  BY Zenon, <1>4, <2>1
<1>5. CASE UNCHANGED vars
  BY Zenon, <1>1, <1>2, <1>5 DEF vars
<1>6. ASSUME NEW u \in Conn, \/ Accept(u) \/ GoAway(u) \/ Disconnect(u) \/ CloseShed(u)
                              \/ Upgrade(u) \/ Reject(u) \/ AddSession(u) \/ Return(u)
                              \/ RemoveSession(u) \/ Close(u)
      PROVE  Goal
  <2>1. UNCHANGED request /\ UNCHANGED <<turn, lb>>
    BY Zenon, <1>6 DEF Accept, GoAway, Disconnect, CloseShed, Upgrade, Reject, AddSession, Return,
                RemoveSession, Close
  <2> QED  BY Zenon, <1>1, <1>2, <2>1
<1>7. ASSUME NEW u \in Conn, Register(u)
      PROVE  Goal
  <2>1. UNCHANGED request /\ AddConn(u, u)
    BY Zenon, <1>7 DEF Register
  <2> QED  BY Zenon, <1>1, <2>1, ChangeTurns
<1>8. ASSUME NEW u \in Conn, Unregister(u)
      PROVE  Goal
  <2>1. UNCHANGED request /\ RemoveConn(u, u)
    BY Zenon, <1>8 DEF Unregister
  <2> QED  BY Zenon, <1>1, <2>1, ChangeTurns
<1>9. ASSUME NEW r \in Request, NEW e \in Endpoint, Select(r, e)
      PROVE  Goal
  BY Zenon, <1>9, SelectTurns
<1>10. ASSUME NEW r \in Request, Dial(r)
       PROVE  Goal
  <2>1. /\ UNCHANGED <<turn, lb>> /\ request[r].step = "dial"
        /\ \A q \in Request : q # r => request'[q] = request[q]
    BY Zenon, <1>3, <1>10 DEF Dial
  <2>2. Starts
    BY Zenon, <1>4, <2>1
  <2> QED  BY Zenon, <1>2, <2>1, <2>2
<1>11. ASSUME NEW r \in Request, RemoveGone(r)
       PROVE  Goal
  <2>1. /\ RemoveConn(r, request[r].conn) /\ request[r].step = "gone"
        /\ \A q \in Request : q # r => request'[q] = request[q]
    BY Zenon, <1>3, <1>11 DEF RemoveGone
  <2>2. Starts
    BY Zenon, <1>4, <2>1
  <2>3. request[r].conn \in Conn
    BY Zenon, <1>3, <2>1, RequestFields
  <2> QED  BY ZenonT(30), <2>1, <2>2, <2>3, ChangeTurns
<1>12. ASSUME NEW t \in Conn \cup Request, ReadListeners(t) \/ Publish(t) \/ Gossip(t)
       PROVE  Goal
  <2>1. UNCHANGED request /\ UNCHANGED <<turn, lb>>
    BY Zenon, <1>12 DEF ReadListeners, Publish, Gossip, others
  <2> QED  BY ZenonT(30), <1>1, <1>2, <2>1
<1>13. ASSUME GossipDone \/ Shed \/ Shutdown PROVE Goal
  <2>1. UNCHANGED request /\ UNCHANGED <<turn, lb>>
    BY Zenon, <1>13 DEF GossipDone, Shed, Shutdown, others
  <2> QED  BY ZenonT(30), <1>1, <1>2, <2>1
<1>14. TurnInv' /\ Starts <=> Goal
  BY Zenon
<1> HIDE DEF Goal
<1>15. Goal
  BY ZenonT(30), <1>5, <1>6, <1>7, <1>8, <1>9, <1>10, <1>11, <1>12, <1>13, <1>14 DEF Next, Handler
<1> QED  BY Zenon, <1>14, <1>15

\* The load balancer of an endpoint is fair: while its upstreams stay the same
\* none is selected again before all the others have been, whichever requests
\* select them, and nextIndex wraps around where the list ends.
THEOREM SelectionIsRoundRobin ==
    Spec => EachInTurn
<1>1. Init /\ ListInv => TurnInv
  <2> SUFFICES ASSUME Init, ListInv PROVE TurnInv
    BY Zenon
  <2>1. \A e \in Endpoint : turn[e] = {} /\ Good(lb[e])
    BY Zenon DEF Init, ListInv, Lists
  <2>2. \A e \in Endpoint : Recent(lb[e], 0) = {}
    BY Zenon, <2>1, NothingRecent
  <2> QED  BY Zenon, <2>1, <2>2 DEF Init, TurnInv, Rounds
<1>2. TurnInv /\ ListInv /\ ListInv' /\ [Next]_vars => TurnInv'
  BY Zenon, TurnActions
<1>3. TurnInv /\ ListInv /\ ListInv' /\ [Next]_vars =>
          [\A r \in Request :
              request[r] = Idle /\ request'[r] # Idle =>
                  request'[r].conn \notin turn[endpointID[request'[r].conn]]]_vars
  BY Zenon, TurnActions
<1> QED  BY <1>1, <1>2, <1>3, ListInvInductive, PTL DEF Spec, EachInTurn

-----------------------------------------------------------------------------
(***************************************************************************)
(* What is withdrawn stays withdrawn: the handlers only move forward, and  *)
(* the sessions are those of the handlers between addSession and           *)
(* removeSession.                                                          *)
(***************************************************************************)
Goes(u, from, to) == pc[u] = from /\ pc' = [pc EXCEPT ![u] = to]

SessionInv ==
    \A u \in sessions : pc[u] \in {"listed", "serving", "returned", "unregistered"}

Finished(u) == pc[u] \in {"unlisted", "closed"}

\* Every step of the handlers, and what it does to the sessions.
LEMMA HandlerMoves ==
    ASSUME [Next]_vars
    PROVE  \/ UNCHANGED <<pc, sessions>>
           \/ \E u \in Conn :
                \/ /\ sessions' = sessions
                   /\ \/ phase = "running" /\ Goes(u, "new", "accepted")
                      \/ Goes(u, "accepted", "opened")
                      \/ Goes(u, "accepted", "closed")
                      \/ Goes(u, "listed", "serving")
                      \/ Goes(u, "serving", "returned")
                      \/ Goes(u, "returned", "unregistered")
                      \/ Goes(u, "unlisted", "closed")
                \/ sessions' = sessions \cup {u} /\ Goes(u, "opened", "listed")
                \/ sessions' = sessions \ {u} /\ Goes(u, "unregistered", "unlisted")
<1> USE DEF Goes
<1>1. CASE UNCHANGED vars
  BY Zenon, <1>1 DEF vars
<1>2. ASSUME NEW u \in Conn, GoAway(u) \/ Disconnect(u) \/ CloseShed(u)
      PROVE  UNCHANGED <<pc, sessions>>
  BY Zenon, <1>2 DEF GoAway, Disconnect, CloseShed
<1>3. ASSUME NEW r \in Request, (\E e \in Endpoint : Select(r, e)) \/ Dial(r) \/ RemoveGone(r)
      PROVE  UNCHANGED <<pc, sessions>>
  BY Zenon, <1>3 DEF Select, Dial, RemoveGone
<1>4. ASSUME NEW t \in Conn \cup Request, ReadListeners(t) \/ Publish(t) \/ Gossip(t)
      PROVE  UNCHANGED <<pc, sessions>>
  BY Zenon, <1>4 DEF ReadListeners, Publish, Gossip, others
<1>5. GossipDone \/ Shed \/ Shutdown => UNCHANGED <<pc, sessions>>
  BY Zenon DEF GossipDone, Shed, Shutdown, others
<1>6. ASSUME NEW u \in Conn, Accept(u)
      PROVE  sessions' = sessions /\ phase = "running" /\ Goes(u, "new", "accepted")
  BY Zenon, <1>6 DEF Accept
<1>7. ASSUME NEW u \in Conn, Handler(u)
      PROVE  \/ /\ sessions' = sessions
                /\ \/ Goes(u, "accepted", "opened")
                   \/ Goes(u, "accepted", "closed")
                   \/ Goes(u, "listed", "serving")
                   \/ Goes(u, "serving", "returned")
                   \/ Goes(u, "returned", "unregistered")
                   \/ Goes(u, "unlisted", "closed")
             \/ sessions' = sessions \cup {u} /\ Goes(u, "opened", "listed")
             \/ sessions' = sessions \ {u} /\ Goes(u, "unregistered", "unlisted")
  BY Zenon, <1>7 DEF Handler, Upgrade, Reject, AddSession, Register, Return, Unregister,
                     RemoveSession, Close
<1> HIDE DEF Goes
<1> QED  BY ZenonT(30), <1>1, <1>2, <1>3, <1>4, <1>5, <1>6, <1>7 DEF Next

LEMMA GoesTo ==
    ASSUME Handlers, NEW u \in Conn, NEW from, NEW to, Goes(u, from, to)
    PROVE  pc[u] = from /\ \A v \in Conn : pc'[v] = IF v = u THEN to ELSE pc[v]
BY Zenon DEF Goes, Handlers

LEMMA SessionInvInductive ==
    Spec => []SessionInv
<1>1. Init => SessionInv
  BY Zenon DEF Init, SessionInv
<1>2. ASSUME SessionInv, ListInv, RestInv, RestInv', [Next]_vars
      PROVE  SessionInv'
  <2>1. Handlers /\ sessions \subseteq Conn /\ sessions' \subseteq Conn
    BY Zenon, <1>2 DEF ListInv, RestInv
  <2>2. CASE UNCHANGED <<pc, sessions>>
    BY Zenon, <1>2, <2>2 DEF SessionInv
  <2>3. ASSUME NEW u \in Conn, sessions' = sessions, NEW from, NEW to, Goes(u, from, to),
               from \in {"new", "accepted", "unlisted"}
                 \/ to \in {"listed", "serving", "returned", "unregistered"}
        PROVE  SessionInv'
    BY Zenon, <1>2, <2>1, <2>3, GoesTo DEF SessionInv
  <2>4. ASSUME NEW u \in Conn, sessions' = sessions \cup {u}, Goes(u, "opened", "listed")
        PROVE  SessionInv'
    BY Zenon, <1>2, <2>1, <2>4, GoesTo DEF SessionInv
  <2>5. ASSUME NEW u \in Conn, sessions' = sessions \ {u}, Goes(u, "unregistered", "unlisted")
        PROVE  SessionInv'
    BY Zenon, <1>2, <2>1, <2>5, GoesTo DEF SessionInv
  <2> QED  BY ZenonT(30), <1>2, <2>2, <2>3, <2>4, <2>5, HandlerMoves
<1> QED  BY <1>1, <1>2, ListInvInductive, RestInvInductive, PTL DEF Spec

LEMMA FinishedStays ==
    ASSUME NEW v \in Conn, Handlers, [Next]_vars, Finished(v)
    PROVE  Finished(v)'
<1>1. ASSUME NEW u \in Conn, NEW from, NEW to, Goes(u, from, to),
             from \notin {"unlisted", "closed"} \/ to = "closed"
      PROVE  Finished(v)'
  BY Zenon, <1>1, GoesTo DEF Finished
<1>2. UNCHANGED <<pc, sessions>> => Finished(v)'
  BY Zenon DEF Finished
<1> QED  BY ZenonT(30), <1>1, <1>2, HandlerMoves

LEMMA FinishedIsWithdrawn ==
    ASSUME NEW u \in Conn, SessionInv, OnlyServingSelected, Finished(u)
    PROVE  Withdrawn(u)
BY Zenon DEF SessionInv, OnlyServingSelected, Finished, Withdrawn

\* An upstream whose handler is past its deferred RemoveConn and removeSession
\* is neither counted by rebalancing nor selected by any request ever again,
\* whatever the handlers, requests and rebalancing that are still running do.
THEOREM WithdrawnStaysWithdrawn ==
    ASSUME NEW u \in Conn
    PROVE  Spec => WithdrawnForGood(u)
<1>1. ListInv /\ [Next]_vars /\ Finished(u) => Finished(u)'
  BY Zenon, FinishedStays DEF ListInv
<1>2. SessionInv /\ OnlyServingSelected /\ Finished(u) => Withdrawn(u)
  BY Zenon, FinishedIsWithdrawn
<1>3. pc[u] \in {"unlisted", "closed"} <=> Finished(u)
  BY Zenon DEF Finished
<1> QED
  BY <1>1, <1>2, <1>3, ListInvInductive, SessionInvInductive, SelectedAreServing, PTL
     DEF Spec, WithdrawnForGood

-----------------------------------------------------------------------------
\* Without an upstream that is served or being removed, no load balancer has any.
LEMMA NoneListed ==
    ASSUME ListInv, \A u \in Conn : pc[u] \notin {"serving", "returned"}, NEW e \in Endpoint
    PROVE  lb[e] = NoUpstreams /\ Len(lb[e].upstreams) = 0
<1> DEFINE s == lb[e].upstreams
<1>1. s \in Seq(Conn) /\ (lb[e] = NoUpstreams \/ lb[e].nextIndex < Len(s)) /\ lb[e].nextIndex \in Nat
  BY Zenon DEF ListInv, Lists, Good, Balancer
<1>2. ~Listed(e, s[1])
  BY Zenon DEF ListInv, Held
<1>3. Len(s) \in Nat /\ 1 \notin 1..Len(s)
  BY SMTT(30), <1>1, <1>2, LenProperties DEF Listed, Has
<1> HIDE DEF s
<1>4. ~(lb[e].nextIndex < Len(s)) /\ Len(s) = 0
  BY <1>1, <1>3
<1> QED  BY Zenon, <1>1, <1>4 DEF s

LEMMA DrainedStays ==
    ASSUME ListInv, [Next]_vars, Drained
    PROVE  Drained'
<1>1. phase = "shutdown" /\ \A u \in Conn : pc[u] \in {"new", "closed"}
  BY Zenon DEF Drained
<1>2. \A e \in Endpoint : lb[e] = NoUpstreams
  BY Zenon, <1>1, NoneListed
<1>3. \A t \in Conn \cup Request : update[t].at = "none"
  <2>1. NoUpdate.at = "none"
    BY Zenon DEF NoUpdate
  <2> QED  BY Zenon, <2>1 DEF Drained
<1>4. UNCHANGED <<pc, phase, update>> => Drained'
  BY Zenon DEF Drained
<1>5. CASE UNCHANGED vars
  BY Zenon, <1>4, <1>5 DEF vars, locks
<1>6. ASSUME NEW u \in Conn, GoAway(u) \/ Disconnect(u) \/ CloseShed(u)
      PROVE  UNCHANGED <<pc, phase, update>>
  BY Zenon, <1>6 DEF GoAway, Disconnect, CloseShed, locks
<1>7. ASSUME NEW u \in Conn, Accept(u) \/ Handler(u)
      PROVE  FALSE
  BY Zenon, <1>1, <1>7 DEF Accept, Handler, Upgrade, Reject, AddSession, Register, Return,
                           Unregister, RemoveSession, Close
<1>8. ASSUME NEW r \in Request, (\E e \in Endpoint : Select(r, e)) \/ Dial(r)
      PROVE  UNCHANGED <<pc, phase, update>>
  BY Zenon, <1>8 DEF Select, Dial, locks
<1>9. ASSUME NEW r \in Request, RemoveGone(r)
      PROVE  UNCHANGED <<pc, phase, update>>
  <2>1. /\ RemoveConn(r, request[r].conn) /\ UNCHANGED <<pc, phase>>
        /\ request[r].conn \in Conn
    BY Zenon, <1>9, RemoveGoneLists DEF RemoveGone
  <2>2. lb[endpointID[request[r].conn]] = NoUpstreams
    BY Zenon, <1>2, <2>1, ConnAssumption
  <2> QED  BY Zenon, <2>1, <2>2 DEF RemoveConn, locks
<1>10. ASSUME NEW t \in Conn \cup Request, ReadListeners(t) \/ Publish(t) \/ Gossip(t)
       PROVE  FALSE
  BY Zenon, <1>3, <1>10 DEF ReadListeners, Publish, Gossip
<1>11. GossipDone \/ Shed \/ Shutdown => UNCHANGED <<pc, phase, update>>
  BY Zenon, <1>1 DEF GossipDone, Shed, Shutdown, locks, others
<1> QED  BY ZenonT(30), <1>4, <1>5, <1>6, <1>7, <1>8, <1>9, <1>10, <1>11 DEF Next

LEMMA DrainedIsEmpty ==
    ASSUME ListInv, LockInv, RestInv, SessionInv, PublishedIsCurrent, Drained
    PROVE  sessions = {} /\ \A e \in Endpoint : published[e] = 0
<1>1. \A u \in Conn : pc[u] \in {"new", "closed"}
  BY Zenon DEF Drained
<1>2. sessions = {}
  BY Zenon, <1>1 DEF SessionInv, RestInv
<1>3. published = listeners
  BY Zenon DEF Drained, PublishedIsCurrent
<1>4. ASSUME NEW e \in Endpoint PROVE published[e] = 0
  <2>1. Len(lb[e].upstreams) = 0
    BY Zenon, <1>1, NoneListed
  <2>2. listeners[e] \in Nat /\ listeners[e] <= 0
    BY Zenon, <2>1 DEF ListInv, Lists
  <2> QED  BY <1>3, <2>2
<1> QED  BY Zenon, <1>2, <1>4

\* Once the handlers have returned after Server.Shutdown, the node has no
\* session and gossips no endpoint, and that is so for good: the requests still
\* running register and publish nothing, though they call RemoveConn.
THEOREM DrainedStaysEmpty ==
    Spec => DrainedForGood
<1> DEFINE Empty == sessions = {} /\ \A e \in Endpoint : published[e] = 0
<1>1. ListInv /\ [Next]_vars /\ Drained => Drained'
  BY Zenon, DrainedStays
<1>2. ListInv /\ LockInv /\ RestInv /\ SessionInv /\ PublishedIsCurrent /\ Drained => Empty
  BY Zenon, DrainedIsEmpty
<1> QED
  BY <1>1, <1>2, ListInvInductive, LockInvInductive, RestInvInductive, SessionInvInductive,
     PublishedStaysCurrent, PTL DEF Spec, DrainedForGood

-----------------------------------------------------------------------------
(***************************************************************************)
(* The update under way is of one listener.                                *)
(***************************************************************************)
OneApart(e) == listeners[e] = published[e] - 1 \/ listeners[e] = published[e] + 1

PendingInv == \A t \in Thread : Busy(t) => OneApart(update[t].endpoint)

LEMMA NotifyPending ==
    ASSUME LockInv, NEW t \in Thread, NEW e \in Endpoint, Notify(t, e),
           NEW k, k = listeners[e] - 1 \/ k = listeners[e] + 1,
           listeners' = [listeners EXCEPT ![e] = k]
    PROVE  PendingInv'
<1> DEFINE new == [at |-> "read", endpoint |-> e]
<1>1. /\ mu = Nobody /\ published' = published
      /\ update' = [update EXCEPT ![t] = new]
  BY Zenon DEF Notify
<1>2. new.at = "read" /\ new.endpoint = e
  BY Zenon
<1> HIDE DEF new
<1>3. \A s \in Thread : ~Busy(s)
  BY Zenon, <1>1, HolderIsOne DEF LockInv
<1>4. \A s \in Thread : update'[s] = IF s = t THEN new ELSE update[s]
  BY Zenon, <1>1 DEF LockInv
<1>5. \A s \in Thread : Busy(s)' => s = t
  BY Zenon, <1>3, <1>4 DEF Busy
<1>6. published'[e] = listeners[e] /\ listeners'[e] = k
  BY Zenon, <1>1, <1>3 DEF LockInv
<1>7. OneApart(e)'
  BY Zenon, <1>6 DEF OneApart
<1> QED  BY Zenon, <1>2, <1>4, <1>5, <1>7 DEF PendingInv, OneApart

LEMMA RemovePending ==
    ASSUME LockInv, PendingInv, NEW t \in Thread, NEW u \in Conn, RemoveConn(t, u)
    PROVE  PendingInv' /\ published' = published
<1> DEFINE e == endpointID[u]
           k == listeners[e] - 1
<1>1. e \in Endpoint /\ listeners[e] \in Nat
  BY Zenon, ConnAssumption DEF LockInv
<1>2. \/ UNCHANGED <<listeners, published, update>>
      \/ Notify(t, e) /\ listeners' = [listeners EXCEPT ![e] = k] /\ published' = published
      \/ /\ listeners[e] = 0 /\ listeners' = [listeners EXCEPT ![e] = 0]
         /\ UNCHANGED <<published, update>>
  BY <1>1 DEF RemoveConn, Notify, locks
<1>3. listeners[e] = 0 => [listeners EXCEPT ![e] = 0] = listeners
  BY Zenon, <1>1 DEF LockInv
<1>4. UNCHANGED <<listeners, published, update>> => PendingInv'
  BY Zenon DEF PendingInv, OneApart, Busy
<1> HIDE DEF e, k
<1>5. Notify(t, e) /\ listeners' = [listeners EXCEPT ![e] = k] => PendingInv'
  BY Zenon, <1>1, NotifyPending DEF k
<1> QED  BY Zenon, <1>2, <1>3, <1>4, <1>5

LEMMA AddPending ==
    ASSUME LockInv, NEW t \in Thread, NEW u \in Conn, AddConn(t, u)
    PROVE  PendingInv' /\ published' = published
<1>1. endpointID[u] \in Endpoint
  BY Zenon, ConnAssumption
<1>2. /\ Notify(t, endpointID[u]) /\ published' = published
      /\ listeners' = [listeners EXCEPT ![endpointID[u]] = listeners[endpointID[u]] + 1]
  BY Zenon DEF AddConn, Notify
<1> QED  BY Zenon, <1>1, <1>2, NotifyPending

LEMMA ReadPending ==
    ASSUME LockInv, PendingInv, NEW t \in Thread, ReadListeners(t)
    PROVE  PendingInv' /\ published' = published
<1> DEFINE e == update[t].endpoint
           new == [at |-> "publish", endpoint |-> e, count |-> listeners[e]]
<1>1. /\ update[t].at = "read" /\ update' = [update EXCEPT ![t] = new]
      /\ UNCHANGED <<listeners, published>>
  BY Zenon DEF ReadListeners, others
<1>2. new.endpoint = update[t].endpoint
  BY Zenon
<1> HIDE DEF new, e
<1>3. \A s \in Thread : update'[s] = IF s = t THEN new ELSE update[s]
  BY Zenon, <1>1 DEF LockInv
<1>4. \A s \in Thread : Busy(s)' => Busy(s) /\ update'[s].endpoint = update[s].endpoint
  BY Zenon, <1>1, <1>2, <1>3 DEF Busy
<1> QED  BY Zenon, <1>1, <1>4 DEF PendingInv, OneApart

LEMMA PublishPending ==
    ASSUME LockInv, PendingInv, NEW t \in Thread, Publish(t)
    PROVE  /\ PendingInv'
           /\ \E e \in Endpoint : \E count \in {published[e] - 1, published[e] + 1} :
                  published' = [published EXCEPT ![e] = count]
<1> DEFINE e == update[t].endpoint
<1>1. /\ update[t].at = "publish" /\ update' = [update EXCEPT ![t] = NoUpdate]
      /\ published' = [published EXCEPT ![e] = update[t].count]
  BY Zenon DEF Publish, others
<1>2. Busy(t)
  BY Zenon, <1>1 DEF Busy
<1>3. e \in Endpoint /\ update[t].count = listeners[e]
  BY Zenon, <1>1, <1>2, UpdateFields DEF LockInv, Busy
<1>4. OneApart(e)
  BY Zenon, <1>2 DEF PendingInv
<1> HIDE DEF e
<1>5. \A s \in Thread : Busy(s) => s = t
  BY Zenon, <1>2, HolderIsOne DEF LockInv
<1>6. NoUpdate.at = "none"
  BY Zenon DEF NoUpdate
<1>7. \A s \in Thread : update'[s] = IF s = t THEN NoUpdate ELSE update[s]
  BY Zenon, <1>1 DEF LockInv
<1>8. \A s \in Thread : ~Busy(s)'
  BY Zenon, <1>5, <1>6, <1>7 DEF Busy
<1> QED  BY Zenon, <1>1, <1>3, <1>4, <1>8 DEF PendingInv, OneApart

\* The number of listeners a node gossips changes by one at a time: manager.mu
\* is held from the change to its publication, so AddConn and RemoveConn by any
\* number of handlers and requests are published one by one, in their order.
THEOREM PublishedOneByOne ==
    Spec => OneListenerAtATime
<1> DEFINE Steps == \E e \in Endpoint : \E count \in {published[e] - 1, published[e] + 1} :
                        published' = [published EXCEPT ![e] = count]
<1>1. Init => PendingInv
  <2> SUFFICES ASSUME Init PROVE PendingInv
    BY Zenon
  <2>1. \A t \in Thread : update[t] = NoUpdate
    BY Zenon DEF Init, Thread
  <2>2. NoUpdate.at = "none"
    BY Zenon DEF NoUpdate
  <2> QED  BY Zenon, <2>1, <2>2 DEF PendingInv, Busy
<1>2. ASSUME PendingInv, ListInv, LockInv, [Next]_vars
      PROVE  PendingInv' /\ [Steps]_published
  <2>1. ASSUME UNCHANGED <<listeners, published, update>> PROVE PendingInv' /\ [Steps]_published
    BY Zenon, <1>2, <2>1 DEF PendingInv, OneApart, Busy
  <2>2. CASE UNCHANGED vars
    BY Zenon, <2>1, <2>2 DEF vars, locks
  <2>3. ASSUME NEW u \in Conn, AddConn(u, u) \/ RemoveConn(u, u)
        PROVE  PendingInv' /\ published' = published
    BY Zenon, <1>2, <2>3, AddPending, RemovePending DEF Thread
  <2>4. ASSUME NEW r \in Request, request[r].step = "gone", RemoveConn(r, request[r].conn)
        PROVE  PendingInv' /\ published' = published
    <3>1. request[r].step # "idle"
      BY Zenon, <2>4
    <3>2. request[r].conn \in Conn
      BY Zenon, <1>2, <3>1, RequestFields DEF ListInv, Using
    <3> QED  BY Zenon, <1>2, <2>4, <3>2, RemovePending DEF Thread
  <2>5. ASSUME NEW t \in Thread, ReadListeners(t) \/ Publish(t)
        PROVE  PendingInv' /\ [Steps]_published
    BY Zenon, <1>2, <2>5, ReadPending, PublishPending
  <2> HIDE DEF Steps
  <2> QED  BY ZenonT(30), <1>2, <2>1, <2>2, <2>3, <2>4, <2>5, LockActions
<1> QED
  BY <1>1, <1>2, ListInvInductive, LockInvInductive, PTL DEF Spec, OneListenerAtATime
=============================================================================
