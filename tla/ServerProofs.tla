---------------------------- MODULE ServerProofs ----------------------------
(***************************************************************************)
(* Proofs about the life of a server node, with rebalancing or without and *)
(* for any number of attempts to join.                                     *)
(***************************************************************************)
EXTENDS Server, TLAPS

\* Where the main goroutine is: before Serve, where it may be ready, and in
\* Shutdown.
Starting == {"listen", "new", "start", "gossip", "boot", "serveJoined", "serveAlone"}
Serving  == {"readyJoined", "readyAlone", "join", "backoff", "wait", "shutdown"}
Stopping == {"upstream", "proxy", "leave", "left", "admin", "wg", "done"}

(***************************************************************************)
(* The shutdown is announced before any server is told to stop, and that   *)
(* is before any returns without having failed: this is why a return is a  *)
(* failure when no shutdown was announced.  The node is ready only between *)
(* SetReady and Shutdown, when all that Start starts has been started.     *)
(***************************************************************************)
Inv ==
    /\ main \in Starting \cup Serving \cup Stopping \cup {"failed"}
    /\ goroutine = [c \in Component |-> goroutine[c]]
    /\ main \in Starting => ~ready
    /\ main \in Serving =>
          goroutine["upstream"] # "none" /\ goroutine["proxy"] # "none" /\ gossip = "open"
    /\ main = "boot" \/ main \in {"serveJoined", "serveAlone"} => gossip = "open"
    /\ main \in Stopping => shutdown /\ ~ready
    /\ main \notin Stopping => stopped = {}
    /\ stopped # {} => shutdown
    /\ ready => main \in Serving \cup {"failed"} /\ goroutine["upstream"] # "none"
                  /\ goroutine["proxy"] # "none" /\ gossip = "open"
    /\ \A c \in Component : goroutine[c] = "returned" => c \in stopped \/ c \in failed
    /\ fatal => failed # {}

LEMMA InvAlways == Spec => []Inv
<1>1. Init => Inv
  BY SMTT(30) DEF Init, Inv, Starting, Serving, Stopping, Component
<1>2. Inv /\ [Next]_vars => Inv'
  <2> SUFFICES ASSUME Inv, [Next]_vars PROVE Inv'
    OBVIOUS
  <2> USE DEF Inv, Starting, Serving, Stopping, Component
  <2>1. CASE Listen
    BY <2>1 DEF Listen
  <2>2. CASE NewServer
    BY <2>2 DEF NewServer
  <2>3. CASE StartAdmin
    BY <2>3 DEF StartAdmin, Started
  <2>4. CASE StartGossip
    BY <2>4 DEF StartGossip
  <2>5. CASE JoinOnBoot
    BY <2>5 DEF JoinOnBoot
  <2>6. CASE Serve
    BY <2>6 DEF Serve, Started
  <2>7. CASE SetReady
    BY <2>7 DEF SetReady
  <2>8. CASE Join
    BY <2>8 DEF Join, JoinFails
  <2>9. CASE Backoff
    BY <2>9 DEF Backoff, JoinFails
  <2>10. CASE Wait
    BY <2>10 DEF Wait
  <2>11. CASE Shutdown
    BY <2>11 DEF Shutdown
  <2>12. CASE ShutdownUpstream
    BY <2>12 DEF ShutdownUpstream
  <2>13. CASE ShutdownProxy
    BY <2>13 DEF ShutdownProxy
  <2>14. CASE ShutdownAdmin
    BY <2>14 DEF ShutdownAdmin
  <2>15. CASE StartLeave
    BY <2>15 DEF StartLeave
  <2>16. CASE Leave
    BY <2>16 DEF Leave
  <2>17. CASE CloseGossip
    BY <2>17 DEF CloseGossip
  <2>18. CASE WaitGroup
    BY <2>18 DEF WaitGroup
  <2>19. CASE Signal
    BY <2>19 DEF Signal
  <2>20. ASSUME NEW c \in Component, Stops(c) PROVE Inv'
    BY Zenon, <2>20 DEF Stops
  <2>21. ASSUME NEW c \in Component, Fails(c) PROVE Inv'
    BY Zenon, <2>21 DEF Fails
  <2>22. ASSUME NEW c \in Component, Finish(c) PROVE Inv'
    BY Zenon, <2>22 DEF Finish
  <2>23. CASE UNCHANGED vars
    BY <2>23 DEF vars
  <2> QED
    BY Zenon, <2>1, <2>2, <2>3, <2>4, <2>5, <2>6, <2>7, <2>8, <2>9, <2>10, <2>11, <2>12,
       <2>13, <2>14, <2>15, <2>16, <2>17, <2>18, <2>19, <2>20, <2>21, <2>22, <2>23 DEF Next, Main
<1> QED  BY <1>1, <1>2, PTL DEF Spec

\* The ready endpoint (admin.Server.SetReady) never reports a node whose
\* servers are not started or are told to stop, or that cannot be gossiped with.
THEOREM ReadyWhileServing == Spec => []ReadyServes
<1>1. Inv => ReadyServes
  BY DEF Inv, ReadyServes, Starting, Serving, Stopping
<1> QED  BY <1>1, InvAlways, PTL

\* However a return of Serve races with Shutdown (runGoroutine), only a failure
\* closes fatalCh.
THEOREM OnlyFailuresAreFatal == Spec => []FatalIsFailure
<1>1. Inv => FatalIsFailure
  BY DEF Inv, FatalIsFailure
<1> QED  BY <1>1, InvAlways, PTL

-----------------------------------------------------------------------------
(***************************************************************************)
(* What liveness rests on.  A goroutine is started once, a failed one is   *)
(* not restarted, and one that has finished has closed fatalCh unless the  *)
(* shutdown was announced; Shutdown tells every component to stop before   *)
(* it waits for the goroutines.                                            *)
(***************************************************************************)
LifeInv ==
    /\ attempts \in 0..(retries + 1)
    /\ main \in {"listen", "new", "start"} => goroutine["admin"] = "none"
    /\ main \in Starting => \A c \in Component \ {"admin"} : goroutine[c] = "none"
    /\ main \notin Stopping => ~shutdown
    /\ \A c \in failed : goroutine[c] \in {"returned", "finished"}
    /\ \A c \in Component : goroutine[c] = "finished" => fatal \/ shutdown
    /\ main \in {"proxy", "leave", "left", "admin", "wg", "done"} =>
          {"upstream", "rebalance"} \subseteq stopped
    /\ main \in {"leave", "left", "admin", "wg", "done"} => "proxy" \in stopped
    /\ main \in {"wg", "done"} => "admin" \in stopped
    /\ failed \subseteq Component

LEMMA LifeInvAlways == Spec => []LifeInv
<1>1. Init => LifeInv
  BY SMTT(30), ConfigAssumption DEF Init, LifeInv, Starting, Stopping, Component
<1>2. Inv /\ LifeInv /\ [Next]_vars => LifeInv'
  <2> SUFFICES ASSUME Inv, LifeInv, [Next]_vars PROVE LifeInv'
    OBVIOUS
  <2> USE ConfigAssumption DEF Inv, LifeInv, Starting, Serving, Stopping, Component
  <2>1. CASE Listen
    BY <2>1 DEF Listen
  <2>2. CASE NewServer
    BY <2>2 DEF NewServer
  <2>3. CASE StartAdmin
    BY Zenon, <2>3 DEF StartAdmin, Started
  <2>4. CASE StartGossip
    BY Zenon, <2>4 DEF StartGossip
  <2>5. CASE JoinOnBoot
    BY <2>5 DEF JoinOnBoot
  <2>6. CASE Serve
    BY <2>6 DEF Serve, Started
  <2>7. CASE SetReady
    BY <2>7 DEF SetReady
  <2>8. CASE Join
    <3>1. attempts' \in 0..(retries + 1)
      BY <2>8 DEF Join, Retry
    <3>2. main' \in {"wait", "failed", "backoff"} /\ main = "join"
      BY <2>8 DEF Join, JoinFails
    <3> QED  BY <2>8, <3>1, <3>2 DEF Join
  <2>9. CASE Backoff
    BY <2>9 DEF Backoff, JoinFails
  <2>10. CASE Wait
    BY Zenon, <2>10 DEF Wait
  <2>11. CASE Shutdown
    BY <2>11 DEF Shutdown
  <2>12. CASE ShutdownUpstream
    BY <2>12 DEF ShutdownUpstream
  <2>13. CASE ShutdownProxy
    BY <2>13 DEF ShutdownProxy
  <2>14. CASE ShutdownAdmin
    BY <2>14 DEF ShutdownAdmin
  <2>15. CASE StartLeave
    BY <2>15 DEF StartLeave
  <2>16. CASE Leave
    BY Zenon, <2>16 DEF Leave
  <2>17. CASE CloseGossip
    BY <2>17 DEF CloseGossip
  <2>18. CASE WaitGroup
    BY <2>18 DEF WaitGroup
  <2>19. CASE Signal
    BY Zenon, <2>19 DEF Signal
  <2>20. ASSUME NEW c \in Component, Stops(c) PROVE LifeInv'
    BY Zenon, <2>20 DEF Stops
  <2>21. ASSUME NEW c \in Component, Fails(c) PROVE LifeInv'
    BY Zenon, <2>21 DEF Fails
  <2>22. ASSUME NEW c \in Component, Finish(c) PROVE LifeInv'
    BY Zenon, <2>22 DEF Finish
  <2>23. CASE UNCHANGED vars
    BY Zenon, <2>23 DEF vars
  <2> QED
    BY Zenon, <2>1, <2>2, <2>3, <2>4, <2>5, <2>6, <2>7, <2>8, <2>9, <2>10, <2>11, <2>12,
       <2>13, <2>14, <2>15, <2>16, <2>17, <2>18, <2>19, <2>20, <2>21, <2>22, <2>23 DEF Next, Main
<1> QED  BY <1>1, <1>2, InvAlways, PTL DEF Spec

\* Wait misses no failure of a server, whether it failed during Start, a join or
\* later (runGoroutine).
THEOREM FailuresAreNoticed == Spec => []FailureIsNoticed
<1>1. Inv /\ LifeInv => FailureIsNoticed
  BY DEF Inv, LifeInv, FailureIsNoticed, Stopping, Component
<1> QED  BY <1>1, InvAlways, LifeInvAlways, PTL

\* When Shutdown waits for the goroutines, each that still runs was told to stop.
THEOREM ShutdownWaitsForStopped == Spec => []WaitsForStopped
<1>1. LifeInv => WaitsForStopped
  BY DEF LifeInv, WaitsForStopped, Component
<1> QED  BY <1>1, LifeInvAlways, PTL

\* StepsFrom, value by value: n steps are left at m.
Left(m, joining, n) ==
    /\ m = "listen" => n = joining + 16
    /\ m = "new" => n = joining + 15
    /\ m = "start" => n = joining + 14
    /\ m = "gossip" => n = joining + 13
    /\ m = "boot" => n = joining + 12
    /\ m \in {"serveJoined", "serveAlone"} => n = joining + 11
    /\ m \in {"readyJoined", "readyAlone", "backoff"} => n = joining + 10
    /\ m = "join" => n = joining + 9
    /\ m = "wait" => n = 8
    /\ m = "shutdown" => n = 7
    /\ m = "upstream" => n = 6
    /\ m = "proxy" => n = 5
    /\ m = "leave" => n = 4
    /\ m = "left" => n = 3
    /\ m = "admin" => n = 2
    /\ m = "wg" => n = 1
    /\ m \in {"done", "failed"} => n = 0

\* Where the main goroutine goes from m, after so many attempts to join.
Moves(m, tried, n, tries) ==
    \/ /\ tries = tried
       /\ \/ m = "listen" /\ n \in {"new", "failed"}
          \/ m = "new" /\ n \in {"start", "failed"}
          \/ m = "start" /\ n = "gossip"
          \/ m = "gossip" /\ n \in {"boot", "failed"}
          \/ m = "boot" /\ n \in {"serveJoined", "serveAlone"}
          \/ m \in {"serveJoined", "serveAlone"} /\ n \in {"readyJoined", "readyAlone"}
          \/ m \in {"readyJoined", "readyAlone"} /\ n \in {"wait", "join"}
          \/ m = "join" /\ n \in {"wait", "failed"}
          \/ m = "backoff" /\ n \in {"join", "wait", "failed"}
          \/ m = "wait" /\ n = "shutdown"
          \/ m = "shutdown" /\ n = "upstream"
          \/ m = "upstream" /\ n = "proxy"
          \/ m = "proxy" /\ n = "leave"
          \/ m = "leave" /\ n = "left"
          \/ m = "left" /\ n = "admin"
          \/ m = "admin" /\ n = "wg"
          \/ m = "wg" /\ n = "done"
    \/ m = "join" /\ n = "backoff" /\ tries = tried + 1

Joining(tried) == 2 * (retries + 1 - tried)

LEMMA StepsTable ==
    ASSUME NEW m, NEW tried \in 0..(retries + 1)
    PROVE  Left(m, Joining(tried), StepsFrom(m, tried)) /\ Joining(tried) \in Nat
BY ConfigAssumption DEF StepsFrom, Left, Joining

LEMMA LeftIsNat ==
    ASSUME NEW m \in Starting \cup Serving \cup Stopping \cup {"failed"},
           NEW j \in Nat, NEW x, Left(m, j, x)
    PROVE  x \in Nat
BY DEF Left, Starting, Serving, Stopping

LEMMA MovesDrop ==
    ASSUME NEW m, NEW n, NEW a \in 0..(retries + 1), NEW b \in 0..(retries + 1),
           NEW x, NEW y, Left(m, Joining(a), x), Left(n, Joining(b), y), Moves(m, a, n, b)
    PROVE  y \in Nat /\ y < x
<1> DEFINE i == Joining(a)
           j == Joining(b)
<1>1. i \in Nat /\ j \in Nat
  BY Zenon, StepsTable
<1>2. (j = i /\ ~(m = "join" /\ n = "backoff")) \/ (m = "join" /\ n = "backoff" /\ i = j + 2)
  BY ConfigAssumption DEF Moves, Joining
<1>3. Left(m, i, x) /\ Left(n, j, y)
  BY Zenon
<1> HIDE DEF i, j
<1>4. CASE m = "join" /\ n = "backoff" /\ i = j + 2
  BY <1>1, <1>3, <1>4 DEF Left
<1>5. CASE j = i /\ n = "failed"
  BY <1>1, <1>3, <1>5 DEF Left, Moves
<1>6. CASE j = i /\ m \in Starting /\ n # "failed"
  BY <1>1, <1>3, <1>6 DEF Left, Moves, Starting
<1>7. CASE j = i /\ ~(m = "join" /\ n = "backoff") /\ m \in Serving /\ n # "failed"
  <2>1. CASE m \in {"readyJoined", "readyAlone"}
    BY <1>1, <1>3, <1>7, <2>1 DEF Left, Moves
  <2>2. CASE m \in {"join", "backoff"}
    BY <1>1, <1>3, <1>7, <2>2 DEF Left, Moves
  <2>3. CASE m \in {"wait", "shutdown"}
    BY <1>1, <1>3, <1>7, <2>3 DEF Left, Moves
  <2> QED  BY <1>7, <2>1, <2>2, <2>3 DEF Serving
<1>8. CASE j = i /\ m \in Stopping /\ n # "failed"
  BY <1>1, <1>3, <1>8 DEF Left, Moves, Stopping
<1>9. m \in Starting \cup Serving \cup Stopping
  BY DEF Moves, Starting, Serving, Stopping
<1> QED  BY Zenon, <1>2, <1>4, <1>5, <1>6, <1>7, <1>8, <1>9

LEMMA MainMoves == Main => Moves(main, attempts, main', attempts')
BY DEF Main, Moves, Listen, NewServer, StartAdmin, StartGossip, JoinOnBoot, Serve, SetReady,
       Join, JoinFails, Backoff, Wait, Shutdown, ShutdownUpstream, ShutdownProxy, StartLeave,
       CloseGossip, ShutdownAdmin, WaitGroup

\* The main goroutine has a bounded number of steps, whatever the bound on the
\* attempts to join: it exits, or waits in Wait or for a goroutine.
THEOREM MainGoesForward == Spec => MainAdvances
<1> DEFINE Forward == /\ StepsLeft' \in Nat
                      /\ main' = main => StepsLeft' = StepsLeft
                      /\ main' # main => StepsLeft' < StepsLeft
<1>1. ASSUME Inv, LifeInv, LifeInv', Next PROVE Forward
  <2>1. attempts \in 0..(retries + 1) /\ attempts' \in 0..(retries + 1)
    BY <1>1 DEF LifeInv
  <2>2. /\ Left(main, Joining(attempts), StepsLeft) /\ Joining(attempts) \in Nat
        /\ Left(main', Joining(attempts'), StepsLeft')
    BY Zenon, <2>1, StepsTable DEF StepsLeft
  <2>3. CASE Main
    <3>1. StepsLeft' \in Nat /\ StepsLeft' < StepsLeft
      BY Zenon, <2>1, <2>2, <2>3, MainMoves, MovesDrop
    <3>2. main' # main
      BY <2>3, MainMoves DEF Moves
    <3> QED  BY Zenon, <3>1, <3>2
  <2>4. CASE ~Main
    <3>1. main' = main /\ attempts' = attempts
      BY <1>1, <2>4 DEF Next, Leave, Signal, Stops, Fails, Finish
    <3>2. StepsLeft' = StepsLeft
      BY Zenon, <3>1 DEF StepsLeft
    <3>3. StepsLeft \in Nat
      BY Zenon, <1>1, <2>2, LeftIsNat DEF Inv
    <3> QED  BY Zenon, <3>1, <3>2, <3>3
  <2> QED  BY Zenon, <2>3, <2>4
<1>2. Inv /\ LifeInv /\ LifeInv' /\ [Next]_vars => [Forward]_vars
  BY Zenon, <1>1
<1> QED  BY <1>2, InvAlways, LifeInvAlways, PTL DEF Spec, MainAdvances
=============================================================================
