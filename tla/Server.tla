------------------------------- MODULE Server -------------------------------
(***************************************************************************)
(* The life of a server node (server/server.go): NewServer, Start with its *)
(* attempts to join the cluster (server/gossip/gossip.go), Wait and        *)
(* Shutdown, and the goroutines of the servers it runs.                    *)
(*                                                                         *)
(* What a server does while it runs is in the modules of that server; here *)
(* its Serve returns when the server is shut down, or fails.  How long a   *)
(* step of Shutdown waits is bounded by the grace period.                  *)
(***************************************************************************)
EXTENDS Integers

CONSTANTS
    Threshold,          \* whether rebalancing is configured
    retries             \* of JoinOnStartup's backoff

ASSUME ConfigAssumption ==
    /\ Threshold \in BOOLEAN
    /\ retries \in Nat \ {0}

VARIABLES
    main,       \* the main goroutine: what it does next
    attempts,   \* of the backoff
    goroutine,  \* goroutine[c]: the background goroutine of component c
    failed,     \* the components whose Serve failed
    stopped,    \* the components told to stop
    shutdown,   \* Server.shutdown
    fatal,      \* whether fatalCh is closed
    signal,     \* whether the context passed to Wait is cancelled
    ok,         \* the result of Wait
    ready,      \* of the admin server
    gossip,     \* the gossip listeners: "none", "open" or "closed"
    leave       \* the goroutine of Gossip.Leave

vars == <<main, attempts, goroutine, failed, stopped, shutdown, fatal, signal,
          ok, ready, gossip, leave>>

Component == {"admin", "upstream", "rebalance", "proxy"}

Exited == main \in {"done", "failed"}

-----------------------------------------------------------------------------
(***************************************************************************)
(* NewServer and Start.                                                    *)
(***************************************************************************)
Started(C) == goroutine' = [c \in Component |-> IF c \in C THEN "running" ELSE goroutine[c]]

\* The proxy, upstream and admin listeners open, or one fails.
Listen ==
    /\ main = "listen"
    /\ main' \in {"new", "failed"}
    /\ UNCHANGED <<attempts, goroutine, failed, stopped, shutdown, fatal, signal,
                   ok, ready, gossip, leave>>

\* Loading a certificate or a key may fail.
NewServer ==
    /\ main = "new"
    /\ main' \in {"start", "failed"}
    /\ UNCHANGED <<attempts, goroutine, failed, stopped, shutdown, fatal, signal,
                   ok, ready, gossip, leave>>

StartAdmin ==
    /\ main = "start"
    /\ main' = "gossip"
    /\ Started({"admin"})
    /\ UNCHANGED <<attempts, failed, stopped, shutdown, fatal, signal, ok, ready,
                   gossip, leave>>

StartGossip ==
    /\ main = "gossip"
    /\ \/ main' = "boot" /\ gossip' = "open"
       \/ main' = "failed" /\ UNCHANGED gossip
    /\ UNCHANGED <<attempts, goroutine, failed, stopped, shutdown, fatal, signal,
                   ok, ready, leave>>

\* One attempt to join: whether it joined a node decides what follows ready.
JoinOnBoot ==
    /\ main = "boot"
    /\ main' \in {"serveJoined", "serveAlone"}
    /\ UNCHANGED <<attempts, goroutine, failed, stopped, shutdown, fatal, signal,
                   ok, ready, gossip, leave>>

\* Mutant: ready before the servers are started.
ServeReady ==
    /\ main \in {"serveJoined", "serveAlone"}
    /\ ready' = TRUE
    /\ main' = IF main = "serveJoined" THEN "readyJoined" ELSE "readyAlone"
    /\ UNCHANGED <<attempts, goroutine, failed, stopped, shutdown, fatal, signal,
                   ok, gossip, leave>>

Serve ==
    /\ main \in {"serveJoined", "serveAlone"}
    /\ Started({"upstream", "proxy"} \cup (IF Threshold THEN {"rebalance"} ELSE {}))
    /\ main' = IF main = "serveJoined" THEN "readyJoined" ELSE "readyAlone"
    /\ UNCHANGED <<attempts, failed, stopped, shutdown, fatal, signal, ok, ready,
                   gossip, leave>>

SetReady ==
    /\ main \in {"readyJoined", "readyAlone"}
    /\ ready' = TRUE
    /\ main' = IF main = "readyJoined" THEN "wait" ELSE "join"
    /\ UNCHANGED <<attempts, goroutine, failed, stopped, shutdown, fatal, signal,
                   ok, gossip, leave>>

\* JoinOnStartup returns an error, which aborts the node or does not, as
\* AbortIfJoinFails configures.
JoinFails == main' \in {"failed", "wait"}

\* Backoff.Backoff of pkg/backoff: whether to try again.
Retry == attempts <= retries

\* An attempt of JoinOnStartup.
Join ==
    /\ main = "join"
    /\ \/ main' = "wait" /\ UNCHANGED attempts
       \/ ~Retry /\ JoinFails /\ UNCHANGED attempts
       \/ Retry /\ attempts' = attempts + 1 /\ main' = "backoff"
    /\ UNCHANGED <<goroutine, failed, stopped, shutdown, fatal, signal, ok, ready,
                   gossip, leave>>

\* The backoff or JoinTimeout passes.
Backoff ==
    /\ main = "backoff"
    /\ main' = "join" \/ JoinFails
    /\ UNCHANGED <<attempts, goroutine, failed, stopped, shutdown, fatal, signal,
                   ok, ready, gossip, leave>>

-----------------------------------------------------------------------------
(***************************************************************************)
(* Wait and Shutdown.                                                      *)
(***************************************************************************)
Wait ==
    /\ main = "wait"
    /\ \/ signal /\ ok' = TRUE
       \/ fatal /\ ok' = FALSE
    /\ main' = "shutdown"
    /\ UNCHANGED <<attempts, goroutine, failed, stopped, shutdown, fatal, signal,
                   ready, gossip, leave>>

\* Mutant: the shutdown is not announced to the goroutines.
ShutdownQuietly ==
    /\ main = "shutdown"
    /\ ready' = FALSE
    /\ main' = "upstream"
    /\ UNCHANGED <<attempts, goroutine, failed, stopped, shutdown, fatal, signal,
                   ok, gossip, leave>>

Shutdown ==
    /\ main = "shutdown"
    /\ shutdown' = TRUE
    /\ ready' = FALSE
    /\ main' = "upstream"
    /\ UNCHANGED <<attempts, goroutine, failed, stopped, fatal, signal, ok,
                   gossip, leave>>

\* Mutant: rebalancing is not cancelled.
ShutdownUpstreamOnly ==
    /\ main = "upstream"
    /\ stopped' = stopped \cup {"upstream"}
    /\ main' = "proxy"
    /\ UNCHANGED <<attempts, goroutine, failed, shutdown, fatal, signal, ok,
                   ready, gossip, leave>>

ShutdownUpstream ==
    /\ main = "upstream"
    /\ stopped' = stopped \cup {"upstream", "rebalance"}
    /\ main' = "proxy"
    /\ UNCHANGED <<attempts, goroutine, failed, shutdown, fatal, signal, ok,
                   ready, gossip, leave>>

ShutdownProxy ==
    /\ main = "proxy"
    /\ stopped' = stopped \cup {"proxy"}
    /\ main' = "leave"
    /\ UNCHANGED <<attempts, goroutine, failed, shutdown, fatal, signal, ok,
                   ready, gossip, leave>>

StartLeave ==
    /\ main = "leave"
    /\ leave' = "started"
    /\ main' = "left"
    /\ UNCHANGED <<attempts, goroutine, failed, stopped, shutdown, fatal, signal,
                   ok, ready, gossip>>

\* The goroutine marks the node as left, then notifies other nodes.
Leave ==
    /\ leave \in {"started", "local"}
    /\ ~Exited
    /\ leave' = IF leave = "started" THEN "local" ELSE "notified"
    /\ UNCHANGED <<main, attempts, goroutine, failed, stopped, shutdown, fatal,
                   signal, ok, ready, gossip>>

\* Leave returns, or the grace period is over; then the listeners close.
CloseGossip ==
    /\ main = "left"
    /\ gossip' = "closed"
    /\ main' = "admin"
    /\ UNCHANGED <<attempts, goroutine, failed, stopped, shutdown, fatal, signal,
                   ok, ready, leave>>

ShutdownAdmin ==
    /\ main = "admin"
    /\ stopped' = stopped \cup {"admin"}
    /\ main' = "wg"
    /\ UNCHANGED <<attempts, goroutine, failed, shutdown, fatal, signal, ok,
                   ready, gossip, leave>>

WaitGroup ==
    /\ main = "wg"
    /\ \A c \in Component : goroutine[c] \in {"none", "finished"}
    /\ main' = "done"
    /\ UNCHANGED <<attempts, goroutine, failed, stopped, shutdown, fatal, signal,
                   ok, ready, gossip, leave>>

-----------------------------------------------------------------------------
(***************************************************************************)
(* runGoroutine, and the signal.                                           *)
(***************************************************************************)
Stops(c) ==
    /\ goroutine[c] = "running"
    /\ c \in stopped
    /\ goroutine' = [goroutine EXCEPT ![c] = "returned"]
    /\ UNCHANGED <<main, attempts, failed, stopped, shutdown, fatal, signal, ok,
                   ready, gossip, leave>>

\* Serve fails; the loop of rebalance does not.
Fails(c) ==
    /\ goroutine[c] = "running"
    /\ c # "rebalance" /\ c \notin stopped
    /\ ~Exited
    /\ goroutine' = [goroutine EXCEPT ![c] = "returned"]
    /\ failed' = failed \cup {c}
    /\ UNCHANGED <<main, attempts, stopped, shutdown, fatal, signal, ok, ready,
                   gossip, leave>>

\* Mutant: the failure of a server is only logged.
FinishQuietly(c) ==
    /\ goroutine[c] = "returned"
    /\ goroutine' = [goroutine EXCEPT ![c] = "finished"]
    /\ UNCHANGED <<main, attempts, failed, stopped, shutdown, fatal, signal, ok,
                   ready, gossip, leave>>

\* It is fatal when the server has not been shut down.
Finish(c) ==
    /\ goroutine[c] = "returned"
    /\ goroutine' = [goroutine EXCEPT ![c] = "finished"]
    /\ fatal' = (fatal \/ ~shutdown)
    /\ UNCHANGED <<main, attempts, failed, stopped, shutdown, signal, ok, ready,
                   gossip, leave>>

Signal ==
    /\ ~signal /\ ~Exited
    /\ signal' = TRUE
    /\ UNCHANGED <<main, attempts, goroutine, failed, stopped, shutdown, fatal, ok,
                   ready, gossip, leave>>

-----------------------------------------------------------------------------
Init ==
    /\ main = "listen"
    /\ attempts = 0
    /\ goroutine = [c \in Component |-> "none"]
    /\ failed = {}
    /\ stopped = {}
    /\ shutdown = FALSE
    /\ fatal = FALSE
    /\ signal = FALSE
    /\ ok = TRUE
    /\ ready = FALSE
    /\ gossip = "none"
    /\ leave = "none"

Main ==
    \/ Listen \/ NewServer \/ StartAdmin \/ StartGossip \/ JoinOnBoot \/ Serve \/ SetReady
    \/ Join \/ Backoff \/ Wait \/ Shutdown \/ ShutdownUpstream \/ ShutdownProxy
    \/ StartLeave \/ CloseGossip \/ ShutdownAdmin \/ WaitGroup

Next ==
    \/ Main
    \/ Leave
    \/ Signal
    \/ \E c \in Component : Stops(c) \/ Fails(c) \/ Finish(c)

Spec == Init /\ [][Next]_vars

\* A goroutine that can run does.
Fairness ==
    /\ WF_vars(Main)
    /\ \A c \in Component : WF_vars(Stops(c)) /\ WF_vars(Finish(c))

FairSpec == Spec /\ Fairness

-----------------------------------------------------------------------------
(***************************************************************************)
(* Properties.                                                             *)
(***************************************************************************)

\* /ready answers OK only while both servers run or have failed, none has been
\* told to stop, and other nodes can gossip with this one.
ReadyServes ==
    ready => /\ goroutine["upstream"] # "none" /\ goroutine["proxy"] # "none"
             /\ stopped = {}
             /\ gossip = "open"

\* A fatal error is reported only when a server failed, not because one
\* returned after it had been shut down.
FatalIsFailure == fatal => failed # {}

\* A server that fails, at whatever point of Start or after it, brings the node
\* down: the node does not stay up, reporting ready, without it.
FailureStops == failed # {} ~> Exited

\* A signal stops the node, though neither Start nor a join in progress looks at
\* it: Shutdown waits for every goroutine, and every one returns.
SignalStops == signal ~> Exited

\* A bound on the steps the main goroutine has left at m, after so many attempts
\* to join, apart from what it waits for in Wait and for the goroutines.
StepsFrom(m, tried) ==
    LET joining == 2 * (retries + 1 - tried)
    IN  CASE m = "listen" -> joining + 16
          [] m = "new" -> joining + 15
          [] m = "start" -> joining + 14
          [] m = "gossip" -> joining + 13
          [] m = "boot" -> joining + 12
          [] m \in {"serveJoined", "serveAlone"} -> joining + 11
          [] m \in {"readyJoined", "readyAlone", "backoff"} -> joining + 10
          [] m = "join" -> joining + 9
          [] m = "wait" -> 8
          [] m = "shutdown" -> 7
          [] m = "upstream" -> 6
          [] m = "proxy" -> 5
          [] m = "leave" -> 4
          [] m = "left" -> 3
          [] m = "admin" -> 2
          [] m = "wg" -> 1
          [] OTHER -> 0

StepsLeft == StepsFrom(main, attempts)

\* Start, Wait and Shutdown go forward only, however many attempts to join fail
\* (Backoff): every step of the main goroutine uses up one of those left.
MainAdvances ==
    [][StepsLeft' \in Nat /\ (main' = main => StepsLeft' = StepsLeft)
         /\ (main' # main => StepsLeft' < StepsLeft)]_vars

\* A failure is not missed: while Wait waits, fatalCh is closed or the goroutine
\* of the server that failed is about to close it (runGoroutine).
FailureIsNoticed ==
    main = "wait" => \A c \in failed : fatal \/ goroutine[c] = "returned"

\* Shutdown waits only for goroutines that were told to stop.
WaitsForStopped ==
    main = "wg" => \A c \in Component : goroutine[c] = "running" => c \in stopped
=============================================================================
