------------------------------- MODULE Client -------------------------------
(***************************************************************************)
(* The upstream client (client/): a listener that reconnects when its      *)
(* session to the server is lost (upstream.go, listener.go), and the       *)
(* forwarder that accepts connections from it (forwarder.go).              *)
(*                                                                         *)
(* The goroutines are the one that connects and then accepts (pc), the     *)
(* calls of Close and Shutdown (call), and one per accepted connection     *)
(* (conn).  No mutex protects listener.sess.                               *)
(*                                                                         *)
(* yamux and WebSocket are external.  A session is open; away, once the    *)
(* listener has said it accepts no more; closed by the client; or its      *)
(* transport is gone: ended by a WebSocket close, which reads as           *)
(* net.ErrClosed (pkg/websocket/conn.go), or lost with any other error.    *)
(***************************************************************************)
EXTENDS Integers

CONSTANTS
    Conn,           \* bound: the connections accepted
    MaxSessions     \* bound: the sessions opened

ASSUME SessionsAssumption == MaxSessions \in Nat \ {0}

Session == 1..MaxSessions

VARIABLES
    user,       \* of what: a "forwarder", or a "listener" used directly
    pc,         \* the connecting and accepting goroutine
    err,        \* the error that ended it
    status,     \* status[s]: of session s
    sess,       \* listener.sess; 0 is nil
    dialled,    \* the session that Upstream.connect has returned; 0 is nil
    ctx,        \* whether the context passed to Listen, or the group's, is cancelled
    closeCtx,   \* whether listener.closeCtx is cancelled
    call,       \* call[f]: how far the call of f by the user is
    conn        \* conn[c]: of an accepted connection, its session and step

vars == <<user, pc, err, status, sess, dialled, ctx, closeCtx, call, conn>>

Gone == {"ended", "lost", "closed"}

Unused == [step |-> "none", session |-> 0]

-----------------------------------------------------------------------------
(***************************************************************************)
(* Upstream.connect and listener.connect: by Listen with its context, by   *)
(* AcceptWithContext with closeCtx.                                        *)
(***************************************************************************)
Cancelled == IF sess = 0 THEN ctx ELSE closeCtx

\* connect returns an error: to the caller of Listen, or from
\* AcceptWithContext, which ends the forwarder's accept loop.
Fails(e) ==
    /\ err' = e
    /\ pc' = IF sess = 0 THEN "returned" ELSE "stop"

DialOK ==
    /\ pc = "dial"
    /\ ~Cancelled
    /\ \E s \in Session :
          /\ \A t \in Session : status[t] = "none" <=> t >= s
          /\ status' = [status EXCEPT ![s] = "open"]
          /\ dialled' = s
    /\ pc' = "replace"
    /\ UNCHANGED <<user, err, sess, ctx, closeCtx, call, conn>>

\* The dial fails: the server answers with a status that is not retryable, or
\* there is a reason to try again later.
DialFails ==
    /\ pc = "dial"
    /\ \/ Cancelled /\ Fails("cancelled")
       \/ ~Cancelled /\ Fails("refused")
       \/ ~Cancelled /\ pc' = "backoff" /\ UNCHANGED err
    /\ UNCHANGED <<user, status, sess, dialled, ctx, closeCtx, call, conn>>

Backoff ==
    /\ pc = "backoff"
    /\ \/ pc' = "dial" /\ UNCHANGED err
       \/ Cancelled /\ Fails("cancelled")
    /\ UNCHANGED <<user, status, sess, dialled, ctx, closeCtx, call, conn>>

\* Mutant: the previous session is abandoned.
ReplaceOnly ==
    /\ pc = "replace"
    /\ pc' = "install"
    /\ UNCHANGED <<user, err, status, sess, dialled, ctx, closeCtx, call, conn>>

\* The previous session is closed ...
Replace ==
    /\ pc = "replace"
    /\ pc' = "install"
    /\ status' = [s \in Session |-> IF s = sess THEN "closed" ELSE status[s]]
    /\ UNCHANGED <<user, err, sess, dialled, ctx, closeCtx, call, conn>>

\* ... before it is replaced.
Install ==
    /\ pc = "install"
    /\ pc' = "accept"
    /\ sess' = dialled
    /\ dialled' = 0
    /\ UNCHANGED <<user, err, status, ctx, closeCtx, call, conn>>

-----------------------------------------------------------------------------
(***************************************************************************)
(* AcceptWithContext, and the accept loop around it.  A listener accepts   *)
(* without a context.                                                      *)
(***************************************************************************)
AcceptCancelled == user = "forwarder" /\ ctx

AcceptConn(c) ==
    /\ pc = "accept"
    /\ status[sess] = "open"
    /\ conn[c] = Unused
    /\ conn' = [conn EXCEPT ![c] = [step |-> "dial", session |-> sess]]
    /\ UNCHANGED <<user, pc, err, status, sess, dialled, ctx, closeCtx, call>>

\* Mutant: a lost session is taken for a closed one.
AcceptFailsClosed ==
    /\ pc = "accept"
    /\ AcceptCancelled \/ status[sess] \in Gone
    /\ pc' = "stop"
    /\ err' = IF AcceptCancelled THEN "cancelled" ELSE "ErrClosed"
    /\ UNCHANGED <<user, status, sess, dialled, ctx, closeCtx, call, conn>>

\* AcceptStreamWithContext fails: the context is cancelled, or the session is
\* closed, or it is lost and the listener reconnects.
AcceptFails ==
    /\ pc = "accept"
    /\ \/ AcceptCancelled /\ Fails("cancelled")
       \/ ~AcceptCancelled /\ status[sess] \in {"closed", "ended"} /\ Fails("ErrClosed")
       \/ ~AcceptCancelled /\ status[sess] = "lost" /\ pc' = "dial" /\ UNCHANGED err
    /\ UNCHANGED <<user, status, sess, dialled, ctx, closeCtx, call, conn>>

\* listener.Shutdown, and listener.Close, of session s after closeCancel.
Closed(s) == [status EXCEPT ![s] = "closed"]

GoAway(s) == [status EXCEPT ![s] = IF @ = "open" THEN "away" ELSE @]

\* Mutant: Close instead of Shutdown.
StopGoAway ==
    /\ pc = "stop"
    /\ pc' = "returned"
    /\ IF user = "forwarder"
       THEN closeCtx' = TRUE /\ status' = GoAway(sess) /\ ctx' = TRUE
       ELSE UNCHANGED <<closeCtx, status, ctx>>
    /\ UNCHANGED <<user, err, sess, dialled, call, conn>>

\* The forwarder's deferred Shutdown.  Then the error cancels the group's
\* context.
Stop ==
    /\ pc = "stop"
    /\ pc' = "returned"
    /\ IF user = "forwarder"
       THEN closeCtx' = TRUE /\ status' = Closed(sess) /\ ctx' = TRUE
       ELSE UNCHANGED <<closeCtx, status, ctx>>
    /\ UNCHANGED <<user, err, sess, dialled, call, conn>>

-----------------------------------------------------------------------------
(***************************************************************************)
(* The user: cancels the context; calls Close or Shutdown of the listener, *)
(* or Close of the forwarder, which is Shutdown.                           *)
(***************************************************************************)
Calls == IF user = "listener" THEN {"Close", "Shutdown"} ELSE {"Shutdown"}

Cancel ==
    /\ ~ctx
    /\ ctx' = TRUE
    /\ UNCHANGED <<user, pc, err, status, sess, dialled, closeCtx, call, conn>>

CallCancels(f) ==
    /\ f \in Calls
    /\ call[f] = "none"
    /\ sess # 0  \* Listen has returned
    /\ call' = [call EXCEPT ![f] = "cancelled"]
    /\ closeCtx' = TRUE
    /\ UNCHANGED <<user, pc, err, status, sess, dialled, ctx, conn>>

\* listener.sess is read without synchronisation, so it may be one that has
\* been replaced.
CallReturns(f) ==
    /\ call[f] = "cancelled"
    /\ call' = [call EXCEPT ![f] = "returned"]
    /\ \E s \in 1..sess : status' = IF f = "Shutdown" THEN Closed(s) ELSE GoAway(s)
    /\ UNCHANGED <<user, pc, err, sess, dialled, ctx, closeCtx, conn>>

-----------------------------------------------------------------------------
(***************************************************************************)
(* Forwarder.forward, and tcpproxy.Server.serveConn of the agent           *)
(* (agent/tcpproxy): dial the address, then copy in both directions.       *)
(***************************************************************************)
Step(c, step) ==
    /\ conn' = [conn EXCEPT ![c].step = step]
    /\ UNCHANGED <<user, pc, err, status, sess, dialled, ctx, closeCtx, call>>

\* A dial of the forwarder is cancelled with its context.
DialAddr(c) ==
    /\ conn[c].step = "dial"
    /\ \/ Step(c, "done")
       \/ ~AcceptCancelled /\ Step(c, "copy")

\* One side closes the connection.  The copy from it ends, and closes the other
\* side.
SideCloses(c) ==
    /\ conn[c].step = "copy"
    /\ Step(c, "half")

\* The session is gone, so that the copy from it ends.
SessionEnds(c) ==
    /\ conn[c].step = "copy"
    /\ status[conn[c].session] \in Gone
    /\ Step(c, "half")

\* The other copy ends, its source being closed.
CopyEnds(c) ==
    /\ conn[c].step = "half"
    /\ Step(c, "done")

-----------------------------------------------------------------------------
\* The transport goes.
Lose(s) ==
    /\ status[s] \in {"open", "away"}
    /\ s < MaxSessions
    /\ \E st \in {"ended", "lost"} : status' = [status EXCEPT ![s] = st]
    /\ UNCHANGED <<user, pc, err, sess, dialled, ctx, closeCtx, call, conn>>

Init ==
    /\ user \in {"forwarder", "listener"}
    /\ pc = "dial"
    /\ err = "none"
    /\ status = [s \in Session |-> "none"]
    /\ sess = 0
    /\ dialled = 0
    /\ ctx = FALSE
    /\ closeCtx = FALSE
    /\ call = [f \in {"Close", "Shutdown"} |-> "none"]
    /\ conn = [c \in Conn |-> Unused]

Connect == DialOK \/ DialFails \/ Backoff \/ Replace \/ Install

Forward(c) == DialAddr(c) \/ SessionEnds(c) \/ CopyEnds(c)

Next ==
    \/ Connect \/ AcceptFails \/ Stop
    \/ Cancel
    \/ \E f \in {"Close", "Shutdown"} : CallCancels(f) \/ CallReturns(f)
    \/ \E c \in Conn : AcceptConn(c) \/ Forward(c) \/ SideCloses(c)
    \/ \E s \in Session : Lose(s)

Spec == Init /\ [][Next]_vars

\* A goroutine that can run does; a server that is tried again and again is
\* reached in the end; and what a connection is forwarded to reads what it is
\* sent.
Fairness ==
    /\ WF_vars(Connect \/ AcceptFails \/ Stop)
    /\ SF_vars(DialOK)
    /\ \A f \in {"Close", "Shutdown"} : WF_vars(CallReturns(f))
    /\ \A c \in Conn : WF_vars(Forward(c))

FairSpec == Spec /\ Fairness

-----------------------------------------------------------------------------
(***************************************************************************)
(* Properties.                                                             *)
(***************************************************************************)

\* No session is abandoned: every session ever opened has been closed, but for
\* the listener's and the one connect is about to store, however often it
\* reconnected and whenever it was closed.
ReplacedIsClosed ==
    \A s \in Session : status[s] \in {"none", "closed"} \/ s \in {sess, dialled}

\* A forwarder that has ended, for whatever reason, holds no session.
ForwarderReleases ==
    user = "forwarder" /\ pc = "returned" =>
        \A s \in Session : status[s] \in {"none", "closed"}

\* A listener recovers from the loss of its connection, however often it is
\* lost and whatever the dials meet: it accepts on an open session again,
\* unless the user closes or cancels it, the server refuses it or ends the
\* WebSocket.
Reconnects ==
    pc = "accept" /\ status[sess] = "lost" ~>
        \/ pc = "accept" /\ status[sess] \in {"open", "ended"}
        \/ ctx \/ closeCtx \/ err = "refused"

\* Wait returns: a forwarder whose context is cancelled stops accepting, and
\* every connection it forwards ends, though a copy does not look at the
\* context.
CancelStops ==
    user = "forwarder" /\ ctx ~>
        pc = "returned" /\ \A c \in Conn : conn[c].step \in {"none", "done"}

\* "Close stops the forwarder and closes the underlying connection to the Piko
\* server, tearing down all connections multiplexed over it"
\* (Forwarder.Close, client/forwarder.go:59).
CloseStops ==
    user = "forwarder" /\ call["Shutdown"] = "returned" ~> pc = "returned"
=============================================================================
