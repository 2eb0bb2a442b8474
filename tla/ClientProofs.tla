---------------------------- MODULE ClientProofs ----------------------------
(***************************************************************************)
(* Proofs that a client abandons no session, for any number of sessions    *)
(* and connections.                                                        *)
(*                                                                         *)
(* ReplacedIsClosed is not inductive: that Install overwrites listener.sess*)
(* loses no session because Replace has closed it (the last conjunct of    *)
(* Inv), and nothing reopens it in between, whoever else calls Close.      *)
(***************************************************************************)
EXTENDS Client, TLAPS

Types ==
    /\ pc \in {"dial", "backoff", "replace", "install", "accept", "stop", "returned"}
    /\ status \in [Session -> {"none", "open", "away"} \cup Gone]
    /\ sess \in 0..MaxSessions
    /\ dialled \in 0..MaxSessions

Inv ==
    /\ Types
    /\ pc \in {"accept", "stop"} => sess # 0
    /\ dialled # 0 <=> pc \in {"replace", "install"}
    /\ ReplacedIsClosed
    /\ ForwarderReleases
    /\ pc = "install" /\ sess # 0 => status[sess] = "closed"

LEMMA InitInv == Init => Inv
BY SessionsAssumption DEF Init, Inv, Types, ReplacedIsClosed, ForwarderReleases, Session, Gone

\* The goroutine that connects and accepts.
LEMMA ConnectStep ==
    ASSUME Inv, Connect \/ AcceptFails \/ Stop
    PROVE  Inv'
<1> USE SessionsAssumption DEF Inv, Types, ReplacedIsClosed, ForwarderReleases, Session, Gone
<1>1. CASE DialOK
  <2>1. PICK s \in Session : /\ \A t \in Session : status[t] = "none" <=> t >= s
                             /\ status' = [status EXCEPT ![s] = "open"]
                             /\ dialled' = s
    BY <1>1 DEF DialOK
  <2>2. pc = "dial" /\ pc' = "replace" /\ sess' = sess /\ user' = user
    BY <1>1 DEF DialOK
  <2> QED  BY <2>1, <2>2
<1>2. CASE DialFails
  BY <1>2 DEF DialFails, Fails
<1>3. CASE Backoff
  BY <1>3 DEF Backoff, Fails
<1>4. CASE Replace
  BY <1>4 DEF Replace
<1>5. CASE Install
  BY <1>5 DEF Install
<1>6. CASE AcceptFails
  BY <1>6 DEF AcceptFails, Fails
<1>7. CASE Stop
  BY <1>7 DEF Stop, Closed
<1> QED  BY <1>1, <1>2, <1>3, <1>4, <1>5, <1>6, <1>7 DEF Connect

\* What others do leaves listener.sess alone, and changes the status of a
\* session only towards "closed" or from "open" or "away".
LEMMA OtherStep ==
    ASSUME Inv, UNCHANGED <<user, pc, sess, dialled>>,
           status' \in [Session -> {"none", "open", "away"} \cup Gone],
           \A s \in Session : \/ status'[s] \in {status[s], "closed"}
                              \/ status[s] \in {"open", "away"}
    PROVE  Inv'
BY SessionsAssumption DEF Inv, Types, ReplacedIsClosed, ForwarderReleases, Session, Gone

LEMMA NextInv ==
    ASSUME Inv, [Next]_vars
    PROVE  Inv'
<1> DEFINE Goal == Inv'
<1>0. ASSUME UNCHANGED <<user, pc, sess, dialled, status>> PROVE Goal
  <2>1. status' \in [Session -> {"none", "open", "away"} \cup Gone]
    BY <1>0 DEF Inv, Types
  <2> QED  BY <1>0, <2>1, OtherStep
<1>1. ASSUME Connect \/ AcceptFails \/ Stop PROVE Goal
  BY <1>1, ConnectStep
<1>2. ASSUME Cancel PROVE Goal
  BY <1>0, <1>2 DEF Cancel
<1>3. ASSUME NEW f \in {"Close", "Shutdown"}, CallCancels(f) PROVE Goal
  BY <1>0, <1>3 DEF CallCancels
<1>4. ASSUME NEW f \in {"Close", "Shutdown"}, CallReturns(f) PROVE Goal
  <2>1. PICK s \in 1..sess : status' = IF f = "Shutdown" THEN Closed(s) ELSE GoAway(s)
    BY <1>4 DEF CallReturns
  <2>2. /\ status' \in [Session -> {"none", "open", "away"} \cup Gone]
        /\ \A t \in Session : \/ status'[t] \in {status[t], "closed"}
                              \/ status[t] \in {"open", "away"}
    BY <2>1 DEF Inv, Types, Closed, GoAway, Gone
  <2> QED  BY <1>4, <2>2, OtherStep DEF CallReturns
<1>5. ASSUME NEW c \in Conn, AcceptConn(c) \/ Forward(c) \/ SideCloses(c) PROVE Goal
  BY <1>0, <1>5 DEF AcceptConn, Forward, SideCloses, DialAddr, SessionEnds, CopyEnds, Step
<1>6. ASSUME NEW s \in Session, Lose(s) PROVE Goal
  <2>1. /\ status' \in [Session -> {"none", "open", "away"} \cup Gone]
        /\ \A t \in Session : \/ status'[t] \in {status[t], "closed"}
                              \/ status[t] \in {"open", "away"}
    BY <1>6 DEF Inv, Types, Lose, Gone
  <2> QED  BY <1>6, <2>1, OtherStep DEF Lose
<1>7. ASSUME UNCHANGED vars PROVE Goal
  BY <1>0, <1>7 DEF vars
<1> HIDE DEF Goal
<1>8. Goal
  BY <1>1, <1>2, <1>3, <1>4, <1>5, <1>6, <1>7 DEF Next
<1> QED  BY <1>8 DEF Goal

LEMMA InvAlways == Spec => []Inv
BY InitInv, NextInv, PTL DEF Spec

\* However often the listener reconnects and whenever Close or Shutdown is
\* called, with whichever listener.sess they read, every session that connect
\* opened is closed before listener.connect drops it.
THEOREM SessionsAreClosed == Spec => []ReplacedIsClosed
<1>1. Inv => ReplacedIsClosed
  BY DEF Inv
<1> QED  BY <1>1, InvAlways, PTL

\* A forwarder that has returned, whichever error or call ended it, has closed
\* every session it opened.
THEOREM ForwarderHoldsNothing == Spec => []ForwarderReleases
<1>1. Inv => ForwarderReleases
  BY DEF Inv
<1> QED  BY <1>1, InvAlways, PTL
=============================================================================
