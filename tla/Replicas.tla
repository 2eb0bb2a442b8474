------------------------------ MODULE Replicas ------------------------------
(***************************************************************************)
(* What pkg/gossip promises its user (the Watcher of a node), without      *)
(* messages: each node replicates the state of every other.  An owner      *)
(* writes new versions; a replica catches up, or is forgotten as expired.  *)
(* A replica never passes its owner or goes back and, unless its owner     *)
(* was ever forgotten, it is the owner's state at a version: it lacks      *)
(* nothing up to its version, and at the owner's version it is the same.   *)
(***************************************************************************)
EXTENDS Integers

CONSTANT Node

VARIABLES
    replica,   \* replica[n][o]: what n holds about o; replica[o][o] is o's own
    forgotten  \* the nodes that some node has removed as expired

vars == <<replica, forgotten>>

Owner(o) == replica[o][o]

Initial(n, o) == [known |-> n = o, version |-> 0, entries |-> {}, left |-> FALSE]

\* r is what an owner in state w may have told, in full, up to r's version.
Faithful(r, w) ==
    /\ \A e \in w.entries : e.version <= r.version => e \in r.entries
    /\ r.version = w.version => r.entries = w.entries /\ r.left = w.left

\* r may be a replica of o.
Allowed(r, o) ==
    /\ r.version <= Owner(o).version
    /\ r.left => Owner(o).left
    /\ o \notin forgotten => Faithful(r, Owner(o))

\* A replica r later becomes s.
Forward(r, s) ==
    r.known => s.known /\ r.version <= s.version /\ (r.left => s.left)

-----------------------------------------------------------------------------
Init ==
    /\ replica = [n \in Node |-> [o \in Node |-> Initial(n, o)]]
    /\ forgotten = {}

\* Owner o writes: every replica of o stays one.
Write(o) ==
    /\ Owner(o).version < Owner(o)'.version
    /\ Forward(Owner(o), Owner(o)')
    /\ \A n, p \in Node : n # o \/ p # o => replica'[n][p] = replica[n][p]
    /\ \A n \in Node : Allowed(replica[n][o], o)'
    /\ UNCHANGED forgotten

\* Node n learns of the others' states.
CatchUp(n) ==
    /\ \A m, o \in Node : m # n \/ o = n => replica'[m][o] = replica[m][o]
    /\ \A o \in Node : /\ Forward(replica[n][o], replica'[n][o])
                       /\ Allowed(replica[n][o], o)'
    /\ UNCHANGED forgotten

\* Node n forgets the nodes of S.
Forget(n, S) ==
    /\ \A m, o \in Node : m # n \/ o \notin S => replica'[m][o] = replica[m][o]
    /\ \A o \in S : replica[n][o].known /\ replica'[n][o] = Initial(n, o)
    /\ forgotten' = forgotten \cup S

Next ==
    \E n \in Node : \/ Write(n)
                    \/ CatchUp(n)
                    \/ \E S \in SUBSET (Node \ {n}) : Forget(n, S)

Spec == Init /\ [][Next]_vars
=============================================================================
