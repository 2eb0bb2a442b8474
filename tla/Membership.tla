----------------------------- MODULE Membership -----------------------------
(***************************************************************************)
(* How long a node stays a member once it falls silent: the failure        *)
(* detector (pkg/gossip/failuredetector.go) and the expiry and tombstones  *)
(* of clusterState (pkg/gossip/state.go), with time.                       *)
(*                                                                         *)
(* Gossip lets the detector suspect anyone and an expiry pass at any time. *)
(* Here they pass when they do.  The periodic tasks run at least once in a *)
(* tick.  A time is its distance from now: the age of a lastTimestamp,     *)
(* what is left until an Expiry, the age of a tombstone.  The messages of  *)
(* a round take less than a tick; the entries they carry are left out, and *)
(* so is leaving (see Gossip).                                             *)
(***************************************************************************)
EXTENDS Integers, FiniteSets, Sequences

CONSTANTS
    Node,
    Watch,               \* bound: <<n, o>>, n may lose track of o; else they know each other
    sampleSize,          \* of a window
    bootstrapInterval,   \* the first interval of a window, in ticks
    suspicionThreshold,
    nodeExpiry,          \* in ticks
    Gaps,                \* bound: Gaps[w] are the intervals between reports
    MayCrash             \* bound: the nodes that may crash

\* How long a node is remembered that was removed.
nodeTombstoneExpiry == nodeExpiry * 2

\* The longest silence that tells windows apart.
MaxAge(w) == suspicionThreshold * (CHOOSE g \in Gaps[w] : \A h \in Gaps[w] : h <= g) + 1

ASSUME MembershipAssumption ==
    /\ Watch \subseteq {w \in Node \X Node : w[1] # w[2]}
    /\ {sampleSize, bootstrapInterval, suspicionThreshold, nodeExpiry} \subseteq Nat \ {0}
    /\ sampleSize > 1   \* it is 50 (gossip.go)
    /\ \A w \in Watch : Gaps[w] \subseteq Nat /\ IsFiniteSet(Gaps[w])
                          /\ \E g \in Gaps[w] : bootstrapInterval <= g
    /\ MayCrash \subseteq Node

VARIABLES
    windows,     \* windows[w]: n's arrivalWindow of o, for w = <<n, o>>, or NoWindow
    members,     \* members[w]: o in n's clusterState.nodes
    tombstones,  \* tombstones[w]: the age of n's tombstone of o, or NoTombstone
    crashed,     \* the nodes that have crashed
    arrivals     \* history: the intervals windows[w] was given, latest first

vars == <<windows, members, tombstones, crashed, arrivals>>

-----------------------------------------------------------------------------
(***************************************************************************)
(* arrivalIntervals and arrivalWindow.                                     *)
(***************************************************************************)
NoWindow == [age |-> -1]

\* Mutant: the interval that is overwritten stays in the sum.
AddKeepsOld(w, interval) ==
    LET wraps == w.index = sampleSize
        at == IF wraps THEN 0 ELSE w.index
    IN  [w EXCEPT !.intervals[at] = interval, !.index = at + 1,
                  !.isFull = @ \/ wraps, !.sum = @ + interval]

\* arrivalIntervals.Add: a circular buffer and the sum of what it holds.
Add(w, interval) ==
    LET wraps == w.index = sampleSize
        full == w.isFull \/ wraps
        at == IF wraps THEN 0 ELSE w.index
    IN  [w EXCEPT !.intervals[at] = interval, !.index = at + 1, !.isFull = full,
                  !.sum = @ + interval - IF full THEN w.intervals[at] ELSE 0]

Size(w) == IF w.isFull THEN sampleSize ELSE w.index

\* Mutant: a window starts without the bootstrap interval.
NewWindowEmpty ==
    Add([age |-> 0, intervals |-> [i \in 0..sampleSize - 1 |-> 0],
         index |-> 0, isFull |-> FALSE, sum |-> 0], 0)

\* A window at its first report or check.
NewWindow ==
    Add([age |-> 0, intervals |-> [i \in 0..sampleSize - 1 |-> 0],
         index |-> 0, isFull |-> FALSE, sum |-> 0], bootstrapInterval)

\* arrivalWindow.Add of a window that exists.
AddReport(w) == [Add(w, w.age) EXCEPT !.age = 0]

\* Phi above the threshold, where phi is age / (sum / size).
Suspicious(w) == w.age * Size(w) > suspicionThreshold * w.sum

-----------------------------------------------------------------------------
(***************************************************************************)
(* What nodes say to each other.                                           *)
(***************************************************************************)
NoTombstone == -1

NotMember == [known |-> FALSE, unreachable |-> FALSE, ttl |-> 0]
NewMember == [NotMember EXCEPT !.known = TRUE]

\* The nodes that may lose track of others, the ones n may lose, and the ones
\* in n's clusterState.
Observers == {w[1] : w \in Watch}
Watched(n) == {o \in Node : <<n, o>> \in Watch}
Known(n) == {o \in Node : o \in Watched(n) => members[<<n, o>>].known}

\* A round of gossip starts with a node that is known, live or unreachable.
Talk(n, o) ==
    /\ n # o
    /\ {n, o} \cap crashed = {}
    /\ o \in Known(n) \/ n \in Known(o)

\* Mutant: tombstones are ignored.
AdmittedDespiteTombstone(n, o, ids) == {p \in ids \ Known(n) : <<n, p>> \in Watch}

\* The nodes of ids that n adds when o names them.
Admitted(n, o, ids) ==
    {p \in ids \ Known(n) : <<n, p>> \in Watch
                               /\ (tombstones[<<n, p>>] = NoTombstone \/ p = o)}

\* n adds nodes that o names.  Any part of a digest or delta may have been cut.
Learn(n, o) ==
    \E ids \in SUBSET (Known(o) \cap Watched(n)) :
        LET new == {<<n, p>> : p \in Admitted(n, o, ids)}
        IN  /\ members' = [w \in Watch |-> IF w \in new THEN NewMember ELSE members[w]]
            /\ tombstones' = [w \in Watch |-> IF w \in new THEN NoTombstone ELSE tombstones[w]]

ReceiveDigest(n, o) ==
    /\ Talk(n, o)
    /\ Learn(n, o)
    /\ UNCHANGED <<windows, crashed, arrivals>>

Arrives(w, interval) ==
    arrivals' = [arrivals EXCEPT ![w] =
                    SubSeq(<<interval>> \o @, 1, IF Len(@) < sampleSize THEN Len(@) + 1
                                                                        ELSE sampleSize)]

\* Report, with a time taken before the detector is locked: a check may have
\* created the window in between, so that the first interval is none.
Report(w) ==
    IF windows[w] = NoWindow
    THEN windows' = [windows EXCEPT ![w] = NewWindow] /\ Arrives(w, bootstrapInterval)
    ELSE /\ windows[w].age \in Gaps[w]
         /\ windows[w].age = 0 => Size(windows[w]) = 1
         /\ windows' = [windows EXCEPT ![w] = AddReport(@)]
         /\ Arrives(w, windows[w].age)

\* Only a delta is reported.
ReceiveDelta(n, o) ==
    /\ Talk(n, o)
    /\ IF <<n, o>> \in Watch THEN Report(<<n, o>>) ELSE UNCHANGED <<windows, arrivals>>
    /\ Learn(n, o)
    /\ UNCHANGED crashed

-----------------------------------------------------------------------------
(***************************************************************************)
(* The periodic tasks of n.                                                *)
(***************************************************************************)
Of(n) == {w \in Watch : w[1] = n}

\* SuspicionLevel of a node: one without a window gets its first.
Suspected(w) == windows[w] # NoWindow /\ Suspicious(windows[w])

UpdateLiveness(n) ==
    LET first == {w \in Of(n) : members[w].known /\ windows[w] = NoWindow}
        turned == {w \in Of(n) : members[w].known /\ members[w].unreachable # Suspected(w)}
    IN  /\ windows' = [w \in Watch |-> IF w \in first THEN NewWindow ELSE windows[w]]
        /\ arrivals' = [w \in Watch |-> IF w \in first THEN <<bootstrapInterval>> ELSE arrivals[w]]
        /\ members' = [w \in Watch |->
               IF w \in turned
               THEN [members[w] EXCEPT !.unreachable = Suspected(w),
                                       !.ttl = IF Suspected(w) THEN nodeExpiry ELSE 0]
               ELSE members[w]]
        /\ UNCHANGED <<tombstones, crashed>>

Expired(n) ==
    {w \in Of(n) : members[w].unreachable /\ members[w].ttl = 0}

Stale(n) == {w \in Of(n) : tombstones[w] > nodeTombstoneExpiry}

RemoveExpired(n) ==
    /\ members' = [w \in Watch |-> IF w \in Expired(n) THEN NotMember ELSE members[w]]
    /\ tombstones' = [w \in Watch |-> CASE w \in Expired(n) -> 0
                                        [] w \in Stale(n) \ Expired(n) -> NoTombstone
                                        [] OTHER -> tombstones[w]]
    /\ windows' = [w \in Watch |-> IF w \in Expired(n) THEN NoWindow ELSE windows[w]]
    /\ arrivals' = [w \in Watch |-> IF w \in Expired(n) THEN <<>> ELSE arrivals[w]]
    /\ UNCHANGED crashed

Periodic(n) == n \notin crashed /\ (UpdateLiveness(n) \/ RemoveExpired(n))

\* A node that runs has done both in this interval.
Due(n) ==
    \/ \E w \in Of(n) : members[w].known /\ (windows[w] = NoWindow \/ members[w].unreachable # Suspected(w))
    \/ Expired(n) \cup Stale(n) # {}

Tick ==
    /\ \A n \in Observers \ crashed : ~Due(n)
    /\ windows' = [w \in Watch |->
                      IF windows[w] = NoWindow \/ windows[w].age = MaxAge(w) THEN windows[w]
                      ELSE [windows[w] EXCEPT !.age = @ + 1]]
    /\ members' = [w \in Watch |-> [members[w] EXCEPT !.ttl = IF @ = 0 THEN 0 ELSE @ - 1]]
    /\ tombstones' = [w \in Watch |-> IF tombstones[w] = NoTombstone THEN NoTombstone
                                      ELSE tombstones[w] + 1]
    /\ UNCHANGED <<crashed, arrivals>>

-----------------------------------------------------------------------------
Crash(n) ==
    /\ n \in MayCrash \ crashed
    /\ crashed' = crashed \cup {n}
    /\ UNCHANGED <<windows, members, tombstones, arrivals>>

\* The nodes have joined.
Init ==
    /\ windows = [w \in Watch |-> NoWindow]
    /\ members = [w \in Watch |-> NewMember]
    /\ tombstones = [w \in Watch |-> NoTombstone]
    /\ crashed = {}
    /\ arrivals = [w \in Watch |-> <<>>]

Next ==
    \/ \E n \in Observers, o \in Node : ReceiveDigest(n, o) \/ ReceiveDelta(n, o)
    \/ \E n \in Observers : Periodic(n)
    \/ Tick
    \/ \E n \in Node : Crash(n)

Spec == Init /\ [][Next]_vars

\* Time passes, and the tasks are run.
Fairness ==
    /\ WF_vars(Tick)
    /\ \A n \in Observers : WF_vars(Periodic(n))

FairSpec == Spec /\ Fairness

-----------------------------------------------------------------------------
(***************************************************************************)
(* Properties.                                                             *)
(***************************************************************************)
Sum(s) == LET f[i \in 0..Len(s)] == IF i = 0 THEN 0 ELSE f[i - 1] + s[i] IN f[Len(s)]

\* The mean a node is judged by is that of the last sampleSize intervals, as
\* far as there are any, however often the circular buffer has wrapped
\* (arrivalIntervals.Add).
MeanOfLast ==
    \A w \in Watch : windows[w] # NoWindow =>
        Size(windows[w]) = Len(arrivals[w]) /\ windows[w].sum = Sum(arrivals[w])

\* Phi has a mean to divide by (it panics otherwise): whenever a check may read
\* a window there is a positive interval in it, also when the report that
\* created it, or raced with its creation, is the only one.
MeanIsPositive ==
    \A w \in Watch : windows[w] # NoWindow => windows[w].sum > 0

\* No node that runs knows o.
ForgottenByAll(o) ==
    o \in crashed /\ \A n \in Node \ crashed : o \notin Known(n)

\* The half of ForgottenForGood that needs no fairness: nobody is left to remind
\* the others of a crashed node (Learn), so that it is forgotten for good.
StaysForgotten(o) == [](ForgottenByAll(o) => []ForgottenByAll(o))

\* A node that has removed a crashed one does not take it back, whoever names
\* it, until its tombstone is older than nodeTombstoneExpiry.
TombstonesHold ==
    [][\A w \in Watch :
          w[2] \in crashed /\ tombstones[w] # NoTombstone =>
              /\ ~members'[w].known
              /\ \/ tombstones'[w] \in {tombstones[w], tombstones[w] + 1}
                 \/ tombstones[w] > nodeTombstoneExpiry]_vars

\* A node that has crashed is forgotten by every other for good
\* (nodeTombstoneExpiry): however differently the nodes judge its silence, they
\* do not remind each other of it for ever.
ForgottenForGood ==
    \A n, o \in Node :
        <<n, o>> \in Watch =>
            (o \in crashed ~> [](n \in crashed \/ ~members[<<n, o>>].known))
=============================================================================
