---------------------------- MODULE ClusterState ----------------------------
(***************************************************************************)
(* The methods of clusterState (pkg/gossip/state.go) as operators on       *)
(* values: what one node holds about itself and about the nodes it knows.  *)
(* Every method runs under clusterState.mu, so each is one atomic          *)
(* function of the state.                                                  *)
(*                                                                         *)
(* Abstractions.  The entries of a node are a set of records with one      *)
(* record per key, the Go map; a delta's list sorted by version is the     *)
(* set, since its versions are distinct.  The Internal flag of an entry    *)
(* is "its key is leftKey or compactKey": the callers of UpsertLocal and   *)
(* DeleteLocal (server/gossip/syncer.go) use no internal key.  The value   *)
(* of the compact entry is the number its decimal text denotes.  A time    *)
(* is whether it is set: when it passes is the environment's choice.       *)
(***************************************************************************)
EXTENDS Integers, FiniteSets, FiniteSetsExt

CONSTANTS
    Node,       \* node identifiers, unique across restarts
    Key,        \* the keys callers may set
    Value,      \* the values callers may set
    Empty,      \* the empty string
    leftKey,    \* "_internal:left"
    compactKey  \* "_internal:compact"

ASSUME KeyAssumption ==
    /\ leftKey \notin Key
    /\ compactKey \notin Key
    /\ leftKey # compactKey

-----------------------------------------------------------------------------
Version == Nat \ {0}

Entry ==
    [key: Key, value: Value \cup {Empty}, version: Version, deleted: BOOLEAN]
      \cup [key: {leftKey}, value: {Empty}, version: Version, deleted: {FALSE}]
      \cup [key: {compactKey}, value: Nat, version: Version, deleted: {FALSE}]

\* expiry: whether Expiry is non-zero.
NodeState ==
    [version: Nat, entries: SUBSET Entry,
     left: BOOLEAN, unreachable: BOOLEAN, expiry: BOOLEAN]

NewNode ==
    [version |-> 0, entries |-> {},
     left |-> FALSE, unreachable |-> FALSE, expiry |-> FALSE]

\* nodes: the keys of clusterState.nodes; state[o] is NewNode for any other o.
ClusterStates ==
    [nodes: SUBSET Node, state: [Node -> NodeState], tombstones: SUBSET Node]

newClusterState(localID) ==
    [nodes |-> {localID}, state |-> [o \in Node |-> NewNode], tombstones |-> {}]

\* A digest and a delta are functions from the nodes they name.
IsDigest(d) ==
    /\ DOMAIN d \subseteq Node
    /\ \A o \in DOMAIN d : d[o] \in [version: Nat, left: BOOLEAN]

IsDelta(d) ==
    /\ DOMAIN d \subseteq Node
    /\ \A o \in DOMAIN d : d[o] \subseteq Entry

HasKey(es, k) == \E e \in es : e.key = k

-----------------------------------------------------------------------------
(***************************************************************************)
(* The local node.                                                         *)
(***************************************************************************)

\* Mutant: the entry takes the version before it is incremented.
PutBeforeIncrement(st, k, v, deleted) ==
    [st EXCEPT
        !.version = st.version + 1,
        !.entries = {e \in st.entries : e.key # k}
                      \cup {[key |-> k, value |-> v,
                             version |-> st.version, deleted |-> deleted]}]

\* Write entry k at the next version.
Put(st, k, v, deleted) ==
    [st EXCEPT
        !.version = st.version + 1,
        !.entries = {e \in st.entries : e.key # k}
                      \cup {[key |-> k, value |-> v,
                             version |-> st.version + 1, deleted |-> deleted]}]

\* Whether UpsertLocal changes anything: the stored value differs, deleted or
\* not (a deleted entry stores the empty string).
UpsertChanges(st, k, v) == \A e \in st.entries : e.key = k => e.value # v

DeleteChanges(st, k) == \E e \in st.entries : e.key = k /\ ~e.deleted

\* Mutant: Left is not set.
LeaveLocalOnlyEntry(st) == Put(st, leftKey, Empty, FALSE)

LeaveLocal(st) == [Put(st, leftKey, Empty, FALSE) EXCEPT !.left = TRUE]

\* What compaction keeps, and an entry's place in version order.
Kept(es) == {e \in es : ~e.deleted /\ e.key # compactKey}

Rank(e, es) == Cardinality({f \in es : f.version <= e.version})

Compacts(st, threshold) ==
    Cardinality({e \in st.entries : e.deleted}) >= threshold

\* Mutant: versions restart at one.
RenumberedFromOne(st) ==
    {[e EXCEPT !.version = Rank(e, Kept(st.entries))] : e \in Kept(st.entries)}

Renumbered(st) ==
    {[e EXCEPT !.version = st.version + Rank(e, Kept(st.entries))] :
        e \in Kept(st.entries)}

\* Mutant: no entry tells that the others were discarded.
CompactLocalSilently(st) ==
    [st EXCEPT !.version = st.version + Cardinality(Kept(st.entries)),
               !.entries = Renumbered(st)]

CompactLocal(st) ==
    Put([st EXCEPT !.version = st.version + Cardinality(Kept(st.entries)),
                   !.entries = Renumbered(st)],
        compactKey, Max({e.version : e \in st.entries}), FALSE)

-----------------------------------------------------------------------------
(***************************************************************************)
(* Digests and deltas.                                                     *)
(***************************************************************************)
Digest(c) ==
    [o \in c.nodes |-> [version |-> c.state[o].version, left |-> c.state[o].left]]

DeltaEntries(st, fromVersion) == {e \in st.entries : e.version > fromVersion}

Delta(c, digest, fullDigest) ==
    LET behind == {o \in DOMAIN digest \cap c.nodes :
                      DeltaEntries(c.state[o], digest[o].version) # {}}
        absent == IF fullDigest THEN c.nodes \ DOMAIN digest ELSE {}
    IN  [o \in behind \cup absent |->
            DeltaEntries(c.state[o],
                         IF o \in behind THEN digest[o].version ELSE 0)]

LocalDelta(c, localID) ==
    [o \in {localID} |-> DeltaEntries(c.state[localID], 0)]

\* The nodes of ids that the local node may add when sender names them.
Admitted(c, sender, ids) ==
    {o \in ids \ c.nodes : o \in c.tombstones => o = sender}

\* Mutant: the tombstone of an added node is kept.
AddNodesKeepTombstone(c, sender, ids) ==
    [c EXCEPT !.nodes = c.nodes \cup Admitted(c, sender, ids)]

AddNodes(c, sender, ids) ==
    LET new == Admitted(c, sender, ids)
    IN  [c EXCEPT !.nodes = c.nodes \cup new,
                  !.tombstones = c.tombstones \ new]

\* Mutant: only the sender is discovered.
ApplyDigestOfSender(c, sender, digest) == AddNodes(c, sender, {sender})

ApplyDigest(c, sender, digest) ==
    AddNodes(c, sender, {o \in DOMAIN digest : ~digest[o].left})

\* Mutants: old versions are applied too; a compaction discards nothing.
ApplyEntriesOfAnyVersion(st, es) ==
    IF es = {} THEN st
    ELSE [st EXCEPT !.version = Max({e.version : e \in es}),
                    !.entries = {e \in @ : ~HasKey(es, e.key)} \cup es,
                    !.left    = @ \/ HasKey(es, leftKey)]

ApplyEntriesUncompacted(st, es) ==
    LET new == {e \in es : e.version > st.version}
    IN  IF new = {} THEN st
        ELSE [st EXCEPT !.version = Max({e.version : e \in new}),
                        !.entries = {e \in @ : ~HasKey(new, e.key)} \cup new,
                        !.left    = @ \/ HasKey(new, leftKey)]

\* Apply to st the entries of es it has not seen.  An entry replaces the one
\* stored under its key; a compact entry discards all versions up to its value.
ApplyEntries(st, es) ==
    LET new == {e \in es : e.version > st.version}
        Discarded(e) == \E f \in new : f.key = compactKey /\ e.version <= f.value
        merged == {e \in st.entries : ~HasKey(new, e.key)} \cup new
    IN  IF new = {} THEN st
        ELSE [st EXCEPT
                 !.version = Max({e.version : e \in new}),
                 !.entries = {e \in merged : ~Discarded(e)},
                 !.left    = st.left \/ HasKey(new, leftKey),
                 !.expiry  = st.expiry \/ HasKey(new, leftKey)]

ApplyDelta(c, localID, sender, delta) ==
    LET added == AddNodes(c, sender, DOMAIN delta)
    IN  [added EXCEPT !.state =
            [o \in Node |->
                IF o \in (DOMAIN delta \cap added.nodes) \ {localID}
                THEN ApplyEntries(c.state[o], delta[o])
                ELSE c.state[o]]]

-----------------------------------------------------------------------------
(***************************************************************************)
(* Failure detection and expiry.                                           *)
(***************************************************************************)

\* Mutants: the expiry of a node that recovers stays set; the local node is
\* checked too.
UpdateLivenessKeepsExpiry(c, localID, suspects) ==
    [c EXCEPT !.state =
        [o \in Node |->
            IF o \in c.nodes \ {localID} /\ ~c.state[o].left
            THEN [c.state[o] EXCEPT !.unreachable = o \in suspects,
                                    !.expiry = @ \/ o \in suspects]
            ELSE c.state[o]]]

UpdateLivenessOfLocal(c, localID, suspects) ==
    [c EXCEPT !.state =
        [o \in Node |->
            IF o \in c.nodes /\ ~c.state[o].left
            THEN [c.state[o] EXCEPT !.unreachable = o \in suspects,
                                    !.expiry = o \in suspects]
            ELSE c.state[o]]]

\* suspects: the nodes whose suspicion level exceeds the threshold.
UpdateLiveness(c, localID, suspects) ==
    [c EXCEPT !.state =
        [o \in Node |->
            IF o \in c.nodes \ {localID} /\ ~c.state[o].left
               /\ c.state[o].unreachable # (o \in suspects)
            THEN [c.state[o] EXCEPT !.unreachable = o \in suspects,
                                    !.expiry = o \in suspects]
            ELSE c.state[o]]]

\* expired: the nodes whose expiry has passed; stale: the tombstones older
\* than nodeTombstoneExpiry.
RemoveExpired(c, expired, stale) ==
    [nodes |-> c.nodes \ expired,
     state |-> [o \in Node |-> IF o \in expired THEN NewNode ELSE c.state[o]],
     tombstones |-> (c.tombstones \ stale) \cup expired]
=============================================================================
