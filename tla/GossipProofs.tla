---------------------------- MODULE GossipProofs ----------------------------
(***************************************************************************)
(* Proofs about Gossip, for any nodes, keys, values and bounds: what the   *)
(* operators of ClusterState return, the inductive invariant IInv and what *)
(* follows from it, and, since entries spread without being changed, that  *)
(* a version names one write and a node has one entry per key everywhere.  *)
(***************************************************************************)
EXTENDS Gossip, FiniteSetTheorems, WellFoundedInduction, TLAPS

\* A bounded non-empty set of naturals has a maximum, which is Max.
LEMMA MaxIsMaximum ==
    ASSUME NEW S \in SUBSET Nat, S # {}, NEW N \in Nat, \A x \in S : x <= N
    PROVE  /\ Max(S) \in S
           /\ \A y \in S : Max(S) >= y
<1> DEFINE T == {t \in Nat : \A x \in S : x <= t}
<1>1. T \subseteq Nat /\ T # {}
  BY Zenon
<1>2. \E t \in T : \A u \in T : ~(<<u, t>> \in OpToRel(<, Nat))
  <2> HIDE DEF T
  <2> QED  BY <1>1, NatLessThanWellFounded, WFMin, Zenon
<1>3. \A u, t \in Nat : u < t => <<u, t>> \in OpToRel(<, Nat)
  BY Zenon DEF OpToRel
<1>4. PICK t \in T : \A u \in T : u >= t
  <2>1. \E t \in T : \A u \in T : ~(u < t)
    <3> HIDE DEF T
    <3> QED  BY <1>1, <1>2, <1>3, Zenon
  <2> QED  BY <1>1, <2>1
<1>5. t \in S
  <2>1. CASE t = 0
    <3>1. PICK x \in S : TRUE
      BY Zenon
    <3> QED  BY <2>1, <3>1
  <2>2. CASE t > 0 /\ t \notin S
    <3>1. t - 1 \in T
      BY <2>2
    <3> QED  BY <1>4, <3>1
  <2> QED  BY <2>1, <2>2
<1> QED  BY Zenon, <1>4, <1>5 DEF Max

LEMMA EntryFacts ==
    ASSUME NEW e \in Entry
    PROVE  /\ e.version \in Nat
           /\ e.version > 0
           /\ e.key = compactKey => e.value \in Nat
<1>1. CASE e \in [key: Key, value: Value \cup {Empty}, version: Version, deleted: BOOLEAN]
  BY <1>1, KeyAssumption DEF Version
<1>2. CASE e \in [key: {leftKey}, value: {Empty}, version: Version, deleted: {FALSE}]
  BY <1>2, KeyAssumption DEF Version
<1>3. CASE e \in [key: {compactKey}, value: Nat, version: Version, deleted: {FALSE}]
  BY <1>3, KeyAssumption DEF Version
<1> QED  BY Zenon, <1>1, <1>2, <1>3 DEF Entry

LEMMA InternalNotDeleted ==
    ASSUME NEW e \in Entry, e.key = leftKey
    PROVE  ~e.deleted
<1>1. e \notin [key: Key, value: Value \cup {Empty}, version: Version, deleted: BOOLEAN]
  BY Zenon, KeyAssumption
<1>2. e \in [key: {leftKey}, value: {Empty}, version: Version, deleted: {FALSE}] => ~e.deleted
  BY Zenon
<1>3. e \in [key: {compactKey}, value: Nat, version: Version, deleted: {FALSE}] => ~e.deleted
  BY Zenon
<1> QED  BY Zenon, <1>1, <1>2, <1>3 DEF Entry

LEMMA Renumber ==
    ASSUME NEW e \in Entry, NEW v \in Version
    PROVE  /\ [e EXCEPT !.version = v] \in Entry
           /\ [e EXCEPT !.version = v].key = e.key
           /\ [e EXCEPT !.version = v].version = v
<1>1. CASE e \in [key: Key, value: Value \cup {Empty}, version: Version, deleted: BOOLEAN]
  BY <1>1, Zenon DEF Entry
<1>2. CASE e \in [key: {leftKey}, value: {Empty}, version: Version, deleted: {FALSE}]
  BY <1>2, Zenon DEF Entry
<1>3. CASE e \in [key: {compactKey}, value: Nat, version: Version, deleted: {FALSE}]
  BY <1>3, Zenon DEF Entry
<1> QED  BY Zenon, <1>1, <1>2, <1>3 DEF Entry

-----------------------------------------------------------------------------
(***************************************************************************)
(* The local node.                                                         *)
(***************************************************************************)

\* A write keeps every other entry and is the entry at the new version.
LEMMA PutFacts ==
    ASSUME NEW st \in NodeState, NEW k, NEW v, NEW deleted,
           [key |-> k, value |-> v, version |-> st.version + 1, deleted |-> deleted] \in Entry
    PROVE  /\ Put(st, k, v, deleted) \in NodeState
           /\ Put(st, k, v, deleted).version = st.version + 1
           /\ Put(st, k, v, deleted).left = st.left
           /\ \A h \in Put(st, k, v, deleted).entries :
                  \/ h \in st.entries /\ h.key # k
                  \/ h.key = k /\ h.version = st.version + 1 /\ h.value = v
           /\ \A h \in st.entries : h.key # k => h \in Put(st, k, v, deleted).entries
           /\ \E h \in Put(st, k, v, deleted).entries :
                  h.key = k /\ h.version = st.version + 1 /\ h.value = v
           /\ \A h, g \in Put(st, k, v, deleted).entries : h.key = k /\ g.key = k => h = g
<1> DEFINE new == [key |-> k, value |-> v, version |-> st.version + 1, deleted |-> deleted]
           es  == {e \in st.entries : e.key # k} \cup {new}
           w   == st.version + 1
           r   == Put(st, k, v, deleted)
<1>1. new.key = k /\ new.version = w /\ new.value = v
  BY Zenon
<1>2. es \in SUBSET Entry /\ w \in Nat
  BY DEF NodeState
<1>3. r = [st EXCEPT !.version = w, !.entries = es]
  BY Zenon DEF Put
<1>4. r \in NodeState /\ r.version = w /\ r.entries = es /\ r.left = st.left
  <2> HIDE DEF es, w, r
  <2> QED  BY Zenon, <1>2, <1>3 DEF NodeState
<1> HIDE DEF new, r
<1> QED  BY Zenon, <1>1, <1>4 DEF r

LEMMA PutFinite ==
    ASSUME NEW st \in NodeState, NEW k, NEW v, NEW deleted, IsFiniteSet(st.entries)
    PROVE  IsFiniteSet(Put(st, k, v, deleted).entries)
<1> DEFINE rest == {e \in st.entries : e.key # k}
           new  == [key |-> k, value |-> v, version |-> st.version + 1, deleted |-> deleted]
<1>1. IsFiniteSet(rest)
  BY Zenon, FS_Subset
<1>2. IsFiniteSet(rest \cup {new})
  <2> HIDE DEF rest, new
  <2> QED  BY Zenon, <1>1, FS_AddElement
<1>3. Put(st, k, v, deleted).entries = rest \cup {new}
  BY Zenon DEF Put, NodeState
<1> QED  BY Zenon, <1>2, <1>3

\* An entry's rank among finitely many is between 1 and their number.
LEMMA RankBounds ==
    ASSUME NEW es \in SUBSET Entry, IsFiniteSet(es), NEW e \in es
    PROVE  /\ Cardinality(es) \in Nat
           /\ Rank(e, es) \in Nat
           /\ 1 <= Rank(e, es) /\ Rank(e, es) <= Cardinality(es)
<1> DEFINE below == {f \in es : f.version <= e.version}
<1>1. below \subseteq es /\ e \in below
  BY EntryFacts
<1>2. IsFiniteSet(below) /\ Cardinality(below) <= Cardinality(es)
  <2> HIDE DEF below
  <2> QED  BY Zenon, <1>1, FS_Subset
<1>3. Cardinality(below) # 0
  <2> HIDE DEF below
  <2> QED  BY Zenon, <1>1, <1>2, FS_EmptySet
<1>4. Cardinality(es) \in Nat /\ Cardinality(below) \in Nat
  <2> HIDE DEF below
  <2> QED  BY Zenon, <1>2, FS_CardinalityType
<1> QED  BY <1>2, <1>3, <1>4 DEF Rank

\* Compaction moves every entry it keeps above all the versions used so far.
LEMMA RenumberedFacts ==
    ASSUME NEW st \in NodeState, IsFiniteSet(st.entries)
    PROVE  /\ IsFiniteSet(Renumbered(st)) /\ Cardinality(Kept(st.entries)) \in Nat
           /\ Renumbered(st) \subseteq Entry
           /\ \A h \in Renumbered(st) :
                  /\ h.version > st.version
                  /\ h.version <= st.version + Cardinality(Kept(st.entries))
                  /\ h.key # compactKey
                  /\ \E e \in st.entries : e.key = h.key
           /\ \A e \in st.entries : e.key = leftKey => \E h \in Renumbered(st) : h.key = leftKey
<1> DEFINE K == Kept(st.entries)
           New(e) == [e EXCEPT !.version = st.version + Rank(e, K)]
<1>1. K \in SUBSET Entry /\ K \subseteq st.entries
  BY Zenon DEF Kept, NodeState
<1>2. IsFiniteSet(K) /\ Cardinality(K) \in Nat
  <2> HIDE DEF K
  <2> QED  BY Zenon, <1>1, FS_Subset, FS_CardinalityType
<1>3. \A e \in K : Rank(e, K) \in Nat /\ 1 <= Rank(e, K) /\ Rank(e, K) <= Cardinality(K)
  <2> HIDE DEF K
  <2> QED  BY Zenon, <1>1, <1>2, RankBounds
<1>4. Renumbered(st) = {New(e) : e \in K}
  BY Zenon DEF Renumbered
<1>5. \A e \in K : /\ New(e) \in Entry /\ New(e).key = e.key
                   /\ New(e).version = st.version + Rank(e, K)
  <2> SUFFICES ASSUME NEW e \in K PROVE New(e) \in Entry /\ New(e).key = e.key /\ New(e).version = st.version + Rank(e, K)
    BY Zenon
  <2> DEFINE r == Rank(e, K)
  <2>1. r \in Nat /\ r >= 1 /\ st.version \in Nat /\ e \in Entry
    BY Zenon, <1>1, <1>3 DEF NodeState
  <2> HIDE DEF r, K
  <2> QED  BY <2>1, Renumber DEF r, Version
<1>6. \A e \in K : e.key # compactKey
  BY Zenon DEF Kept
<1>7. IsFiniteSet(Renumbered(st))
  <2> DEFINE f == [e \in K |-> New(e)]
  <2>1. f \in Surjection(K, Renumbered(st))
    <3> HIDE DEF K
    <3> QED  BY Zenon, <1>4 DEF Surjection
  <2> HIDE DEF f, K
  <2> QED  BY Zenon, <1>2, <2>1, FS_Surjection
<1>8. \A e \in st.entries : e.key = leftKey => e \in K
  BY Zenon, KeyAssumption, InternalNotDeleted DEF Kept, NodeState
<1>9. st.version \in Nat
  BY Zenon DEF NodeState
<1> HIDE DEF New
<1>10. Renumbered(st) \subseteq Entry
  BY Zenon, <1>4, <1>5
<1>11. ASSUME NEW h \in Renumbered(st)
       PROVE  /\ h.version > st.version
              /\ h.version <= st.version + Cardinality(K)
              /\ h.key # compactKey
              /\ \E e \in st.entries : e.key = h.key
  <2>1. PICK e \in K : h = New(e)
    BY Zenon, <1>4
  <2> HIDE DEF K
  <2> QED  BY <2>1, <1>1, <1>2, <1>3, <1>5, <1>6, <1>9
<1>12. \A e \in st.entries : e.key = leftKey => \E h \in Renumbered(st) : h.key = leftKey
  BY Zenon, <1>4, <1>5, <1>8
<1> QED  BY Zenon, <1>2, <1>7, <1>10, <1>11, <1>12

\* What CompactLocal leaves: all entries above the versions used so far, one
\* per key, the compact entry last and naming the version before.
LEMMA CompactFacts ==
    ASSUME NEW st \in NodeState, IsFiniteSet(st.entries),
           \A e, f \in st.entries : e.key = f.key => e = f,
           \A e \in st.entries : e.version <= st.version,
           \E e \in st.entries : e.version = st.version
    PROVE  LET r == CompactLocal(st)
           IN  /\ r \in NodeState /\ IsFiniteSet(r.entries)
               /\ r.version > st.version /\ r.left = st.left
               /\ \A h \in r.entries :
                      /\ h.version > st.version /\ h.version <= r.version
                      /\ h.key = compactKey => h.value = st.version
               /\ \E h \in r.entries :
                      h.key = compactKey /\ h.version = r.version /\ h.value = st.version
               /\ \A h, g \in r.entries : h.key = g.key => h = g
               /\ HasKey(r.entries, leftKey) <=> HasKey(st.entries, leftKey)
<1> DEFINE K == Cardinality(Kept(st.entries))
           N == Renumbered(st)
           s == [st EXCEPT !.version = st.version + K, !.entries = N]
           last == Max({e.version : e \in st.entries})
           r == Put(s, compactKey, last, FALSE)
<1>1. CompactLocal(st) = r
  BY Zenon DEF CompactLocal
<1>2. last = st.version
  <2> DEFINE V == {e.version : e \in st.entries}
  <2>1. \A x \in V : x \in Nat /\ x <= st.version
    BY EntryFacts DEF NodeState
  <2>2. st.version \in V
    BY Zenon
  <2> HIDE DEF V
  <2>3. Max(V) = st.version
    BY <2>1, <2>2 DEF Max
  <2> QED  BY Zenon, <2>3 DEF V
<1>3. /\ IsFiniteSet(N) /\ K \in Nat /\ N \subseteq Entry
      /\ \A h \in N : /\ h.version > st.version /\ h.version <= st.version + K
                      /\ h.key # compactKey
                      /\ \E e \in st.entries : e.key = h.key
      /\ \A e \in st.entries : e.key = leftKey => \E h \in N : h.key = leftKey
  BY Zenon, RenumberedFacts
<1>4. \A h, g \in N : h.key = g.key => h = g
  <2> SUFFICES ASSUME NEW h \in N, NEW g \in N, h.key = g.key PROVE h = g
    BY Zenon
  <2>1. PICK e \in Kept(st.entries) :
            h = [e EXCEPT !.version = st.version + Rank(e, Kept(st.entries))]
    BY Zenon DEF Renumbered
  <2>2. PICK f \in Kept(st.entries) :
            g = [f EXCEPT !.version = st.version + Rank(f, Kept(st.entries))]
    BY Zenon DEF Renumbered
  <2>3. e \in st.entries /\ f \in st.entries /\ e \in Entry /\ f \in Entry
    BY Zenon DEF Kept, NodeState
  <2>4. h.key = e.key /\ g.key = f.key
    <3>1. \A v : \A x \in Entry : [x EXCEPT !.version = v].key = x.key
      BY Zenon DEF Entry
    <3> QED  BY Zenon, <2>1, <2>2, <2>3, <3>1
  <2> QED  BY Zenon, <2>1, <2>2, <2>3, <2>4
<1> HIDE DEF K, N, last
<1>5. s \in NodeState /\ s.version = st.version + K /\ s.entries = N /\ s.left = st.left
  <2>1. st.version + K \in Nat
    BY <1>3 DEF NodeState
  <2> QED  BY Zenon, <1>3, <2>1 DEF NodeState
<1> HIDE DEF s
<1>6. [key |-> compactKey, value |-> last, version |-> s.version + 1, deleted |-> FALSE] \in Entry
  <2>1. last \in Nat /\ s.version + 1 \in Version
    BY <1>2, <1>5 DEF NodeState, Version
  <2> QED  BY Zenon, <2>1 DEF Entry
<1>7. /\ r \in NodeState
      /\ r.version = s.version + 1
      /\ r.left = s.left
      /\ \A h \in r.entries :
             \/ h \in s.entries /\ h.key # compactKey
             \/ h.key = compactKey /\ h.version = s.version + 1 /\ h.value = last
      /\ \A h \in s.entries : h.key # compactKey => h \in r.entries
      /\ \E h \in r.entries : h.key = compactKey /\ h.version = s.version + 1 /\ h.value = last
      /\ \A h, g \in r.entries : h.key = compactKey /\ g.key = compactKey => h = g
  BY Zenon, <1>5, <1>6, PutFacts
<1>8. IsFiniteSet(r.entries)
  BY Zenon, <1>3, <1>5, PutFinite
<1>9. st.version \in Nat
  BY Zenon DEF NodeState
<1> HIDE DEF r
<1>10. HasKey(r.entries, leftKey) <=> HasKey(st.entries, leftKey)
  BY <1>3, <1>5, <1>7, KeyAssumption DEF HasKey
<1>11. r.version > st.version
  BY <1>3, <1>5, <1>7, <1>9
<1>12. \A h \in r.entries : h.version > st.version /\ h.version <= r.version
  BY <1>3, <1>5, <1>7, <1>9, EntryFacts
<1>13. \A h, g \in r.entries : h.key = g.key => h = g
  BY Zenon, <1>4, <1>5, <1>7
<1> QED  BY Zenon, <1>1, <1>2, <1>5, <1>7, <1>8, <1>10, <1>11, <1>12, <1>13

\* No local operation makes the node expire.
LEMMA LocalExpiry ==
    ASSUME NEW st \in NodeState
    PROVE  /\ \A k, v, deleted : Put(st, k, v, deleted).expiry = st.expiry
           /\ LeaveLocal(st).expiry = st.expiry
           /\ CompactLocal(st).expiry = st.expiry
<1>1. \A w, es : [st EXCEPT !.version = w, !.entries = es].expiry = st.expiry
  BY Zenon DEF NodeState
<1>2. \A w, es, w2, es2 :
          [[st EXCEPT !.version = w, !.entries = es] EXCEPT !.version = w2, !.entries = es2].expiry = st.expiry
  BY Zenon DEF NodeState
<1>3. \A w, es : [[st EXCEPT !.version = w, !.entries = es] EXCEPT !.left = TRUE].expiry = st.expiry
  BY Zenon DEF NodeState
<1> QED  BY <1>1, <1>2, <1>3 DEF Put, LeaveLocal, CompactLocal

-----------------------------------------------------------------------------
(***************************************************************************)
(* A remote node.                                                          *)
(***************************************************************************)

\* What applying a delta's entries does, whether or not any of them is new.
LEMMA ApplyFacts ==
    ASSUME NEW st \in NodeState, NEW es \in SUBSET Entry,
           NEW N \in Nat, \A e \in es : e.version <= N
    PROVE  LET r == ApplyEntries(st, es)
               new == {e \in es : e.version > st.version}
           IN  /\ r \in NodeState
               /\ r.version >= st.version
               /\ \A x \in es : x.version <= r.version
               /\ r.version = st.version \/ \E x \in new : x.version = r.version
               /\ \A e : e \in r.entries <=>
                      /\ e \in new \/ (e \in st.entries /\ ~\E f \in new : f.key = e.key)
                      /\ ~\E f \in new : f.key = compactKey /\ e.version <= f.value
               /\ r.left <=> (st.left \/ \E f \in new : f.key = leftKey)
               /\ (\E f \in new : f.key = leftKey) => r.expiry
               /\ st.expiry => r.expiry
               /\ r.unreachable = st.unreachable
               /\ r.expiry => st.expiry \/ r.left
<1> DEFINE r == ApplyEntries(st, es)
           new == {e \in es : e.version > st.version}
           Discarded(e) == \E f \in new : f.key = compactKey /\ e.version <= f.value
           merged == {e \in st.entries : ~HasKey(new, e.key)} \cup new
           kept == {e \in merged : ~Discarded(e)}
           top == Max({e.version : e \in new})
<1>0. st.version \in Nat /\ new \in SUBSET Entry
  BY Zenon DEF NodeState
<1>1. CASE new = {}
  <2>1. r = st
    BY Zenon, <1>1 DEF ApplyEntries
  <2> QED  BY <1>0, <1>1, <2>1, EntryFacts
<1>2. CASE new # {}
  <2>1. top \in Nat /\ top > st.version /\ (\E x \in new : x.version = top) /\ \A x \in new : x.version <= top
    <3> DEFINE V == {e.version : e \in new}
    <3>1. V \in SUBSET Nat /\ V # {} /\ \A x \in V : x <= N /\ x > st.version
      BY Zenon, <1>0, <1>2, EntryFacts
    <3> HIDE DEF V
    <3>2. Max(V) \in V /\ \A y \in V : Max(V) >= y
      BY Zenon, <3>1, MaxIsMaximum
    <3>3. Max(V) \in Nat /\ Max(V) > st.version
      BY Zenon, <3>1, <3>2
    <3> QED  BY Zenon, <3>2, <3>3, <1>0, EntryFacts DEF V
  <2>2. kept \in SUBSET Entry
    BY Zenon, <1>0 DEF NodeState
  <2>3. r = [st EXCEPT !.version = top, !.entries = kept,
                       !.left   = st.left \/ HasKey(new, leftKey),
                       !.expiry = st.expiry \/ HasKey(new, leftKey)]
    BY <1>2, Zenon DEF ApplyEntries
  <2>4. \A e : e \in kept <=>
            /\ e \in new \/ (e \in st.entries /\ ~\E f \in new : f.key = e.key)
            /\ ~\E f \in new : f.key = compactKey /\ e.version <= f.value
    BY Zenon DEF HasKey
  <2>5. HasKey(new, leftKey) <=> \E f \in new : f.key = leftKey
    BY Zenon DEF HasKey
  <2>6. HasKey(new, leftKey) \in BOOLEAN
    BY Zenon DEF HasKey
  <2> HIDE DEF r, new, kept, top
  <2>7. r \in NodeState /\ r.version = top /\ r.entries = kept /\ r.unreachable = st.unreachable
    BY Zenon, <2>1, <2>2, <2>3, <2>6 DEF NodeState
  <2>8. /\ r.left = (st.left \/ HasKey(new, leftKey))
        /\ r.expiry = (st.expiry \/ HasKey(new, leftKey))
    BY <2>3, Zenon DEF NodeState
  <2>9. \A x \in es : x.version <= r.version
    BY <1>0, <2>1, <2>7, EntryFacts DEF new
  <2>10. r.version >= st.version /\ \E x \in new : x.version = r.version
    BY <1>0, <2>1, <2>7
  <2> QED  BY <2>4, <2>5, <2>7, <2>8, <2>9, <2>10, Zenon DEF r, new
<1> QED  BY Zenon, <1>1, <1>2

-----------------------------------------------------------------------------
(***************************************************************************)
(* The whole state.                                                        *)
(***************************************************************************)
LEMMA AddNodesFacts ==
    ASSUME NEW c \in ClusterStates, NEW sender, NEW ids \in SUBSET Node
    PROVE  /\ AddNodes(c, sender, ids) \in ClusterStates
           /\ AddNodes(c, sender, ids).state = c.state
           /\ c.nodes \subseteq AddNodes(c, sender, ids).nodes
<1> DEFINE new == Admitted(c, sender, ids)
<1>1. new \in SUBSET Node
  BY Zenon DEF Admitted
<1> HIDE DEF new
<1>2. AddNodes(c, sender, ids) = [c EXCEPT !.nodes = c.nodes \cup new, !.tombstones = c.tombstones \ new]
  BY Zenon DEF AddNodes, new
<1> QED  BY Zenon, <1>1, <1>2 DEF ClusterStates

\* A digest only makes nodes known.
LEMMA ApplyDigestFacts ==
    ASSUME NEW c \in ClusterStates, NEW sender, NEW digest, IsDigest(digest)
    PROVE  /\ ApplyDigest(c, sender, digest) \in ClusterStates
           /\ ApplyDigest(c, sender, digest).state = c.state
           /\ c.nodes \subseteq ApplyDigest(c, sender, digest).nodes
<1> DEFINE ids == {o \in DOMAIN digest : ~digest[o].left}
<1>1. ids \in SUBSET Node
  BY Zenon DEF IsDigest
<1>2. ApplyDigest(c, sender, digest) = AddNodes(c, sender, ids)
  BY Zenon DEF ApplyDigest
<1> HIDE DEF ids
<1> QED  BY Zenon, <1>1, <1>2, AddNodesFacts

\* A delta changes nothing about the local node and applies its entries, or
\* nothing, to each other node.
LEMMA ApplyDeltaFacts ==
    ASSUME NEW c \in ClusterStates, NEW localID \in Node, NEW sender,
           NEW delta, IsDelta(delta),
           NEW N \in [Node -> Nat],
           \A o \in DOMAIN delta : \A e \in delta[o] : e.version <= N[o]
    PROVE  LET r == ApplyDelta(c, localID, sender, delta)
           IN  /\ r \in ClusterStates
               /\ c.nodes \subseteq r.nodes
               /\ r.state[localID] = c.state[localID]
               /\ \A o \in Node : \/ r.state[o] = c.state[o]
                                  \/ /\ o \in DOMAIN delta
                                     /\ r.state[o] = ApplyEntries(c.state[o], delta[o])
<1> DEFINE added == AddNodes(c, sender, DOMAIN delta)
           st == [o \in Node |-> IF o \in (DOMAIN delta \cap added.nodes) \ {localID}
                                 THEN ApplyEntries(c.state[o], delta[o])
                                 ELSE c.state[o]]
           r == ApplyDelta(c, localID, sender, delta)
<1>1. added \in ClusterStates /\ c.nodes \subseteq added.nodes
  BY Zenon, AddNodesFacts DEF IsDelta
<1>2. r = [added EXCEPT !.state = st]
  BY Zenon DEF ApplyDelta
<1> HIDE DEF added, r
<1>3. \A o \in Node : c.state[o] \in NodeState
  BY Zenon DEF ClusterStates
<1>4. \A o \in Node : st[o] \in NodeState
  <2> SUFFICES ASSUME NEW o \in Node PROVE st[o] \in NodeState
    BY Zenon
  <2>1. CASE o \in (DOMAIN delta \cap added.nodes) \ {localID}
    <3>1. delta[o] \in SUBSET Entry /\ N[o] \in Nat /\ \A e \in delta[o] : e.version <= N[o]
      BY Zenon, <2>1 DEF IsDelta
    <3>2. ApplyEntries(c.state[o], delta[o]) \in NodeState
      BY <1>3, <3>1, ApplyFacts
    <3> QED  BY Zenon, <2>1, <3>2
  <2>2. CASE o \notin (DOMAIN delta \cap added.nodes) \ {localID}
    BY Zenon, <1>3, <2>2
  <2> QED  BY Zenon, <2>1, <2>2
<1>5. st \in [Node -> NodeState]
  BY Zenon, <1>4
<1>6. /\ st[localID] = c.state[localID]
      /\ \A o \in Node : \/ st[o] = c.state[o]
                         \/ o \in DOMAIN delta /\ st[o] = ApplyEntries(c.state[o], delta[o])
  BY Zenon
<1> HIDE DEF st
<1>7. r \in ClusterStates /\ r.state = st /\ c.nodes \subseteq r.nodes
  BY Zenon, <1>1, <1>2, <1>5 DEF ClusterStates
<1> QED  BY Zenon, <1>6, <1>7 DEF r

\* r is c up to who is unreachable and who has an expiry.
SameUpToLiveness(r, c, localID) ==
    /\ r \in ClusterStates
    /\ r.nodes = c.nodes
    /\ r.state[localID] = c.state[localID]
    /\ \A o \in Node : /\ r.state[o].version = c.state[o].version
                       /\ r.state[o].entries = c.state[o].entries
                       /\ r.state[o].left = c.state[o].left

\* A liveness check changes no entries and no versions, and nothing about the
\* local node.
LEMMA UpdateLivenessFacts ==
    ASSUME NEW c \in ClusterStates, NEW localID \in Node, NEW suspects
    PROVE  SameUpToLiveness(UpdateLiveness(c, localID, suspects), c, localID)
<1> DEFINE r == UpdateLiveness(c, localID, suspects)
           Checked(o) == [c.state[o] EXCEPT !.unreachable = o \in suspects,
                                            !.expiry = o \in suspects]
           st == [o \in Node |-> IF o \in c.nodes \ {localID} /\ ~c.state[o].left
                                   /\ c.state[o].unreachable # (o \in suspects)
                                 THEN Checked(o) ELSE c.state[o]]
<1>1. r = [c EXCEPT !.state = st]
  BY Zenon DEF UpdateLiveness
<1>2. \A o \in Node : c.state[o] \in NodeState
  BY Zenon DEF ClusterStates
<1>3. \A o \in Node : /\ Checked(o) \in NodeState
                      /\ Checked(o).version = c.state[o].version
                      /\ Checked(o).entries = c.state[o].entries
                      /\ Checked(o).left = c.state[o].left
  <2>1. ASSUME NEW st1 \in NodeState, NEW b \in BOOLEAN
        PROVE  LET st2 == [st1 EXCEPT !.unreachable = b, !.expiry = b]
               IN  /\ st2 \in NodeState /\ st2.version = st1.version
                   /\ st2.entries = st1.entries /\ st2.left = st1.left
    BY Zenon DEF NodeState
  <2>2. \A o : (o \in suspects) \in BOOLEAN
    OBVIOUS
  <2> QED  BY <1>2, <2>1, <2>2, ZenonT(60)
<1> HIDE DEF r, Checked
<1>4. /\ st \in [Node -> NodeState]
      /\ st[localID] = c.state[localID]
      /\ \A o \in Node : st[o] = c.state[o] \/ st[o] = Checked(o)
  BY Zenon, <1>2, <1>3
<1> HIDE DEF st
<1>5. r \in ClusterStates /\ r.state = st /\ r.nodes = c.nodes
  BY Zenon, <1>1, <1>4 DEF ClusterStates
<1>6. SameUpToLiveness(r, c, localID)
  BY Zenon, <1>3, <1>4, <1>5 DEF SameUpToLiveness
<1> QED  BY Zenon, <1>6 DEF r

LEMMA RemoveExpiredFacts ==
    ASSUME NEW c \in ClusterStates, NEW expired \in SUBSET Node, NEW stale
    PROVE  RemoveExpired(c, expired, stale) \in ClusterStates
<1>1. NewNode \in NodeState
  BY Zenon DEF NewNode, NodeState
<1> QED  BY Zenon, <1>1 DEF RemoveExpired, ClusterStates

-----------------------------------------------------------------------------
(***************************************************************************)
(* The parts of the invariant about entries, for an owner that holds H.    *)
(***************************************************************************)

\* View st lacks nothing up to its version, and is behind on what is stale.
Whole(st, H) == \A h \in H : h.version <= st.version => h \in st.entries

Behind(st, H) ==
    \A e \in st.entries : e \in H \/ \E h \in H : h.version > st.version /\ Supersedes(h, e)

\* Delta es lacks nothing above version w, and is behind on what is stale.
NoGap(es, H, w) ==
    \A x \in es, h \in H : w < h.version /\ h.version <= x.version => h \in es

BehindDelta(es, H) ==
    \A e \in es :
        e \in H \/ \E h \in H : (\A x \in es : h.version > x.version) /\ Supersedes(h, e)

\* es is all, cut at some version.
IsCut(es, all) ==
    /\ es \subseteq all
    /\ \A x \in es, h \in all : h.version <= x.version => h \in es

OneEntryPerKey(H) == \A h, g \in H : h.key = g.key => h = g

KeepsAll(es, H) == \A f \in es : f.key = compactKey => \A h \in H : h.version > f.value

(***************************************************************************)
(* Applying a delta without a gap to a view without a gap leaves no gap.   *)
(* H is what the owner holds, st the view, es the entries of the delta.    *)
(***************************************************************************)
LEMMA ApplyLeavesNoGap ==
    ASSUME NEW st \in NodeState, NEW es \in SUBSET Entry, NEW H \in SUBSET Entry,
           NEW N \in Nat, \A e \in es : e.version <= N,
           OneEntryPerKey(H), KeepsAll(es, H), KeepsAll(H, H),
           Whole(st, H), Behind(st, H), NoGap(es, H, st.version), BehindDelta(es, H)
    PROVE  Whole(ApplyEntries(st, es), H) /\ Behind(ApplyEntries(st, es), H)
<1> USE DEF OneEntryPerKey, KeepsAll, Whole, Behind, NoGap, BehindDelta
<1> DEFINE r == ApplyEntries(st, es)
           new == {e \in es : e.version > st.version}
           In(e) == /\ e \in new \/ (e \in st.entries /\ ~\E f \in new : f.key = e.key)
                    /\ ~\E f \in new : f.key = compactKey /\ e.version <= f.value
<1>1. /\ r \in NodeState
      /\ r.version >= st.version
      /\ \A x \in es : x.version <= r.version
      /\ r.version = st.version \/ \E x \in new : x.version = r.version
      /\ \A e : e \in r.entries <=> In(e)
  BY ApplyFacts, Zenon
<1> HIDE DEF r
<1>2. st.version \in Nat /\ st.entries \in SUBSET Entry /\ r.version \in Nat
  BY Zenon, <1>1 DEF NodeState
<1>3. \A e \in Entry : e.version \in Nat /\ (e.key = compactKey => e.value \in Nat)
  BY Zenon, EntryFacts
<1>4. ASSUME NEW h \in H, h.version <= r.version
      PROVE  h \in r.entries
  <2>1. ~\E f \in new : f.key = compactKey /\ h.version <= f.value
    BY <1>3
  <2>2. CASE h.version > st.version
    <3>1. PICK x \in new : x.version = r.version
      BY <1>1, <1>2, <1>3, <1>4, <2>2
    <3>2. h \in new
      BY Zenon, <1>4, <2>2, <3>1
    <3> QED  BY Zenon, <1>1, <2>1, <3>2
  <2>3. CASE h.version <= st.version
    <3>1. ASSUME NEW f \in new, f.key = h.key
          PROVE  FALSE
      <4>1. f.version > h.version
        BY <1>2, <1>3, <2>3
      <4>2. f \notin H
        BY <1>3, <3>1, <4>1
      <4>3. PICK g \in H : (\A x \in es : g.version > x.version) /\ Supersedes(g, f)
        BY Zenon, <4>2
      <4>4. CASE g.key = f.key
        BY <1>3, <3>1, <4>1, <4>3, <4>4
      <4>5. CASE g.key = compactKey /\ f.version <= g.value
        BY <1>3, <4>1, <4>5
      <4> QED  BY Zenon, <4>3, <4>4, <4>5 DEF Supersedes
    <3> QED  BY Zenon, <1>1, <2>1, <2>3, <3>1
  <2> QED  BY <1>2, <1>3, <2>2, <2>3
<1>5. ASSUME NEW e \in r.entries, e \notin H
      PROVE  \E h \in H : h.version > r.version /\ Supersedes(h, e)
  <2>1. CASE e \in new
    <3>1. PICK h \in H : (\A x \in es : h.version > x.version) /\ Supersedes(h, e)
      BY Zenon, <1>5, <2>1
    <3>2. PICK x \in new : x.version = r.version
      BY <1>1, <1>2, <1>3, <2>1
    <3> QED  BY Zenon, <3>1, <3>2
  <2>2. CASE e \notin new
    <3>1. e \in st.entries /\ In(e)
      BY Zenon, <1>1, <2>2
    <3>2. PICK h \in H : h.version > st.version /\ Supersedes(h, e)
      BY Zenon, <1>5, <3>1
    <3>3. ASSUME h.version <= r.version
          PROVE  FALSE
      <4>1. PICK x \in new : x.version = r.version
        BY <1>1, <1>2, <1>3, <3>2, <3>3
      <4>2. h \in new
        BY Zenon, <3>2, <3>3, <4>1
      <4>3. h.key # e.key
        <5> HIDE DEF new
        <5> QED  BY Zenon, <2>2, <3>1, <4>2
      <4>4. ~(h.key = compactKey /\ e.version <= h.value)
        <5> HIDE DEF new
        <5> QED  BY Zenon, <3>1, <4>2
      <4> QED  BY Zenon, <3>2, <4>3, <4>4 DEF Supersedes
    <3> QED  BY <1>2, <1>3, <3>2, <3>3
  <2> QED  BY Zenon, <2>1, <2>2
<1> QED  BY Zenon, <1>4, <1>5 DEF r

LEMMA ViewTypes ==
    ASSUME TypeOK, NEW n \in Node, NEW o \in Node
    PROVE  /\ View(n, o) \in NodeState
           /\ View(n, o).version \in Nat
           /\ View(n, o).entries \in SUBSET Entry
           /\ \A e \in View(n, o).entries : e \in Entry /\ e.version \in Nat
<1>1. cluster[n] \in ClusterStates
  BY Zenon DEF TypeOK
<1>2. View(n, o) \in NodeState
  BY Zenon, <1>1 DEF View, ClusterStates
<1> QED  BY Zenon, <1>2, EntryFacts DEF NodeState

LEMMA DeltaTypes ==
    ASSUME TypeOK, NEW p \in net, NEW o \in DOMAIN p.delta
    PROVE  o \in Node /\ p.delta[o] \in SUBSET Entry
BY Zenon DEF TypeOK, IsMessage, IsDelta

LEMMA ViewStable ==
    ASSUME NEW n \in Node, NEW o \in Node, ViewInv(n, o),
           Local(o)' = Local(o), View(n, o)' = View(n, o), Removed \subseteq Removed'
    PROVE  ViewInv(n, o)'
<1>1. \A e : Sound(e, o) => Sound(e, o)'
  BY Zenon DEF Sound
<1>2. \A e, v : Overtaken(e, o, v) => Overtaken(e, o, v)'
  BY Zenon DEF Overtaken
<1> QED  BY Zenon, <1>1, <1>2 DEF ViewInv, GoodView

(***************************************************************************)
(* A step that changes no node's own state keeps the invariant if the      *)
(* views it changes and the messages it sends are good.                    *)
(***************************************************************************)
LEMMA RemoteStep ==
    ASSUME IInv, TypeOK',
           \A o \in Node : Local(o)' = Local(o),
           Removed \subseteq Removed',
           \A n, o \in Node : View(n, o)' = View(n, o) \/ ViewInv(n, o)',
           \A n \in Node, o \in Node \ Removed' :
               View(n, o).version <= View(n, o)'.version,
           \A p \in net' : p \in net \/ MessageInv(p)',
           \A n \in Node : n \in cluster'[n].nodes
    PROVE  IInv'
<1>1. \A o \in Node : OwnerInv(o)'
  BY Zenon DEF IInv, OwnerInv
<1>2. \A e : \A o \in Node : Sound(e, o) => Sound(e, o)'
  BY Zenon DEF Sound
<1>3. ASSUME NEW n \in Node, NEW o \in Node, View(n, o)' = View(n, o)
      PROVE  ViewInv(n, o)'
  BY Zenon, <1>3, ViewStable DEF IInv
<1>4. ASSUME NEW p \in net, p \in net'
      PROVE  MessageInv(p)'
  <2>1. MessageInv(p) /\ IsMessage(p)
    BY Zenon DEF IInv, TypeOK
  <2>2. p.from \in Node /\ p.to \in Node /\ DOMAIN p.digest \subseteq Node /\ DOMAIN p.delta \subseteq Node
    BY Zenon, <2>1 DEF IsMessage, IsDigest, IsDelta
  <2>3. \A n, o \in Node : View(n, o).version \in Nat /\ View(n, o)'.version \in Nat
    <3>1. \A n, o \in Node : View(n, o).version \in Nat
      BY Zenon, ViewTypes DEF IInv
    <3>2. \A n, o \in Node : View(n, o)'.version \in Nat
      BY Zenon DEF TypeOK, View, ClusterStates, NodeState
    <3> QED  BY Zenon, <3>1, <3>2
  <2>4. \A o \in DOMAIN p.digest \ Removed' : p.digest[o].version <= View(p.from, o)'.version
    <3> SUFFICES ASSUME NEW o \in DOMAIN p.digest \ Removed'
                 PROVE  p.digest[o].version <= View(p.from, o)'.version
      BY Zenon
    <3>1. p.digest[o].version \in Nat
      BY Zenon, <2>1 DEF IsMessage, IsDigest
    <3>2. p.digest[o].version <= View(p.from, o).version
      BY Zenon, <2>1 DEF MessageInv
    <3>3. View(p.from, o).version <= View(p.from, o)'.version
      BY Zenon, <2>2
    <3> QED  BY <2>2, <2>3, <3>1, <3>2, <3>3
  <2>5. ASSUME NEW o \in DOMAIN p.delta, o \notin Removed',
               NEW x \in p.delta[o], NEW h \in Local(o).entries,
               View(p.to, o)'.version < h.version, h.version <= x.version
        PROVE  h \in p.delta[o]
    <3>1. View(p.to, o).version < h.version
      <4>1. h.version \in Nat
        BY Zenon, <2>2, ViewTypes DEF IInv, Local, View
      <4>2. View(p.to, o).version <= View(p.to, o)'.version
        BY Zenon, <2>2, <2>5
      <4> QED  BY SMTT(30), <2>2, <2>3, <2>5, <4>1, <4>2
    <3> QED  BY Zenon, <2>1, <2>5, <3>1 DEF MessageInv
  <2>6. \A o \in DOMAIN p.delta : \A e \in p.delta[o] : Sound(e, o)'
    BY Zenon, <1>2, <2>1, <2>2 DEF MessageInv
  <2>7. ASSUME NEW o \in DOMAIN p.delta, o \notin Removed', NEW e \in p.delta[o]
        PROVE  \/ e \in Local(o).entries
               \/ \E h \in Local(o).entries :
                     (\A x \in p.delta[o] : h.version > x.version) /\ Supersedes(h, e)
    BY Zenon, <2>1, <2>7 DEF MessageInv
  <2>8. \A o \in DOMAIN p.delta : Local(o)' = Local(o)
    BY Zenon, <2>2
  <2> QED  BY Zenon, <2>4, <2>5, <2>6, <2>7, <2>8 DEF MessageInv
<1>5. \A n, o \in Node : ViewInv(n, o)'
  BY Zenon, <1>3
<1>6. \A p \in net' : MessageInv(p)'
  BY Zenon, <1>4
<1>7. LocalNodeStays'
  BY Zenon DEF IInv, LocalNodeStays
<1> QED  BY Zenon, <1>1, <1>5, <1>6, <1>7 DEF IInv

(***************************************************************************)
(* A step in which n changes its own state to st keeps the invariant if st *)
(* either writes one key or compacts everything written before.            *)
(***************************************************************************)
LEMMA OwnerStep ==
    ASSUME IInv, NEW n \in Node, NEW st \in NodeState,
           cluster' = [cluster EXCEPT ![n].state[n] = st],
           UNCHANGED <<net, expiries>>,
           IsFiniteSet(st.entries),
           \A e, f \in st.entries : e.key = f.key => e = f,
           \E e \in st.entries : e.version = st.version,
           st.left <=> HasKey(st.entries, leftKey),
           Local(n).left => st.left,
           st.expiry = Local(n).expiry,
           st.version > Local(n).version,
           \A h \in st.entries : \/ h \in Local(n).entries
                                 \/ /\ h.version > Local(n).version
                                    /\ h.version <= st.version,
           \A h \in st.entries : h.key = compactKey =>
               /\ h.value <= Local(n).version
               /\ \A g \in st.entries : g.version > h.value,
           \/ \E k : /\ k # compactKey
                     /\ \A h \in Local(n).entries : h.key # k => h \in st.entries
                     /\ \E g \in st.entries : g.key = k /\ g.version > Local(n).version
           \/ \E g \in st.entries : /\ g.key = compactKey /\ g.value = Local(n).version
                                    /\ g.version > Local(n).version
    PROVE  IInv' /\ Advance
<1> DEFINE old == Local(n)
<1>1. TypeOK /\ cluster \in [Node -> ClusterStates]
  BY Zenon DEF IInv, TypeOK
<1>2. /\ \A m, o \in Node : View(m, o)' = IF m = n /\ o = n THEN st ELSE View(m, o)
      /\ cluster' \in [Node -> ClusterStates]
  <2> DEFINE c == [cluster[n] EXCEPT !.state[n] = st]
  <2>1. cluster' = [cluster EXCEPT ![n] = c]
    BY Zenon
  <2>2. cluster[n] \in ClusterStates
    BY Zenon, <1>1
  <2>3. c \in ClusterStates /\ \A o \in Node : c.state[o] = IF o = n THEN st ELSE cluster[n].state[o]
    BY Zenon, <2>2 DEF ClusterStates
  <2> HIDE DEF c
  <2>4. \A m \in Node : cluster'[m] = IF m = n THEN c ELSE cluster[m]
    BY Zenon, <1>1, <2>1
  <2>5. cluster' \in [Node -> ClusterStates]
    BY Zenon, <1>1, <2>1, <2>3
  <2> QED  BY Zenon, <2>3, <2>4, <2>5 DEF View
<1>3. Local(n)' = st /\ \A o \in Node \ {n} : Local(o)' = Local(o)
  BY <1>2 DEF Local, View
<1>4. TypeOK'
  BY Zenon, <1>1, <1>2 DEF TypeOK
<1>5. Removed' = Removed
  BY Zenon DEF Removed
<1>6. /\ st.version \in Nat /\ st.entries \in SUBSET Entry
      /\ old.version \in Nat /\ old.entries \in SUBSET Entry /\ old = View(n, n)
  BY Zenon, <1>1, ViewTypes DEF NodeState, Local, View
<1>7. \A e \in Entry : e.version \in Nat /\ (e.key = compactKey => e.value \in Nat)
  BY Zenon, EntryFacts
<1>8. \A e \in old.entries : e.version <= old.version /\ Sound(e, n)
  BY Zenon, <1>6 DEF IInv, ViewInv, GoodView
<1>9. ASSUME NEW e \in Entry, Sound(e, n)
      PROVE  Sound(e, n)'
  <2>1. e.version <= st.version
    BY <1>6, <1>7, <1>9 DEF Sound
  <2>2. e.key = leftKey => st.left
    BY Zenon, <1>9 DEF Sound
  <2>3. ASSUME e.key = compactKey
        PROVE  e.value <= st.version /\ \A h \in st.entries : h.version > e.value
    <3>1. e.value \in Nat /\ e.value <= old.version /\ \A h \in old.entries : h.version > e.value
      BY Zenon, <1>7, <1>9, <2>3 DEF Sound
    <3> QED  BY <1>6, <1>7, <3>1
  <2> QED  BY Zenon, <1>3, <2>1, <2>2, <2>3 DEF Sound
<1>10. \A e \in Entry, o \in Node : Sound(e, o) => Sound(e, o)'
  <2>1. \A e \in Entry, o \in Node \ {n} : Sound(e, o) => Sound(e, o)'
    BY Zenon, <1>3 DEF Sound
  <2> QED  BY Zenon, <1>9, <2>1
<1>11. \A h \in st.entries : h.version <= st.version /\ Sound(h, n)'
  <2> SUFFICES ASSUME NEW h \in st.entries PROVE h.version <= st.version /\ Sound(h, n)'
    BY Zenon
  <2>1. h.version <= st.version
    BY <1>6, <1>7, <1>8
  <2>2. h.key = leftKey => st.left
    BY Zenon DEF HasKey
  <2>3. h.key = compactKey => h.value <= st.version
    BY <1>6, <1>7
  <2> QED  BY Zenon, <1>3, <2>1, <2>2, <2>3 DEF Sound
\* What old superseded, or held and no longer does, st supersedes.
<1>12. ASSUME NEW e \in Entry, e.version <= old.version,
              NEW B \in SUBSET Nat, \A b \in B : b <= old.version,
              \/ e \in old.entries
              \/ \E h \in old.entries : (\A b \in B : h.version > b) /\ Supersedes(h, e)
       PROVE  \/ e \in st.entries
              \/ \E h \in st.entries : (\A b \in B : h.version > b) /\ Supersedes(h, e)
  <2>1. \A g \in st.entries : g.version > old.version => \A b \in B : g.version > b
    BY <1>6, <1>7, <1>12
  <2>2. CASE \E g \in st.entries : /\ g.key = compactKey /\ g.value = old.version
                                   /\ g.version > old.version
    BY Zenon, <1>6, <1>7, <1>12, <2>1, <2>2 DEF Supersedes
  <2>3. CASE \E k : /\ k # compactKey
                    /\ \A h \in old.entries : h.key # k => h \in st.entries
                    /\ \E g \in st.entries : g.key = k /\ g.version > old.version
    <3> HIDE DEF old
    <3>1. PICK k : /\ k # compactKey
                   /\ \A h \in old.entries : h.key # k => h \in st.entries
                   /\ \E g \in st.entries : g.key = k /\ g.version > old.version
      BY Zenon, <2>3
    <3>2. PICK g \in st.entries : g.key = k /\ \A b \in B : g.version > b
      BY Zenon, <2>1, <3>1
    <3>3. CASE e \in old.entries
      BY Zenon, <3>1, <3>2, <3>3 DEF Supersedes
    <3>4. CASE \E h \in old.entries : (\A b \in B : h.version > b) /\ Supersedes(h, e)
      <4>1. PICK h \in old.entries : (\A b \in B : h.version > b) /\ Supersedes(h, e)
        BY Zenon, <3>4
      <4>2. CASE h.key # k
        BY Zenon, <3>1, <4>1, <4>2
      <4>3. CASE h.key = k
        BY Zenon, <3>1, <3>2, <4>1, <4>3 DEF Supersedes
      <4> QED  BY Zenon, <4>2, <4>3
    <3> QED  BY Zenon, <1>12, <3>3, <3>4
  <2> QED  BY Zenon, <2>2, <2>3
<1> HIDE DEF old
<1>13. \A o \in Node : OwnerInv(o)'
  <2>1. OwnerInv(n)'
    BY Zenon, <1>3 DEF OwnerInv
  <2>2. \A o \in Node \ {n} : OwnerInv(o)'
    BY <1>3 DEF IInv, OwnerInv
  <2> QED  BY Zenon, <2>1, <2>2
<1>14. ASSUME NEW m \in Node, NEW o \in Node
       PROVE  ViewInv(m, o)'
  <2> DEFINE vw == View(m, o)
  <2>0. ViewInv(m, o) /\ vw.version \in Nat /\ vw.entries \in SUBSET Entry
    BY Zenon, <1>1, ViewTypes DEF IInv
  <2>1. CASE m = n /\ o = n
    <3>1. View(m, o)' = st /\ Local(o)' = st
      BY Zenon, <1>2, <1>3, <2>1
    <3>2. HasKey(st.entries, leftKey) => st.left
      BY Zenon
    <3> QED  BY Zenon, <1>6, <1>11, <2>1, <3>1, <3>2 DEF ViewInv, GoodView
  <2>2. CASE m # n /\ o = n
    <3>1. View(m, o)' = vw /\ Local(o)' = st
      BY Zenon, <1>2, <1>3, <2>2
    <3>2. /\ vw.version <= old.version
          /\ \A e \in vw.entries : e.version <= vw.version /\ Sound(e, n)
          /\ HasKey(vw.entries, leftKey) => vw.left
          /\ vw.left => old.left
          /\ n \notin Removed =>
                /\ \A h \in old.entries : h.version <= vw.version => h \in vw.entries
                /\ \A e \in vw.entries :
                      \/ e \in old.entries
                      \/ \E h \in old.entries : h.version > vw.version /\ Supersedes(h, e)
      BY Zenon, <2>0, <2>2 DEF ViewInv, GoodView, Overtaken, old
    <3> HIDE DEF vw
    <3>3. \A e \in vw.entries : Sound(e, n)'
      BY Zenon, <1>9, <2>0, <3>2
    <3>4. n \notin Removed => \A h \in st.entries : h.version <= vw.version => h \in vw.entries
      BY <1>6, <1>7, <2>0, <3>2 DEF old
    <3>5. n \notin Removed => \A e \in vw.entries :
              e \in st.entries \/ \E h \in st.entries : h.version > vw.version /\ Supersedes(h, e)
      <4> SUFFICES ASSUME n \notin Removed, NEW e \in vw.entries
                   PROVE  e \in st.entries \/ \E h \in st.entries : h.version > vw.version /\ Supersedes(h, e)
        BY Zenon
      <4>1. e \in Entry /\ e.version <= old.version
        BY <1>6, <1>7, <2>0, <3>2
      <4>2. {vw.version} \in SUBSET Nat /\ \A b \in {vw.version} : b <= old.version
        BY Zenon, <2>0, <3>2
      <4>3. \/ e \in old.entries
            \/ \E h \in old.entries : (\A b \in {vw.version} : h.version > b) /\ Supersedes(h, e)
        BY Zenon, <3>2
      <4>4. \/ e \in st.entries
            \/ \E h \in st.entries : (\A b \in {vw.version} : h.version > b) /\ Supersedes(h, e)
        BY Zenon, <1>12, <4>1, <4>2, <4>3
      <4> QED  BY Zenon, <4>4
    <3>6. vw.version <= st.version
      BY <1>6, <2>0, <3>2 DEF old
    <3>7. vw.left => st.left
      BY Zenon, <3>2 DEF old
    <3> QED  BY Zenon, <1>5, <2>2, <3>1, <3>2, <3>3, <3>4, <3>5, <3>6, <3>7 DEF ViewInv, GoodView, Overtaken
  <2>3. CASE o # n
    <3>1. View(m, o)' = vw /\ Local(o)' = Local(o)
      BY Zenon, <1>2, <1>3, <2>3
    <3>2. \A e \in vw.entries : Sound(e, o) => Sound(e, o)'
      BY Zenon, <1>10, <2>0
    <3>3. \A e, v : Overtaken(e, o, v) => Overtaken(e, o, v)'
      BY Zenon, <3>1 DEF Overtaken
    <3> QED  BY Zenon, <1>5, <2>0, <3>1, <3>2, <3>3 DEF ViewInv, GoodView
  <2> QED  BY Zenon, <2>1, <2>2, <2>3
<1>15. ASSUME NEW p \in net
       PROVE  MessageInv(p)'
  <2>1. MessageInv(p) /\ IsMessage(p)
    BY Zenon DEF IInv, TypeOK
  <2>2. p.from \in Node /\ p.to \in Node /\ DOMAIN p.digest \subseteq Node /\ DOMAIN p.delta \subseteq Node
    BY Zenon, <2>1 DEF IsMessage, IsDigest, IsDelta
  <2>3. \A m, o \in Node : /\ View(m, o).version \in Nat /\ View(m, o)'.version \in Nat
                           /\ View(m, o).version <= View(m, o)'.version
    <3>1. \A m, o \in Node : View(m, o).version \in Nat
      BY Zenon, <1>1, ViewTypes
    <3> QED  BY <1>2, <1>6, <3>1 DEF old
  <2>4. ASSUME NEW o \in DOMAIN p.digest \ Removed
        PROVE  p.digest[o].version <= View(p.from, o)'.version
    <3>1. p.digest[o].version \in Nat /\ p.digest[o].version <= View(p.from, o).version
      BY Zenon, <2>1 DEF MessageInv, IsMessage, IsDigest
    <3> QED  BY <2>2, <2>3, <3>1
  <2>5. \A o \in DOMAIN p.delta : p.delta[o] \in SUBSET Entry /\ \A e \in p.delta[o] : Sound(e, o)'
    BY Zenon, <1>10, <2>1, <2>2 DEF MessageInv, IsMessage, IsDelta
  <2>6. ASSUME NEW o \in DOMAIN p.delta, o \notin Removed
        PROVE  /\ \A x \in p.delta[o], h \in Local(o)'.entries :
                      View(p.to, o)'.version < h.version /\ h.version <= x.version => h \in p.delta[o]
               /\ \A e \in p.delta[o] :
                      \/ e \in Local(o)'.entries
                      \/ \E h \in Local(o)'.entries :
                            (\A x \in p.delta[o] : h.version > x.version) /\ Supersedes(h, e)
    <3> DEFINE es == p.delta[o]
    <3>1. /\ \A x \in es, h \in Local(o).entries :
                View(p.to, o).version < h.version /\ h.version <= x.version => h \in es
          /\ \A e \in es :
                \/ e \in Local(o).entries
                \/ \E h \in Local(o).entries :
                      (\A x \in es : h.version > x.version) /\ Supersedes(h, e)
          /\ \A e \in es : e \in Entry /\ e.version \in Nat /\ e.version <= Local(o).version
      BY Zenon, <1>7, <2>1, <2>5, <2>6 DEF MessageInv, Sound
    <3>2. \A h \in Local(o)'.entries : h.version \in Nat
      BY SMTT(30), <1>4, <2>2, ViewTypes, <1>3, <1>6, <1>7, <1>1 DEF Local, View
    <3> HIDE DEF es
    <3>3. CASE o # n
      <4>1. Local(o)' = Local(o)
        BY Zenon, <1>3, <2>2, <3>3
      <4>2. \A x \in es, h \in Local(o)'.entries :
                View(p.to, o)'.version < h.version /\ h.version <= x.version => h \in es
        BY <2>2, <2>3, <3>1, <3>2, <4>1
      <4> QED  BY Zenon, <3>1, <4>1, <4>2 DEF es
    <3>4. CASE o = n
      <4>1. Local(o)' = st /\ Local(o) = old
        BY Zenon, <1>3, <3>4 DEF old
      <4>2. \A x \in es, h \in st.entries :
                View(p.to, o)'.version < h.version /\ h.version <= x.version => h \in es
        <5> SUFFICES ASSUME NEW x \in es, NEW h \in st.entries,
                            View(p.to, o)'.version < h.version, h.version <= x.version
                     PROVE  h \in es
          BY Zenon
        <5>1. h \in old.entries
          BY <1>6, <1>7, <3>1, <3>4, <4>1 DEF old
        <5>2. View(p.to, o).version < h.version
          BY <2>2, <2>3, <3>2, <4>1
        <5> QED  BY Zenon, <3>1, <4>1, <5>1, <5>2
      <4>3. ASSUME NEW e \in es
            PROVE  \/ e \in st.entries
                   \/ \E h \in st.entries : (\A x \in es : h.version > x.version) /\ Supersedes(h, e)
        <5> DEFINE B == {x.version : x \in es}
        <5>1. B \in SUBSET Nat /\ \A b \in B : b <= old.version
          BY <3>1, <4>1
        <5>2. \/ e \in old.entries
              \/ \E h \in old.entries : (\A b \in B : h.version > b) /\ Supersedes(h, e)
          BY <3>1, <4>1
        <5>3. e \in Entry /\ e.version <= old.version
          BY Zenon, <3>1, <4>1
        <5>4. \/ e \in st.entries
              \/ \E h \in st.entries : (\A b \in B : h.version > b) /\ Supersedes(h, e)
          <6> HIDE DEF B
          <6> QED  BY Zenon, <1>12, <5>1, <5>2, <5>3
        <5> QED  BY Zenon, <5>4
      <4> QED  BY Zenon, <4>1, <4>2, <4>3 DEF es
    <3> QED  BY Zenon, <3>3, <3>4
  <2> QED  BY Zenon, <1>5, <2>4, <2>5, <2>6 DEF MessageInv
<1>16. \A p \in net' : MessageInv(p)'
  BY Zenon, <1>15
<1>17. \A m \in Node : cluster'[m].nodes = cluster[m].nodes
  <2> DEFINE c == [cluster[n] EXCEPT !.state[n] = st]
  <2>1. c.nodes = cluster[n].nodes
    BY <1>1 DEF ClusterStates
  <2>2. cluster' = [cluster EXCEPT ![n] = c]
    BY Zenon
  <2> HIDE DEF c
  <2> QED  BY Zenon, <1>1, <2>1, <2>2
<1>18. LocalNodeStays'
  <2>1. \A m \in Node : Local(m)'.expiry = Local(m).expiry
    BY Zenon, <1>3
  <2> QED  BY <1>17, <2>1, Zenon DEF IInv, LocalNodeStays
<1>19. Advance
  <2>1. \A m, o \in Node : View(m, o).version \in Nat
    BY Zenon, <1>1, ViewTypes
  <2>2. st.version \in Nat
    BY Zenon DEF NodeState
  <2>3. View(n, n) = Local(n)
    BY Zenon DEF View, Local
  <2>4. ASSUME NEW m \in Node, NEW o \in Node
        PROVE  View(m, o).version <= View(m, o)'.version
    <3>1. CASE m = n /\ o = n
      BY <1>2, <2>1, <2>2, <2>3, <3>1
    <3>2. CASE ~(m = n /\ o = n)
      BY <1>2, <2>1, <3>2
    <3> QED  BY Zenon, <3>1, <3>2
  <2>5. ASSUME NEW m \in Node, NEW o \in Node, View(m, o).left
        PROVE  View(m, o)'.left
    <3>1. CASE m = n /\ o = n
      BY <1>2, <2>3, <2>5, <3>1, Zenon
    <3>2. CASE ~(m = n /\ o = n)
      BY <1>2, <2>5, <3>2, Zenon
    <3> QED  BY Zenon, <3>1, <3>2
  <2> QED  BY Zenon, <2>4, <2>5 DEF Advance
<1> QED  BY Zenon, <1>4, <1>13, <1>14, <1>16, <1>18, <1>19 DEF IInv

(***************************************************************************)
(* The local operations keep the invariant.                                *)
(***************************************************************************)
LEMMA OwnerFacts ==
    ASSUME IInv, NEW n \in Node
    PROVE  /\ Local(n) \in NodeState /\ Local(n).version \in Nat
           /\ IsFiniteSet(Local(n).entries)
           /\ \A e, f \in Local(n).entries : e.key = f.key => e = f
           /\ Local(n).entries # {} => \E e \in Local(n).entries : e.version = Local(n).version
           /\ Local(n).left <=> HasKey(Local(n).entries, leftKey)
           /\ \A e \in Local(n).entries :
                  /\ e \in Entry /\ e.version \in Nat /\ e.version <= Local(n).version
                  /\ e.key = compactKey => /\ e.value \in Nat /\ e.value <= Local(n).version
                                           /\ \A h \in Local(n).entries : h.version > e.value
<1>1. Local(n) = View(n, n) /\ OwnerInv(n) /\ ViewInv(n, n) /\ TypeOK
  BY Zenon DEF IInv, Local, View
<1>2. Local(n) \in NodeState /\ Local(n).version \in Nat /\ Local(n).entries \in SUBSET Entry
  BY Zenon, <1>1, ViewTypes
<1> QED  BY Zenon, <1>1, <1>2, EntryFacts DEF OwnerInv, ViewInv, GoodView, Sound

\* A write of a key other than compactKey, which makes the node left exactly
\* when the key is leftKey.
LEMMA WriteStep ==
    ASSUME IInv, NEW n \in Node, NEW k, NEW v, NEW deleted, k # compactKey,
           [key |-> k, value |-> v, version |-> Local(n).version + 1, deleted |-> deleted] \in Entry,
           NEW st \in NodeState,
           st.version = Put(Local(n), k, v, deleted).version,
           st.entries = Put(Local(n), k, v, deleted).entries,
           st.left <=> (Local(n).left \/ k = leftKey),
           st.expiry = Local(n).expiry,
           cluster' = [cluster EXCEPT ![n].state[n] = st],
           UNCHANGED <<net, expiries>>
    PROVE  IInv' /\ Advance
<1> DEFINE old == Local(n)
<1>1. /\ old \in NodeState /\ old.version \in Nat
      /\ IsFiniteSet(old.entries)
      /\ \A e, f \in old.entries : e.key = f.key => e = f
      /\ old.left <=> HasKey(old.entries, leftKey)
      /\ \A e \in old.entries :
             /\ e \in Entry /\ e.version \in Nat /\ e.version <= old.version
             /\ e.key = compactKey => /\ e.value \in Nat /\ e.value <= old.version
                                      /\ \A h \in old.entries : h.version > e.value
  BY Zenon, OwnerFacts
<1>2. /\ st.version = old.version + 1
      /\ \A h \in st.entries :
             \/ h \in old.entries /\ h.key # k
             \/ h.key = k /\ h.version = old.version + 1 /\ h.value = v
      /\ \A h \in old.entries : h.key # k => h \in st.entries
      /\ \E h \in st.entries : h.key = k /\ h.version = old.version + 1
      /\ \A h, g \in st.entries : h.key = k /\ g.key = k => h = g
  BY <1>1, PutFacts
<1>3. IsFiniteSet(st.entries)
  BY Zenon, <1>1, PutFinite
<1> HIDE DEF old
<1>4. st.left <=> HasKey(st.entries, leftKey)
  <2>1. HasKey(st.entries, leftKey) <=> (HasKey(old.entries, leftKey) \/ k = leftKey)
    BY Zenon, <1>2 DEF HasKey
  <2> QED  BY <1>1, <2>1, Zenon DEF old
<1>5. \A e, f \in st.entries : e.key = f.key => e = f
  BY Zenon, <1>1, <1>2
<1>6. \E e \in st.entries : e.version = st.version
  BY Zenon, <1>2
<1>7. st.version > old.version
  BY <1>1, <1>2
<1>8. \A h \in st.entries : \/ h \in old.entries
                            \/ h.version > old.version /\ h.version <= st.version
  BY <1>1, <1>2
<1>9. \A h \in st.entries : h.key = compactKey =>
          h.value <= old.version /\ \A g \in st.entries : g.version > h.value
  BY <1>1, <1>2
<1>10. /\ \A h \in old.entries : h.key # k => h \in st.entries
       /\ \E g \in st.entries : g.key = k /\ g.version > old.version
  BY <1>1, <1>2
<1>11. old.left => st.left
  BY Zenon DEF old
<1> QED  BY ZenonT(30), <1>3, <1>4, <1>5, <1>6, <1>7, <1>8, <1>9, <1>10, <1>11, OwnerStep DEF old

LEMMA UpsertStep ==
    ASSUME IInv, NEW n \in Node, NEW k \in Key, NEW v \in Value, Upsert(n, k, v)
    PROVE  IInv' /\ Advance
<1> DEFINE st == Put(Local(n), k, v, FALSE)
<1>1. Local(n) \in NodeState /\ Local(n).version + 1 \in Version
  BY OwnerFacts DEF Version
<1>2. [key |-> k, value |-> v, version |-> Local(n).version + 1, deleted |-> FALSE] \in Entry
  BY Zenon, <1>1 DEF Entry
<1>3. st \in NodeState /\ st.left = Local(n).left /\ st.expiry = Local(n).expiry
  <2>1. st \in NodeState
    BY Zenon, <1>1, <1>2, PutFacts
  <2>2. st.left = Local(n).left
    BY Zenon, <1>1 DEF Put, NodeState
  <2>3. st.expiry = Local(n).expiry
    BY Zenon, <1>1 DEF Put, NodeState
  <2> QED  BY Zenon, <2>1, <2>2, <2>3
<1>4. k # compactKey /\ k # leftKey
  BY Zenon, KeyAssumption
<1>5. cluster' = [cluster EXCEPT ![n].state[n] = st] /\ UNCHANGED <<net, expiries>>
  BY Zenon DEF Upsert, SetLocal
<1>6. st.left <=> (Local(n).left \/ k = leftKey)
  BY Zenon, <1>3, <1>4
<1> HIDE DEF st
<1> QED  BY Zenon, <1>2, <1>3, <1>4, <1>5, <1>6, WriteStep DEF st

LEMMA DeleteStep ==
    ASSUME IInv, NEW n \in Node, NEW k \in Key, Delete(n, k)
    PROVE  IInv' /\ Advance
<1> DEFINE st == Put(Local(n), k, Empty, TRUE)
<1>1. Local(n) \in NodeState /\ Local(n).version + 1 \in Version
  BY OwnerFacts DEF Version
<1>2. [key |-> k, value |-> Empty, version |-> Local(n).version + 1, deleted |-> TRUE] \in Entry
  BY Zenon, <1>1 DEF Entry
<1>3. st \in NodeState /\ st.left = Local(n).left /\ st.expiry = Local(n).expiry
  <2>1. st \in NodeState
    BY Zenon, <1>1, <1>2, PutFacts
  <2>2. st.left = Local(n).left
    BY Zenon, <1>1 DEF Put, NodeState
  <2>3. st.expiry = Local(n).expiry
    BY Zenon, <1>1 DEF Put, NodeState
  <2> QED  BY Zenon, <2>1, <2>2, <2>3
<1>4. k # compactKey /\ k # leftKey
  BY Zenon, KeyAssumption
<1>5. cluster' = [cluster EXCEPT ![n].state[n] = st] /\ UNCHANGED <<net, expiries>>
  BY Zenon DEF Delete, SetLocal
<1>6. st.left <=> (Local(n).left \/ k = leftKey)
  BY Zenon, <1>3, <1>4
<1> HIDE DEF st
<1> QED  BY Zenon, <1>2, <1>3, <1>4, <1>5, <1>6, WriteStep DEF st

LEMMA LeaveStep ==
    ASSUME IInv, NEW n \in Node, Leave(n)
    PROVE  IInv' /\ Advance
<1> DEFINE put == Put(Local(n), leftKey, Empty, FALSE)
           st  == LeaveLocal(Local(n))
<1>1. Local(n) \in NodeState /\ Local(n).version + 1 \in Version
  BY OwnerFacts DEF Version
<1>2. [key |-> leftKey, value |-> Empty, version |-> Local(n).version + 1, deleted |-> FALSE] \in Entry
  BY Zenon, <1>1 DEF Entry
<1>3. put \in NodeState
  BY Zenon, <1>1, <1>2, PutFacts
<1>4. st = [put EXCEPT !.left = TRUE]
  BY Zenon DEF LeaveLocal
<1>5. cluster' = [cluster EXCEPT ![n].state[n] = st] /\ UNCHANGED <<net, expiries>>
  BY Zenon DEF Leave, SetLocal
<1> HIDE DEF put, st
<1>6. st \in NodeState /\ st.version = put.version /\ st.entries = put.entries /\ st.left = TRUE
  BY Zenon, <1>3, <1>4 DEF NodeState
<1>7. st.left <=> (Local(n).left \/ leftKey = leftKey)
  BY Zenon, <1>6
<1>8. st.expiry = Local(n).expiry
  BY Zenon, <1>1, LocalExpiry DEF st
<1> QED  BY Zenon, <1>2, <1>8, <1>5, <1>6, <1>7, KeyAssumption, WriteStep DEF put

LEMMA CompactStep ==
    ASSUME IInv, NEW n \in Node, Compact(n)
    PROVE  IInv' /\ Advance
<1> DEFINE old == Local(n)
           st  == CompactLocal(old)
<1>1. /\ old \in NodeState /\ old.version \in Nat
      /\ IsFiniteSet(old.entries)
      /\ \A e, f \in old.entries : e.key = f.key => e = f
      /\ old.left <=> HasKey(old.entries, leftKey)
      /\ old.entries # {} => \E e \in old.entries : e.version = old.version
      /\ \A e \in old.entries : e.version <= old.version
  BY Zenon, OwnerFacts
<1>2. old.entries # {}
  <2> SUFFICES ASSUME old.entries = {} PROVE FALSE
    BY Zenon
  <2>1. {e \in old.entries : e.deleted} = {}
    BY Zenon
  <2>2. Cardinality({e \in old.entries : e.deleted}) >= CompactThreshold
    BY Zenon DEF Compact, Compacts
  <2>3. Cardinality({}) >= CompactThreshold
    <3> HIDE DEF old
    <3> QED  BY Zenon, <2>1, <2>2
  <2> QED  BY <2>3, FS_EmptySet, BoundAssumption
<1>3. cluster' = [cluster EXCEPT ![n].state[n] = st] /\ UNCHANGED <<net, expiries>>
  BY Zenon DEF Compact, SetLocal
<1> HIDE DEF old
<1>4. /\ st \in NodeState /\ IsFiniteSet(st.entries)
      /\ st.version > old.version /\ st.left = old.left
      /\ \A h \in st.entries :
             /\ h.version > old.version /\ h.version <= st.version
             /\ h.key = compactKey => h.value = old.version
      /\ \E h \in st.entries :
             h.key = compactKey /\ h.version = st.version /\ h.value = old.version
      /\ \A h, g \in st.entries : h.key = g.key => h = g
      /\ HasKey(st.entries, leftKey) <=> HasKey(old.entries, leftKey)
  BY Zenon, <1>1, <1>2, CompactFacts
<1> HIDE DEF st
<1>5. st.left <=> HasKey(st.entries, leftKey)
  BY Zenon, <1>1, <1>4
<1>6. \E e \in st.entries : e.version = st.version
  BY Zenon, <1>4
<1>7. \A h \in st.entries : h.key = compactKey =>
          h.value <= old.version /\ \A g \in st.entries : g.version > h.value
  BY <1>1, <1>4
<1>8. \E g \in st.entries : g.key = compactKey /\ g.value = old.version /\ g.version > old.version
  BY Zenon, <1>4
<1>9. st.expiry = old.expiry
  BY Zenon, <1>1, LocalExpiry DEF st
<1> QED  BY Zenon, <1>3, <1>4, <1>5, <1>6, <1>7, <1>8, <1>9, OwnerStep DEF old

(***************************************************************************)
(* What a node sends.                                                      *)
(***************************************************************************)

\* d holds, for each node it names, the entries of c above the version in the
\* digest, or above 0, up to where it was cut.
CutFrom(d, c, digest) ==
    /\ DOMAIN d \subseteq Node
    /\ \A o \in DOMAIN d : \E v \in Nat :
          LET es == DeltaEntries(c.state[o], v)
          IN  /\ v = 0 \/ (o \in DOMAIN digest /\ v = digest[o].version)
              /\ d[o] \subseteq es
              /\ \A x \in d[o], h \in es : h.version <= x.version => h \in d[o]

LEMMA DeltaIsCut ==
    ASSUME NEW c \in ClusterStates, NEW digest, IsDigest(digest), NEW full
    PROVE  CutFrom(Delta(c, digest, full), c, digest)
<1> DEFINE D == Delta(c, digest, full)
           behind == {o \in DOMAIN digest \cap c.nodes :
                         DeltaEntries(c.state[o], digest[o].version) # {}}
           absent == IF full THEN c.nodes \ DOMAIN digest ELSE {}
           from(o) == IF o \in behind THEN digest[o].version ELSE 0
<1>1. D = [o \in behind \cup absent |-> DeltaEntries(c.state[o], from(o))]
  BY Zenon DEF Delta
<1>2. behind \cup absent \subseteq Node
  <2>1. behind \subseteq Node
    BY Zenon DEF IsDigest
  <2>2. c.nodes \subseteq Node
    BY Zenon DEF ClusterStates
  <2>3. absent \subseteq c.nodes
    BY Zenon
  <2> QED  BY Zenon, <2>1, <2>2, <2>3
<1>3. \A o \in behind : digest[o].version \in Nat
  BY Zenon DEF IsDigest
<1>4. \A o \in behind \cup absent :
          from(o) \in Nat /\ (from(o) = 0 \/ (o \in DOMAIN digest /\ from(o) = digest[o].version))
  BY Zenon, <1>3
<1> HIDE DEF behind, absent, from, D
<1>5. DOMAIN D = behind \cup absent /\ \A o \in DOMAIN D : D[o] = DeltaEntries(c.state[o], from(o))
  BY Zenon, <1>1
<1> QED  BY Zenon, <1>2, <1>4, <1>5 DEF CutFrom, D

LEMMA PartialDeltasAreCut ==
    ASSUME NEW c, NEW digest, NEW D, CutFrom(D, c, digest), NEW d \in PartialDeltas(D),
           \A o \in DOMAIN D : D[o] \subseteq Entry
    PROVE  CutFrom(d, c, digest)
<1>1. /\ DOMAIN d \subseteq DOMAIN D
      /\ \A o \in DOMAIN d : d[o] = D[o] \/ d[o] \in Prefixes(D[o])
  <2>1. CASE d = NoDelta
    BY Zenon, <2>1 DEF NoDelta
  <2>2. CASE d # NoDelta
    <3> DEFINE Cut(S, last) ==
                   {[o \in S |-> IF o = last THEN es ELSE D[o]] : es \in Prefixes(D[last])}
               Cuts(S) == UNION {Cut(S, last) : last \in S}
    <3>1. d \in {NoDelta} \cup UNION {Cuts(S) : S \in SUBSET DOMAIN D}
      BY Zenon DEF PartialDeltas
    <3> HIDE DEF Cuts
    <3>2. PICK S \in SUBSET DOMAIN D : d \in Cuts(S)
      BY Zenon, <2>2, <3>1
    <3>3. PICK last \in S : d \in Cut(S, last)
      <4> HIDE DEF Cut
      <4> QED  BY Zenon, <3>2 DEF Cuts
    <3>4. PICK es \in Prefixes(D[last]) : d = [o \in S |-> IF o = last THEN es ELSE D[o]]
      BY Zenon, <3>3
    <3> QED  BY Zenon, <3>4
  <2> QED  BY Zenon, <2>1, <2>2
<1>2. ASSUME NEW o \in DOMAIN d
      PROVE  /\ d[o] \subseteq D[o]
             /\ \A x \in d[o], h \in D[o] : h.version <= x.version => h \in d[o]
  <2>1. CASE d[o] = D[o]
    BY Zenon, <2>1
  <2>2. CASE d[o] \in Prefixes(D[o])
    <3>1. PICK v \in {0} \cup {e.version : e \in D[o]} : d[o] = {e \in D[o] : e.version <= v}
      BY Zenon, <2>2 DEF Prefixes
    <3>2. D[o] \subseteq Entry
      BY Zenon, <1>1
    <3>3. v \in Nat /\ \A e \in D[o] : e.version \in Nat
      BY <3>1, <3>2, EntryFacts
    <3> QED  BY <3>1, <3>3
  <2> QED  BY Zenon, <1>1, <2>1, <2>2
<1>3. DOMAIN d \subseteq Node
  BY Zenon, <1>1 DEF CutFrom
<1>4. ASSUME NEW o \in DOMAIN d
      PROVE  \E v \in Nat :
                LET es == DeltaEntries(c.state[o], v)
                IN  /\ v = 0 \/ (o \in DOMAIN digest /\ v = digest[o].version)
                    /\ d[o] \subseteq es
                    /\ \A x \in d[o], h \in es : h.version <= x.version => h \in d[o]
  <2>1. PICK v \in Nat :
                /\ v = 0 \/ (o \in DOMAIN digest /\ v = digest[o].version)
                /\ D[o] \subseteq DeltaEntries(c.state[o], v)
                /\ \A x \in D[o], h \in DeltaEntries(c.state[o], v) : h.version <= x.version => h \in D[o]
    BY Zenon, <1>1 DEF CutFrom
  <2>2. d[o] \subseteq DeltaEntries(c.state[o], v)
    BY Zenon, <1>2, <2>1
  <2>3. \A x \in d[o], h \in DeltaEntries(c.state[o], v) : h.version <= x.version => h \in d[o]
    BY Zenon, <1>2, <2>1
  <2> QED  BY Zenon, <2>1, <2>2, <2>3
<1> QED  BY Zenon, <1>3, <1>4 DEF CutFrom

LEMMA LocalDeltaIsCut ==
    ASSUME NEW c \in ClusterStates, NEW n \in Node, NEW digest
    PROVE  CutFrom(LocalDelta(c, n), c, digest)
<1> DEFINE d == LocalDelta(c, n)
<1>1. DOMAIN d = {n} /\ d[n] = DeltaEntries(c.state[n], 0)
  BY Zenon DEF LocalDelta
<1> HIDE DEF d
<1>2. \A o \in DOMAIN d : d[o] = DeltaEntries(c.state[o], 0)
  BY Zenon, <1>1
<1> QED  BY Zenon, <1>1, <1>2 DEF CutFrom, d

LEMMA CutIsDelta ==
    ASSUME NEW c \in ClusterStates, NEW digest, NEW d, CutFrom(d, c, digest)
    PROVE  IsDelta(d) /\ \A o \in DOMAIN d : d[o] \subseteq c.state[o].entries
<1>1. \A o \in DOMAIN d : d[o] \subseteq c.state[o].entries
  BY Zenon DEF CutFrom, DeltaEntries
<1>2. \A o \in Node : c.state[o].entries \subseteq Entry
  BY Zenon DEF ClusterStates, NodeState
<1>3. DOMAIN d \subseteq Node
  BY Zenon DEF CutFrom
<1> QED  BY Zenon, <1>1, <1>2, <1>3 DEF IsDelta

\* st is the sender's view, w the receiver's version, which the digest did not
\* exceed: what the sender cuts from its view leaves the receiver no gap.
LEMMA CutLeavesNoGap ==
    ASSUME NEW st \in NodeState, NEW H \in SUBSET Entry, NEW es \in SUBSET Entry,
           NEW v \in Nat, NEW w \in Nat, v <= w,
           IsCut(es, DeltaEntries(st, v)),
           \A e \in st.entries : e.version <= st.version,
           Whole(st, H), Behind(st, H)
    PROVE  NoGap(es, H, w) /\ BehindDelta(es, H)
<1> USE DEF IsCut, Whole, Behind, NoGap, BehindDelta
<1>1. st.version \in Nat /\ st.entries \in SUBSET Entry
  BY Zenon DEF NodeState
<1>2. \A e \in Entry : e.version \in Nat
  BY Zenon, EntryFacts
<1>3. es \subseteq st.entries /\ \A x \in es : x.version \in Nat /\ x.version <= st.version
  BY Zenon, <1>1, <1>2 DEF DeltaEntries
<1>4. ASSUME NEW x \in es, NEW h \in H, w < h.version, h.version <= x.version
      PROVE  h \in es
  <2>1. h \in st.entries /\ h.version > v
    BY <1>1, <1>2, <1>3, <1>4
  <2> QED  BY Zenon, <1>4, <2>1 DEF DeltaEntries
<1>5. ASSUME NEW e \in es, e \notin H
      PROVE  \E h \in H : (\A x \in es : h.version > x.version) /\ Supersedes(h, e)
  <2>1. PICK h \in H : h.version > st.version /\ Supersedes(h, e)
    BY Zenon, <1>3, <1>5
  <2>2. \A x \in es : h.version > x.version
    BY SMTT(30), <1>1, <1>2, <1>3, <2>1
  <2> QED  BY Zenon, <2>1, <2>2
<1> QED  BY Zenon, <1>4, <1>5

\* A message cut from the sender's views, in answer to a digest that claims no
\* more than the receiver holds, is good.
LEMMA SentInv ==
    ASSUME TypeOK', NEW q, q.from \in Node, q.to \in Node,
           NEW digest, IsDigest(digest),
           \A o \in DOMAIN digest \ Removed' : digest[o].version <= View(q.to, o)'.version,
           CutFrom(q.delta, cluster'[q.from], digest),
           \A o \in Node : ViewInv(q.from, o)',
           \A o \in DOMAIN q.digest : o \in Node /\ q.digest[o].version = View(q.from, o)'.version
    PROVE  MessageInv(q)'
<1>1. \A n, o \in Node : /\ cluster'[n].state[o] = View(n, o)'
                         /\ View(n, o)' \in NodeState
                         /\ View(n, o)'.version \in Nat /\ View(n, o)'.entries \in SUBSET Entry
  BY DEF TypeOK, ClusterStates, View, NodeState
<1>2. \A o \in DOMAIN q.digest : q.digest[o].version <= View(q.from, o)'.version
  BY SMTT(30), <1>1
<1>3. ASSUME NEW o \in DOMAIN q.delta
      PROVE  /\ \A e \in q.delta[o] : Sound(e, o)'
             /\ o \notin Removed' =>
                  /\ \A x \in q.delta[o], h \in Local(o)'.entries :
                        View(q.to, o)'.version < h.version /\ h.version <= x.version => h \in q.delta[o]
                  /\ \A e \in q.delta[o] :
                        \/ e \in Local(o)'.entries
                        \/ \E h \in Local(o)'.entries :
                              (\A x \in q.delta[o] : h.version > x.version) /\ Supersedes(h, e)
  <2> DEFINE st == View(q.from, o)'
             es == q.delta[o]
             H  == Local(o)'.entries
             w  == View(q.to, o)'.version
  <2>1. PICK v \in Nat :
            /\ v = 0 \/ (o \in DOMAIN digest /\ v = digest[o].version)
            /\ es \subseteq DeltaEntries(cluster'[q.from].state[o], v)
            /\ \A x \in es, h \in DeltaEntries(cluster'[q.from].state[o], v) :
                   h.version <= x.version => h \in es
    BY Zenon DEF CutFrom
  <2>2. o \in Node
    BY Zenon DEF CutFrom
  <2>3. cluster'[q.from].state[o] = st /\ st \in NodeState /\ w \in Nat
    BY Zenon, <1>1, <2>2
  <2>4. H \in SUBSET Entry
    BY Zenon, <1>1, <2>2 DEF Local, View
  <2>5. /\ \A e \in st.entries : e.version <= st.version /\ Sound(e, o)'
        /\ o \notin Removed' =>
               /\ \A h \in H : h.version <= st.version => h \in st.entries
               /\ \A e \in st.entries : \/ e \in H
                                        \/ \E h \in H : h.version > st.version /\ Supersedes(h, e)
    BY Zenon, <2>2 DEF ViewInv, GoodView, Overtaken
  <2>6. o \notin Removed' => v <= w
    BY SMTT(30), <2>1, <2>3
  <2> HIDE DEF st, es, H, w
  <2>7. es \subseteq st.entries
    BY Zenon, <2>1, <2>3 DEF DeltaEntries
  <2>8. \A e \in es : Sound(e, o)'
    BY Zenon, <2>5, <2>7
  <2>9. ASSUME o \notin Removed' PROVE NoGap(es, H, w) /\ BehindDelta(es, H)
    <3>1. v <= w
      BY Zenon, <2>6, <2>9
    <3>2. IsCut(es, DeltaEntries(st, v))
      BY Zenon, <2>1, <2>3 DEF IsCut
    <3>3. Whole(st, H) /\ Behind(st, H) /\ \A e \in st.entries : e.version <= st.version
      BY Zenon, <2>5, <2>9 DEF Whole, Behind
    <3>4. es \in SUBSET Entry
      BY Zenon, <2>3, <2>7 DEF NodeState
    <3> QED  BY Zenon, <2>3, <2>4, <3>1, <3>2, <3>3, <3>4, CutLeavesNoGap
  <2> QED  BY Zenon, <2>8, <2>9 DEF es, H, w, NoGap, BehindDelta
<1> QED  BY Zenon, <1>2, <1>3 DEF MessageInv

(***************************************************************************)
(* What a node receives.                                                   *)
(***************************************************************************)
LEMMA SetCluster ==
    ASSUME TypeOK, NEW m \in Node, NEW c \in ClusterStates,
           cluster' = [cluster EXCEPT ![m] = c]
    PROVE  /\ cluster' \in [Node -> ClusterStates]
           /\ cluster'[m] = c
           /\ \A n, o \in Node : View(n, o)' = IF n = m THEN c.state[o] ELSE View(n, o)
<1>1. cluster \in [Node -> ClusterStates]
  BY Zenon DEF TypeOK
<1>2. /\ cluster' \in [Node -> ClusterStates]
      /\ \A n \in Node : cluster'[n] = IF n = m THEN c ELSE cluster[n]
  BY Zenon, <1>1
<1> QED  BY Zenon, <1>2 DEF View

\* Applying a good delta to a good view gives a good view.
LEMMA AppliedView ==
    ASSUME IInv, NEW p \in net, NEW o \in DOMAIN p.delta
    PROVE  LET st == View(p.to, o)
               r == ApplyEntries(st, p.delta[o])
           IN  GoodView(r, o) /\ st.version <= r.version /\ (st.left => r.left)
<1> DEFINE st == View(p.to, o)
           es == p.delta[o]
           r  == ApplyEntries(st, es)
           H  == Local(o).entries
           N  == Local(o).version
<1>1. TypeOK /\ MessageInv(p) /\ p.to \in Node /\ o \in Node /\ es \in SUBSET Entry
  BY Zenon DEF IInv, TypeOK, IsMessage, IsDelta
<1>2. /\ st \in NodeState /\ st.version \in Nat /\ st.entries \in SUBSET Entry
      /\ N \in Nat /\ H \in SUBSET Entry
      /\ OneEntryPerKey(H) /\ KeepsAll(H, H)
  <2>1. st \in NodeState /\ st.version \in Nat /\ st.entries \in SUBSET Entry
    BY Zenon, <1>1, ViewTypes
  <2> HIDE DEF st
  <2> QED  BY Zenon, <1>1, <2>1, OwnerFacts DEF OneEntryPerKey, KeepsAll
<1>3. GoodView(st, o)
  BY Zenon, <1>1 DEF IInv, ViewInv
<1>4. \A e \in es : Sound(e, o) /\ e.version <= N
  BY Zenon, <1>1 DEF MessageInv, Sound
<1>5. KeepsAll(es, H)
  BY Zenon, <1>4 DEF KeepsAll, Sound
<1> DEFINE new == {e \in es : e.version > st.version}
<1>6. /\ r \in NodeState /\ r.version \in Nat
      /\ r.version >= st.version
      /\ \A x \in es : x.version <= r.version
      /\ r.version = st.version \/ \E x \in new : x.version = r.version
      /\ \A e \in r.entries : e \in new \/ e \in st.entries
      /\ r.left <=> (st.left \/ \E f \in new : f.key = leftKey)
  <2> HIDE DEF st, es, N
  <2>1. /\ r \in NodeState
        /\ r.version >= st.version
        /\ \A x \in es : x.version <= r.version
        /\ r.version = st.version \/ \E x \in new : x.version = r.version
        /\ \A e : e \in r.entries <=>
                /\ e \in new \/ (e \in st.entries /\ ~\E f \in new : f.key = e.key)
                /\ ~\E f \in new : f.key = compactKey /\ e.version <= f.value
        /\ r.left <=> (st.left \/ \E f \in new : f.key = leftKey)
    BY <1>1, <1>2, <1>4, ApplyFacts, ZenonT(60)
  <2>2. \A e \in r.entries : e \in new \/ e \in st.entries
    BY <2>1, Zenon
  <2>3. r.version \in Nat
    BY Zenon, <2>1 DEF NodeState
  <2> QED  BY Zenon, <2>1, <2>2, <2>3
<1>7. ASSUME o \notin Removed
      PROVE  Whole(r, H) /\ Behind(r, H)
  <2>1. Whole(st, H) /\ Behind(st, H)
    BY Zenon, <1>3, <1>7 DEF GoodView, Overtaken, Whole, Behind
  <2>2. NoGap(es, H, st.version) /\ BehindDelta(es, H)
    BY Zenon, <1>1, <1>7 DEF MessageInv, NoGap, BehindDelta
  <2> HIDE DEF st, es, H, N
  <2> QED  BY Zenon, <1>1, <1>2, <1>4, <1>5, <2>1, <2>2, ApplyLeavesNoGap
<1> HIDE DEF r, es
<1>8. r.version <= N
  <2>1. st.version <= N
    BY Zenon, <1>3 DEF GoodView
  <2> HIDE DEF st, N
  <2> QED  BY Zenon, <1>4, <1>6, <2>1
<1>9. \A e \in r.entries : e.version <= r.version /\ Sound(e, o)
  <2>1. \A e \in st.entries : e.version <= st.version /\ Sound(e, o)
    BY Zenon, <1>3 DEF GoodView
  <2> HIDE DEF st, N
  <2> QED  BY SMTT(30), <1>1, <1>2, <1>4, <1>6, <2>1, EntryFacts
<1>10. HasKey(r.entries, leftKey) => r.left
  <2>1. HasKey(st.entries, leftKey) => st.left
    BY Zenon, <1>3 DEF GoodView
  <2> HIDE DEF st, new
  <2> QED  BY <1>6, <2>1, Zenon DEF HasKey
<1>11. r.left => Local(o).left
  <2>1. st.left => Local(o).left
    BY Zenon, <1>3 DEF GoodView
  <2>2. \A f \in new : f.key = leftKey => Local(o).left
    BY Zenon, <1>4 DEF Sound
  <2> HIDE DEF st, new
  <2> QED  BY <1>6, <2>1, <2>2, Zenon
<1>12. st.left => r.left
  <2> HIDE DEF st, new
  <2> QED  BY <1>6, Zenon
<1> HIDE DEF st
<1> QED  BY ZenonT(30), <1>2, <1>6, <1>7, <1>8, <1>9, <1>10, <1>11, <1>12 DEF GoodView, Overtaken, Whole, Behind, r, es, st

\* st is a good view of o, no older than the one n has.
Follows(st, n, o) ==
    /\ GoodView(st, o)
    /\ View(n, o).version <= st.version
    /\ View(n, o).left => st.left

LEMMA ViewFollows ==
    ASSUME IInv, NEW n \in Node, NEW o \in Node
    PROVE  Follows(View(n, o), n, o)
<1>1. View(n, o).version \in Nat
  BY Zenon, ViewTypes DEF IInv
<1> QED  BY <1>1 DEF Follows, IInv, ViewInv

\* So ApplyDelta keeps the local state and gives good views.
LEMMA DeltaApplied ==
    ASSUME IInv, NEW p \in net
    PROVE  LET c == ApplyDelta(cluster[p.to], p.to, p.from, p.delta)
           IN  /\ c \in ClusterStates
               /\ cluster[p.to].nodes \subseteq c.nodes
               /\ c.state[p.to] = Local(p.to)
               /\ \A o \in Node : Follows(c.state[o], p.to, o)
<1> DEFINE c == ApplyDelta(cluster[p.to], p.to, p.from, p.delta)
           N == [o \in Node |-> Local(o).version]
<1>1. TypeOK /\ MessageInv(p) /\ p.to \in Node /\ IsDelta(p.delta) /\ cluster[p.to] \in ClusterStates
  BY Zenon DEF IInv, TypeOK, IsMessage
<1>2. N \in [Node -> Nat]
  BY Zenon, OwnerFacts
<1>3. \A o \in DOMAIN p.delta : \A e \in p.delta[o] : e.version <= N[o]
  BY Zenon, <1>1 DEF MessageInv, Sound, IsDelta
<1> HIDE DEF N
<1>4. /\ c \in ClusterStates
      /\ cluster[p.to].nodes \subseteq c.nodes
      /\ c.state[p.to] = Local(p.to)
      /\ \A o \in Node : \/ c.state[o] = View(p.to, o)
                         \/ o \in DOMAIN p.delta /\ c.state[o] = ApplyEntries(View(p.to, o), p.delta[o])
  BY SMTT(30), <1>1, <1>2, <1>3, ApplyDeltaFacts DEF View, Local
<1> HIDE DEF c
<1>5. \A o \in Node : Follows(View(p.to, o), p.to, o)
  BY Zenon, <1>1, ViewFollows
<1>6. \A o \in DOMAIN p.delta : Follows(ApplyEntries(View(p.to, o), p.delta[o]), p.to, o)
  BY Zenon, AppliedView DEF Follows
<1>7. \A o \in Node : Follows(c.state[o], p.to, o)
  BY Zenon, <1>4, <1>5, <1>6
<1> QED  BY Zenon, <1>4, <1>7 DEF c

(***************************************************************************)
(* A step in which m changes what it holds to c and sends messages, cut    *)
(* from c in answer to a digest, to one node.                              *)
(***************************************************************************)
SentBy(q, m, to, c, digest) ==
    /\ IsMessage(q)
    /\ q.from = m /\ q.to = to
    /\ CutFrom(q.delta, c, digest)
    /\ \A o \in DOMAIN q.digest : q.digest[o].version = c.state[o].version

\* The digest claims no more than its sender holds.
Claims(digest, n) ==
    \A o \in DOMAIN digest \ Removed : digest[o].version <= View(n, o).version

LEMMA UpdateStep ==
    ASSUME IInv, NEW m \in Node, NEW to \in Node, NEW c \in ClusterStates,
           cluster' = [cluster EXCEPT ![m] = c],
           UNCHANGED expiries,
           cluster[m].nodes \subseteq c.nodes,
           c.state[m] = Local(m),
           \A o \in Node : Follows(c.state[o], m, o),
           NEW digest, IsDigest(digest), Claims(digest, to),
           \A q \in net' : q \in net \/ SentBy(q, m, to, c, digest)
    PROVE  IInv' /\ Advance
<1>1. TypeOK
  BY Zenon DEF IInv
<1>2. /\ cluster' \in [Node -> ClusterStates]
      /\ cluster'[m] = c
      /\ \A n, o \in Node : View(n, o)' = IF n = m THEN c.state[o] ELSE View(n, o)
  BY Zenon, <1>1, SetCluster
<1>3. \A n, o \in Node : Follows(View(n, o)', n, o)
  <2> SUFFICES ASSUME NEW n \in Node, NEW o \in Node PROVE Follows(View(n, o)', n, o)
    BY Zenon 
  <2>1. CASE n = m
    BY Zenon, <1>2, <2>1
  <2>2. CASE n # m
    <3>1. View(n, o)' = View(n, o)
      BY Zenon, <1>2, <2>2
    <3> QED  BY Zenon, <3>1, ViewFollows
  <2> QED  BY Zenon, <2>1, <2>2
<1>4. \A o \in Node : Local(o)' = Local(o)
  BY Zenon, <1>2 DEF View, Local
<1>5. Removed' = Removed
  BY Zenon DEF Removed
<1>6. \A n, o \in Node : ViewInv(n, o)'
  <2> SUFFICES ASSUME NEW n \in Node, NEW o \in Node PROVE ViewInv(n, o)'
    BY Zenon 
  <2>1. GoodView(View(n, o)', o)
    BY Zenon, <1>3 DEF Follows
  <2>2. Local(o)' = Local(o)
    BY Zenon, <1>4
  <2>3. \A e : Sound(e, o) => Sound(e, o)'
    BY Zenon, <2>2 DEF Sound
  <2>4. \A e, v : Overtaken(e, o, v) => Overtaken(e, o, v)'
    BY Zenon, <2>2 DEF Overtaken
  <2> QED  BY Zenon, <1>5, <2>1, <2>2, <2>3, <2>4 DEF ViewInv, GoodView
<1>7. TypeOK'
  BY Zenon, <1>1, <1>2 DEF TypeOK, SentBy
<1>8. ASSUME NEW q \in net', q \notin net
      PROVE  MessageInv(q)'
  <2>1. SentBy(q, m, to, c, digest)
    BY Zenon, <1>8
  <2>2. q.from = m /\ q.to = to /\ q.from \in Node /\ q.to \in Node
    BY Zenon, <2>1 DEF SentBy
  <2>3. CutFrom(q.delta, cluster'[q.from], digest)
    BY Zenon, <1>2, <2>1, <2>2 DEF SentBy
  <2>4. \A o \in DOMAIN q.digest : o \in Node /\ q.digest[o].version = View(q.from, o)'.version
    <3>1. \A o \in DOMAIN q.digest : o \in Node
      BY Zenon, <2>1 DEF SentBy, IsMessage, IsDigest
    <3> QED  BY Zenon, <1>2, <2>1, <2>2, <3>1 DEF SentBy
  <2>5. ASSUME NEW o \in DOMAIN digest \ Removed'
        PROVE  digest[o].version <= View(q.to, o)'.version
    <3>1. o \in Node /\ digest[o].version \in Nat
      BY Zenon DEF IsDigest
    <3>2. digest[o].version <= View(to, o).version
      BY Zenon, <1>5 DEF Claims
    <3>3. View(to, o).version <= View(to, o)'.version
      BY Zenon, <1>3, <3>1 DEF Follows
    <3>4. View(to, o).version \in Nat /\ View(to, o)'.version \in Nat
      <4>1. View(to, o).version \in Nat
        BY Zenon, <1>1, <3>1, ViewTypes
      <4>2. View(to, o)'.version \in Nat
        BY SMTT(30), <1>7, <3>1 DEF TypeOK, View, ClusterStates, NodeState
      <4> QED  BY Zenon, <4>1, <4>2
    <3> QED  BY SMTT(30), <2>2, <3>1, <3>2, <3>3, <3>4
  <2>6. \A o \in Node : ViewInv(q.from, o)'
    BY Zenon, <1>6, <2>2
  <2> QED  BY ZenonT(30), <1>7, <2>2, <2>3, <2>4, <2>5, <2>6, SentInv
<1>9. \A n \in Node : n \in cluster'[n].nodes
  <2>1. \A n \in Node : n \in cluster[n].nodes
    BY Zenon DEF IInv, LocalNodeStays
  <2>2. cluster \in [Node -> ClusterStates]
    BY Zenon, <1>1 DEF TypeOK
  <2> QED  BY Zenon, <2>1, <2>2
<1>10. \A n \in Node, o \in Node : View(n, o).version <= View(n, o)'.version
  BY Zenon, <1>3 DEF Follows
<1>11. IInv'
  BY ZenonT(30), <1>4, <1>5, <1>6, <1>7, <1>8, <1>9, <1>10, RemoteStep
<1>12. Advance
  BY Zenon, <1>3 DEF Follows, Advance
<1> QED  BY Zenon, <1>11, <1>12

\* What a node sends about its own state.
LEMMA OwnState ==
    ASSUME IInv, NEW n \in Node
    PROVE  /\ cluster[n] \in ClusterStates
           /\ cluster = [cluster EXCEPT ![n] = cluster[n]]
           /\ cluster[n].state[n] = Local(n)
           /\ \A o \in Node : Follows(cluster[n].state[o], n, o)
<1>1. cluster \in [Node -> ClusterStates]
  BY Zenon DEF IInv, TypeOK
<1>2. \A o \in Node : Follows(View(n, o), n, o)
  BY Zenon, ViewFollows
<1> QED  BY Zenon, <1>1, <1>2 DEF Local, View

LEMMA NothingSent ==
    ASSUME NEW c, NEW digest
    PROVE  /\ IsDigest(NoDigest) /\ IsDelta(NoDelta)
           /\ \A n : Claims(NoDigest, n)
           /\ CutFrom(NoDelta, c, digest)
           /\ DOMAIN NoDigest = {}
<1>1. DOMAIN NoDigest = {} /\ DOMAIN NoDelta = {}
  BY Zenon DEF NoDigest, NoDelta
<1> QED  BY Zenon, <1>1 DEF IsDigest, IsDelta, Claims, CutFrom

\* Any part of a digest is one, and names versions the node holds.
LEMMA PartialDigestFacts ==
    ASSUME NEW c \in ClusterStates, NEW d \in PartialDigests(Digest(c))
    PROVE  IsDigest(d) /\ \A o \in DOMAIN d : d[o].version = c.state[o].version
<1>1. PICK S \in SUBSET DOMAIN Digest(c) : d = [o \in S |-> Digest(c)[o]]
  BY Zenon DEF PartialDigests
<1>2. \A o \in c.nodes : Digest(c)[o] = [version |-> c.state[o].version, left |-> c.state[o].left]
  BY Zenon DEF Digest
<1>3. DOMAIN Digest(c) = c.nodes /\ c.nodes \subseteq Node
  BY Zenon DEF Digest, ClusterStates
<1>4. \A o \in c.nodes : [version |-> c.state[o].version, left |-> c.state[o].left] \in [version: Nat, left: BOOLEAN]
  <2>1. \A o \in c.nodes : c.state[o] \in NodeState
    BY Zenon, <1>3 DEF ClusterStates
  <2>2. \A o \in c.nodes : c.state[o].version \in Nat /\ c.state[o].left \in BOOLEAN
    BY Zenon, <2>1 DEF NodeState
  <2> QED  BY Zenon, <2>2
<1>5. DOMAIN d \subseteq c.nodes /\ \A o \in DOMAIN d : d[o] = [version |-> c.state[o].version, left |-> c.state[o].left]
  BY Zenon, <1>1, <1>2, <1>3
<1> QED  BY SMTT(30), <1>3, <1>4, <1>5 DEF IsDigest

LEMMA FullDigest ==
    ASSUME NEW c \in ClusterStates
    PROVE  Digest(c) \in PartialDigests(Digest(c))
<1>1. Digest(c) = [o \in DOMAIN Digest(c) |-> Digest(c)[o]]
  BY Zenon DEF Digest
<1> QED  BY Zenon, <1>1 DEF PartialDigests

\* A message made of a part of c's digest and a cut of c.
LEMMA MessageSent ==
    ASSUME NEW m \in Node, NEW to \in Node, NEW c \in ClusterStates, NEW digest,
           NEW q, q.from = m, q.to = to,
           q.type \in {"digest", "delta", "join", "stream"}, q.request \in BOOLEAN,
           q.digest \in PartialDigests(Digest(c)) \cup {NoDigest},
           CutFrom(q.delta, c, digest)
    PROVE  SentBy(q, m, to, c, digest)
<1>1. IsDigest(q.digest) /\ \A o \in DOMAIN q.digest : q.digest[o].version = c.state[o].version
  <2>1. CASE q.digest \in PartialDigests(Digest(c))
    BY Zenon, <2>1, PartialDigestFacts
  <2>2. CASE q.digest = NoDigest
    BY Zenon, <2>2, NothingSent
  <2> QED  BY Zenon, <2>1, <2>2
<1>2. IsDelta(q.delta)
  BY Zenon, CutIsDelta
<1> QED  BY Zenon, <1>1, <1>2 DEF SentBy, IsMessage

LEMMA GossipRoundStep ==
    ASSUME IInv, NEW n \in Node, NEW m \in Node, GossipRound(n, m)
    PROVE  IInv' /\ Advance
<1>1. PICK d \in PartialDigests(Digest(cluster[n])) : net' = net \cup {DigestMsg(n, m, d, TRUE)}
  BY Zenon DEF GossipRound, Send
<1>2. cluster' = cluster /\ UNCHANGED expiries
  BY Zenon DEF GossipRound
<1>3. SentBy(DigestMsg(n, m, d, TRUE), n, m, cluster[n], NoDigest)
  BY Zenon, OwnState, NothingSent, MessageSent DEF DigestMsg
<1>4. \A q \in net' : q \in net \/ SentBy(q, n, m, cluster[n], NoDigest)
  BY Zenon, <1>1, <1>3
<1> QED  BY Zenon, <1>2, <1>4, OwnState, NothingSent, UpdateStep

LEMMA JoinStep ==
    ASSUME IInv, NEW n \in Node, NEW m \in Node, Join(n, m)
    PROVE  IInv' /\ Advance
<1> DEFINE q == JoinMsg(n, m, Digest(cluster[n]), LocalDelta(cluster[n], n))
<1>1. net' = net \cup {q} /\ cluster' = cluster /\ UNCHANGED expiries
  BY Zenon DEF Join, Send
<1>2. SentBy(q, n, m, cluster[n], NoDigest)
  <2>1. cluster[n] \in ClusterStates
    BY Zenon, OwnState
  <2>2. CutFrom(LocalDelta(cluster[n], n), cluster[n], NoDigest)
    BY Zenon, <2>1, LocalDeltaIsCut
  <2>3. Digest(cluster[n]) \in PartialDigests(Digest(cluster[n]))
    BY Zenon, <2>1, FullDigest
  <2> QED  BY Zenon, <2>1, <2>2, <2>3, MessageSent DEF JoinMsg
<1> HIDE DEF q
<1>3. \A p \in net' : p \in net \/ SentBy(p, n, m, cluster[n], NoDigest)
  BY ZenonT(30), <1>1, <1>2
<1> QED  BY Zenon, <1>1, <1>3, OwnState, NothingSent, UpdateStep

LEMMA SendLeaveStep ==
    ASSUME IInv, NEW n \in Node, NEW m \in Node, SendLeave(n, m)
    PROVE  IInv' /\ Advance
<1> DEFINE q == DeltaMsg(n, m, "stream", LocalDelta(cluster[n], n))
<1>1. net' = net \cup {q} /\ cluster' = cluster /\ UNCHANGED expiries
  BY Zenon DEF SendLeave, Send
<1>2. SentBy(q, n, m, cluster[n], NoDigest)
  <2>1. cluster[n] \in ClusterStates
    BY Zenon, OwnState
  <2>2. CutFrom(LocalDelta(cluster[n], n), cluster[n], NoDigest)
    BY Zenon, <2>1, LocalDeltaIsCut
  <2> QED  BY ZenonT(30), <2>1, <2>2, MessageSent DEF DeltaMsg
<1> HIDE DEF q
<1>3. \A p \in net' : p \in net \/ SentBy(p, n, m, cluster[n], NoDigest)
  BY Zenon, <1>1, <1>2
<1> QED  BY Zenon, <1>1, <1>3, OwnState, NothingSent, UpdateStep

LEMMA ReceiveFacts ==
    ASSUME IInv, NEW p \in net
    PROVE  /\ p.from \in Node /\ p.to \in Node
           /\ IsDigest(p.digest) /\ IsDelta(p.delta)
           /\ Claims(p.digest, p.from)
           /\ \A replies : Receive(p, replies) => net' \subseteq net \cup replies
<1>1. IsMessage(p) /\ MessageInv(p)
  BY Zenon DEF IInv, TypeOK
<1>2. ASSUME NEW replies, Receive(p, replies)
      PROVE  net' \subseteq net \cup replies
  <2> DEFINE Rest == {net \ {p}} \cup (IF p.type \in {"digest", "delta"} THEN {net} ELSE {})
  <2>1. \A rest \in Rest : rest \subseteq net
    BY Zenon
  <2>2. \E rest \in Rest, sent \in SUBSET replies : net' = rest \cup sent
    BY Zenon, <1>2 DEF Receive
  <2> HIDE DEF Rest
  <2> QED  BY Zenon, <2>1, <2>2
<1> QED  BY Zenon, <1>1, <1>2 DEF IsMessage, MessageInv, Claims

LEMMA ReceiveDigestStep ==
    ASSUME IInv, NEW p \in net, ReceiveDigest(p)
    PROVE  IInv' /\ Advance
<1> DEFINE c == ApplyDigest(cluster[p.to], p.from, p.digest)
           Good(q) == SentBy(q, p.to, p.from, c, p.digest)
<1>1. p.from \in Node /\ p.to \in Node /\ IsDigest(p.digest) /\ Claims(p.digest, p.from)
  BY Zenon, ReceiveFacts
<1>2. cluster[p.to] \in ClusterStates
  BY Zenon, <1>1, OwnState
<1>3. c \in ClusterStates /\ c.state = cluster[p.to].state /\ cluster[p.to].nodes \subseteq c.nodes
  BY ZenonT(30), <1>1, <1>2, ApplyDigestFacts
<1>4. cluster' = [cluster EXCEPT ![p.to] = c] /\ UNCHANGED expiries
  BY Zenon DEF ReceiveDigest
<1>5. PICK delta \in PartialDeltas(Delta(c, p.digest, FALSE)),
           digest \in IF p.request THEN PartialDigests(Digest(c)) ELSE {NoDigest} :
               Receive(p, {DeltaMsg(p.to, p.from, "delta", delta)}
                            \cup IF p.request
                                 THEN {DigestMsg(p.to, p.from, digest, FALSE)}
                                 ELSE {})
  BY ZenonT(30) DEF ReceiveDigest
<1> HIDE DEF c
<1>6. Good(DeltaMsg(p.to, p.from, "delta", delta))
  <2> DEFINE D == Delta(c, p.digest, FALSE)
  <2>1. CutFrom(D, c, p.digest)
    BY ZenonT(60), <1>1, <1>3, DeltaIsCut
  <2> HIDE DEF D
  <2>2. \A o \in DOMAIN D : D[o] \subseteq Entry
    BY Zenon, <1>3, <2>1, CutIsDelta DEF IsDelta
  <2>3. CutFrom(delta, c, p.digest)
    <3>1. delta \in PartialDeltas(D)
      BY Zenon DEF D
    <3> QED  BY Zenon, <2>1, <2>2, <3>1, PartialDeltasAreCut
  <2> QED  BY Zenon, <1>1, <1>3, <2>3, MessageSent DEF DeltaMsg
<1>7. p.request => Good(DigestMsg(p.to, p.from, digest, FALSE))
  <2> SUFFICES ASSUME p.request PROVE Good(DigestMsg(p.to, p.from, digest, FALSE))
    BY Zenon
  <2>1. digest \in PartialDigests(Digest(c))
    BY Zenon
  <2> QED  BY Zenon, <1>1, <1>3, <2>1, NothingSent, MessageSent DEF DigestMsg
<1> HIDE DEF Good
<1>8. \A q \in net' : q \in net \/ Good(q)
  <2>1. net' \subseteq net \cup ({DeltaMsg(p.to, p.from, "delta", delta)}
                                  \cup IF p.request
                                       THEN {DigestMsg(p.to, p.from, digest, FALSE)}
                                       ELSE {})
    BY Zenon, <1>5, ReceiveFacts
  <2> QED  BY Zenon, <1>6, <1>7, <2>1
<1>9. c.state[p.to] = Local(p.to) /\ \A o \in Node : Follows(c.state[o], p.to, o)
  BY Zenon, <1>1, <1>3, OwnState
<1> QED  BY ZenonT(30), <1>1, <1>3, <1>4, <1>8, <1>9, UpdateStep DEF Good

LEMMA ReceiveDeltaStep ==
    ASSUME IInv, NEW p \in net, ReceiveDelta(p)
    PROVE  IInv' /\ Advance
<1> DEFINE c == ApplyDelta(cluster[p.to], p.to, p.from, p.delta)
<1>1. p.to \in Node
  BY Zenon, ReceiveFacts
<1>2. cluster' = [cluster EXCEPT ![p.to] = c] /\ UNCHANGED expiries /\ net' \subseteq net
  <2>1. Receive(p, {})
    BY Zenon DEF ReceiveDelta
  <2>2. net' \subseteq net \cup {}
    BY Zenon, <2>1, ReceiveFacts
  <2>3. cluster' = [cluster EXCEPT ![p.to] = c] /\ UNCHANGED expiries
    BY Zenon DEF ReceiveDelta
  <2> QED  BY Zenon, <2>2, <2>3
<1>3. /\ c \in ClusterStates /\ cluster[p.to].nodes \subseteq c.nodes
      /\ c.state[p.to] = Local(p.to)
      /\ \A o \in Node : Follows(c.state[o], p.to, o)
  BY Zenon, DeltaApplied
<1> HIDE DEF c
<1>4. \A q \in net' : q \in net \/ SentBy(q, p.to, p.to, c, NoDigest)
  BY Zenon, <1>2
<1> QED  BY Zenon, <1>1, <1>2, <1>3, <1>4, NothingSent, UpdateStep

LEMMA ReceiveJoinStep ==
    ASSUME IInv, NEW p \in net, ReceiveJoin(p)
    PROVE  IInv' /\ Advance
<1> DEFINE b == ApplyDelta(cluster[p.to], p.to, p.from, p.delta)
           c == ApplyDigest(b, p.from, p.digest)
           q == DeltaMsg(p.to, p.from, "stream", Delta(c, p.digest, TRUE))
<1>1. p.from \in Node /\ p.to \in Node /\ IsDigest(p.digest) /\ Claims(p.digest, p.from)
  BY Zenon, ReceiveFacts
<1>2. cluster' = [cluster EXCEPT ![p.to] = c] /\ UNCHANGED expiries /\ Receive(p, {q})
  BY Zenon DEF ReceiveJoin
<1>3. net' \subseteq net \cup {q}
  BY ZenonT(30), <1>2, ReceiveFacts
<1>4. /\ b \in ClusterStates /\ cluster[p.to].nodes \subseteq b.nodes
      /\ b.state[p.to] = Local(p.to)
      /\ \A o \in Node : Follows(b.state[o], p.to, o)
  BY ZenonT(60), DeltaApplied
<1> HIDE DEF b
<1>5. c \in ClusterStates /\ c.state = b.state /\ b.nodes \subseteq c.nodes
  BY ZenonT(30), <1>1, <1>4, ApplyDigestFacts
<1> HIDE DEF c
<1>6. SentBy(q, p.to, p.from, c, p.digest)
  <2>1. CutFrom(Delta(c, p.digest, TRUE), c, p.digest)
    BY Zenon, <1>1, <1>5, DeltaIsCut
  <2> QED  BY Zenon, <1>1, <1>5, <2>1, MessageSent DEF DeltaMsg
<1> HIDE DEF q
<1>7. \A r \in net' : r \in net \/ SentBy(r, p.to, p.from, c, p.digest)
  BY Zenon, <1>3, <1>6
<1>8. /\ c.state[p.to] = Local(p.to) /\ cluster[p.to].nodes \subseteq c.nodes
      /\ \A o \in Node : Follows(c.state[o], p.to, o)
  BY Zenon, <1>4, <1>5
<1> QED  BY ZenonT(30), <1>1, <1>2, <1>5, <1>7, <1>8, UpdateStep

LEMMA LoseStep ==
    ASSUME IInv, NEW p \in net, Lose(p)
    PROVE  IInv' /\ Advance
<1>1. p.to \in Node
  BY Zenon, ReceiveFacts
<1>2. cluster' = cluster /\ UNCHANGED expiries /\ net' \subseteq net
  BY Zenon DEF Lose
<1>3. \A q \in net' : q \in net \/ SentBy(q, p.to, p.to, cluster[p.to], NoDigest)
  BY Zenon, <1>2
<1> QED  BY Zenon, <1>1, <1>2, <1>3, OwnState, NothingSent, UpdateStep

LEMMA CheckLivenessStep ==
    ASSUME IInv, NEW n \in Node, CheckLiveness(n)
    PROVE  IInv' /\ Advance
<1>1. PICK suspects \in Suspects :
          cluster' = [cluster EXCEPT ![n] = UpdateLiveness(cluster[n], n, suspects)]
  BY Zenon DEF CheckLiveness
<1>2. net' = net /\ UNCHANGED expiries
  BY Zenon DEF CheckLiveness
<1> DEFINE c == UpdateLiveness(cluster[n], n, suspects)
<1>3. /\ cluster[n] \in ClusterStates /\ cluster[n].state[n] = Local(n)
      /\ \A o \in Node : Follows(cluster[n].state[o], n, o)
  BY Zenon, OwnState
<1>4. SameUpToLiveness(c, cluster[n], n)
  BY Zenon, <1>3, UpdateLivenessFacts
<1>5. cluster' = [cluster EXCEPT ![n] = c]
  BY Zenon, <1>1
<1> HIDE DEF c
<1>a. /\ c \in ClusterStates
      /\ c.nodes = cluster[n].nodes
      /\ c.state[n] = cluster[n].state[n]
      /\ \A o \in Node : /\ c.state[o].version = cluster[n].state[o].version
                         /\ c.state[o].entries = cluster[n].state[o].entries
                         /\ c.state[o].left = cluster[n].state[o].left
  BY Zenon, <1>4 DEF SameUpToLiveness
<1>6. ASSUME NEW o \in Node PROVE Follows(c.state[o], n, o)
  <2>1. \A x, y : x.version = y.version /\ x.entries = y.entries /\ x.left = y.left
                  /\ Follows(x, n, o) => Follows(y, n, o)
    BY ZenonT(60) DEF Follows, GoodView
  <2>2. /\ cluster[n].state[o].version = c.state[o].version
        /\ cluster[n].state[o].entries = c.state[o].entries
        /\ cluster[n].state[o].left = c.state[o].left
    BY Zenon, <1>a
  <2> QED  BY Zenon, <1>3, <2>1, <2>2
<1>7. \A q \in net' : q \in net \/ SentBy(q, n, n, c, NoDigest)
  BY Zenon, <1>2
<1> QED  BY ZenonT(60), <1>2, <1>3, <1>a, <1>5, <1>6, <1>7, NothingSent, UpdateStep

LEMMA RemoveStep ==
    ASSUME IInv, NEW n \in Node, NEW expired \in SUBSET Node, NEW stale, n \notin expired,
           cluster' = [cluster EXCEPT ![n] = RemoveExpired(cluster[n], expired, stale)],
           expiries' = [o \in Node |-> expiries[o] + IF o \in expired THEN 1 ELSE 0],
           net' = net
    PROVE  IInv' /\ Advance
<1> DEFINE c == RemoveExpired(cluster[n], expired, stale)
<1>1. TypeOK /\ cluster[n] \in ClusterStates /\ expiries \in [Node -> Nat]
  BY Zenon DEF IInv, TypeOK
<1>2. /\ c \in ClusterStates
      /\ c.nodes = cluster[n].nodes \ expired
      /\ \A o \in expired : c.state[o] = NewNode
      /\ \A o \in Node \ expired : c.state[o] = cluster[n].state[o]
  <2> DEFINE b == cluster[n]
  <2>1. b \in ClusterStates
    BY Zenon, <1>1
  <2>2. c = RemoveExpired(b, expired, stale)
    BY Zenon
  <2> HIDE DEF b, c
  <2>3. c \in ClusterStates
    BY Zenon, <2>1, <2>2, RemoveExpiredFacts
  <2>4. c.nodes = b.nodes \ expired
    BY Zenon, <2>2 DEF RemoveExpired
  <2>5. /\ \A o \in expired : c.state[o] = NewNode
        /\ \A o \in Node \ expired : c.state[o] = b.state[o]
    BY Zenon, <2>2 DEF RemoveExpired
  <2> QED  BY Zenon, <2>3, <2>4, <2>5 DEF b
<1>3. cluster' = [cluster EXCEPT ![n] = c]
  BY Zenon 
<1> HIDE DEF c
<1>4. /\ cluster' \in [Node -> ClusterStates]
      /\ cluster'[n] = c
      /\ \A m, o \in Node : View(m, o)' = IF m = n THEN c.state[o] ELSE View(m, o)
  BY Zenon, <1>1, <1>2, <1>3, SetCluster
<1>5. \A m, o \in Node : View(m, o)' = IF m = n /\ o \in expired THEN NewNode ELSE View(m, o)
  BY Zenon, <1>2, <1>4 DEF View
<1>6. \A o \in Node : Local(o)' = Local(o)
  <2>1. \A o \in Node : View(o, o)' = View(o, o)
    BY Zenon, <1>5
  <2> QED  BY Zenon, <2>1 DEF View, Local
<1>7. expiries' \in [Node -> Nat] /\ Removed \subseteq Removed' /\ expired \subseteq Removed'
  BY <1>1 DEF Removed
<1>8. TypeOK'
  BY Zenon, <1>1, <1>4, <1>7 DEF TypeOK
<1>9. ASSUME NEW m \in Node, NEW o \in Node
       PROVE  View(m, o)' = View(m, o) \/ ViewInv(m, o)'
  <2>1. CASE m = n /\ o \in expired
    <3>1. View(m, o)' = NewNode /\ o \in Removed'
      BY Zenon, <1>5, <1>7, <2>1
    <3>2. Local(o)'.version \in Nat
      BY Zenon, <1>6, OwnerFacts
    <3>3. GoodView(NewNode, o)'
      BY SMTT(30), <3>1, <3>2 DEF GoodView, NewNode, HasKey
    <3> QED  BY Zenon, <3>1, <3>3 DEF ViewInv
  <2>2. CASE ~(m = n /\ o \in expired)
    BY Zenon, <1>5, <2>2
  <2> QED  BY Zenon, <2>1, <2>2
<1>10. \A m \in Node, o \in Node \ Removed' : View(m, o).version <= View(m, o)'.version
  <2>1. \A m, o \in Node : View(m, o).version <= View(m, o).version
    BY Zenon, ViewFollows DEF Follows
  <2>2. \A m \in Node, o \in Node \ Removed' : View(m, o)' = View(m, o)
    BY Zenon, <1>5, <1>7
  <2> QED  BY Zenon, <2>1, <2>2
<1>11. \A m \in Node : cluster'[m].nodes = IF m = n THEN cluster[n].nodes \ expired ELSE cluster[m].nodes
  <2>1. cluster \in [Node -> ClusterStates]
    BY Zenon, <1>1 DEF TypeOK
  <2> QED  BY Zenon, <1>2, <1>3, <2>1
<1>12. \A m \in Node : m \in cluster'[m].nodes
  BY <1>11 DEF IInv, LocalNodeStays
<1>13. IInv'
  BY Zenon, <1>6, <1>7, <1>8, <1>9, <1>10, <1>12, RemoteStep
<1>14. Advance
  <2>1. \A m, o \in Node : o \in cluster'[m].nodes => View(m, o)' = View(m, o)
    BY SMTT(30), <1>5, <1>11
  <2>2. \A m, o \in Node : /\ View(m, o).version <= View(m, o).version
                           /\ View(m, o).left => View(m, o).left
    BY Zenon, ViewFollows DEF Follows
  <2> QED  BY Zenon, <2>1, <2>2 DEF Advance
<1> QED  BY Zenon, <1>13, <1>14

LEMMA ExpireStep ==
    ASSUME IInv, NEW n \in Node, Expire(n)
    PROVE  IInv' /\ Advance
<1> DEFINE due == {o \in cluster[n].nodes : cluster[n].state[o].expiry}
<1>1. due \subseteq Node
  BY Zenon DEF IInv, TypeOK, ClusterStates
<1>2. n \notin due
  BY Zenon DEF IInv, LocalNodeStays, Local
<1>3. \E expired \in SUBSET due, stale \in SUBSET cluster[n].tombstones :
        /\ cluster' = [cluster EXCEPT ![n] = RemoveExpired(cluster[n], expired, stale)]
        /\ expiries' = [o \in Node |-> expiries[o] + IF o \in expired THEN 1 ELSE 0]
        /\ net' = net
  BY Zenon DEF Expire
<1> HIDE DEF due
<1>4. PICK expired \in SUBSET due, stale \in SUBSET cluster[n].tombstones :
        /\ cluster' = [cluster EXCEPT ![n] = RemoveExpired(cluster[n], expired, stale)]
        /\ expiries' = [o \in Node |-> expiries[o] + IF o \in expired THEN 1 ELSE 0]
        /\ net' = net
  BY Zenon, <1>3
<1>5. expired \in SUBSET Node /\ n \notin expired
  BY Zenon, <1>1, <1>2
<1> QED  BY Zenon, <1>4, <1>5, RemoveStep

-----------------------------------------------------------------------------
(***************************************************************************)
(* The theorems.                                                           *)
(***************************************************************************)
LEMMA InitInv == Init => IInv
<1> SUFFICES ASSUME Init PROVE IInv
  BY Zenon
<1>1. NewNode \in NodeState
  BY Zenon DEF NewNode, NodeState
<1>2. \A n \in Node : newClusterState(n) \in ClusterStates /\ n \in newClusterState(n).nodes
  BY Zenon, <1>1 DEF newClusterState, ClusterStates
<1>3. \A n \in Node : cluster[n] = newClusterState(n)
  BY Zenon DEF Init
<1>4. \A n, o \in Node : View(n, o) = NewNode /\ Local(o) = NewNode
  <2>1. \A n, o \in Node : newClusterState(n).state[o] = NewNode
    BY Zenon DEF newClusterState
  <2> QED  BY Zenon, <1>3, <2>1 DEF View, Local
<1>5. TypeOK
  BY Zenon, <1>2 DEF TypeOK, Init
<1>6. /\ NewNode.entries = {} /\ NewNode.version = 0
      /\ ~NewNode.left /\ ~NewNode.expiry
  BY Zenon DEF NewNode
<1>7. ASSUME NEW o \in Node PROVE OwnerInv(o)
  <2>1. IsFiniteSet({})
    BY Zenon, FS_EmptySet
  <2> QED  BY Zenon, <1>4, <1>6, <2>1 DEF OwnerInv, HasKey
<1>8. ASSUME NEW n \in Node, NEW o \in Node PROVE ViewInv(n, o)
  BY SMTT(30), <1>4, <1>6 DEF ViewInv, GoodView, HasKey
<1>9. LocalNodeStays
  BY Zenon, <1>2, <1>3, <1>4, <1>6 DEF LocalNodeStays
<1>10. \A p \in net : MessageInv(p)
  BY Zenon DEF Init
<1> QED  BY Zenon, <1>5, <1>7, <1>8, <1>9, <1>10 DEF IInv

LEMMA StutterStep ==
    ASSUME IInv, UNCHANGED vars
    PROVE  IInv'
<1>1. cluster' = cluster /\ net' = net /\ expiries' = expiries
  BY Zenon DEF vars
<1>2. /\ \A o \in Node : Local(o)' = Local(o)
      /\ \A n, o \in Node : View(n, o)' = View(n, o)
      /\ Removed' = Removed
  BY Zenon, <1>1 DEF Local, View, Removed
<1>3. TypeOK'
  BY Zenon, <1>1 DEF IInv, TypeOK
<1>4. \A n, o \in Node : View(n, o).version <= View(n, o)'.version
  BY Zenon, <1>2, ViewFollows DEF Follows
<1>5. \A n \in Node : n \in cluster'[n].nodes
  BY Zenon, <1>1 DEF IInv, LocalNodeStays
<1> QED  BY Zenon, <1>1, <1>2, <1>3, <1>4, <1>5, RemoteStep

LEMMA NextStep ==
    ASSUME IInv, Next
    PROVE  IInv' /\ Advance
<1>1. CASE \E n \in Node : \/ \E k \in Key, v \in Value : Upsert(n, k, v)
                          \/ \E k \in Key : Delete(n, k)
  BY Zenon, <1>1, UpsertStep, DeleteStep
<1>2. CASE \E n \in Node : Leave(n) \/ Compact(n)
  BY Zenon, <1>2, LeaveStep, CompactStep
<1>3. CASE \E n \in Node : CheckLiveness(n) \/ Expire(n)
  BY Zenon, <1>3, CheckLivenessStep, ExpireStep
<1>4. CASE \E n, m \in Node : GossipRound(n, m) \/ Join(n, m) \/ SendLeave(n, m)
  BY Zenon, <1>4, GossipRoundStep, JoinStep, SendLeaveStep
<1>5. CASE \E p \in net : ReceiveDigest(p) \/ ReceiveDelta(p)
  BY Zenon, <1>5, ReceiveDigestStep, ReceiveDeltaStep
<1>6. CASE \E p \in net : ReceiveJoin(p) \/ Lose(p)
  BY Zenon, <1>6, ReceiveJoinStep, LoseStep
<1> QED  BY Zenon, <1>1, <1>2, <1>3, <1>4, <1>5, <1>6 DEF Next

\* The inductive invariant: owners, views and messages stay consistent under
\* every handler, loss, duplication, truncation and expiry (pkg/gossip).
THEOREM Invariance == Spec => []IInv
<1>1. Init => IInv
  BY Zenon, InitInv
<1>2. IInv /\ [Next]_vars => IInv'
  BY Zenon, NextStep, StutterStep
<1> QED  BY <1>1, <1>2, PTL DEF Spec

\* Every clusterState and every message in flight always has the Go types.
THEOREM TypeCorrect == Spec => []TypeOK
<1>1. IInv => TypeOK
  BY Zenon DEF IInv
<1> QED  BY <1>1, Invariance, PTL

\* A view that applyDeltaEntry has moved to version v holds everything its
\* owner still has up to v.
THEOREM NoSkippedEntry == Spec => []NothingSkipped
<1>1. ASSUME IInv PROVE NothingSkipped
  <2> SUFFICES ASSUME NEW n \in Node, NEW o \in Node \ Removed, NEW h \in Local(o).entries,
                      h.version <= View(n, o).version
               PROVE  h \in View(n, o).entries
    BY Zenon DEF NothingSkipped
  <2>1. GoodView(View(n, o), o)
    BY Zenon, <1>1 DEF IInv, ViewInv
  <2> QED  BY Zenon, <2>1 DEF GoodView
<1>2. IInv => NothingSkipped
  BY Zenon, <1>1
<1> QED  BY <1>2, Invariance, PTL

\* What a view holds and its owner does not is always overtaken by an entry
\* still to come, so CompactLocal resurrects no deleted key.
THEOREM NoStaleEntry == Spec => []StaleIsBehind
<1>1. IInv => StaleIsBehind
  BY Zenon DEF IInv, ViewInv, GoodView, StaleIsBehind
<1> QED  BY <1>1, Invariance, PTL

\* A node whose digest shows the owner's version holds the owner's entries.
THEOREM SameVersionSameState == Spec => []Agreement
<1>1. ASSUME IInv PROVE Agreement
  <2> SUFFICES ASSUME NEW n \in Node, NEW o \in Node \ Removed,
                      View(n, o).version = Local(o).version
               PROVE  /\ View(n, o).entries = Local(o).entries
                      /\ View(n, o).left = Local(o).left
    BY Zenon DEF Agreement
  <2>1. GoodView(View(n, o), o) /\ View(n, o) \in NodeState
    BY Zenon, <1>1, ViewTypes DEF IInv, ViewInv
  <2>2. /\ Local(o).version \in Nat /\ Local(o) \in NodeState
        /\ Local(o).left <=> HasKey(Local(o).entries, leftKey)
        /\ \A h \in Local(o).entries : h.version \in Nat /\ h.version <= Local(o).version
    BY Zenon, <1>1, OwnerFacts
  <2>3. \A h \in Local(o).entries : h \in View(n, o).entries
    BY ZenonT(30), <2>1, <2>2 DEF GoodView
  <2>4. ASSUME NEW e \in View(n, o).entries PROVE e \in Local(o).entries
    <3>1. e \in Local(o).entries \/ \E h \in Local(o).entries : h.version > View(n, o).version
      BY ZenonT(30), <2>1 DEF GoodView, Overtaken
    <3>2. ASSUME NEW h \in Local(o).entries PROVE ~(h.version > View(n, o).version)
      BY <2>1, <2>2
    <3> QED  BY Zenon, <3>1, <3>2
  <2>5. View(n, o).entries = Local(o).entries
    BY Zenon, <2>3, <2>4
  <2>6. View(n, o).left <=> Local(o).left
    BY <2>1, <2>2, <2>5, Zenon DEF GoodView
  <2>7. View(n, o).left \in BOOLEAN /\ Local(o).left \in BOOLEAN
    BY ZenonT(30), <2>1, <2>2 DEF NodeState
  <2> QED  BY Zenon, <2>5, <2>6, <2>7
<1>2. IInv => Agreement
  BY Zenon, <1>1
<1> QED  BY <1>2, Invariance, PTL

\* The gossip loop never removes its own node (RemoveExpired, UpdateLiveness).
THEOREM LocalNodeNeverExpires == Spec => []LocalNodeStays
<1>1. IInv => LocalNodeStays
  BY Zenon DEF IInv
<1> QED  BY <1>1, Invariance, PTL

\* While a node is known, no delta takes its version back or makes it un-leave
\* (applyDeltaEntry).
THEOREM VersionsAdvance == Spec => ViewsAdvance
<1>1. IInv /\ [Next]_vars => [Advance]_vars
  BY Zenon, NextStep
<1> QED  BY <1>1, Invariance, PTL DEF Spec, ViewsAdvance

-----------------------------------------------------------------------------
(***************************************************************************)
(* Compaction gives every entry it keeps a version of its own.             *)
(***************************************************************************)
OneEntryPerVersion(es) == \A e, f \in es : e.version = f.version => e = f

LEMMA RankOrders ==
    ASSUME NEW es \in SUBSET Entry, IsFiniteSet(es), NEW e \in es, NEW f \in es,
           e.version < f.version
    PROVE  Rank(e, es) # Rank(f, es)
<1> DEFINE B(x) == {g \in es : g.version <= x.version}
<1>1. B(e) \subseteq B(f) /\ f \in B(f) /\ f \notin B(e)
  BY EntryFacts
<1>2. IsFiniteSet(B(f))
  BY Zenon, FS_Subset
<1>3. Rank(e, es) = Cardinality(B(e)) /\ Rank(f, es) = Cardinality(B(f))
  BY Zenon DEF Rank
<1> HIDE DEF B
<1>4. Cardinality(B(e)) # Cardinality(B(f))
  BY Zenon, <1>1, <1>2, FS_Subset
<1> QED  BY Zenon, <1>3, <1>4

LEMMA RenumberedVersions ==
    ASSUME NEW st \in NodeState, IsFiniteSet(st.entries), OneEntryPerVersion(st.entries)
    PROVE  OneEntryPerVersion(Renumbered(st))
<1> DEFINE K == Kept(st.entries)
           New(e) == [e EXCEPT !.version = st.version + Rank(e, K)]
<1>1. K \in SUBSET Entry /\ K \subseteq st.entries
  BY Zenon DEF Kept, NodeState
<1>2. IsFiniteSet(K)
  <2> HIDE DEF K
  <2> QED  BY Zenon, <1>1, FS_Subset
<1>3. ASSUME NEW e \in K, NEW f \in K, e # f
      PROVE  Rank(e, K) # Rank(f, K)
  <2>1. e.version # f.version
    BY Zenon, <1>1, <1>3 DEF OneEntryPerVersion
  <2>2. e.version < f.version \/ f.version < e.version
    BY <1>1, <2>1, EntryFacts
  <2> HIDE DEF K
  <2> QED  BY Zenon, <1>1, <1>2, <2>2, RankOrders
<1>4. \A e \in K : Rank(e, K) \in Nat /\ 1 <= Rank(e, K)
  <2> HIDE DEF K
  <2> QED  BY Zenon, <1>1, <1>2, RankBounds
<1>5. st.version \in Nat
  BY Zenon DEF NodeState
<1>6. \A e \in K : New(e).version = st.version + Rank(e, K)
  <2> SUFFICES ASSUME NEW e \in K PROVE New(e).version = st.version + Rank(e, K)
    BY Zenon
  <2> DEFINE v == st.version + Rank(e, K)
  <2>1. v \in Version /\ e \in Entry
    BY <1>1, <1>4, <1>5 DEF Version
  <2> HIDE DEF v, K
  <2> QED  BY Zenon, <2>1, Renumber DEF v
<1>7. Renumbered(st) = {New(e) : e \in K}
  BY Zenon DEF Renumbered
<1> SUFFICES ASSUME NEW h \in Renumbered(st), NEW g \in Renumbered(st), h.version = g.version
             PROVE  h = g
  BY Zenon DEF OneEntryPerVersion
<1>8. PICK e \in K : h = New(e)
  BY Zenon, <1>7
<1>9. PICK f \in K : g = New(f)
  BY Zenon, <1>7
<1>10. st.version + Rank(e, K) = st.version + Rank(f, K)
  <2> HIDE DEF K, New
  <2> QED  BY Zenon, <1>6, <1>8, <1>9
<1>11. e = f
  <2> HIDE DEF K
  <2> QED  BY SMTT(30), <1>3, <1>4, <1>5, <1>10
<1> QED  BY Zenon, <1>8, <1>9, <1>11

\* An entry that a local operation on st adds is above every version used.
LEMMA PutVersions ==
    ASSUME NEW st \in NodeState, NEW k, NEW v, NEW deleted
    PROVE  LET new == [key |-> k, value |-> v, version |-> st.version + 1, deleted |-> deleted]
           IN  \A h \in Put(st, k, v, deleted).entries : h \in st.entries \/ h = new
BY Zenon DEF Put, NodeState

Renews(st, old) ==
    /\ \A h \in st.entries : h \in old.entries \/ h.version > old.version
    /\ \A h, g \in st.entries :
           h.version > old.version /\ h.version = g.version => h = g

LEMMA PutRenews ==
    ASSUME NEW st \in NodeState, NEW k, NEW v, NEW deleted,
           \A e \in st.entries : e.version <= st.version
    PROVE  Renews(Put(st, k, v, deleted), st)
<1> DEFINE new == [key |-> k, value |-> v, version |-> st.version + 1, deleted |-> deleted]
<1>1. \A h \in Put(st, k, v, deleted).entries : h \in st.entries \/ h = new
  BY Zenon, PutVersions
<1>2. new.version = st.version + 1
  BY Zenon
<1>3. st.version \in Nat /\ \A e \in st.entries : e.version \in Nat
  BY Zenon, EntryFacts DEF NodeState
<1> HIDE DEF new
<1> QED  BY <1>1, <1>2, <1>3 DEF Renews

LEMMA CompactRenews ==
    ASSUME NEW st \in NodeState, IsFiniteSet(st.entries), OneEntryPerVersion(st.entries)
    PROVE  Renews(CompactLocal(st), st)
<1> DEFINE K == Cardinality(Kept(st.entries))
           N == Renumbered(st)
           s == [st EXCEPT !.version = st.version + K, !.entries = N]
           last == Max({e.version : e \in st.entries})
           new == [key |-> compactKey, value |-> last, version |-> s.version + 1, deleted |-> FALSE]
<1>1. CompactLocal(st) = Put(s, compactKey, last, FALSE)
  BY Zenon DEF CompactLocal
<1>2. /\ K \in Nat /\ N \subseteq Entry
      /\ \A h \in N : h.version > st.version /\ h.version <= st.version + K
  BY Zenon, RenumberedFacts
<1>3. OneEntryPerVersion(N)
  BY Zenon, RenumberedVersions
<1>4. st.version \in Nat
  BY Zenon DEF NodeState
<1> HIDE DEF K, N, last
<1>5. s \in NodeState /\ s.version = st.version + K /\ s.entries = N
  <2>1. st.version + K \in Nat
    BY <1>2, <1>4
  <2> QED  BY Zenon, <1>2, <2>1 DEF NodeState
<1> HIDE DEF s
<1>6. \A h \in Put(s, compactKey, last, FALSE).entries : h \in N \/ h = new
  BY Zenon, <1>5, PutVersions
<1>7. new.version = s.version + 1
  BY Zenon
<1>8. \A h \in N : h.version \in Nat
  BY Zenon, <1>2, EntryFacts
<1> HIDE DEF new
<1>9. \A h \in CompactLocal(st).entries : h.version > st.version /\ (h \in N \/ h = new)
  <2> DEFINE es == CompactLocal(st).entries
  <2>1. \A h \in es : h \in N \/ h = new
    BY Zenon, <1>1, <1>6
  <2>2. new.version > st.version
    BY SMTT(30), <1>2, <1>4, <1>5, <1>7
  <2> HIDE DEF es
  <2>3. \A h \in es : h.version > st.version /\ (h \in N \/ h = new)
    BY ZenonT(30), <1>2, <2>1, <2>2
  <2> QED  BY Zenon, <2>3 DEF es
<1>10. ASSUME NEW h \in CompactLocal(st).entries, NEW g \in CompactLocal(st).entries,
              h.version = g.version
       PROVE  h = g
  BY SMTT(30), <1>2, <1>3, <1>4, <1>5, <1>7, <1>8, <1>9, <1>10 DEF OneEntryPerVersion
<1> QED  BY Zenon, <1>9, <1>10 DEF Renews

-----------------------------------------------------------------------------
(***************************************************************************)
(* Steps that write nothing spread entries: a node drops entries, or       *)
(* applies a delta's, and sends some of those it has.                      *)
(***************************************************************************)

\* Entry e of o is somewhere: in a view or in a message.
Exists(e, o) ==
    \/ \E n \in Node : e \in View(n, o).entries
    \/ \E p \in net : o \in DOMAIN p.delta /\ e \in p.delta[o]

NothingWritten == \A o \in Node : \A e : Exists(e, o)' => Exists(e, o)

\* Message q holds only entries of c.
TakenFrom(q, c) == \A o \in DOMAIN q.delta : q.delta[o] \subseteq c.state[o].entries

\* State st of o is what m has or has lost of o, or a delta applied to that.
ComesFrom(st, m, o) ==
    \/ st.entries = {} /\ st.version = 0
    \/ st.entries = View(m, o).entries /\ st.version = View(m, o).version
    \/ \E p \in net : o \in DOMAIN p.delta /\ st = ApplyEntries(View(m, o), p.delta[o])

Spreads(m, c) ==
    /\ c \in ClusterStates
    /\ cluster' = [cluster EXCEPT ![m] = c]
    /\ \A o \in Node : ComesFrom(c.state[o], m, o)
    /\ \A q \in net' : q \in net \/ TakenFrom(q, c)

Spread == \E m \in Node, c \in ClusterStates : Spreads(m, c)

LEMMA AppliedEntries ==
    ASSUME NEW st \in NodeState, NEW es
    PROVE  ApplyEntries(st, es).entries \subseteq st.entries \cup es
BY Zenon DEF ApplyEntries, NodeState

LEMMA ComesFromExists ==
    ASSUME IInv, NEW m \in Node, NEW o \in Node, NEW st, ComesFrom(st, m, o), NEW e \in st.entries
    PROVE  Exists(e, o)
<1>1. CASE st.entries = {}
  BY Zenon, <1>1
<1>2. CASE st.entries = View(m, o).entries
  BY Zenon, <1>2 DEF Exists
<1>3. ASSUME NEW p \in net, o \in DOMAIN p.delta, st = ApplyEntries(View(m, o), p.delta[o])
      PROVE  Exists(e, o)
  <2>1. View(m, o) \in NodeState
    BY Zenon, ViewTypes DEF IInv
  <2>2. e \in View(m, o).entries \/ e \in p.delta[o]
    BY Zenon, <1>3, <2>1, AppliedEntries
  <2> QED  BY Zenon, <1>3, <2>2 DEF Exists
<1> QED  BY Zenon, <1>1, <1>2, <1>3 DEF ComesFrom

LEMMA SpreadWritesNothing ==
    ASSUME IInv, Spread
    PROVE  NothingWritten
<1>1. PICK m \in Node, c \in ClusterStates : Spreads(m, c)
  BY Zenon DEF Spread
<1>2. \A n, o \in Node : View(n, o)' = IF n = m THEN c.state[o] ELSE View(n, o)
  BY Zenon, <1>1, SetCluster DEF IInv, Spreads
<1>3. \A o \in Node : \A e \in c.state[o].entries : Exists(e, o)
  BY Zenon, <1>1, ComesFromExists DEF Spreads
<1>4. \A q \in net' : q \in net \/ TakenFrom(q, c)
  BY Zenon, <1>1 DEF Spreads
<1> SUFFICES ASSUME NEW o \in Node, NEW e, Exists(e, o)'
             PROVE  Exists(e, o)
  BY Zenon DEF NothingWritten
<1>5. ASSUME NEW n \in Node, e \in View(n, o)'.entries
      PROVE  Exists(e, o)
  <2>1. e \in c.state[o].entries \/ e \in View(n, o).entries
    BY Zenon, <1>2, <1>5
  <2> QED  BY Zenon, <1>3, <2>1 DEF Exists
<1>6. ASSUME NEW q \in net', o \in DOMAIN q.delta, e \in q.delta[o]
      PROVE  Exists(e, o)
  <2>1. CASE q \in net
    BY Zenon, <1>6, <2>1 DEF Exists
  <2>2. CASE TakenFrom(q, c)
    BY Zenon, <1>3, <1>6, <2>2 DEF TakenFrom
  <2> QED  BY Zenon, <1>4, <2>1, <2>2
<1>7. \/ \E n \in Node : e \in View(n, o)'.entries
      \/ \E q \in net' : o \in DOMAIN q.delta /\ e \in q.delta[o]
  BY Zenon DEF Exists
<1> QED  BY Zenon, <1>5, <1>6, <1>7

LEMMA OwnComes ==
    ASSUME IInv, NEW n \in Node
    PROVE  /\ cluster[n] \in ClusterStates
           /\ cluster = [cluster EXCEPT ![n] = cluster[n]]
           /\ \A o \in Node : ComesFrom(cluster[n].state[o], n, o)
BY Zenon, OwnState DEF ComesFrom, View

LEMMA CutTakenFrom ==
    ASSUME NEW c \in ClusterStates, NEW digest, NEW q, CutFrom(q.delta, c, digest)
    PROVE  TakenFrom(q, c)
BY Zenon, CutIsDelta DEF TakenFrom

LEMMA SendSpreads ==
    ASSUME IInv, NEW n \in Node, NEW m \in Node, GossipRound(n, m) \/ Join(n, m) \/ SendLeave(n, m)
    PROVE  Spread
<1>1. /\ cluster[n] \in ClusterStates
      /\ cluster = [cluster EXCEPT ![n] = cluster[n]]
      /\ \A o \in Node : ComesFrom(cluster[n].state[o], n, o)
  BY Zenon, OwnComes
<1>2. cluster' = cluster
  BY Zenon DEF GossipRound, Join, SendLeave
<1>3. \E q : net' = net \cup {q} /\ (q.delta = NoDelta \/ q.delta = LocalDelta(cluster[n], n))
  <2>1. CASE GossipRound(n, m)
    <3>1. PICK d \in PartialDigests(Digest(cluster[n])) : net' = net \cup {DigestMsg(n, m, d, TRUE)}
      BY Zenon, <2>1 DEF GossipRound, Send
    <3>2. DigestMsg(n, m, d, TRUE).delta = NoDelta
      BY Zenon DEF DigestMsg
    <3> QED  BY Zenon, <3>1, <3>2
  <2>2. CASE Join(n, m)
    <3> DEFINE q == JoinMsg(n, m, Digest(cluster[n]), LocalDelta(cluster[n], n))
    <3>1. net' = net \cup {q}
      BY Zenon, <2>2 DEF Join, Send
    <3>2. q.delta = LocalDelta(cluster[n], n)
      BY Zenon DEF JoinMsg
    <3> QED  BY Zenon, <3>1, <3>2
  <2>3. CASE SendLeave(n, m)
    <3> DEFINE q == DeltaMsg(n, m, "stream", LocalDelta(cluster[n], n))
    <3>1. net' = net \cup {q}
      BY Zenon, <2>3 DEF SendLeave, Send
    <3>2. q.delta = LocalDelta(cluster[n], n)
      BY Zenon DEF DeltaMsg
    <3> QED  BY Zenon, <3>1, <3>2
  <2> QED  BY Zenon, <2>1, <2>2, <2>3
<1>4. PICK q : net' = net \cup {q} /\ (q.delta = NoDelta \/ q.delta = LocalDelta(cluster[n], n))
  BY Zenon, <1>3
<1>5. TakenFrom(q, cluster[n])
  <2>1. CutFrom(NoDelta, cluster[n], NoDigest) /\ CutFrom(LocalDelta(cluster[n], n), cluster[n], NoDigest)
    BY Zenon, <1>1, NothingSent, LocalDeltaIsCut
  <2>2. CutFrom(q.delta, cluster[n], NoDigest)
    BY Zenon, <1>4, <2>1
  <2> QED  BY Zenon, <1>1, <2>2, CutTakenFrom
<1>6. \A x \in net' : x \in net \/ TakenFrom(x, cluster[n])
  BY Zenon, <1>4, <1>5
<1>7. cluster' = [cluster EXCEPT ![n] = cluster[n]]
  BY Zenon, <1>1, <1>2
<1> QED  BY Zenon, <1>1, <1>6, <1>7 DEF Spread, Spreads

LEMMA AppliedComes ==
    ASSUME IInv, NEW p \in net
    PROVE  \A o \in Node :
               ComesFrom(ApplyDelta(cluster[p.to], p.to, p.from, p.delta).state[o], p.to, o)
<1> DEFINE a == cluster[p.to]
           c == ApplyDelta(a, p.to, p.from, p.delta)
<1>1. p.to \in Node
  BY Zenon, ReceiveFacts
<1>2. a \in ClusterStates
  BY Zenon, <1>1, OwnState
<1> SUFFICES ASSUME NEW o \in Node
             PROVE  ComesFrom(c.state[o], p.to, o)
  BY Zenon
<1>3. c.state[o] = a.state[o] \/ (o \in DOMAIN p.delta /\ c.state[o] = ApplyEntries(a.state[o], p.delta[o]))
  <2> DEFINE added == AddNodes(a, p.from, DOMAIN p.delta)
             state == [x \in Node |->
                        IF x \in (DOMAIN p.delta \cap added.nodes) \ {p.to}
                        THEN ApplyEntries(a.state[x], p.delta[x])
                        ELSE a.state[x]]
  <2>1. c = [added EXCEPT !.state = state]
    BY Zenon DEF ApplyDelta
  <2>2. added \in ClusterStates
    BY Zenon, <1>2, DeltaTypes, AddNodesFacts DEF IInv
  <2>3. c.state = state
    <3> HIDE DEF added, state, c
    <3> QED  BY Zenon, <2>1, <2>2 DEF ClusterStates
  <2>4. state[o] = a.state[o] \/ (o \in DOMAIN p.delta /\ state[o] = ApplyEntries(a.state[o], p.delta[o]))
    BY Zenon
  <2> HIDE DEF c, state, a
  <2> QED  BY Zenon, <2>3, <2>4
<1>4. a.state[o] = View(p.to, o)
  BY Zenon DEF View
<1> HIDE DEF a, c
<1> QED  BY Zenon, <1>3, <1>4 DEF ComesFrom

LEMMA ReceiveDigestSpreads ==
    ASSUME IInv, NEW p \in net, ReceiveDigest(p)
    PROVE  Spread
<1> DEFINE c == ApplyDigest(cluster[p.to], p.from, p.digest)
<1>1. p.from \in Node /\ p.to \in Node /\ IsDigest(p.digest)
  BY Zenon, ReceiveFacts
<1>2. cluster[p.to] \in ClusterStates /\ \A o \in Node : ComesFrom(cluster[p.to].state[o], p.to, o)
  BY Zenon, <1>1, OwnComes
<1>3. c \in ClusterStates /\ c.state = cluster[p.to].state
  BY ZenonT(30), <1>1, <1>2, ApplyDigestFacts
<1>4. cluster' = [cluster EXCEPT ![p.to] = c]
  BY Zenon DEF ReceiveDigest
<1>5. PICK delta \in PartialDeltas(Delta(c, p.digest, FALSE)),
           digest \in IF p.request THEN PartialDigests(Digest(c)) ELSE {NoDigest} :
               Receive(p, {DeltaMsg(p.to, p.from, "delta", delta)}
                            \cup IF p.request
                                 THEN {DigestMsg(p.to, p.from, digest, FALSE)}
                                 ELSE {})
  BY ZenonT(30) DEF ReceiveDigest
<1> HIDE DEF c
<1>6. TakenFrom(DeltaMsg(p.to, p.from, "delta", delta), c)
  <2> DEFINE D == Delta(c, p.digest, FALSE)
  <2>1. CutFrom(D, c, p.digest)
    BY Zenon, <1>1, <1>3, DeltaIsCut
  <2> HIDE DEF D
  <2>2. \A o \in DOMAIN D : D[o] \subseteq Entry
    BY ZenonT(30), <1>3, <2>1, CutIsDelta DEF IsDelta
  <2>3. CutFrom(delta, c, p.digest)
    <3>1. delta \in PartialDeltas(D)
      BY Zenon DEF D
    <3> QED  BY Zenon, <2>1, <2>2, <3>1, PartialDeltasAreCut
  <2>4. DeltaMsg(p.to, p.from, "delta", delta).delta = delta
    BY Zenon DEF DeltaMsg
  <2> QED  BY Zenon, <1>3, <2>3, <2>4, CutTakenFrom
<1>7. TakenFrom(DigestMsg(p.to, p.from, digest, FALSE), c)
  <2>1. DigestMsg(p.to, p.from, digest, FALSE).delta = NoDelta
    BY Zenon DEF DigestMsg
  <2>2. DOMAIN NoDelta = {}
    BY Zenon DEF NoDelta
  <2> QED  BY Zenon, <2>1, <2>2 DEF TakenFrom
<1>8. net' \subseteq net \cup ({DeltaMsg(p.to, p.from, "delta", delta)}
                                  \cup IF p.request
                                       THEN {DigestMsg(p.to, p.from, digest, FALSE)}
                                       ELSE {})
  BY Zenon, <1>5, ReceiveFacts
<1>9. \A q \in net' : q \in net \/ TakenFrom(q, c)
  BY Zenon, <1>6, <1>7, <1>8
<1>10. \A o \in Node : ComesFrom(c.state[o], p.to, o)
  BY Zenon, <1>2, <1>3
<1> QED  BY Zenon, <1>1, <1>3, <1>4, <1>9, <1>10 DEF Spread, Spreads

LEMMA ReceiveDeltaSpreads ==
    ASSUME IInv, NEW p \in net, ReceiveDelta(p)
    PROVE  Spread
<1> DEFINE c == ApplyDelta(cluster[p.to], p.to, p.from, p.delta)
<1>1. p.to \in Node
  BY Zenon, ReceiveFacts
<1>2. cluster' = [cluster EXCEPT ![p.to] = c] /\ Receive(p, {})
  BY Zenon DEF ReceiveDelta
<1>3. net' \subseteq net \cup {}
  BY Zenon, <1>2, ReceiveFacts
<1>4. c \in ClusterStates
  BY ZenonT(60), DeltaApplied
<1>5. \A o \in Node : ComesFrom(c.state[o], p.to, o)
  BY Zenon, AppliedComes
<1> HIDE DEF c
<1>6. \A q \in net' : q \in net \/ TakenFrom(q, c)
  BY Zenon, <1>3
<1> QED  BY ZenonT(30), <1>1, <1>2, <1>4, <1>5, <1>6 DEF Spread, Spreads

LEMMA ReceiveJoinSpreads ==
    ASSUME IInv, NEW p \in net, ReceiveJoin(p)
    PROVE  Spread
<1> DEFINE b == ApplyDelta(cluster[p.to], p.to, p.from, p.delta)
           c == ApplyDigest(b, p.from, p.digest)
           q == DeltaMsg(p.to, p.from, "stream", Delta(c, p.digest, TRUE))
<1>1. p.from \in Node /\ p.to \in Node /\ IsDigest(p.digest)
  BY Zenon, ReceiveFacts
<1>2. cluster' = [cluster EXCEPT ![p.to] = c] /\ Receive(p, {q})
  BY Zenon DEF ReceiveJoin
<1>3. net' \subseteq net \cup {q}
  BY ZenonT(30), <1>2, ReceiveFacts
<1>4. b \in ClusterStates
  BY ZenonT(60), DeltaApplied
<1>5. \A o \in Node : ComesFrom(b.state[o], p.to, o)
  BY Zenon, AppliedComes
<1> HIDE DEF b
<1>6. c \in ClusterStates /\ c.state = b.state
  BY ZenonT(30), <1>1, <1>4, ApplyDigestFacts
<1> HIDE DEF c
<1>7. TakenFrom(q, c)
  <2>1. CutFrom(Delta(c, p.digest, TRUE), c, p.digest)
    BY Zenon, <1>1, <1>6, DeltaIsCut
  <2>2. q.delta = Delta(c, p.digest, TRUE)
    BY Zenon DEF DeltaMsg
  <2> HIDE DEF q
  <2> QED  BY Zenon, <1>6, <2>1, <2>2, CutTakenFrom
<1> HIDE DEF q
<1>8. \A r \in net' : r \in net \/ TakenFrom(r, c)
  BY Zenon, <1>3, <1>7
<1>9. \A o \in Node : ComesFrom(c.state[o], p.to, o)
  BY Zenon, <1>5, <1>6
<1> QED  BY ZenonT(30), <1>1, <1>2, <1>6, <1>8, <1>9 DEF Spread, Spreads

LEMMA PeriodicSpreads ==
    ASSUME IInv, NEW n \in Node, CheckLiveness(n) \/ Expire(n)
    PROVE  Spread
<1>1. cluster[n] \in ClusterStates /\ \A o \in Node : cluster[n].state[o] = View(n, o)
  BY Zenon, OwnState DEF View
<1>2. net' = net
  BY Zenon DEF CheckLiveness, Expire
<1>3. CASE CheckLiveness(n)
  <2>1. PICK suspects \in Suspects :
            cluster' = [cluster EXCEPT ![n] = UpdateLiveness(cluster[n], n, suspects)]
    BY Zenon, <1>3 DEF CheckLiveness
  <2> DEFINE c == UpdateLiveness(cluster[n], n, suspects)
  <2>2. SameUpToLiveness(c, cluster[n], n)
    BY Zenon, <1>1, UpdateLivenessFacts
  <2>3. cluster' = [cluster EXCEPT ![n] = c]
    BY Zenon, <2>1
  <2> HIDE DEF c
  <2>4. c \in ClusterStates /\ \A o \in Node : /\ c.state[o].entries = cluster[n].state[o].entries
                                               /\ c.state[o].version = cluster[n].state[o].version
    BY Zenon, <2>2 DEF SameUpToLiveness
  <2>5. \A o \in Node : ComesFrom(c.state[o], n, o)
    BY Zenon, <1>1, <2>4 DEF ComesFrom
  <2> QED  BY Zenon, <1>2, <2>3, <2>4, <2>5 DEF Spread, Spreads
<1>4. CASE Expire(n)
  <2>1. PICK expired \in SUBSET cluster[n].nodes, stale \in SUBSET cluster[n].tombstones :
            cluster' = [cluster EXCEPT ![n] = RemoveExpired(cluster[n], expired, stale)]
    BY Zenon, <1>4 DEF Expire
  <2> DEFINE c == RemoveExpired(cluster[n], expired, stale)
  <2>2. expired \in SUBSET Node
    BY Zenon, <1>1 DEF ClusterStates
  <2>3. c \in ClusterStates
    BY Zenon, <1>1, <2>2, RemoveExpiredFacts
  <2>4. \A o \in Node : c.state[o] = NewNode \/ c.state[o] = cluster[n].state[o]
    BY Zenon DEF RemoveExpired
  <2>5. NewNode.entries = {} /\ NewNode.version = 0
    BY Zenon DEF NewNode
  <2>6. cluster' = [cluster EXCEPT ![n] = c]
    BY Zenon, <2>1
  <2> HIDE DEF c
  <2>7. \A o \in Node : ComesFrom(c.state[o], n, o)
    BY Zenon, <1>1, <2>4, <2>5 DEF ComesFrom
  <2> QED  BY Zenon, <1>2, <2>3, <2>6, <2>7 DEF Spread, Spreads
<1> QED  BY Zenon, <1>3, <1>4

LEMMA LoseSpreads ==
    ASSUME IInv, NEW p \in net, Lose(p)
    PROVE  Spread
<1>1. p.to \in Node
  BY Zenon, ReceiveFacts
<1>2. /\ cluster[p.to] \in ClusterStates
      /\ cluster = [cluster EXCEPT ![p.to] = cluster[p.to]]
      /\ \A o \in Node : ComesFrom(cluster[p.to].state[o], p.to, o)
  BY Zenon, <1>1, OwnComes
<1>3. cluster' = [cluster EXCEPT ![p.to] = cluster[p.to]] /\ net' \subseteq net
  BY Zenon, <1>2 DEF Lose
<1>4. \A q \in net' : q \in net \/ TakenFrom(q, cluster[p.to])
  BY Zenon, <1>3
<1> QED  BY Zenon, <1>1, <1>2, <1>3, <1>4 DEF Spread, Spreads

\* A step writes one node's own state or spreads entries.
Operates(n) ==
    \/ \E k \in Key, v \in Value : Upsert(n, k, v)
    \/ \E k \in Key : Delete(n, k)
    \/ Leave(n)
    \/ Compact(n)

LEMMA WritesOrSpreads ==
    ASSUME IInv, Next
    PROVE  Spread \/ \E n \in Node : Operates(n)
<1>1. ASSUME NEW n \in Node, CheckLiveness(n) \/ Expire(n)
      PROVE  Spread
  BY Zenon, <1>1, PeriodicSpreads
<1>2. ASSUME NEW n \in Node, NEW m \in Node, GossipRound(n, m) \/ Join(n, m) \/ SendLeave(n, m)
      PROVE  Spread
  BY Zenon, <1>2, SendSpreads
<1>3. ASSUME NEW p \in net, ReceiveDigest(p) \/ ReceiveDelta(p) \/ ReceiveJoin(p) \/ Lose(p)
      PROVE  Spread
  BY Zenon, <1>3, ReceiveDigestSpreads, ReceiveDeltaSpreads, ReceiveJoinSpreads, LoseSpreads
<1>4. \/ \E n \in Node : Operates(n) \/ CheckLiveness(n) \/ Expire(n)
      \/ \E n, m \in Node : GossipRound(n, m) \/ Join(n, m) \/ SendLeave(n, m)
      \/ \E p \in net : ReceiveDigest(p) \/ ReceiveDelta(p) \/ ReceiveJoin(p) \/ Lose(p)
  BY ZenonT(30) DEF Next, Operates
<1> QED  BY Zenon, <1>1, <1>2, <1>3, <1>4

-----------------------------------------------------------------------------
(***************************************************************************)
(* A write uses only versions that no entry of its owner has anywhere.     *)
(***************************************************************************)
VersionInv ==
    \A o \in Node : \A e, f : Exists(e, o) /\ Exists(f, o) /\ e.version = f.version => e = f

LEMMA ExistingVersions ==
    ASSUME IInv, NEW o \in Node, NEW e, Exists(e, o)
    PROVE  e.version \in Nat /\ e.version <= Local(o).version
<1>1. ASSUME NEW n \in Node, e \in View(n, o).entries
      PROVE  e.version \in Nat /\ e.version <= Local(o).version
  <2>1. e.version \in Nat
    BY Zenon, <1>1, ViewTypes DEF IInv
  <2>2. Sound(e, o)
    BY Zenon, <1>1 DEF IInv, ViewInv, GoodView
  <2> QED  BY Zenon, <2>1, <2>2 DEF Sound
<1>2. ASSUME NEW p \in net, o \in DOMAIN p.delta, e \in p.delta[o]
      PROVE  e.version \in Nat /\ e.version <= Local(o).version
  <2>1. e \in Entry
    BY ZenonT(30), <1>2, DeltaTypes DEF IInv
  <2>2. Sound(e, o)
    BY ZenonT(30), <1>2 DEF IInv, MessageInv
  <2> QED  BY Zenon, <2>1, <2>2, EntryFacts DEF Sound
<1> QED  BY Zenon, <1>1, <1>2 DEF Exists

LEMMA WriteKeepsVersions ==
    ASSUME IInv, VersionInv, NEW n \in Node, NEW st, SetLocal(n, st), Renews(st, Local(n))
    PROVE  VersionInv'
<1>1. cluster \in [Node -> ClusterStates]
  BY Zenon DEF IInv, TypeOK
<1>2. cluster' = [cluster EXCEPT ![n].state[n] = st] /\ net' = net
  BY Zenon DEF SetLocal
<1>3. \A m, o \in Node : View(m, o)' = IF m = n /\ o = n THEN st ELSE View(m, o)
  BY <1>1, <1>2 DEF View, ClusterStates
<1>4. ASSUME NEW o \in Node, NEW e, Exists(e, o)'
      PROVE  Exists(e, o) \/ (o = n /\ e \in st.entries /\ e.version > Local(n).version)
  <2>1. ASSUME NEW m \in Node, e \in View(m, o)'.entries
        PROVE  Exists(e, o) \/ (o = n /\ e \in st.entries)
    BY Zenon, <1>3, <2>1 DEF Exists
  <2>2. ASSUME NEW p \in net', o \in DOMAIN p.delta, e \in p.delta[o]
        PROVE  Exists(e, o)
    BY Zenon, <1>2, <2>2 DEF Exists
  <2>3. \/ \E m \in Node : e \in View(m, o)'.entries
        \/ \E p \in net' : o \in DOMAIN p.delta /\ e \in p.delta[o]
    BY Zenon, <1>4 DEF Exists
  <2>4. Exists(e, o) \/ (o = n /\ e \in st.entries)
    BY Zenon, <2>1, <2>2, <2>3
  <2>5. \A h \in Local(n).entries : Exists(h, n)
    BY Zenon DEF Exists, View, Local
  <2> QED  BY Zenon, <2>4, <2>5 DEF Renews
<1> SUFFICES ASSUME NEW o \in Node, NEW e, NEW f, Exists(e, o)', Exists(f, o)', e.version = f.version
             PROVE  e = f
  BY Zenon DEF VersionInv
<1> DEFINE New(x) == o = n /\ x \in st.entries /\ x.version > Local(n).version
<1>5. Exists(e, o) \/ New(e)
  BY Zenon, <1>4
<1>6. Exists(f, o) \/ New(f)
  BY Zenon, <1>4
<1>7. CASE Exists(e, o) /\ Exists(f, o)
  BY Zenon, <1>7 DEF VersionInv
<1>8. CASE New(e) /\ New(f)
  BY Zenon, <1>8 DEF Renews
<1>9. Local(n).version \in Nat
  BY Zenon, OwnerFacts
<1>10. ~(Exists(e, o) /\ New(f))
  BY SMTT(30), <1>9, ExistingVersions
<1>11. ~(Exists(f, o) /\ New(e))
  BY <1>9, ExistingVersions
<1> QED  BY ZenonT(30), <1>5, <1>6, <1>7, <1>8, <1>10, <1>11

LEMMA LocalOperationRenews ==
    ASSUME IInv, VersionInv, NEW n \in Node,
           \/ \E k \in Key, v \in Value : Upsert(n, k, v)
           \/ \E k \in Key : Delete(n, k)
           \/ Leave(n)
           \/ Compact(n)
    PROVE  VersionInv'
<1>1. /\ Local(n) \in NodeState /\ IsFiniteSet(Local(n).entries)
      /\ \A e \in Local(n).entries : e.version <= Local(n).version
  BY Zenon, OwnerFacts
<1>2. \A k, v, deleted : Renews(Put(Local(n), k, v, deleted), Local(n))
  BY Zenon, <1>1, PutRenews
<1>3. Renews(LeaveLocal(Local(n)), Local(n))
  <2> DEFINE put == Put(Local(n), leftKey, Empty, FALSE)
  <2>1. LeaveLocal(Local(n)).entries = put.entries
    BY Zenon, <1>1 DEF LeaveLocal, Put, NodeState
  <2>2. Renews(put, Local(n))
    BY Zenon, <1>2
  <2> HIDE DEF put
  <2> QED  BY Zenon, <2>1, <2>2 DEF Renews
<1>4. Renews(CompactLocal(Local(n)), Local(n))
  <2>1. \A e \in Local(n).entries : Exists(e, n)
    BY Zenon DEF Exists, View, Local
  <2>2. OneEntryPerVersion(Local(n).entries)
    BY Zenon, <2>1 DEF OneEntryPerVersion, VersionInv
  <2> QED  BY Zenon, <1>1, <2>2, CompactRenews
<1>5. \E st : SetLocal(n, st) /\ Renews(st, Local(n))
  BY Zenon, <1>2, <1>3, <1>4 DEF Upsert, Delete, Leave, Compact
<1> QED  BY Zenon, <1>5, WriteKeepsVersions

LEMMA VersionStep ==
    ASSUME IInv, VersionInv, Next
    PROVE  VersionInv'
<1>1. CASE Spread
  <2>1. NothingWritten
    BY Zenon, <1>1, SpreadWritesNothing
  <2> QED  BY Zenon, <2>1 DEF NothingWritten, VersionInv
<1>2. CASE \E n \in Node : Operates(n)
  BY Zenon, <1>2, LocalOperationRenews DEF Operates
<1> QED  BY Zenon, <1>1, <1>2, WritesOrSpreads

LEMMA VersionInvAlways == Spec => []VersionInv
<1>1. Init => VersionInv
  <2> SUFFICES ASSUME Init, NEW o \in Node, NEW e, Exists(e, o) PROVE FALSE
    BY Zenon DEF VersionInv
  <2>1. \A n \in Node : View(n, o).entries = {}
    BY Zenon DEF Init, View, newClusterState, NewNode
  <2> QED  BY Zenon, <2>1 DEF Init, Exists
<1>2. IInv /\ VersionInv /\ [Next]_vars => VersionInv'
  <2>1. ASSUME VersionInv, UNCHANGED vars PROVE VersionInv'
    <3>1. \A n, o : View(n, o)' = View(n, o)
      BY Zenon, <2>1 DEF View, vars
    <3>2. net' = net
      BY Zenon, <2>1 DEF vars
    <3>3. \A e, o : Exists(e, o)' <=> Exists(e, o)
      BY Zenon, <3>1, <3>2 DEF Exists
    <3> QED  BY Zenon, <2>1, <3>3 DEF VersionInv
  <2> QED  BY Zenon, <2>1, VersionStep
<1> QED  BY <1>1, <1>2, Invariance, PTL DEF Spec

\* A version of a node names one write, in every view and every message, across
\* compactions (UpsertLocal, DeleteLocal, CompactLocal).
THEOREM VersionsNameWrites == Spec => []VersionNamesWrite
<1>1. ASSUME VersionInv PROVE VersionNamesWrite
  <2> SUFFICES ASSUME NEW o \in Node
               PROVE  LET all == (UNION {View(n, o).entries : n \in Node})
                                   \cup (UNION {p.delta[o] : p \in {q \in net : o \in DOMAIN q.delta}})
                      IN  \A e, f \in all : e.version = f.version => e = f
    BY Zenon DEF VersionNamesWrite
  <2> DEFINE views == UNION {View(n, o).entries : n \in Node}
             sent  == UNION {p.delta[o] : p \in {q \in net : o \in DOMAIN q.delta}}
  <2>1. \A e \in views : \E n \in Node : e \in View(n, o).entries
    BY Zenon
  <2>2. \A e \in sent : \E p \in net : o \in DOMAIN p.delta /\ e \in p.delta[o]
    BY Zenon
  <2> HIDE DEF views, sent
  <2>3. \A e \in views \cup sent : Exists(e, o)
    BY Zenon, <2>1, <2>2 DEF Exists
  <2>4. \A e, f \in views \cup sent : e.version = f.version => e = f
    BY Zenon, <1>1, <2>3 DEF VersionInv
  <2> QED  BY Zenon, <2>4 DEF views, sent
<1>2. VersionInv => VersionNamesWrite
  BY Zenon, <1>1
<1> QED  BY <1>2, VersionInvAlways, PTL

-----------------------------------------------------------------------------
(***************************************************************************)
(* What the syncers rely on: a node's entries have one entry per key, in   *)
(* every view and every message, and a compaction discards only versions   *)
(* before its own.                                                         *)
(***************************************************************************)
KeyInv ==
    /\ \A n, o \in Node : OneEntryPerKey(View(n, o).entries)
    /\ \A p \in net : \A o \in DOMAIN p.delta : OneEntryPerKey(p.delta[o])

CompactsBelow(e) == e.key = compactKey => e.value < e.version

CompactInv == \A o \in Node : \A e : Exists(e, o) => CompactsBelow(e)

EntriesInv == VersionInv /\ KeyInv /\ CompactInv

LEMMA AppliedKeys ==
    ASSUME NEW st \in NodeState, NEW es, OneEntryPerKey(st.entries), OneEntryPerKey(es)
    PROVE  OneEntryPerKey(ApplyEntries(st, es).entries)
<1> DEFINE new == {e \in es : e.version > st.version}
           merged == {e \in st.entries : ~HasKey(new, e.key)} \cup new
<1>1. OneEntryPerKey(merged)
  BY Zenon DEF OneEntryPerKey, HasKey
<1>2. ApplyEntries(st, es).entries \subseteq merged \/ ApplyEntries(st, es) = st
  BY Zenon DEF ApplyEntries, NodeState
<1> HIDE DEF merged
<1> QED  BY Zenon, <1>1, <1>2 DEF OneEntryPerKey

LEMMA SpreadKeepsKeys ==
    ASSUME IInv, IInv', KeyInv, Spread
    PROVE  KeyInv'
<1>1. PICK m \in Node, c \in ClusterStates : Spreads(m, c)
  BY Zenon DEF Spread
<1>2. \A n, o \in Node : View(n, o)' = IF n = m THEN c.state[o] ELSE View(n, o)
  BY Zenon, <1>1, SetCluster DEF IInv, Spreads
<1>3. ASSUME NEW o \in Node PROVE OneEntryPerKey(c.state[o].entries)
  <2>1. View(m, o) \in NodeState /\ OneEntryPerKey(View(m, o).entries)
    BY Zenon, ViewTypes DEF IInv, KeyInv
  <2>2. CASE c.state[o].entries = {}
    BY Zenon, <2>2 DEF OneEntryPerKey
  <2>3. CASE c.state[o].entries = View(m, o).entries
    BY Zenon, <2>1, <2>3
  <2>4. ASSUME NEW p \in net, o \in DOMAIN p.delta, c.state[o] = ApplyEntries(View(m, o), p.delta[o])
        PROVE  OneEntryPerKey(c.state[o].entries)
    <3>1. OneEntryPerKey(p.delta[o])
      BY Zenon, <2>4 DEF KeyInv
    <3> QED  BY Zenon, <2>1, <2>4, <3>1, AppliedKeys
  <2> QED  BY Zenon, <1>1, <2>2, <2>3, <2>4 DEF Spreads, ComesFrom
<1>4. ASSUME NEW q \in net', NEW o \in DOMAIN q.delta PROVE OneEntryPerKey(q.delta[o])
  <2>1. CASE q \in net
    BY Zenon, <2>1 DEF KeyInv
  <2>2. CASE TakenFrom(q, c)
    <3>1. q.delta[o] \subseteq c.state[o].entries
      BY Zenon, <2>2 DEF TakenFrom
    <3>2. OneEntryPerKey(c.state[o].entries)
      <4>1. o \in Node
        BY Zenon DEF IInv, TypeOK, IsMessage, IsDelta
      <4> QED  BY Zenon, <1>3, <4>1
    <3> QED  BY Zenon, <3>1, <3>2 DEF OneEntryPerKey
  <2> QED  BY Zenon, <1>1, <2>1, <2>2 DEF Spreads
<1>5. \A n, o \in Node : OneEntryPerKey(View(n, o)'.entries)
  BY Zenon, <1>2, <1>3 DEF KeyInv
<1> QED  BY Zenon, <1>4, <1>5 DEF KeyInv

LEMMA OperationKeepsKeys ==
    ASSUME IInv, IInv', KeyInv, NEW n \in Node, Operates(n)
    PROVE  KeyInv'
<1>1. PICK st : SetLocal(n, st)
  BY Zenon DEF Operates, Upsert, Delete, Leave, Compact
<1>2. net' = net /\ cluster' = [cluster EXCEPT ![n].state[n] = st]
  BY Zenon, <1>1 DEF SetLocal
<1>3. \A m, o \in Node : m # n \/ o # n => View(m, o)' = View(m, o)
  BY <1>2 DEF View, IInv, TypeOK, ClusterStates
<1>4. OneEntryPerKey(View(n, n)'.entries)
  <2>1. OwnerInv(n)'
    BY Zenon DEF IInv
  <2> QED  BY Zenon, <2>1 DEF OwnerInv, OneEntryPerKey, View, Local
<1>5. \A m, o \in Node : OneEntryPerKey(View(m, o)'.entries)
  BY Zenon, <1>3, <1>4 DEF KeyInv
<1> QED  BY Zenon, <1>2, <1>5 DEF KeyInv

\* What a write adds to the entries it keeps.
Adds(st, old) ==
    \A h \in st.entries : h \in old.entries \/ CompactsBelow(h)

LEMMA PutAdds ==
    ASSUME NEW st \in NodeState, NEW k, NEW v, NEW deleted, k # compactKey
    PROVE  Adds(Put(st, k, v, deleted), st) /\ Put(st, k, v, deleted).entries # {}
<1> DEFINE new == [key |-> k, value |-> v, version |-> st.version + 1, deleted |-> deleted]
<1>1. \A h \in Put(st, k, v, deleted).entries : h \in st.entries \/ h = new
  BY Zenon, PutVersions
<1>2. new.key = k
  BY Zenon
<1>3. new \in Put(st, k, v, deleted).entries
  BY Zenon DEF Put, NodeState
<1> HIDE DEF new
<1> QED  BY Zenon, <1>1, <1>2, <1>3 DEF Adds, CompactsBelow

LEMMA OperationAdds ==
    ASSUME IInv, NEW n \in Node, Operates(n)
    PROVE  \E st : SetLocal(n, st) /\ Adds(st, Local(n)) /\ st.entries # {}
<1>1. /\ Local(n) \in NodeState /\ IsFiniteSet(Local(n).entries)
      /\ \A e, f \in Local(n).entries : e.key = f.key => e = f
      /\ Local(n).entries # {} => \E e \in Local(n).entries : e.version = Local(n).version
      /\ \A e \in Local(n).entries : e.version <= Local(n).version
  BY Zenon, OwnerFacts
<1>2. \A k \in Key : k # compactKey
  BY Zenon, KeyAssumption
<1>3. ASSUME NEW k \in Key, NEW v, Upsert(n, k, v)
      PROVE  \E st : SetLocal(n, st) /\ Adds(st, Local(n)) /\ st.entries # {}
  <2>1. Adds(Put(Local(n), k, v, FALSE), Local(n)) /\ Put(Local(n), k, v, FALSE).entries # {}
    BY Zenon, <1>1, <1>2, PutAdds
  <2> QED  BY Zenon, <1>3, <2>1 DEF Upsert
<1>4. ASSUME NEW k \in Key, Delete(n, k)
      PROVE  \E st : SetLocal(n, st) /\ Adds(st, Local(n)) /\ st.entries # {}
  <2>1. Adds(Put(Local(n), k, Empty, TRUE), Local(n)) /\ Put(Local(n), k, Empty, TRUE).entries # {}
    BY Zenon, <1>1, <1>2, PutAdds
  <2> QED  BY Zenon, <1>4, <2>1 DEF Delete
<1>5. CASE Leave(n)
  <2> DEFINE put == Put(Local(n), leftKey, Empty, FALSE)
  <2>1. LeaveLocal(Local(n)).entries = put.entries
    BY Zenon, <1>1 DEF LeaveLocal, Put, NodeState
  <2>2. Adds(put, Local(n)) /\ put.entries # {}
    BY Zenon, <1>1, PutAdds, KeyAssumption
  <2> HIDE DEF put
  <2>3. Adds(LeaveLocal(Local(n)), Local(n)) /\ LeaveLocal(Local(n)).entries # {}
    BY Zenon, <2>1, <2>2 DEF Adds
  <2> QED  BY Zenon, <1>5, <2>3 DEF Leave
<1>6. CASE Compact(n)
  <2> DEFINE st == CompactLocal(Local(n))
  <2>1. Local(n).entries # {}
    <3>1. CASE Local(n).entries = {}
      <4>1. Cardinality({e \in Local(n).entries : e.deleted}) = 0
        BY Zenon, <3>1, FS_EmptySet
      <4> QED  BY <1>6, <4>1, BoundAssumption DEF Compact, Compacts
    <3> QED  BY Zenon, <3>1
  <2>2. /\ st.entries # {}
        /\ \A h \in st.entries : h.version > Local(n).version /\ (h.key = compactKey => h.value = Local(n).version)
    BY Zenon, <1>1, <2>1, CompactFacts
  <2> HIDE DEF st
  <2>3. Adds(st, Local(n))
    BY Zenon, <2>2 DEF Adds, CompactsBelow
  <2> QED  BY Zenon, <1>6, <2>2, <2>3 DEF Compact, st
<1> QED  BY Zenon, <1>3, <1>4, <1>5, <1>6 DEF Operates

LEMMA OperationCompactsBelow ==
    ASSUME IInv, CompactInv, NEW n \in Node, Operates(n)
    PROVE  CompactInv'
<1>1. PICK st : SetLocal(n, st) /\ Adds(st, Local(n))
  BY Zenon, OperationAdds
<1>2. net' = net /\ cluster' = [cluster EXCEPT ![n].state[n] = st]
  BY Zenon, <1>1 DEF SetLocal
<1>3. \A m, o \in Node : View(m, o)' = IF m = n /\ o = n THEN st ELSE View(m, o)
  BY <1>2 DEF View, IInv, TypeOK, ClusterStates
<1> SUFFICES ASSUME NEW o \in Node, NEW e, Exists(e, o)'
             PROVE  CompactsBelow(e)
  BY Zenon DEF CompactInv, CompactsBelow
<1>4. ASSUME NEW m \in Node, e \in View(m, o)'.entries
      PROVE  CompactsBelow(e)
  <2>1. CASE m = n /\ o = n
    <3>1. e \in Local(n).entries \/ CompactsBelow(e)
      BY Zenon, <1>1, <1>3, <1>4, <2>1 DEF Adds
    <3>2. e \in Local(n).entries => Exists(e, n)
      BY Zenon DEF Exists, View, Local
    <3> QED  BY Zenon, <3>1, <3>2 DEF CompactInv
  <2>2. CASE ~(m = n /\ o = n)
    <3>1. Exists(e, o)
      BY Zenon, <1>3, <1>4, <2>2 DEF Exists
    <3> QED  BY Zenon, <3>1 DEF CompactInv
  <2> QED  BY Zenon, <2>1, <2>2
<1>5. ASSUME NEW p \in net', o \in DOMAIN p.delta, e \in p.delta[o]
      PROVE  CompactsBelow(e)
  <2>1. Exists(e, o)
    BY Zenon, <1>2, <1>5 DEF Exists
  <2> QED  BY Zenon, <2>1 DEF CompactInv
<1>6. \/ \E m \in Node : e \in View(m, o)'.entries
      \/ \E p \in net' : o \in DOMAIN p.delta /\ e \in p.delta[o]
  BY Zenon DEF Exists
<1> QED  BY Zenon, <1>4, <1>5, <1>6

LEMMA EntriesInvAlways == Spec => []EntriesInv
<1> DEFINE Both == KeyInv /\ CompactInv
<1>1. Init => Both
  <2> SUFFICES ASSUME Init PROVE Both
    BY Zenon
  <2>1. \A n, o \in Node : View(n, o).entries = {}
    BY Zenon DEF Init, View, newClusterState, NewNode
  <2>2. net = {}
    BY Zenon DEF Init
  <2>3. KeyInv
    BY Zenon, <2>1, <2>2 DEF KeyInv, OneEntryPerKey
  <2>4. \A o \in Node : \A e : ~Exists(e, o)
    BY Zenon, <2>1, <2>2 DEF Exists
  <2> QED  BY Zenon, <2>3, <2>4 DEF CompactInv
<1>2. IInv /\ IInv' /\ Both /\ [Next]_vars => Both'
  <2> SUFFICES ASSUME IInv, IInv', Both, [Next]_vars PROVE Both'
    BY Zenon
  <2>1. CASE UNCHANGED vars
    <3>1. \A n, o : View(n, o)' = View(n, o)
      BY Zenon, <2>1 DEF View, vars
    <3>2. net' = net
      BY Zenon, <2>1 DEF vars
    <3>3. \A e, o : Exists(e, o)' <=> Exists(e, o)
      BY Zenon, <3>1, <3>2 DEF Exists
    <3>4. KeyInv'
      BY Zenon, <3>1, <3>2 DEF KeyInv
    <3>5. CompactInv'
      BY Zenon, <3>3 DEF CompactInv
    <3> QED  BY Zenon, <3>4, <3>5
  <2>2. CASE Spread
    <3>1. NothingWritten
      BY Zenon, <2>2, SpreadWritesNothing
    <3>2. CompactInv'
      BY Zenon, <3>1 DEF NothingWritten, CompactInv
    <3> QED  BY Zenon, <2>2, <3>2, SpreadKeepsKeys
  <2>3. ASSUME NEW n \in Node, Operates(n) PROVE Both'
    BY Zenon, <2>3, OperationKeepsKeys, OperationCompactsBelow
  <2> QED  BY Zenon, <2>1, <2>2, <2>3, WritesOrSpreads
<1>3. Both /\ VersionInv => EntriesInv
  BY Zenon DEF EntriesInv
<1> HIDE DEF Both
<1> QED  BY <1>1, <1>2, <1>3, Invariance, VersionInvAlways, PTL DEF Spec

-----------------------------------------------------------------------------
(***************************************************************************)
(* Catching up: a state that has reached a version holds the entry of that *)
(* version, which no compaction in the same delta discards, so whoever is  *)
(* behind another can be told.                                             *)
(***************************************************************************)
HoldsTop(st) == st.version = 0 \/ \E e \in st.entries : e.version = st.version

TopInv == \A n, o \in Node : HoldsTop(View(n, o))

LEMMA AppliedHoldsTop ==
    ASSUME NEW st \in NodeState, HoldsTop(st), NEW es \in SUBSET Entry, NEW N \in Nat,
           \A e \in es : e.version <= N /\ CompactsBelow(e)
    PROVE  HoldsTop(ApplyEntries(st, es))
<1> DEFINE r == ApplyEntries(st, es)
           new == {e \in es : e.version > st.version}
<1>1. /\ r \in NodeState
      /\ \A x \in es : x.version <= r.version
      /\ r.version = st.version \/ \E x \in new : x.version = r.version
      /\ \A e : e \in r.entries <=>
             /\ e \in new \/ (e \in st.entries /\ ~\E f \in new : f.key = e.key)
             /\ ~\E f \in new : f.key = compactKey /\ e.version <= f.value
  BY ZenonT(30), ApplyFacts
<1>2. r.version \in Nat /\ st.version \in Nat
  BY Zenon, <1>1 DEF NodeState
<1>3. \A f \in new : f \in es /\ f \in Entry /\ f.version \in Nat /\ f.version > st.version
  BY Zenon, EntryFacts
<1>4. \A f \in new : f.key = compactKey => f.value \in Nat /\ f.value < f.version
  BY Zenon, <1>3, EntryFacts DEF CompactsBelow
<1> HIDE DEF r, new
<1>5. ASSUME NEW x \in new, x.version = r.version PROVE HoldsTop(r)
  <2>1. ASSUME NEW f \in new, f.key = compactKey PROVE ~(x.version <= f.value)
    <3>1. f.value \in Nat /\ f.value < f.version /\ f.version \in Nat /\ f.version <= r.version
      BY Zenon, <1>1, <1>3, <1>4, <2>1
    <3> QED  BY <1>2, <1>5, <3>1
  <2>2. x \in r.entries
    BY Zenon, <1>1, <2>1
  <2> QED  BY Zenon, <1>5, <2>2 DEF HoldsTop
<1>6. ASSUME r.version = st.version PROVE HoldsTop(r)
  <2>1. new = {}
    <3>1. \A f \in new : f.version > st.version /\ f.version <= st.version
      BY Zenon, <1>1, <1>3, <1>6
    <3> QED  BY <1>2, <1>3, <3>1
  <2>2. \A e \in st.entries : e \in r.entries
    BY Zenon, <1>1, <2>1
  <2> QED  BY Zenon, <1>6, <2>2 DEF HoldsTop
<1>7. HoldsTop(r)
  BY Zenon, <1>1, <1>5, <1>6
<1> QED  BY Zenon, <1>7 DEF r

LEMMA SpreadHoldsTop ==
    ASSUME IInv, CompactInv, TopInv, Spread
    PROVE  TopInv'
<1>1. PICK m \in Node, c \in ClusterStates : Spreads(m, c)
  BY Zenon DEF Spread
<1>2. \A n, o \in Node : View(n, o)' = IF n = m THEN c.state[o] ELSE View(n, o)
  BY Zenon, <1>1, SetCluster DEF IInv, Spreads
<1>3. ASSUME NEW o \in Node PROVE HoldsTop(c.state[o])
  <2>1. View(m, o) \in NodeState /\ HoldsTop(View(m, o))
    BY Zenon, ViewTypes DEF IInv, TopInv
  <2>2. CASE c.state[o].version = 0
    BY Zenon, <2>2 DEF HoldsTop
  <2>3. CASE c.state[o].entries = View(m, o).entries /\ c.state[o].version = View(m, o).version
    BY Zenon, <2>1, <2>3 DEF HoldsTop
  <2>4. ASSUME NEW p \in net, o \in DOMAIN p.delta, c.state[o] = ApplyEntries(View(m, o), p.delta[o])
        PROVE  HoldsTop(c.state[o])
    <3>1. p.delta[o] \in SUBSET Entry
      BY Zenon, <2>4, DeltaTypes DEF IInv
    <3>2. \A e \in p.delta[o] : Exists(e, o)
      BY Zenon, <2>4 DEF Exists
    <3>3. \A e \in p.delta[o] : e.version <= Local(o).version /\ CompactsBelow(e)
      BY Zenon, <3>2, ExistingVersions DEF CompactInv
    <3>4. Local(o).version \in Nat
      BY Zenon, OwnerFacts
    <3> QED  BY Zenon, <2>1, <2>4, <3>1, <3>3, <3>4, AppliedHoldsTop
  <2> QED  BY Zenon, <1>1, <2>2, <2>3, <2>4 DEF Spreads, ComesFrom
<1> QED  BY Zenon, <1>2, <1>3 DEF TopInv

LEMMA OperationHoldsTop ==
    ASSUME IInv, IInv', TopInv, NEW n \in Node, Operates(n)
    PROVE  TopInv'
<1>1. PICK st : SetLocal(n, st) /\ st.entries # {}
  BY Zenon, OperationAdds
<1>2. cluster' = [cluster EXCEPT ![n].state[n] = st]
  BY Zenon, <1>1 DEF SetLocal
<1>3. \A m, o \in Node : View(m, o)' = IF m = n /\ o = n THEN st ELSE View(m, o)
  BY <1>2 DEF View, IInv, TypeOK, ClusterStates
<1>4. Local(n)' = st
  BY Zenon, <1>3 DEF View, Local
<1>5. OwnerInv(n)'
  BY Zenon DEF IInv
<1>6. HoldsTop(st)
  BY Zenon, <1>1, <1>4, <1>5 DEF OwnerInv, HoldsTop
<1> QED  BY Zenon, <1>3, <1>6 DEF TopInv

LEMMA TopInvAlways == Spec => []TopInv
<1>1. Init => TopInv
  <2> SUFFICES ASSUME Init, NEW n \in Node, NEW o \in Node PROVE View(n, o).version = 0
    BY Zenon DEF TopInv, HoldsTop
  <2> QED  BY Zenon DEF Init, View, newClusterState, NewNode
<1>2. IInv /\ IInv' /\ EntriesInv /\ TopInv /\ [Next]_vars => TopInv'
  <2> SUFFICES ASSUME IInv, IInv', CompactInv, TopInv, [Next]_vars PROVE TopInv'
    BY Zenon DEF EntriesInv
  <2>1. CASE UNCHANGED vars
    <3>1. \A n, o : View(n, o)' = View(n, o)
      BY Zenon, <2>1 DEF View, vars
    <3> QED  BY Zenon, <3>1 DEF TopInv
  <2> QED  BY Zenon, <2>1, SpreadHoldsTop, OperationHoldsTop, WritesOrSpreads
<1> QED  BY <1>1, <1>2, Invariance, EntriesInvAlways, PTL DEF Spec

\* Whoever is behind can be told: a node that answers an older digest always has
\* an entry to send, and once all it sends has arrived the receiver is at its
\* version.  No write, compaction or relay leaves a version without its entry,
\* at which gossip would be stuck (clusterState.Delta, ApplyDelta).
THEOREM WhoeverIsBehindCatchesUp == Spec => []CatchesUp
<1>1. ASSUME IInv, TopInv PROVE CatchesUp
  <2> SUFFICES ASSUME NEW n \in Node, NEW m \in Node, NEW o \in Node,
                      View(m, o).version < View(n, o).version
               PROVE  LET news == DeltaEntries(View(n, o), View(m, o).version)
                      IN  /\ news # {}
                          /\ ApplyEntries(View(m, o), news).version = View(n, o).version
    BY Zenon DEF CatchesUp
  <2> DEFINE st == View(m, o)
             top == View(n, o).version
             news == DeltaEntries(View(n, o), st.version)
             r == ApplyEntries(st, news)
             new == {e \in news : e.version > st.version}
  <2>1. /\ st \in NodeState /\ st.version \in Nat /\ top \in Nat
        /\ View(n, o).entries \in SUBSET Entry /\ st.version < top
        /\ \A e \in View(n, o).entries : e.version \in Nat /\ e.version <= top
    BY Zenon, <1>1, ViewTypes DEF IInv, ViewInv, GoodView
  <2>2. HoldsTop(View(n, o))
    BY Zenon, <1>1 DEF TopInv
  <2>3. top # 0
    BY <2>1
  <2>4. PICK e \in View(n, o).entries : e.version = top
    BY Zenon, <2>2, <2>3 DEF HoldsTop
  <2>5. /\ news \in SUBSET Entry
        /\ \A x \in news : x.version \in Nat /\ x.version <= top
        /\ e \in news
    BY Zenon, <2>1, <2>4 DEF DeltaEntries
  <2>6. /\ r \in NodeState
        /\ \A x \in news : x.version <= r.version
        /\ r.version = st.version \/ \E x \in new : x.version = r.version
    <3>1. \A x \in news : x.version <= top
      BY Zenon, <2>5
    <3> HIDE DEF st, top, news
    <3> QED  BY ZenonT(30), <2>1, <2>5, <3>1, ApplyFacts
  <2>7. new \subseteq news /\ r.version \in Nat
    BY Zenon, <2>6 DEF NodeState
  <2> HIDE DEF st, top, news, r, new
  <2>8. top <= r.version
    BY Zenon, <2>4, <2>5, <2>6
  <2>9. r.version # st.version
    BY <2>1, <2>7, <2>8
  <2>10. r.version <= top
    BY Zenon, <2>5, <2>6, <2>7, <2>9
  <2>11. r.version = top
    BY <2>1, <2>7, <2>8, <2>10
  <2> QED  BY Zenon, <2>5, <2>11 DEF st, top, news, r
<1>2. IInv /\ TopInv => CatchesUp
  BY Zenon, <1>1
<1> QED  BY <1>2, Invariance, TopInvAlways, PTL
=============================================================================
