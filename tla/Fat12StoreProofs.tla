-------------------------- MODULE Fat12StoreProofs --------------------------
(***************************************************************************)
(* What the calls of Fat12 do to the tree of files and directories: they    *)
(* implement FileStore, a mkdir only adds to the tree, and on the disk the   *)
(* rest of the tree is at every moment what it is in memory.                *)
(*                                                                         *)
(* A tree changes with its volume in three ways: what its entries hold is   *)
(* left alone (TreeKept), a directory is given one more cluster             *)
(* (TreeLengthened), or an entry is written to one slot (TreeWritten).      *)
(***************************************************************************)
EXTENDS Fat12Proofs

-----------------------------------------------------------------------------
(* The tree of a volume: one node for each named entry *)

LEMMA NodeParts ==
    ASSUME NEW v, NEW k, NEW e, e.dir \in BOOLEAN
    PROVE  /\ Node(v, k, e).at = k
           /\ Node(v, k, e).dir = e.dir
           /\ e.dir => Node(v, k, e).id = e.first
<1>1. CASE e.dir
  BY <1>1 DEF Node
<1>2. CASE ~e.dir
  BY <1>2 DEF Node
<1> QED BY <1>1, <1>2

Named(v, d) == {s \in Visible(v, d) : At(v, s).name \in Names}
NodeOf(v, d, s) == Node(v, <<d, At(v, s).name>>, At(v, s))

LEMMA TreeMembers ==
    ASSUME NEW v, IsVolume(v), AllClean(v)
    PROVE  \A n : n \in Tree(v) <=>
              \E d \in Directories(v) : \E s \in Named(v, d) : n = NodeOf(v, d, s)
<1>1. Tree(v) = UNION {Listing(v, d) : d \in Directories(v)}
  BY DEF Tree
<1>2. ASSUME NEW d \in Directories(v), NEW n
      PROVE  n \in Listing(v, d) <=>
                \E s \in Named(v, d) : n = NodeOf(v, d, s)
  <2>1. n \in Listing(v, d) <=>
           \E m \in Names : \E s \in FindEntry(v, d, m) : n = Node(v, <<d, m>>, At(v, s))
    BY DEF Listing
  <2>2. \A m : \A s \in FindEntry(v, d, m) : s \in Visible(v, d) /\ At(v, s).name = m
    BY DEF FindEntry, First
  <2>3. d \in Clusters \cup {0} /\ Clean(v, d)
    BY DirectoriesClosed DEF AllClean
  <2>4. \A s \in Visible(v, d) : s \in FindEntry(v, d, At(v, s).name)
    BY <2>3, FoundIsOne
  <2> QED BY <2>1, <2>2, <2>4 DEF Named, NodeOf
<1>3. \A n : n \in Tree(v) <=> \E d \in Directories(v) : n \in Listing(v, d)
  BY <1>1
<1> QED BY <1>2, <1>3

\* A node of the tree stands for an entry in use.
LEMMA NamedInUse ==
    ASSUME NEW v, NEW d \in Directories(v), NEW s \in Named(v, d)
    PROVE  s \in InUse(v) /\ s \in SlotsOf(v, d) /\ s \in TreeSlots(v)
  BY DEF InUse, Named, Visible, TreeSlots

\* Where a cluster lies in a chain, and what the chain holds, do not depend on
\* the rest of the volume.
LEMMA PositionMeaning ==
    ASSUME NEW v, IsVolume(v), NEW a, NEW c
    PROVE  Position(v, a, c) =
               Cardinality({x \in Chain(v.fat, a) \ {c} : c \in Chain(v.fat, x)})
<1>1. {x \in Clusters \ {c} : <<a, x>> \in v.reach /\ <<x, c>> \in v.reach} =
          {x \in Chain(v.fat, a) \ {c} : c \in Chain(v.fat, x)}
  BY ChainClosed DEF IsVolume
<1> QED BY <1>1 DEF Position

\* The clusters of a file that a read copies, and what it may then return.
Copied(v, e) ==
    {c \in Chain(v.fat, e.first) : Position(v, e.first, c) * ClusterSize < e.size}
Whole(v, e) ==
    {p \in Payloads : \A c \in Copied(v, e) : /\ v.data[c].pay = p
                                              /\ v.data[c].off = Position(v, e.first, c) * ClusterSize}

LEMMA ReadBackMeaning ==
    ASSUME NEW v, IsVolume(v), NEW e
    PROVE  ReadBack(v, e) =
               IF e.size = 0 THEN "none"
               ELSE IF Cardinality(Copied(v, e)) * ClusterSize >= e.size /\ Whole(v, e) # {}
                    THEN CHOOSE p \in Whole(v, e) : TRUE
                    ELSE Garbled
<1> DEFINE chain == {c \in Clusters : <<e.first, c>> \in v.reach}
           read == {c \in chain : Position(v, e.first, c) * ClusterSize < e.size}
           whole == {p \in Payloads :
                        \A c \in read : /\ v.data[c].pay = p
                                        /\ v.data[c].off = Position(v, e.first, c) * ClusterSize}
<1>1. ReadBack(v, e) =
          IF e.size = 0 THEN "none"
          ELSE IF Cardinality(read) * ClusterSize >= e.size /\ whole # {}
               THEN CHOOSE p \in whole : TRUE
               ELSE Garbled
  BY Zenon DEF ReadBack
<1>2. chain = Chain(v.fat, e.first)
  BY ChainClosed DEF IsVolume
<1> HIDE DEF chain
<1>3. read = Copied(v, e)
  BY <1>2 DEF Copied
<1> HIDE DEF read
<1>4. whole = Whole(v, e)
  BY <1>3 DEF Whole
<1> HIDE DEF whole
<1> QED BY <1>1, <1>3, <1>4, Zenon

LEMMA PositionsSame ==
    ASSUME NEW v, NEW w, IsVolume(v), IsVolume(w), NEW a,
           \A x \in Chain(v.fat, a) : w.fat[x] = v.fat[x]
    PROVE  /\ Chain(w.fat, a) = Chain(v.fat, a)
           /\ \A c \in Chain(v.fat, a) : Position(w, a, c) = Position(v, a, c)
<1> DEFINE K == Chain(v.fat, a)
<1>1. /\ Chain(w.fat, a) = K
      /\ \A x \in K : Chain(w.fat, x) = Chain(v.fat, x)
  <2>1. \A x \in K : w.fat[x] = v.fat[x]
    OBVIOUS
  <2>2. KeptBy(v.fat, K) /\ (a \in Clusters => a \in K) /\ (a \notin Clusters => K = {})
    BY ChainKept, ChainClosed
  <2> HIDE DEF K
  <2>3. \A x \in K : Chain(w.fat, x) = Chain(v.fat, x)
    BY <2>1, <2>2, ChainSame
  <2>4. a \notin Clusters => Chain(w.fat, a) = {}
    BY ChainClosed
  <2> QED BY <2>2, <2>3, <2>4 DEF K
<1>2. ASSUME NEW c \in K PROVE Position(w, a, c) = Position(v, a, c)
  <2> DEFINE before(u) == {x \in Chain(u.fat, a) \ {c} : c \in Chain(u.fat, x)}
  <2>1. Position(v, a, c) = Cardinality(before(v)) /\ Position(w, a, c) = Cardinality(before(w))
    BY PositionMeaning
  <2>2. before(w) = before(v)
    BY <1>1
  <2> QED BY <2>1, <2>2
<1> QED BY <1>1, <1>2

LEMMA ReadBackSame ==
    ASSUME NEW v, NEW w, IsVolume(v), IsVolume(w), NEW e,
           \A x \in Chain(v.fat, e.first) : w.fat[x] = v.fat[x] /\ w.data[x] = v.data[x]
    PROVE  ReadBack(w, e) = ReadBack(v, e)
<1> DEFINE a == e.first
           K == Chain(v.fat, a)
<1>1. Chain(w.fat, a) = K
  BY PositionsSame
<1>2. \A c \in K : Position(w, a, c) = Position(v, a, c)
  BY PositionsSame
<1>3. \A x \in K : w.data[x] = v.data[x]
  OBVIOUS
<1> HIDE DEF K
<1>4. Copied(w, e) = Copied(v, e)
  BY <1>1, <1>2 DEF Copied, K
<1>5. Copied(v, e) \subseteq K
  BY DEF Copied, K
<1>6. Whole(w, e) = Whole(v, e)
  BY <1>2, <1>3, <1>4, <1>5 DEF Whole
<1>7. \A u : IsVolume(u) =>
         ReadBack(u, e) =
             IF e.size = 0 THEN "none"
             ELSE IF Cardinality(Copied(u, e)) * ClusterSize >= e.size /\ Whole(u, e) # {}
                  THEN CHOOSE p \in Whole(u, e) : TRUE
                  ELSE Garbled
  BY ReadBackMeaning, Zenon
<1> QED BY <1>4, <1>6, <1>7, Zenon

LEMMA NodeSame ==
    ASSUME NEW v, NEW w, IsVolume(v), IsVolume(w), NEW k, NEW e, e.dir \in BOOLEAN,
           ~e.dir => \A x \in Chain(v.fat, e.first) : w.fat[x] = v.fat[x] /\ w.data[x] = v.data[x]
    PROVE  Node(w, k, e) = Node(v, k, e)
<1>1. CASE e.dir
  BY <1>1 DEF Node
<1>2. CASE ~e.dir
  <2>1. ReadBack(w, e) = ReadBack(v, e)
    BY <1>2, ReadBackSame
  <2> QED BY <1>2, <2>1 DEF Node
<1> QED BY <1>1, <1>2

-----------------------------------------------------------------------------
(* What the steps make of the tree *)

Typed(v) == \A s \in InUse(v) : At(v, s) \in Entries

LEMMA NodeIsTyped ==
    ASSUME NEW e \in Entries
    PROVE  e.dir \in BOOLEAN
  BY DEF Entries

\* No file holds a cluster that holds slots of a directory.
LEMMA FilesApart ==
    ASSUME NEW v, IsVolume(v), NEW B, Sound(v, B), NEW d \in Directories(v), NEW s \in SlotsOf(v, d),
           NEW t \in InUse(v), ~At(v, t).dir
    PROVE  s[1] \notin Holds(v, t)
<1>1. Holds(v, t) \subseteq Clusters
  BY DEF Holds
<1>2. CASE d = 0
  BY <1>1, <1>2, SlotsHeld, ClusterFacts
<1>3. CASE d # 0
  <2>1. PICK h \in InUse(v) : At(v, h).dir /\ Holds(v, h) = Chain(v.fat, d)
    BY <1>3, DirectoryChainHeld
  <2>2. h # t
    BY <2>1, Zenon
  <2>3. s[1] \in Chain(v.fat, d)
    BY <1>3, SlotsHeld
  <2>4. Holds(v, h) \cap Holds(v, t) = {}
    BY <2>2, SoundMeaning
  <2> QED BY <2>1, <2>3, <2>4
<1> QED BY <1>2, <1>3

\* Two volumes with the same directories, entries and files are the same tree.
LEMMA TreesAlike ==
    ASSUME NEW v, NEW w, IsVolume(v), IsVolume(w), AllClean(v), AllClean(w),
           Directories(w) = Directories(v),
           \A d \in Directories(v) : /\ Visible(w, d) = Visible(v, d)
                                     /\ \A s \in SlotsOf(v, d) : At(w, s) = At(v, s),
           \A d \in Directories(v) : \A s \in Named(v, d) :
              Node(w, <<d, At(v, s).name>>, At(v, s)) = NodeOf(v, d, s)
    PROVE  Tree(w) = Tree(v)
<1>1. /\ \A n : n \in Tree(v) <=> \E d \in Directories(v) : \E s \in Named(v, d) : n = NodeOf(v, d, s)
      /\ \A n : n \in Tree(w) <=> \E d \in Directories(w) : \E s \in Named(w, d) : n = NodeOf(w, d, s)
  BY TreeMembers
<1>2. \A d \in Directories(v) : \A s \in Visible(v, d) : At(w, s) = At(v, s)
  BY DEF Visible
<1>3. \A d \in Directories(v) :
         /\ Named(w, d) = Named(v, d)
         /\ \A s \in Named(v, d) : NodeOf(w, d, s) = NodeOf(v, d, s)
  BY <1>2 DEF Named, NodeOf
<1>4. \A n : n \in Tree(w) <=> n \in Tree(v)
  BY <1>1, <1>3
<1> QED BY <1>4

\* Nothing an entry holds has changed: the tree is what it was.
LEMMA TreeKept ==
    ASSUME NEW v, NEW w, IsVolume(v), IsVolume(w), NEW B, Sound(v, B), Typed(v), Unchanged(v, w)
    PROVE  Tree(w) = Tree(v) /\ Typed(w)
<1>1. AllClean(v)
  BY SoundMeaning
<1>2. /\ Directories(w) = Directories(v)
      /\ \A d \in Directories(v) :
            /\ Visible(w, d) = Visible(v, d)
            /\ Clean(v, d) => Clean(w, d)
            /\ \A s \in SlotsOf(v, d) : At(w, s) = At(v, s)
      /\ InUse(w) = InUse(v)
      /\ \A s \in InUse(v) : At(w, s) = At(v, s)
  BY TreeSame
<1>3. AllClean(w)
  BY <1>1, <1>2 DEF AllClean
<1>4. ASSUME NEW d \in Directories(v), NEW s \in Named(v, d)
      PROVE  Node(w, <<d, At(v, s).name>>, At(v, s)) = NodeOf(v, d, s)
  <2>1. s \in InUse(v) /\ At(w, s) = At(v, s)
    BY <1>2, NamedInUse
  <2>2. At(v, s).dir \in BOOLEAN
    BY <2>1, NodeIsTyped DEF Typed
  <2>3. \A x \in Chain(v.fat, At(v, s).first) : w.fat[x] = v.fat[x] /\ w.data[x] = v.data[x]
    BY <2>1, ChainsOfSlots DEF Unchanged, Held
  <2> QED BY <2>1, <2>2, <2>3, NodeSame DEF NodeOf
<1>5. Typed(w)
  BY <1>2 DEF Typed
<1>6. Tree(w) = Tree(v)
  BY <1>1, <1>2, <1>3, <1>4, TreesAlike
<1> QED BY <1>5, <1>6

\* Nor does a longer directory hold other entries.
LEMMA TreeLengthened ==
    ASSUME NEW v, NEW w, IsVolume(v), IsVolume(w), NEW B, Sound(v, B), Typed(v),
           NEW d, NEW prev, NEW c, Lengthened(v, w, d, prev, c)
    PROVE  Tree(w) = Tree(v) /\ Typed(w)
<1>0. d \in Directories(v) /\ d # 0
  BY DEF Lengthened
<1>1. PICK h \in InUse(v) : At(v, h).dir /\ At(v, h).first = d /\ Holds(v, h) = Chain(v.fat, d)
  BY <1>0, DirectoryChainHeld
<1>2. /\ c \notin Held(v)
      /\ \A x \in Clusters : x # c /\ x # prev => w.fat[x] = v.fat[x]
      /\ \A t \in InUse(v) \ {h} : prev \notin Holds(v, t)
  BY <1>1, LengthenedChains
<1>3. /\ Directories(w) = Directories(v)
      /\ AllClean(w)
      /\ \A e \in Directories(v) :
            Visible(w, e) = Visible(v, e) /\ \A s \in SlotsOf(v, e) : At(w, s) = At(v, s)
      /\ InUse(w) = InUse(v)
      /\ \A s \in InUse(v) : At(w, s) = At(v, s)
  BY LengthenedTree
<1>4. AllClean(v)
  BY SoundMeaning
<1>5. ASSUME NEW e \in Directories(v), NEW s \in Named(v, e)
      PROVE  Node(w, <<e, At(v, s).name>>, At(v, s)) = NodeOf(v, e, s)
  <2>1. s \in InUse(v) /\ At(w, s) = At(v, s)
    BY <1>3, NamedInUse
  <2>2. At(v, s).dir \in BOOLEAN
    BY <2>1, NodeIsTyped DEF Typed
  <2>3. ASSUME ~At(v, s).dir, NEW x \in Chain(v.fat, At(v, s).first)
        PROVE  w.fat[x] = v.fat[x] /\ w.data[x] = v.data[x]
    <3>1. s # h
      BY <1>1, <2>3, Zenon
    <3>2. x \in Holds(v, s) /\ x \in Clusters
      BY ChainsOfSlots, ChainClosed
    <3>3. x # c /\ x # prev
      BY <1>2, <2>1, <3>1, <3>2 DEF Held
    <3> QED BY <1>2, <3>2, <3>3 DEF Lengthened
  <2> QED BY <2>1, <2>2, <2>3, NodeSame DEF NodeOf
<1>6. Typed(w)
  BY <1>3 DEF Typed
<1>7. Tree(w) = Tree(v)
  BY <1>3, <1>4, <1>5, TreesAlike
<1> QED BY <1>6, <1>7

\* One entry has been written: the node at its place is the new entry's.
LEMMA TreeWritten ==
    ASSUME NEW v, NEW w, IsVolume(v), IsVolume(w), NEW B, Sound(v, B), Typed(v),
           NEW d, NEW s, EntryWritten(v, w, d, s),
           \A x \in Clusters : x # s[1] => w.data[x] = v.data[x],
           At(w, s) \in Entries
    PROVE  /\ Typed(w)
           /\ LET e == At(w, s)
                  k == <<d, e.name>>
              IN Tree(w) = {n \in Tree(v) : n.at # <<d, At(v, s).name>>}
                           \cup (IF e.name \in Names THEN {Node(w, k, e)} ELSE {})
<1> DEFINE e == At(w, s)
           X == NewDirectories(e)
           named(u, c) == {t \in SlotsOf(u, c) : At(u, t).name \in Names}
<1>1. /\ AllClean(w)
      /\ Directories(w) = Directories(v) \cup X
      /\ InUse(w) = (InUse(v) \ {s}) \cup (IF At(w, s).name \in Names THEN {s} ELSE {})
  BY EntryWrittenTree
<1>2. /\ d \in Directories(v) /\ s \in SlotsOf(v, d)
      /\ \A x \in HeldBut(v, s) : w.fat[x] = v.fat[x]
      /\ \A t \in TreeSlots(v) \ {s} : At(w, t) = At(v, t)
      /\ \A x \in X : \A t \in SlotsOf(w, x) : At(w, t).name \notin Names
  BY DEF EntryWritten
<1>3. AllClean(v)
  BY SoundMeaning
<1>4. \A c \in Directories(v) : SlotsOf(w, c) = SlotsOf(v, c)
  BY DirectoriesAgree DEF Agree
<1>5. \A m \in Names : m \notin {END, DELETED}
  BY NameAssumption
<1>6. ASSUME NEW u, IsVolume(u), AllClean(u)
      PROVE  /\ \A c \in Directories(u) : \A t \in named(u, c) : t \in InUse(u)
             /\ \A n : n \in Tree(u) <=>
                          \E c \in Directories(u) : \E t \in named(u, c) : n = NodeOf(u, c, t)
  <2>1. \A c \in Directories(u) : named(u, c) = Named(u, c)
    BY <1>5, <1>6, ScanMeaning DEF AllClean, IsFree, Named
  <2>2. \A c \in Directories(u) : \A t \in named(u, c) : t \in InUse(u)
    BY <2>1, NamedInUse
  <2>3. \A n : n \in Tree(u) <=>
            \E c \in Directories(u) : \E t \in Named(u, c) : n = NodeOf(u, c, t)
    BY <1>6, TreeMembers
  <2> HIDE DEF named
  <2> QED BY <2>1, <2>2, <2>3
<1>7. ASSUME NEW c \in Directories(v), NEW t \in named(v, c), t # s
      PROVE  At(w, t) = At(v, t) /\ NodeOf(w, c, t) = NodeOf(v, c, t)
  <2>1. At(w, t) = At(v, t)
    BY <1>2, <1>7 DEF TreeSlots
  <2>2. t \in InUse(v)
    BY <1>3, <1>6
  <2>3. At(v, t).dir \in BOOLEAN
    BY <2>2, NodeIsTyped DEF Typed
  <2>4. ASSUME ~At(v, t).dir, NEW x \in Chain(v.fat, At(v, t).first)
        PROVE  w.fat[x] = v.fat[x] /\ w.data[x] = v.data[x]
    <3>1. x \in Holds(v, t) /\ x \in Clusters
      BY ChainsOfSlots, ChainClosed
    <3>2. x \in HeldBut(v, s)
      BY <1>7, <2>2, <3>1 DEF HeldBut
    <3>3. x # s[1]
      BY <1>2, <2>2, <2>4, <3>1, FilesApart
    <3> QED BY <1>2, <3>1, <3>2, <3>3
  <2> QED BY <2>1, <2>3, <2>4, NodeSame DEF NodeOf
<1>8. Typed(w)
  BY <1>1, <1>2, <1>3, CleanTree DEF Typed
<1>9. ASSUME NEW u, NEW c, NEW t, At(u, t) \in Entries PROVE NodeOf(u, c, t).at = <<c, At(u, t).name>>
  BY <1>9, NodeIsTyped, NodeParts DEF NodeOf
<1> HIDE DEF X
<1>10. ASSUME NEW n
       PROVE  n \in Tree(w) <=>
                  \/ n \in Tree(v) /\ n.at # <<d, At(v, s).name>>
                  \/ e.name \in Names /\ n = NodeOf(w, d, s)
  <2>1. ASSUME n \in Tree(w)
        PROVE  \/ n \in Tree(v) /\ n.at # <<d, At(v, s).name>>
               \/ e.name \in Names /\ n = NodeOf(w, d, s)
    <3>0. PICK c \in Directories(w) : \E t \in named(w, c) : n = NodeOf(w, c, t)
      BY <1>1, <1>6, <2>1
    <3>1. PICK t \in named(w, c) : n = NodeOf(w, c, t)
      BY <3>0
    <3>2. c \in Directories(v) /\ t \in SlotsOf(v, c) /\ At(w, t).name \in Names
      BY <1>1, <1>2, <1>4, <3>1 DEF X
    <3>3. CASE t = s
      <4>1. c = d
        BY <1>2, <3>2, <3>3, SlotsDisjoint
      <4> QED BY <3>1, <3>2, <3>3, <4>1
    <3>4. CASE t # s
      <4>1. At(w, t) = At(v, t)
        BY <1>2, <3>2, <3>4 DEF TreeSlots
      <4>2. t \in named(v, c)
        BY <3>2, <4>1
      <4>3. n = NodeOf(v, c, t)
        BY <1>7, <3>1, <3>2, <3>4, <4>2
      <4>4. n \in Tree(v)
        BY <1>3, <1>6, <3>2, <4>2, <4>3
      <4>5. At(v, t) \in Entries
        BY <1>3, <1>6, <3>2, <4>2 DEF Typed
      <4>6. n.at = <<c, At(v, t).name>>
        BY <1>9, <4>3, <4>5
      <4>7. c = d => At(v, t).name # At(v, s).name
        <5> SUFFICES ASSUME c = d, At(v, t).name = At(v, s).name PROVE FALSE
          OBVIOUS
        <5>1. ~IsFree(At(v, t)) /\ ~IsFree(At(v, s))
          BY <1>5, <3>2, <4>1 DEF IsFree
        <5> QED BY <1>2, <1>3, <3>2, <3>4, <5>1 DEF AllClean, Clean
      <4> QED BY <4>4, <4>6, <4>7
    <3> QED BY <3>3, <3>4
  <2>2. ASSUME n \in Tree(v), n.at # <<d, At(v, s).name>>
        PROVE  n \in Tree(w)
    <3>0. PICK c \in Directories(v) : \E t \in named(v, c) : n = NodeOf(v, c, t)
      BY <1>3, <1>6, <2>2
    <3>1. PICK t \in named(v, c) : n = NodeOf(v, c, t)
      BY <3>0
    <3>2. At(v, t) \in Entries
      BY <1>3, <1>6 DEF Typed
    <3>3. n.at = <<c, At(v, t).name>>
      BY <1>9, <3>1, <3>2
    <3>4. t # s
      <4> SUFFICES ASSUME t = s PROVE FALSE
        OBVIOUS
      <4>1. c = d
        BY <1>2, <3>1, SlotsDisjoint
      <4> QED BY <2>2, <3>3, <4>1
    <3>5. n = NodeOf(w, c, t) /\ At(w, t) = At(v, t)
      BY <1>7, <3>1, <3>4
    <3>6. c \in Directories(w) /\ t \in named(w, c)
      BY <1>1, <1>4, <3>1, <3>5
    <3> QED BY <1>1, <1>6, <3>5, <3>6
  <2>3. ASSUME e.name \in Names, n = NodeOf(w, d, s)
        PROVE  n \in Tree(w)
    <3>1. d \in Directories(w) /\ s \in named(w, d)
      BY <1>1, <1>2, <1>4, <2>3
    <3> QED BY <1>1, <1>6, <2>3, <3>1
  <2> QED BY <2>1, <2>2, <2>3
<1>11. e.name \in Names => NodeOf(w, d, s) = Node(w, <<d, e.name>>, e)
  BY DEF NodeOf
<1> HIDE DEF e
<1>12. Tree(w) = {n \in Tree(v) : n.at # <<d, At(v, s).name>>}
                 \cup (IF e.name \in Names THEN {Node(w, <<d, e.name>>, e)} ELSE {})
  BY <1>10, <1>11
<1> QED BY <1>8, <1>12 DEF e

-----------------------------------------------------------------------------
(* Where the clusters of a chain lie *)

LEMMA ChainStep ==
    ASSUME NEW f, NEW x \in Clusters
    PROVE  Chain(f, x) \subseteq {x} \cup Chain(f, f[x])
<1> DEFINE S == {x} \cup Chain(f, f[x])
<1>1. x \in S /\ \A y \in S \cap Clusters : f[y] \in Clusters => f[y] \in S
  BY ChainClosed
<1> HIDE DEF S
<1>2. Chain(f, x) \subseteq S
  BY <1>1, ChainLeast
<1> QED BY <1>2 DEF S

\* Every cluster of a chain leads to the one it ends in.
LEMMA LeadsToEnd ==
    ASSUME NEW f, NEW a \in Clusters, NEW last \in Chain(f, a), f[last] \notin Clusters
    PROVE  \A x \in Chain(f, a) : last \in Chain(f, x)
<1> DEFINE S == {x \in Chain(f, a) : last \in Chain(f, x)}
<1>1. a \in S
  BY ChainClosed
<1>2. ASSUME NEW x \in S \cap Clusters, f[x] \in Clusters PROVE f[x] \in S
  <2>1. last \in {x} \cup Chain(f, f[x])
    BY <1>2, ChainStep
  <2>2. last # x
    BY <1>2
  <2> QED BY <1>2, <2>1, <2>2, ChainClosed
<1> HIDE DEF S
<1>3. Chain(f, a) \subseteq S
  BY <1>1, <1>2, ChainLeast
<1> QED BY <1>3 DEF S

LEMMA FiniteChain ==
    ASSUME NEW f, NEW a
    PROVE  /\ IsFiniteSet(Chain(f, a)) /\ Cardinality(Chain(f, a)) \in Nat
           /\ \A S : S \subseteq Chain(f, a) => IsFiniteSet(S) /\ Cardinality(S) \in Nat
  BY ChainClosed, FiniteClusters, FS_Subset, FS_CardinalityType

LEMMA PositionBound ==
    ASSUME NEW v, IsVolume(v), NEW a, NEW c \in Chain(v.fat, a)
    PROVE  /\ Position(v, a, c) \in Nat
           /\ Position(v, a, c) + 1 <= Cardinality(Chain(v.fat, a))
<1> DEFINE K == Chain(v.fat, a)
           S == {x \in K \ {c} : c \in Chain(v.fat, x)}
<1>1. Position(v, a, c) = Cardinality(S)
  BY PositionMeaning
<1>2. IsFiniteSet(K) /\ Cardinality(K) \in Nat
  BY FiniteChain
<1>3. Cardinality(K \ {c}) = Cardinality(K) - 1 /\ IsFiniteSet(K \ {c})
  BY <1>2, FS_RemoveElement
<1>4. S \subseteq K \ {c}
  OBVIOUS
<1> HIDE DEF S, K
<1>5. Cardinality(S) <= Cardinality(K \ {c}) /\ Cardinality(S) \in Nat
  BY <1>3, <1>4, FS_Subset, FS_CardinalityType
<1> QED BY <1>1, <1>2, <1>3, <1>5 DEF K

\* A cluster put behind the last of a chain lies behind all of it, and moves
\* none.
LEMMA PositionsLinked ==
    ASSUME NEW v, NEW w, IsVolume(v), IsVolume(w), NEW a \in Clusters, NEW prev \in Chain(v.fat, a),
           NEW c \in Clusters, c \notin Chain(v.fat, a), v.fat[prev] \notin Clusters,
           v.fat[c] \notin Clusters, w.fat = Link(v.fat, prev, c)
    PROVE  /\ \A x \in Chain(v.fat, a) : Position(w, a, x) = Position(v, a, x)
           /\ Position(w, a, c) = Cardinality(Chain(v.fat, a))
<1> DEFINE K == Chain(v.fat, a)
           before(u, x) == {y \in Chain(u.fat, a) \ {x} : x \in Chain(u.fat, y)}
<1>1. \A x \in K : x \in Clusters
  BY ChainClosed
<1>2. \A x \in K : /\ Chain(v.fat, x) \subseteq Chain(w.fat, x)
                   /\ Chain(w.fat, x) \subseteq Chain(v.fat, x) \cup {c}
                   /\ prev \in Chain(v.fat, x) => c \in Chain(w.fat, x)
  BY <1>1, ChainLinked
<1>3. Chain(w.fat, c) = {c}
  BY ChainLinked
<1>4. Chain(w.fat, a) = K \cup {c}
  <2>1. a \in K
    BY ChainClosed
  <2> QED BY <1>2, <2>1
<1>5. \A x \in K : prev \in Chain(v.fat, x)
  BY LeadsToEnd
<1> HIDE DEF K
<1>6. \A x \in K : before(w, x) = before(v, x)
  BY <1>2, <1>3, <1>4 DEF K
<1>7. before(w, c) = K
  BY <1>2, <1>4, <1>5 DEF K
<1>8. \A x : Position(w, a, x) = Cardinality(before(w, x)) /\ Position(v, a, x) = Cardinality(before(v, x))
  BY PositionMeaning
<1> HIDE DEF before
<1> QED BY <1>6, <1>7, <1>8 DEF K

-----------------------------------------------------------------------------
(* The order of slots *)

LEMMA ChainWithin ==
    ASSUME NEW f, NEW a, NEW x \in Chain(f, a)
    PROVE  Chain(f, x) \subseteq Chain(f, a) /\ x \in Clusters
  BY ChainLeast, ChainClosed

\* A chain that ends does not lead back.
LEMMA NoWayBack ==
    ASSUME NEW f, NEW a \in Clusters, NEW last \in Chain(f, a), f[last] \notin Clusters,
           NEW x \in Chain(f, a), NEW y \in Chain(f, x), y # x
    PROVE  x \notin Chain(f, y)
<1> SUFFICES ASSUME x \in Chain(f, y) PROVE FALSE
  OBVIOUS
<1> DEFINE C == {z \in Chain(f, x) : x \in Chain(f, z)}
<1>1. x \in Clusters /\ x \in Chain(f, x)
  BY ChainWithin, ChainClosed
<1>2. ASSUME NEW z \in C PROVE f[z] \in Clusters /\ f[z] \in C
  <2>1. z \in Clusters /\ Chain(f, z) \subseteq {z} \cup Chain(f, f[z])
    BY ChainWithin, ChainStep
  <2>2. x \in Chain(f, f[z])
    <3>1. CASE z = x
      <4>1. y \in Chain(f, f[z])
        BY <2>1, <3>1
      <4> QED BY <4>1, ChainWithin
    <3>2. CASE z # x
      BY <2>1, <3>2
    <3> QED BY <3>1, <3>2
  <2>3. f[z] \in Clusters
    BY <2>2, ChainClosed
  <2> QED BY <2>1, <2>2, <2>3, ChainClosed
<1>3. x \in C
  BY <1>1
<1> HIDE DEF C
<1>4. Chain(f, x) \subseteq C
  BY <1>2, <1>3, ChainLeast
<1>5. last \in C
  BY <1>4, LeadsToEnd
<1> QED BY <1>2, <1>5

\* One of any slots of a directory comes first.
LEMMA FirstExists ==
    ASSUME NEW v, IsVolume(v), NEW d \in Clusters, NEW last \in Chain(v.fat, d),
           v.fat[last] \notin Clusters, NEW S, S \subseteq SlotsOf(v, d), S # {}
    PROVE  First(v, S) # {}
<1> DEFINE K == Chain(v.fat, d)
           ahead(x) == Cardinality(K \ Chain(v.fat, x))
<1>1. S \subseteq K \X Slots
  BY ChainsOfSlots
<1>2. ASSUME NEW x \in K PROVE ahead(x) \in Nat
  BY FiniteChain
<1>3. ASSUME NEW x \in K, NEW y \in K, x # y, y \in Chain(v.fat, x) PROVE ahead(x) < ahead(y)
  <2> DEFINE A == K \ Chain(v.fat, x)
             B == K \ Chain(v.fat, y)
  <2>1. x \in Chain(v.fat, x) /\ Chain(v.fat, y) \subseteq Chain(v.fat, x)
    BY <1>3, ChainWithin, ChainClosed
  <2>2. x \notin Chain(v.fat, y)
    BY <1>3, NoWayBack
  <2>3. A \subseteq B /\ x \in B /\ x \notin A
    BY <2>1, <2>2
  <2>4. IsFiniteSet(B)
    BY FiniteChain
  <2> HIDE DEF A, B
  <2>5. A \subseteq B \ {x} /\ IsFiniteSet(B \ {x}) /\ Cardinality(B \ {x}) = Cardinality(B) - 1
    BY <2>3, <2>4, FS_RemoveElement
  <2>6. Cardinality(A) <= Cardinality(B) - 1 /\ Cardinality(A) \in Nat /\ Cardinality(B) \in Nat
    BY <2>4, <2>5, FS_Subset, FS_CardinalityType
  <2>7. Cardinality(A) < Cardinality(B)
    BY <2>6
  <2> QED BY <2>7 DEF A, B
<1> HIDE DEF K, ahead
<1> DEFINE T == {ahead(s[1]) : s \in S}
<1>4. T \in SUBSET Nat /\ T # {}
  BY <1>1, <1>2
<1>5. PICK m \in T : \A n \in T : m <= n
  BY <1>4, LeastNumber
<1>6. PICK s \in S : ahead(s[1]) = m
  BY <1>5
<1> DEFINE U == {t[2] : t \in {u \in S : u[1] = s[1]}}
<1>7. U \in SUBSET Nat /\ U # {}
  BY <1>1, <1>6 DEF Slots
<1>8. PICK i \in U : \A j \in U : i <= j
  BY <1>7, LeastNumber
<1>9. PICK t \in S : t[1] = s[1] /\ t[2] = i
  BY <1>8
<1>10. ASSUME NEW u \in S PROVE ~Before(v, u, t)
  <2>1. CASE u[1] = t[1]
    <3>1. u[2] \in U
      BY <1>9, <2>1
    <3>2. t[2] <= u[2] /\ t[2] \in Nat /\ u[2] \in Nat
      BY <1>7, <1>8, <1>9, <3>1
    <3>3. ~(u[2] < t[2])
      BY <3>2
    <3> QED BY <2>1, <3>3 DEF Before
  <2>2. CASE u[1] # t[1]
    <3>1. u[1] \in K /\ t[1] \in K
      BY <1>1
    <3>2. ahead(t[1]) <= ahead(u[1]) /\ ahead(t[1]) \in Nat /\ ahead(u[1]) \in Nat
      BY <1>2, <1>5, <1>6, <1>9, <3>1
    <3>3. ~(ahead(u[1]) < ahead(t[1]))
      BY <3>2
    <3>4. t[1] \notin Chain(v.fat, u[1])
      BY <1>3, <2>2, <3>1, <3>3
    <3> QED BY <2>2, <3>4, ChainsOfSlots
  <2> QED BY <2>1, <2>2
<1> QED BY <1>10 DEF First

-----------------------------------------------------------------------------
(* What a write has stored so far *)

Offset(c) == Position(Mounted, op.first, c) * ClusterSize

\* The clusters a write has filled hold, each in its place, the pieces of what
\* it was given; it has as many as it has written, and needs no more than its
\* size.
ContentInv ==
    pc \in {"alloc", "fill", "entry"} /\ op.kind = "write" =>
        LET room == Cardinality(Building) * ClusterSize IN
        /\ op.pay \in Payloads /\ op.size \in Sizes
        /\ pc = "alloc" => room = op.done /\ op.done < op.size
        /\ pc = "fill" => /\ room = op.done + ClusterSize /\ op.done < op.size
                          /\ Offset(op.new) = op.done
        /\ pc = "entry" => room >= op.size /\ room < op.size + ClusterSize
        /\ \A c \in Building :
              c # op.new \/ pc # "fill" => disk_data[c] = FilePiece(op.pay, Offset(c))

\* What a call answers, it answers at its end.
ReplyInv ==
    /\ pc # "returned" => res = Pending
    /\ pc \in {"root", "fats"} => op.kind \in {"write", "mkdir", "rm", "flush"}

LEMMA AllocateContent ==
    ASSUME VolumeInv, DurableInv', ContentInv, Allocate
    PROVE  ContentInv'
<1> SUFFICES ASSUME op'.kind = "write" PROVE ContentInv'
  BY DEF ContentInv
<1>1. pc = "alloc" /\ pc' = "fill" /\ g_fs_ready
  BY DEF Allocate, Goto, VolumeInv
<1>2. TypeOK /\ CallInv /\ Building = Chain(g_fat_primary, op.first)
  BY <1>1, ServedVolume
<1>3. PICK c \in FirstFree(g_fat_primary) :
          /\ g_fat_primary' = Link(g_fat_primary, op.new, c)
          /\ disk_data' = [disk_data EXCEPT ![c] = Zeroes]
          /\ op' = [op EXCEPT !.new = c, !.first = IF op.first = 0 THEN c ELSE op.first]
  BY DEF Allocate
<1>4. /\ op'.new = c /\ op'.first = (IF op.first = 0 THEN c ELSE op.first)
      /\ op'.kind = op.kind /\ op'.pay = op.pay /\ op'.size = op.size /\ op'.done = op.done
      /\ op.done \in Nat /\ op.size \in Nat /\ op.first \in Clusters \cup {0}
  BY <1>2, <1>3 DEF TypeOK, Calls
<1>5. c \in Clusters /\ c \notin Building /\ Building' = Building \cup {c}
      /\ g_fat_primary[c] = FREE
  BY <1>3, <1>4, AllocateVolume DEF FirstFree
<1>6. /\ op.pay \in Payloads /\ op.size \in Sizes
      /\ Cardinality(Building) * ClusterSize = op.done /\ op.done < op.size
      /\ \A x \in Building : disk_data[x] = FilePiece(op.pay, Offset(x))
  BY <1>1, <1>4 DEF ContentInv
<1>7. IsFiniteSet(Building) /\ Cardinality(Building) \in Nat
  BY <1>2, FiniteChain
<1>8. Cardinality(Building') = Cardinality(Building) + 1
  BY <1>5, <1>7, FS_AddElement
<1>9. ClusterSize \in Nat
  BY GeometryAssumption
<1>10. Cardinality(Building') * ClusterSize = op.done + ClusterSize
  BY <1>6, <1>7, <1>8, <1>9
<1>11. FREE \notin Clusters
  BY ClusterFacts DEF FREE
<1>12. /\ \A x \in Building : Position(Mounted', op'.first, x) = Position(Mounted, op.first, x)
       /\ Position(Mounted', op'.first, c) = Cardinality(Building)
  <2>1. CASE op.first = 0
    <3>1. Building = {} /\ op'.first = c /\ Chain(g_fat_primary', c) = {c}
      <4>1. Building = {}
        BY <1>2, <2>1, ChainClosed, ClusterFacts
      <4>2. Building' = Chain(g_fat_primary', op'.first)
        BY <1>1 DEF Building
      <4> QED BY <1>4, <1>5, <2>1, <4>1, <4>2
    <3>2. {x \in Chain((Mounted').fat, c) \ {c} : c \in Chain((Mounted').fat, x)} = {}
      BY <3>1, MountedParts
    <3>3. Position(Mounted', c, c) = Cardinality({})
      BY <3>2, MountedParts, PositionMeaning
    <3> QED BY <3>1, <3>3
  <2>2. CASE op.first # 0
    <3>1. op.new \in Chain(g_fat_primary, op.first) /\ g_fat_primary[op.new] \notin Clusters
      BY <1>1, <1>2, <2>2 DEF CallInv
    <3>2. op.first \in Clusters /\ op'.first = op.first
      BY <1>4, <2>2
    <3> QED BY <1>2, <1>3, <1>5, <1>11, <3>1, <3>2, MountedParts, PositionsLinked
  <2> QED BY <2>1, <2>2
<1>13. \A x \in Building : x \in Clusters /\ x # c /\ disk_data'[x] = disk_data[x]
  BY <1>2, <1>3, <1>5, ChainClosed DEF TypeOK
<1>14. Offset(op.new)' = op'.done
  BY <1>4, <1>6, <1>12 DEF Offset
<1>15. ASSUME NEW x \in Building', x # c
       PROVE  disk_data'[x] = FilePiece(op'.pay, Offset(x)')
  <2>1. x \in Building
    BY <1>5, <1>15
  <2>2. Offset(x)' = Offset(x)
    BY <1>12, <2>1 DEF Offset
  <2> QED BY <1>4, <1>6, <1>13, <2>1, <2>2
<1> QED BY <1>1, <1>4, <1>6, <1>10, <1>14, <1>15 DEF ContentInv

LEMMA FillContent ==
    ASSUME VolumeInv, DurableInv', ContentInv, Fill
    PROVE  ContentInv'
<1> SUFFICES ASSUME op'.kind = "write" PROVE ContentInv'
  BY DEF ContentInv
<1>1. pc = "fill" /\ g_fs_ready /\ UNCHANGED g_fat_primary
  BY DEF Fill, VolumeInv, cache
<1>2. /\ disk_data' = [disk_data EXCEPT ![op.new] = Content]
      /\ op' = [op EXCEPT !.done = Written]
      /\ pc' = IF Written < op.size THEN "alloc" ELSE "entry"
  BY DEF Fill, Goto
<1>3. TypeOK /\ CallInv /\ Building = Chain(g_fat_primary, op.first)
  BY <1>1, ServedVolume
<1>4. /\ op'.new = op.new /\ op'.first = op.first /\ op'.kind = op.kind /\ op'.pay = op.pay
      /\ op'.size = op.size /\ op'.done = Written
      /\ op.done \in Nat /\ op.size \in Nat
  BY <1>2, <1>3 DEF TypeOK, Calls
<1>5. Building' = Building
  BY FillVolume
<1>6. /\ op.pay \in Payloads /\ op.size \in Sizes
      /\ Cardinality(Building) * ClusterSize = op.done + ClusterSize /\ op.done < op.size
      /\ Offset(op.new) = op.done
      /\ \A c \in Building : c # op.new => disk_data[c] = FilePiece(op.pay, Offset(c))
  BY <1>1, <1>4 DEF ContentInv
<1>7. ClusterSize \in Nat \ {0}
  BY GeometryAssumption
<1>8. \A c \in Building : Offset(c)' = Offset(c)
  <2>1. \A c \in Building : Position(Mounted', op.first, c) = Position(Mounted, op.first, c)
    BY <1>1, <1>3, MountedParts, PositionsSame
  <2> QED BY <1>4, <2>1 DEF Offset
<1>9. Building \subseteq Clusters
  BY <1>3, ChainClosed
<1>10. Content = FilePiece(op.pay, op.done)
  BY <1>4 DEF Content
<1>11. \A c \in Building : disk_data'[c] = FilePiece(op.pay, Offset(c))
  BY <1>2, <1>3, <1>6, <1>9, <1>10 DEF TypeOK
<1>12. \/ pc' = "alloc" /\ Written = op.done + ClusterSize /\ Written < op.size
       \/ pc' = "entry" /\ op.done + ClusterSize >= op.size /\ op.done + ClusterSize < op.size + ClusterSize
  BY <1>2, <1>4, <1>6, <1>7 DEF Written
<1> QED BY <1>4, <1>5, <1>6, <1>8, <1>11, <1>12 DEF ContentInv

LEMMA ExtendContent ==
    ASSUME VolumeInv, DurableInv', ContentInv, ExtendDirectory
    PROVE  ContentInv'
<1>1. pc = "entry" /\ g_fs_ready /\ UNCHANGED <<pc, op>>
  BY DEF ExtendDirectory, control, VolumeInv
<1>2. Building = Chain(g_fat_primary, op.first)
  BY <1>1, ServedVolume
<1>3. /\ Building' = Building
      /\ \A x \in Building : g_fat_primary'[x] = g_fat_primary[x] /\ disk_data'[x] = disk_data[x]
  BY ExtendVolume
<1>4. \A c \in Building : Offset(c)' = Offset(c)
  <2>1. \A c \in Building : Position(Mounted', op.first, c) = Position(Mounted, op.first, c)
    BY <1>2, <1>3, MountedParts, PositionsSame
  <2> QED BY <1>1, <2>1 DEF Offset
<1> QED BY <1>1, <1>3, <1>4 DEF ContentInv

\* A write begins with nothing stored.
LEMMA BeginContent ==
    ASSUME NEW d, NEW n, NEW p \in Payloads, NEW size \in Sizes, NEW old,
           op' = Call("write", d, n, p, size, old), pc' = IF size > 0 THEN "alloc" ELSE "entry"
    PROVE  ContentInv'
<1>1. /\ op'.pay = p /\ op'.size = size /\ op'.first = 0 /\ op'.done = 0
  BY DEF Call
<1>2. Building' = {}
  BY <1>1, ChainClosed, ClusterFacts DEF Building
<1>3. Cardinality(Building') * ClusterSize = 0
  BY <1>2, FS_EmptySet, GeometryAssumption
<1>4. size \in Nat /\ ClusterSize \in Nat \ {0}
  BY CallerAssumption, GeometryAssumption
<1> QED BY <1>1, <1>2, <1>3, <1>4 DEF ContentInv

LEMMA NextContent ==
    ASSUME VolumeInv, DurableInv', ContentInv, [Next]_vars
    PROVE  ContentInv'
<1> SUFFICES ASSUME pc' \in {"alloc", "fill", "entry"}, op'.kind = "write"
             PROVE  ContentInv'
  BY DEF ContentInv
<1>1. CASE UNCHANGED vars
  <2>1. Mounted' = Mounted /\ Building' = Building /\ UNCHANGED <<pc, op, disk_data>>
    BY <1>1 DEF vars, cache, image, control, Mounted, Building
  <2>2. \A c : Offset(c)' = Offset(c)
    BY <2>1 DEF Offset
  <2> QED BY <2>1, <2>2 DEF ContentInv
<1>2. CASE Step
  <2>1. ASSUME NEW code, NEW touched, Abandon(code, touched)
        PROVE  FALSE
    BY <2>1 DEF Abandon, Return
  <2>2. ~AllocateFails /\ ~FillFails /\ ~PutEntryFails
    BY <2>1, Zenon DEF AllocateFails, FillFails, PutEntryFails, NoCluster
  <2>3. ~PutEntry /\ ~TakeResult
    BY DEF PutEntry, TakeResult, Goto
  <2>4. ~FlushRoot /\ ~FlushRootFails /\ ~FlushFats /\ ~FlushFatsFails
    BY DEF FlushRoot, FlushRootFails, FlushFats, FlushFatsFails, Leave, Goto, Return
  <2> QED BY <1>2, <2>2, <2>3, <2>4, AllocateContent, FillContent, ExtendContent DEF Step
<1>3. ASSUME NEW d \in Directories(Mounted), NEW n \in Names,
             ReadFile(d, n) \/ WriteFile(d, n) \/ CreateDirectory(d, n) \/ DeleteFile(d, n)
      PROVE  ContentInv'
  <2>1. ASSUME NEW k, NEW code, ReturnAtOnce(k, code) PROVE FALSE
    BY <2>1 DEF ReturnAtOnce, Return
  <2>2. ~ReadFile(d, n)
    BY <2>1 DEF ReadFile
  <2>3. ~CreateDirectory(d, n)
    BY <2>1 DEF CreateDirectory, Call
  <2>4. ~DeleteFile(d, n)
    BY <2>1 DEF DeleteFile, Goto, Return
  <2>5. WriteFile(d, n)
    BY <1>3, <2>2, <2>3, <2>4
  <2>6. \E old : \E p \in Payloads, size \in Sizes :
            /\ op' = Call("write", d, n, p, size, old)
            /\ Goto(IF size > 0 THEN "alloc" ELSE "entry")
    BY <2>1, <2>5, Zenon DEF WriteFile
  <2> QED BY <2>6, BeginContent DEF Goto
<1>4. ~(Mount \/ MountFails \/ Restart \/ Shutdown \/ \E k \in {"write", "mkdir", "rm", "read"} : Refused(k))
  BY DEF Mount, MountFails, Restart, Shutdown, Refused, Goto, Return
<1> QED BY <1>1, <1>2, <1>3, <1>4 DEF Next

LEMMA NextReply ==
    ASSUME VolumeInv, ReplyInv, [Next]_vars
    PROVE  ReplyInv'
<1>0. \A k, code : Return(k, code) => ReplyInv'
  BY DEF Return, ReplyInv
<1>1. CASE UNCHANGED vars
  BY <1>1 DEF vars, control, ReplyInv
<1>2. CASE Step
  <2>1. CASE Allocate \/ Fill \/ ExtendDirectory \/ TakeResult
    BY <2>1 DEF Allocate, Fill, ExtendDirectory, TakeResult, Goto, control, ReplyInv
  <2>2. CASE AllocateFails \/ FillFails \/ PutEntryFails
    <3>1. \E code, touched : Abandon(code, touched)
      BY <2>2, Zenon DEF AllocateFails, FillFails, PutEntryFails, NoCluster
    <3> QED BY <1>0, <3>1 DEF Abandon
  <2>3. CASE PutEntry
    <3>1. pc = "entry" /\ g_fs_ready /\ pc' = "root" /\ res' = Pending /\ UNCHANGED op
      BY <2>3 DEF PutEntry, Goto, VolumeInv
    <3>2. op.kind \in {"write", "mkdir"}
      BY <3>1 DEF VolumeInv, CallInv
    <3> QED BY <3>1, <3>2 DEF ReplyInv
  <2>4. CASE FlushRoot \/ FlushRootFails
    BY <2>4 DEF FlushRoot, FlushRootFails, Goto, ReplyInv
  <2>5. CASE FlushFats \/ FlushFatsFails
    BY <1>0, <2>5 DEF FlushFats, FlushFatsFails, Leave, Goto, ReplyInv
  <2> QED BY <1>2, <2>1, <2>2, <2>3, <2>4, <2>5 DEF Step
<1>3. ASSUME NEW d \in Directories(Mounted), NEW n \in Names,
             ReadFile(d, n) \/ WriteFile(d, n) \/ CreateDirectory(d, n) \/ DeleteFile(d, n)
      PROVE  ReplyInv'
  <2>0. \A k, code : ReturnAtOnce(k, code) => ReplyInv'
    BY <1>0 DEF ReturnAtOnce
  <2>1. CASE ReadFile(d, n)
    BY <2>0, <2>1 DEF ReadFile
  <2>2. CASE WriteFile(d, n)
    <3>1. (\E code : ReturnAtOnce("write", code)) \/ \E size : Goto(IF size > 0 THEN "alloc" ELSE "entry")
      BY <2>2, Zenon DEF WriteFile
    <3> QED BY <2>0, <3>1 DEF Goto, ReplyInv
  <2>3. CASE CreateDirectory(d, n)
    BY <2>0, <2>3 DEF CreateDirectory, Goto, ReplyInv
  <2>4. CASE DeleteFile(d, n)
    <3>1. \/ \E code : Return("rm", code)
          \/ op' = Call("rm", d, n, NoPayload, 0, 0) /\ Goto("root")
      BY <2>4 DEF DeleteFile, ReturnAtOnce
    <3> QED BY <1>0, <3>1 DEF Goto, Call, ReplyInv
  <2> QED BY <1>3, <2>1, <2>2, <2>3, <2>4
<1>4. CASE \/ Mount \/ MountFails \/ Restart \/ Shutdown
           \/ \E k \in {"write", "mkdir", "rm", "read"} : Refused(k)
  BY <1>0, <1>4 DEF Mount, MountFails, Restart, Shutdown, Refused, Goto, Call, ReplyInv
<1> QED BY <1>1, <1>2, <1>3, <1>4 DEF Next

-----------------------------------------------------------------------------
(* What the trees of the volumes of Fat12 hold *)

LEMMA EntriesTyped == ASSUME TypeOK PROVE Typed(Mounted) /\ Typed(OnDisk)
<1>1. ASSUME NEW v, \A d \in Clusters \cup {0} : \A s \in SlotsOf(v, d) : At(v, s) \in Entries
      PROVE  Typed(v)
  <2>1. \A s \in InUse(v) : \E d \in Clusters \cup {0} : s \in SlotsOf(v, d)
    BY DirectoryType DEF InUse, Visible
  <2> QED BY <1>1, <2>1 DEF Typed
<1>2. Typed(Mounted)
  BY <1>1, SlotType
<1>3. ASSUME NEW d \in Clusters \cup {0}, NEW s \in SlotsOf(OnDisk, d)
      PROVE  At(OnDisk, s) \in Entries
  <2>1. CASE d = 0
    <3>1. s[1] = 0 /\ s[2] \in RootIndex
      BY <2>1 DEF SlotsOf
    <3> QED BY <3>1, OnDiskParts DEF At, TypeOK
  <2>2. CASE d # 0
    <3>1. s[1] \in Clusters /\ s[2] \in Slots
      BY <2>2 DEF SlotsOf
    <3>2. disk_data[s[1]].slot[s[2]] \in Entries
      BY <3>1 DEF TypeOK, Blocks
    <3> QED BY <3>1, <3>2, OnDiskParts, ClusterFacts DEF At
  <2> QED BY <2>1, <2>2
<1>4. Typed(OnDisk)
  BY <1>1, <1>3
<1> QED BY <1>2, <1>4

\* Every node has its place in a directory of the tree, and no two the same.
LEMMA TreeShape ==
    ASSUME NEW v, IsVolume(v), NEW B, Sound(v, B), Typed(v)
    PROVE  /\ \A n \in Tree(v) : \E d \in Directories(v) : \E s \in Named(v, d) :
                 n = NodeOf(v, d, s) /\ n.at = <<d, At(v, s).name>> /\ n.dir = At(v, s).dir
           /\ \A d \in Directories(v) : \A s \in Named(v, d) :
                 NodeOf(v, d, s) \in Tree(v) /\ NodeOf(v, d, s).at = <<d, At(v, s).name>>
           /\ \A n, m \in Tree(v) : n.at = m.at => n = m
           /\ \A d \in Directories(v) : d # 0 => \E n \in Tree(v) : n.dir /\ n.id = d
           /\ \A n \in Tree(v) : n.dir /\ n.id \in Clusters => n.id \in Held(v)
<1>0. AllClean(v)
  BY SoundMeaning
<1>1. \A n : n \in Tree(v) <=> \E d \in Directories(v) : \E s \in Named(v, d) : n = NodeOf(v, d, s)
  BY <1>0, TreeMembers
<1>2. ASSUME NEW d \in Directories(v), NEW s \in Named(v, d)
      PROVE  /\ s \in InUse(v)
             /\ NodeOf(v, d, s).at = <<d, At(v, s).name>>
             /\ NodeOf(v, d, s).dir = At(v, s).dir
             /\ At(v, s).dir => NodeOf(v, d, s).id = At(v, s).first
  <2>1. s \in InUse(v) /\ At(v, s).dir \in BOOLEAN
    BY NamedInUse, NodeIsTyped DEF Typed
  <2> QED BY <2>1, NodeParts DEF NodeOf
<1>3. \A n, m \in Tree(v) : n.at = m.at => n = m
  <2> SUFFICES ASSUME NEW n \in Tree(v), NEW m \in Tree(v), n.at = m.at PROVE n = m
    OBVIOUS
  <2>1. PICK d \in Directories(v) : \E s \in Named(v, d) : n = NodeOf(v, d, s)
    BY <1>1
  <2>2. PICK s \in Named(v, d) : n = NodeOf(v, d, s)
    BY <2>1
  <2>3. PICK e \in Directories(v) : \E t \in Named(v, e) : m = NodeOf(v, e, t)
    BY <1>1
  <2>4. PICK t \in Named(v, e) : m = NodeOf(v, e, t)
    BY <2>3
  <2>5. d = e /\ At(v, s).name = At(v, t).name
    BY <1>2, <2>2, <2>4
  <2>6. s = t
    BY <1>0, <2>5, ScanMeaning DEF AllClean, Clean, Named
  <2> QED BY <2>2, <2>4, <2>5, <2>6
<1>4. ASSUME NEW d \in Directories(v), d # 0
      PROVE  \E n \in Tree(v) : n.dir /\ n.id = d
  <2>1. PICK s \in InUse(v) : At(v, s).dir /\ At(v, s).first = d
    BY <1>4, DirectoryHeld
  <2>2. PICK c \in Directories(v) : s \in Visible(v, c) /\ At(v, s).name \in Names
    BY DEF InUse
  <2>3. s \in Named(v, c)
    BY <2>2 DEF Named
  <2>4. NodeOf(v, c, s) \in Tree(v) /\ NodeOf(v, c, s).dir /\ NodeOf(v, c, s).id = d
    BY <1>1, <1>2, <2>1, <2>3
  <2> QED BY <2>4, Zenon
<1>5. ASSUME NEW n \in Tree(v), n.dir, n.id \in Clusters
      PROVE  n.id \in Held(v)
  <2>1. PICK d \in Directories(v) : \E s \in Named(v, d) : n = NodeOf(v, d, s)
    BY <1>1
  <2>2. PICK s \in Named(v, d) : n = NodeOf(v, d, s)
    BY <2>1
  <2>3. s \in InUse(v) /\ n.id = At(v, s).first
    BY <1>2, <1>5, <2>2
  <2>4. n.id \in Holds(v, s)
    BY <1>5, <2>3, ChainsOfSlots, ChainClosed
  <2> QED BY <2>3, <2>4 DEF Held
<1>6. \A n \in Tree(v) : \E d \in Directories(v) : \E s \in Named(v, d) :
         n = NodeOf(v, d, s) /\ n.at = <<d, At(v, s).name>> /\ n.dir = At(v, s).dir
  <2> SUFFICES ASSUME NEW n \in Tree(v)
               PROVE  \E d \in Directories(v) : \E s \in Named(v, d) :
                         n = NodeOf(v, d, s) /\ n.at = <<d, At(v, s).name>> /\ n.dir = At(v, s).dir
    OBVIOUS
  <2>1. PICK d \in Directories(v) : \E s \in Named(v, d) : n = NodeOf(v, d, s)
    BY <1>1
  <2>2. PICK s \in Named(v, d) : n = NodeOf(v, d, s)
    BY <2>1
  <2>3. n.at = <<d, At(v, s).name>> /\ n.dir = At(v, s).dir
    BY <1>2, <2>2
  <2> QED BY <2>2, <2>3
<1>7. \A d \in Directories(v) : \A s \in Named(v, d) :
         NodeOf(v, d, s) \in Tree(v) /\ NodeOf(v, d, s).at = <<d, At(v, s).name>>
  BY <1>1, <1>2
<1> QED BY <1>3, <1>4, <1>5, <1>6, <1>7

LEMMA Times ==
    ASSUME NEW a \in Nat, NEW b \in Nat, NEW c \in Nat, a <= b
    PROVE  a * c <= b * c
<1>1. PICK k \in Nat : b = a + k
  <2>1. b - a \in Nat /\ b = a + (b - a)
    OBVIOUS
  <2> QED BY <2>1
<1>2. b * c = a * c + k * c
  BY <1>1
<1>3. k * c \in Nat
  OBVIOUS
<1>4. a * c \in Nat
  OBVIOUS
<1> QED BY <1>2, <1>3, <1>4

\* What a write puts in the tree reads back as it was written.
LEMMA WrittenReadsBack ==
    ASSUME VolumeInv, DurableInv', ContentInv, PutEntry, op.kind = "write"
    PROVE  /\ op.pay \in Payloads /\ op.size \in Sizes
           /\ ReadBack(Mounted', NewEntry) = IF op.size = 0 THEN "none" ELSE op.pay
<1> DEFINE w == Mounted'
           e == NewEntry
           K == Building
<1>1. pc = "entry" /\ g_fs_ready
  BY DEF PutEntry, VolumeInv
<1>2. /\ TypeOK /\ K = Chain(g_fat_primary, op.first)
      /\ K \cap Held(Mounted) = {} /\ K \subseteq Clusters
  BY <1>1, ServedVolume
<1>3. e.first = op.first /\ e.size = op.size
  BY DEF NewEntry, Entry
<1>4. /\ op.pay \in Payloads /\ op.size \in Sizes
      /\ Cardinality(K) * ClusterSize >= op.size /\ Cardinality(K) * ClusterSize < op.size + ClusterSize
      /\ \A c \in K : disk_data[c] = FilePiece(op.pay, Offset(c))
  BY <1>1 DEF ContentInv
<1>5. /\ op.size \in Nat /\ ClusterSize \in Nat \ {0} /\ Cardinality(K) \in Nat
      /\ K = {} => Cardinality(K) = 0
  <2>1. op.size \in Nat /\ ClusterSize \in Nat \ {0}
    <3>1. op.size \in Nat
      BY <1>2 DEF TypeOK, Calls
    <3> QED BY <3>1, GeometryAssumption
  <2>2. Cardinality(K) \in Nat
    BY <1>2, FiniteChain
  <2>3. Cardinality({}) = 0
    BY FS_EmptySet
  <2> QED BY <2>1, <2>2, <2>3
<1>6. \A c \in K : (Mounted').data[c] = disk_data[c] /\ (Mounted').fat[c] = g_fat_primary[c]
  <2>1. /\ \E s : /\ \A x \in Clusters : x # s[1] => disk_data'[x] = disk_data[x]
                  /\ s[1] = 0 \/ s[1] \in Held(Mounted)
        /\ \A x \in Building : g_fat_primary'[x] = g_fat_primary[x]
    BY PutEntryVolume, Zenon
  <2> HIDE DEF K
  <2>2. \A c \in K : disk_data'[c] = disk_data[c]
    <3>1. PICK s : /\ \A x \in Clusters : x # s[1] => disk_data'[x] = disk_data[x]
                   /\ s[1] = 0 \/ s[1] \in Held(Mounted)
      BY <2>1
    <3>2. \A c \in K : c \in Clusters /\ c # s[1]
      BY <1>2, <3>1, ClusterFacts
    <3> QED BY <3>1, <3>2
  <2>3. \A c \in K : g_fat_primary'[c] = g_fat_primary[c]
    BY <2>1 DEF K
  <2> QED BY <2>2, <2>3, MountedParts
<1>7. IsVolume(w)
  BY MountedParts
<1>8. /\ Chain(w.fat, e.first) = K
      /\ \A c \in K : Position(w, e.first, c) = Position(Mounted, op.first, c)
  BY <1>2, <1>3, <1>6, MountedParts, PositionsSame
<1>9. \A c \in K : /\ w.data[c].pay = op.pay
                    /\ w.data[c].off = Position(w, e.first, c) * ClusterSize
  <2>1. \A p, off : FilePiece(p, off).pay = p /\ FilePiece(p, off).off = off
    BY DEF FilePiece, Block
  <2> QED BY <1>4, <1>6, <1>8, <2>1 DEF Offset
<1>10. ASSUME NEW c \in K PROVE Position(w, e.first, c) * ClusterSize < e.size
  <2>1. /\ Position(w, e.first, c) \in Nat
        /\ Position(w, e.first, c) + 1 <= Cardinality(K)
    BY <1>2, <1>8, MountedParts, PositionBound
  <2>2. (Position(w, e.first, c) + 1) * ClusterSize <= Cardinality(K) * ClusterSize
    BY <1>5, <2>1, Times
  <2>3. (Position(w, e.first, c) + 1) * ClusterSize = Position(w, e.first, c) * ClusterSize + ClusterSize
    BY <1>5, <2>1
  <2>4. Position(w, e.first, c) * ClusterSize \in Nat /\ Cardinality(K) * ClusterSize \in Nat
    BY <1>5, <2>1
  <2> QED BY <1>3, <1>4, <1>5, <2>2, <2>3, <2>4
<1> HIDE DEF w, e, K
<1>11. Copied(w, e) = K
  BY <1>8, <1>10 DEF Copied
<1>12. op.size # 0 => Whole(w, e) = {op.pay}
  <2>1. op.size # 0 => K # {}
    BY <1>4, <1>5
  <2> QED BY <1>4, <1>9, <1>11, <2>1 DEF Whole
<1>13. ReadBack(w, e) = IF op.size = 0 THEN "none" ELSE op.pay
  <2>1. ReadBack(w, e) =
            IF e.size = 0 THEN "none"
            ELSE IF Cardinality(Copied(w, e)) * ClusterSize >= e.size /\ Whole(w, e) # {}
                 THEN CHOOSE p \in Whole(w, e) : TRUE
                 ELSE Garbled
    BY <1>7, ReadBackMeaning, Zenon
  <2>2. CASE op.size = 0
    BY <1>3, <2>1, <2>2
  <2>3. CASE op.size # 0
    <3>1. Whole(w, e) = {op.pay} /\ Cardinality(Copied(w, e)) * ClusterSize >= e.size /\ e.size # 0
      BY <1>3, <1>4, <1>11, <1>12, <2>3
    <3>2. (CHOOSE p \in {op.pay} : TRUE) = op.pay
      OBVIOUS
    <3>3. Whole(w, e) # {}
      BY <3>1
    <3> QED BY <2>1, <2>3, <3>1, <3>2, <3>3
  <2> QED BY <2>2, <2>3
<1> QED BY <1>4, <1>13 DEF w, e

-----------------------------------------------------------------------------
(* Every step is a step of FileStore, or none *)

TreeNow == Tree(IF g_fs_ready THEN Mounted ELSE OnDisk)
\* What a call answers that changed nothing.
NoChangeReply ==
    \/ res' = Pending
    \/ \E c \in Changing, r \in Codes \ {"OK"} : res' = Returned(c, r)
    \/ \E c \in {"mount", "read", "flush"}, r \in Codes : res' = Returned(c, r)
\* Nothing is found on the disk that the caller does not know of.
RestartsAlike == Restart => pc \notin {"root", "fats"} /\ Tree(OnDisk) = TreeNow

LEMMA IdleMaps ==
    ASSUME Applied = "none", Applied' = "none", TreeNow' = TreeNow, NoChangeReply
    PROVE  Store!Next
  BY DEF Store!Next, Store!Idle, Store!NoCall, Store!Pending, Store!Changing, Store!Looking,
         TreeNow, NoChangeReply, Returned, Pending, Changing

LEMMA NotApplied ==
    /\ pc \notin {"root", "fats"} \/ op.kind = "flush" => Applied = "none"
    /\ pc' \notin {"root", "fats"} \/ op'.kind = "flush" => Applied' = "none"
    /\ pc \in {"root", "fats"} /\ op.kind # "flush" => Applied = op.kind
    /\ pc' \in {"root", "fats"} /\ op'.kind # "flush" => Applied' = op'.kind
  BY DEF Applied

LEMMA TreeStays ==
    ASSUME UNCHANGED <<g_fs_ready, g_fat_primary, g_root_dir, disk_data>>,
           ~g_fs_ready => UNCHANGED <<disk_fat, disk_root>>
    PROVE  TreeNow' = TreeNow
<1>1. Mounted' = Mounted
  BY DEF Mounted
<1>2. ~g_fs_ready => OnDisk' = OnDisk
  BY DEF OnDisk
<1> QED BY <1>1, <1>2 DEF TreeNow

LEMMA ReturnsMap ==
    ASSUME pc \notin {"root", "fats"}, NEW k, NEW code, Return(k, code),
           \/ k \in Changing /\ code \in Codes \ {"OK"}
           \/ k \in {"mount", "read", "flush"} /\ code \in Codes,
           TreeNow' = TreeNow
    PROVE  Store!Next
<1>1. Applied = "none" /\ Applied' = "none"
  BY NotApplied DEF Return
<1>2. NoChangeReply
  BY DEF Return, NoChangeReply
<1> QED BY <1>1, <1>2, IdleMaps

LEMMA GoesOnMaps ==
    ASSUME pc \notin {"root", "fats"}, pc' \notin {"root", "fats"} \/ op'.kind = "flush", res' = Pending,
           TreeNow' = TreeNow
    PROVE  Store!Next
<1>1. Applied = "none" /\ Applied' = "none"
  BY NotApplied
<1>2. NoChangeReply
  BY DEF NoChangeReply
<1> QED BY <1>1, <1>2, IdleMaps

LEMMA MachineMaps ==
    ASSUME VolumeInv, RestartsAlike,
           \/ Mount \/ MountFails \/ Restart \/ Shutdown \/ TakeResult
           \/ \E k \in {"write", "mkdir", "rm", "read"} : Refused(k)
    PROVE  Store!Next
<1>1. CASE Mount
  <2>1. ~g_fs_ready /\ g_fs_ready' /\ Mounted' = OnDisk
    BY <1>1 DEF Mount, Mounted, OnDisk, image, VolumeInv
  <2>2. TreeNow' = TreeNow
    BY <2>1 DEF TreeNow
  <2> QED BY <1>1, <2>2, ReturnsMap DEF Mount, Codes
<1>2. CASE MountFails
  <2>1. TreeNow' = TreeNow
    BY <1>2, TreeStays DEF MountFails, cache, image
  <2> QED BY <1>2, <2>1, ReturnsMap DEF MountFails, Codes
<1>3. CASE Restart
  <2>1. ~g_fs_ready' /\ OnDisk' = OnDisk /\ pc' = "off" /\ res' = Pending
    BY <1>3 DEF Restart, OnDisk, image
  <2>2. TreeNow' = TreeNow /\ pc \notin {"root", "fats"}
    BY <1>3, <2>1 DEF RestartsAlike, TreeNow
  <2> QED BY <2>1, <2>2, GoesOnMaps
<1>4. CASE Shutdown
  <2>1. TreeNow' = TreeNow
    BY <1>4, TreeStays DEF Shutdown, cache, image
  <2> QED BY <1>4, <2>1, GoesOnMaps DEF Shutdown, Goto, Call
<1>5. CASE TakeResult
  <2>1. TreeNow' = TreeNow
    BY <1>5, TreeStays DEF TakeResult, cache, image
  <2> QED BY <1>5, <2>1, GoesOnMaps DEF TakeResult, Goto
<1>6. ASSUME NEW k \in {"write", "mkdir", "rm", "read"}, Refused(k)
      PROVE  Store!Next
  <2>1. TreeNow' = TreeNow
    BY <1>6, TreeStays DEF Refused, cache, image
  <2> QED BY <1>6, <2>1, ReturnsMap DEF Refused, Codes, Changing
<1> QED BY <1>1, <1>2, <1>3, <1>4, <1>5, <1>6

\* A step that builds, or gives up, leaves the tree alone.
LEMMA BuildingTree ==
    ASSUME "dir" \notin MayFail, VolumeInv, DurableInv',
           \/ Allocate \/ AllocateFails \/ Fill \/ FillFails
           \/ ExtendDirectory \/ PutEntryFails
    PROVE  pc \in {"alloc", "fill", "entry"} /\ g_fs_ready /\ Tree(Mounted') = Tree(Mounted) /\ KeepsHeld
<1>1. pc \in {"alloc", "fill", "entry"} /\ g_fs_ready
  BY DEF Allocate, AllocateFails, Fill, FillFails, ExtendDirectory, PutEntryFails, VolumeInv
<1>2. IsVolume(Mounted) /\ IsVolume(Mounted') /\ Sound(Mounted, Building) /\ Typed(Mounted)
  BY <1>1, ServedVolume, MountedParts, EntriesTyped
<1>3. CASE ExtendDirectory
  <2>1. KeepsHeld /\ \E prev, c : Lengthened(Mounted, Mounted', op.dir, prev, c)
    BY <1>3, ExtendVolume
  <2> QED BY <1>1, <1>2, <2>1, TreeLengthened
<1>4. CASE Allocate \/ AllocateFails \/ Fill \/ FillFails \/ PutEntryFails
  <2>1. KeepsHeld /\ Unchanged(Mounted, Mounted')
    BY <1>4, AllocateVolume, FillVolume, FailingVolume
  <2> QED BY <1>1, <1>2, <2>1, TreeKept
<1> QED BY <1>3, <1>4

LEMMA BuildingMaps ==
    ASSUME "dir" \notin MayFail, VolumeInv, DurableInv', ReplyInv,
           \/ Allocate \/ AllocateFails \/ Fill \/ FillFails
           \/ ExtendDirectory \/ PutEntryFails
    PROVE  Store!Next
<1>1. pc \in {"alloc", "fill", "entry"} /\ g_fs_ready
  BY BuildingTree
<1>2. CallInv
  BY <1>1, ServedVolume
<1>3. Tree(Mounted') = Tree(Mounted)
  BY BuildingTree
<1>4. ASSUME g_fs_ready' PROVE TreeNow' = TreeNow
  BY <1>1, <1>3, <1>4 DEF TreeNow
<1>5. CASE Allocate \/ Fill \/ ExtendDirectory
  <2>1. g_fs_ready' /\ pc' \notin {"root", "fats"} /\ res' = Pending
    BY <1>1, <1>5 DEF Allocate, Fill, ExtendDirectory, Goto, control, ReplyInv
  <2> QED BY <1>1, <1>4, <2>1, GoesOnMaps
<1>6. CASE AllocateFails \/ FillFails \/ PutEntryFails
  <2>1. \E code \in {"NO_FREE_CLUSTER", "IO", "DIR_FULL"} : \E touched : Abandon(code, touched)
    BY <1>6, Zenon DEF AllocateFails, FillFails, PutEntryFails, NoCluster
  <2>2. PICK code \in {"NO_FREE_CLUSTER", "IO", "DIR_FULL"} : \E touched : Abandon(code, touched)
    BY <2>1, Zenon
  <2>3. g_fs_ready' /\ Return(op.kind, code)
    BY <1>1, <2>2 DEF Abandon
  <2>4. op.kind \in Changing /\ code \in Codes \ {"OK"}
    BY <1>1, <1>2 DEF CallInv, Changing, Codes
  <2> QED BY <1>1, <1>4, <2>3, <2>4, ReturnsMap
<1> QED BY <1>5, <1>6

\* A flush changes nothing a caller sees; at its end the call returns.
LEMMA FlushMaps ==
    ASSUME VolumeInv, ReplyInv, FlushRoot \/ FlushRootFails \/ FlushFats \/ FlushFatsFails
    PROVE  Store!Next \/ UNCHANGED Store!vars
<1>1. pc \in {"root", "fats"} /\ g_fs_ready
  BY DEF FlushRoot, FlushRootFails, FlushFats, FlushFatsFails, VolumeInv
<1>2. res = Pending /\ op.kind \in {"write", "mkdir", "rm", "flush"}
  BY <1>1 DEF ReplyInv
<1>3. TreeNow' = TreeNow
  BY <1>1, TreeStays DEF FlushRoot, FlushRootFails, FlushFats, FlushFatsFails, cache
<1>4. ASSUME res' = Pending, UNCHANGED op, op.kind = "flush" \/ pc' \in {"root", "fats"}
      PROVE  UNCHANGED Store!vars
  <2>1. Applied' = Applied
    BY <1>1, <1>4, NotApplied
  <2> QED BY <1>2, <1>3, <1>4, <2>1 DEF Store!vars, TreeNow
<1>5. CASE FlushRoot \/ FlushRootFails
  <2>1. res' = Pending /\ UNCHANGED op /\ (op.kind = "flush" \/ pc' \in {"root", "fats"})
    BY <1>2, <1>5 DEF FlushRoot, FlushRootFails, Goto
  <2> QED BY <1>4, <2>1
<1>6. CASE FlushFats \/ FlushFatsFails
  <2>1. (res' = Pending /\ UNCHANGED op /\ pc' = "fats") \/ Leave
    BY <1>2, <1>6 DEF FlushFats, FlushFatsFails
  <2>2. CASE res' = Pending /\ UNCHANGED op /\ pc' = "fats"
    BY <1>4, <2>2
  <2>3. CASE Leave /\ op.kind = "flush"
    BY <1>4, <2>3 DEF Leave, Goto
  <2>4. CASE Leave /\ op.kind # "flush"
    <3>1. Return(op.kind, "OK")
      BY <2>4 DEF Leave
    <3>2. Applied = op.kind /\ Applied' = "none" /\ op.kind # "none" /\ res' = Returned(op.kind, "OK")
      BY <1>1, <1>2, <2>4, <3>1, NotApplied DEF Return
    <3>3. Store!Done
      BY <1>3, <3>2 DEF Store!Done, Store!NoCall, TreeNow, Returned
    <3> QED BY <3>3 DEF Store!Next
  <2> QED BY <2>1, <2>2, <2>3, <2>4
<1> QED BY <1>5, <1>6

\* A directory that a path can lead to is one of the tree's.
LEMMA PlaceExists ==
    ASSUME NEW v, IsVolume(v), NEW B, Sound(v, B), Typed(v), NEW d \in Directories(v), NEW n \in Names
    PROVE  <<d, n>> \in ({m.id : m \in {k \in Tree(v) : k.dir}} \cup {0}) \X Names
<1>1. CASE d = 0
  BY <1>1
<1>2. CASE d # 0
  <2>1. PICK m \in Tree(v) : m.dir /\ m.id = d
    BY <1>2, TreeShape
  <2> QED BY <2>1
<1> QED BY <1>1, <1>2

\* The entry is written: its node takes the place of a file's, or a new one.
LEMMA PutEntryTree ==
    ASSUME VolumeInv, DurableInv', PutEntry
    PROVE  LET k == <<op.dir, op.name>> IN
           /\ Tree(Mounted') = {n \in Tree(Mounted) : n.at # k} \cup {Node(Mounted', k, NewEntry)}
           /\ \A n \in Tree(Mounted) : n.at = k => ~n.dir /\ op.kind # "mkdir"
<1> DEFINE v == Mounted
           w == Mounted'
           k == <<op.dir, op.name>>
<1>1. /\ pc = "entry" /\ g_fs_ready /\ g_fs_ready' /\ pc' = "root" /\ UNCHANGED op /\ res' = Pending
  BY DEF PutEntry, Goto, VolumeInv
<1>2. /\ IsVolume(v) /\ IsVolume(w) /\ Sound(v, Building) /\ Typed(v)
      /\ TypeOK /\ CallInv /\ TypeOK'
      /\ Building \cap Held(v) = {} /\ Building = Chain(g_fat_primary, op.first)
  BY <1>1, ServedVolume, MountedParts, EntriesTyped DEF DurableInv
<1>3. PICK s : /\ EntryWritten(v, w, op.dir, s)
               /\ At(w, s) = NewEntry
               /\ \A x \in Clusters : x # s[1] => disk_data'[x] = disk_data[x]
               /\ At(v, s).name = op.name \/ IsFree(At(v, s))
  BY PutEntryVolume
<1>4. /\ op.name \in Names /\ op.dir \in Directories(v) /\ op.kind \in {"write", "mkdir"}
      /\ op.name \notin {END, DELETED}
  BY <1>1, <1>2, NameAssumption DEF CallInv
<1>5. /\ NewEntry \in Entries /\ NewEntry.name = op.name /\ NewEntry.first = op.first
      /\ NewEntry.dir = (op.kind = "mkdir") /\ NewEntry.size = op.size
  <2>1. NewEntry \in Entries
    BY <1>2, NewEntryType
  <2> QED BY <2>1 DEF NewEntry, Entry
<1>6. Tree(w) = {n \in Tree(v) : n.at # <<op.dir, At(v, s).name>>} \cup {Node(w, k, NewEntry)}
  <2>1. \A x \in Clusters : x # s[1] => w.data[x] = v.data[x]
    BY <1>3, MountedParts
  <2> HIDE DEF v, w
  <2>2. Tree(w) = {n \in Tree(v) : n.at # <<op.dir, At(v, s).name>>}
                  \cup (IF op.name \in Names THEN {Node(w, <<op.dir, op.name>>, NewEntry)} ELSE {})
    BY <1>2, <1>3, <1>5, <2>1, TreeWritten
  <2> QED BY <1>4, <2>2
<1>7. \A n \in Tree(v) : n.at = k => At(v, s).name = op.name /\ ~n.dir
  <2> SUFFICES ASSUME NEW n \in Tree(v), n.at = k PROVE At(v, s).name = op.name /\ ~n.dir
    OBVIOUS
  <2> HIDE DEF v, w
  <2>1. PICK d \in Directories(v) : \E t \in Named(v, d) :
                n = NodeOf(v, d, t) /\ n.at = <<d, At(v, t).name>> /\ n.dir = At(v, t).dir
    BY <1>2, TreeShape
  <2>2. PICK t \in Named(v, d) : n = NodeOf(v, d, t) /\ n.at = <<d, At(v, t).name>> /\ n.dir = At(v, t).dir
    BY <2>1
  <2>3. d = op.dir /\ At(v, t).name = op.name
    BY <2>2
  <2>4. t \in SlotsOf(v, op.dir)
    BY <2>3, NamedInUse
  <2>5. ~IsFree(NewEntry)
    BY <1>4, <1>5 DEF IsFree
  <2>6. t = s
    BY <1>3, <1>5, <2>3, <2>4, <2>5 DEF EntryWritten
  <2>7. ~IsSubdirectory(At(v, s))
    BY <1>3 DEF EntryWritten
  <2>8. ~At(v, t).dir
    BY <1>4, <2>3, <2>6, <2>7, Zenon DEF IsSubdirectory
  <2> QED BY <2>2, <2>3, <2>6, <2>8
<1>8. {n \in Tree(v) : n.at # <<op.dir, At(v, s).name>>} = {n \in Tree(v) : n.at # k}
  <2>1. CASE At(v, s).name = op.name
    BY <2>1
  <2>2. CASE At(v, s).name # op.name
    <3>1. At(v, s).name \notin Names
      BY <1>3, <2>2, NameAssumption DEF IsFree
    <3>2. ASSUME NEW n \in Tree(v) PROVE n.at # <<op.dir, At(v, s).name>> /\ n.at # k
      <4>1. n.at # k
        BY <1>7, <2>2
      <4>2. \E d \in Directories(v) : \E t \in Named(v, d) : n.at = <<d, At(v, t).name>>
        BY <1>2, TreeShape
      <4> QED BY <3>1, <4>1, <4>2 DEF Named
    <3> QED BY <3>2
  <2> QED BY <2>1, <2>2
<1>9. ASSUME op.kind = "mkdir", NEW n \in Tree(v), n.at = k PROVE FALSE
  <2>1. PICK d \in Directories(v) : \E t \in Named(v, d) : n.at = <<d, At(v, t).name>>
    BY <1>2, <1>9, TreeShape
  <2>2. PICK t \in Named(v, d) : n.at = <<d, At(v, t).name>>
    BY <2>1
  <2>3. t \in Visible(v, op.dir) /\ At(v, t).name = op.name
    BY <1>9, <2>2 DEF Named
  <2> QED BY <1>1, <1>2, <1>9, <2>3 DEF CallInv
<1>10. Tree(w) = {n \in Tree(v) : n.at # k} \cup {Node(w, k, NewEntry)}
  BY <1>6, <1>8
<1>11. \A n \in Tree(v) : n.at = k => ~n.dir /\ op.kind # "mkdir"
  BY <1>7, <1>9
<1> QED BY <1>10, <1>11, Zenon

\* The file is created or replaced, whole, or the directory appears.
LEMMA PutEntryMaps ==
    ASSUME VolumeInv, DurableInv', ContentInv, ReplyInv, PutEntry
    PROVE  Store!Next
<1> DEFINE v == Mounted
           w == Mounted'
           k == <<op.dir, op.name>>
<1>1. /\ pc = "entry" /\ g_fs_ready /\ g_fs_ready' /\ pc' = "root" /\ UNCHANGED op /\ res' = Pending
  BY DEF PutEntry, Goto, VolumeInv
<1>2. /\ IsVolume(v) /\ Sound(v, Building) /\ Typed(v) /\ TypeOK /\ CallInv
      /\ Building \cap Held(v) = {} /\ Building = Chain(g_fat_primary, op.first)
  BY <1>1, ServedVolume, MountedParts, EntriesTyped
<1>3. /\ op.name \in Names /\ op.dir \in Directories(v) /\ op.kind \in {"write", "mkdir"}
  BY <1>1, <1>2 DEF CallInv
<1>4. /\ NewEntry.first = op.first /\ NewEntry.dir = (op.kind = "mkdir") /\ NewEntry.size = op.size
  BY DEF NewEntry, Entry
<1>5. \A n \in Tree(v) : n.at = k => ~n.dir /\ op.kind # "mkdir"
  BY PutEntryTree
<1>6. Tree(w) = {n \in Tree(v) : n.at # k} \cup {Node(w, k, NewEntry)}
  BY PutEntryTree
<1>7. k \in Store!Places
  <2>1. k \in ({m.id : m \in {n \in Tree(v) : n.dir}} \cup {0}) \X Names
    BY <1>2, <1>3, PlaceExists
  <2> QED BY <1>1, <2>1 DEF Store!Places, Store!Subdirs
<1>8. /\ Applied = "none" /\ Applied' = op.kind
  BY <1>1, <1>3, NotApplied
<1>9. Store!Takes(op.kind)
  BY <1>1, <1>8 DEF Store!Takes, Store!NoCall, Store!Pending, Pending, Returned
<1> DEFINE old == Tree(v)
           new == Tree(w)
<1>10. CASE op.kind = "write"
  <2>1. Node(w, k, NewEntry) =
            [at |-> k, dir |-> FALSE, id |-> 0, pay |-> IF op.size = 0 THEN "none" ELSE op.pay, size |-> op.size]
    <3>1. ~NewEntry.dir
      BY <1>4, <1>10
    <3>2. Node(w, k, NewEntry) =
              [at |-> k, dir |-> FALSE, id |-> 0, pay |-> ReadBack(w, NewEntry), size |-> NewEntry.size]
      BY <3>1, Zenon DEF Node
    <3>3. ReadBack(w, NewEntry) = IF op.size = 0 THEN "none" ELSE op.pay
      BY <1>10, WrittenReadsBack
    <3> QED BY <1>4, <3>2, <3>3, Zenon
  <2>2. op.pay \in Payloads /\ op.size \in Sizes
    BY <1>10, WrittenReadsBack
  <2>3. new = (old \ {n \in old : n.at = k}) \cup {Node(w, k, NewEntry)}
    BY <1>6
  <2>4. \A n \in {m \in old : m.at = k} : ~n.dir
    BY <1>5
  <2> HIDE DEF k, v, w
  <2>5. Store!Write(k)
    <3>1. Node(w, k, NewEntry) = Store!File(k, op.pay, op.size)
      BY <2>1 DEF Store!File, Store!NoCall
    <3>2. op.size \in Sizes \cup {1}
      BY <2>2
    <3>3. (IF g_fs_ready THEN v ELSE OnDisk) = v /\ (IF g_fs_ready' THEN w ELSE OnDisk') = w
      BY <1>1
    <3> QED BY <1>9, <1>10, <2>2, <2>3, <2>4, <3>1, <3>2, <3>3 DEF Store!Write, Store!NodesAt, v, w
  <2> QED BY <1>7, <2>5 DEF Store!Next
<1>11. CASE op.kind = "mkdir"
  <2>1. Node(w, k, NewEntry) = [at |-> k, dir |-> TRUE, id |-> op.first, pay |-> "none", size |-> 0]
    <3>1. NewEntry.dir
      BY <1>4, <1>11
    <3>2. Node(w, k, NewEntry) =
              [at |-> k, dir |-> TRUE, id |-> NewEntry.first, pay |-> "none", size |-> 0]
      BY <3>1, Zenon DEF Node
    <3> QED BY <1>4, <3>2, Zenon
  <2>2. {n \in old : n.at = k} = {}
    BY <1>5, <1>11
  <2>3. op.first \in Clusters /\ op.first \in Building
    <3>1. op.first \in Clusters
      BY <1>1, <1>2, <1>11 DEF CallInv, TypeOK, Calls
    <3> QED BY <1>2, <3>1, ChainClosed
  <2>4. op.first \notin {m.id : m \in {n \in old : n.dir}} \cup {0}
    <3>1. \A m \in old : m.dir /\ m.id \in Clusters => m.id \in Held(v)
      BY <1>2, TreeShape
    <3> QED BY <1>2, <2>3, <3>1, ClusterFacts
  <2>5. new = old \cup {Node(w, k, NewEntry)}
    BY <1>6, <2>2
  <2> HIDE DEF k, v, w
  <2>6. Store!MkDir(k)
    <3>1. Node(w, k, NewEntry) = Store!Directory(k, op.first)
      BY <2>1 DEF Store!Directory, Store!NoCall
    <3>2. op.first \in Clusters \cup {0}
      BY <2>3
    <3>3. (IF g_fs_ready THEN v ELSE OnDisk) = v /\ (IF g_fs_ready' THEN w ELSE OnDisk') = w
      BY <1>1
    <3> QED BY <1>9, <1>11, <2>2, <2>4, <2>5, <3>1, <3>2, <3>3
         DEF Store!MkDir, Store!NodesAt, Store!Subdirs, v, w
  <2> QED BY <1>7, <2>6 DEF Store!Next
<1> QED BY <1>3, <1>10, <1>11

\* The entry is marked: the file disappears.
LEMMA DeleteMaps ==
    ASSUME "dir" \notin MayFail, VolumeInv, DurableInv', NEW d \in Directories(Mounted), NEW n \in Names,
           DeleteFile(d, n), pc' # "returned"
    PROVE  Store!Next
<1> DEFINE v == Mounted
           w == Mounted'
           k == <<d, n>>
           old == Tree(v)
           new == Tree(w)
<1>1. pc = "idle" /\ g_fs_ready
  BY DEF DeleteFile, Ready
<1>2. g_fs_ready' /\ pc' = "root" /\ op'.kind = "rm" /\ res' = Pending
  <2>1. op' = Call("rm", d, n, NoPayload, 0, 0) /\ Goto("root") /\ UNCHANGED g_fs_ready
    BY DEF DeleteFile, ReturnAtOnce, Return, Ready
  <2> QED BY <1>1, <2>1 DEF Goto, Call
<1>3. /\ IsVolume(v) /\ IsVolume(w) /\ Sound(v, Building) /\ Typed(v) /\ TypeOK
  BY <1>1, ServedVolume, MountedParts, EntriesTyped
<1>4. PICK s \in Visible(v, d) :
          /\ At(v, s).name = n /\ ~At(v, s).dir
          /\ EntryWritten(v, w, d, s)
          /\ At(w, s) = MarkDeleted(At(v, s))
          /\ \A x \in Clusters : x # s[1] => disk_data'[x] = disk_data[x]
  BY <1>2, DeleteVolume
<1>5. /\ \A x \in Clusters : x # s[1] => w.data[x] = v.data[x]
      /\ d \in Directories(v)
  BY <1>4, MountedParts
<1> HIDE DEF v, w
<1>6. At(v, s) \in Entries
  <2>1. s \in InUse(v)
    BY <1>4, <1>5 DEF InUse
  <2> QED BY <1>3, <2>1 DEF Typed
<1>7. At(w, s) \in Entries /\ At(w, s).name = DELETED
  <2> DEFINE e == At(v, s)
  <2>1. e \in Entries
    BY <1>6
  <2> HIDE DEF e
  <2>2. MarkDeleted(e) \in Entries /\ MarkDeleted(e).name = DELETED
    BY <2>1 DEF MarkDeleted, Entries
  <2> QED BY <1>4, <2>2 DEF e
<1>8. new = {m \in old : m.at # k}
  <2>1. DELETED \notin Names
    BY NameAssumption
  <2>2. Tree(w) = {m \in Tree(v) : m.at # <<d, At(v, s).name>>}
                  \cup (IF DELETED \in Names THEN {Node(w, <<d, DELETED>>, At(w, s))} ELSE {})
    BY <1>3, <1>4, <1>5, <1>7, TreeWritten
  <2> QED BY <1>4, <2>1, <2>2
<1>9. \E m \in old : m.at = k /\ ~m.dir /\ new = old \ {m}
  <2>1. s \in Named(v, d) /\ d \in Directories(v)
    BY <1>4 DEF Named, v
  <2>2. NodeOf(v, d, s) \in old /\ NodeOf(v, d, s).at = k
    BY <1>3, <1>4, <2>1, TreeShape
  <2>3. NodeOf(v, d, s).dir = FALSE
    BY <1>4, Zenon DEF NodeOf, Node
  <2>4. \A m \in old : m.at = k => m = NodeOf(v, d, s)
    BY <1>3, <2>2, TreeShape
  <2>5. new = old \ {NodeOf(v, d, s)}
    BY <1>8, <2>2, <2>4
  <2> QED BY <2>2, <2>3, <2>5
<1>10. k \in Store!Places
  <2>1. k \in ({m.id : m \in {x \in Tree(v) : x.dir}} \cup {0}) \X Names
    BY <1>3, PlaceExists DEF v
  <2> QED BY <1>1, <2>1 DEF Store!Places, Store!Subdirs, v
<1>11. Applied = "none" /\ Applied' = "rm"
  BY <1>1, <1>2, NotApplied
<1>12. Store!Remove(k)
  <2>1. (IF g_fs_ready THEN v ELSE OnDisk) = v /\ (IF g_fs_ready' THEN w ELSE OnDisk') = w
    BY <1>1, <1>2
  <2>2. \E m \in {x \in old : x.at = k} : ~m.dir /\ new = old \ {m}
    BY <1>9
  <2> QED BY <1>2, <1>11, <2>1, <2>2
      DEF Store!Remove, Store!Takes, Store!NodesAt, Store!NoCall, Store!Pending, Pending, Returned, v, w
<1> QED BY <1>10, <1>12 DEF Store!Next

LEMMA CallsMap ==
    ASSUME "dir" \notin MayFail, VolumeInv, DurableInv', NEW d \in Directories(Mounted), NEW n \in Names,
           ReadFile(d, n) \/ WriteFile(d, n) \/ CreateDirectory(d, n) \/ DeleteFile(d, n)
    PROVE  Store!Next
<1>1. pc = "idle" /\ g_fs_ready
  BY DEF ReadFile, WriteFile, CreateDirectory, DeleteFile, Ready
<1>2. ASSUME NEW k, NEW code, ReturnAtOnce(k, code),
             \/ k \in Changing /\ code \in Codes \ {"OK"}
             \/ k = "read" /\ code \in Codes
      PROVE  Store!Next
  <2>1. TreeNow' = TreeNow
    BY <1>1, <1>2, TreeStays DEF ReturnAtOnce, cache, image
  <2>2. Return(k, code)
    BY <1>2 DEF ReturnAtOnce
  <2> QED BY <1>1, <1>2, <2>1, <2>2, ReturnsMap
<1>3. ASSUME NEW l \in {"alloc", "entry"}, Goto(l), UNCHANGED <<cache, g_fs_ready, image>>
      PROVE  Store!Next
  <2>1. TreeNow' = TreeNow
    BY <1>1, <1>3, TreeStays DEF cache, image
  <2> QED BY <1>1, <1>3, <2>1, GoesOnMaps DEF Goto
<1>4. CASE ReadFile(d, n)
  <2>1. \E code \in Codes : ReturnAtOnce("read", code)
    BY <1>4, Zenon DEF ReadFile, Codes
  <2> QED BY <1>2, <2>1
<1>5. CASE WriteFile(d, n)
  <2>1. \/ ReturnAtOnce("write", "IO") \/ ReturnAtOnce("write", "ALREADY_EXISTS")
        \/ \E size : Goto(IF size > 0 THEN "alloc" ELSE "entry") /\ UNCHANGED <<cache, g_fs_ready, image>>
    BY <1>5, Zenon DEF WriteFile
  <2>2. "write" \in Changing /\ {"IO", "ALREADY_EXISTS"} \subseteq Codes \ {"OK"}
    BY DEF Changing, Codes
  <2> QED BY <1>2, <1>3, <2>1, <2>2
<1>6. CASE CreateDirectory(d, n)
  <2>1. \/ ReturnAtOnce("mkdir", "ALREADY_EXISTS")
        \/ Goto("alloc") /\ UNCHANGED <<cache, g_fs_ready, image>>
    BY <1>6 DEF CreateDirectory
  <2>2. "mkdir" \in Changing /\ "ALREADY_EXISTS" \in Codes \ {"OK"}
    BY DEF Changing, Codes
  <2> QED BY <1>2, <1>3, <2>1, <2>2
<1>7. CASE DeleteFile(d, n)
  <2>1. CASE pc' # "returned"
    BY <1>7, <2>1, DeleteMaps
  <2>2. CASE pc' = "returned"
    <3>1. \E code \in {"IO", "NOT_FOUND", "NOT_FILE"} : ReturnAtOnce("rm", code)
      BY <1>7, <2>2 DEF DeleteFile, WriteEntryFails, Goto
    <3>2. "rm" \in Changing /\ {"IO", "NOT_FOUND", "NOT_FILE"} \subseteq Codes \ {"OK"}
      BY DEF Changing, Codes
    <3> QED BY <1>2, <3>1, <3>2
  <2> QED BY <2>1, <2>2
<1> QED BY <1>4, <1>5, <1>6, <1>7

LEMMA NextMaps ==
    ASSUME "dir" \notin MayFail, VolumeInv, ContentInv, ReplyInv, RestartsAlike, [Next]_vars
    PROVE  [Store!Next]_(Store!vars)
<1>0. DurableInv'
  BY NextDurable DEF VolumeInv
<1>1. CASE UNCHANGED vars
  BY <1>1, TreeStays DEF vars, cache, image, control, Store!vars, Applied, TreeNow
<1>2. CASE Step
  BY <1>0, <1>2, BuildingMaps, PutEntryMaps, FlushMaps, MachineMaps DEF Step
<1>3. ASSUME NEW d \in Directories(Mounted), NEW n \in Names,
             ReadFile(d, n) \/ WriteFile(d, n) \/ CreateDirectory(d, n) \/ DeleteFile(d, n)
      PROVE  Store!Next
  BY <1>0, <1>3, CallsMap
<1> QED BY <1>1, <1>2, <1>3, MachineMaps DEF Next

\* The image builder's disk is a directory with a file.
LEMMA InitMaps == Init => Store!Init
<1> SUFFICES ASSUME Init PROVE Store!Init
  OBVIOUS
<1> DEFINE v == Volume(SeedFat, SeedRoot, SeedData)
           docs == Entry(SeedDir, TRUE, 2, 0)
           file == Entry(SeedFile, FALSE, 3, 1)
<1>1. OnDisk = v /\ g_fs_ready = FALSE /\ pc = "off" /\ res = Pending
  BY ClusterFacts DEF Init, OnDisk
<1>2. v.fat = SeedFat /\ v.root = SeedRoot /\ v.data = SeedData /\ IsVolume(v)
  BY VolumeParts
<1>3. /\ Sound(v, {})
      /\ Directories(v) = {0, 2} /\ InUse(v) = {<<0, 0>>, <<2, 2>>}
      /\ At(v, <<0, 0>>) = docs /\ At(v, <<2, 2>>) = file
      /\ \A c \in Clusters : Chain(v.fat, c) = {c}
  BY SeedVolume
<1> HIDE DEF v
<1>4. /\ docs.name = SeedDir /\ docs.dir = TRUE /\ docs.first = 2
      /\ file.name = SeedFile /\ file.dir = FALSE /\ file.first = 3 /\ file.size = 1
  BY DEF Entry
<1>5. {SeedDir, SeedFile} \subseteq Names /\ SeedPayload \in Payloads
  BY CallerAssumption
<1> HIDE DEF docs, file
<1>6. SlotsOf(v, 0) = {0} \X RootIndex /\ SlotsOf(v, 2) = {2} \X Slots
  BY <1>2, <1>3, ChainsOfSlots, ClusterFacts
<1>7. Named(v, 0) = {<<0, 0>>} /\ Named(v, 2) = {<<2, 2>>}
  <2>1. \A d \in {0, 2} : \A s \in Named(v, d) : s \in InUse(v) /\ s \in SlotsOf(v, d)
    BY <1>3, NamedInUse
  <2>2. \A s \in InUse(v) : \E d \in {0, 2} : s \in Named(v, d)
    BY <1>3 DEF InUse, Named
  <2>3. <<0, 0>> \notin SlotsOf(v, 2) /\ <<2, 2>> \notin SlotsOf(v, 0)
    BY <1>6
  <2> QED BY <1>3, <2>1, <2>2, <2>3
<1>8. AllClean(v)
  BY <1>2, <1>3, SoundMeaning
<1>9. \A n : n \in Tree(v) <=> n = NodeOf(v, 0, <<0, 0>>) \/ n = NodeOf(v, 2, <<2, 2>>)
  BY <1>2, <1>3, <1>7, <1>8, TreeMembers
<1>10. NodeOf(v, 0, <<0, 0>>) = Store!Directory(<<0, SeedDir>>, 2)
  BY <1>3, <1>4 DEF NodeOf, Node, Store!Directory, Store!NoCall
<1>11. ReadBack(v, file) = SeedPayload
  <2>1. Chain(v.fat, 3) = {3} /\ v.data[3] = FilePiece(SeedPayload, 0)
    BY <1>2, <1>3, ClusterFacts DEF SeedData
  <2>2. Position(v, 3, 3) = 0
    <3>1. {x \in Chain(v.fat, 3) \ {3} : 3 \in Chain(v.fat, x)} = {}
      BY <2>1
    <3> QED BY <1>2, <3>1, PositionMeaning, FS_EmptySet
  <2>3. ClusterSize \in Nat \ {0}
    BY GeometryAssumption
  <2>4. Copied(v, file) = {3}
    BY <1>4, <2>1, <2>2, <2>3 DEF Copied
  <2>5. Whole(v, file) = {SeedPayload}
    BY <1>4, <1>5, <2>1, <2>2, <2>3, <2>4 DEF Whole, FilePiece, Block
  <2>6. Cardinality(Copied(v, file)) * ClusterSize >= file.size
    <3>1. Cardinality({3}) = 1
      BY FS_Singleton
    <3> QED BY <1>4, <2>3, <2>4, <3>1
  <2>7. ReadBack(v, file) =
            IF file.size = 0 THEN "none"
            ELSE IF Cardinality(Copied(v, file)) * ClusterSize >= file.size /\ Whole(v, file) # {}
                 THEN CHOOSE p \in Whole(v, file) : TRUE
                 ELSE Garbled
    BY <1>2, ReadBackMeaning, Zenon
  <2>8. (CHOOSE p \in {SeedPayload} : TRUE) = SeedPayload
    OBVIOUS
  <2>9. file.size # 0 /\ Whole(v, file) # {}
    BY <1>4, <2>5
  <2> QED BY <2>5, <2>6, <2>7, <2>8, <2>9
<1>12. NodeOf(v, 2, <<2, 2>>) = Store!File(<<2, SeedFile>>, SeedPayload, 1)
  BY <1>3, <1>4, <1>11 DEF NodeOf, Node, Store!File
<1>13. Tree(v) = {Store!Directory(<<0, SeedDir>>, 2), Store!File(<<2, SeedFile>>, SeedPayload, 1)}
  BY <1>9, <1>10, <1>12
<1>14. Applied = "none"
  BY <1>1, NotApplied
<1>15. \E k \in {0} \X Names, d \in (Clusters \cup {0}) \ {0}, n \in Names, p \in Payloads, s \in Sizes \cup {1} :
          Tree(v) = {Store!Directory(k, d), Store!File(<<d, n>>, p, s)}
  BY <1>5, <1>13, ClusterFacts
<1> QED BY <1>1, <1>14, <1>15 DEF Store!Init, Store!NoCall, Store!Pending, Pending, Returned

-----------------------------------------------------------------------------
(* The rest of the tree, while one entry is changed *)

\* The tree of a volume depends on its FAT by the chains alone.
LEMMA TreeByChains ==
    ASSUME NEW v, NEW w, w.reach = v.reach, w.root = v.root, w.data = v.data
    PROVE  Tree(w) = Tree(v)
<1>1. \A d : SlotsOf(w, d) = SlotsOf(v, d)
  BY DEF SlotsOf
<1>2. \A s : At(w, s) = At(v, s)
  BY DEF At
<1>3. \A s, t : Before(w, s, t) <=> Before(v, s, t)
  BY DEF Before
<1>4. \A d : Visible(w, d) = Visible(v, d)
  BY <1>1, <1>2, <1>3 DEF Visible
<1>5. \A d, n : FindEntry(w, d, n) = FindEntry(v, d, n)
  BY <1>2, <1>3, <1>4 DEF FindEntry, First
<1>6. \A d : Subdirectories(w, d) = Subdirectories(v, d)
  BY <1>2, <1>4 DEF Subdirectories
<1>7. Directories(w) = Directories(v)
  <2> DEFINE R(u) == UNION {{d} \X Subdirectories(u, d) : d \in Clusters}
  <2>1. R(w) = R(v) /\ Subdirectories(w, 0) = Subdirectories(v, 0)
    BY <1>6
  <2>2. \A u : Directories(u) = {0} \cup Visited(R(u), Subdirectories(u, 0))
    BY DEF Directories
  <2> HIDE DEF R
  <2> QED BY <2>1, <2>2
<1>8. \A a, c : Position(w, a, c) = Position(v, a, c)
  BY DEF Position
<1>9. \A e : ReadBack(w, e) = ReadBack(v, e)
  <2> SUFFICES ASSUME NEW e PROVE ReadBack(w, e) = ReadBack(v, e)
    OBVIOUS
  <2> DEFINE chain(u) == {c \in Clusters : <<e.first, c>> \in u.reach}
             read(u) == {c \in chain(u) : Position(u, e.first, c) * ClusterSize < e.size}
             whole(u) == {p \in Payloads :
                            \A c \in read(u) : /\ u.data[c].pay = p
                                               /\ u.data[c].off = Position(u, e.first, c) * ClusterSize}
  <2>1. \A u : ReadBack(u, e) =
                  IF e.size = 0 THEN "none"
                  ELSE IF Cardinality(read(u)) * ClusterSize >= e.size /\ whole(u) # {}
                       THEN CHOOSE p \in whole(u) : TRUE
                       ELSE Garbled
    BY Zenon DEF ReadBack
  <2>2. chain(w) = chain(v)
    OBVIOUS
  <2> HIDE DEF chain
  <2>3. read(w) = read(v)
    BY <1>8, <2>2
  <2> HIDE DEF read
  <2>4. whole(w) = whole(v)
    BY <1>8, <2>3
  <2> HIDE DEF whole
  <2> QED BY <2>1, <2>3, <2>4, Zenon
<1>10. \A k, e : Node(w, k, e) = Node(v, k, e)
  BY <1>9 DEF Node
<1>11. \A d : Listing(w, d) = Listing(v, d)
  BY <1>2, <1>5, <1>10 DEF Listing
<1> QED BY <1>7, <1>11 DEF Tree

\* A volume that files can be found on.
Usable(v) ==
    /\ IsVolume(v) /\ Typed(v)
    /\ v.root \in [RootIndex -> Entries]
    /\ \E B : Sound(v, B)

OthersThan(v, k) == {n \in Tree(v) : n.at # k}

LEMMA OthersWritten ==
    ASSUME NEW v, NEW w, Usable(v), IsVolume(w), NEW d, NEW s, EntryWritten(v, w, d, s),
           \A x \in Clusters : x # s[1] => w.data[x] = v.data[x],
           At(w, s) \in Entries, NEW n \in Names,
           At(v, s).name \in {n, END, DELETED}, At(w, s).name \in {n, END, DELETED}
    PROVE  OthersThan(w, <<d, n>>) = OthersThan(v, <<d, n>>)
<1> DEFINE e == At(w, s)
           old == At(v, s).name
<1>1. PICK B : Sound(v, B)
  BY DEF Usable
<1>2. Tree(w) = {m \in Tree(v) : m.at # <<d, old>>}
                \cup (IF e.name \in Names THEN {Node(w, <<d, e.name>>, e)} ELSE {})
  BY <1>1, TreeWritten DEF Usable
<1>3. ASSUME e.name \in Names PROVE Node(w, <<d, e.name>>, e).at = <<d, n>>
  <2>1. e.name = n
    BY <1>3, NameAssumption
  <2> QED BY <2>1, NodeIsTyped, NodeParts
<1>4. ASSUME NEW m \in Tree(v), m.at # <<d, n>> PROVE m.at # <<d, old>>
  <2>1. CASE old = n
    BY <1>4, <2>1
  <2>2. CASE old # n
    <3>1. old \notin Names
      BY <2>2, NameAssumption
    <3>2. PICK c \in Directories(v) : \E t \in Named(v, c) : m.at = <<c, At(v, t).name>>
      BY <1>1, TreeShape DEF Usable
    <3> QED BY <3>1, <3>2 DEF Named
  <2> QED BY <2>1, <2>2
<1> HIDE DEF e, old
<1> QED BY <1>2, <1>3, <1>4 DEF OthersThan

\* The entry is as it was, what it held need not be.
LEMMA OthersUnwritten ==
    ASSUME NEW v, NEW w, Usable(v), IsVolume(w), NEW d \in Directories(v), NEW s \in SlotsOf(v, d),
           ~IsSubdirectory(At(v, s)), w.root = v.root, \A x \in Clusters : w.data[x] = v.data[x],
           \A x \in HeldBut(v, s) : w.fat[x] = v.fat[x],
           NEW n \in Names, At(v, s).name \in {n, END, DELETED}, At(v, s) \in Entries
    PROVE  OthersThan(w, <<d, n>>) = OthersThan(v, <<d, n>>)
<1>1. PICK B : Sound(v, B)
  BY DEF Usable
<1>2. IsVolume(v) /\ AllClean(v) /\ Typed(v)
  BY <1>1, SoundMeaning DEF Usable
<1>3. \A c \in Directories(v) : \A t \in SlotsOf(v, c) : At(w, t) = At(v, t)
  BY <1>2, SlotsHeld DEF At
<1>4. CASE At(v, s).name = END
  <2>1. s \notin InUse(v)
    BY <1>4, NameAssumption DEF InUse
  <2>2. HeldBut(v, s) = Held(v) /\ Held(v) \subseteq Clusters
    BY <2>1 DEF HeldBut, Held, Holds
  <2>3. Unchanged(v, w)
    BY <2>2 DEF Unchanged
  <2>4. Tree(w) = Tree(v)
    BY <1>1, <1>2, <2>3, TreeKept
  <2> QED BY <2>4 DEF OthersThan
<1>5. CASE At(v, s).name # END
  <2>1. At(w, s) = At(v, s) /\ Clean(v, d)
    BY <1>2, <1>3 DEF AllClean
  <2>2. \/ IsFree(At(v, s))
        \/ \A t \in SlotsOf(v, d) \ {s} :
              /\ At(v, t).name = END => ~Before(v, t, s)
              /\ At(v, t).name # At(v, s).name
    BY <2>1 DEF Clean, IsFree
  <2>3. NewDirectories(At(w, s)) = {}
    BY <2>1 DEF NewDirectories
  <2>4. EntryWritten(v, w, d, s)
    BY <1>3, <1>5, <2>1, <2>2, <2>3 DEF EntryWritten, TreeSlots
  <2> QED BY <2>1, <2>4, OthersWritten
<1> QED BY <1>4, <1>5

\* v is p with an entry of name n, or none, written to slot s of directory d; w
\* is on the way from p to v: a new directory is on it or leads to nothing.
Changes(p, v, w, d, n, s) ==
    /\ EntryWritten(p, v, d, s)
    /\ At(p, s).name \in {n, END, DELETED} /\ At(v, s).name \in {n, DELETED}
    /\ \A x \in Clusters : x # s[1] => v.data[x] = p.data[x]
    /\ \A x \in NewDirectories(At(v, s)) :
          /\ v.fat[x] \notin Clusters /\ w.fat[x] \notin Clusters
          /\ v.data[x] = DotEntries(x, d)
    /\ w.data = v.data

\* What the other entries of p hold, w has; of the root it has one or the other.
Between(p, v, w, s) ==
    /\ \A x \in HeldBut(p, s) : w.fat[x] = p.fat[x]
    /\ w.root \in [RootIndex -> Entries]
    /\ \A i \in RootIndex : w.root[i] = p.root[i] \/ (s = <<0, i>> /\ w.root[i] = v.root[i])

\* p is q with one cluster more in directory d, which w may not lead to yet.
Grown(q, p, w, d, prev, c) ==
    /\ Usable(q) /\ Lengthened(q, p, d, prev, c)
    /\ w.root = p.root
    /\ w.fat[c] \notin Clusters
    /\ \A x \in Held(q) : w.fat[x] = q.fat[x] \/ (x = prev /\ w.fat[x] = c)

\* The entry is on w when its slot is.
LEMMA WrittenOnTheWay ==
    ASSUME NEW p, NEW v, NEW w, Usable(p), IsVolume(v), IsVolume(w), NEW d, NEW n, NEW s,
           Changes(p, v, w, d, n, s), \A x \in HeldBut(p, s) : w.fat[x] = p.fat[x],
           At(w, s) = At(v, s), \A t \in TreeSlots(p) \ {s} : At(w, t) = At(p, t)
    PROVE  EntryWritten(p, w, d, s)
<1>1. EntryWritten(p, v, d, s)
  BY DEF Changes
<1>2. ASSUME NEW x \in NewDirectories(At(w, s))
      PROVE  x \in Clusters /\ Clean(w, x) /\ \A t \in SlotsOf(w, x) : At(w, t).name \notin Names
  <2>1. x \in Clusters
    BY <1>1, <1>2 DEF EntryWritten
  <2>2. w.fat[x] \notin Clusters /\ w.data[x] = DotEntries(x, d)
    BY <1>2 DEF Changes
  <2> QED BY <2>1, <2>2, DotDirectory
<1> QED BY <1>1, <1>2 DEF EntryWritten

LEMMA OthersBetween ==
    ASSUME NEW p, NEW v, NEW w, Usable(p), IsVolume(v), IsVolume(w), NEW d, NEW n \in Names, NEW s,
           Changes(p, v, w, d, n, s), Between(p, v, w, s), At(v, s) \in Entries
    PROVE  OthersThan(w, <<d, n>>) = OthersThan(v, <<d, n>>)
<1>1. /\ EntryWritten(p, v, d, s) /\ w.data = v.data
      /\ At(p, s).name \in {n, END, DELETED} /\ At(v, s).name \in {n, END, DELETED}
      /\ \A x \in Clusters : x # s[1] => v.data[x] = p.data[x]
  BY DEF Changes
<1>2. /\ d \in Directories(p) /\ s \in SlotsOf(p, d) /\ ~IsSubdirectory(At(p, s))
      /\ \A t \in TreeSlots(p) \ {s} : At(v, t) = At(p, t)
  BY <1>1 DEF EntryWritten
<1>3. OthersThan(v, <<d, n>>) = OthersThan(p, <<d, n>>)
  BY <1>1, OthersWritten
<1>4. IsVolume(p)
  BY DEF Usable
<1>5. ASSUME NEW t \in TreeSlots(p) PROVE t[1] = 0 => t[2] \in RootIndex /\ t = <<0, t[2]>>
  <2>1. PICK c \in Directories(p) : t \in SlotsOf(p, c)
    BY DEF TreeSlots
  <2> QED BY <1>4, <2>1, SlotsHeld, ChainsOfSlots
<1>6. s \in TreeSlots(p)
  BY <1>2 DEF TreeSlots
<1>7. \A t \in TreeSlots(p) \ {s} : At(w, t) = At(p, t)
  BY <1>1, <1>2, <1>5 DEF At, Between
<1>8. CASE At(w, s) = At(v, s)
  <2>1. EntryWritten(p, w, d, s)
    BY <1>4, <1>7, <1>8, WrittenOnTheWay DEF Between
  <2>2. OthersThan(w, <<d, n>>) = OthersThan(p, <<d, n>>)
    BY <1>1, <1>8, <2>1, OthersWritten
  <2> QED BY <1>3, <2>2
<1>9. CASE At(w, s) # At(v, s)
  <2>1. s[1] = 0 /\ s[2] \in RootIndex /\ s = <<0, s[2]>>
    BY <1>1, <1>5, <1>6, <1>9 DEF At
  <2>2. w.root[s[2]] = p.root[s[2]]
    BY <1>9, <2>1 DEF At, Between
  <2>3. \A i \in RootIndex : w.root[i] = p.root[i]
    BY <2>1, <2>2 DEF Between
  <2>4. w.root = p.root
    <3>1. w.root \in [RootIndex -> Entries] /\ p.root \in [RootIndex -> Entries]
      BY DEF Between, Usable
    <3> QED BY <2>3, <3>1
  <2>5. \A x \in Clusters : w.data[x] = p.data[x]
    BY <1>1, <2>1, ClusterFacts
  <2>6. At(p, s) \in Entries
    BY <2>1 DEF At, Usable
  <2>7. OthersThan(w, <<d, n>>) = OthersThan(p, <<d, n>>)
    BY <1>1, <1>2, <2>4, <2>5, <2>6, OthersUnwritten DEF Between
  <2> QED BY <1>3, <2>7
<1> QED BY <1>8, <1>9

LEMMA OthersGrown ==
    ASSUME NEW p, NEW v, NEW w, Usable(p), IsVolume(v), IsVolume(w), NEW d, NEW n \in Names, NEW s,
           NEW q, NEW prev, NEW c, Changes(p, v, w, d, n, s), Grown(q, p, w, d, prev, c), s[1] = c,
           At(v, s) \in Entries,
           w.reach = UNION {{a} \X Chain(w.fat, a) : a \in Clusters}
    PROVE  OthersThan(w, <<d, n>>) = OthersThan(v, <<d, n>>)
<1>1. /\ EntryWritten(p, v, d, s) /\ w.data = v.data
      /\ At(p, s).name \in {n, END, DELETED} /\ At(v, s).name \in {n, END, DELETED}
      /\ \A x \in Clusters : x # s[1] => v.data[x] = p.data[x]
  BY DEF Changes
<1>2. /\ d \in Directories(p) /\ s \in SlotsOf(p, d)
      /\ \A t \in TreeSlots(p) \ {s} : At(v, t) = At(p, t)
  BY <1>1 DEF EntryWritten
<1>3. OthersThan(v, <<d, n>>) = OthersThan(p, <<d, n>>)
  BY <1>1, OthersWritten
<1>4. IsVolume(p) /\ IsVolume(q) /\ Typed(q) /\ Lengthened(q, p, d, prev, c)
  BY DEF Usable, Grown
<1>5. PICK B : Sound(q, B)
  BY DEF Usable, Grown
<1>6. c \in Clusters /\ d \in Directories(q) /\ d # 0 /\ p.fat = Link(q.fat, prev, c) /\ p.root = q.root
      /\ \A x \in Clusters \ {c} : p.data[x] = q.data[x]
  BY <1>4 DEF Lengthened
<1>7. PICK h \in InUse(q) : At(q, h).first = d /\ Holds(q, h) = Chain(q.fat, d)
  BY <1>4, <1>6, DirectoryChainHeld
<1>8. /\ c \notin Held(q) /\ \A x \in Clusters : x # c /\ x # prev => p.fat[x] = q.fat[x]
      /\ p.fat[c] \notin {FREE} \cup Clusters /\ p.fat[prev] = c
  BY <1>4, <1>5, <1>7, LengthenedChains
<1>9. Held(p) = Held(q) \cup {c} /\ Held(q) \subseteq Clusters
  <2>1. Held(p) = Held(q) \cup {c}
    BY <1>4, <1>5, SoundLengthened
  <2> QED BY <2>1 DEF Held, Holds
<1>10. CASE \A x \in Held(q) : w.fat[x] = q.fat[x]
  <2>1. Unchanged(q, w)
    BY <1>1, <1>6, <1>8, <1>9, <1>10 DEF Unchanged, Grown
  <2>2. Tree(w) = Tree(q)
    BY <1>4, <1>5, <2>1, TreeKept
  <2>3. Tree(p) = Tree(q)
    BY <1>4, <1>5, TreeLengthened
  <2> QED BY <1>3, <2>2, <2>3 DEF OthersThan
<1>11. CASE ~ \A x \in Held(q) : w.fat[x] = q.fat[x]
  <2> DEFINE f == [x \in Clusters |-> IF x = c THEN p.fat[c] ELSE w.fat[x]]
             u == Volume(f, w.root, w.data)
  <2>1. w.fat[prev] = c /\ prev \in Held(q)
    BY <1>11 DEF Grown
  <2>2. \A x \in Held(p) : f[x] = p.fat[x]
    BY <1>6, <1>8, <1>9, <2>1 DEF Grown
  <2>3. \A x \in Clusters : f[x] = w.fat[x] \/ (f[x] \notin Clusters /\ w.fat[x] \notin Clusters)
    BY <1>8 DEF Grown
  <2>4. u.fat = f /\ u.root = w.root /\ u.data = w.data /\ IsVolume(u)
    BY VolumeParts
  <2>5. u.reach = UNION {{a} \X Chain(f, a) : a \in Clusters}
    BY DEF Volume
  <2> HIDE DEF f, u
  <2>6. Links(f) = Links(w.fat)
    BY <2>3 DEF Links
  <2>7. \A a : Chain(f, a) = Chain(w.fat, a)
    BY <2>6 DEF Chain
  <2>8. Tree(u) = Tree(w)
    BY <2>4, <2>5, <2>7, TreeByChains
  <2>9. s \notin InUse(p) /\ HeldBut(p, s) \subseteq Held(p) /\ s[1] # 0
    <3>1. s \in {c} \X Slots /\ s[1] # 0
      BY <1>2, <1>4, <1>6, ChainsOfSlots, DirectoriesClosed, ClusterFacts
    <3>2. At(p, s).name = END
      BY <1>4, <1>5, <3>1, LengthenedDirectory
    <3> QED BY <3>1, <3>2, NameAssumption DEF InUse, HeldBut, Held
  <2>10. At(u, s) = At(v, s)
    BY <1>1, <2>4, <2>9 DEF At
  <2>11. \A t \in TreeSlots(p) \ {s} : At(u, t) = At(p, t)
    BY <1>1, <1>2, <2>4 DEF At, Grown
  <2>12. Changes(p, v, u, d, n, s)
    <3>1. ASSUME NEW x \in NewDirectories(At(v, s)) PROVE u.fat[x] \notin Clusters
      <4>1. w.fat[x] \notin Clusters /\ x \in Clusters
        BY <1>1, <3>1 DEF Changes, EntryWritten
      <4> QED BY <2>3, <2>4, <4>1
    <3> QED BY <2>4, <3>1 DEF Changes
  <2>13. EntryWritten(p, u, d, s)
    BY <2>2, <2>4, <2>9, <2>10, <2>11, <2>12, WrittenOnTheWay
  <2>14. OthersThan(u, <<d, n>>) = OthersThan(p, <<d, n>>)
    <3>1. \A x \in Clusters : x # s[1] => u.data[x] = p.data[x]
      BY <1>1, <2>4
    <3> QED BY <1>1, <2>4, <2>10, <2>13, <3>1, OthersWritten
  <2> QED BY <1>3, <2>8, <2>14 DEF OthersThan
<1> QED BY <1>10, <1>11

-----------------------------------------------------------------------------
(* What is on the disk while a call is in progress *)

\* p is q with one cluster more in directory d, which was full, and w holds
\* what q holds.
Extended(q, p, w, d, n, prev, c) ==
    /\ Usable(q) /\ Lengthened(q, p, d, prev, c)
    /\ Unchanged(q, w)
    /\ w.fat[c] \notin Clusters
    /\ \A t \in SlotsOf(q, d) : ~IsFree(At(q, t)) /\ At(q, t).name # n

Applying == pc \in {"root", "fats"} /\ op.kind # "flush"

\* Until an entry is written the disk holds what the caches hold, but for the
\* cluster a directory has grown by.  From then on it is on the way.
BehindInv ==
    /\ g_fs_ready /\ ~Applying =>
          \/ Unchanged(Mounted, OnDisk)
          \/ /\ pc = "entry"
             /\ \E q, prev, c : Extended(q, Mounted, OnDisk, op.dir, op.name, prev, c)
    /\ g_fs_ready /\ Applying =>
          /\ op.name \in Names
          /\ \E p, s : /\ Usable(p)
                       /\ Changes(p, Mounted, OnDisk, op.dir, op.name, s)
                       /\ At(Mounted, s) \in Entries
                       /\ \/ Between(p, Mounted, OnDisk, s)
                          \/ \E q, prev, c : Grown(q, p, OnDisk, op.dir, prev, c) /\ s[1] = c

LEMMA MountedUsable == ASSUME VolumeInv, g_fs_ready PROVE Usable(Mounted)
<1>1. TypeOK /\ Sound(Mounted, Building)
  BY ServedVolume
<1>2. Typed(Mounted) /\ IsVolume(Mounted) /\ Mounted.root \in [RootIndex -> Entries]
  BY <1>1, EntriesTyped, MountedParts DEF TypeOK
<1> QED BY <1>1, <1>2 DEF Usable

\* The disk's tree is then the one in memory, but for the call's own entry.
LEMMA BehindOthers ==
    ASSUME VolumeInv, BehindInv
    PROVE  /\ BystandersOnDisk
           /\ g_fs_ready /\ pc \notin {"root", "fats"} => Tree(OnDisk) = Tree(Mounted)
<1>1. ASSUME g_fs_ready, ~Applying PROVE Tree(OnDisk) = Tree(Mounted)
  <2>1. Usable(Mounted) /\ IsVolume(OnDisk) /\ IsVolume(Mounted)
    BY <1>1, MountedUsable, OnDiskParts, MountedParts
  <2>2. CASE Unchanged(Mounted, OnDisk)
    BY <2>1, <2>2, TreeKept DEF Usable
  <2>3. CASE \E q, prev, c : Extended(q, Mounted, OnDisk, op.dir, op.name, prev, c)
    <3>1. PICK q, prev, c : Extended(q, Mounted, OnDisk, op.dir, op.name, prev, c)
      BY <2>3
    <3>2. /\ IsVolume(q) /\ Typed(q) /\ Unchanged(q, OnDisk)
          /\ Lengthened(q, Mounted, op.dir, prev, c)
      BY <3>1 DEF Extended, Usable
    <3>3. PICK B : Sound(q, B)
      BY <3>1 DEF Extended, Usable
    <3>4. Tree(OnDisk) = Tree(q)
      BY <2>1, <3>2, <3>3, TreeKept
    <3>5. Tree(Mounted) = Tree(q)
      BY <2>1, <3>2, <3>3, TreeLengthened
    <3> QED BY <3>4, <3>5
  <2> QED BY <1>1, <2>2, <2>3 DEF BehindInv
<1>2. ASSUME g_fs_ready, Applying
      PROVE  OthersThan(OnDisk, <<op.dir, op.name>>) = OthersThan(Mounted, <<op.dir, op.name>>)
  <2>1. op.name \in Names
    BY <1>2 DEF BehindInv
  <2>2. PICK p, s : /\ Usable(p)
                    /\ Changes(p, Mounted, OnDisk, op.dir, op.name, s)
                    /\ At(Mounted, s) \in Entries
                    /\ \/ Between(p, Mounted, OnDisk, s)
                       \/ \E q, prev, c : Grown(q, p, OnDisk, op.dir, prev, c) /\ s[1] = c
    BY <1>2 DEF BehindInv
  <2>3. IsVolume(OnDisk) /\ IsVolume(Mounted)
    BY OnDiskParts, MountedParts
  <2>4. CASE Between(p, Mounted, OnDisk, s)
    BY <2>1, <2>2, <2>3, <2>4, OthersBetween
  <2>5. CASE \E q, prev, c : Grown(q, p, OnDisk, op.dir, prev, c) /\ s[1] = c
    <3>1. PICK q, prev, c : Grown(q, p, OnDisk, op.dir, prev, c) /\ s[1] = c
      BY <2>5
    <3>2. OnDisk.reach = UNION {{a} \X Chain(OnDisk.fat, a) : a \in Clusters}
      BY DEF OnDisk, Volume
    <3> QED BY <2>1, <2>2, <2>3, <3>1, <3>2, OthersGrown
  <2> QED BY <2>2, <2>4, <2>5
<1>3. BystandersOnDisk
  BY <1>1, <1>2 DEF BystandersOnDisk, OthersThan
<1>4. pc \notin {"root", "fats"} => ~Applying
  BY DEF Applying
<1> QED BY <1>1, <1>3, <1>4

\* A directory that has no place for an entry is full.
LEMMA FullDirectory ==
    ASSUME NEW v, IsVolume(v), NEW d \in Clusters, Clean(v, d), NEW last \in Chain(v.fat, d),
           v.fat[last] \notin Clusters, NEW n, Target(v, d, n) = {}
    PROVE  \A t \in SlotsOf(v, d) : ~IsFree(At(v, t)) /\ At(v, t).name # n
<1>1. FindEntry(v, d, n) = {} /\ FindFreeEntry(v, d) = {}
  BY DEF Target
<1>2. Visible(v, d) = {t \in SlotsOf(v, d) : ~IsFree(At(v, t))}
  BY ScanMeaning
<1>3. \A S : S \subseteq SlotsOf(v, d) /\ S # {} => First(v, S) # {}
  BY FirstExists
<1>4. {t \in SlotsOf(v, d) : IsFree(At(v, t))} = {}
  BY <1>1, <1>3 DEF FindFreeEntry
<1>5. {t \in Visible(v, d) : At(v, t).name = n} = {}
  <2>1. {t \in Visible(v, d) : At(v, t).name = n} \subseteq SlotsOf(v, d)
    BY <1>2
  <2> QED BY <1>1, <1>3, <2>1 DEF FindEntry
<1> QED BY <1>2, <1>4, <1>5

\* One that was full has room in its new cluster, and nowhere else.
LEMMA RoomInExtended ==
    ASSUME NEW q, NEW p, NEW w, IsVolume(p), NEW d, NEW n, NEW prev, NEW c,
           Extended(q, p, w, d, n, prev, c)
    PROVE  /\ Target(p, d, n) # {}
           /\ \A s \in SlotsOf(p, d) : IsFree(At(p, s)) \/ At(p, s).name = n => s[1] = c
<1>1. /\ IsVolume(q) /\ Lengthened(q, p, d, prev, c)
      /\ \A t \in SlotsOf(q, d) : ~IsFree(At(q, t)) /\ At(q, t).name # n
  BY DEF Extended, Usable
<1>2. PICK B : Sound(q, B)
  BY DEF Extended, Usable
<1>3. /\ SlotsOf(p, d) = SlotsOf(q, d) \cup ({c} \X Slots)
      /\ \A t \in SlotsOf(q, d) : At(p, t) = At(q, t)
      /\ \A t \in {c} \X Slots : At(p, t).name = END
  BY <1>1, <1>2, LengthenedDirectory
<1>4. \A s \in SlotsOf(p, d) : IsFree(At(p, s)) \/ At(p, s).name = n => s[1] = c
  BY <1>1, <1>3
<1>5. d \in Directories(q) /\ d # 0 /\ d \in Clusters
  BY <1>1, DirectoriesClosed DEF Lengthened
<1>6. PICK h \in InUse(q) : At(q, h).first = d /\ Holds(q, h) = Chain(q.fat, d)
  BY <1>1, <1>5, DirectoryChainHeld
<1>7. c \in Chain(p.fat, d) /\ p.fat[c] \notin Clusters
  BY <1>1, <1>2, <1>6, LengthenedChains
<1>8. <<c, 0>> \in {t \in SlotsOf(p, d) : IsFree(At(p, t))}
  <2>1. 0 \in Slots
    BY GeometryAssumption DEF Slots
  <2> QED BY <1>3, <2>1 DEF IsFree
<1>9. FindFreeEntry(p, d) # {}
  <2> DEFINE S == {t \in SlotsOf(p, d) : IsFree(At(p, t))}
  <2>1. S \subseteq SlotsOf(p, d) /\ S # {}
    BY <1>8
  <2> HIDE DEF S
  <2>2. First(p, S) # {}
    BY <1>5, <1>7, <2>1, FirstExists
  <2> QED BY <2>2 DEF S, FindFreeEntry
<1> QED BY <1>4, <1>9 DEF Target

LEMMA StaysOnDisk ==
    ASSUME Unchanged(Mounted, OnDisk), Unchanged(Mounted, Mounted'), UNCHANGED <<disk_fat, disk_root>>
    PROVE  Unchanged(Mounted', OnDisk')
<1>1. Held(Mounted') = Held(Mounted)
  BY MountedParts, TreeSame DEF Held
<1> QED BY <1>1, MountedParts, OnDiskParts DEF Unchanged

\* A root slot that is not the entry's is as it was.
LEMMA RootElsewhere ==
    ASSUME NEW p, NEW v, IsVolume(p), NEW d, NEW s, EntryWritten(p, v, d, s),
           NEW i \in RootIndex, s # <<0, i>>
    PROVE  v.root[i] = p.root[i]
<1>1. <<0, i>> \in TreeSlots(p)
  BY DEF TreeSlots, SlotsOf, Directories
<1>2. At(v, <<0, i>>) = At(p, <<0, i>>)
  BY <1>1 DEF EntryWritten
<1> QED BY <1>2 DEF At

\* A sector that is flushed brings the disk nearer to what is cached.
LEMMA FlushedOnTheWay ==
    ASSUME NEW p, NEW v, NEW w, NEW u, Usable(p), NEW d, NEW n, NEW s, Changes(p, v, w, d, n, s),
           u.data = w.data, u.root \in [RootIndex -> Entries],
           \A x \in Clusters : u.fat[x] \in {w.fat[x], v.fat[x]},
           \A i \in RootIndex : u.root[i] \in {w.root[i], v.root[i]}
    PROVE  /\ Changes(p, v, u, d, n, s)
           /\ Between(p, v, w, s) => Between(p, v, u, s)
           /\ \A q, prev, c : Grown(q, p, w, d, prev, c) /\ s[1] = c => Grown(q, p, u, d, prev, c)
<1>1. IsVolume(p) /\ EntryWritten(p, v, d, s) /\ p.root \in [RootIndex -> Entries]
  BY DEF Usable, Changes
<1>2. \A i \in RootIndex : s # <<0, i>> => v.root[i] = p.root[i]
  BY <1>1, RootElsewhere
<1>3. \A x \in HeldBut(p, s) : x \in Clusters /\ v.fat[x] = p.fat[x]
  BY <1>1 DEF EntryWritten, HeldBut, Holds
<1>4. Changes(p, v, u, d, n, s)
  <2>1. \A x \in NewDirectories(At(v, s)) : u.fat[x] \notin Clusters
    BY <1>1 DEF Changes, EntryWritten
  <2> QED BY <2>1 DEF Changes
<1>5. Between(p, v, w, s) => Between(p, v, u, s)
  BY <1>2, <1>3 DEF Between
<1>6. ASSUME NEW q, NEW prev, NEW c, Grown(q, p, w, d, prev, c), s[1] = c
      PROVE  Grown(q, p, u, d, prev, c)
  <2>1. Usable(q) /\ IsVolume(q) /\ Lengthened(q, p, d, prev, c)
    BY <1>6 DEF Grown, Usable
  <2>2. PICK B : Sound(q, B)
    BY <2>1 DEF Usable
  <2>3. c \in Clusters /\ d \in Directories(q) /\ d # 0 /\ p.fat = Link(q.fat, prev, c)
    BY <2>1 DEF Lengthened
  <2>4. c # 0 /\ Held(q) \subseteq Clusters
    BY <2>3, ClusterFacts DEF Held, Holds
  <2>5. u.root = p.root
    <3>1. w.root = p.root
      BY <1>6 DEF Grown
    <3>2. \A i \in RootIndex : v.root[i] = p.root[i]
      BY <1>2, <1>6, <2>4
    <3>3. \A i \in RootIndex : u.root[i] = p.root[i]
      BY <3>1, <3>2
    <3> QED BY <1>1, <3>3
  <2>6. Held(p) = Held(q) \cup {c}
    BY <1>1, <2>1, <2>2, SoundLengthened
  <2>7. PICK h \in InUse(q) : At(q, h).first = d /\ Holds(q, h) = Chain(q.fat, d)
    BY <2>1, <2>3, DirectoryChainHeld
  <2>8. /\ \A x \in Clusters : x # c /\ x # prev => p.fat[x] = q.fat[x]
        /\ p.fat[c] \notin Clusters /\ p.fat[prev] = c /\ c \notin Held(q)
    BY <1>1, <2>1, <2>2, <2>7, LengthenedChains
  <2>9. s \notin InUse(p)
    <3>1. s \in SlotsOf(p, d)
      BY <1>1 DEF EntryWritten
    <3>2. s \in {c} \X Slots
      BY <1>1, <1>6, <2>1, <2>3, <3>1, ChainsOfSlots, DirectoriesClosed
    <3>3. At(p, s).name = END
      BY <1>1, <2>1, <2>2, <3>2, LengthenedDirectory
    <3> QED BY <3>3, NameAssumption DEF InUse
  <2>10. HeldBut(p, s) = Held(p)
    BY <2>9 DEF HeldBut, Held
  <2>11. \A x \in Held(p) : u.fat[x] = w.fat[x] \/ u.fat[x] = p.fat[x]
    BY <1>3, <2>10
  <2>12. u.fat[c] \notin Clusters
    BY <1>6, <2>6, <2>8, <2>11 DEF Grown
  <2>13. \A x \in Held(q) : u.fat[x] = q.fat[x] \/ (x = prev /\ u.fat[x] = c)
    <3> SUFFICES ASSUME NEW x \in Held(q) PROVE u.fat[x] = q.fat[x] \/ (x = prev /\ u.fat[x] = c)
      OBVIOUS
    <3>1. w.fat[x] = q.fat[x] \/ (x = prev /\ w.fat[x] = c)
      BY <1>6 DEF Grown
    <3>2. p.fat[x] = q.fat[x] \/ (x = prev /\ p.fat[x] = c)
      BY <2>4, <2>8
    <3> QED BY <2>6, <2>11, <3>1, <3>2
  <2> QED BY <1>6, <2>1, <2>5, <2>12, <2>13 DEF Grown
<1> QED BY <1>4, <1>5, <1>6

LEMMA FlushTakesSectors ==
    ASSUME TypeOK, FlushRoot \/ FlushFats
    PROVE  /\ Mounted' = Mounted /\ UNCHANGED <<disk_data, g_fs_ready>>
           /\ \A x \in Clusters : disk_fat'[0][x] \in {disk_fat[0][x], g_fat_primary[x]}
           /\ \A i \in RootIndex : disk_root'[i] \in {disk_root[i], g_root_dir[i]}
<1>1. 0 \in Copies /\ DOMAIN disk_fat[0] = Clusters /\ DOMAIN disk_root = RootIndex
  BY GeometryAssumption DEF TypeOK, Copies, FatTables
<1>2. CASE FlushRoot
  <2>1. UNCHANGED <<g_fat_primary, g_root_dir, disk_fat, disk_data, g_fs_ready>>
    BY <1>2 DEF FlushRoot
  <2>2. disk_root' = disk_root \/ disk_root' = RootWritten
    BY <1>2 DEF FlushRoot
  <2>3. \A i \in RootIndex : RootWritten[i] \in {disk_root[i], g_root_dir[i]}
    BY <1>1 DEF RootWritten, Sector
  <2> QED BY <2>1, <2>2, <2>3 DEF Mounted
<1>3. CASE FlushFats
  <2>1. UNCHANGED <<g_fat_primary, g_root_dir, disk_root, disk_data, g_fs_ready>>
    BY <1>3 DEF FlushFats
  <2>2. disk_fat' = disk_fat \/ disk_fat' = FatWritten
    BY <1>3 DEF FlushFats
  <2>3. \A x \in Clusters : FatWritten[0][x] \in {disk_fat[0][x], g_fat_primary[x]}
    <3>1. cur.copy \in Copies
      BY DEF TypeOK
    <3>2. FatWritten[0] = IF cur.copy = 0 THEN Sector(cur.at, FatPerSector, g_fat_primary, disk_fat[0])
                          ELSE disk_fat[0]
      BY <1>1, <3>1 DEF FatWritten, TypeOK
    <3> QED BY <1>1, <3>2 DEF Sector
  <2> QED BY <2>1, <2>2, <2>3 DEF Mounted
<1> QED BY <1>2, <1>3

\* What the disk must show once an entry is written.
LEMMA BehindApplying ==
    ASSUME op'.name \in Names, NEW p, NEW s, Usable(p),
           Changes(p, Mounted', OnDisk', op'.dir, op'.name, s), At(Mounted', s) \in Entries,
           \/ Between(p, Mounted', OnDisk', s)
           \/ \E q, prev, c : Grown(q, p, OnDisk', op'.dir, prev, c) /\ s[1] = c,
           Applying'
    PROVE  BehindInv'
  BY DEF BehindInv

LEMMA BehindFlush ==
    ASSUME VolumeInv, VolumeInv', DiskInv, BehindInv, FlushRoot \/ FlushFats
    PROVE  BehindInv'
<1>1. TypeOK /\ TypeOK' /\ Durable'
  BY DEF VolumeInv, DurableInv
<1>2. /\ Mounted' = Mounted /\ UNCHANGED <<disk_data, g_fs_ready>>
      /\ \A x \in Clusters : disk_fat'[0][x] \in {disk_fat[0][x], g_fat_primary[x]}
      /\ \A i \in RootIndex : disk_root'[i] \in {disk_root[i], g_root_dir[i]}
  BY <1>1, FlushTakesSectors
<1>3. g_fs_ready /\ g_fs_ready' /\ pc \in {"root", "fats"}
  BY DEF FlushRoot, FlushFats, VolumeInv
<1>4. CASE pc' \in {"root", "fats"}
  <2>1. UNCHANGED op
    BY <1>4 DEF FlushRoot, FlushFats, Leave, Goto, Return
  <2>2. CASE op.kind = "flush"
    <3>1. Unchanged(Mounted, OnDisk) /\ ~Applying'
      BY <1>3, <2>1, <2>2 DEF BehindInv, Applying
    <3>2. disk_root = g_root_dir /\ \A x \in Held(Mounted) : disk_fat[0][x] = g_fat_primary[x]
      BY <3>1, MountedParts, OnDiskParts DEF Unchanged
    <3>3. disk_root' = g_root_dir
      <4>1. \A i \in RootIndex : disk_root'[i] = g_root_dir[i]
        BY <1>2, <3>2
      <4> QED BY <1>1, <4>1 DEF TypeOK
    <3>4. \A x \in Held(Mounted) : disk_fat'[0][x] = g_fat_primary[x]
      <4>1. Held(Mounted) \subseteq Clusters
        BY DEF Held, Holds
      <4> QED BY <1>2, <3>2, <4>1
    <3>5. Unchanged(Mounted, OnDisk')
      BY <3>1, <3>3, <3>4, <1>2, MountedParts, OnDiskParts DEF Unchanged
    <3> QED BY <1>2, <3>1, <3>5 DEF BehindInv
  <2>3. CASE op.kind # "flush"
    <3>1. Applying /\ Applying'
      BY <1>3, <1>4, <2>1, <2>3 DEF Applying
    <3>2. op.name \in Names
      BY <1>3, <3>1 DEF BehindInv
    <3>3. PICK p, s : /\ Usable(p)
                      /\ Changes(p, Mounted, OnDisk, op.dir, op.name, s)
                      /\ At(Mounted, s) \in Entries
                      /\ \/ Between(p, Mounted, OnDisk, s)
                         \/ \E q, prev, c : Grown(q, p, OnDisk, op.dir, prev, c) /\ s[1] = c
      BY <1>3, <3>1 DEF BehindInv
    <3>4. /\ (OnDisk').data = OnDisk.data /\ (OnDisk').root \in [RootIndex -> Entries]
          /\ \A x \in Clusters : (OnDisk').fat[x] \in {OnDisk.fat[x], Mounted.fat[x]}
          /\ \A i \in RootIndex : (OnDisk').root[i] \in {OnDisk.root[i], Mounted.root[i]}
      BY <1>1, <1>2, MountedParts, OnDiskParts DEF TypeOK
    <3>5. /\ Changes(p, Mounted, OnDisk', op.dir, op.name, s)
          /\ Between(p, Mounted, OnDisk, s) => Between(p, Mounted, OnDisk', s)
          /\ \A q, prev, c : Grown(q, p, OnDisk, op.dir, prev, c) /\ s[1] = c
                             => Grown(q, p, OnDisk', op.dir, prev, c)
      BY <3>3, <3>4, FlushedOnTheWay
    <3>6. \/ Between(p, Mounted, OnDisk', s)
          \/ \E q, prev, c : Grown(q, p, OnDisk', op.dir, prev, c) /\ s[1] = c
      BY <3>3, <3>5
    <3> QED BY <1>2, <2>1, <3>1, <3>2, <3>3, <3>5, <3>6, BehindApplying
  <2> QED BY <2>2, <2>3
<1>5. CASE pc' \notin {"root", "fats"}
  <2>1. FlushFats /\ ~g_fat_dirty' /\ ~g_root_dirty'
    BY <1>3, <1>5 DEF FlushRoot, FlushFats, Goto, DiskInv
  <2>2. disk_root' = g_root_dir' /\ disk_fat'[0] = g_fat_primary'
    BY <1>1, <1>3, <2>1 DEF Durable
  <2>3. Unchanged(Mounted', OnDisk')
    BY <2>2, MountedParts, OnDiskParts DEF Unchanged
  <2> QED BY <1>5, <2>3 DEF BehindInv, Applying
<1> QED BY <1>4, <1>5

\* A step that leaves the caches and the disk as they are.
LEMMA BehindSame ==
    ASSUME BehindInv, pc \notin {"root", "fats", "entry"}, ~Applying',
           UNCHANGED <<g_fat_primary, g_root_dir, g_fs_ready, disk_fat, disk_root, disk_data>>
    PROVE  BehindInv'
<1>1. Mounted' = Mounted /\ OnDisk' = OnDisk /\ ~Applying
  BY DEF Mounted, OnDisk, Applying
<1> QED BY <1>1 DEF BehindInv

LEMMA BehindDelete ==
    ASSUME "dir" \notin MayFail, VolumeInv, VolumeInv', BehindInv,
           NEW d \in Directories(Mounted), NEW n \in Names, DeleteFile(d, n), pc' = "root"
    PROVE  BehindInv'
<1>1. pc = "idle" /\ g_fs_ready
  BY DEF DeleteFile, Ready
<1>2. /\ op' = Call("rm", d, n, NoPayload, 0, 0)
      /\ UNCHANGED <<g_fs_ready, disk_fat, disk_root>>
  BY DEF DeleteFile, ReturnAtOnce, Return, WriteEntryFails
<1>3. Applying' /\ op'.dir = d /\ op'.name = n
  BY <1>2 DEF Applying, Call
<1>4. DurableInv' /\ TypeOK /\ TypeOK'
  BY DEF VolumeInv, DurableInv
<1>5. PICK s \in Visible(Mounted, d) :
          /\ At(Mounted, s).name = n /\ ~At(Mounted, s).dir
          /\ EntryWritten(Mounted, Mounted', d, s)
          /\ At(Mounted', s) = MarkDeleted(At(Mounted, s))
          /\ \A x \in Clusters : x # s[1] => disk_data'[x] = disk_data[x]
  BY <1>4, DeleteVolume
<1>6. At(Mounted, s) \in Entries
  <2>1. s \in SlotsOf(Mounted, d) /\ d \in Clusters \cup {0}
    BY DirectoryType DEF Visible
  <2> QED BY <1>4, <2>1, SlotType
<1>7. At(Mounted', s) \in Entries /\ At(Mounted', s).name = DELETED
  <2>1. \A e \in Entries : MarkDeleted(e) \in Entries /\ MarkDeleted(e).name = DELETED
    BY DEF MarkDeleted, Entries
  <2> QED BY <1>5, <1>6, <2>1
<1>8. NewDirectories(At(Mounted', s)) = {}
  BY <1>7, NameAssumption DEF NewDirectories, IsSubdirectory
<1>9. Usable(Mounted)
  BY <1>1, MountedUsable
<1>10. (OnDisk').data = (Mounted').data
  BY MountedParts, OnDiskParts
<1>11. Changes(Mounted, Mounted', OnDisk', d, n, s)
  BY <1>5, <1>7, <1>8, <1>10, MountedParts DEF Changes
<1>12. Unchanged(Mounted, OnDisk)
  BY <1>1 DEF BehindInv, Applying
<1>13. HeldBut(Mounted, s) \subseteq Held(Mounted)
  BY DEF HeldBut, Held
<1>14. Between(Mounted, Mounted', OnDisk', s)
  BY <1>2, <1>4, <1>12, <1>13, MountedParts, OnDiskParts DEF Between, Unchanged, TypeOK
<1> QED BY <1>3, <1>7, <1>9, <1>11, <1>14, BehindApplying

LEMMA BehindCalls ==
    ASSUME "dir" \notin MayFail, VolumeInv, VolumeInv', BehindInv,
           NEW d \in Directories(Mounted), NEW n \in Names,
           ReadFile(d, n) \/ WriteFile(d, n) \/ CreateDirectory(d, n) \/ DeleteFile(d, n)
    PROVE  BehindInv'
<1>1. pc = "idle"
  BY DEF ReadFile, WriteFile, CreateDirectory, DeleteFile, Ready
<1>2. CASE pc' = "root"
  <2>1. DeleteFile(d, n)
    <3>1. \A k, code : ReturnAtOnce(k, code) => pc' # "root"
      BY DEF ReturnAtOnce, Return
    <3>2. \A l : Goto(l) => pc' = l
      BY DEF Goto
    <3>3. ~ReadFile(d, n)
      BY <1>2, <3>1 DEF ReadFile
    <3>4. ~CreateDirectory(d, n)
      BY <1>2, <3>1, <3>2 DEF CreateDirectory
    <3>5. WriteFile(d, n) => (\E code : ReturnAtOnce("write", code)) \/ \E size : Goto(IF size > 0 THEN "alloc" ELSE "entry")
      BY Zenon DEF WriteFile
    <3> QED BY <1>2, <3>1, <3>2, <3>3, <3>4, <3>5
  <2> QED BY <1>2, <2>1, BehindDelete
<1>3. CASE pc' # "root"
  <2>1. /\ UNCHANGED <<g_fat_primary, g_root_dir, g_fs_ready, disk_fat, disk_root, disk_data>>
        /\ pc' \in {"returned", "alloc", "entry"}
    BY <1>3, CallsLeave
  <2> QED BY <1>1, <2>1, BehindSame DEF Applying
<1> QED BY <1>2, <1>3

LEMMA BehindMachine ==
    ASSUME VolumeInv, VolumeInv', BehindInv,
           \/ Mount \/ MountFails \/ Restart \/ Shutdown \/ TakeResult
           \/ \E k \in {"write", "mkdir", "rm", "read"} : Refused(k)
    PROVE  BehindInv'
<1>1. CASE Mount
  <2>1. disk_root' = g_root_dir' /\ disk_fat'[0] = g_fat_primary' /\ pc' = "returned"
    BY <1>1 DEF Mount, Return, image
  <2>2. Unchanged(Mounted', OnDisk')
    BY <2>1, MountedParts, OnDiskParts DEF Unchanged
  <2> QED BY <2>1, <2>2 DEF BehindInv, Applying
<1>2. CASE Restart
  BY <1>2 DEF Restart, BehindInv
<1>3. CASE MountFails
  BY <1>3, BehindSame DEF MountFails, Return, cache, image, Applying
<1>4. CASE Shutdown
  <2>1. op'.kind = "flush"
    BY <1>4 DEF Shutdown, Call
  <2> QED BY <1>4, <2>1, BehindSame DEF Shutdown, cache, image, Applying
<1>5. CASE TakeResult
  BY <1>5, BehindSame DEF TakeResult, Goto, cache, image, Applying
<1>6. CASE \E k \in {"write", "mkdir", "rm", "read"} : Refused(k)
  BY <1>6, BehindSame DEF Refused, Return, cache, image, Applying
<1> QED BY <1>1, <1>2, <1>3, <1>4, <1>5, <1>6

LEMMA BehindBuilding ==
    ASSUME "dir" \notin MayFail, VolumeInv, VolumeInv', BehindInv,
           Allocate \/ AllocateFails \/ Fill \/ FillFails \/ PutEntryFails
    PROVE  BehindInv'
<1>1. DurableInv' /\ g_fs_ready /\ pc \in {"alloc", "fill", "entry"}
  BY DEF Allocate, AllocateFails, Fill, FillFails, PutEntryFails, VolumeInv
<1>2. Unchanged(Mounted, Mounted')
  BY <1>1, AllocateVolume, FillVolume, FailingVolume
<1>3. UNCHANGED <<disk_fat, disk_root>> /\ ~Applying'
  <2>1. \A code, touched : Abandon(code, touched) => UNCHANGED <<disk_fat, disk_root>> /\ pc' = "returned"
    BY DEF Abandon, Return
  <2>2. AllocateFails \/ FillFails \/ PutEntryFails => \E code, touched : Abandon(code, touched)
    BY Zenon DEF AllocateFails, FillFails, PutEntryFails, NoCluster
  <2>3. Allocate \/ Fill => UNCHANGED <<disk_fat, disk_root>> /\ pc' \in {"alloc", "fill", "entry"}
    BY DEF Allocate, Fill, Goto
  <2> QED BY <2>1, <2>2, <2>3 DEF Applying
<1>4. Unchanged(Mounted, OnDisk)
  <2> SUFFICES ASSUME NEW q, NEW prev, NEW c, pc = "entry",
                      Extended(q, Mounted, OnDisk, op.dir, op.name, prev, c)
               PROVE  FALSE
    BY <1>1 DEF BehindInv, Applying
  <2>1. PutEntryFails
    BY DEF Allocate, AllocateFails, Fill, FillFails
  <2>2. Target(Mounted, op.dir, op.name) = {}
    BY <2>1 DEF PutEntryFails, ScanMayFail, WriteEntryFails
  <2> QED BY <2>2, MountedParts, RoomInExtended
<1>5. Unchanged(Mounted', OnDisk')
  BY <1>2, <1>3, <1>4, StaysOnDisk
<1> QED BY <1>3, <1>5 DEF BehindInv

LEMMA BehindExtend ==
    ASSUME VolumeInv, VolumeInv', DiskInv, BehindInv, ExtendDirectory
    PROVE  BehindInv'
<1>1. /\ DurableInv' /\ g_fs_ready /\ pc = "entry"
      /\ Target(Mounted, op.dir, op.name) = {}
      /\ UNCHANGED <<op, pc, disk_fat, disk_root>>
  BY DEF ExtendDirectory, VolumeInv, control
<1>2. CallInv /\ Sound(Mounted, Building) /\ IsVolume(Mounted) /\ Usable(Mounted)
  BY <1>1, ServedVolume, MountedParts, MountedUsable
<1>3. Unchanged(Mounted, OnDisk)
  <2>1. ASSUME NEW q, NEW prev, NEW c, Extended(q, Mounted, OnDisk, op.dir, op.name, prev, c)
        PROVE  FALSE
    BY <1>1, <1>2, <2>1, RoomInExtended
  <2> QED BY <1>1, <2>1 DEF BehindInv, Applying
<1>4. KeepsHeld
  BY <1>1, ExtendVolume
<1>5. PICK prev, c : Lengthened(Mounted, Mounted', op.dir, prev, c)
  BY <1>1, ExtendVolume
<1>6. /\ op.dir \in Directories(Mounted) /\ op.dir # 0 /\ c \in Clusters
      /\ prev \in Chain(Mounted.fat, op.dir) /\ Mounted.fat[prev] \notin Clusters
  BY <1>5 DEF Lengthened
<1>7. PICK h \in InUse(Mounted) :
          At(Mounted, h).first = op.dir /\ Holds(Mounted, h) = Chain(Mounted.fat, op.dir)
  BY <1>2, <1>6, DirectoryChainHeld
<1>8. c \notin Held(Mounted)
  BY <1>2, <1>5, <1>7, MountedParts, LengthenedChains
<1>9. disk_fat[0][c] \notin Clusters
  <2>1. disk_fat[0][c] = FREE
    BY <1>1, <1>6, <1>8 DEF DiskInv
  <2> QED BY <2>1, ClusterFacts DEF FREE
<1>10. Unchanged(Mounted, OnDisk')
  BY <1>1, <1>3, <1>4, MountedParts, OnDiskParts DEF Unchanged, KeepsHeld
<1>11. \A t \in SlotsOf(Mounted, op.dir) : ~IsFree(At(Mounted, t)) /\ At(Mounted, t).name # op.name
  <2>1. Clean(Mounted, op.dir) /\ op.dir \in Clusters
    BY <1>2, <1>6, SoundMeaning, DirectoryType DEF AllClean
  <2> QED BY <1>1, <1>2, <1>6, <2>1, FullDirectory
<1>12. Extended(Mounted, Mounted', OnDisk', op.dir, op.name, prev, c)
  BY <1>1, <1>2, <1>5, <1>9, <1>10, <1>11, OnDiskParts DEF Extended
<1> QED BY <1>1, <1>12 DEF BehindInv, Applying

LEMMA BehindPutEntry ==
    ASSUME VolumeInv, VolumeInv', DiskInv, BehindInv, PutEntry
    PROVE  BehindInv'
<1>1. /\ DurableInv' /\ TypeOK' /\ g_fs_ready /\ pc = "entry" /\ pc' = "root"
      /\ UNCHANGED <<op, disk_fat, disk_root>>
  BY DEF PutEntry, Goto, VolumeInv, DurableInv
<1>2. /\ TypeOK /\ CallInv /\ Building \cap Held(Mounted) = {}
      /\ Building = Chain(g_fat_primary, op.first)
      /\ Usable(Mounted)
  BY <1>1, ServedVolume, MountedUsable
<1>3. op.name \in Names /\ op.kind # "flush"
  BY <1>1, <1>2 DEF CallInv
<1>4. Applying'
  BY <1>1, <1>3 DEF Applying
<1>5. \A x \in Building : g_fat_primary'[x] = g_fat_primary[x]
  BY <1>1, PutEntryVolume
<1>6. PICK s : /\ EntryWritten(Mounted, Mounted', op.dir, s)
               /\ At(Mounted', s) = NewEntry
               /\ \A x \in Clusters : x # s[1] => disk_data'[x] = disk_data[x]
               /\ s[1] = 0 \/ s[1] \in Held(Mounted)
               /\ At(Mounted, s).name = op.name \/ IsFree(At(Mounted, s))
  BY <1>1, PutEntryVolume
<1>7. At(Mounted', s) \in Entries /\ At(Mounted', s).name = op.name
      /\ NewDirectories(At(Mounted', s)) \subseteq (IF op.kind = "mkdir" THEN {op.first} ELSE {})
  <2>1. NewEntry \in Entries
    BY <1>2, NewEntryType
  <2>2. NewEntry.name = op.name
    BY DEF NewEntry, Entry
  <2>3. NewDirectories(NewEntry) \subseteq (IF op.kind = "mkdir" THEN {op.first} ELSE {})
    BY DEF NewEntry, Entry, NewDirectories, IsSubdirectory
  <2> QED BY <1>6, <2>1, <2>2, <2>3
<1>8. ASSUME op.kind = "mkdir"
      PROVE  /\ g_fat_primary'[op.first] \notin Clusters /\ disk_fat[0][op.first] \notin Clusters
             /\ disk_data'[op.first] = DotEntries(op.first, op.dir)
  <2>1. op.first # 0 /\ op.first \in Clusters
    BY <1>1, <1>2, <1>8 DEF CallInv, TypeOK, Calls
  <2>2. /\ g_fat_primary[op.first] \notin Clusters
        /\ disk_data[op.first] = DotEntries(op.first, op.dir)
    BY <1>1, <1>2, <1>8, <2>1 DEF CallInv
  <2>3. op.first \in Building /\ op.first \notin Held(Mounted)
    BY <1>2, <2>1, ChainClosed
  <2>4. disk_fat[0][op.first] = FREE
    BY <1>1, <2>1, <2>3 DEF DiskInv
  <2>5. op.first # s[1]
    BY <1>6, <2>1, <2>3
  <2> QED BY <1>5, <1>6, <2>1, <2>2, <2>3, <2>4, <2>5, ClusterFacts DEF FREE
<1>9. Changes(Mounted, Mounted', OnDisk', op.dir, op.name, s)
  <2>1. At(Mounted, s).name \in {op.name, END, DELETED}
    BY <1>6 DEF IsFree
  <2>2. \A x \in NewDirectories(At(Mounted', s)) :
           /\ (Mounted').fat[x] \notin Clusters /\ (OnDisk').fat[x] \notin Clusters
           /\ (Mounted').data[x] = DotEntries(x, op.dir)
    BY <1>1, <1>7, <1>8, MountedParts, OnDiskParts
  <2> QED BY <1>6, <1>7, <2>1, <2>2, MountedParts, OnDiskParts DEF Changes
<1>10. CASE Unchanged(Mounted, OnDisk)
  <2>1. HeldBut(Mounted, s) \subseteq Held(Mounted)
    BY DEF HeldBut, Held
  <2>2. Between(Mounted, Mounted', OnDisk', s)
    BY <1>1, <1>10, <2>1, MountedParts, OnDiskParts DEF Between, Unchanged, TypeOK
  <2> QED BY <1>1, <1>2, <1>3, <1>4, <1>7, <1>9, <2>2, BehindApplying
<1>11. ASSUME NEW q, NEW prev, NEW c, Extended(q, Mounted, OnDisk, op.dir, op.name, prev, c)
       PROVE  BehindInv'
  <2>1. s[1] = c
    <3>1. s \in SlotsOf(Mounted, op.dir)
      BY <1>6 DEF EntryWritten
    <3> QED BY <1>6, <1>11, <3>1, MountedParts, RoomInExtended
  <2>2. Grown(q, Mounted, OnDisk', op.dir, prev, c)
    <3>1. Usable(q) /\ Lengthened(q, Mounted, op.dir, prev, c) /\ Unchanged(q, OnDisk)
          /\ OnDisk.fat[c] \notin Clusters
      BY <1>11 DEF Extended
    <3>2. Mounted.root = q.root
      BY <3>1 DEF Lengthened
    <3>3. (OnDisk').root = OnDisk.root /\ (OnDisk').fat = OnDisk.fat
      BY <1>1, OnDiskParts
    <3> QED BY <3>1, <3>2, <3>3 DEF Grown, Unchanged
  <2>3. \E r, l, x : Grown(r, Mounted, OnDisk', op'.dir, l, x) /\ s[1] = x
    BY <1>1, <2>1, <2>2
  <2> QED BY <1>1, <1>2, <1>3, <1>4, <1>7, <1>9, <2>3, BehindApplying
<1> QED BY <1>1, <1>10, <1>11 DEF BehindInv, Applying

LEMMA NextBehind ==
    ASSUME {"dir", "flush"} \cap MayFail = {}, VolumeInv, VolumeInv', DiskInv, BehindInv, [Next]_vars
    PROVE  BehindInv'
<1>1. CASE UNCHANGED vars
  <2>1. Mounted' = Mounted /\ OnDisk' = OnDisk /\ UNCHANGED <<pc, op, g_fs_ready>>
    BY <1>1 DEF vars, cache, image, control, Mounted, OnDisk
  <2> QED BY <2>1 DEF BehindInv, Applying
<1>2. CASE Step
  <2>1. ~FlushRootFails /\ ~FlushFatsFails
    BY DEF FlushRootFails, FlushFatsFails
  <2> QED BY <1>2, <2>1, BehindBuilding, BehindExtend, BehindPutEntry, BehindFlush, BehindMachine
          DEF Step
<1>3. ASSUME NEW d \in Directories(Mounted), NEW n \in Names,
             ReadFile(d, n) \/ WriteFile(d, n) \/ CreateDirectory(d, n) \/ DeleteFile(d, n)
      PROVE  BehindInv'
  BY <1>3, BehindCalls
<1> QED BY <1>1, <1>2, <1>3, BehindMachine DEF Next

-----------------------------------------------------------------------------
(* The theorems *)

ServesInv == VolumeInv /\ ContentInv /\ ReplyInv

LEMMA InitServes == Init => ServesInv /\ BehindInv
  BY InitVolume DEF Init, ServesInv, ContentInv, ReplyInv, BehindInv

LEMMA NextServes ==
    ASSUME "dir" \notin MayFail, Restart => Sound(OnDisk, {}), ServesInv, [Next]_vars
    PROVE  ServesInv'
<1>1. VolumeInv'
  BY NextVolume DEF ServesInv
<1> QED BY <1>1, NextContent, NextReply DEF ServesInv, VolumeInv

LEMMA BehindAlways ==
    ASSUME "dir" \notin MayFail, FlushesComplete
    PROVE  Spec => [](ServesInv /\ DiskInv /\ BehindInv)
<1>1. ServesInv /\ DiskInv /\ BehindInv /\ [Next]_vars => (ServesInv /\ DiskInv /\ BehindInv)'
  <2> SUFFICES ASSUME ServesInv, DiskInv, BehindInv, [Next]_vars
               PROVE  ServesInv' /\ DiskInv' /\ BehindInv'
    OBVIOUS
  <2>1. ServesInv' /\ VolumeInv /\ VolumeInv'
    BY RestartsOnSound, NextServes DEF FlushesComplete, ServesInv
  <2>2. DiskInv'
    BY <2>1, NextDisk DEF FlushesComplete
  <2> QED BY <2>1, <2>2, NextBehind DEF FlushesComplete
<1> QED BY <1>1, InitServes, InitDisk, PTL DEF Spec

\* Between any two steps of a call, a machine that lost power would find every
\* file and directory but the one the call is about as the caller left it
\* (fat12_allocate_cluster takes only free clusters, fat12_free_chain frees the
\* old chain in memory before fat12_flush_fats frees it on the disk), while a
\* directory outside the root takes the entry at once and the flushes are under
\* way.
THEOREM OthersAreOnDisk ==
    ASSUME "dir" \notin MayFail, FlushesComplete
    PROVE  Spec => []BystandersOnDisk
<1>1. ServesInv /\ DiskInv /\ BehindInv => BystandersOnDisk
  BY BehindOthers DEF ServesInv
<1> QED BY <1>1, BehindAlways, PTL

\* fat12_write_file, fat12_create_directory and fat12_delete_file change the
\* tree of files in one step or not at all: OK is returned after exactly one
\* change, an error after none, a file reads back as it was last written, and a
\* restart loses nothing that a call returned OK for.
THEOREM CallsTakeEffectOnce == ASSUME EntriesReachTheDisk PROVE Spec => ImplementsFileStore
<1>1. CASE NoPowerCut
  <2>1. ServesInv /\ [Next]_vars => ServesInv' /\ [Store!Next]_(Store!vars)
    <3> SUFFICES ASSUME ServesInv, [Next]_vars PROVE ServesInv' /\ [Store!Next]_(Store!vars)
      OBVIOUS
    <3>1. ~Restart
      BY <1>1 DEF NoPowerCut, Restart
    <3> QED BY <3>1, NextServes, NextMaps DEF EntriesReachTheDisk, ServesInv, RestartsAlike
  <2> QED BY <2>1, InitServes, InitMaps, PTL DEF Spec, ImplementsFileStore, Store!Spec
<1>2. CASE FlushesComplete
  <2>1. Spec => [](ServesInv /\ DiskInv /\ BehindInv)
    BY <1>2, BehindAlways DEF EntriesReachTheDisk
  <2>2. ServesInv /\ BehindInv /\ [Next]_vars => [Store!Next]_(Store!vars)
    <3> SUFFICES ASSUME ServesInv, BehindInv, [Next]_vars PROVE [Store!Next]_(Store!vars)
      OBVIOUS
    <3>1. g_fs_ready /\ pc \notin {"root", "fats"} => Tree(OnDisk) = Tree(Mounted)
      BY BehindOthers DEF ServesInv
    <3>2. RestartsAlike
      BY <1>2, <3>1 DEF RestartsAlike, Restart, FlushesComplete, TreeNow
    <3> QED BY <3>2, NextMaps DEF EntriesReachTheDisk, ServesInv
  <2> QED BY <2>1, <2>2, InitMaps, PTL DEF Spec, ImplementsFileStore, Store!Spec
<1> QED BY <1>1, <1>2 DEF EntriesReachTheDisk

\* Only a mkdir in progress has the arguments of a mkdir.
KindInv == op.kind = "mkdir" => pc \in {"alloc", "fill", "entry", "root", "fats"}

LEMMA NextKind ==
    ASSUME VolumeInv, KindInv, [Next]_vars
    PROVE  KindInv'
<1>0. \A k, code : Return(k, code) => KindInv'
  BY DEF Return, NoCall, Call, KindInv
<1>1. CASE UNCHANGED vars
  BY <1>1 DEF vars, control, KindInv
<1>2. CASE Step
  <2>1. CASE Allocate \/ Fill
    BY <2>1 DEF Allocate, Fill, Goto, KindInv
  <2>2. CASE ExtendDirectory \/ PutEntry \/ FlushRoot \/ FlushRootFails
    BY <2>2 DEF ExtendDirectory, PutEntry, FlushRoot, FlushRootFails, Goto, control, KindInv
  <2>3. CASE AllocateFails \/ FillFails \/ PutEntryFails
    <3>1. \E code, touched : Abandon(code, touched)
      BY <2>3, Zenon DEF AllocateFails, FillFails, PutEntryFails, NoCluster
    <3> QED BY <1>0, <3>1 DEF Abandon
  <2>4. CASE FlushFats \/ FlushFatsFails
    BY <1>0, <2>4 DEF FlushFats, FlushFatsFails, Leave, Goto, KindInv
  <2>5. CASE TakeResult
    BY <2>5 DEF TakeResult, Goto, KindInv
  <2> QED BY <1>2, <2>1, <2>2, <2>3, <2>4, <2>5 DEF Step
<1>3. ASSUME NEW d \in Directories(Mounted), NEW n \in Names,
             ReadFile(d, n) \/ WriteFile(d, n) \/ CreateDirectory(d, n) \/ DeleteFile(d, n)
      PROVE  KindInv'
  <2>0. \A k, code : ReturnAtOnce(k, code) => KindInv'
    BY <1>0 DEF ReturnAtOnce
  <2>1. CASE ReadFile(d, n)
    BY <2>0, <2>1 DEF ReadFile
  <2>2. CASE WriteFile(d, n)
    <3>1. (\E code : ReturnAtOnce("write", code)) \/ \E size : Goto(IF size > 0 THEN "alloc" ELSE "entry")
      BY <2>2, Zenon DEF WriteFile
    <3> QED BY <2>0, <3>1 DEF Goto, KindInv
  <2>3. CASE CreateDirectory(d, n)
    BY <2>0, <2>3 DEF CreateDirectory, Goto, KindInv
  <2>4. CASE DeleteFile(d, n)
    <3>1. (\E code : Return("rm", code)) \/ Goto("root")
      BY <2>4 DEF DeleteFile, ReturnAtOnce
    <3> QED BY <1>0, <3>1 DEF Goto, KindInv
  <2> QED BY <1>3, <2>1, <2>2, <2>3, <2>4
<1>4. CASE \/ Mount \/ MountFails \/ Restart \/ Shutdown
           \/ \E k \in {"write", "mkdir", "rm", "read"} : Refused(k)
  BY <1>0, <1>4 DEF Mount, MountFails, Restart, Shutdown, Refused, Goto, Call, NoCall, KindInv
<1> QED BY <1>1, <1>2, <1>3, <1>4 DEF Next

LEMMA StepAdds ==
    ASSUME "dir" \notin MayFail, VolumeInv, KindInv, [Next]_vars, op.kind = "mkdir", pc' # "off"
    PROVE  Tree(Mounted) \subseteq Tree(Mounted')
<1>0. DurableInv'
  BY NextDurable DEF VolumeInv
<1>1. pc \in {"alloc", "fill", "entry", "root", "fats"}
  BY DEF KindInv
<1>2. CASE UNCHANGED <<g_fat_primary, g_root_dir, disk_data>>
  BY <1>2 DEF Mounted
<1>3. CASE \/ Allocate \/ AllocateFails \/ Fill \/ FillFails
           \/ ExtendDirectory \/ PutEntryFails
  BY <1>0, <1>3, BuildingTree
<1>4. CASE PutEntry
  <2>1. /\ Tree(Mounted') = {n \in Tree(Mounted) : n.at # <<op.dir, op.name>>}
                            \cup {Node(Mounted', <<op.dir, op.name>>, NewEntry)}
        /\ \A n \in Tree(Mounted) : n.at # <<op.dir, op.name>>
    BY <1>0, <1>4, PutEntryTree
  <2> QED BY <2>1
<1>5. UNCHANGED vars \/ FlushRoot \/ FlushRootFails \/ FlushFats \/ FlushFatsFails
      => UNCHANGED <<g_fat_primary, g_root_dir, disk_data>>
  BY DEF vars, cache, image, FlushRoot, FlushRootFails, FlushFats, FlushFatsFails
<1>6. ~(\/ Mount \/ MountFails \/ Restart \/ Shutdown \/ TakeResult
        \/ \E k \in {"write", "mkdir", "rm", "read"} : Refused(k))
  BY <1>1 DEF Mount, MountFails, Restart, Shutdown, TakeResult, Refused
<1>7. \A d, n : ~(ReadFile(d, n) \/ WriteFile(d, n) \/ CreateDirectory(d, n) \/ DeleteFile(d, n))
  BY <1>1 DEF ReadFile, WriteFile, CreateDirectory, DeleteFile, Ready
<1> QED BY <1>2, <1>3, <1>4, <1>5, <1>6, <1>7 DEF Next, Step

\* A mkdir never changes or removes what was there before it, if the scans of
\* directories do not fail: a find that fails is the only way to what the run
\* fat12_mkdir_adds shows.
THEOREM MkdirAddsIfScansSucceed == ASSUME EntriesReachTheDisk PROVE Spec => MkdirOnlyAdds
<1>1. "dir" \notin MayFail
  BY DEF EntriesReachTheDisk
<1>2. VolumeInv /\ KindInv /\ [Next]_vars => KindInv'
  BY NextKind
<1>3. Init => KindInv
  BY DEF Init, NoCall, Call, KindInv
<1>4. VolumeInv /\ KindInv /\ [Next]_vars
      => [op.kind = "mkdir" /\ pc' # "off" => Tree(Mounted) \subseteq Tree(Mounted)']_vars
  BY <1>1, StepAdds
<1>5. Spec => []VolumeInv
  BY VolumeAlways
<1> QED BY <1>2, <1>3, <1>4, <1>5, PTL DEF Spec, MkdirOnlyAdds
=============================================================================
