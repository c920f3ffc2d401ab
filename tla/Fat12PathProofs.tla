-------------------------- MODULE Fat12PathProofs --------------------------
(***************************************************************************)
(* As long as no directory lies deeper than FAT12_MAX_PATH_DEPTH, a walk    *)
(* knows the way it came, and ".." leads to the parent; in every tree, the  *)
(* depths stay inside the stacks, and pwd shows the beginning of the way.   *)
(***************************************************************************)
EXTENDS Fat12Path, SequenceTheorems, TLAPS

Components == Names \cup {BadName, ".", ".."}
Walks == [kind : Kinds, at : Dirs, stack : [Cells -> Dirs],
          names : [Cells -> Names \cup {BadName}], depth : 0..MaxDepth,
          rest : Seq(Components)]
Results == [code : {"none", "OK", "IO", "INVALID_NAME", "NOT_FOUND", "NOT_DIRECTORY"}, dir : Dirs]

LEMMA RestShrinks ==
    ASSUME TypeOK, Walking
    PROVE  Tail(walk.rest) \in Seq(Components) /\ Component \in Components
<1>1. walk.rest \in Seq(Components) /\ walk.rest # <<>>
  BY EmptySeq DEF TypeOK, Walking, Components
<1> QED BY <1>1, HeadTailProperties DEF Component

\* What pwd shows are names.
LEMMA ShownType ==
    ASSUME NEW names \in [Cells -> Names \cup {BadName}], NEW depth \in 0..MaxDepth
    PROVE  /\ Shown(names, depth) \in Seq(Names \cup {BadName})
           /\ Len(Shown(names, depth)) = IF depth < CwdNames THEN depth ELSE CwdNames
           /\ \A i \in 1..Len(Shown(names, depth)) : Shown(names, depth)[i] = names[i]
<1> DEFINE k == IF depth < CwdNames THEN depth ELSE CwdNames
<1>1. k \in Nat /\ k <= MaxDepth /\ MaxDepth \in Nat
  BY LimitAssumption
<1>2. Shown(names, depth) = [i \in 1..k |-> names[i]]
  BY <1>1 DEF Shown
<1> HIDE DEF k
<1>3. \A i \in 1..k : names[i] \in Names \cup {BadName}
  BY <1>1 DEF Cells
<1> QED BY <1>1, <1>2, <1>3 DEF k

LEMMA FinishType ==
    ASSUME TypeOK, NEW code \in {"OK", "IO", "INVALID_NAME", "NOT_FOUND", "NOT_DIRECTORY"},
           NEW d \in Dirs, Finish(code, d)
    PROVE  walk' \in Walks /\ ret' \in Results
<1>1. NoWalk \in Walks
  BY EmptySeq, TreeAssumption, LimitAssumption DEF NoWalk, Walks, Kinds, Cells
<1> QED BY <1>1 DEF Finish, Returned, Results

LEMMA InitType ==
    ASSUME Init
    PROVE  TypeOK
BY EmptySeq, TreeAssumption, LimitAssumption
   DEF Init, TypeOK, NoWalk, Returned, Kinds, Cells

LEMMA BeginType ==
    ASSUME TypeOK, NEW kind \in {"cd", "ls", "file"}, NEW absolute \in BOOLEAN, NEW path \in Paths,
           Begin(kind, absolute, path)
    PROVE  TypeOK'
<1>1. path \in Seq(Names \cup {BadName, ".", ".."})
  BY LimitAssumption
<1> QED BY <1>1, TreeAssumption, LimitAssumption
        DEF Begin, TypeOK, Returned, Kinds, current

\* A step of the walk keeps the types.
LEMMA WalkType ==
    ASSUME TypeOK, Stay \/ Up \/ Down
    PROVE  TypeOK'
<1>0. Walking
  BY DEF Stay, Up, Down
<1>1. Tail(walk.rest) \in Seq(Components)
  BY <1>0, RestShrinks
<1>2. walk \in Walks /\ MaxDepth \in Nat \ {0}
  BY LimitAssumption DEF TypeOK, Walks, Components
<1>3. CASE Stay
  BY <1>1, <1>2, <1>3 DEF Stay, TypeOK, Walks, Components, current
<1>4. CASE Up
  <2>1. Popped(walk.depth) \in 0..MaxDepth /\ Above(walk.depth) \in Dirs
    BY <1>2, TreeAssumption DEF Walks, Popped, Above, Cells
  <2> QED BY <1>1, <1>2, <1>4, <2>1 DEF Up, TypeOK, Walks, Components, current
<1>5. CASE Down
  <2>1. PICK d \in Dirs : walk' =
            IF walk.depth < MaxDepth
            THEN [walk EXCEPT !.rest = Tail(@), !.at = d,
                              !.stack[walk.depth + 1] = d,
                              !.names[walk.depth + 1] = Component,
                              !.depth = @ + 1]
            ELSE [walk EXCEPT !.rest = Tail(@), !.at = d]
    BY <1>5 DEF Down
  <2>2. Component \in Names
    BY <1>5 DEF Down
  <2>3. walk' \in Walks
    <3>1. CASE walk.depth < MaxDepth
      <4>1. walk.depth + 1 \in 0..MaxDepth
        BY <1>2, <3>1 DEF Walks
      <4>2. /\ [walk.stack EXCEPT ![walk.depth + 1] = d] \in [Cells -> Dirs]
            /\ [walk.names EXCEPT ![walk.depth + 1] = Component] \in [Cells -> Names \cup {BadName}]
        BY <1>2, <2>2 DEF Walks
      <4> QED BY <1>1, <1>2, <2>1, <3>1, <4>1, <4>2 DEF Walks
    <3>2. CASE ~(walk.depth < MaxDepth)
      BY <1>1, <1>2, <2>1, <3>2 DEF Walks
    <3> QED BY <3>1, <3>2
  <2> QED BY <1>5, <2>3 DEF Down, TypeOK, Walks, Components, current
<1> QED BY <1>3, <1>4, <1>5

\* The end of a walk keeps the types.
LEMMA EndType ==
    ASSUME TypeOK, Stop \/ ChangeDirectory \/ ListDirectory \/ ResolveFile
    PROVE  TypeOK'
<1>1. Root \in Dirs /\ walk.at \in Dirs
  BY TreeAssumption DEF TypeOK
<1>2. \E code \in {"OK", "IO", "INVALID_NAME", "NOT_FOUND", "NOT_DIRECTORY"}, d \in Dirs : Finish(code, d)
  BY <1>1 DEF Stop, ChangeDirectory, ListDirectory, ResolveFile
<1>3. walk' \in Walks /\ ret' \in Results
  BY <1>2, FinishType
<1>4. CASE UNCHANGED current
  BY <1>3, <1>4 DEF TypeOK, Walks, Results, Components, current
<1>5. CASE ChangeDirectory
  <2>1. g_cwd' \in Seq(Names \cup {BadName})
    BY <1>5, ShownType DEF ChangeDirectory, TypeOK
  <2>2. g_current_dir_cluster' \in Dirs /\ g_path_depth' \in 0..MaxDepth
    BY <1>5 DEF ChangeDirectory, TypeOK
  <2>3. g_path_stack' \in [Cells -> Dirs] /\ g_path_names' \in [Cells -> Names \cup {BadName}]
    BY <1>5 DEF ChangeDirectory, TypeOK
  <2> QED BY <1>3, <2>1, <2>2, <2>3 DEF TypeOK, Walks, Results, Components
<1> QED BY <1>4, <1>5 DEF Stop, ListDirectory, ResolveFile

LEMMA NextType == TypeOK /\ [Next]_vars => TypeOK'
<1> SUFFICES ASSUME TypeOK, [Next]_vars PROVE TypeOK'
  OBVIOUS
<1>1. CASE UNCHANGED vars
  BY <1>1 DEF vars, current, TypeOK
<1>2. CASE Next
  BY <1>2, BeginType, WalkType, EndType DEF Next
<1> QED BY <1>1, <1>2

\* Whatever paths are walked, in a tree of any depth, the depths stay inside
\* the arrays of FAT12_MAX_PATH_DEPTH cells.
THEOREM DepthsStayInside == Spec => []TypeOK
<1>1. Init => TypeOK
  BY InitType
<1> QED BY <1>1, NextType, PTL DEF Spec

-----------------------------------------------------------------------------
(* The way to a directory is as long as the directory is deep, so that a     *)
(* stack is full only at the bottom of a tree that fits.                     *)

PathInv ==
    /\ TypeOK
    /\ KnowsTheWay
    /\ Level[g_current_dir_cluster] = g_path_depth
    /\ Level[walk.at] = walk.depth

LEMMA NoWalkIsRoot ==
    /\ LeadsTo(NoWalk.stack, NoWalk.names, NoWalk.depth, NoWalk.at)
    /\ Level[NoWalk.at] = NoWalk.depth
BY TreeAssumption, LimitAssumption DEF LeadsTo, NoWalk, Cells

LEMMA InitPath == Init => PathInv
<1> SUFFICES ASSUME Init PROVE PathInv
  OBVIOUS
<1>1. g_path_depth = NoWalk.depth /\ g_current_dir_cluster = NoWalk.at
  BY DEF Init, NoWalk
<1> QED BY <1>1, NoWalkIsRoot, InitType DEF Init, PathInv, KnowsTheWay

LEMMA BeginPath ==
    ASSUME PathInv, NEW kind, NEW absolute \in BOOLEAN, NEW path, Begin(kind, absolute, path)
    PROVE  KnowsTheWay' /\ Level[walk'.at] = walk'.depth
<1>1. CASE absolute
  BY <1>1, TreeAssumption, LimitAssumption
     DEF Begin, PathInv, TypeOK, KnowsTheWay, LeadsTo, Cells, current
<1>2. CASE ~absolute
  BY <1>2 DEF Begin, PathInv, KnowsTheWay, LeadsTo, current
<1> QED BY <1>1, <1>2

\* The cell under the top of the stack holds the parent.
LEMMA UpPath ==
    ASSUME PathInv, Up
    PROVE  /\ LeadsTo(walk'.stack, walk'.names, walk'.depth, walk'.at)
           /\ Level[walk'.at] = walk'.depth
           /\ \/ walk.at = Root /\ walk'.at = Root
              \/ walk.at \in Children(walk'.at)
<1>1. /\ walk.depth \in Nat /\ walk.depth <= MaxDepth /\ MaxDepth \in Nat
      /\ walk.at \in Dirs /\ walk.stack \in [Cells -> Dirs]
      /\ LeadsTo(walk.stack, walk.names, walk.depth, walk.at)
      /\ Level[walk.at] = walk.depth
  BY LimitAssumption DEF PathInv, TypeOK, KnowsTheWay
<1>2. /\ walk'.stack = walk.stack /\ walk'.names = walk.names
      /\ walk'.at = Above(walk.depth) /\ walk'.depth = Popped(walk.depth)
  BY DEF Up, PathInv, TypeOK
<1>3. CASE walk.depth = 0
  BY <1>1, <1>2, <1>3, TreeAssumption DEF LeadsTo, Above, Popped, Cells
<1>4. CASE walk.depth = 1
  <2>1. /\ walk'.at = Root /\ walk'.depth = 0 /\ 1 \in Cells
        /\ walk.names[1] \in Names /\ walk.at = Lookup[Root][walk.names[1]]
    BY <1>1, <1>2, <1>4 DEF LeadsTo, Above, Popped, Cells
  <2>2. walk.at \in Children(walk'.at)
    BY <1>1, <2>1 DEF Children
  <2> QED BY <1>1, <1>2, <2>1, <2>2, TreeAssumption DEF LeadsTo, Cells
<1>5. CASE walk.depth > 1
  <2>1. /\ walk'.at = walk.stack[walk.depth - 1] /\ walk'.depth = walk.depth - 1
        /\ walk.depth \in Cells /\ walk.depth - 1 \in Cells
        /\ walk.at = walk.stack[walk.depth]
    BY <1>1, <1>2, <1>5 DEF LeadsTo, Above, Popped, Cells
  <2>2. /\ walk.names[walk.depth] \in Names
        /\ walk.at = Lookup[walk'.at][walk.names[walk.depth]]
    BY <1>1, <1>5, <2>1 DEF LeadsTo
  <2>3. walk'.at \in Dirs
    BY <1>1, <2>1
  <2>4. walk.at \in Children(walk'.at) /\ Level[walk.at] = Level[walk'.at] + 1
    BY <1>1, <2>2, <2>3, TreeAssumption DEF Children
  <2>5. Level[walk'.at] = walk'.depth
    BY <1>1, <2>1, <2>3, <2>4, TreeAssumption
  <2>6. LeadsTo(walk'.stack, walk'.names, walk'.depth, walk'.at)
    BY <1>1, <1>2, <1>5, <2>1 DEF LeadsTo, Cells
  <2> QED BY <2>4, <2>5, <2>6
<1> QED BY <1>1, <1>3, <1>4, <1>5

LEMMA DownPath ==
    ASSUME DepthFits, PathInv, Down
    PROVE  /\ LeadsTo(walk'.stack, walk'.names, walk'.depth, walk'.at)
           /\ Level[walk'.at] = walk'.depth
<1> DEFINE d == Lookup[walk.at][Component]
           k == walk.depth + 1
<1>1. /\ walk.depth \in Nat /\ MaxDepth \in Nat
      /\ walk.at \in Dirs /\ walk.stack \in [Cells -> Dirs]
      /\ walk.names \in [Cells -> Names \cup {BadName}]
      /\ LeadsTo(walk.stack, walk.names, walk.depth, walk.at)
      /\ Level[walk.at] = walk.depth
  BY LimitAssumption DEF PathInv, TypeOK, KnowsTheWay
<1>2. Component \in Names /\ d \in Dirs
  BY DEF Down
<1>3. Level[d] = k /\ k <= MaxDepth
  BY <1>1, <1>2, TreeAssumption DEF DepthFits
<1>4. k \in Cells
  BY <1>1, <1>3 DEF Cells
<1>5. /\ walk'.at = d /\ walk'.depth = k
      /\ walk'.stack = [walk.stack EXCEPT ![k] = d]
      /\ walk'.names = [walk.names EXCEPT ![k] = Component]
  BY <1>1, <1>3 DEF Down, PathInv, TypeOK
<1> HIDE DEF d, k
<1>6. walk'.stack[k] = d /\ walk'.names[k] = Component
  BY <1>1, <1>4, <1>5
<1>7. \A i \in Cells : i # k => walk'.stack[i] = walk.stack[i] /\ walk'.names[i] = walk.names[i]
  BY <1>1, <1>5
<1>8. k \in Nat \ {0} /\ k - 1 = walk.depth
  BY <1>1 DEF k
<1>9. ASSUME NEW i \in Cells, i <= k
      PROVE  /\ walk'.names[i] \in Names
             /\ walk'.stack[i] = Lookup[IF i = 1 THEN Root ELSE walk'.stack[i - 1]][walk'.names[i]]
  <2>1. i \in Nat \ {0}
    BY DEF Cells
  <2>2. CASE i = k
    <3>1. walk.at = IF i = 1 THEN Root ELSE walk'.stack[i - 1]
      <4>1. CASE i = 1
        BY <1>1, <1>8, <2>2, <4>1 DEF LeadsTo
      <4>2. CASE i # 1
        <5>1. i - 1 \in Cells /\ i - 1 # k /\ i - 1 = walk.depth /\ walk.depth # 0
          BY <1>1, <1>8, <2>1, <2>2, <4>2 DEF Cells
        <5> QED BY <1>1, <1>7, <4>2, <5>1 DEF LeadsTo
      <4> QED BY <4>1, <4>2
    <3> QED BY <1>2, <1>6, <2>2, <3>1 DEF d
  <2>3. CASE i # k
    <3>1. i <= walk.depth
      BY <1>1, <1>8, <1>9, <2>1, <2>3
    <3>2. /\ walk.names[i] \in Names
          /\ walk.stack[i] = Lookup[IF i = 1 THEN Root ELSE walk.stack[i - 1]][walk.names[i]]
      BY <1>1, <3>1 DEF LeadsTo
    <3>3. i # 1 => walk'.stack[i - 1] = walk.stack[i - 1]
      <4>1. i # 1 => i - 1 \in Cells /\ i - 1 # k
        BY <1>1, <1>8, <2>1, <3>1 DEF Cells
      <4> QED BY <1>7, <4>1
    <3> QED BY <1>7, <2>3, <3>2, <3>3
  <2> QED BY <2>2, <2>3
<1> QED BY <1>3, <1>5, <1>6, <1>8, <1>9 DEF LeadsTo

\* What is copied back is the way the walk took.
LEMMA ChangePath ==
    ASSUME PathInv, ChangeDirectory
    PROVE  /\ LeadsTo(g_path_stack', g_path_names', g_path_depth', g_current_dir_cluster')
           /\ Level[g_current_dir_cluster'] = g_path_depth'
<1>1. /\ walk.depth \in Nat /\ walk.depth <= MaxDepth /\ MaxDepth \in Nat
      /\ LeadsTo(walk.stack, walk.names, walk.depth, walk.at)
      /\ Level[walk.at] = walk.depth
  BY LimitAssumption DEF PathInv, TypeOK, KnowsTheWay
<1>2. /\ g_current_dir_cluster' = walk.at /\ g_path_depth' = walk.depth
      /\ \A i \in Cells : i <= walk.depth =>
            g_path_stack'[i] = walk.stack[i] /\ g_path_names'[i] = walk.names[i]
  BY DEF ChangeDirectory
<1>3. walk.depth # 0 => walk.depth \in Cells
  BY <1>1 DEF Cells
<1>4. \A i \in Cells : i <= walk.depth /\ i # 1 => i - 1 \in Cells /\ i - 1 <= walk.depth
  BY <1>1 DEF Cells
<1> QED BY <1>1, <1>2, <1>3, <1>4 DEF LeadsTo

LEMMA NextPath == DepthFits /\ PathInv /\ [Next]_vars => PathInv'
<1> SUFFICES ASSUME DepthFits, PathInv, [Next]_vars PROVE PathInv'
  OBVIOUS
<1>1. TypeOK'
  BY NextType DEF PathInv
<1>2. CASE UNCHANGED vars
  BY <1>1, <1>2 DEF vars, current, PathInv, KnowsTheWay, LeadsTo
<1>3. CASE \E kind \in {"cd", "ls", "file"}, absolute \in BOOLEAN, path \in Paths :
              Begin(kind, absolute, path)
  <2>1. KnowsTheWay' /\ Level[walk'.at] = walk'.depth
    BY <1>3, BeginPath
  <2> QED BY <1>1, <1>3, <2>1 DEF Begin, PathInv, current
<1>4. CASE Stay \/ Up \/ Down
  <2>1. /\ LeadsTo(walk'.stack, walk'.names, walk'.depth, walk'.at)
        /\ Level[walk'.at] = walk'.depth
    <3>1. CASE Stay
      BY <3>1 DEF Stay, PathInv, TypeOK, KnowsTheWay
    <3> QED BY <1>4, <3>1, UpPath, DownPath
  <2>2. UNCHANGED current
    BY <1>4 DEF Stay, Up, Down
  <2> QED BY <1>1, <2>1, <2>2 DEF PathInv, KnowsTheWay, LeadsTo, current
<1>5. CASE Stop \/ ChangeDirectory \/ ListDirectory \/ ResolveFile
  <2>1. walk' = NoWalk
    BY <1>5 DEF Stop, ChangeDirectory, ListDirectory, ResolveFile, Finish
  <2>2. /\ LeadsTo(walk'.stack, walk'.names, walk'.depth, walk'.at)
        /\ Level[walk'.at] = walk'.depth
    BY <2>1, NoWalkIsRoot
  <2>3. /\ LeadsTo(g_path_stack', g_path_names', g_path_depth', g_current_dir_cluster')
        /\ Level[g_current_dir_cluster'] = g_path_depth'
    <3>1. CASE UNCHANGED current
      BY <3>1 DEF PathInv, KnowsTheWay, current
    <3> QED BY <1>5, <3>1, ChangePath DEF Stop, ListDirectory, ResolveFile
  <2> QED BY <1>1, <2>2, <2>3 DEF PathInv, KnowsTheWay
<1> QED BY <1>2, <1>3, <1>4, <1>5 DEF Next

\* In a tree no deeper than FAT12_MAX_PATH_DEPTH, the current directory's stack
\* and that of every walk lead from the root to where they are.
THEOREM WayIsKnown ==
    ASSUME DepthFits
    PROVE  Spec => []KnowsTheWay
<1>1. PathInv /\ [Next]_vars => PathInv'
  BY NextPath
<1>2. PathInv => KnowsTheWay
  BY DEF PathInv
<1> QED BY <1>1, <1>2, InitPath, PTL DEF Spec

\* In such a tree ".." leads to the parent, and from the root to the root.
THEOREM UpLeadsToParent ==
    ASSUME DepthFits
    PROVE  Spec => UpIsParent
<1> DEFINE Good == [walk.kind # "none" /\ Len(walk.rest) > 0 /\ Component = ".." /\ walk'.kind # "none" =>
          \/ walk.at = Root /\ walk'.at = Root
          \/ walk.at \in Children(walk'.at)]_vars
<1>1. PathInv /\ [Next]_vars => PathInv'
  BY NextPath
<1>2. PathInv /\ [Next]_vars => Good
  <2> SUFFICES ASSUME PathInv, Next, walk.kind # "none", Component = "..", walk'.kind # "none"
               PROVE  \/ walk.at = Root /\ walk'.at = Root
                      \/ walk.at \in Children(walk'.at)
    OBVIOUS
  <2>1. CASE Up
    BY <2>1, UpPath
  <2>2. ~Stay /\ ~Down
    BY LimitAssumption DEF Stay, Down
  <2>3. ~(Stop \/ ChangeDirectory \/ ListDirectory \/ ResolveFile)
    BY DEF Stop, ChangeDirectory, ListDirectory, ResolveFile, Finish, NoWalk
  <2>4. \A kind, absolute, path : ~Begin(kind, absolute, path)
    BY DEF Begin, Idle
  <2> QED BY <2>1, <2>2, <2>3, <2>4 DEF Next
<1> QED BY <1>1, <1>2, InitPath, PTL DEF Spec, UpIsParent

-----------------------------------------------------------------------------
(* In a tree of any depth: below a full stack the walk goes on unrecorded,   *)
(* and the cells still hold the beginning of the way.                        *)

\* The way of the tree to directory at, of which the stack and the names hold
\* what they have room for.
Way(way, stack, names, depth, at) ==
    /\ way \in [0..Level[at] -> Dirs]
    /\ way[0] = Root /\ way[Level[at]] = at
    /\ \A i \in 0..Level[at] : Level[way[i]] = i
    /\ \A i \in 1..Level[at] : way[i] \in Children(way[i - 1])
    /\ depth <= Level[at] /\ (depth < Level[at] => depth = MaxDepth)
    /\ \A i \in 1..depth : /\ stack[i] = way[i] /\ names[i] \in Names
                           /\ way[i] = Lookup[way[i - 1]][names[i]]
Recorded(stack, names, depth, at) == \E way : Way(way, stack, names, depth, at)

CwdInv ==
    /\ TypeOK
    /\ Recorded(g_path_stack, g_path_names, g_path_depth, g_current_dir_cluster)
    /\ Recorded(walk.stack, walk.names, walk.depth, walk.at)
    /\ CwdShowsTheWay

LEMMA RootRecorded == ASSUME NEW stack, NEW names PROVE Recorded(stack, names, 0, Root)
<1> DEFINE way == [i \in 0..0 |-> Root]
<1>1. Root \in Dirs /\ Level[Root] = 0
  BY TreeAssumption
<1>2. way \in [0..0 -> Dirs] /\ way[0] = Root
  BY <1>1
<1> HIDE DEF way
<1>3. \A i \in 0..0 : i = 0
  OBVIOUS
<1>4. Way(way, stack, names, 0, Root)
  BY <1>1, <1>2, <1>3 DEF Way
<1> QED BY <1>4 DEF Recorded

LEMMA UpRecorded ==
    ASSUME CwdInv, Up
    PROVE  Recorded(walk'.stack, walk'.names, walk'.depth, walk'.at)
<1>1. /\ walk.depth \in Nat /\ walk.depth <= MaxDepth /\ MaxDepth \in Nat \ {0}
      /\ walk.at \in Dirs
  BY LimitAssumption DEF CwdInv, TypeOK
<1>2. /\ walk'.stack = walk.stack /\ walk'.names = walk.names
      /\ walk'.at = Above(walk.depth) /\ walk'.depth = Popped(walk.depth)
  BY DEF Up, CwdInv, TypeOK
<1>3. CASE walk.depth <= 1
  <2>1. walk'.at = Root /\ walk'.depth = 0
    BY <1>1, <1>2, <1>3 DEF Above, Popped
  <2> QED BY <2>1, RootRecorded
<1>4. CASE walk.depth > 1
  <2> DEFINE k == walk.depth - 1
  <2>1. k \in Nat \ {0} /\ k < walk.depth /\ walk'.at = walk.stack[k] /\ walk'.depth = k
    BY <1>1, <1>2, <1>4 DEF Above, Popped
  <2>2. PICK way : Way(way, walk.stack, walk.names, walk.depth, walk.at)
    BY DEF CwdInv, Recorded
  <2>3. Level[walk.at] \in Nat /\ walk.depth <= Level[walk.at]
    BY <1>1, <2>2, TreeAssumption DEF Way
  <2> HIDE DEF k
  <2> DEFINE above == [i \in 0..k |-> way[i]]
  <2>4. 0..k \subseteq 0..Level[walk.at] /\ 1..k \subseteq 1..Level[walk.at] /\ k \in 1..walk.depth
    BY <1>1, <2>1, <2>3
  <2>5. way \in [0..Level[walk.at] -> Dirs]
    BY <2>2 DEF Way
  <2>6. above \in [0..k -> Dirs] /\ \A i \in 0..k : above[i] = way[i]
    BY <2>4, <2>5
  <2>7. \A i \in 1..k : i \in 0..k /\ i - 1 \in 0..k /\ i \in 1..walk.depth
    BY <1>1, <2>1
  <2>8. 0 \in 0..k /\ k \in 0..k
    BY <2>1
  <2> HIDE DEF above
  <2>9. walk'.at = way[k] /\ Level[walk'.at] = k
    <3>1. walk.stack[k] = way[k]
      BY <2>2, <2>4 DEF Way
    <3>2. \A i \in 0..Level[walk.at] : Level[way[i]] = i
      BY <2>2 DEF Way
    <3>3. Level[way[k]] = k
      BY <2>4, <2>8, <3>2
    <3> QED BY <2>1, <3>1, <3>3
  <2>10. /\ above[0] = Root /\ above[k] = walk'.at
         /\ \A i \in 0..k : Level[above[i]] = i
    BY <2>2, <2>4, <2>6, <2>8, <2>9 DEF Way
  <2>11. \A i \in 1..k : above[i] \in Children(above[i - 1])
    BY <2>2, <2>4, <2>6, <2>7 DEF Way
  <2>12. \A i \in 1..k : /\ walk.stack[i] = above[i] /\ walk.names[i] \in Names
                         /\ above[i] = Lookup[above[i - 1]][walk.names[i]]
    BY <2>2, <2>6, <2>7 DEF Way
  <2>13. Way(above, walk.stack, walk.names, k, walk'.at)
    BY <2>1, <2>6, <2>9, <2>10, <2>11, <2>12 DEF Way
  <2> QED BY <1>2, <2>1, <2>13 DEF Recorded
<1> QED BY <1>1, <1>3, <1>4

LEMMA DownRecorded ==
    ASSUME CwdInv, Down
    PROVE  Recorded(walk'.stack, walk'.names, walk'.depth, walk'.at)
<1> DEFINE d == Lookup[walk.at][Component]
           deep == Level[walk.at]
           k == walk.depth + 1
<1>1. /\ walk.depth \in Nat /\ walk.depth <= MaxDepth /\ MaxDepth \in Nat \ {0}
      /\ walk.at \in Dirs /\ walk.stack \in [Cells -> Dirs]
      /\ walk.names \in [Cells -> Names \cup {BadName}]
  BY LimitAssumption DEF CwdInv, TypeOK
<1>2. Component \in Names /\ d \in Dirs
  BY DEF Down
<1>3. deep \in Nat /\ Level[d] = deep + 1 /\ d \in Children(walk.at)
  BY <1>1, <1>2, TreeAssumption DEF Children
<1>4. /\ walk'.at = d
      /\ IF walk.depth < MaxDepth
         THEN /\ walk'.depth = k
              /\ walk'.stack = [walk.stack EXCEPT ![k] = d]
              /\ walk'.names = [walk.names EXCEPT ![k] = Component]
         ELSE walk'.depth = walk.depth /\ walk'.stack = walk.stack /\ walk'.names = walk.names
  BY DEF Down, CwdInv, TypeOK
<1>5. PICK way : Way(way, walk.stack, walk.names, walk.depth, walk.at)
  BY DEF CwdInv, Recorded
<1>6. /\ way \in [0..deep -> Dirs] /\ way[0] = Root /\ way[deep] = walk.at
      /\ \A i \in 0..deep : Level[way[i]] = i
      /\ \A i \in 1..deep : way[i] \in Children(way[i - 1])
      /\ walk.depth <= deep /\ (walk.depth < deep => walk.depth = MaxDepth)
      /\ \A i \in 1..walk.depth : /\ walk.stack[i] = way[i] /\ walk.names[i] \in Names
                                  /\ way[i] = Lookup[way[i - 1]][walk.names[i]]
  BY <1>5 DEF Way
<1>7. d = Lookup[walk.at][Component] /\ k = walk.depth + 1 /\ k \in Nat \ {0}
  BY <1>1
<1> HIDE DEF d, deep, k
<1> DEFINE longer == [i \in 0..deep + 1 |-> IF i <= deep THEN way[i] ELSE d]
<1>8. /\ longer \in [0..deep + 1 -> Dirs] /\ longer[deep + 1] = d
      /\ \A i \in 0..deep : longer[i] = way[i]
  BY <1>2, <1>3, <1>6
<1> HIDE DEF longer
<1>9. longer[0] = Root
  BY <1>3, <1>6, <1>8
<1>10. \A i \in 0..deep + 1 : Level[longer[i]] = i
  <2>1. TAKE i \in 0..deep + 1
  <2>2. i \in 0..deep \/ i = deep + 1
    BY <1>3
  <2> QED BY <1>3, <1>6, <1>8, <2>2
<1>11. \A i \in 1..deep + 1 : longer[i] \in Children(longer[i - 1])
  <2>1. TAKE i \in 1..deep + 1
  <2>2. (i \in 1..deep /\ i \in 0..deep /\ i - 1 \in 0..deep) \/ (i = deep + 1 /\ i - 1 = deep)
    BY <1>3
  <2>3. deep \in 0..deep
    BY <1>3
  <2> QED BY <1>3, <1>6, <1>8, <2>2, <2>3
<1>12. ASSUME NEW i \in 1..walk.depth
       PROVE  /\ i \in Cells /\ walk.stack[i] = longer[i] /\ walk.names[i] \in Names
              /\ longer[i] = Lookup[longer[i - 1]][walk.names[i]]
  <2>1. i \in Cells /\ i \in 0..deep /\ i - 1 \in 0..deep
    BY <1>1, <1>3, <1>6 DEF Cells
  <2> QED BY <1>6, <1>8, <2>1
<1>13. CASE walk.depth < MaxDepth
  <2>1. k = deep + 1 /\ k \in Cells /\ k - 1 = deep /\ deep \in 0..deep
    BY <1>1, <1>3, <1>6, <1>7, <1>13 DEF Cells
  <2>2. /\ walk'.stack[k] = d /\ walk'.names[k] = Component
        /\ \A i \in Cells : i # k => walk'.stack[i] = walk.stack[i] /\ walk'.names[i] = walk.names[i]
    BY <1>1, <1>4, <1>13, <2>1
  <2>3. ASSUME NEW i \in 1..k
        PROVE  /\ walk'.stack[i] = longer[i] /\ walk'.names[i] \in Names
               /\ longer[i] = Lookup[longer[i - 1]][walk'.names[i]]
    <3>1. CASE i = k
      BY <1>2, <1>6, <1>7, <1>8, <2>1, <2>2, <3>1
    <3>2. CASE i # k
      <4>1. i \in 1..walk.depth
        BY <1>1, <1>7, <3>2
      <4> QED BY <1>12, <2>2, <3>2, <4>1
    <3> QED BY <3>1, <3>2
  <2>4. Way(longer, walk'.stack, walk'.names, k, d)
    BY <1>3, <1>8, <1>9, <1>10, <1>11, <2>1, <2>3 DEF Way
  <2> QED BY <1>4, <1>13, <2>4 DEF Recorded
<1>14. CASE ~(walk.depth < MaxDepth)
  <2>1. walk.depth <= deep + 1 /\ walk.depth = MaxDepth
    BY <1>1, <1>3, <1>6, <1>14
  <2>2. Way(longer, walk.stack, walk.names, walk.depth, d)
    BY <1>3, <1>8, <1>9, <1>10, <1>11, <1>12, <2>1 DEF Way
  <2> QED BY <1>4, <1>14, <2>2 DEF Recorded
<1> QED BY <1>13, <1>14

\* A cd copies the cells that are in use, and shows the names in them.
LEMMA ChangeRecorded ==
    ASSUME CwdInv, ChangeDirectory
    PROVE  /\ Recorded(g_path_stack', g_path_names', g_path_depth', g_current_dir_cluster')
           /\ CwdShowsTheWay'
<1> DEFINE shown == Shown(walk.names, walk.depth)
           deep == Level[walk.at]
<1>1. /\ walk.depth \in 0..MaxDepth /\ walk.names \in [Cells -> Names \cup {BadName}]
      /\ walk.depth \in Nat /\ walk.depth <= MaxDepth /\ CwdNames \in Nat /\ MaxDepth \in Nat
      /\ walk.at \in Dirs
  BY LimitAssumption DEF CwdInv, TypeOK
<1>2. /\ Len(shown) = (IF walk.depth < CwdNames THEN walk.depth ELSE CwdNames)
      /\ \A i \in 1..Len(shown) : shown[i] = walk.names[i]
  BY <1>1, ShownType
<1>3. PICK way : Way(way, walk.stack, walk.names, walk.depth, walk.at)
  BY DEF CwdInv, Recorded
<1>4. deep \in Nat /\ walk.depth <= deep /\ (walk.depth < deep => walk.depth = MaxDepth)
  BY <1>1, <1>3, TreeAssumption DEF Way
<1>5. /\ g_cwd' = shown /\ g_path_depth' = walk.depth /\ g_current_dir_cluster' = walk.at
      /\ \A i \in Cells : i <= walk.depth =>
            g_path_stack'[i] = walk.stack[i] /\ g_path_names'[i] = walk.names[i]
  BY DEF ChangeDirectory
<1> HIDE DEF shown
<1>6. \A i \in 1..walk.depth : i \in Cells /\ i <= walk.depth
  BY <1>1 DEF Cells
<1>7. Way(way, g_path_stack', g_path_names', g_path_depth', g_current_dir_cluster')
  BY <1>3, <1>5, <1>6 DEF Way
<1>8. Len(shown) <= deep /\ (Len(shown) < deep => Len(shown) \in {CwdNames, MaxDepth})
  BY <1>1, <1>2, <1>4
<1>9. \A i \in 1..Len(shown) : i \in 1..walk.depth
  BY <1>1, <1>2
<1>10. /\ way \in [0..deep -> Dirs] /\ way[0] = Root /\ way[deep] = walk.at
       /\ \A i \in 1..deep : way[i] \in Children(way[i - 1])
       /\ \A i \in 1..Len(shown) :
             shown[i] \in Names /\ way[i] = Lookup[way[i - 1]][shown[i]]
  BY <1>2, <1>3, <1>9 DEF Way
<1> QED BY <1>5, <1>7, <1>8, <1>10 DEF Recorded, CwdShowsTheWay

LEMMA InitCwd == Init => CwdInv
<1> SUFFICES ASSUME Init PROVE CwdInv
  OBVIOUS
<1>1. /\ g_current_dir_cluster = Root /\ g_path_depth = 0 /\ g_cwd = <<>>
      /\ walk.at = Root /\ walk.depth = 0
  BY DEF Init, NoWalk
<1>2. Root \in Dirs /\ Level[Root] = 0
  BY TreeAssumption
<1>3. CwdShowsTheWay
  <2> DEFINE way == [i \in 0..0 |-> Root]
  <2>1. way \in [0..0 -> Dirs] /\ way[0] = Root
    BY <1>2
  <2>2. Len(g_cwd) = 0
    BY <1>1
  <2> HIDE DEF way
  <2> QED BY <1>1, <1>2, <2>1, <2>2 DEF CwdShowsTheWay
<1> QED BY <1>1, <1>3, RootRecorded, InitType DEF CwdInv

LEMMA NextCwd == CwdInv /\ [Next]_vars => CwdInv'
<1> SUFFICES ASSUME CwdInv, [Next]_vars PROVE CwdInv'
  OBVIOUS
<1>1. TypeOK'
  BY NextType DEF CwdInv
<1>2. ASSUME UNCHANGED current
      PROVE  /\ Recorded(g_path_stack', g_path_names', g_path_depth', g_current_dir_cluster')
             /\ CwdShowsTheWay'
  BY <1>2 DEF current, CwdInv, CwdShowsTheWay
<1>3. CASE UNCHANGED vars
  BY <1>1, <1>2, <1>3 DEF vars, CwdInv
<1>4. ASSUME NEW kind \in {"cd", "ls", "file"}, NEW absolute \in BOOLEAN, NEW path \in Paths,
             Begin(kind, absolute, path)
      PROVE  CwdInv'
  <2>1. Recorded(walk'.stack, walk'.names, walk'.depth, walk'.at)
    <3>1. CASE absolute
      BY <1>4, <3>1, RootRecorded DEF Begin
    <3>2. CASE ~absolute
      BY <1>4, <3>2 DEF Begin, CwdInv
    <3> QED BY <3>1, <3>2
  <2> QED BY <1>1, <1>2, <1>4, <2>1 DEF Begin, CwdInv
<1>5. CASE Stay
  BY <1>1, <1>2, <1>5 DEF Stay, CwdInv, TypeOK
<1>6. CASE Up
  BY <1>1, <1>2, <1>6, UpRecorded DEF Up, CwdInv
<1>7. CASE Down
  BY <1>1, <1>2, <1>7, DownRecorded DEF Down, CwdInv
<1>8. CASE Stop \/ ChangeDirectory \/ ListDirectory \/ ResolveFile
  <2>1. walk' = NoWalk
    BY <1>8 DEF Stop, ChangeDirectory, ListDirectory, ResolveFile, Finish
  <2>2. Recorded(walk'.stack, walk'.names, walk'.depth, walk'.at)
    BY <2>1, RootRecorded DEF NoWalk
  <2>3. CASE ChangeDirectory
    BY <1>1, <2>2, <2>3, ChangeRecorded DEF CwdInv
  <2>4. CASE UNCHANGED current
    BY <1>1, <1>2, <2>2, <2>4 DEF CwdInv
  <2> QED BY <1>8, <2>3, <2>4 DEF Stop, ListDirectory, ResolveFile
<1> QED BY <1>3, <1>4, <1>5, <1>6, <1>7, <1>8 DEF Next

\* In a tree of any depth, after every cd, failed or not, the names pwd shows
\* lead from the root along the way to the current directory, as far as g_cwd
\* and the stack have room (fat12.c:824-835).
THEOREM CwdIsTheWay == Spec => []CwdShowsTheWay
<1>1. CwdInv => CwdShowsTheWay
  BY DEF CwdInv
<1> QED BY <1>1, InitCwd, NextCwd, PTL DEF Spec
=============================================================================
