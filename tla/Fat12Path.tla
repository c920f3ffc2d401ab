----------------------------- MODULE Fat12Path -----------------------------
(***************************************************************************)
(* Paths and the current directory (fat12_change_directory,                 *)
(* fat12_locate_directory, fat12_resolve_parent_and_name, fat12_get_cwd).   *)
(*                                                                         *)
(* A walk goes through a path component by component; every component that  *)
(* is a name is a search of a directory, which may read the disk and fail.  *)
(* ".." is not looked up: the walk keeps the directories it came through on *)
(* a stack of MaxDepth cells, and so does the shell's current directory.    *)
(*                                                                         *)
(* The tree of directories is a constant: no call removes a directory.      *)
(***************************************************************************)
EXTENDS Naturals, Sequences

CONSTANTS
    Dirs,       \* the directories, by first cluster
    Root,
    Names,      \* names that have an 8.3 form
    Lookup,     \* Lookup[d][n]: the subdirectory n of d, or one of the next two
    NoEntry, AFile,
    Level,      \* how far a directory is from the root
    MaxDepth,   \* FAT12_MAX_PATH_DEPTH
    CwdNames,   \* how many names fit in g_cwd
    Paths,      \* the sequences of components callers pass
    BadName     \* a component without an 8.3 form

Children(d) == {Lookup[d][n] : n \in Names} \cap Dirs

ASSUME TreeAssumption ==
    /\ Root \in Dirs
    /\ Lookup \in [Dirs -> [Names -> Dirs \cup {NoEntry, AFile}]]
    /\ NoEntry \notin Dirs /\ AFile \notin Dirs /\ NoEntry # AFile
    /\ Level \in [Dirs -> Nat]
    /\ \A d \in Dirs : Level[d] = 0 <=> d = Root
    /\ \A d \in Dirs, n \in Names : Lookup[d][n] \in Dirs => Level[Lookup[d][n]] = Level[d] + 1
    /\ \A c, d \in Dirs, m, n \in Names :
          Lookup[c][m] = Lookup[d][n] /\ Lookup[c][m] \in Dirs => c = d /\ m = n

ASSUME LimitAssumption ==
    /\ MaxDepth \in Nat \ {0}
    /\ CwdNames \in Nat
    /\ ".." \notin Names /\ "." \notin Names /\ BadName \notin Names
    /\ BadName # "." /\ BadName # ".."
    /\ Paths \subseteq Seq(Names \cup {BadName, ".", ".."})

Cells == 1..MaxDepth
Kinds == {"none", "cd", "ls", "file"}

VARIABLES
    g_current_dir_cluster, g_path_stack, g_path_names, g_path_depth,
    g_cwd,      \* the names pwd shows
    walk,       \* the call in progress: its locals
    ret         \* what it returned, and the directory it found

current == <<g_current_dir_cluster, g_path_stack, g_path_names, g_path_depth, g_cwd>>
vars == <<current, walk, ret>>

NoWalk == [kind |-> "none", at |-> Root, stack |-> [i \in Cells |-> Root],
           names |-> [i \in Cells |-> BadName], depth |-> 0, rest |-> <<>>]
Returned(code, d) == [code |-> code, dir |-> d]

\* fat12_init.
Init ==
    /\ g_current_dir_cluster = Root
    /\ g_path_stack = NoWalk.stack
    /\ g_path_names = NoWalk.names
    /\ g_path_depth = 0
    /\ g_cwd = <<>>
    /\ walk = NoWalk
    /\ ret = Returned("none", Root)

-----------------------------------------------------------------------------
Idle == walk.kind = "none"

\* A path that starts with a slash starts at the root.
Begin(kind, absolute, path) ==
    /\ Idle
    /\ walk' = [kind |-> kind,
                at |-> IF absolute THEN Root ELSE g_current_dir_cluster,
                stack |-> g_path_stack, names |-> g_path_names,
                depth |-> IF absolute THEN 0 ELSE g_path_depth,
                rest |-> path]
    /\ ret' = Returned("none", Root)
    /\ UNCHANGED current

Finish(code, d) ==
    /\ walk' = NoWalk
    /\ ret' = Returned(code, d)

\* A component is left to walk; the last one of a file's path is its name.
Walking == walk.kind # "none" /\ Len(walk.rest) > (IF walk.kind = "file" THEN 1 ELSE 0)
Component == Head(walk.rest)

Stay ==
    /\ Walking /\ Component = "."
    /\ walk' = [walk EXCEPT !.rest = Tail(@)]
    /\ UNCHANGED <<current, ret>>

\* Faulty: the depth of the root is not checked.
PoppedAlways(depth) == depth - 1
Popped(depth) == IF depth > 0 THEN depth - 1 ELSE 0
\* The directory a stack of this depth leads to, after one was popped.
Above(depth) == IF depth <= 1 THEN Root ELSE walk.stack[depth - 1]

\* Faulty: ".." goes to the root.
UpToRoot ==
    /\ Walking /\ Component = ".."
    /\ walk' = [walk EXCEPT !.rest = Tail(@), !.at = Root, !.depth = 0]
    /\ UNCHANGED <<current, ret>>

Up ==
    /\ Walking /\ Component = ".."
    /\ walk' = [walk EXCEPT !.rest = Tail(@),
                            !.at = Above(walk.depth),
                            !.depth = Popped(@)]
    /\ UNCHANGED <<current, ret>>

\* A full stack keeps its cells; the walk goes down all the same.
Down ==
    /\ Walking /\ Component \in Names
    /\ LET d == Lookup[walk.at][Component] IN
       /\ d \in Dirs
       /\ walk' = IF walk.depth < MaxDepth
                  THEN [walk EXCEPT !.rest = Tail(@), !.at = d,
                                    !.stack[walk.depth + 1] = d,
                                    !.names[walk.depth + 1] = Component,
                                    !.depth = @ + 1]
                  ELSE [walk EXCEPT !.rest = Tail(@), !.at = d]
    /\ UNCHANGED <<current, ret>>

\* No such entry, not a directory, no 8.3 form; or the directory could not be
\* read (the root is in memory).
Stop ==
    /\ Walking
    /\ \/ Component = BadName /\ Finish("INVALID_NAME", Root)
       \/ /\ Component \in Names
          /\ \/ walk.at # Root /\ Finish("IO", Root)
             \/ Lookup[walk.at][Component] = NoEntry /\ Finish("NOT_FOUND", Root)
             \/ Lookup[walk.at][Component] = AFile /\ Finish("NOT_DIRECTORY", Root)
    /\ UNCHANGED current

\* Faulty: one name too many.
ShownMore(names, depth) == SubSeq(names, 1, IF depth < CwdNames THEN depth + 1 ELSE CwdNames)
\* fat12_rebuild_cwd shows what fits.
Shown(names, depth) == SubSeq(names, 1, IF depth < CwdNames THEN depth ELSE CwdNames)

\* Faulty: the cells are not copied back.
ChangeDirectoryOnly ==
    /\ walk.kind = "cd" /\ walk.rest = <<>>
    /\ g_current_dir_cluster' = walk.at
    /\ g_path_depth' = walk.depth
    /\ g_cwd' = Shown(walk.names, walk.depth)
    /\ Finish("OK", walk.at)
    /\ UNCHANGED <<g_path_stack, g_path_names>>

ChangeDirectory ==
    /\ walk.kind = "cd" /\ walk.rest = <<>>
    /\ g_current_dir_cluster' = walk.at
    /\ g_path_depth' = walk.depth
    /\ g_path_stack' = [i \in Cells |-> IF i <= walk.depth THEN walk.stack[i] ELSE g_path_stack[i]]
    /\ g_path_names' = [i \in Cells |-> IF i <= walk.depth THEN walk.names[i] ELSE g_path_names[i]]
    /\ g_cwd' = Shown(walk.names, walk.depth)
    /\ Finish("OK", walk.at)

\* fat12_iterate_path lists the directory, if it can be read.
ListDirectory ==
    /\ walk.kind = "ls" /\ walk.rest = <<>>
    /\ Finish("OK", walk.at) \/ (walk.at # Root /\ Finish("IO", Root))
    /\ UNCHANGED current

\* fat12_resolve_parent_and_name hands over the directory and the name.
ResolveFile ==
    /\ walk.kind = "file" /\ Len(walk.rest) <= 1
    /\ IF walk.rest # <<>> /\ Component \in Names
       THEN Finish("OK", walk.at)
       ELSE Finish("INVALID_NAME", Root)
    /\ UNCHANGED current

Next ==
    \/ Stay \/ Up \/ Down \/ Stop \/ ChangeDirectory \/ ListDirectory \/ ResolveFile
    \/ \E kind \in {"cd", "ls", "file"}, absolute \in BOOLEAN, path \in Paths :
          Begin(kind, absolute, path)

Spec == Init /\ [][Next]_vars

-----------------------------------------------------------------------------
\* Types: the depths stay inside the stacks.
TypeOK ==
    /\ g_current_dir_cluster \in Dirs
    /\ g_path_stack \in [Cells -> Dirs]
    /\ g_path_names \in [Cells -> Names \cup {BadName}]
    /\ g_path_depth \in 0..MaxDepth
    /\ g_cwd \in Seq(Names \cup {BadName})
    /\ walk \in [kind : Kinds, at : Dirs, stack : [Cells -> Dirs],
                 names : [Cells -> Names \cup {BadName}], depth : 0..MaxDepth,
                 rest : Seq(Names \cup {BadName, ".", ".."})]
    /\ ret \in [code : {"none", "OK", "IO", "INVALID_NAME", "NOT_FOUND", "NOT_DIRECTORY"},
                dir : Dirs]

\* stack[1..depth] is the way from the root to directory d, and names are what
\* it is called there.
LeadsTo(stack, names, depth, d) ==
    /\ d = (IF depth = 0 THEN Root ELSE stack[depth])
    /\ \A i \in Cells : i <= depth =>
          /\ names[i] \in Names
          /\ stack[i] = Lookup[IF i = 1 THEN Root ELSE stack[i - 1]][names[i]]

\* No directory is deeper than the stacks.
DepthFits == \A d \in Dirs : Level[d] <= MaxDepth

\* The current directory and the walk in progress know the way they came: the
\* stack leads from the root to the directory, through names that are there.
KnowsTheWay ==
    /\ LeadsTo(g_path_stack, g_path_names, g_path_depth, g_current_dir_cluster)
    /\ LeadsTo(walk.stack, walk.names, walk.depth, walk.at)

\* cd "supports ... `..`" (README.md:18): going up leads to the directory of
\* which the walk's directory is a child, and from the root to the root.
UpIsParent ==
    [][walk.kind # "none" /\ Len(walk.rest) > 0 /\ Component = ".." /\ walk'.kind # "none" =>
          \/ walk.at = Root /\ walk'.at = Root
          \/ walk.at \in Children(walk'.at)]_vars

\* The names pwd shows lead, looked up from the root one after the other, along
\* the way of the tree to the current directory, and all of it is shown but what
\* g_cwd or the stack has no room for (fat12_rebuild_cwd, fat12.c:824-835).
CwdShowsTheWay ==
    LET deep == Level[g_current_dir_cluster] IN
    /\ Len(g_cwd) <= deep
    /\ Len(g_cwd) < deep => Len(g_cwd) \in {CwdNames, MaxDepth}
    /\ \E way \in [0..deep -> Dirs] :
          /\ way[0] = Root /\ way[deep] = g_current_dir_cluster
          /\ \A i \in 1..deep : way[i] \in Children(way[i - 1])
          /\ \A i \in 1..Len(g_cwd) :
                g_cwd[i] \in Names /\ way[i] = Lookup[way[i - 1]][g_cwd[i]]
=============================================================================
