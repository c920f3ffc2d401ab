----------------------------- MODULE FileStore -----------------------------
(***************************************************************************)
(* What the FAT12 layer promises its callers (the shell commands and nano): *)
(* a tree of directories and files that each call changes in one step or    *)
(* not at all.  A file is a payload and a length, a directory an identity.  *)
(* A call that returns OK has taken effect exactly once, one that returns   *)
(* an error has left every file and directory as it was.                    *)
(***************************************************************************)
EXTENDS Naturals

CONSTANTS
    Names,      \* short names
    Payloads,   \* what a caller stores in a file
    Sizes,      \* the lengths a caller stores
    Codes,      \* what a call may return, "OK" among them
    DirIds,     \* identities of directories; Root is one of them
    Root

VARIABLES
    tree,       \* the files and directories, each at its <<directory, name>>
    applied,    \* the kind of the call that took effect and did not return
    ret         \* what the last call returned: [call, code]

vars == <<tree, applied, ret>>

NoCall == "none"
Changing == {"write", "mkdir", "rm"}
Looking == {"mount", "read", "flush"}

Pending == [call |-> NoCall, code |-> NoCall]

File(k, p, s) ==
    [at |-> k, dir |-> FALSE, id |-> Root, pay |-> IF s = 0 THEN NoCall ELSE p, size |-> s]
Directory(k, d) == [at |-> k, dir |-> TRUE, id |-> d, pay |-> NoCall, size |-> 0]

Subdirs == {n.id : n \in {m \in tree : m.dir}}
Places == (Subdirs \cup {Root}) \X Names
NodesAt(k) == {n \in tree : n.at = k}

Init ==
    /\ \E k \in {Root} \X Names, d \in DirIds \ {Root}, n \in Names, p \in Payloads, s \in Sizes :
          tree = {Directory(k, d), File(<<d, n>>, p, s)}
    /\ applied = NoCall
    /\ ret = Pending

\* The call whose effect is seen now has not returned.
Takes(call) == applied = NoCall /\ applied' = call /\ ret' = Pending

\* A file is created or replaced, whole.
Write(k) ==
    /\ Takes("write")
    /\ \A n \in NodesAt(k) : ~n.dir
    /\ \E p \in Payloads, s \in Sizes : tree' = (tree \ NodesAt(k)) \cup {File(k, p, s)}

\* A directory appears, empty, under a name nothing had.
MkDir(k) ==
    /\ Takes("mkdir")
    /\ NodesAt(k) = {}
    /\ \E d \in DirIds \ (Subdirs \cup {Root}) : tree' = tree \cup {Directory(k, d)}

\* A file, never a directory, disappears.
Remove(k) ==
    /\ Takes("rm")
    /\ \E n \in NodesAt(k) : ~n.dir /\ tree' = tree \ {n}

\* A call that took effect returns OK.
Done ==
    /\ applied # NoCall
    /\ applied' = NoCall
    /\ ret' = [call |-> applied, code |-> "OK"]
    /\ UNCHANGED tree

\* A call that took no effect is in progress, returned an error, or is one
\* that only looks.
Idle ==
    /\ applied = NoCall
    /\ applied' = NoCall
    /\ \/ ret' = Pending
       \/ \E c \in Changing, r \in Codes \ {"OK"} : ret' = [call |-> c, code |-> r]
       \/ \E c \in Looking, r \in Codes : ret' = [call |-> c, code |-> r]
    /\ UNCHANGED tree

Next ==
    \/ Idle
    \/ Done
    \/ \E k \in Places : Write(k) \/ MkDir(k) \/ Remove(k)

Spec == Init /\ [][Next]_vars
=============================================================================
