---------------------------- MODULE Fat12Store -----------------------------
(***************************************************************************)
(* The files and directories a volume of Fat12 holds, as a caller of        *)
(* fat12.c reads them, and the properties that are about them: the FAT12    *)
(* layer implements FileStore, and what is on the disk between two steps of *)
(* a call.                                                                  *)
(***************************************************************************)
EXTENDS Fat12

\* How many clusters of a file come before cluster c.
Position(v, first, c) ==
    Cardinality({x \in Clusters \ {c} : <<first, x>> \in v.reach /\ <<x, c>> \in v.reach})

\* fat12_read_file copies the clusters of the chain in order until it has
\* file_size units.  Garbled is what it returns when they are not all pieces
\* of one write, each in its place.
Garbled == "garbled"
ReadBack(v, e) ==
    LET chain == {c \in Clusters : <<e.first, c>> \in v.reach}
        read == {c \in chain : Position(v, e.first, c) * ClusterSize < e.size}
        whole == {p \in Payloads :
                     \A c \in read : /\ v.data[c].pay = p
                                     /\ v.data[c].off = Position(v, e.first, c) * ClusterSize}
    IN IF e.size = 0 THEN "none"
       ELSE IF Cardinality(read) * ClusterSize >= e.size /\ whole # {}
            THEN CHOOSE p \in whole : TRUE
            ELSE Garbled

Node(v, k, e) ==
    IF e.dir THEN [at |-> k, dir |-> TRUE, id |-> e.first, pay |-> "none", size |-> 0]
    ELSE [at |-> k, dir |-> FALSE, id |-> 0, pay |-> ReadBack(v, e), size |-> e.size]

Listing(v, d) ==
    UNION {{Node(v, <<d, n>>, At(v, s)) : s \in FindEntry(v, d, n)} : n \in Names}
\* The tree of volume vol (w ranges over vol alone, so that TLC computes its
\* chains once).
Tree(vol) == UNION {UNION {Listing(w, d) : d \in Directories(w)} : w \in {vol}}

-----------------------------------------------------------------------------
\* The call that has taken effect: its entry is written, its flushes are not.
Applied == IF pc \in {"root", "fats"} /\ op.kind # "flush" THEN op.kind ELSE "none"

Store ==
    INSTANCE FileStore WITH
        Root <- 0, Sizes <- Sizes \cup {1}, DirIds <- Clusters \cup {0},
        tree <- Tree(IF g_fs_ready THEN Mounted ELSE OnDisk),
        applied <- Applied, ret <- res

\* fat12_write_file, fat12_create_directory and fat12_delete_file change the
\* tree in one step or not at all: OK is returned after exactly one change,
\* an error after none, a file reads back as it was last written, a replaced
\* file is the old one or the new one, and a clean shutdown loses nothing.
ImplementsFileStore == Store!Spec

\* Between any two steps of a call, a machine that lost power would find every
\* file and directory but the one the call is about as the caller left it
\* (clusters are only ever taken from the free ones, and the old chain is
\* freed in memory before it is freed on the disk).
BystandersOnDisk ==
    g_fs_ready =>
        LET Others(v) == {n \in Tree(v) : n.at # <<op.dir, op.name>>}
        IN Others(OnDisk) = Others(Mounted)

\* A write, mkdir or rm that returned OK is on the disk: the root directory
\* and every copy of the FAT hold what the caches hold (README.md:88: "Every
\* update touches both FAT copies and flushes directory metadata back to
\* disk").
OkMeansFlushed ==
    res.call \in {"write", "mkdir", "rm"} /\ res.code = "OK" =>
        /\ disk_root = g_root_dir
        /\ \A k \in Copies : disk_fat[k] = g_fat_primary

\* A mkdir never changes or removes what was there before it: it "creates new
\* directories" (README.md:280).
MkdirOnlyAdds ==
    [][op.kind = "mkdir" /\ pc' # "off" => Tree(Mounted) \subseteq Tree(Mounted)']_vars
=============================================================================
