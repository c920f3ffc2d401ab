------------------------------- MODULE Fat12 -------------------------------
(***************************************************************************)
(* The FAT12 layer (fat12.c) over a disk whose transfers may fail.          *)
(*                                                                         *)
(* The FAT and the root directory are cached in memory and written back by  *)
(* flushes; every other cluster is read from and written to the disk        *)
(* directly.  One call runs at a time.  A call is broken into the steps     *)
(* between which the disk changes, so that a restart, a failed transfer or  *)
(* a look at the disk falls between any two of them:                        *)
(*                                                                         *)
(*   idle -> alloc -> fill -> ... -> entry -> root -> fats -> returned      *)
(*                                                                         *)
(* A cluster's bytes are abstracted to the directory slots they hold, or to *)
(* the payload and offset of the piece of file they hold.                   *)
(***************************************************************************)
EXTENDS Naturals, FiniteSets

CONSTANTS
    TotalClusters,  \* g_fs.total_clusters
    NumFats,        \* g_fs.num_fats
    FatPerSector,   \* FAT entries in one sector
    RootEntries,    \* g_fs.root_entry_count
    RootPerSector,  \* directory entries in one sector
    ClusterEntries, \* directory entries in one cluster
    ClusterSize,    \* g_fs.cluster_size_bytes, in units
    BufferSize,     \* max_size of fat12_read_file, in units
    Sizes,          \* the lengths callers write, in units
    Names,          \* 8.3 names
    Payloads,       \* what callers write
    NoPayload,      \* not a payload: zeroes
    SeedDir, SeedFile, SeedPayload, \* what the image builder puts on the disk
    MayFail,        \* kinds of transfer that may fail
    RestartFrom     \* control points at which the machine may restart

Faults == {"mount", "dir", "data", "flush"}
PCs == {"off", "idle", "alloc", "fill", "entry", "root", "fats", "returned", "halted"}

ASSUME GeometryAssumption ==
    /\ TotalClusters \in 2..4084
    /\ NumFats \in Nat \ {0}
    /\ FatPerSector \in Nat \ {0}
    /\ RootEntries \in Nat \ {0}
    /\ RootPerSector \in Nat \ {0}
    /\ ClusterEntries \in Nat \ {0, 1, 2}
    /\ ClusterSize \in Nat \ {0}
    /\ BufferSize \in Nat

ASSUME CallerAssumption ==
    /\ Sizes \subseteq Nat
    /\ {SeedDir, SeedFile} \subseteq Names
    /\ SeedPayload \in Payloads
    /\ NoPayload \notin Payloads
    /\ MayFail \subseteq Faults
    /\ RestartFrom \subseteq PCs

FREE == 0
EOC == 4088
Clusters == 2..(TotalClusters + 1)
Copies == 0..(NumFats - 1)
RootIndex == 0..(RootEntries - 1)
Slots == 0..(ClusterEntries - 1)

FatTables == [Clusters -> Clusters \cup {FREE, EOC}]

(***************************************************************************)
(* Directory entries.  The first byte of a name marks a slot that is free:  *)
(* END (0x00) also ends every scan, DELETED (0xE5) is skipped.              *)
(***************************************************************************)
END == "end"
DELETED == "deleted"
DOT == "."
DOTDOT == ".."

\* No name begins with one of these bytes (fat12_is_valid_char).
ASSUME NameAssumption == Names \cap {END, DELETED, DOT, DOTDOT} = {}

Entry(n, isdir, first, size) ==
    [name |-> n, dir |-> isdir, first |-> first, size |-> size]
Entries ==
    [name : Names \cup {END, DELETED, DOT, DOTDOT}, dir : BOOLEAN,
     first : Clusters \cup {0}, size : Nat]
Unused == Entry(END, FALSE, 0, 0)
IsFree(e) == e.name \in {END, DELETED}

Block(p, off, slot) == [pay |-> p, off |-> off, slot |-> slot]
Blocks == [pay : Payloads \cup {NoPayload}, off : Nat, slot : [Slots -> Entries]]
NoSlots == [i \in Slots |-> Unused]
Zeroes == Block(NoPayload, 0, NoSlots)
FilePiece(p, off) == Block(p, off, NoSlots)
\* The first cluster of a new directory: "." and ".." and nothing else.
DotEntries(self, parent) ==
    Block(NoPayload, 0,
          [i \in Slots |-> IF i = 0 THEN Entry(DOT, TRUE, self, 0)
                           ELSE IF i = 1 THEN Entry(DOTDOT, TRUE, parent, 0)
                           ELSE Unused])

VARIABLES
    g_fat_primary, g_root_dir,              \* the caches
    g_fat_dirty, g_root_dirty, g_fs_ready,
    disk_fat, disk_root, disk_data,         \* the disk, FAT copy by FAT copy
    pc, op, cur, res                        \* the call in progress

cache == <<g_fat_primary, g_root_dir, g_fat_dirty, g_root_dirty>>
image == <<disk_fat, disk_root, disk_data>>
control == <<pc, op, cur, res>>
vars == <<cache, g_fs_ready, image, control>>

\* What a walk along the links R that starts in A visits: it has seen all of
\* it after as many steps as there are clusters.
Visited(R, A) ==
    LET visited[n \in 0..TotalClusters] ==
            IF n = 0 THEN A
            ELSE LET before == visited[n - 1]
                 IN before \cup {l[2] : l \in {k \in R : k[1] \in before}}
    IN visited[TotalClusters] \cap Clusters
Links(f) == {<<x, f[x]>> : x \in {y \in Clusters : f[y] \in Clusters}}
Chain(f, c) == IF c \in Clusters THEN Visited(Links(f), {c}) ELSE {}
\* Faulty: only the first cluster is freed.
FreeChainHead(f, c) == [x \in Clusters |-> IF x = c THEN FREE ELSE f[x]]
FreeChain(f, c) ==
    LET gone == Chain(f, c) IN [x \in Clusters |-> IF x \in gone THEN FREE ELSE f[x]]

\* Faulty: the end of a chain is taken for a free cluster.
FirstNotLinked(f) ==
    {c \in Clusters : f[c] \notin Clusters /\ \A d \in Clusters : f[d] \notin Clusters => c <= d}
\* The cluster the allocator takes: the lowest free one.
FirstFree(f) ==
    {c \in Clusters : f[c] = FREE /\ \A d \in Clusters : f[d] = FREE => c <= d}
Last(f, c) == {x \in Chain(f, c) : f[x] \notin Clusters}

(***************************************************************************)
(* A volume is a FAT, a root directory and the clusters.  The code sees     *)
(* Mounted; a machine that starts now sees OnDisk.                          *)
(***************************************************************************)
Volume(f, r, d) ==
    [fat |-> f, root |-> r, data |-> d,
     reach |-> UNION {{c} \X Chain(f, c) : c \in Clusters}]
Mounted == Volume(g_fat_primary, g_root_dir, disk_data)
OnDisk == Volume(disk_fat[0], disk_root, disk_data)

\* A directory's slots, <<owner, index>>, in the order a scan meets them.
SlotsOf(v, d) ==
    IF d = 0 THEN {0} \X RootIndex
    ELSE {o \in Clusters : <<d, o>> \in v.reach} \X Slots
At(v, s) == IF s[1] = 0 THEN v.root[s[2]] ELSE v.data[s[1]].slot[s[2]]
Before(v, s, t) ==
    IF s[1] = t[1] THEN s[2] < t[2] ELSE <<s[1], t[1]>> \in v.reach
First(v, S) == {s \in S : \A t \in S : ~Before(v, t, s)}

\* Slots a scan reports: in use, and no END before them.
Visible(v, d) ==
    LET ends == {s \in SlotsOf(v, d) : At(v, s).name = END} IN
    {s \in SlotsOf(v, d) : ~IsFree(At(v, s)) /\ \A t \in ends : ~Before(v, t, s)}
FindEntry(v, d, n) == First(v, {s \in Visible(v, d) : At(v, s).name = n})
FindFreeEntry(v, d) == First(v, {s \in SlotsOf(v, d) : IsFree(At(v, s))})
\* Where fat12_write_directory_entry puts an entry, if no cluster is needed
\* (w is v: TLC computes its chains once).
Target(v, d, n) ==
    UNION {LET found == FindEntry(w, d, n) IN
           IF found # {} THEN found ELSE FindFreeEntry(w, d) : w \in {v}}

\* Directories a path can lead to: the root and what its tree holds.
Subdirectories(v, d) ==
    {At(v, s).first : s \in {t \in Visible(v, d) : At(v, t).dir /\ At(v, t).name \in Names}}
Directories(v) ==
    {0} \cup Visited(UNION {{d} \X Subdirectories(v, d) : d \in Clusters}, Subdirectories(v, 0))

(***************************************************************************)
(* The call in progress: its arguments, and the locals of the C function.   *)
(* new is new_cluster until the next allocation and prev_cluster from then; *)
(* old is old_cluster; done is bytes_written.                               *)
(***************************************************************************)
Kinds == {"none", "mount", "write", "mkdir", "rm", "read", "flush"}
Codes == {"none", "OK", "IO", "NO_FREE_CLUSTER", "NOT_FOUND", "ALREADY_EXISTS",
          "DIR_FULL", "BUFFER_SMALL", "NOT_FILE", "NOT_INITIALIZED"}

Call(kind, d, n, p, size, old) ==
    [kind |-> kind, dir |-> d, name |-> n, pay |-> p, size |-> size,
     first |-> 0, new |-> 0, done |-> 0, old |-> old]
NoCall == Call("none", 0, END, NoPayload, 0, 0)
Calls ==
    [kind : Kinds, dir : Clusters \cup {0}, name : Names \cup {END},
     pay : Payloads \cup {NoPayload}, size : Nat, first : Clusters \cup {0},
     new : Clusters \cup {0}, done : Nat, old : Clusters \cup {0}]

Returned(kind, code) == [call |-> kind, code |-> code]
Pending == Returned("none", "none")
\* The sector a flush writes next: FAT copy, and first entry it holds.
Start == [copy |-> 0, at |-> 0]

Goto(l) == pc' = l /\ cur' = Start /\ res' = Pending
Return(kind, code) ==
    /\ pc' = "returned"
    /\ op' = NoCall
    /\ cur' = Start
    /\ res' = Returned(kind, code)

\* The image scripts/build_fat12_image.py writes: a directory with a file.
SeedFat == [c \in Clusters |-> IF c \in {2, 3} THEN EOC ELSE FREE]
SeedRoot == [i \in RootIndex |-> IF i = 0 THEN Entry(SeedDir, TRUE, 2, 0) ELSE Unused]
SeedData ==
    [c \in Clusters |->
        IF c = 2 THEN [DotEntries(2, 0) EXCEPT !.slot[2] = Entry(SeedFile, FALSE, 3, 1)]
        ELSE IF c = 3 THEN FilePiece(SeedPayload, 0) ELSE Zeroes]

BlankFat == [c \in Clusters |-> FREE]
BlankRoot == [i \in RootIndex |-> Unused]

Init ==
    /\ disk_fat = [k \in Copies |-> SeedFat]
    /\ disk_root = SeedRoot
    /\ disk_data = SeedData
    /\ g_fat_primary = BlankFat /\ g_root_dir = BlankRoot
    /\ g_fat_dirty = FALSE /\ g_root_dirty = FALSE /\ g_fs_ready = FALSE
    /\ pc = "off"
    /\ op = NoCall
    /\ cur = Start
    /\ res = Pending

-----------------------------------------------------------------------------
(* fat12_init and the machine's power *)

Mount ==
    /\ pc = "off"
    /\ g_fat_primary' = disk_fat[0]
    /\ g_root_dir' = disk_root
    /\ g_fat_dirty' = FALSE
    /\ g_root_dirty' = FALSE
    /\ g_fs_ready' = TRUE
    /\ Return("mount", "OK")
    /\ UNCHANGED image

\* A read fails part way; what was cached before it is never used.
MountFails ==
    /\ pc = "off"
    /\ "mount" \in MayFail
    /\ Return("mount", "IO")
    /\ UNCHANGED <<cache, g_fs_ready, image>>

\* Power fails, or is cycled once the machine has halted.
Restart ==
    /\ pc \in RestartFrom \ {"off"}
    /\ g_fat_primary' = BlankFat /\ g_root_dir' = BlankRoot
    /\ g_fat_dirty' = FALSE /\ g_root_dirty' = FALSE /\ g_fs_ready' = FALSE
    /\ pc' = "off"
    /\ op' = NoCall
    /\ cur' = Start
    /\ res' = Pending
    /\ UNCHANGED image

-----------------------------------------------------------------------------
(* Calls begin, and their callers take what they return *)

TakeResult ==
    /\ pc = "returned"
    /\ Goto("idle")
    /\ UNCHANGED <<cache, g_fs_ready, image, op>>

Ready == pc = "idle" /\ g_fs_ready

Refused(kind) ==
    /\ pc = "idle"
    /\ ~g_fs_ready
    /\ Return(kind, "NOT_INITIALIZED")
    /\ UNCHANGED <<cache, g_fs_ready, image>>

\* fat12_find_entry on a directory outside the root reads the disk.
ScanMayFail(d) == "dir" \in MayFail /\ d # 0

ReturnAtOnce(kind, code) == Return(kind, code) /\ UNCHANGED <<cache, g_fs_ready, image>>

ReadFile(d, n) ==
    /\ Ready
    /\ LET found == FindEntry(Mounted, d, n) IN
       \/ ScanMayFail(d) /\ ReturnAtOnce("read", "IO")
       \/ found = {} /\ ReturnAtOnce("read", "NOT_FOUND")
       \/ \E s \in found :
             LET e == At(Mounted, s) IN
             \/ e.dir /\ ReturnAtOnce("read", "NOT_FILE")
             \/ ~e.dir /\ e.size > BufferSize /\ ReturnAtOnce("read", "BUFFER_SMALL")
             \/ ~e.dir /\ e.size <= BufferSize /\ ReturnAtOnce("read", "OK")
             \/ /\ ~e.dir /\ e.size \in 1..BufferSize
                /\ "data" \in MayFail
                /\ ReturnAtOnce("read", "IO")

WriteFile(d, n) ==
    /\ Ready
    /\ LET found == FindEntry(Mounted, d, n)
           Begin(old) == \E p \in Payloads, size \in Sizes :
                            /\ op' = Call("write", d, n, p, size, old)
                            /\ Goto(IF size > 0 THEN "alloc" ELSE "entry")
                            /\ UNCHANGED <<cache, g_fs_ready, image>>
       IN \/ ScanMayFail(d) /\ ReturnAtOnce("write", "IO")
          \/ found = {} /\ Begin(0)
          \/ \E s \in found :
                \/ At(Mounted, s).dir /\ ReturnAtOnce("write", "ALREADY_EXISTS")
                \/ ~At(Mounted, s).dir /\ Begin(At(Mounted, s).first)

\* Only a find that succeeds stops a mkdir: one that fails with an I/O error
\* is taken for "not found".
CreateDirectory(d, n) ==
    /\ Ready
    /\ \/ FindEntry(Mounted, d, n) # {} /\ ReturnAtOnce("mkdir", "ALREADY_EXISTS")
       \/ /\ FindEntry(Mounted, d, n) = {} \/ ScanMayFail(d)
          /\ op' = Call("mkdir", d, n, NoPayload, 0, 0)
          /\ Goto("alloc")
          /\ UNCHANGED <<cache, g_fs_ready, image>>

-----------------------------------------------------------------------------
(* fat12_write_entry: the root is cached, other directories are on disk *)

SlotWritten(s, e) == [disk_data EXCEPT ![s[1]].slot[s[2]] = e]

\* Faulty: the cached root is not marked dirty.
WriteEntryQuietly(s, e) ==
    \/ /\ s[1] = 0
       /\ g_root_dir' = [g_root_dir EXCEPT ![s[2]] = e]
       /\ UNCHANGED <<g_root_dirty, disk_data>>
    \/ /\ s[1] # 0
       /\ disk_data' = SlotWritten(s, e)
       /\ UNCHANGED <<g_root_dir, g_root_dirty>>

WriteEntry(s, e) ==
    \/ /\ s[1] = 0
       /\ g_root_dir' = [g_root_dir EXCEPT ![s[2]] = e]
       /\ g_root_dirty' = TRUE
       /\ UNCHANGED disk_data
    \/ /\ s[1] # 0
       /\ disk_data' = SlotWritten(s, e)
       /\ UNCHANGED <<g_root_dir, g_root_dirty>>

\* A write that is reported to have failed may have reached the disk.
WriteEntryFails(s, e) ==
    /\ "dir" \in MayFail
    /\ s[1] # 0
    /\ disk_data' \in {disk_data, SlotWritten(s, e)}
    /\ UNCHANGED <<g_root_dir, g_root_dirty>>

\* Faulty: the slot is marked as the directory's end.
MarkEnd(e) == [e EXCEPT !.name = END, !.size = 0, !.first = 0]
\* fat12_mark_entry_deleted.
MarkDeleted(e) == [e EXCEPT !.name = DELETED, !.size = 0, !.first = 0]

\* The chain goes before the entry does.
DeleteFile(d, n) ==
    /\ Ready
    /\ LET found == FindEntry(Mounted, d, n) IN
       \/ ScanMayFail(d) /\ ReturnAtOnce("rm", "IO")
       \/ found = {} /\ ReturnAtOnce("rm", "NOT_FOUND")
       \/ \E s \in found :
             LET e == At(Mounted, s)
                 gone == MarkDeleted(e)
             IN \/ e.dir /\ ReturnAtOnce("rm", "NOT_FILE")
                \/ /\ ~e.dir
                   /\ g_fat_primary' = FreeChain(g_fat_primary, e.first)
                   /\ g_fat_dirty' = (g_fat_dirty \/ e.first # 0)
                   /\ \/ /\ WriteEntry(s, gone)
                         /\ op' = Call("rm", d, n, NoPayload, 0, 0)
                         /\ Goto("root")
                      \/ /\ WriteEntryFails(s, gone)
                         /\ Return("rm", "IO")
                   /\ UNCHANGED <<g_fs_ready, disk_fat, disk_root>>

\* handle_shutdown flushes what is mounted, and halts.
Shutdown ==
    /\ pc = "idle"
    /\ op' = Call("flush", 0, END, NoPayload, 0, 0)
    /\ Goto(IF g_fs_ready THEN "root" ELSE "halted")
    /\ UNCHANGED <<cache, g_fs_ready, image>>

-----------------------------------------------------------------------------
(* The steps of fat12_write_file and fat12_create_directory *)

\* Faulty: a write that fails frees the file it was to replace.
AbandonOld(code, touched) ==
    /\ g_fat_primary' = FreeChain(FreeChain(g_fat_primary, op.first), op.old)
    /\ g_fat_dirty' = (g_fat_dirty \/ touched \/ op.first # 0 \/ op.old # 0)
    /\ Return(op.kind, code)
    /\ UNCHANGED <<g_root_dir, g_root_dirty, g_fs_ready, disk_fat, disk_root>>

\* A call gives back what it allocated and returns.  touched: the FAT was
\* written to, and written back, before.
Abandon(code, touched) ==
    /\ g_fat_primary' = FreeChain(g_fat_primary, op.first)
    /\ g_fat_dirty' = (g_fat_dirty \/ touched \/ op.first # 0)
    /\ Return(op.kind, code)
    /\ UNCHANGED <<g_root_dir, g_root_dirty, g_fs_ready, disk_fat, disk_root>>

\* The cluster after prev is c, and c is the last.
Link(f, prev, c) ==
    [x \in Clusters |-> IF x = c THEN EOC ELSE IF x = prev THEN c ELSE f[x]]

\* fat12_allocate_cluster marks a cluster and writes zeroes to it.
Allocate ==
    /\ pc = "alloc"
    /\ \E c \in FirstFree(g_fat_primary) :
          /\ g_fat_primary' = Link(g_fat_primary, op.new, c)
          /\ g_fat_dirty' = TRUE
          /\ disk_data' = [disk_data EXCEPT ![c] = Zeroes]
          /\ op' = [op EXCEPT !.new = c, !.first = IF op.first = 0 THEN c ELSE op.first]
    /\ Goto("fill")
    /\ UNCHANGED <<g_root_dir, g_root_dirty, g_fs_ready, disk_fat, disk_root>>

\* Faulty: with no cluster free, the search starts over.
NoClusterSpins ==
    /\ "data" \in MayFail
    /\ \E c \in FirstFree(g_fat_primary) :
          disk_data' \in {disk_data, [disk_data EXCEPT ![c] = Zeroes]}
    /\ Abandon("NO_FREE_CLUSTER", TRUE)

\* No cluster is free, or the zeroes could not be written.
NoCluster ==
    \/ /\ FirstFree(g_fat_primary) = {}
       /\ UNCHANGED disk_data
       /\ Abandon("NO_FREE_CLUSTER", FALSE)
    \/ /\ "data" \in MayFail
       /\ \E c \in FirstFree(g_fat_primary) :
             disk_data' \in {disk_data, [disk_data EXCEPT ![c] = Zeroes]}
       /\ Abandon("NO_FREE_CLUSTER", TRUE)

AllocateFails == pc = "alloc" /\ NoCluster

\* What the call writes to the cluster it has just allocated.
Content == IF op.kind = "mkdir" THEN DotEntries(op.new, op.dir)
           ELSE FilePiece(op.pay, op.done)
Written == IF op.done + ClusterSize < op.size THEN op.done + ClusterSize ELSE op.size

Fill ==
    /\ pc = "fill"
    /\ disk_data' = [disk_data EXCEPT ![op.new] = Content]
    /\ op' = [op EXCEPT !.done = Written]
    /\ Goto(IF Written < op.size THEN "alloc" ELSE "entry")
    /\ UNCHANGED <<cache, g_fs_ready, disk_fat, disk_root>>

FillFails ==
    /\ pc = "fill"
    /\ "data" \in MayFail
    /\ disk_data' \in {disk_data, [disk_data EXCEPT ![op.new] = Content]}
    /\ Abandon("IO", FALSE)

NewEntry == Entry(op.name, op.kind = "mkdir", op.first, op.size)

\* The entry is written; then the clusters of the file it replaces are freed.
PutEntry ==
    /\ pc = "entry"
    /\ \E s \in Target(Mounted, op.dir, op.name) : WriteEntry(s, NewEntry)
    /\ g_fat_primary' = FreeChain(g_fat_primary, op.old)
    /\ g_fat_dirty' = (g_fat_dirty \/ op.old # 0)
    /\ UNCHANGED <<op, g_fs_ready, disk_fat, disk_root>>
    /\ Goto("root")

\* A directory without a free slot grows by a cluster; the root cannot.
ExtendDirectory ==
    /\ pc = "entry"
    /\ op.dir # 0
    /\ Target(Mounted, op.dir, op.name) = {}
    /\ \E c \in FirstFree(g_fat_primary), prev \in Last(g_fat_primary, op.dir) :
          /\ g_fat_primary' = Link(g_fat_primary, prev, c)
          /\ disk_data' = [disk_data EXCEPT ![c] = Zeroes]
    /\ g_fat_dirty' = TRUE
    /\ UNCHANGED <<g_root_dir, g_root_dirty, g_fs_ready, disk_fat, disk_root, control>>

PutEntryFails ==
    /\ pc = "entry"
    /\ LET target == Target(Mounted, op.dir, op.name) IN
       \/ /\ ScanMayFail(op.dir)
          /\ UNCHANGED disk_data
          /\ Abandon("IO", FALSE)
       \/ /\ \E s \in target : WriteEntryFails(s, NewEntry)
          /\ Abandon("IO", FALSE)
       \/ /\ target = {} /\ op.dir = 0
          /\ UNCHANGED disk_data
          /\ Abandon("DIR_FULL", FALSE)
       \/ /\ target = {} /\ op.dir # 0
          /\ NoCluster

-----------------------------------------------------------------------------
(* Flushes, a sector at a time.  The calls ignore a flush that fails;       *)
(* fat12_flush returns at once.                                             *)

Sector(from, size, new, old) ==
    [i \in DOMAIN old |-> IF from <= i /\ i < from + size THEN new[i] ELSE old[i]]
RootWritten == Sector(cur.at, RootPerSector, g_root_dir, disk_root)
\* Faulty: every copy is written where the first one is.
FatWrittenOnce ==
    [disk_fat EXCEPT ![0] = Sector(cur.at, FatPerSector, g_fat_primary, disk_fat[0])]
FatWritten ==
    [disk_fat EXCEPT ![cur.copy] = Sector(cur.at, FatPerSector, g_fat_primary, disk_fat[cur.copy])]

\* Faulty: one sector is enough.
OneRootSector == FALSE
MoreRootSectors == cur.at + RootPerSector < RootEntries
\* Faulty: one copy too many.
OneMoreCopy == cur.copy < NumFats
MoreCopies == cur.copy + 1 < NumFats

FlushRoot ==
    /\ pc = "root"
    /\ \/ /\ ~g_root_dirty
          /\ Goto("fats")
          /\ UNCHANGED <<disk_root, g_root_dirty>>
       \/ /\ g_root_dirty
          /\ disk_root' = RootWritten
          /\ IF MoreRootSectors
             THEN /\ cur' = [cur EXCEPT !.at = cur.at + RootPerSector]
                  /\ UNCHANGED <<pc, res, g_root_dirty>>
             ELSE /\ Goto("fats")
                  /\ g_root_dirty' = FALSE
    /\ UNCHANGED <<op, g_root_dir, g_fat_primary, g_fat_dirty, g_fs_ready, disk_fat, disk_data>>

\* Faulty: a failed flush leaves the cache clean.
FlushRootForgets ==
    /\ pc = "root"
    /\ "flush" \in MayFail
    /\ g_root_dirty
    /\ disk_root' \in {disk_root, RootWritten}
    /\ IF op.kind = "flush" THEN pc' = "halted" ELSE pc' = "fats"
    /\ cur' = Start
    /\ g_root_dirty' = FALSE
    /\ UNCHANGED <<op, res, g_fat_primary, g_root_dir, g_fat_dirty, g_fs_ready, disk_fat, disk_data>>

FlushRootFails ==
    /\ pc = "root"
    /\ "flush" \in MayFail
    /\ g_root_dirty
    /\ disk_root' \in {disk_root, RootWritten}
    /\ IF op.kind = "flush" THEN pc' = "halted" ELSE pc' = "fats"
    /\ cur' = Start
    /\ UNCHANGED <<op, res, cache, g_fs_ready, disk_fat, disk_data>>

\* After the flush of a shutdown the machine halts, whatever it returned.
Leave == IF op.kind = "flush" THEN Goto("halted") /\ UNCHANGED op ELSE Return(op.kind, "OK")

FlushFats ==
    /\ pc = "fats"
    /\ \/ /\ ~g_fat_dirty
          /\ Leave
          /\ UNCHANGED <<disk_fat, g_fat_dirty>>
       \/ /\ g_fat_dirty
          /\ disk_fat' = FatWritten
          /\ IF cur.at + FatPerSector <= TotalClusters + 1
             THEN /\ cur' = [cur EXCEPT !.at = cur.at + FatPerSector]
                  /\ UNCHANGED <<pc, op, res, g_fat_dirty>>
             ELSE IF MoreCopies
             THEN /\ cur' = [copy |-> cur.copy + 1, at |-> 0]
                  /\ UNCHANGED <<pc, op, res, g_fat_dirty>>
             ELSE /\ Leave
                  /\ g_fat_dirty' = FALSE
    /\ UNCHANGED <<g_fat_primary, g_root_dir, g_root_dirty, g_fs_ready, disk_root, disk_data>>

FlushFatsFails ==
    /\ pc = "fats"
    /\ "flush" \in MayFail
    /\ g_fat_dirty
    /\ disk_fat' \in {disk_fat, FatWritten}
    /\ Leave
    /\ UNCHANGED <<cache, g_fs_ready, disk_root, disk_data>>

-----------------------------------------------------------------------------
Step ==
    \/ Allocate \/ AllocateFails \/ Fill \/ FillFails
    \/ PutEntry \/ ExtendDirectory \/ PutEntryFails
    \/ FlushRoot \/ FlushRootFails \/ FlushFats \/ FlushFatsFails
    \/ TakeResult

Next ==
    \/ Mount \/ MountFails \/ Restart \/ Shutdown \/ Step
    \/ \E k \in {"write", "mkdir", "rm", "read"} : Refused(k)
    \/ \E d \in Directories(Mounted), n \in Names :
          \/ ReadFile(d, n)
          \/ WriteFile(d, n)
          \/ CreateDirectory(d, n)
          \/ DeleteFile(d, n)

Spec == Init /\ [][Next]_vars
\* The processor executes the call it is in; callers need not call.
FairSpec == Spec /\ WF_vars(Step)

-----------------------------------------------------------------------------
(* Properties of the FAT and the caches *)

\* Every variable has the type the C declarations and the code's masks give it.
TypeOK ==
    /\ g_fat_primary \in FatTables
    /\ g_root_dir \in [RootIndex -> Entries]
    /\ g_fat_dirty \in BOOLEAN /\ g_root_dirty \in BOOLEAN /\ g_fs_ready \in BOOLEAN
    /\ disk_fat \in [Copies -> FatTables]
    /\ disk_root \in [RootIndex -> Entries]
    /\ disk_data \in [Clusters -> Blocks]
    /\ pc \in PCs
    /\ op \in Calls
    /\ cur \in [copy : Copies, at : Nat]
    /\ res \in [call : Kinds, code : Codes]

\* A clean cache is on the disk: with g_root_dirty clear the root directory on
\* disk is the cached one, and with g_fat_dirty clear so is the FAT a mount
\* reads, whatever failed and wherever the machine restarted
\* (fat12_flush_root and fat12_flush_fats clear the flags only at their end,
\* every change of a cache sets its flag).
Durable ==
    g_fs_ready =>
        /\ ~g_root_dirty => disk_root = g_root_dir
        /\ ~g_fat_dirty => disk_fat[0] = g_fat_primary

\* What a flush in progress has passed is on the disk: the root sectors before
\* the cursor, the FAT copies before the one being written, and the sectors of
\* that one before the cursor.  With TypeOK and Durable this is inductive.
FlushProgress ==
    /\ pc = "root" /\ g_root_dirty =>
          \A i \in RootIndex : i < cur.at => disk_root[i] = g_root_dir[i]
    /\ pc = "fats" /\ g_fat_dirty =>
          /\ \A k \in Copies : k < cur.copy => disk_fat[k] = g_fat_primary
          /\ \A c \in Clusters : c < cur.at => disk_fat[cur.copy][c] = g_fat_primary[c]

\* A FAT flush that completes leaves every copy of the FAT equal to the cache,
\* also when an earlier flush failed or was cut off between two copies.
FlushMirrors ==
    [][pc = "fats" /\ g_fat_dirty /\ ~g_fat_dirty' =>
          pc' = "off" \/ \A k \in Copies : disk_fat'[k] = g_fat_primary']_vars

InUse(v) ==
    {s \in UNION {Visible(v, d) : d \in Directories(v)} : At(v, s).name \in Names}
Holds(v, s) == {c \in Clusters : <<At(v, s).first, c>> \in v.reach}
\* The clusters a call has allocated and not yet given to an entry.
Building == IF pc \in {"alloc", "fill", "entry"} THEN Chain(g_fat_primary, op.first) ELSE {}

\* No cluster belongs to two entries, nor to an entry and to the file being
\* written (fat12_allocate_cluster, fat12_free_chain).
NoCrossLink ==
    g_fs_ready =>
        LET v == Mounted  used == InUse(v) IN
        \A s \in used :
            /\ Holds(v, s) \cap Building = {}
            /\ \A t \in used \ {s} : Holds(v, s) \cap Holds(v, t) = {}

\* A cluster is marked in the FAT exactly when an entry or the call in progress
\* holds it: nothing an entry leads to is free, and nothing is lost, whichever
\* step of a call fails.
AllocatedIffHeld ==
    g_fs_ready =>
        LET v == Mounted IN
        {c \in Clusters : g_fat_primary[c] # FREE} =
            Building \cup UNION {Holds(v, s) : s \in InUse(v)}

\* What a scan of a directory sees is all there is: no entry lies behind an
\* END, and no name occurs twice.
DirectoriesSound ==
    g_fs_ready =>
        LET v == Mounted IN
        \A d \in Directories(v) :
            /\ \A s \in SlotsOf(v, d) : ~IsFree(At(v, s)) => s \in Visible(v, d)
            /\ \A s, t \in Visible(v, d) : At(v, s).name = At(v, t).name => s = t

\* The disk by itself is a volume that a mount can use, but between the writing
\* of an entry and the end of the flushes: a call that has not come to its entry
\* has changed nothing that an entry on the disk holds, one that returned has
\* left no cluster of the disk lost or with two owners, and a scan finds all.
DiskSound ==
    pc \notin {"root", "fats"} =>
        LET v == OnDisk  used == InUse(v) IN
        /\ {c \in Clusters : v.fat[c] # FREE} = UNION {Holds(v, s) : s \in used}
        /\ \A s \in used : \A t \in used \ {s} : Holds(v, s) \cap Holds(v, t) = {}
        /\ \A d \in Directories(v) :
              /\ \A s \in SlotsOf(v, d) : ~IsFree(At(v, s)) => s \in Visible(v, d)
              /\ \A s, t \in Visible(v, d) : At(v, s).name = At(v, t).name => s = t

\* Every call returns (or the machine goes down).
CallsReturn == pc \in {"alloc", "fill", "entry", "root", "fats"} ~> pc \in {"returned", "halted", "off"}
=============================================================================
