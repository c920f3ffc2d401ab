---------------------------- MODULE Fat12Proofs ----------------------------
(***************************************************************************)
(* Proofs about Fat12, for every geometry, every set of faults and every    *)
(* set of control points at which the machine may restart: what the calls   *)
(* leave in memory and on the disk.  The FAT and the directories stay       *)
(* consistent, and a call that returned OK is on the disk.                  *)
(***************************************************************************)
EXTENDS Fat12Store, Induction

\* Walks visit clusters, and freeing a chain or linking a cluster leaves a FAT
\* whose entries are links, FREE or EOC.
LEMMA FreeChainType ==
    ASSUME NEW f \in FatTables, NEW c
    PROVE  FreeChain(f, c) \in FatTables
BY DEF FreeChain, FatTables

LEMMA LinkType ==
    ASSUME NEW f \in FatTables, NEW c \in Clusters, NEW prev
    PROVE  Link(f, prev, c) \in FatTables
BY DEF Link, FatTables

\* A sector written from one table of a type to another leaves that type.
LEMMA SectorType ==
    ASSUME NEW T, NEW D, NEW new \in [D -> T], NEW old \in [D -> T],
           NEW from \in Nat, NEW size \in Nat
    PROVE  Sector(from, size, new, old) \in [D -> T]
BY DEF Sector

-----------------------------------------------------------------------------
(* Entries and directories *)

LEMMA EntryTypes ==
    /\ Unused \in Entries
    /\ Zeroes \in Blocks
    /\ \A p \in Payloads \cup {NoPayload}, off \in Nat : FilePiece(p, off) \in Blocks
    /\ \A c, d \in Clusters \cup {0} : DotEntries(c, d) \in Blocks
BY DEF Unused, Entry, Entries, Zeroes, Block, Blocks, NoSlots, FilePiece, DotEntries

\* What a scan finds is a slot of the directory.
LEMMA FoundIsSlot ==
    ASSUME NEW v, NEW d, NEW n
    PROVE  /\ FindEntry(v, d, n) \subseteq SlotsOf(v, d)
           /\ Target(v, d, n) \subseteq SlotsOf(v, d)
BY DEF FindEntry, FindFreeEntry, Target, First, Visible

\* A slot of a directory of the mounted volume holds an entry.
LEMMA SlotType ==
    ASSUME TypeOK, NEW d \in Clusters \cup {0}, NEW s \in SlotsOf(Mounted, d)
    PROVE  /\ At(Mounted, s) \in Entries
           /\ s[1] \in Clusters \cup {0}
           /\ s[1] = 0 => s[2] \in RootIndex
           /\ s[1] # 0 => s[2] \in Slots
<1>1. CASE d = 0
  BY <1>1 DEF SlotsOf, At, Mounted, Volume, TypeOK
<1>2. CASE d # 0
  <2>1. s[1] \in Clusters /\ s[2] \in Slots
    BY <1>2 DEF SlotsOf
  <2>2. s[1] # 0
    BY <2>1, GeometryAssumption DEF Clusters
  <2>3. disk_data[s[1]].slot[s[2]] \in Entries
    BY <2>1 DEF TypeOK, Blocks
  <2> QED BY <2>1, <2>2, <2>3 DEF At, Mounted, Volume
<1> QED BY <1>1, <1>2

LEMMA DirectoryType ==
    ASSUME NEW v
    PROVE  Directories(v) \subseteq Clusters \cup {0}
BY DEF Directories, Visited

-----------------------------------------------------------------------------
(* Type correctness *)

LEMMA ClusterFacts ==
    /\ 2 \in Clusters /\ 3 \in Clusters
    /\ 0 \notin Clusters
    /\ 0 \in Copies
    /\ Start \in [copy : Copies, at : Nat]
BY GeometryAssumption DEF Clusters, Copies, Start

LEMMA CallType ==
    ASSUME NEW k \in Kinds, NEW d \in Clusters \cup {0}, NEW n \in Names \cup {END},
           NEW p \in Payloads \cup {NoPayload}, NEW size \in Nat, NEW old \in Clusters \cup {0}
    PROVE  Call(k, d, n, p, size, old) \in Calls
BY DEF Call, Calls

LEMMA NoCallType == NoCall \in Calls
BY CallType DEF NoCall, Kinds

LEMMA InitTypeOK == Init => TypeOK
<1> SUFFICES ASSUME Init PROVE TypeOK
  OBVIOUS
<1> USE DEF Init
<1>1. g_fat_primary \in FatTables /\ disk_fat \in [Copies -> FatTables]
  BY DEF BlankFat, SeedFat, FatTables
<1>2. g_root_dir \in [RootIndex -> Entries] /\ disk_root \in [RootIndex -> Entries]
  BY EntryTypes, ClusterFacts, CallerAssumption DEF BlankRoot, SeedRoot, Entry, Entries
<1>3. disk_data \in [Clusters -> Blocks]
  <2>1. DotEntries(2, 0) \in Blocks
    BY EntryTypes, ClusterFacts
  <2>2. Entry(SeedFile, FALSE, 3, 1) \in Entries
    BY ClusterFacts, CallerAssumption DEF Entry, Entries
  <2>3. [DotEntries(2, 0) EXCEPT !.slot[2] = Entry(SeedFile, FALSE, 3, 1)] \in Blocks
    BY <2>1, <2>2 DEF Blocks
  <2>4. FilePiece(SeedPayload, 0) \in Blocks /\ Zeroes \in Blocks
    BY EntryTypes, CallerAssumption
  <2> QED BY <2>3, <2>4 DEF SeedData
<1>4. op \in Calls /\ cur \in [copy : Copies, at : Nat]
  BY NoCallType, ClusterFacts
<1>5. res \in [call : Kinds, code : Codes] /\ pc \in PCs
  BY DEF Pending, Returned, Kinds, Codes, PCs
<1> QED BY <1>1, <1>2, <1>3, <1>4, <1>5 DEF TypeOK

LEMMA ReturnType ==
    ASSUME NEW k \in Kinds, NEW code \in Codes, Return(k, code)
    PROVE  pc' \in PCs /\ op' \in Calls /\ cur' \in [copy : Copies, at : Nat]
           /\ res' \in [call : Kinds, code : Codes]
BY NoCallType, ClusterFacts DEF Return, Returned, PCs

LEMMA GotoType ==
    ASSUME NEW l \in PCs, Goto(l)
    PROVE  pc' \in PCs /\ cur' \in [copy : Copies, at : Nat]
           /\ res' \in [call : Kinds, code : Codes]
BY ClusterFacts DEF Goto, Pending, Returned, Kinds, Codes

LEMMA ReturnAtOnceType ==
    ASSUME TypeOK, NEW k \in Kinds, NEW code \in Codes, ReturnAtOnce(k, code)
    PROVE  TypeOK'
<1>1. Return(k, code)
  BY DEF ReturnAtOnce
<1>2. pc' \in PCs /\ op' \in Calls /\ cur' \in [copy : Copies, at : Nat]
      /\ res' \in [call : Kinds, code : Codes]
  BY <1>1, ReturnType
<1> QED BY <1>2 DEF TypeOK, ReturnAtOnce, cache, image

LEMMA SlotWrittenType ==
    ASSUME TypeOK, NEW s, NEW e \in Entries
    PROVE  SlotWritten(s, e) \in [Clusters -> Blocks]
<1> DEFINE c == s[1]
           i == s[2]
<1>0. SlotWritten(s, e) = [disk_data EXCEPT ![c].slot[i] = e]
  BY DEF SlotWritten
<1> HIDE DEF c, i
<1>1. CASE c \in Clusters
  <2>1. disk_data[c] \in Blocks
    BY <1>1 DEF TypeOK
  <2>2. [disk_data[c].slot EXCEPT ![i] = e] \in [Slots -> Entries]
    BY <2>1 DEF Blocks
  <2>3. [disk_data[c] EXCEPT !.slot[i] = e] \in Blocks
    BY <2>1, <2>2 DEF Blocks
  <2> QED BY <1>0, <2>3 DEF TypeOK
<1>2. CASE c \notin Clusters
  BY <1>0, <1>2 DEF TypeOK
<1> QED BY <1>1, <1>2

LEMMA WriteEntryType ==
    ASSUME TypeOK, NEW s, NEW e \in Entries, WriteEntry(s, e) \/ WriteEntryFails(s, e)
    PROVE  /\ g_root_dir' \in [RootIndex -> Entries]
           /\ g_root_dirty' \in BOOLEAN
           /\ disk_data' \in [Clusters -> Blocks]
<1>1. SlotWritten(s, e) \in [Clusters -> Blocks]
  BY SlotWrittenType
<1> QED BY <1>1 DEF WriteEntry, WriteEntryFails, TypeOK

LEMMA AbandonType ==
    ASSUME TypeOK, NEW code \in Codes, NEW touched \in BOOLEAN,
           Abandon(code, touched), disk_data' \in [Clusters -> Blocks]
    PROVE  TypeOK'
<1>1. g_fat_primary' \in FatTables
  BY FreeChainType DEF Abandon, TypeOK
<1>2. op.kind \in Kinds
  BY DEF TypeOK, Calls
<1>3. pc' \in PCs /\ op' \in Calls /\ cur' \in [copy : Copies, at : Nat]
      /\ res' \in [call : Kinds, code : Codes]
  BY <1>2, ReturnType DEF Abandon
<1>4. g_fat_dirty' \in BOOLEAN
  BY DEF Abandon, TypeOK
<1> QED BY <1>1, <1>3, <1>4 DEF Abandon, TypeOK

LEMMA ZeroedType ==
    ASSUME TypeOK, NEW c
    PROVE  [disk_data EXCEPT ![c] = Zeroes] \in [Clusters -> Blocks]
BY EntryTypes DEF TypeOK

LEMMA NoClusterType ==
    ASSUME TypeOK, NoCluster
    PROVE  TypeOK'
<1>1. disk_data' \in [Clusters -> Blocks]
  BY ZeroedType DEF NoCluster, TypeOK
<1>2. \E t \in BOOLEAN : Abandon("NO_FREE_CLUSTER", t)
  BY DEF NoCluster
<1> QED BY <1>1, <1>2, AbandonType DEF Codes

LEMMA ContentType ==
    ASSUME TypeOK
    PROVE  [disk_data EXCEPT ![op.new] = Content] \in [Clusters -> Blocks]
<1>1. /\ op.new \in Clusters \cup {0} /\ op.dir \in Clusters \cup {0}
      /\ op.pay \in Payloads \cup {NoPayload} /\ op.done \in Nat
  BY DEF TypeOK, Calls
<1>2. Content \in Blocks
  BY <1>1, EntryTypes DEF Content
<1> QED BY <1>2 DEF TypeOK

LEMMA NewEntryType ==
    ASSUME TypeOK
    PROVE  NewEntry \in Entries
BY DEF TypeOK, Calls, NewEntry, Entry, Entries

LEMMA WriteFileType ==
    ASSUME TypeOK, NEW d \in Clusters \cup {0}, NEW n \in Names, WriteFile(d, n)
    PROVE  TypeOK'
<1> DEFINE Begin(old) ==
        \E p \in Payloads, size \in Sizes :
            /\ op' = Call("write", d, n, p, size, old)
            /\ Goto(IF size > 0 THEN "alloc" ELSE "entry")
            /\ UNCHANGED <<cache, g_fs_ready, image>>
<1>1. ASSUME NEW old \in Clusters \cup {0}, Begin(old)
      PROVE  TypeOK'
  <2>1. PICK p \in Payloads, size \in Sizes :
            /\ op' = Call("write", d, n, p, size, old)
            /\ Goto(IF size > 0 THEN "alloc" ELSE "entry")
            /\ UNCHANGED <<cache, g_fs_ready, image>>
    BY <1>1
  <2>2. op' \in Calls
    BY <2>1, CallType, CallerAssumption DEF Kinds
  <2>3. pc' \in PCs /\ cur' \in [copy : Copies, at : Nat]
        /\ res' \in [call : Kinds, code : Codes]
    BY <2>1, GotoType DEF PCs
  <2> QED BY <2>1, <2>2, <2>3 DEF TypeOK, cache, image
<1>2. CASE \E code \in {"IO", "ALREADY_EXISTS"} : ReturnAtOnce("write", code)
  BY <1>2, ReturnAtOnceType DEF Kinds, Codes
<1>3. CASE \E s \in FindEntry(Mounted, d, n) : Begin(At(Mounted, s).first)
  BY <1>1, <1>3, FoundIsSlot, SlotType DEF Entries
<1>4. CASE Begin(0)
  BY <1>1, <1>4
<1> QED BY <1>2, <1>3, <1>4 DEF WriteFile

LEMMA CreateDirectoryType ==
    ASSUME TypeOK, NEW d \in Clusters \cup {0}, NEW n \in Names, CreateDirectory(d, n)
    PROVE  TypeOK'
<1>1. CASE ReturnAtOnce("mkdir", "ALREADY_EXISTS")
  BY <1>1, ReturnAtOnceType DEF Kinds, Codes
<1>2. CASE /\ op' = Call("mkdir", d, n, NoPayload, 0, 0)
           /\ Goto("alloc")
           /\ UNCHANGED <<cache, g_fs_ready, image>>
  <2>1. op' \in Calls
    BY <1>2, CallType DEF Kinds
  <2>2. pc' \in PCs /\ cur' \in [copy : Copies, at : Nat]
        /\ res' \in [call : Kinds, code : Codes]
    BY <1>2, GotoType DEF PCs
  <2> QED BY <1>2, <2>1, <2>2 DEF TypeOK, cache, image
<1> QED BY <1>1, <1>2 DEF CreateDirectory

LEMMA DeleteFileType ==
    ASSUME TypeOK, NEW d \in Clusters \cup {0}, NEW n \in Names, DeleteFile(d, n)
    PROVE  TypeOK'
<1>1. CASE \E code \in {"IO", "NOT_FOUND", "NOT_FILE"} : ReturnAtOnce("rm", code)
  BY <1>1, ReturnAtOnceType DEF Kinds, Codes
<1>2. ASSUME NEW s \in FindEntry(Mounted, d, n), NEW e, e = At(Mounted, s),
             g_fat_primary' = FreeChain(g_fat_primary, e.first),
             g_fat_dirty' = (g_fat_dirty \/ e.first # 0),
             \/ /\ WriteEntry(s, MarkDeleted(e))
                /\ op' = Call("rm", d, n, NoPayload, 0, 0)
                /\ Goto("root")
             \/ /\ WriteEntryFails(s, MarkDeleted(e))
                /\ Return("rm", "IO"),
             UNCHANGED <<g_fs_ready, disk_fat, disk_root>>
      PROVE  TypeOK'
  <2>1. e \in Entries
    BY <1>2, FoundIsSlot, SlotType
  <2>2. MarkDeleted(e) \in Entries
    BY <2>1 DEF MarkDeleted, Entries
  <2>3. g_fat_primary' \in FatTables /\ g_fat_dirty' \in BOOLEAN
    BY <1>2, FreeChainType DEF TypeOK
  <2>4. /\ g_root_dir' \in [RootIndex -> Entries]
        /\ g_root_dirty' \in BOOLEAN
        /\ disk_data' \in [Clusters -> Blocks]
    BY <1>2, <2>2, WriteEntryType
  <2>5. Call("rm", d, n, NoPayload, 0, 0) \in Calls
    BY CallType DEF Kinds
  <2>6. pc' \in PCs /\ op' \in Calls /\ cur' \in [copy : Copies, at : Nat]
        /\ res' \in [call : Kinds, code : Codes]
    BY <1>2, <2>5, ReturnType, GotoType DEF Kinds, Codes, PCs
  <2> QED BY <1>2, <2>3, <2>4, <2>6 DEF TypeOK
<1> QED BY <1>1, <1>2 DEF DeleteFile

LEMMA ReadFileType ==
    ASSUME TypeOK, NEW d \in Clusters \cup {0}, NEW n \in Names, ReadFile(d, n)
    PROVE  TypeOK'
<1>1. \E code \in {"IO", "NOT_FOUND", "NOT_FILE", "BUFFER_SMALL", "OK"} : ReturnAtOnce("read", code)
  BY DEF ReadFile
<1> QED BY <1>1, ReturnAtOnceType DEF Kinds, Codes

LEMMA BuildType ==
    ASSUME TypeOK, Allocate \/ AllocateFails \/ Fill \/ FillFails
    PROVE  TypeOK'
<1>1. CASE Allocate
  <2>1. PICK c \in FirstFree(g_fat_primary) :
            /\ g_fat_primary' = Link(g_fat_primary, op.new, c)
            /\ disk_data' = [disk_data EXCEPT ![c] = Zeroes]
            /\ op' = [op EXCEPT !.new = c, !.first = IF op.first = 0 THEN c ELSE op.first]
    BY <1>1 DEF Allocate
  <2>2. c \in Clusters
    BY DEF FirstFree
  <2>3. g_fat_primary' \in FatTables /\ disk_data' \in [Clusters -> Blocks]
    BY <2>1, <2>2, LinkType, ZeroedType DEF TypeOK
  <2>4. op' \in Calls
    BY <2>1, <2>2 DEF TypeOK, Calls
  <2>5. pc' \in PCs /\ cur' \in [copy : Copies, at : Nat]
        /\ res' \in [call : Kinds, code : Codes]
    BY <1>1, GotoType DEF Allocate, PCs
  <2> QED BY <1>1, <2>3, <2>4, <2>5 DEF Allocate, TypeOK
<1>2. CASE AllocateFails
  BY <1>2, NoClusterType DEF AllocateFails
<1>3. CASE Fill
  <2>1. disk_data' \in [Clusters -> Blocks]
    BY <1>3, ContentType DEF Fill
  <2>2. Written \in Nat
    BY GeometryAssumption DEF TypeOK, Calls, Written
  <2>3. op' \in Calls
    BY <1>3, <2>2 DEF Fill, TypeOK, Calls
  <2>4. pc' \in PCs /\ cur' \in [copy : Copies, at : Nat]
        /\ res' \in [call : Kinds, code : Codes]
    BY <1>3, GotoType DEF Fill, PCs
  <2> QED BY <1>3, <2>1, <2>3, <2>4 DEF Fill, TypeOK, cache
<1>4. CASE FillFails
  <2>1. disk_data' \in [Clusters -> Blocks]
    BY <1>4, ContentType DEF FillFails, TypeOK
  <2> QED BY <1>4, <2>1, AbandonType DEF FillFails, Codes
<1> QED BY <1>1, <1>2, <1>3, <1>4

LEMMA PutEntryType ==
    ASSUME TypeOK, PutEntry \/ ExtendDirectory \/ PutEntryFails
    PROVE  TypeOK'
<1>1. CASE PutEntry
  <2>1. /\ g_root_dir' \in [RootIndex -> Entries]
        /\ g_root_dirty' \in BOOLEAN
        /\ disk_data' \in [Clusters -> Blocks]
    BY <1>1, NewEntryType, WriteEntryType DEF PutEntry
  <2>2. g_fat_primary' \in FatTables /\ g_fat_dirty' \in BOOLEAN
    BY <1>1, FreeChainType DEF PutEntry, TypeOK
  <2>3. pc' \in PCs /\ cur' \in [copy : Copies, at : Nat]
        /\ res' \in [call : Kinds, code : Codes]
    BY <1>1, GotoType DEF PutEntry, PCs
  <2> QED BY <1>1, <2>1, <2>2, <2>3 DEF PutEntry, TypeOK
<1>2. CASE ExtendDirectory
  <2>1. PICK c \in FirstFree(g_fat_primary), prev \in Last(g_fat_primary, op.dir) :
            /\ g_fat_primary' = Link(g_fat_primary, prev, c)
            /\ disk_data' = [disk_data EXCEPT ![c] = Zeroes]
    BY <1>2 DEF ExtendDirectory
  <2>2. c \in Clusters
    BY DEF FirstFree
  <2>3. g_fat_primary' \in FatTables /\ disk_data' \in [Clusters -> Blocks]
    BY <2>1, <2>2, LinkType, ZeroedType DEF TypeOK
  <2> QED BY <1>2, <2>3 DEF ExtendDirectory, TypeOK, control
<1>3. CASE PutEntryFails
  <2>1. CASE NoCluster
    BY <2>1, NoClusterType
  <2>2. CASE UNCHANGED disk_data /\ \E code \in {"IO", "DIR_FULL"} : Abandon(code, FALSE)
    <3>1. disk_data' \in [Clusters -> Blocks]
      BY <2>2 DEF TypeOK
    <3> QED BY <2>2, <3>1, AbandonType DEF Codes
  <2>3. CASE \E s \in Target(Mounted, op.dir, op.name) :
                WriteEntryFails(s, NewEntry) /\ Abandon("IO", FALSE)
    <3>1. disk_data' \in [Clusters -> Blocks]
      BY <2>3, NewEntryType, WriteEntryType
    <3> QED BY <2>3, <3>1, AbandonType DEF Codes
  <2> QED BY <1>3, <2>1, <2>2, <2>3 DEF PutEntryFails
<1> QED BY <1>1, <1>2, <1>3

LEMMA LeaveType ==
    ASSUME TypeOK, Leave
    PROVE  pc' \in PCs /\ op' \in Calls /\ cur' \in [copy : Copies, at : Nat]
           /\ res' \in [call : Kinds, code : Codes]
<1>1. op.kind \in Kinds
  BY DEF TypeOK, Calls
<1> QED BY <1>1, GotoType, ReturnType DEF Leave, TypeOK, PCs, Codes

LEMMA FlushType ==
    ASSUME TypeOK, FlushRoot \/ FlushRootFails \/ FlushFats \/ FlushFatsFails
    PROVE  TypeOK'
<1>1. RootWritten \in [RootIndex -> Entries]
  BY SectorType, GeometryAssumption DEF TypeOK, RootWritten
<1>2. FatWritten \in [Copies -> FatTables]
  <2>1. cur.copy \in Copies /\ cur.at \in Nat
    BY DEF TypeOK
  <2>2. Sector(cur.at, FatPerSector, g_fat_primary, disk_fat[cur.copy]) \in FatTables
    <3>1. g_fat_primary \in FatTables /\ disk_fat[cur.copy] \in FatTables /\ FatPerSector \in Nat
      BY <2>1, GeometryAssumption DEF TypeOK
    <3> QED BY <2>1, <3>1, SectorType DEF FatTables
  <2> QED BY <2>1, <2>2 DEF TypeOK, FatWritten
<1>3. CASE FlushRoot
  <2>1. [cur EXCEPT !.at = cur.at + RootPerSector] \in [copy : Copies, at : Nat]
    BY GeometryAssumption DEF TypeOK
  <2>2. pc' \in PCs /\ cur' \in [copy : Copies, at : Nat]
        /\ res' \in [call : Kinds, code : Codes]
    BY <1>3, <2>1, GotoType DEF FlushRoot, MoreRootSectors, TypeOK, PCs
  <2> QED BY <1>1, <1>3, <2>2 DEF FlushRoot, MoreRootSectors, TypeOK
<1>4. CASE FlushRootFails
  BY <1>1, <1>4, ClusterFacts DEF FlushRootFails, TypeOK, PCs, cache
<1>5. CASE FlushFats
  <2>1. [cur EXCEPT !.at = cur.at + FatPerSector] \in [copy : Copies, at : Nat]
    BY GeometryAssumption DEF TypeOK
  <2>2. cur.copy + 1 < NumFats => [copy |-> cur.copy + 1, at |-> 0] \in [copy : Copies, at : Nat]
    BY GeometryAssumption DEF TypeOK, Copies
  <2>3. pc' \in PCs /\ op' \in Calls /\ cur' \in [copy : Copies, at : Nat]
        /\ res' \in [call : Kinds, code : Codes]
    BY <1>5, <2>1, <2>2, LeaveType DEF FlushFats, MoreCopies, TypeOK
  <2> QED BY <1>2, <1>5, <2>3 DEF FlushFats, MoreCopies, TypeOK
<1>6. CASE FlushFatsFails
  BY <1>2, <1>6, LeaveType DEF FlushFatsFails, TypeOK, cache
<1> QED BY <1>3, <1>4, <1>5, <1>6

LEMMA MachineType ==
    ASSUME TypeOK, \/ Mount \/ MountFails \/ Restart \/ Shutdown \/ TakeResult
                   \/ \E k \in {"write", "mkdir", "rm", "read"} : Refused(k)
    PROVE  TypeOK'
<1>1. CASE Mount
  <2>1. pc' \in PCs /\ op' \in Calls /\ cur' \in [copy : Copies, at : Nat]
        /\ res' \in [call : Kinds, code : Codes]
    BY <1>1, ReturnType DEF Mount, Kinds, Codes
  <2> QED BY <1>1, <2>1, ClusterFacts DEF Mount, TypeOK, image
<1>2. CASE MountFails
  BY <1>2, ReturnAtOnceType DEF MountFails, ReturnAtOnce, Kinds, Codes
<1>3. CASE Restart
  <2>1. BlankFat \in FatTables /\ BlankRoot \in [RootIndex -> Entries]
    BY EntryTypes DEF BlankFat, BlankRoot, FatTables
  <2>2. Pending \in [call : Kinds, code : Codes]
    BY DEF Pending, Returned, Kinds, Codes
  <2> QED BY <1>3, <2>1, <2>2, ClusterFacts, NoCallType DEF Restart, TypeOK, image, PCs
<1>4. CASE Shutdown
  <2>1. op' \in Calls
    BY <1>4, CallType DEF Shutdown, Kinds
  <2>2. pc' \in PCs /\ cur' \in [copy : Copies, at : Nat]
        /\ res' \in [call : Kinds, code : Codes]
    BY <1>4, GotoType DEF Shutdown, PCs
  <2> QED BY <1>4, <2>1, <2>2 DEF Shutdown, TypeOK, cache, image
<1>5. CASE TakeResult
  <2>1. pc' \in PCs /\ cur' \in [copy : Copies, at : Nat]
        /\ res' \in [call : Kinds, code : Codes]
    BY <1>5, GotoType DEF TakeResult, PCs
  <2> QED BY <1>5, <2>1 DEF TakeResult, TypeOK, cache, image
<1>6. CASE \E k \in {"write", "mkdir", "rm", "read"} : Refused(k)
  BY <1>6, ReturnAtOnceType DEF Refused, ReturnAtOnce, Kinds, Codes
<1> QED BY <1>1, <1>2, <1>3, <1>4, <1>5, <1>6

LEMMA NextTypeOK == TypeOK /\ [Next]_vars => TypeOK'
<1> SUFFICES ASSUME TypeOK, [Next]_vars PROVE TypeOK'
  OBVIOUS
<1>1. CASE UNCHANGED vars
  BY <1>1 DEF vars, cache, image, control, TypeOK
<1>2. ASSUME NEW d \in Directories(Mounted), NEW n \in Names,
             ReadFile(d, n) \/ WriteFile(d, n) \/ CreateDirectory(d, n) \/ DeleteFile(d, n)
      PROVE  TypeOK'
  BY <1>2, DirectoryType, ReadFileType, WriteFileType, CreateDirectoryType, DeleteFileType
<1>3. CASE Step
  BY <1>3, BuildType, PutEntryType, FlushType, MachineType DEF Step
<1> QED BY <1>1, <1>2, <1>3, MachineType DEF Next

\* TypeOK holds in every reachable state: in particular every FAT entry the
\* code writes is FREE, EOC or a cluster of the volume.
THEOREM TypeCorrect == Spec => []TypeOK
<1>1. Init => TypeOK
  BY InitTypeOK
<1>2. TypeOK /\ [Next]_vars => TypeOK'
  BY NextTypeOK
<1> QED BY <1>1, <1>2, PTL DEF Spec

-----------------------------------------------------------------------------
(* Durability.  Durable is not inductive: that a flush may clear its flag    *)
(* follows from what its earlier steps wrote, which FlushProgress records.   *)

DurableInv == TypeOK /\ Durable /\ FlushProgress

\* Freeing the chain of no cluster changes nothing, so a cache that changes
\* is a cache whose flag is set.
LEMMA FreeNothing ==
    ASSUME NEW f \in FatTables
    PROVE  FreeChain(f, 0) = f
<1>1. Chain(f, 0) = {}
  BY ClusterFacts DEF Chain
<1> QED BY <1>1 DEF FreeChain, FatTables

\* Functions with one domain and the same values are one function.
LEMMA SameFunction ==
    ASSUME NEW D, NEW T, NEW f \in [D -> T], NEW g \in [D -> T], \A x \in D : f[x] = g[x]
    PROVE  f = g
OBVIOUS

LEMMA InitDurable == Init => DurableInv
BY InitTypeOK DEF Init, DurableInv, Durable, FlushProgress

\* A flush that is at its first sector has passed nothing.
LEMMA NothingPassed ==
    ASSUME pc' \in {"root", "fats"} => cur' = Start
    PROVE  FlushProgress'
<1>1. CASE pc' \in {"root", "fats"}
  <2>1. cur'.at = 0 /\ cur'.copy = 0
    BY <1>1 DEF Start
  <2>2. \A i \in RootIndex : ~(i < 0)
    BY DEF RootIndex
  <2>3. \A i \in Copies : ~(i < 0)
    BY DEF Copies
  <2>4. \A i \in Clusters : ~(i < 0)
    BY DEF Clusters
  <2> QED BY <2>1, <2>2, <2>3, <2>4 DEF FlushProgress
<1>2. CASE pc' \notin {"root", "fats"}
  BY <1>2 DEF FlushProgress
<1> QED BY <1>1, <1>2

\* A step that only sets flags for what it changes, and that starts no flush
\* or starts it at its first sector, preserves the invariant.
LEMMA QuietStep ==
    ASSUME DurableInv, TypeOK',
           UNCHANGED <<g_fs_ready, disk_fat, disk_root>>,
           g_root_dirty' \in {TRUE, g_root_dirty},
           g_fat_dirty' \in {TRUE, g_fat_dirty},
           ~g_root_dirty' => UNCHANGED g_root_dir,
           ~g_fat_dirty' => UNCHANGED g_fat_primary,
           pc' \in {"root", "fats"} => cur' = Start
    PROVE  DurableInv'
<1>1. Durable'
  BY DEF DurableInv, Durable, TypeOK
<1>2. FlushProgress'
  BY NothingPassed
<1> QED BY <1>1, <1>2 DEF DurableInv

\* The hypotheses of QuietStep, as one formula.
Quiet ==
    /\ UNCHANGED <<g_fs_ready, disk_fat, disk_root>>
    /\ g_root_dirty' \in {TRUE, g_root_dirty}
    /\ g_fat_dirty' \in {TRUE, g_fat_dirty}
    /\ ~g_root_dirty' => UNCHANGED g_root_dir
    /\ ~g_fat_dirty' => UNCHANGED g_fat_primary
    /\ pc' \in {"root", "fats"} => cur' = Start

LEMMA AbandonQuiet ==
    ASSUME TypeOK, NEW code, NEW touched \in BOOLEAN, Abandon(code, touched)
    PROVE  Quiet
<1>1. op.first = 0 => UNCHANGED g_fat_primary
  BY FreeNothing DEF Abandon, TypeOK
<1> QED BY <1>1 DEF Abandon, Return, Quiet, TypeOK

LEMMA WriteEntryQuiet ==
    ASSUME NEW s, NEW e, WriteEntry(s, e) \/ WriteEntryFails(s, e)
    PROVE  /\ g_root_dirty' \in {TRUE, g_root_dirty}
           /\ ~g_root_dirty' => UNCHANGED g_root_dir
BY DEF WriteEntry, WriteEntryFails

LEMMA CallsAreQuiet ==
    ASSUME TypeOK, NEW d \in Clusters \cup {0}, NEW n \in Names,
           ReadFile(d, n) \/ WriteFile(d, n) \/ CreateDirectory(d, n) \/ DeleteFile(d, n)
    PROVE  Quiet
<1>1. ASSUME NEW k, NEW code, ReturnAtOnce(k, code)
      PROVE  Quiet
  BY <1>1 DEF ReturnAtOnce, Return, Quiet, cache, image
<1>2. CASE ReadFile(d, n)
  BY <1>1, <1>2 DEF ReadFile
<1>3. ASSUME NEW l, Goto(l), UNCHANGED <<cache, g_fs_ready, image>>
      PROVE  Quiet
  BY <1>3 DEF Goto, Quiet, cache, image
<1>4. CASE WriteFile(d, n)
  BY <1>1, <1>3, <1>4 DEF WriteFile
<1>5. CASE CreateDirectory(d, n)
  BY <1>1, <1>3, <1>5 DEF CreateDirectory
<1>6. CASE DeleteFile(d, n)
  <2>1. CASE \E code : ReturnAtOnce("rm", code)
    BY <1>1, <2>1
  <2>2. ASSUME NEW s \in FindEntry(Mounted, d, n), NEW e, NEW gone,
               g_fat_primary' = FreeChain(g_fat_primary, e.first),
               g_fat_dirty' = (g_fat_dirty \/ e.first # 0),
               \/ WriteEntry(s, gone) /\ Goto("root")
               \/ WriteEntryFails(s, gone) /\ Return("rm", "IO"),
               UNCHANGED <<g_fs_ready, disk_fat, disk_root>>
        PROVE  Quiet
    <3>1. e.first = 0 => UNCHANGED g_fat_primary
      BY <2>2, FreeNothing DEF TypeOK
    <3>2. /\ g_root_dirty' \in {TRUE, g_root_dirty}
          /\ ~g_root_dirty' => UNCHANGED g_root_dir
      BY <2>2, WriteEntryQuiet
    <3>3. g_fat_dirty' \in {TRUE, g_fat_dirty}
      BY <2>2 DEF TypeOK
    <3>4. pc' \in {"root", "fats"} => cur' = Start
      BY <2>2 DEF Goto, Return
    <3> QED BY <2>2, <3>1, <3>2, <3>3, <3>4 DEF Quiet
  <2> QED BY <1>6, <2>1, <2>2 DEF DeleteFile
<1> QED BY <1>2, <1>4, <1>5, <1>6

LEMMA BuildingIsQuiet ==
    ASSUME TypeOK, \/ Allocate \/ AllocateFails \/ Fill \/ FillFails
                   \/ PutEntry \/ ExtendDirectory \/ PutEntryFails
    PROVE  Quiet
<1>1. CASE Allocate \/ Fill
  BY <1>1 DEF Allocate, Fill, Goto, Quiet, cache
<1>2. CASE NoCluster
  BY <1>2, AbandonQuiet DEF NoCluster
<1>3. CASE \E code : Abandon(code, FALSE)
  BY <1>3, AbandonQuiet
<1>4. CASE PutEntry
  <2>1. op.old = 0 => UNCHANGED g_fat_primary
    BY <1>4, FreeNothing DEF PutEntry, TypeOK
  <2>2. /\ g_root_dirty' \in {TRUE, g_root_dirty}
        /\ ~g_root_dirty' => UNCHANGED g_root_dir
    BY <1>4, WriteEntryQuiet DEF PutEntry
  <2>3. g_fat_dirty' \in {TRUE, g_fat_dirty}
    BY <1>4 DEF PutEntry, TypeOK
  <2> QED BY <1>4, <2>1, <2>2, <2>3 DEF PutEntry, Goto, Quiet
<1>5. CASE ExtendDirectory
  BY <1>5 DEF ExtendDirectory, Quiet, control
<1> QED BY <1>1, <1>2, <1>3, <1>4, <1>5 DEF AllocateFails, FillFails, PutEntryFails

LEMMA FlushRootDurable ==
    ASSUME DurableInv, TypeOK', FlushRoot \/ FlushRootFails
    PROVE  DurableInv'
<1>1. CASE FlushRootFails
  <2>1. Durable'
    BY <1>1 DEF FlushRootFails, DurableInv, Durable, cache
  <2>2. FlushProgress'
    BY <1>1, NothingPassed DEF FlushRootFails
  <2> QED BY <2>1, <2>2 DEF DurableInv
<1>2. CASE FlushRoot /\ ~g_root_dirty
  <2>1. Durable'
    BY <1>2 DEF FlushRoot, MoreRootSectors, DurableInv, Durable
  <2>2. FlushProgress'
    BY <1>2, NothingPassed DEF FlushRoot, MoreRootSectors, Goto
  <2> QED BY <2>1, <2>2 DEF DurableInv
<1>3. CASE FlushRoot /\ g_root_dirty
  <2>1. /\ disk_root' = RootWritten
        /\ UNCHANGED <<g_root_dir, g_fat_primary, g_fat_dirty, g_fs_ready, disk_fat>>
        /\ pc = "root"
    BY <1>3 DEF FlushRoot, MoreRootSectors
  <2>2. /\ g_root_dir \in [RootIndex -> Entries] /\ disk_root \in [RootIndex -> Entries]
        /\ cur.at \in Nat /\ RootPerSector \in Nat /\ RootEntries \in Nat
        /\ RootIndex \in SUBSET Nat
    BY GeometryAssumption DEF DurableInv, TypeOK, RootIndex
  <2>3. \A i \in RootIndex : i < cur.at => disk_root[i] = g_root_dir[i]
    BY <1>3, <2>1 DEF DurableInv, FlushProgress
  <2>4. \A i \in RootIndex : i < cur.at + RootPerSector => disk_root'[i] = g_root_dir[i]
    BY <2>1, <2>2, <2>3 DEF RootWritten, Sector
  <2>5. CASE cur.at + RootPerSector < RootEntries
    <3>1. /\ cur' = [cur EXCEPT !.at = cur.at + RootPerSector]
          /\ UNCHANGED <<pc, g_root_dirty>>
      BY <1>3, <2>5 DEF FlushRoot, MoreRootSectors
    <3>2. cur'.at = cur.at + RootPerSector
      BY <3>1 DEF DurableInv, TypeOK
    <3>3. FlushProgress'
      BY <2>1, <2>4, <3>1, <3>2 DEF FlushProgress
    <3>4. Durable'
      BY <1>3, <2>1, <3>1 DEF DurableInv, Durable
    <3> QED BY <3>3, <3>4 DEF DurableInv
  <2>6. CASE ~(cur.at + RootPerSector < RootEntries)
    <3>1. Goto("fats")
      BY <1>3, <2>6 DEF FlushRoot, MoreRootSectors
    <3>2. \A i \in RootIndex : disk_root'[i] = g_root_dir[i]
      BY <2>2, <2>4, <2>6 DEF RootIndex
    <3>3. disk_root' \in [RootIndex -> Entries] /\ g_root_dir \in [RootIndex -> Entries]
      BY DEF DurableInv, TypeOK
    <3>4. disk_root' = g_root_dir
      BY <3>2, <3>3, SameFunction
    <3>5. Durable'
      BY <2>1, <3>4 DEF DurableInv, Durable
    <3>6. FlushProgress'
      BY <3>1, NothingPassed DEF Goto
    <3> QED BY <3>5, <3>6 DEF DurableInv
  <2> QED BY <2>5, <2>6
<1> QED BY <1>1, <1>2, <1>3

\* When the last sector of the last copy is written, every copy is written.
LEMMA LastSector ==
    ASSUME DurableInv, TypeOK', FlushFats, g_fat_dirty,
           ~(cur.at + FatPerSector <= TotalClusters + 1),
           ~(cur.copy + 1 < NumFats)
    PROVE  /\ \A k \in Copies : disk_fat'[k] = g_fat_primary
           /\ UNCHANGED g_fat_primary
<1>1. disk_fat' = FatWritten /\ UNCHANGED g_fat_primary /\ pc = "fats"
  BY DEF FlushFats, MoreCopies
<1>2. /\ cur.at \in Nat /\ cur.copy \in Copies
      /\ g_fat_primary \in FatTables /\ disk_fat \in [Copies -> FatTables]
      /\ disk_fat' \in [Copies -> FatTables]
  BY DEF DurableInv, TypeOK
<1>3. \A k \in Copies : k < cur.copy => disk_fat[k] = g_fat_primary
  BY <1>1 DEF DurableInv, FlushProgress
<1>4. \A c \in Clusters : c < cur.at => disk_fat[cur.copy][c] = g_fat_primary[c]
  BY <1>1 DEF DurableInv, FlushProgress
<1>5. disk_fat'[cur.copy] = Sector(cur.at, FatPerSector, g_fat_primary, disk_fat[cur.copy])
  BY <1>1, <1>2 DEF FatWritten
<1>6. \A c \in Clusters : disk_fat'[cur.copy][c] = g_fat_primary[c]
  <2> SUFFICES ASSUME NEW c \in Clusters
               PROVE  disk_fat'[cur.copy][c] = g_fat_primary[c]
    OBVIOUS
  <2>1. c < cur.at + FatPerSector /\ c \in Nat
    BY <1>2, GeometryAssumption DEF Clusters
  <2>2. DOMAIN disk_fat[cur.copy] = Clusters
    BY <1>2 DEF FatTables
  <2> QED BY <1>2, <1>4, <1>5, <2>1, <2>2, GeometryAssumption DEF Sector
<1>7. disk_fat'[cur.copy] = g_fat_primary
  BY <1>2, <1>6, SameFunction DEF FatTables
<1>8. \A k \in Copies : k # cur.copy => disk_fat'[k] = g_fat_primary
  <2> SUFFICES ASSUME NEW k \in Copies, k # cur.copy
               PROVE  disk_fat'[k] = g_fat_primary
    OBVIOUS
  <2>1. k < cur.copy
    BY <1>2, GeometryAssumption DEF Copies
  <2>2. disk_fat'[k] = disk_fat[k]
    BY <1>1, <1>2 DEF FatWritten
  <2> QED BY <1>3, <2>1, <2>2
<1> QED BY <1>1, <1>7, <1>8

LEMMA FlushFatsDurable ==
    ASSUME DurableInv, TypeOK', FlushFats \/ FlushFatsFails
    PROVE  DurableInv'
<1>0. Leave => cur' = Start /\ pc' \notin {"root", "fats"}
  BY DEF Leave, Goto, Return
<1>1. CASE FlushFatsFails
  <2>1. Durable'
    BY <1>1 DEF FlushFatsFails, DurableInv, Durable, cache
  <2>2. FlushProgress'
    BY <1>0, <1>1, NothingPassed DEF FlushFatsFails
  <2> QED BY <2>1, <2>2 DEF DurableInv
<1>2. CASE FlushFats /\ ~g_fat_dirty
  <2>1. Durable'
    BY <1>2 DEF FlushFats, MoreCopies, DurableInv, Durable
  <2>2. FlushProgress'
    BY <1>0, <1>2, NothingPassed DEF FlushFats, MoreCopies
  <2> QED BY <2>1, <2>2 DEF DurableInv
<1>3. CASE FlushFats /\ g_fat_dirty
  <2>1. /\ disk_fat' = FatWritten /\ pc = "fats"
        /\ UNCHANGED <<g_fat_primary, g_root_dir, g_root_dirty, g_fs_ready, disk_root>>
    BY <1>3 DEF FlushFats, MoreCopies
  <2>2. /\ cur.at \in Nat /\ cur.copy \in Copies /\ FatPerSector \in Nat
        /\ g_fat_primary \in FatTables /\ disk_fat \in [Copies -> FatTables]
        /\ TotalClusters \in Nat /\ NumFats \in Nat
    BY GeometryAssumption DEF DurableInv, TypeOK
  <2>3. \A k \in Copies : k < cur.copy => disk_fat[k] = g_fat_primary
    BY <1>3, <2>1 DEF DurableInv, FlushProgress
  <2>4. \A c \in Clusters : c < cur.at => disk_fat[cur.copy][c] = g_fat_primary[c]
    BY <1>3, <2>1 DEF DurableInv, FlushProgress
  <2>5. disk_fat'[cur.copy] = Sector(cur.at, FatPerSector, g_fat_primary, disk_fat[cur.copy])
    BY <2>1, <2>2 DEF FatWritten
  <2>6. \A k \in Copies : k < cur.copy => disk_fat'[k] = g_fat_primary
    BY <2>1, <2>2, <2>3 DEF FatWritten, Copies
  <2>7. \A c \in Clusters : c < cur.at + FatPerSector => disk_fat'[cur.copy][c] = g_fat_primary[c]
    <3> SUFFICES ASSUME NEW c \in Clusters, c < cur.at + FatPerSector
                 PROVE  disk_fat'[cur.copy][c] = g_fat_primary[c]
      OBVIOUS
    <3>1. DOMAIN disk_fat[cur.copy] = Clusters /\ c \in Nat
      BY <2>2 DEF FatTables, Clusters
    <3> QED BY <2>2, <2>4, <2>5, <3>1 DEF Sector
  <2>8. CASE cur.at + FatPerSector <= TotalClusters + 1
    <3>1. /\ cur' = [cur EXCEPT !.at = cur.at + FatPerSector]
          /\ UNCHANGED <<pc, g_fat_dirty>>
      BY <1>3, <2>8 DEF FlushFats, MoreCopies
    <3>2. cur'.at = cur.at + FatPerSector /\ cur'.copy = cur.copy
      BY <3>1 DEF DurableInv, TypeOK
    <3>3. FlushProgress'
      BY <2>1, <2>6, <2>7, <3>1, <3>2 DEF FlushProgress
    <3>4. Durable'
      BY <1>3, <2>1, <3>1 DEF DurableInv, Durable
    <3> QED BY <3>3, <3>4 DEF DurableInv
  <2>9. CASE ~(cur.at + FatPerSector <= TotalClusters + 1) /\ cur.copy + 1 < NumFats
    <3>1. /\ cur' = [copy |-> cur.copy + 1, at |-> 0]
          /\ UNCHANGED <<pc, g_fat_dirty>>
      BY <1>3, <2>9 DEF FlushFats, MoreCopies
    <3>2. \A c \in Clusters : disk_fat'[cur.copy][c] = g_fat_primary[c]
      BY <2>2, <2>7, <2>9 DEF Clusters
    <3>3. disk_fat'[cur.copy] = g_fat_primary
      <4>1. disk_fat'[cur.copy] \in FatTables
        BY <2>2 DEF TypeOK
      <4> QED BY <2>2, <3>2, <4>1, SameFunction DEF FatTables
    <3>4. \A k \in Copies : k < cur.copy + 1 => disk_fat'[k] = g_fat_primary
      BY <2>2, <2>6, <3>3 DEF Copies
    <3>5. \A c \in Clusters : ~(c < 0)
      BY DEF Clusters
    <3>6. FlushProgress'
      BY <2>1, <3>1, <3>4, <3>5 DEF FlushProgress
    <3>7. Durable'
      BY <1>3, <2>1, <3>1 DEF DurableInv, Durable
    <3> QED BY <3>6, <3>7 DEF DurableInv
  <2>10. CASE ~(cur.at + FatPerSector <= TotalClusters + 1) /\ ~(cur.copy + 1 < NumFats)
    <3>1. Leave
      BY <1>3, <2>10 DEF FlushFats, MoreCopies
    <3>2. FlushProgress'
      BY <1>0, <3>1, NothingPassed
    <3>3. disk_fat'[0] = g_fat_primary /\ UNCHANGED g_fat_primary
      BY <1>3, <2>10, LastSector, ClusterFacts
    <3>4. Durable'
      BY <2>1, <3>3 DEF DurableInv, Durable
    <3> QED BY <3>2, <3>4 DEF DurableInv
  <2> QED BY <2>8, <2>9, <2>10
<1> QED BY <1>1, <1>2, <1>3

LEMMA NextDurable == DurableInv /\ [Next]_vars => DurableInv'
<1> SUFFICES ASSUME DurableInv, [Next]_vars PROVE DurableInv'
  OBVIOUS
<1>0. TypeOK'
  BY NextTypeOK DEF DurableInv
<1>1. CASE UNCHANGED vars
  BY <1>1 DEF vars, cache, image, control, DurableInv, TypeOK, Durable, FlushProgress
<1>2. CASE Quiet
  BY <1>0, <1>2, QuietStep DEF Quiet
<1>3. ASSUME NEW d \in Directories(Mounted), NEW n \in Names,
             ReadFile(d, n) \/ WriteFile(d, n) \/ CreateDirectory(d, n) \/ DeleteFile(d, n)
      PROVE  DurableInv'
  BY <1>2, <1>3, DirectoryType, CallsAreQuiet DEF DurableInv
<1>4. CASE Step
  <2>1. CASE \/ Allocate \/ AllocateFails \/ Fill \/ FillFails
             \/ PutEntry \/ ExtendDirectory \/ PutEntryFails
    BY <1>2, <2>1, BuildingIsQuiet DEF DurableInv
  <2>2. CASE TakeResult
    BY <1>2, <2>2 DEF TakeResult, Goto, Quiet, cache, image
  <2> QED BY <1>0, <1>4, <2>1, <2>2, FlushRootDurable, FlushFatsDurable DEF Step
<1>5. CASE MountFails \/ Shutdown
  BY <1>2, <1>5 DEF MountFails, Shutdown, Return, Goto, Quiet, cache, image
<1>6. CASE \E k \in {"write", "mkdir", "rm", "read"} : Refused(k)
  BY <1>2, <1>6 DEF Refused, Return, Quiet, cache, image
<1>7. CASE Mount
  BY <1>0, <1>7, NothingPassed DEF Mount, Return, image, DurableInv, Durable
<1>8. CASE Restart
  BY <1>0, <1>8, NothingPassed DEF Restart, DurableInv, Durable
<1> QED BY <1>1, <1>3, <1>4, <1>5, <1>6, <1>7, <1>8 DEF Next

\* A clean cache is on the disk, and what a flush has passed is on the disk,
\* for every geometry, whichever transfers fail and wherever the machine
\* restarts.
THEOREM CleanMeansDurable == Spec => [](Durable /\ FlushProgress)
<1>1. Init => DurableInv
  BY InitDurable
<1>2. DurableInv /\ [Next]_vars => DurableInv'
  BY NextDurable
<1>3. DurableInv => Durable /\ FlushProgress
  BY DEF DurableInv
<1> QED BY <1>1, <1>2, <1>3, PTL DEF Spec

\* What a flush has passed is on the disk, copy by copy and sector by sector,
\* whichever flush before it failed or was cut off.
THEOREM PassedIsWritten == Spec => []FlushProgress
BY CleanMeansDurable, PTL

\* A flush clears the FAT's dirty flag only when every copy of the FAT on the
\* disk equals the cache.
THEOREM CompletedFlushMirrors == Spec => FlushMirrors
<1> DEFINE Mirrors == pc = "fats" /\ g_fat_dirty /\ ~g_fat_dirty' =>
                         pc' = "off" \/ \A k \in Copies : disk_fat'[k] = g_fat_primary'
<1>1. DurableInv /\ DurableInv' /\ [Next]_vars => [Mirrors]_vars
  <2> SUFFICES ASSUME DurableInv, DurableInv', [Next]_vars,
                      pc = "fats", g_fat_dirty, ~g_fat_dirty', pc' # "off"
               PROVE  \A k \in Copies : disk_fat'[k] = g_fat_primary'
    OBVIOUS
  <2>1. FlushFats
    <3>1. ~UNCHANGED vars
      BY DEF vars, cache
    <3>2. ~Restart
      BY DEF Restart
    <3>3. ~FlushFatsFails
      BY DEF FlushFatsFails, cache
    <3> QED BY <3>1, <3>2, <3>3 DEF Next, Step, Mount, MountFails, Shutdown, Refused, Ready,
               ReadFile, WriteFile, CreateDirectory, DeleteFile, Allocate, AllocateFails,
               Fill, FillFails, PutEntry, ExtendDirectory, PutEntryFails, FlushRoot,
               FlushRootFails, TakeResult
  <2>2. ~(cur.at + FatPerSector <= TotalClusters + 1) /\ ~(cur.copy + 1 < NumFats)
    BY <2>1 DEF FlushFats, MoreCopies
  <2>3. TypeOK'
    BY DEF DurableInv
  <2> QED BY <2>1, <2>2, <2>3, LastSector
<1>2. Init => DurableInv
  BY InitDurable
<1>3. DurableInv /\ [Next]_vars => DurableInv'
  BY NextDurable
<1> QED BY <1>1, <1>2, <1>3, PTL DEF Spec, FlushMirrors

-----------------------------------------------------------------------------
(* What the calls leave on the volume *)


Changing == {"write", "mkdir", "rm"}
Succeeded == res.call \in Changing /\ res.code = "OK"

\* The copies of the FAT differ only while they are flushed; a call that
\* changes the volume runs on a mounted one, and has flushed the root directory
\* when it comes to the FAT.
FlushedInv ==
    /\ DurableInv
    /\ pc # "fats" \/ ~g_fat_dirty => \A k \in Copies : disk_fat[k] = disk_fat[0]
    /\ pc \in {"alloc", "fill", "entry", "root", "fats"} => g_fs_ready
    /\ pc = "fats" => ~g_root_dirty
    /\ Succeeded => pc = "returned" /\ OkMeansFlushed

LEMMA InitFlushed == Init => FlushedInv
  BY InitDurable, ClusterFacts DEF Init, FlushedInv, Succeeded, Pending, Returned

\* A step that is no flush: it does not report that a change succeeded.
NoFlush ==
    /\ pc # "fats" /\ pc' # "fats"
    /\ pc' \in {"alloc", "fill", "entry", "root"} => g_fs_ready
    /\ ~Succeeded'

LEMMA QuietFlushed == ASSUME FlushedInv, DurableInv', Quiet, NoFlush PROVE FlushedInv'
  BY DEF FlushedInv, Quiet, NoFlush

LEMMA CallsDoNotFlush ==
    ASSUME NEW d, NEW n,
           ReadFile(d, n) \/ WriteFile(d, n) \/ CreateDirectory(d, n) \/ DeleteFile(d, n)
    PROVE  NoFlush
<1>1. Ready
  BY DEF ReadFile, WriteFile, CreateDirectory, DeleteFile
<1>2. ASSUME NEW code, ReturnAtOnce("read", code) PROVE NoFlush
  BY <1>1, <1>2 DEF ReturnAtOnce, Return, Returned, NoFlush, Succeeded, Changing, Ready
<1>3. ASSUME NEW k, NEW code, code # "OK", Return(k, code) PROVE NoFlush
  BY <1>1, <1>3 DEF Return, Returned, NoFlush, Succeeded, Ready
<1>4. ASSUME NEW l \in {"alloc", "entry", "root"}, Goto(l) PROVE NoFlush
  BY <1>1, <1>4 DEF Goto, Pending, Returned, NoFlush, Succeeded, Changing, Ready
<1> QED BY <1>2, <1>3, <1>4 DEF ReadFile, WriteFile, CreateDirectory, DeleteFile, ReturnAtOnce

LEMMA BuildingDoesNotFlush ==
    ASSUME FlushedInv, \/ Allocate \/ AllocateFails \/ Fill \/ FillFails
                       \/ PutEntry \/ ExtendDirectory \/ PutEntryFails
    PROVE  NoFlush
<1>1. pc \in {"alloc", "fill", "entry"} /\ g_fs_ready
  BY DEF FlushedInv, Allocate, AllocateFails, Fill, FillFails, PutEntry, ExtendDirectory, PutEntryFails
<1>2. ASSUME NEW code, code # "OK", NEW touched, Abandon(code, touched) PROVE NoFlush
  BY <1>1, <1>2 DEF Abandon, Return, Returned, NoFlush, Succeeded
<1>3. ASSUME NEW l \in {"alloc", "fill", "entry", "root"}, Goto(l) PROVE NoFlush
  BY <1>1, <1>3 DEF Goto, Pending, Returned, NoFlush, Succeeded, Changing
<1>4. CASE ExtendDirectory
  BY <1>1, <1>4 DEF ExtendDirectory, control, NoFlush, FlushedInv, Succeeded
<1> QED
  BY <1>2, <1>3, <1>4 DEF Allocate, AllocateFails, Fill, FillFails, PutEntry, PutEntryFails, NoCluster

LEMMA FlushRootFlushed ==
    ASSUME "flush" \notin MayFail, FlushedInv, DurableInv', FlushRoot
    PROVE  FlushedInv'
<1>1. pc = "root" /\ pc' \in {"root", "fats"} /\ UNCHANGED <<g_fs_ready, disk_fat, g_fat_dirty>>
  BY DEF FlushRoot, Goto
<1>2. pc' = "fats" => ~g_root_dirty'
  BY DEF FlushRoot, Goto
<1>3. ~Succeeded'
  BY <1>1 DEF FlushRoot, Goto, FlushedInv, Succeeded, Pending, Returned, Changing
<1> QED BY <1>1, <1>2, <1>3 DEF FlushedInv

LEMMA FlushFatsFlushed ==
    ASSUME FlushedInv, DurableInv', FlushFats
    PROVE  FlushedInv'
<1>1. pc = "fats" /\ g_fs_ready /\ ~g_root_dirty
      /\ UNCHANGED <<g_fs_ready, g_root_dirty, g_root_dir, g_fat_primary, disk_root>>
  BY DEF FlushFats, FlushedInv
<1>2. CASE pc' = "fats" /\ g_fat_dirty' /\ UNCHANGED res
  BY <1>1, <1>2 DEF FlushedInv, Succeeded
<1>3. CASE Leave /\ \A k \in Copies : disk_fat'[k] = g_fat_primary
  <2>1. pc' \in {"halted", "returned"} /\ (Succeeded' => pc' = "returned")
    BY <1>3 DEF Leave, Goto, Return, Pending, Returned, Succeeded, Changing
  <2>2. disk_root = g_root_dir
    BY <1>1 DEF FlushedInv, DurableInv, Durable
  <2>3. OkMeansFlushed'
    BY <1>1, <1>3, <2>2 DEF OkMeansFlushed
  <2> QED BY <1>1, <1>3, <2>1, <2>3, ClusterFacts DEF FlushedInv
<1>4. CASE ~g_fat_dirty /\ Leave /\ UNCHANGED disk_fat
  <2>1. \A k \in Copies : disk_fat'[k] = g_fat_primary
    BY <1>1, <1>4 DEF FlushedInv, DurableInv, Durable
  <2> QED BY <1>3, <1>4, <2>1
<1>5. CASE g_fat_dirty /\ Leave /\ ~(cur.at + FatPerSector <= TotalClusters + 1) /\ ~MoreCopies
  BY <1>3, <1>5, LastSector DEF FlushedInv, DurableInv, MoreCopies
<1> QED BY <1>1, <1>2, <1>4, <1>5 DEF FlushFats

LEMMA NextFlushed ==
    ASSUME "flush" \notin MayFail, "fats" \notin RestartFrom, FlushedInv, [Next]_vars
    PROVE  FlushedInv'
<1>0. DurableInv'
  BY NextDurable DEF FlushedInv
<1>1. CASE UNCHANGED vars
  BY <1>0, <1>1 DEF vars, cache, image, control, FlushedInv, Succeeded, OkMeansFlushed
<1>2. ASSUME NEW d \in Directories(Mounted), NEW n \in Names,
             ReadFile(d, n) \/ WriteFile(d, n) \/ CreateDirectory(d, n) \/ DeleteFile(d, n)
      PROVE  FlushedInv'
  <2>1. Quiet
    BY <1>2, DirectoryType, CallsAreQuiet DEF FlushedInv, DurableInv
  <2> QED BY <1>0, <1>2, <2>1, CallsDoNotFlush, QuietFlushed
<1>3. CASE \/ Allocate \/ AllocateFails \/ Fill \/ FillFails
           \/ PutEntry \/ ExtendDirectory \/ PutEntryFails
  <2>1. Quiet
    BY <1>3, BuildingIsQuiet DEF FlushedInv, DurableInv
  <2> QED BY <1>0, <1>3, <2>1, BuildingDoesNotFlush, QuietFlushed
<1>4. CASE TakeResult \/ MountFails \/ Shutdown \/ \E k \in {"write", "mkdir", "rm", "read"} : Refused(k)
  <2>1. Quiet
    BY <1>4 DEF TakeResult, MountFails, Shutdown, Refused, Return, Goto, Quiet, cache, image
  <2>2. NoFlush
    BY <1>4 DEF TakeResult, MountFails, Shutdown, Refused, Return, Goto, Returned, Pending,
                NoFlush, Succeeded, Changing
  <2> QED BY <1>0, <2>1, <2>2, QuietFlushed
<1>5. CASE FlushRootFails \/ FlushFatsFails
  BY <1>5 DEF FlushRootFails, FlushFatsFails
<1>6. CASE Mount
  BY <1>0, <1>6 DEF Mount, Return, Returned, image, FlushedInv, Succeeded, Changing
<1>7. CASE Restart
  BY <1>0, <1>7 DEF Restart, image, FlushedInv, Succeeded, Changing, Pending, Returned
<1> QED BY <1>0, <1>1, <1>2, <1>3, <1>4, <1>5, <1>6, <1>7, FlushRootFlushed, FlushFatsFlushed DEF Next, Step

\* A write, mkdir or rm that returned OK is on the disk, in every copy of the
\* FAT, when no flush fails and no restart falls into the middle of one.  Both
\* are needed: a flush that fails is not reported, and after a flush that was
\* cut off the copies differ until the FAT is next written.
THEOREM OkIsFlushed ==
    ASSUME "flush" \notin MayFail, "fats" \notin RestartFrom
    PROVE  Spec => []OkMeansFlushed
<1>1. FlushedInv /\ [Next]_vars => FlushedInv'
  BY NextFlushed
<1>2. FlushedInv => OkMeansFlushed
  BY DEF FlushedInv, OkMeansFlushed, Succeeded, Changing
<1> QED BY <1>1, <1>2, InitFlushed, PTL DEF Spec

-----------------------------------------------------------------------------
(* Walks over the clusters: along a chain, and down the directories.        *)

LEMMA FiniteClusters == IsFiniteSet(Clusters) /\ Cardinality(Clusters) = TotalClusters
<1>1. TotalClusters \in Nat /\ TotalClusters + 1 \in Int /\ 2 \in Int /\ ~(2 > TotalClusters + 1)
  BY GeometryAssumption
<1> QED BY <1>1, FS_Interval DEF Clusters

LEMMA VisitedIsWalk ==
    ASSUME NEW R, NEW A
    PROVE  \E v : Walk(R, A, TotalClusters, v) /\ Visited(R, A) = v[TotalClusters] \cap Clusters
<1> DEFINE v == CHOOSE v : Walk(R, A, TotalClusters, v)
<1>1. TotalClusters \in Nat
  BY GeometryAssumption
<1>2. \E w : Walk(R, A, TotalClusters, w)
  BY <1>1, WalkExists
<1>3. Walk(R, A, TotalClusters, v)
  BY <1>2, Zenon
<1>4. Visited(R, A) = v[TotalClusters] \cap Clusters
  BY Zenon DEF Visited, Walk
<1> QED BY <1>3, <1>4

\* What a walk along steps that start in clusters visits: it is closed, ...
LEMMA VisitedClosed ==
    ASSUME NEW R, \A l \in R : l[1] \in Clusters, NEW A
    PROVE  /\ Visited(R, A) \subseteq Clusters
           /\ A \cap Clusters \subseteq Visited(R, A)
           /\ \A l \in R : l[1] \in Visited(R, A) /\ l[2] \in Clusters => l[2] \in Visited(R, A)
<1>1. PICK v : Walk(R, A, TotalClusters, v) /\ Visited(R, A) = v[TotalClusters] \cap Clusters
  BY VisitedIsWalk
<1>2. TotalClusters \in Nat /\ TotalClusters >= Cardinality(Clusters)
  BY FiniteClusters, GeometryAssumption
<1>3. A \subseteq v[TotalClusters] /\ Closed(R, Clusters, v[TotalClusters])
  BY <1>1, <1>2, FiniteClusters, WalkCloses
<1> QED BY <1>1, <1>3 DEF Closed

\* ... and no smaller set is.
LEMMA VisitedLeast ==
    ASSUME NEW R, \A l \in R : l[1] \in Clusters, NEW A, NEW S,
           A \cap Clusters \subseteq S,
           \A l \in R : l[1] \in S /\ l[2] \in Clusters => l[2] \in S
    PROVE  Visited(R, A) \subseteq S
<1>1. PICK v : Walk(R, A, TotalClusters, v) /\ Visited(R, A) = v[TotalClusters] \cap Clusters
  BY VisitedIsWalk
<1> DEFINE T == (S \cap Clusters) \cup (A \ Clusters) \cup ({l[2] : l \in R} \ Clusters)
<1>2. A \subseteq T /\ \A l \in R : l[1] \in T => l[2] \in T
  OBVIOUS
<1>3. TotalClusters \in Nat
  BY GeometryAssumption
<1> HIDE DEF T
<1>4. v[TotalClusters] \subseteq T
  BY <1>1, <1>2, <1>3, WalkIsLeast
<1> QED BY <1>1, <1>4 DEF T

LEMMA ChainClosed ==
    ASSUME NEW f, NEW c
    PROVE  /\ Chain(f, c) \subseteq Clusters
           /\ c \in Clusters => c \in Chain(f, c)
           /\ c \notin Clusters => Chain(f, c) = {}
           /\ \A x \in Chain(f, c) : f[x] \in Clusters => f[x] \in Chain(f, c)
<1>1. \A l \in Links(f) : l[1] \in Clusters
  BY DEF Links
<1>2. ASSUME NEW x \in Clusters, f[x] \in Clusters
      PROVE  <<x, f[x]>> \in Links(f) /\ <<x, f[x]>>[1] = x /\ <<x, f[x]>>[2] = f[x]
  BY <1>2 DEF Links
<1> QED BY <1>1, <1>2, VisitedClosed DEF Chain

LEMMA ChainLeast ==
    ASSUME NEW f, NEW c, NEW S, c \in Clusters => c \in S,
           \A x \in S \cap Clusters : f[x] \in Clusters => f[x] \in S
    PROVE  Chain(f, c) \subseteq S
<1>1. \A l \in Links(f) : l[1] \in Clusters
  BY DEF Links
<1>2. \A l \in Links(f) : l[1] \in S /\ l[2] \in Clusters => l[2] \in S
  BY DEF Links
<1>3. CASE c \in Clusters
  BY <1>1, <1>2, <1>3, VisitedLeast DEF Chain
<1>4. CASE c \notin Clusters
  BY <1>4, ChainClosed
<1> QED BY <1>3, <1>4

\* A set no link leads out of.
KeptBy(f, S) == S \subseteq Clusters /\ \A x \in S : f[x] \in Clusters => f[x] \in S

LEMMA ChainKept ==
    ASSUME NEW f, NEW c
    PROVE  KeptBy(f, Chain(f, c))
  BY ChainClosed DEF KeptBy

\* Chains in such a set do not depend on the rest of the FAT.
LEMMA ChainSame ==
    ASSUME NEW f, NEW g, NEW S, KeptBy(f, S), \A x \in S : g[x] = f[x], NEW c \in S
    PROVE  Chain(g, c) = Chain(f, c) /\ Chain(f, c) \subseteq S
<1>1. Chain(f, c) \subseteq S /\ Chain(g, c) \subseteq S
  BY ChainLeast DEF KeptBy
<1>2. Chain(g, c) \subseteq Chain(f, c)
  <2>1. \A x \in Chain(f, c) \cap Clusters : g[x] \in Clusters => g[x] \in Chain(f, c)
    BY <1>1, ChainClosed
  <2> QED BY <2>1, ChainLeast, ChainClosed
<1>3. Chain(f, c) \subseteq Chain(g, c)
  <2>1. \A x \in Chain(g, c) \cap Clusters : f[x] \in Clusters => f[x] \in Chain(g, c)
    BY <1>1, ChainClosed
  <2> QED BY <2>1, ChainLeast, ChainClosed
<1> QED BY <1>1, <1>2, <1>3

\* Putting a free cluster at the end of a chain lengthens the chains that end
\* there.
LEMMA ChainLinked ==
    ASSUME NEW f, NEW prev, NEW c \in Clusters, f[prev] \notin Clusters \/ prev \notin Clusters,
           f[c] \notin Clusters, NEW a \in Clusters
    PROVE  LET g == Link(f, prev, c) IN
           /\ Chain(f, a) \subseteq Chain(g, a)
           /\ Chain(g, a) \subseteq Chain(f, a) \cup {c}
           /\ prev \in Chain(f, a) => c \in Chain(g, a)
           /\ prev \notin Chain(f, a) => Chain(g, a) = Chain(f, a)
           /\ Chain(g, c) = {c}
           /\ g[c] \notin Clusters
<1> DEFINE g == Link(f, prev, c)
<1>0. EOC \notin Clusters
  BY GeometryAssumption DEF EOC, Clusters
<1>1. /\ g[c] = EOC
      /\ prev \in Clusters /\ prev # c => g[prev] = c
      /\ \A x \in Clusters : x # c /\ x # prev => g[x] = f[x]
  BY DEF Link
<1> HIDE DEF g
<1>2. Chain(g, a) \subseteq Chain(f, a) \cup {c}
  <2> DEFINE S == Chain(f, a) \cup {c}
  <2>1. \A x \in S \cap Clusters : g[x] \in Clusters => g[x] \in S
    BY <1>0, <1>1, ChainClosed
  <2>2. a \in S
    BY ChainClosed
  <2> HIDE DEF S
  <2>3. Chain(g, a) \subseteq S
    BY <2>1, <2>2, ChainLeast
  <2> QED BY <2>3 DEF S
<1>3. Chain(f, a) \subseteq Chain(g, a)
  <2>1. \A x \in Chain(g, a) \cap Clusters : f[x] \in Clusters => f[x] \in Chain(g, a)
    BY <1>1, ChainClosed
  <2> QED BY <2>1, ChainLeast, ChainClosed
<1>4. ASSUME prev \in Chain(f, a) PROVE c \in Chain(g, a)
  <2>1. prev \in Chain(g, a) /\ prev \in Clusters
    BY <1>3, <1>4, ChainClosed
  <2> QED BY <1>1, <2>1, ChainClosed
<1>5. ASSUME prev \notin Chain(f, a) PROVE Chain(g, a) = Chain(f, a)
  <2>1. \A x \in Chain(f, a) \cap Clusters : g[x] \in Clusters => g[x] \in Chain(f, a)
    BY <1>0, <1>1, <1>5, ChainClosed
  <2>2. Chain(g, a) \subseteq Chain(f, a)
    BY <2>1, ChainLeast, ChainClosed
  <2> QED BY <1>3, <2>2
<1>6. Chain(g, c) = {c}
  <2>1. \A x \in {c} \cap Clusters : g[x] \in Clusters => g[x] \in {c}
    BY <1>0, <1>1
  <2>2. Chain(g, c) \subseteq {c}
    BY <2>1, ChainLeast
  <2> QED BY <2>2, ChainClosed
<1> QED BY <1>0, <1>1, <1>2, <1>3, <1>4, <1>5, <1>6 DEF g

-----------------------------------------------------------------------------
(* A consistent volume.  B are clusters taken for a file that has no entry   *)
(* yet.                                                                      *)

Held(v) == UNION {Holds(v, s) : s \in InUse(v)}
HeldOnce(v, B) ==
    \A s \in InUse(v) :
        /\ Holds(v, s) \cap B = {}
        /\ \A t \in InUse(v) \ {s} : Holds(v, s) \cap Holds(v, t) = {}
AllHeld(v, B) ==
    {c \in Clusters : v.fat[c] # FREE} = B \cup Held(v)
ScansSeeAll(v, d) ==
    /\ \A s \in SlotsOf(v, d) : ~IsFree(At(v, s)) => s \in Visible(v, d)
    /\ \A s, t \in Visible(v, d) : At(v, s).name = At(v, t).name => s = t

Sound(v, B) ==
    HeldOnce(v, B) /\ AllHeld(v, B) /\ \A d \in Directories(v) : ScansSeeAll(v, d)

\* What a call in progress knows of the volume: the chain it builds ends in the
\* cluster it allocated last, and the entry it searched for is as it was found.
CallInv ==
    pc \in {"alloc", "fill", "entry"} =>
        /\ op.kind \in {"write", "mkdir"} /\ op.name \in Names
        /\ op.dir \in Directories(Mounted)
        /\ IF op.first = 0 THEN op.new = 0
           ELSE op.new \in Chain(g_fat_primary, op.first) /\ g_fat_primary[op.new] \notin Clusters
        /\ pc = "fill" => op.first # 0
        /\ op.kind = "mkdir" =>
              /\ op.size = 0 /\ op.old = 0 /\ op.new = op.first
              /\ pc = "alloc" <=> op.first = 0
              /\ pc = "entry" => disk_data[op.first] = DotEntries(op.first, op.dir)
        /\ \/ /\ op.old = 0
              /\ \A s \in Visible(Mounted, op.dir) : At(Mounted, s).name # op.name
           \/ /\ op.kind = "write"
              /\ \E s \in Visible(Mounted, op.dir) :
                    LET e == At(Mounted, s) IN e.name = op.name /\ ~e.dir /\ e.first = op.old

VolumeInv ==
    /\ DurableInv
    /\ g_fs_ready => Sound(Mounted, Building) /\ CallInv
    /\ ~g_fs_ready => Sound(OnDisk, {}) /\ pc \in {"off", "idle", "returned", "halted"}
    /\ pc = "off" => ~g_fs_ready

\* The disk by itself is consistent but while an entry is written and its
\* flushes are not; what is allocated on it, an entry holds in memory too.
DiskInv ==
    /\ pc = "fats" => ~g_root_dirty
    /\ pc \notin {"root", "fats"} =>
          /\ Sound(OnDisk, {})
          /\ g_fs_ready => {c \in Clusters : disk_fat[0][c] # FREE} \subseteq Held(Mounted)

-----------------------------------------------------------------------------
(* The tree of directories *)

LEMMA DirectoriesClosed ==
    ASSUME NEW v
    PROVE  /\ 0 \in Directories(v) /\ Directories(v) \subseteq Clusters \cup {0}
           /\ \A d \in Directories(v) : \A e \in Subdirectories(v, d) : e \in Clusters => e \in Directories(v)
<1> DEFINE R == UNION {{d} \X Subdirectories(v, d) : d \in Clusters}
           A == Subdirectories(v, 0)
<1>1. \A l \in R : l[1] \in Clusters
  OBVIOUS
<1>2. \A d \in Clusters : \A e \in Subdirectories(v, d) : <<d, e>> \in R
  OBVIOUS
<1>3. Directories(v) = {0} \cup Visited(R, A)
  BY DEF Directories
<1> HIDE DEF R
<1>4. /\ Visited(R, A) \subseteq Clusters /\ A \cap Clusters \subseteq Visited(R, A)
      /\ \A l \in R : l[1] \in Visited(R, A) /\ l[2] \in Clusters => l[2] \in Visited(R, A)
  BY <1>1, VisitedClosed
<1>5. ASSUME NEW d \in Visited(R, A), NEW e \in Subdirectories(v, d), e \in Clusters
      PROVE  e \in Visited(R, A)
  <2>1. <<d, e>> \in R /\ <<d, e>>[1] = d /\ <<d, e>>[2] = e
    BY <1>2, <1>4
  <2> QED BY <1>4, <1>5, <2>1
<1> QED BY <1>3, <1>4, <1>5

LEMMA DirectoriesLeast ==
    ASSUME NEW v, NEW S, 0 \in S,
           \A d \in S : \A e \in Subdirectories(v, d) : e \in Clusters => e \in S
    PROVE  Directories(v) \subseteq S
<1> DEFINE R == UNION {{d} \X Subdirectories(v, d) : d \in Clusters}
           A == Subdirectories(v, 0)
<1>1. \A l \in R : l[1] \in Clusters /\ l[2] \in Subdirectories(v, l[1])
  OBVIOUS
<1>2. A \cap Clusters \subseteq S
  OBVIOUS
<1>3. Directories(v) = {0} \cup Visited(R, A)
  BY DEF Directories
<1> HIDE DEF R, A
<1>4. \A l \in R : l[1] \in S /\ l[2] \in Clusters => l[2] \in S
  BY <1>1
<1>5. Visited(R, A) \subseteq S
  BY <1>1, <1>2, <1>4, VisitedLeast
<1> QED BY <1>3, <1>5

\* Directories that hold the same subdirectories, and new ones X that hold none.
LEMMA TreeGrows ==
    ASSUME NEW v, NEW w, NEW X, X \subseteq Clusters,
           \A d \in Directories(v) : /\ Subdirectories(v, d) \subseteq Subdirectories(w, d)
                                     /\ Subdirectories(w, d) \subseteq Subdirectories(v, d) \cup X,
           \A x \in X : /\ Subdirectories(w, x) = {}
                        /\ \E d \in Directories(v) : x \in Subdirectories(w, d)
    PROVE  Directories(w) = Directories(v) \cup X
<1>1. Directories(w) \subseteq Directories(v) \cup X
  <2> DEFINE S == Directories(v) \cup X
  <2>1. 0 \in S /\ \A d \in S : \A e \in Subdirectories(w, d) : e \in Clusters => e \in S
    BY DirectoriesClosed
  <2> HIDE DEF S
  <2>2. Directories(w) \subseteq S
    BY <2>1, DirectoriesLeast
  <2> QED BY <2>2 DEF S
<1>2. Directories(v) \subseteq Directories(w)
  <2> DEFINE S == Directories(v) \cap Directories(w)
  <2>1. 0 \in S /\ \A d \in S : \A e \in Subdirectories(v, d) : e \in Clusters => e \in S
    BY DirectoriesClosed
  <2> HIDE DEF S
  <2>2. Directories(v) \subseteq S
    BY <2>1, DirectoriesLeast
  <2> QED BY <2>2 DEF S
<1>3. X \subseteq Directories(w)
  BY <1>2, DirectoriesClosed
<1> QED BY <1>1, <1>2, <1>3

\* A directory but the root is held by an entry of the tree.
LEMMA DirectoryHeld ==
    ASSUME NEW v, NEW d \in Directories(v), d # 0
    PROVE  \E s \in InUse(v) : At(v, s).dir /\ At(v, s).first = d
<1> DEFINE S == {0} \cup {e \in Directories(v) : \E s \in InUse(v) : At(v, s).dir /\ At(v, s).first = e}
<1>1. ASSUME NEW c \in S, NEW e \in Subdirectories(v, c), e \in Clusters
      PROVE  e \in S
  <2>1. c \in Directories(v)
    BY DirectoriesClosed
  <2>2. e \in Directories(v)
    BY <1>1, <2>1, DirectoriesClosed
  <2>3. PICK s \in Visible(v, c) : At(v, s).dir /\ At(v, s).name \in Names /\ At(v, s).first = e
    BY DEF Subdirectories
  <2>4. s \in InUse(v)
    BY <2>1, <2>3 DEF InUse
  <2> QED BY <2>2, <2>3, <2>4
<1>2. 0 \in S
  OBVIOUS
<1> HIDE DEF S
<1>3. Directories(v) \subseteq S
  BY <1>1, <1>2, DirectoriesLeast
<1> QED BY <1>3 DEF S

-----------------------------------------------------------------------------
(* What the slots of a directory hold, once a scan sees all of them *)

IsVolume(v) == \A c, x : <<c, x>> \in v.reach <=> c \in Clusters /\ x \in Chain(v.fat, c)

LEMMA VolumeParts ==
    ASSUME NEW f, NEW r, NEW d
    PROVE  LET v == Volume(f, r, d) IN v.fat = f /\ v.root = r /\ v.data = d /\ IsVolume(v)
<1> DEFINE v == Volume(f, r, d)
<1>1. v.fat = f /\ v.root = r /\ v.data = d
  BY DEF Volume
<1>2. v.reach = UNION {{c} \X Chain(f, c) : c \in Clusters}
  BY DEF Volume
<1> HIDE DEF v
<1>3. IsVolume(v)
  BY <1>1, <1>2 DEF IsVolume
<1> QED BY <1>1, <1>3 DEF v

LEMMA ChainsOfSlots ==
    ASSUME NEW v, IsVolume(v)
    PROVE  /\ SlotsOf(v, 0) = {0} \X RootIndex
           /\ \A d \in Clusters : SlotsOf(v, d) = Chain(v.fat, d) \X Slots
           /\ \A s : Holds(v, s) = Chain(v.fat, At(v, s).first)
           /\ \A s, t : Before(v, s, t) <=>
                 IF s[1] = t[1] THEN s[2] < t[2]
                 ELSE s[1] \in Clusters /\ t[1] \in Chain(v.fat, s[1])
<1>1. ASSUME NEW d
      PROVE  {o \in Clusters : <<d, o>> \in v.reach} = Chain(v.fat, d)
  <2>1. Chain(v.fat, d) \subseteq Clusters /\ (d \notin Clusters => Chain(v.fat, d) = {})
    BY ChainClosed
  <2> QED BY <2>1 DEF IsVolume
<1>2. \A d \in Clusters : SlotsOf(v, d) = Chain(v.fat, d) \X Slots
  BY <1>1, ClusterFacts DEF SlotsOf
<1>3. \A s : Holds(v, s) = Chain(v.fat, At(v, s).first)
  BY <1>1 DEF Holds
<1> QED BY <1>2, <1>3 DEF SlotsOf, Before, IsVolume

\* No END comes before a slot in use, and no name is used twice.
Clean(v, d) ==
    /\ \A s, t \in SlotsOf(v, d) :
          ~IsFree(At(v, s)) /\ At(v, t).name = END => ~Before(v, t, s)
    /\ \A s, t \in SlotsOf(v, d) :
          ~IsFree(At(v, s)) /\ ~IsFree(At(v, t)) /\ At(v, s).name = At(v, t).name => s = t

LEMMA ScanMeaning ==
    ASSUME NEW v, NEW d
    PROVE  /\ ScansSeeAll(v, d) <=> Clean(v, d)
           /\ Clean(v, d) => Visible(v, d) = {s \in SlotsOf(v, d) : ~IsFree(At(v, s))}
<1>1. \A s : s \in Visible(v, d) <=>
         /\ s \in SlotsOf(v, d) /\ ~IsFree(At(v, s))
         /\ \A t \in SlotsOf(v, d) : At(v, t).name = END => ~Before(v, t, s)
  BY DEF Visible
<1>2. Clean(v, d) => Visible(v, d) = {s \in SlotsOf(v, d) : ~IsFree(At(v, s))}
  BY <1>1 DEF Clean
<1>3. Clean(v, d) => ScansSeeAll(v, d)
  BY <1>2 DEF Clean, ScansSeeAll
<1>4. ScansSeeAll(v, d) => Clean(v, d)
  BY <1>1 DEF Clean, ScansSeeAll
<1> QED BY <1>2, <1>3, <1>4

TreeSlots(v) == UNION {SlotsOf(v, d) : d \in Directories(v)}
AllClean(v) == \A d \in Directories(v) : Clean(v, d)
IsSubdirectory(e) == e.dir /\ e.name \in Names

LEMMA CleanDirectory ==
    ASSUME NEW v, NEW d, Clean(v, d)
    PROVE  Subdirectories(v, d) =
               {At(v, s).first : s \in {t \in SlotsOf(v, d) : IsSubdirectory(At(v, t))}}
<1>1. \A e : e.name \in Names => ~IsFree(e)
  BY NameAssumption DEF IsFree
<1> QED BY <1>1, ScanMeaning DEF Subdirectories, IsSubdirectory

LEMMA CleanTree ==
    ASSUME NEW v, AllClean(v)
    PROVE  InUse(v) = {s \in TreeSlots(v) : At(v, s).name \in Names}
<1>1. \A e : e.name \in Names => ~IsFree(e)
  BY NameAssumption DEF IsFree
<1>2. ASSUME NEW d \in Directories(v)
      PROVE  Visible(v, d) = {s \in SlotsOf(v, d) : ~IsFree(At(v, s))}
  BY ScanMeaning DEF AllClean
<1> QED BY <1>1, <1>2 DEF InUse, TreeSlots

Agree(v, w, d) ==
    /\ SlotsOf(w, d) = SlotsOf(v, d)
    /\ \A s, t \in SlotsOf(v, d) : Before(w, s, t) <=> Before(v, s, t)

\* A directory has the slots it had when its chain is what it was.
LEMMA SlotsKept ==
    ASSUME NEW v, NEW w, IsVolume(v), IsVolume(w), NEW d \in Clusters \cup {0},
           \A c \in Chain(v.fat, d) : w.fat[c] = v.fat[c]
    PROVE  Agree(v, w, d)
<1>1. CASE d = 0
  <2>1. SlotsOf(v, d) = {0} \X RootIndex /\ SlotsOf(w, d) = {0} \X RootIndex
    BY <1>1, ChainsOfSlots
  <2>2. \A s, t \in SlotsOf(v, d) : s[1] = t[1]
    BY <2>1
  <2> QED BY <2>1, <2>2, ChainsOfSlots DEF Agree
<1>2. CASE d \in Clusters
  <2> DEFINE S == Chain(v.fat, d)
  <2>1. KeptBy(v.fat, S) /\ d \in S /\ S \subseteq Clusters
    BY <1>2, ChainKept, ChainClosed
  <2>2. \A x \in S : w.fat[x] = v.fat[x]
    OBVIOUS
  <2>3. SlotsOf(v, d) = S \X Slots /\ SlotsOf(w, d) = Chain(w.fat, d) \X Slots
    BY <1>2, ChainsOfSlots
  <2> HIDE DEF S
  <2>4. \A c \in S : Chain(w.fat, c) = Chain(v.fat, c)
    BY <2>1, <2>2, ChainSame
  <2>5. SlotsOf(w, d) = SlotsOf(v, d)
    BY <2>1, <2>3, <2>4 DEF S
  <2>6. \A s \in SlotsOf(v, d) : s[1] \in S
    BY <2>3
  <2> QED BY <2>4, <2>5, <2>6, ChainsOfSlots DEF Agree
<1> QED BY <1>1, <1>2

LEMMA SameScan ==
    ASSUME NEW v, NEW w, NEW d, Agree(v, w, d), \A s \in SlotsOf(v, d) : At(w, s) = At(v, s)
    PROVE  /\ Visible(w, d) = Visible(v, d)
           /\ Subdirectories(w, d) = Subdirectories(v, d)
           /\ Clean(v, d) => Clean(w, d)
<1>1. Visible(w, d) = Visible(v, d)
  BY DEF Agree, Visible
<1>2. Subdirectories(w, d) = Subdirectories(v, d)
  <2>1. \A s \in Visible(v, d) : At(w, s) = At(v, s)
    BY DEF Visible
  <2> QED BY <1>1, <2>1 DEF Subdirectories
<1>3. Clean(v, d) => Clean(w, d)
  BY DEF Agree, Clean
<1> QED BY <1>1, <1>2, <1>3

-----------------------------------------------------------------------------
(* Steps that change nothing an entry holds *)

LEMMA SoundMeaning ==
    ASSUME NEW v, NEW B
    PROVE  Sound(v, B) <=>
              /\ AllClean(v)
              /\ \A s \in InUse(v) :
                    /\ Holds(v, s) \cap B = {}
                    /\ \A t \in InUse(v) \ {s} : Holds(v, s) \cap Holds(v, t) = {}
              /\ {c \in Clusters : v.fat[c] # FREE} = B \cup Held(v)
  BY ScanMeaning DEF Sound, HeldOnce, AllHeld, AllClean, Held

\* The chain of a directory is held by an entry.
LEMMA DirectoryChainHeld ==
    ASSUME NEW v, IsVolume(v), NEW d \in Directories(v), d # 0
    PROVE  \E s \in InUse(v) :
              At(v, s).dir /\ At(v, s).first = d /\ Holds(v, s) = Chain(v.fat, d)
  BY DirectoryHeld, ChainsOfSlots

LEMMA SlotsHeld ==
    ASSUME NEW v, IsVolume(v), NEW d \in Directories(v), NEW s \in SlotsOf(v, d)
    PROVE  /\ s[1] = 0 <=> d = 0
           /\ s[1] # 0 => s[1] \in Held(v) /\ s[1] \in Chain(v.fat, d) /\ s[1] \in Clusters
<1>1. CASE d = 0
  BY <1>1, ChainsOfSlots
<1>2. CASE d # 0
  <2>1. d \in Clusters
    BY <1>2, DirectoriesClosed
  <2>2. s[1] \in Chain(v.fat, d) /\ Chain(v.fat, d) \subseteq Clusters
    BY <2>1, ChainsOfSlots, ChainClosed
  <2>3. Chain(v.fat, d) \subseteq Held(v)
    BY <1>2, DirectoryChainHeld DEF Held
  <2> QED BY <1>2, <2>2, <2>3, ClusterFacts
<1> QED BY <1>1, <1>2

LEMMA HoldsKept ==
    ASSUME NEW v, NEW w, IsVolume(v), IsVolume(w), NEW s, At(w, s) = At(v, s),
           \A c \in Holds(v, s) : w.fat[c] = v.fat[c]
    PROVE  Holds(w, s) = Holds(v, s)
<1> DEFINE c == At(v, s).first
<1>1. Holds(v, s) = Chain(v.fat, c) /\ Holds(w, s) = Chain(w.fat, c)
  BY ChainsOfSlots
<1>2. \A x \in Chain(v.fat, c) : w.fat[x] = v.fat[x]
  BY <1>1
<1> HIDE DEF c
<1>3. CASE c \in Clusters
  <2> DEFINE S == Chain(v.fat, c)
  <2>1. KeptBy(v.fat, S) /\ c \in S /\ \A x \in S : w.fat[x] = v.fat[x]
    BY <1>2, <1>3, ChainKept, ChainClosed
  <2> HIDE DEF S
  <2> QED BY <1>1, <2>1, ChainSame
<1>4. CASE c \notin Clusters
  BY <1>1, <1>4, ChainClosed
<1> QED BY <1>3, <1>4

\* w holds what v holds.
Unchanged(v, w) ==
    /\ w.root = v.root
    /\ \A c \in Held(v) : w.fat[c] = v.fat[c] /\ w.data[c] = v.data[c]

LEMMA TreeSame ==
    ASSUME NEW v, NEW w, IsVolume(v), IsVolume(w), Unchanged(v, w)
    PROVE  /\ Directories(w) = Directories(v)
           /\ \A d \in Directories(v) :
                 /\ Visible(w, d) = Visible(v, d)
                 /\ Clean(v, d) => Clean(w, d)
                 /\ \A s \in SlotsOf(v, d) : At(w, s) = At(v, s)
           /\ InUse(w) = InUse(v)
           /\ \A s \in InUse(v) : At(w, s) = At(v, s) /\ Holds(w, s) = Holds(v, s)
<1>1. ASSUME NEW d \in Directories(v)
      PROVE  Agree(v, w, d) /\ \A s \in SlotsOf(v, d) : At(w, s) = At(v, s)
  <2>1. \A c \in Chain(v.fat, d) : w.fat[c] = v.fat[c]
    <3>1. CASE d = 0
      BY <3>1, ChainClosed, ClusterFacts
    <3>2. CASE d # 0
      BY <3>2, DirectoryChainHeld DEF Held, Unchanged
    <3> QED BY <3>1, <3>2
  <2>2. d \in Clusters \cup {0}
    BY DirectoriesClosed
  <2>3. Agree(v, w, d)
    BY <2>1, <2>2, SlotsKept
  <2>4. \A s \in SlotsOf(v, d) : At(w, s) = At(v, s)
    BY SlotsHeld DEF At, Unchanged
  <2> QED BY <2>3, <2>4
<1>2. ASSUME NEW d \in Directories(v)
      PROVE  /\ Visible(w, d) = Visible(v, d)
             /\ Subdirectories(w, d) = Subdirectories(v, d)
             /\ Clean(v, d) => Clean(w, d)
  BY <1>1, SameScan
<1>3. Directories(w) = Directories(v)
  <2> DEFINE X == {}
  <2>1. /\ X \subseteq Clusters
        /\ \A d \in Directories(v) : /\ Subdirectories(v, d) \subseteq Subdirectories(w, d)
                                     /\ Subdirectories(w, d) \subseteq Subdirectories(v, d) \cup X
        /\ \A x \in X : /\ Subdirectories(w, x) = {}
                        /\ \E d \in Directories(v) : x \in Subdirectories(w, d)
    BY <1>2
  <2>2. Directories(w) = Directories(v) \cup X
    BY ONLY <2>1, TreeGrows
  <2> QED BY <2>2
<1>4. \A d \in Directories(v) : \A s \in Visible(v, d) : s \in SlotsOf(v, d)
  BY DEF Visible
<1>5. InUse(w) = InUse(v) /\ \A s \in InUse(v) : At(w, s) = At(v, s)
  BY <1>1, <1>2, <1>3, <1>4 DEF InUse
<1>6. \A s \in InUse(v) : Holds(w, s) = Holds(v, s)
  BY <1>5, HoldsKept DEF Held, Unchanged
<1> QED BY <1>1, <1>2, <1>3, <1>5, <1>6

\* A step that leaves alone what the entries hold leaves the volume sound, when
\* all other clusters in use are those being built with.
LEMMA SoundSame ==
    ASSUME NEW v, NEW w, IsVolume(v), IsVolume(w), Unchanged(v, w), NEW B, NEW C, Sound(v, B),
           C \cap Held(v) = {},
           {c \in Clusters : w.fat[c] # FREE} = C \cup Held(v)
    PROVE  Sound(w, C)
<1>1. /\ AllClean(v)
      /\ \A s \in InUse(v) : \A t \in InUse(v) \ {s} : Holds(v, s) \cap Holds(v, t) = {}
  BY SoundMeaning
<1>2. /\ Directories(w) = Directories(v) /\ InUse(w) = InUse(v)
      /\ \A d \in Directories(v) : Clean(v, d) => Clean(w, d)
      /\ \A s \in InUse(v) : Holds(w, s) = Holds(v, s)
  BY TreeSame
<1>3. AllClean(w) /\ Held(w) = Held(v)
  BY <1>1, <1>2 DEF AllClean, Held
<1>4. \A s \in InUse(v) : Holds(v, s) \cap C = {}
  BY DEF Held
<1> QED BY <1>1, <1>2, <1>3, <1>4, SoundMeaning

-----------------------------------------------------------------------------
(* Steps that write one entry *)

LEMMA SlotsDisjoint ==
    ASSUME NEW v, IsVolume(v), NEW B, Sound(v, B), NEW d \in Directories(v), NEW e \in Directories(v),
           NEW s \in SlotsOf(v, d) \cap SlotsOf(v, e)
    PROVE  d = e
<1> SUFFICES ASSUME d # e PROVE FALSE
  OBVIOUS
<1>1. d # 0 /\ e # 0 /\ s[1] \in Chain(v.fat, d) /\ s[1] \in Chain(v.fat, e)
  BY SlotsHeld
<1>2. PICK t \in InUse(v) : At(v, t).first = d /\ Holds(v, t) = Chain(v.fat, d)
  BY <1>1, DirectoryChainHeld
<1>3. PICK u \in InUse(v) : At(v, u).first = e /\ Holds(v, u) = Chain(v.fat, e)
  BY <1>1, DirectoryChainHeld
<1>4. t # u
  BY <1>2, <1>3
<1>5. Holds(v, t) \cap Holds(v, u) = {}
  BY <1>4, SoundMeaning
<1> QED BY <1>1, <1>2, <1>3, <1>5

\* What the entries but s hold.
HeldBut(v, s) == UNION {Holds(v, t) : t \in InUse(v) \ {s}}
NewDirectories(e) == IF IsSubdirectory(e) THEN {e.first} ELSE {}
NewlyHeld(v, e) == IF e.name \in Names THEN Chain(v.fat, e.first) ELSE {}

\* w is v with another entry in slot s of directory d.  The entry is free, or
\* it comes before every END and its name is new; if it is a directory, then
\* one that holds no names.
EntryWritten(v, w, d, s) ==
    LET e == At(w, s) IN
    /\ d \in Directories(v) /\ s \in SlotsOf(v, d) /\ ~IsSubdirectory(At(v, s))
    /\ \A c \in HeldBut(v, s) : w.fat[c] = v.fat[c]
    /\ \A t \in TreeSlots(v) \ {s} : At(w, t) = At(v, t)
    /\ e.name # END
    /\ \/ IsFree(e)
       \/ \A t \in SlotsOf(v, d) \ {s} :
             /\ At(v, t).name = END => ~Before(v, t, s)
             /\ At(v, t).name # e.name
    /\ \A x \in NewDirectories(e) :
          x \in Clusters /\ Clean(w, x) /\ \A t \in SlotsOf(w, x) : At(w, t).name \notin Names

LEMMA DirectoriesAgree ==
    ASSUME NEW v, NEW w, IsVolume(v), IsVolume(w), NEW B, Sound(v, B),
           NEW d, NEW s, EntryWritten(v, w, d, s), NEW c \in Directories(v)
    PROVE  Agree(v, w, c)
<1>1. \A x \in Chain(v.fat, c) : w.fat[x] = v.fat[x]
  <2>1. CASE c = 0
    BY <2>1, ChainClosed, ClusterFacts
  <2>2. CASE c # 0
    <3>1. PICK t \in InUse(v) : At(v, t).dir /\ Holds(v, t) = Chain(v.fat, c)
      BY <2>2, DirectoryChainHeld
    <3>2. t # s
      BY <3>1 DEF EntryWritten, InUse, IsSubdirectory
    <3>3. Chain(v.fat, c) \subseteq HeldBut(v, s)
      BY <3>1, <3>2 DEF HeldBut
    <3> QED BY <3>3 DEF EntryWritten
  <2> QED BY <2>1, <2>2
<1>2. c \in Clusters \cup {0}
  BY DirectoriesClosed
<1> QED BY <1>1, <1>2, SlotsKept

LEMMA DirectoryStaysClean ==
    ASSUME NEW v, NEW w, IsVolume(v), IsVolume(w), NEW B, Sound(v, B),
           NEW d, NEW s, EntryWritten(v, w, d, s), NEW c \in Directories(v)
    PROVE  /\ Clean(w, c)
           /\ Subdirectories(v, c) \subseteq Subdirectories(w, c)
           /\ Subdirectories(w, c) \subseteq Subdirectories(v, c) \cup NewDirectories(At(w, s))
           /\ c = d => NewDirectories(At(w, s)) \subseteq Subdirectories(w, c)
<1>1. Agree(v, w, c) /\ Clean(v, c)
  BY DirectoriesAgree, SoundMeaning DEF AllClean
<1>2. \A t \in SlotsOf(v, c) : t # s => At(w, t) = At(v, t)
  BY DEF EntryWritten, TreeSlots
<1>3. CASE c # d
  <2>1. s \notin SlotsOf(v, c)
    BY <1>3, SlotsDisjoint DEF EntryWritten
  <2>2. \A t \in SlotsOf(v, c) : At(w, t) = At(v, t)
    BY <1>2, <2>1
  <2> QED BY <1>1, <1>3, <2>2, SameScan
<1>4. CASE c = d
  <2> DEFINE e == At(w, s)
  <2>0. s \in SlotsOf(v, d) /\ e.name # END /\ ~IsSubdirectory(At(v, s))
    BY DEF EntryWritten
  <2>1. \/ IsFree(e)
        \/ \A t \in SlotsOf(v, d) \ {s} :
              /\ At(v, t).name = END => ~Before(v, t, s)
              /\ At(v, t).name # e.name
    BY DEF EntryWritten
  <2>2. ~Before(v, s, s)
    <3>1. s[2] \in Nat
      BY <1>4, <2>0, ChainsOfSlots, DirectoriesClosed DEF RootIndex, Slots
    <3> QED BY <3>1, ChainsOfSlots
  <2> HIDE DEF e
  <2>3. ASSUME NEW t \in SlotsOf(w, c), NEW u \in SlotsOf(w, c), ~IsFree(At(w, t)), At(w, u).name = END
        PROVE  ~Before(w, u, t)
    <3>1. u # s /\ t \in SlotsOf(v, c) /\ u \in SlotsOf(v, c) /\ At(w, u) = At(v, u)
      BY <1>1, <1>2, <2>0, <2>3 DEF e, Agree
    <3>2. CASE t = s
      BY <1>1, <1>4, <2>1, <2>3, <3>1, <3>2 DEF e, Agree
    <3>3. CASE t # s
      BY <1>1, <1>2, <2>3, <3>1, <3>3 DEF Clean, Agree
    <3> QED BY <3>2, <3>3
  <2>4. ASSUME NEW t \in SlotsOf(w, c), NEW u \in SlotsOf(w, c), ~IsFree(At(w, t)), ~IsFree(At(w, u)),
               At(w, t).name = At(w, u).name
        PROVE  t = u
    <3>1. t \in SlotsOf(v, c) /\ u \in SlotsOf(v, c)
      BY <1>1 DEF Agree
    <3>2. CASE t # s /\ u # s
      BY <1>1, <1>2, <2>4, <3>1, <3>2 DEF Clean
    <3>3. CASE t = s /\ u # s
      BY <1>2, <1>4, <2>1, <2>4, <3>1, <3>3 DEF e
    <3>4. CASE t # s /\ u = s
      BY <1>2, <1>4, <2>1, <2>4, <3>1, <3>4 DEF e
    <3> QED BY <3>2, <3>3, <3>4
  <2>5. Clean(w, c)
    BY <2>3, <2>4 DEF Clean
  <2>6. Subdirectories(v, c) =
            {At(v, t).first : t \in {u \in SlotsOf(v, c) : IsSubdirectory(At(v, u))}}
    BY <1>1, CleanDirectory
  <2>7. Subdirectories(w, c) =
            {At(w, t).first : t \in {u \in SlotsOf(w, c) : IsSubdirectory(At(w, u))}}
    BY <2>5, CleanDirectory
  <2>8. SlotsOf(w, c) = SlotsOf(v, c)
    BY <1>1 DEF Agree
  <2>9. Subdirectories(v, c) \subseteq Subdirectories(w, c)
    BY <1>2, <1>4, <2>0, <2>6, <2>7, <2>8
  <2>10. Subdirectories(w, c) \subseteq Subdirectories(v, c) \cup NewDirectories(At(w, s))
    BY <1>2, <2>6, <2>7, <2>8 DEF NewDirectories
  <2>11. NewDirectories(At(w, s)) \subseteq Subdirectories(w, c)
    BY <1>4, <2>0, <2>7, <2>8 DEF NewDirectories
  <2> QED BY <2>5, <2>9, <2>10, <2>11
<1> QED BY <1>3, <1>4

LEMMA EntryWrittenTree ==
    ASSUME NEW v, NEW w, IsVolume(v), IsVolume(w), NEW B, Sound(v, B),
           NEW d, NEW s, EntryWritten(v, w, d, s)
    PROVE  /\ AllClean(w)
           /\ Directories(w) = Directories(v) \cup NewDirectories(At(w, s))
           /\ InUse(w) = (InUse(v) \ {s}) \cup (IF At(w, s).name \in Names THEN {s} ELSE {})
           /\ \A t \in InUse(v) \ {s} : Holds(w, t) = Holds(v, t)
<1> DEFINE X == NewDirectories(At(w, s))
<1>1. \A x \in X : x \in Clusters /\ Clean(w, x) /\ \A t \in SlotsOf(w, x) : At(w, t).name \notin Names
  BY DEF EntryWritten
<1>2. d \in Directories(v) /\ s \in SlotsOf(v, d)
  BY DEF EntryWritten
<1>3. \A c \in Directories(v) : /\ Clean(w, c) /\ Agree(v, w, c)
                                /\ Subdirectories(v, c) \subseteq Subdirectories(w, c)
                                /\ Subdirectories(w, c) \subseteq Subdirectories(v, c) \cup X
                                /\ c = d => X \subseteq Subdirectories(w, c)
  BY DirectoryStaysClean, DirectoriesAgree
<1> HIDE DEF X
<1>4. \A x \in X : Subdirectories(w, x) = {}
  BY <1>1, CleanDirectory DEF IsSubdirectory
<1>5. Directories(w) = Directories(v) \cup X
  BY <1>1, <1>2, <1>3, <1>4, TreeGrows
<1>6. AllClean(w)
  BY <1>1, <1>3, <1>5 DEF AllClean
<1>7. /\ InUse(w) = {t \in TreeSlots(w) : At(w, t).name \in Names}
      /\ InUse(v) = {t \in TreeSlots(v) : At(v, t).name \in Names}
  BY <1>6, CleanTree, SoundMeaning
<1>8. TreeSlots(w) = TreeSlots(v) \cup UNION {SlotsOf(w, x) : x \in X}
  BY <1>3, <1>5 DEF TreeSlots, Agree
<1>9. s \in TreeSlots(v) /\ \A t \in TreeSlots(v) \ {s} : At(w, t) = At(v, t)
  BY <1>2 DEF TreeSlots, EntryWritten
<1>10. InUse(w) = (InUse(v) \ {s}) \cup (IF At(w, s).name \in Names THEN {s} ELSE {})
  BY <1>1, <1>7, <1>8, <1>9
<1>11. ASSUME NEW t \in InUse(v) \ {s}
       PROVE  Holds(w, t) = Holds(v, t)
  <2>1. At(w, t) = At(v, t)
    BY <1>7, <1>9
  <2>2. \A c \in Holds(v, t) : w.fat[c] = v.fat[c]
    BY DEF EntryWritten, HeldBut
  <2> QED BY <2>1, <2>2, HoldsKept
<1> QED BY <1>5, <1>6, <1>10, <1>11 DEF X

\* The volume stays sound when the new entry holds all other clusters in use.
LEMMA SoundWritten ==
    ASSUME NEW v, NEW w, IsVolume(v), IsVolume(w), NEW B, Sound(v, B),
           NEW d, NEW s, EntryWritten(v, w, d, s),
           NewlyHeld(w, At(w, s)) \cap HeldBut(v, s) = {},
           {c \in Clusters : w.fat[c] # FREE} = NewlyHeld(w, At(w, s)) \cup HeldBut(v, s)
    PROVE  Sound(w, {})
<1>1. /\ AllClean(w)
      /\ InUse(w) = (InUse(v) \ {s}) \cup (IF At(w, s).name \in Names THEN {s} ELSE {})
      /\ \A t \in InUse(v) \ {s} : Holds(w, t) = Holds(v, t)
  BY EntryWrittenTree
<1>2. \A t \in InUse(v) : \A u \in InUse(v) \ {t} : Holds(v, t) \cap Holds(v, u) = {}
  BY SoundMeaning
<1>3. s \in InUse(w) => Holds(w, s) = NewlyHeld(w, At(w, s))
  BY <1>1, ChainsOfSlots DEF NewlyHeld
<1>4. \A t \in InUse(v) \ {s} : Holds(v, t) \subseteq HeldBut(v, s)
  BY DEF HeldBut
<1>5. ASSUME NEW t \in InUse(w), NEW u \in InUse(w) \ {t}
      PROVE  Holds(w, t) \cap Holds(w, u) = {}
  <2>1. CASE t # s /\ u # s
    BY <1>1, <1>2, <2>1
  <2>2. CASE t = s /\ u # s
    BY <1>1, <1>3, <1>4, <2>2
  <2>3. CASE t # s /\ u = s
    BY <1>1, <1>3, <1>4, <2>3
  <2> QED BY <2>1, <2>2, <2>3
<1>6. Held(w) = NewlyHeld(w, At(w, s)) \cup HeldBut(v, s)
  <2>1. CASE At(w, s).name \in Names
    BY <1>1, <1>3, <2>1 DEF Held, HeldBut
  <2>2. CASE At(w, s).name \notin Names
    BY <1>1, <2>2 DEF Held, HeldBut, NewlyHeld
  <2> QED BY <2>1, <2>2
<1> QED BY <1>1, <1>5, <1>6, SoundMeaning

-----------------------------------------------------------------------------
(* The step that lengthens a directory *)

\* w is v with the empty cluster c behind prev, the last one of directory d.
Lengthened(v, w, d, prev, c) ==
    /\ d \in Directories(v) /\ d # 0
    /\ c \in Clusters /\ v.fat[c] = FREE
    /\ prev \in Chain(v.fat, d) /\ v.fat[prev] \notin Clusters
    /\ w.fat = Link(v.fat, prev, c)
    /\ w.root = v.root
    /\ \A x \in Clusters \ {c} : w.data[x] = v.data[x]
    /\ \A i \in Slots : w.data[c].slot[i].name = END

LEMMA LengthenedChains ==
    ASSUME NEW v, NEW w, IsVolume(v), IsVolume(w), NEW B, Sound(v, B),
           NEW d, NEW prev, NEW c, Lengthened(v, w, d, prev, c), NEW h \in InUse(v),
           At(v, h).first = d, Holds(v, h) = Chain(v.fat, d)
    PROVE  /\ c \notin Held(v) /\ c \notin B /\ prev \in Holds(v, h)
           /\ \A x \in Clusters : x # c /\ x # prev => w.fat[x] = v.fat[x]
           /\ w.fat[c] \notin {FREE} \cup Clusters /\ w.fat[prev] = c /\ v.fat[prev] # FREE
           /\ \A t \in InUse(v) \ {h} : prev \notin Holds(v, t)
           /\ \A a \in Chain(v.fat, d) :
                 /\ Chain(v.fat, a) \subseteq Chain(w.fat, a)
                 /\ Chain(w.fat, a) \subseteq Chain(v.fat, a) \cup {c}
           /\ Chain(w.fat, d) = Chain(v.fat, d) \cup {c}
           /\ Chain(w.fat, c) = {c}
<1>1. /\ d \in Clusters /\ c \in Clusters /\ v.fat[c] = FREE
      /\ prev \in Chain(v.fat, d) /\ v.fat[prev] \notin Clusters
      /\ w.fat = Link(v.fat, prev, c)
  BY DirectoriesClosed DEF Lengthened
<1>2. FREE \notin Clusters /\ EOC \notin Clusters /\ EOC # FREE
  BY GeometryAssumption DEF FREE, EOC, Clusters
<1>3. {x \in Clusters : v.fat[x] # FREE} = B \cup Held(v)
  BY SoundMeaning
<1>4. prev \in Holds(v, h) /\ prev \in Held(v) /\ prev \in Clusters
  BY <1>1, ChainClosed DEF Held
<1>5. c \notin Held(v) /\ c \notin B /\ v.fat[prev] # FREE /\ prev # c
  BY <1>1, <1>3, <1>4
<1>6. /\ w.fat[c] = EOC /\ w.fat[prev] = c
      /\ \A x \in Clusters : x # c /\ x # prev => w.fat[x] = v.fat[x]
  BY <1>1, <1>4, <1>5 DEF Link
<1>7. \A t \in InUse(v) \ {h} : prev \notin Holds(v, t)
  BY <1>4, SoundMeaning
<1>8. ASSUME NEW a \in Clusters
      PROVE  /\ Chain(v.fat, a) \subseteq Chain(w.fat, a)
             /\ Chain(w.fat, a) \subseteq Chain(v.fat, a) \cup {c}
             /\ prev \in Chain(v.fat, a) => c \in Chain(w.fat, a)
             /\ Chain(w.fat, c) = {c}
  BY <1>1, <1>2, ChainLinked
<1>9. \A a \in Chain(v.fat, d) : a \in Clusters
  BY ChainClosed
<1> QED BY <1>1, <1>2, <1>4, <1>5, <1>6, <1>7, <1>8, <1>9

LEMMA LengthenedDirectory ==
    ASSUME NEW v, NEW w, IsVolume(v), IsVolume(w), NEW B, Sound(v, B),
           NEW d, NEW prev, NEW c, Lengthened(v, w, d, prev, c)
    PROVE  /\ Clean(w, d)
           /\ Visible(w, d) = Visible(v, d)
           /\ \A t \in SlotsOf(v, d) : t[1] # c /\ At(w, t) = At(v, t)
           /\ SlotsOf(w, d) = SlotsOf(v, d) \cup ({c} \X Slots)
           /\ \A t \in {c} \X Slots : At(w, t).name = END
<1>0. d \in Directories(v) /\ d # 0 /\ d \in Clusters /\ Clean(v, d)
  BY DirectoriesClosed, SoundMeaning DEF Lengthened, AllClean
<1>1. PICK h \in InUse(v) : At(v, h).first = d /\ Holds(v, h) = Chain(v.fat, d)
  BY <1>0, DirectoryChainHeld
<1> DEFINE K == Chain(v.fat, d)
<1>2. /\ c \notin K /\ Chain(w.fat, d) = K \cup {c} /\ Chain(w.fat, c) = {c}
      /\ \A a \in K : /\ Chain(v.fat, a) \subseteq Chain(w.fat, a)
                      /\ Chain(w.fat, a) \subseteq Chain(v.fat, a) \cup {c}
  BY <1>1, LengthenedChains DEF Held
<1>3. SlotsOf(v, d) = K \X Slots /\ SlotsOf(w, d) = (K \cup {c}) \X Slots /\ K \subseteq Clusters
  BY <1>0, <1>2, ChainsOfSlots, ChainClosed
<1> HIDE DEF K
<1>4. \A t \in SlotsOf(v, d) : At(w, t) = At(v, t)
  BY <1>2, <1>3, ClusterFacts DEF At, Lengthened
<1>5. \A t \in SlotsOf(w, d) : t \notin SlotsOf(v, d) => t[1] = c /\ At(w, t).name = END
  BY <1>3, ClusterFacts DEF At, Lengthened
<1>6. \A s \in SlotsOf(w, d) : ~IsFree(At(w, s)) => s \in SlotsOf(v, d)
  BY <1>5 DEF IsFree
<1>7. ASSUME NEW s \in SlotsOf(v, d), NEW t \in SlotsOf(v, d)
      PROVE  Before(w, s, t) <=> Before(v, s, t)
  <2>1. s[1] \in K /\ t[1] \in K /\ t[1] # c
    BY <1>2, <1>3
  <2>2. t[1] \in Chain(w.fat, s[1]) <=> t[1] \in Chain(v.fat, s[1])
    BY <1>2, <2>1
  <2> QED BY <2>2, ChainsOfSlots
<1>8. ASSUME NEW s \in SlotsOf(v, d), NEW t \in SlotsOf(w, d), t \notin SlotsOf(v, d)
      PROVE  ~Before(w, t, s)
  <2>1. t[1] = c /\ s[1] \in K /\ s[1] # c
    BY <1>2, <1>3, <1>5, <1>8
  <2> QED BY <1>2, <2>1, ChainsOfSlots
<1>9. Clean(w, d)
  <2>1. ASSUME NEW s \in SlotsOf(w, d), NEW t \in SlotsOf(w, d), ~IsFree(At(w, s)), At(w, t).name = END
        PROVE  ~Before(w, t, s)
    <3>1. s \in SlotsOf(v, d)
      BY <1>6, <2>1
    <3>2. CASE t \in SlotsOf(v, d)
      BY <1>0, <1>4, <1>7, <2>1, <3>1, <3>2 DEF Clean
    <3>3. CASE t \notin SlotsOf(v, d)
      BY <1>8, <3>1, <3>3
    <3> QED BY <3>2, <3>3
  <2>2. \A s, t \in SlotsOf(w, d) :
           ~IsFree(At(w, s)) /\ ~IsFree(At(w, t)) /\ At(w, s).name = At(w, t).name => s = t
    BY <1>0, <1>4, <1>6 DEF Clean
  <2> QED BY <2>1, <2>2 DEF Clean
<1>10. Visible(w, d) = Visible(v, d)
  <2>1. SlotsOf(v, d) \subseteq SlotsOf(w, d)
    BY <1>3
  <2>2. /\ Visible(v, d) = {s \in SlotsOf(v, d) : ~IsFree(At(v, s))}
        /\ Visible(w, d) = {s \in SlotsOf(w, d) : ~IsFree(At(w, s))}
    BY <1>0, <1>9, ScanMeaning
  <2> QED BY <1>4, <1>6, <2>1, <2>2
<1>11. /\ SlotsOf(w, d) = SlotsOf(v, d) \cup ({c} \X Slots)
       /\ \A t \in SlotsOf(v, d) : t[1] # c
       /\ \A t \in {c} \X Slots : At(w, t).name = END
  BY <1>2, <1>3, <1>5
<1> QED BY <1>4, <1>9, <1>10, <1>11

LEMMA LengthenedTree ==
    ASSUME NEW v, NEW w, IsVolume(v), IsVolume(w), NEW B, Sound(v, B),
           NEW d, NEW prev, NEW c, Lengthened(v, w, d, prev, c)
    PROVE  /\ Directories(w) = Directories(v)
           /\ AllClean(w)
           /\ \A e \in Directories(v) :
                 Visible(w, e) = Visible(v, e) /\ \A s \in SlotsOf(v, e) : At(w, s) = At(v, s)
           /\ InUse(w) = InUse(v)
           /\ \A s \in InUse(v) : At(w, s) = At(v, s)
<1>0. d \in Directories(v) /\ d # 0 /\ w.root = v.root
  BY DEF Lengthened
<1>1. PICK h \in InUse(v) : At(v, h).first = d /\ Holds(v, h) = Chain(v.fat, d)
  BY <1>0, DirectoryChainHeld
<1>2. /\ c \notin Held(v)
      /\ \A x \in Clusters : x # c /\ x # prev => w.fat[x] = v.fat[x]
      /\ \A t \in InUse(v) \ {h} : prev \notin Holds(v, t)
  BY <1>1, LengthenedChains
<1>3. \A e \in Directories(v) : \A s \in SlotsOf(v, e) : At(w, s) = At(v, s)
  BY <1>0, <1>2, SlotsHeld DEF At, Lengthened
<1>4. ASSUME NEW e \in Directories(v)
      PROVE  Clean(w, e) /\ Visible(w, e) = Visible(v, e)
  <2>1. CASE e = d
    BY <2>1, LengthenedDirectory
  <2>2. CASE e # d
    <3>1. \A x \in Chain(v.fat, e) : w.fat[x] = v.fat[x]
      <4>1. CASE e = 0
        BY <4>1, ChainClosed, ClusterFacts
      <4>2. CASE e # 0
        <5>1. PICK t \in InUse(v) : At(v, t).first = e /\ Holds(v, t) = Chain(v.fat, e)
          BY <4>2, DirectoryChainHeld
        <5>2. t # h
          BY <1>1, <2>2, <5>1
        <5>3. prev \notin Chain(v.fat, e) /\ c \notin Chain(v.fat, e) /\ Chain(v.fat, e) \subseteq Clusters
          BY <1>2, <5>1, <5>2, ChainClosed DEF Held
        <5> QED BY <1>2, <5>3
      <4> QED BY <4>1, <4>2
    <3>2. Agree(v, w, e)
      BY <3>1, SlotsKept, DirectoriesClosed
    <3>3. Clean(v, e)
      BY SoundMeaning DEF AllClean
    <3> QED BY <1>3, <3>2, <3>3, SameScan
  <2> QED BY <2>1, <2>2
<1>5. \A e \in Directories(v) : \A s \in Visible(v, e) : s \in SlotsOf(v, e)
  BY DEF Visible
<1>6. \A e \in Directories(v) : Subdirectories(w, e) = Subdirectories(v, e)
  BY <1>3, <1>4, <1>5 DEF Subdirectories
<1>7. Directories(w) = Directories(v)
  <2> DEFINE X == {}
  <2>1. /\ X \subseteq Clusters
        /\ \A e \in Directories(v) : /\ Subdirectories(v, e) \subseteq Subdirectories(w, e)
                                     /\ Subdirectories(w, e) \subseteq Subdirectories(v, e) \cup X
        /\ \A x \in X : /\ Subdirectories(w, x) = {}
                        /\ \E e \in Directories(v) : x \in Subdirectories(w, e)
    BY <1>6
  <2>2. Directories(w) = Directories(v) \cup X
    BY ONLY <2>1, TreeGrows
  <2> QED BY <2>2
<1>8. InUse(w) = InUse(v) /\ \A s \in InUse(v) : At(w, s) = At(v, s)
  BY <1>3, <1>4, <1>5, <1>7 DEF InUse
<1>9. AllClean(w)
  BY <1>4, <1>7 DEF AllClean
<1> QED BY <1>3, <1>4, <1>7, <1>8, <1>9

LEMMA SoundLengthened ==
    ASSUME NEW v, NEW w, IsVolume(v), IsVolume(w), NEW B, Sound(v, B),
           NEW d, NEW prev, NEW c, Lengthened(v, w, d, prev, c)
    PROVE  Sound(w, B) /\ Held(w) = Held(v) \cup {c}
<1>0. d \in Directories(v) /\ d # 0 /\ c \in Clusters
  BY DEF Lengthened
<1>1. PICK h \in InUse(v) : At(v, h).first = d /\ Holds(v, h) = Chain(v.fat, d)
  BY <1>0, DirectoryChainHeld
<1>2. /\ c \notin Held(v) /\ c \notin B /\ prev \in Holds(v, h)
      /\ \A x \in Clusters : x # c /\ x # prev => w.fat[x] = v.fat[x]
      /\ w.fat[c] # FREE /\ w.fat[prev] = c /\ v.fat[prev] # FREE
      /\ \A t \in InUse(v) \ {h} : prev \notin Holds(v, t)
      /\ Chain(w.fat, d) = Chain(v.fat, d) \cup {c}
  BY <1>1, LengthenedChains
<1>3. AllClean(w) /\ InUse(w) = InUse(v) /\ \A s \in InUse(v) : At(w, s) = At(v, s)
  BY LengthenedTree
<1>4. Holds(w, h) = Holds(v, h) \cup {c}
  BY <1>1, <1>2, <1>3, ChainsOfSlots
<1>5. ASSUME NEW t \in InUse(v) \ {h}
      PROVE  Holds(w, t) = Holds(v, t)
  <2>1. Holds(v, t) \subseteq Clusters /\ Holds(v, t) \subseteq Held(v)
    BY DEF Holds, Held
  <2>2. \A x \in Holds(v, t) : w.fat[x] = v.fat[x]
    BY <1>2, <2>1
  <2> QED BY <1>3, <2>2, HoldsKept
<1>6. /\ \A s \in InUse(v) : /\ Holds(v, s) \cap B = {}
                             /\ \A t \in InUse(v) \ {s} : Holds(v, s) \cap Holds(v, t) = {}
      /\ {x \in Clusters : v.fat[x] # FREE} = B \cup Held(v)
  BY SoundMeaning
<1>7. \A s \in InUse(v) : Holds(v, s) \subseteq Held(v)
  BY DEF Held
<1>8. \A s \in InUse(v) : Holds(w, s) \cap B = {}
  BY <1>2, <1>4, <1>5, <1>6
<1>9. ASSUME NEW s \in InUse(v), NEW t \in InUse(v) \ {s}
      PROVE  Holds(w, s) \cap Holds(w, t) = {}
  <2>1. CASE s # h /\ t # h
    BY <1>5, <1>6, <2>1
  <2>2. CASE s = h /\ t # h
    BY <1>2, <1>4, <1>5, <1>6, <1>7, <2>2
  <2>3. CASE s # h /\ t = h
    BY <1>2, <1>4, <1>5, <1>6, <1>7, <2>3
  <2> QED BY <2>1, <2>2, <2>3
<1>10. Held(w) = Held(v) \cup {c}
  BY <1>3, <1>4, <1>5 DEF Held
<1>11. {x \in Clusters : w.fat[x] # FREE} = B \cup Held(w)
  <2>1. c # FREE
    BY <1>0, ClusterFacts DEF FREE
  <2>2. \A x \in Clusters : w.fat[x] # FREE <=> v.fat[x] # FREE \/ x = c
    BY <1>2, <2>1
  <2> QED BY <1>0, <1>6, <1>10, <2>2
<1> QED BY <1>3, <1>8, <1>9, <1>10, <1>11, SoundMeaning

-----------------------------------------------------------------------------
(* The steps of the calls *)

LEMMA MountedParts ==
    /\ IsVolume(Mounted) /\ IsVolume(Mounted')
    /\ Mounted.fat = g_fat_primary /\ Mounted.root = g_root_dir /\ Mounted.data = disk_data
    /\ (Mounted').fat = g_fat_primary' /\ (Mounted').root = g_root_dir' /\ (Mounted').data = disk_data'
  BY VolumeParts DEF Mounted

\* What a step of a call on a mounted volume has to show.
LEMMA ServingStep ==
    ASSUME VolumeInv, DurableInv', g_fs_ready, UNCHANGED g_fs_ready,
           Sound(Mounted', Building'), CallInv', pc' # "off"
    PROVE  VolumeInv'
  BY DEF VolumeInv

\* What a step knows of the volume it starts on.
LEMMA ServedVolume ==
    ASSUME VolumeInv, g_fs_ready
    PROVE  /\ TypeOK /\ CallInv /\ Sound(Mounted, Building)
           /\ Building \cap Held(Mounted) = {}
           /\ {c \in Clusters : g_fat_primary[c] # FREE} = Building \cup Held(Mounted)
           /\ Building \subseteq Clusters
           /\ pc \in {"alloc", "fill", "entry"} => Building = Chain(g_fat_primary, op.first)
           /\ pc \notin {"alloc", "fill", "entry"} => Building = {}
<1>1. TypeOK /\ CallInv /\ Sound(Mounted, Building)
  BY DEF VolumeInv, DurableInv
<1>2. Building \cap Held(Mounted) = {}
  BY <1>1, SoundMeaning DEF Held
<1>3. {c \in Clusters : g_fat_primary[c] # FREE} = Building \cup Held(Mounted)
  BY <1>1, SoundMeaning, MountedParts
<1> QED BY <1>1, <1>2, <1>3, ChainClosed DEF Building

LEMMA SameStep ==
    ASSUME VolumeInv, g_fs_ready, UNCHANGED g_root_dir,
           \A c \in Held(Mounted) : g_fat_primary'[c] = g_fat_primary[c] /\ disk_data'[c] = disk_data[c]
    PROVE  /\ Unchanged(Mounted, Mounted')
           /\ Building' \cap Held(Mounted) = {}
              /\ {c \in Clusters : g_fat_primary'[c] # FREE} = Building' \cup Held(Mounted)
              => Sound(Mounted', Building')
<1>1. Unchanged(Mounted, Mounted')
  BY MountedParts DEF Unchanged
<1>2. Sound(Mounted, Building)
  BY ServedVolume
<1> QED BY <1>1, <1>2, MountedParts, SoundSame

\* What the call in progress found stays as it is.
LEMMA FoundStays ==
    ASSUME VolumeInv, g_fs_ready, Unchanged(Mounted, Mounted'), op.dir \in Directories(Mounted)
    PROVE  /\ op.dir \in Directories(Mounted')
           /\ Visible(Mounted', op.dir) = Visible(Mounted, op.dir)
           /\ \A s \in Visible(Mounted, op.dir) : At(Mounted', s) = At(Mounted, s)
<1>1. Visible(Mounted, op.dir) \subseteq SlotsOf(Mounted, op.dir)
  BY DEF Visible
<1> QED BY <1>1, TreeSame, MountedParts

\* What an entry holds, a step before the entry is written leaves alone.
KeepsHeld ==
    \A x \in Held(Mounted) :
        g_fat_primary'[x] # FREE /\ x \notin Building' /\ disk_data'[x] = disk_data[x]

LEMMA AllocateVolume ==
    ASSUME VolumeInv, DurableInv', Allocate
    PROVE  /\ VolumeInv' /\ KeepsHeld /\ Unchanged(Mounted, Mounted')
           /\ op'.new \in Clusters /\ op'.new \notin Building /\ Building' = Building \cup {op'.new}
<1>1. pc = "alloc" /\ g_fs_ready /\ pc' = "fill"
      /\ UNCHANGED <<g_root_dir, g_fs_ready>>
  BY DEF Allocate, Goto, VolumeInv
<1>2. PICK c \in FirstFree(g_fat_primary) :
          /\ g_fat_primary' = Link(g_fat_primary, op.new, c)
          /\ disk_data' = [disk_data EXCEPT ![c] = Zeroes]
          /\ op' = [op EXCEPT !.new = c, !.first = IF op.first = 0 THEN c ELSE op.first]
  BY DEF Allocate
<1>3. c \in Clusters /\ g_fat_primary[c] = FREE
  BY <1>2 DEF FirstFree
<1>4. /\ TypeOK /\ CallInv
      /\ Building \cap Held(Mounted) = {}
      /\ {x \in Clusters : g_fat_primary[x] # FREE} = Building \cup Held(Mounted)
      /\ Building \subseteq Clusters
      /\ Building = Chain(g_fat_primary, op.first)
  BY <1>1, ServedVolume
<1>5. c \notin Building /\ c \notin Held(Mounted)
  BY <1>3, <1>4
<1>6. IF op.first = 0 THEN op.new = 0 ELSE op.new \in Building /\ g_fat_primary[op.new] \notin Clusters
  BY <1>1, <1>4 DEF CallInv
<1>7. op.first \in Clusters \cup {0} /\ (op.first # 0 => op.first \in Clusters)
      /\ op'.new = c /\ op'.first = (IF op.first = 0 THEN c ELSE op.first)
      /\ op'.kind = op.kind /\ op'.dir = op.dir /\ op'.name = op.name /\ op'.size = op.size /\ op'.old = op.old
  BY <1>2, <1>4 DEF TypeOK, Calls
<1>8. FREE \notin Clusters /\ EOC \notin Clusters /\ EOC # FREE /\ 0 \notin Clusters
  BY GeometryAssumption DEF FREE, EOC, Clusters
<1>9. /\ g_fat_primary'[c] = EOC
      /\ \A x \in Clusters : x # c => g_fat_primary'[x] = IF x = op.new THEN c ELSE g_fat_primary[x]
  BY <1>2, <1>3 DEF Link
<1>10. Building' = Chain(g_fat_primary', op'.first)
  BY <1>1 DEF Building
<1>11. Building' = Building \cup {c}
  <2>1. CASE op.first = 0
    <3>1. Building = {}
      BY <1>4, <1>8, <2>1, ChainClosed
    <3>2. op.new \notin Clusters
      BY <1>6, <1>8, <2>1
    <3>3. Chain(g_fat_primary', c) = {c}
      BY <1>2, <1>3, <1>8, <3>2, ChainLinked
    <3> QED BY <1>7, <1>10, <2>1, <3>1, <3>3
  <2>2. CASE op.first # 0
    <3>1. /\ Chain(g_fat_primary, op.first) \subseteq Chain(g_fat_primary', op.first)
          /\ Chain(g_fat_primary', op.first) \subseteq Chain(g_fat_primary, op.first) \cup {c}
          /\ op.new \in Chain(g_fat_primary, op.first) => c \in Chain(g_fat_primary', op.first)
      BY <1>2, <1>3, <1>6, <1>7, <1>8, <2>2, ChainLinked
    <3> QED BY <1>4, <1>6, <1>7, <1>10, <2>2, <3>1
  <2> QED BY <2>1, <2>2
<1>12. \A x \in Held(Mounted) : g_fat_primary'[x] = g_fat_primary[x] /\ disk_data'[x] = disk_data[x]
  <2>1. \A x \in Held(Mounted) : x \in Clusters /\ x # c /\ x # op.new
    BY <1>4, <1>5, <1>6, <1>8
  <2>2. \A x \in Clusters : x # c => disk_data'[x] = disk_data[x]
    BY <1>2, <1>4 DEF TypeOK
  <2> QED BY <1>9, <2>1, <2>2
<1>13. {x \in Clusters : g_fat_primary'[x] # FREE} = Building' \cup Held(Mounted)
  <2>1. \A x \in Clusters : g_fat_primary'[x] # FREE <=> x = c \/ g_fat_primary[x] # FREE
    BY <1>3, <1>4, <1>6, <1>8, <1>9
  <2> QED BY <1>3, <1>4, <1>11, <2>1
<1>14. Unchanged(Mounted, Mounted') /\ Sound(Mounted', Building')
  BY <1>1, <1>4, <1>5, <1>11, <1>12, <1>13, SameStep
<1>15. op.dir \in Directories(Mounted)
  BY <1>1, <1>4 DEF CallInv
<1>16. CallInv'
  <2>1. /\ op.dir \in Directories(Mounted')
        /\ Visible(Mounted', op.dir) = Visible(Mounted, op.dir)
        /\ \A s \in Visible(Mounted, op.dir) : At(Mounted', s) = At(Mounted, s)
    BY <1>1, <1>14, <1>15, FoundStays
  <2>2. op'.new \in Chain(g_fat_primary', op'.first) /\ g_fat_primary'[op'.new] \notin Clusters
        /\ op'.first # 0
    BY <1>3, <1>7, <1>8, <1>9, <1>10, <1>11
  <2>3. op.kind = "mkdir" => op.first = 0
    BY <1>1, <1>4 DEF CallInv
  <2>4. \/ /\ op'.old = 0
           /\ \A s \in Visible(Mounted', op'.dir) : At(Mounted', s).name # op'.name
        \/ /\ op'.kind = "write"
           /\ \E s \in Visible(Mounted', op'.dir) :
                 LET e == At(Mounted', s) IN e.name = op'.name /\ ~e.dir /\ e.first = op'.old
    BY <1>1, <1>4, <1>7, <2>1 DEF CallInv
  <2> QED BY <1>1, <1>4, <1>7, <2>1, <2>2, <2>3, <2>4 DEF CallInv
<1>17. KeepsHeld
  BY <1>4, <1>5, <1>11, <1>12 DEF KeepsHeld
<1> QED BY <1>1, <1>3, <1>5, <1>7, <1>11, <1>14, <1>16, <1>17, ServingStep

LEMMA FillVolume ==
    ASSUME VolumeInv, DurableInv', Fill
    PROVE  VolumeInv' /\ KeepsHeld /\ Unchanged(Mounted, Mounted') /\ Building' = Building
<1>1. pc = "fill" /\ g_fs_ready /\ pc' \in {"alloc", "entry"} /\ UNCHANGED <<g_root_dir, g_fat_primary, g_fs_ready>>
  BY DEF Fill, Goto, VolumeInv, cache
<1>2. /\ disk_data' = [disk_data EXCEPT ![op.new] = Content]
      /\ op' = [op EXCEPT !.done = Written]
      /\ pc' = IF Written < op.size THEN "alloc" ELSE "entry"
  BY DEF Fill, Goto
<1>3. /\ TypeOK /\ CallInv
      /\ Building \cap Held(Mounted) = {}
      /\ {x \in Clusters : g_fat_primary[x] # FREE} = Building \cup Held(Mounted)
      /\ Building \subseteq Clusters
      /\ Building = Chain(g_fat_primary, op.first)
  BY <1>1, ServedVolume
<1>4. /\ op'.new = op.new /\ op'.first = op.first /\ op'.kind = op.kind /\ op'.dir = op.dir
      /\ op'.name = op.name /\ op'.size = op.size /\ op'.old = op.old
  BY <1>2, <1>3 DEF TypeOK, Calls
<1>5. Building' = Building
  BY <1>1, <1>3, <1>4 DEF Building
<1>6. op.first # 0 /\ op.new \in Building /\ g_fat_primary[op.new] \notin Clusters
  BY <1>1, <1>3 DEF CallInv
<1>7. \A x \in Held(Mounted) : g_fat_primary'[x] = g_fat_primary[x] /\ disk_data'[x] = disk_data[x]
  <2>1. \A x \in Held(Mounted) : x \in Clusters /\ x # op.new
    BY <1>3, <1>6
  <2>2. \A x \in Clusters : x # op.new => disk_data'[x] = disk_data[x]
    BY <1>2, <1>3 DEF TypeOK
  <2> QED BY <1>1, <2>1, <2>2
<1>8. Unchanged(Mounted, Mounted') /\ Sound(Mounted', Building')
  BY <1>1, <1>3, <1>5, <1>7, SameStep
<1>9. op.dir \in Directories(Mounted)
  BY <1>1, <1>3 DEF CallInv
<1>10. CallInv'
  <2>1. /\ op.dir \in Directories(Mounted')
        /\ Visible(Mounted', op.dir) = Visible(Mounted, op.dir)
        /\ \A s \in Visible(Mounted, op.dir) : At(Mounted', s) = At(Mounted, s)
    BY <1>1, <1>8, <1>9, FoundStays
  <2>2. ASSUME op.kind = "mkdir"
        PROVE  pc' = "entry" /\ disk_data'[op.first] = DotEntries(op.first, op.dir)
    <3>1. op.size = 0 /\ op.new = op.first
      BY <1>1, <1>3, <2>2 DEF CallInv
    <3>2. Written \in Nat
      BY <1>3, GeometryAssumption DEF TypeOK, Calls, Written
    <3>3. pc' = "entry"
      BY <1>2, <3>1, <3>2
    <3>4. op.new \in Clusters
      BY <1>3, <1>6
    <3>5. disk_data'[op.new] = Content
      BY <1>2, <1>3, <3>4 DEF TypeOK
    <3> QED BY <2>2, <3>1, <3>3, <3>5 DEF Content
  <2>3. op.kind = "mkdir" => op.size = 0 /\ op.old = 0 /\ op.new = op.first
    BY <1>1, <1>3 DEF CallInv
  <2>4. \/ /\ op'.old = 0
           /\ \A s \in Visible(Mounted', op'.dir) : At(Mounted', s).name # op'.name
        \/ /\ op'.kind = "write"
           /\ \E s \in Visible(Mounted', op'.dir) :
                 LET e == At(Mounted', s) IN e.name = op'.name /\ ~e.dir /\ e.first = op'.old
    BY <1>1, <1>3, <1>4, <2>1 DEF CallInv
  <2>5. op.kind \in {"write", "mkdir"} /\ op.name \in Names
    BY <1>1, <1>3 DEF CallInv
  <2> QED BY <1>1, <1>3, <1>4, <1>5, <1>6, <2>1, <2>2, <2>3, <2>4, <2>5 DEF CallInv
<1>11. KeepsHeld
  BY <1>3, <1>5, <1>7 DEF KeepsHeld
<1> QED BY <1>1, <1>5, <1>8, <1>10, <1>11, ServingStep

\* A call that gives up has touched no cluster an entry holds.
LEMMA AbandonVolume ==
    ASSUME VolumeInv, DurableInv', pc \in {"alloc", "fill", "entry"},
           NEW code, NEW touched, Abandon(code, touched),
           \A c \in Held(Mounted) : disk_data'[c] = disk_data[c]
    PROVE  VolumeInv' /\ KeepsHeld /\ Unchanged(Mounted, Mounted')
<1>1. g_fs_ready /\ pc' = "returned" /\ UNCHANGED <<g_root_dir, g_fs_ready>>
      /\ g_fat_primary' = FreeChain(g_fat_primary, op.first)
  BY DEF Abandon, Return, VolumeInv
<1>2. /\ Building \cap Held(Mounted) = {}
      /\ {x \in Clusters : g_fat_primary[x] # FREE} = Building \cup Held(Mounted)
      /\ Building = Chain(g_fat_primary, op.first)
  BY <1>1, ServedVolume
<1>3. \A x \in Clusters : g_fat_primary'[x] = IF x \in Building THEN FREE ELSE g_fat_primary[x]
  BY <1>1, <1>2 DEF FreeChain
<1>4. Held(Mounted) \subseteq Clusters
  BY <1>2
<1>5. \A x \in Held(Mounted) : g_fat_primary'[x] = g_fat_primary[x] /\ disk_data'[x] = disk_data[x]
  BY <1>2, <1>3, <1>4
<1>6. Building' = {}
  BY <1>1 DEF Building
<1>7. {x \in Clusters : g_fat_primary'[x] # FREE} = Held(Mounted)
  BY <1>2, <1>3
<1>8. Unchanged(Mounted, Mounted') /\ Sound(Mounted', Building')
  BY <1>1, <1>5, <1>6, <1>7, SameStep
<1>9. CallInv'
  BY <1>1 DEF CallInv
<1>10. KeepsHeld
  BY <1>2, <1>5, <1>6 DEF KeepsHeld
<1> QED BY <1>1, <1>8, <1>9, <1>10, ServingStep

LEMMA NoClusterVolume ==
    ASSUME VolumeInv, DurableInv', pc \in {"alloc", "entry"}, NoCluster
    PROVE  VolumeInv' /\ KeepsHeld /\ Unchanged(Mounted, Mounted')
<1>1. g_fs_ready
  BY DEF VolumeInv
<1>2. /\ TypeOK
      /\ {x \in Clusters : g_fat_primary[x] # FREE} = Building \cup Held(Mounted)
  BY <1>1, ServedVolume
<1>3. ASSUME NEW c \in FirstFree(g_fat_primary), disk_data' \in {disk_data, [disk_data EXCEPT ![c] = Zeroes]}
      PROVE  \A x \in Held(Mounted) : disk_data'[x] = disk_data[x]
  <2>1. \A x \in Held(Mounted) : x \in Clusters /\ x # c
    BY <1>2 DEF FirstFree
  <2> QED BY <1>2, <1>3, <2>1 DEF TypeOK
<1>4. \A x \in Held(Mounted) : disk_data'[x] = disk_data[x]
  BY <1>3 DEF NoCluster
<1>5. \E touched : Abandon("NO_FREE_CLUSTER", touched)
  BY DEF NoCluster
<1> QED BY <1>4, <1>5, AbandonVolume

LEMMA FailingVolume ==
    ASSUME "dir" \notin MayFail, VolumeInv, DurableInv', AllocateFails \/ FillFails \/ PutEntryFails
    PROVE  VolumeInv' /\ KeepsHeld /\ Unchanged(Mounted, Mounted')
<1>1. CASE AllocateFails
  BY <1>1, NoClusterVolume DEF AllocateFails
<1>2. CASE FillFails
  <2>1. pc = "fill" /\ g_fs_ready /\ disk_data' \in {disk_data, [disk_data EXCEPT ![op.new] = Content]}
        /\ Abandon("IO", FALSE)
    BY <1>2 DEF FillFails, VolumeInv
  <2>2. /\ TypeOK /\ CallInv
        /\ Building \cap Held(Mounted) = {}
        /\ {x \in Clusters : g_fat_primary[x] # FREE} = Building \cup Held(Mounted)
        /\ Building = Chain(g_fat_primary, op.first)
    BY <2>1, ServedVolume
  <2>3. op.new \in Building
    BY <2>1, <2>2 DEF CallInv
  <2>4. \A x \in Held(Mounted) : x \in Clusters /\ x # op.new
    BY <2>2, <2>3
  <2>5. \A x \in Held(Mounted) : disk_data'[x] = disk_data[x]
    BY <2>1, <2>2, <2>4 DEF TypeOK
  <2> QED BY <2>1, <2>5, AbandonVolume
<1>3. CASE PutEntryFails
  <2>1. pc = "entry"
    BY <1>3 DEF PutEntryFails
  <2>2. NoCluster \/ (Abandon("DIR_FULL", FALSE) /\ UNCHANGED disk_data)
    BY <1>3 DEF PutEntryFails, ScanMayFail, WriteEntryFails
  <2>3. CASE NoCluster
    BY <2>1, <2>3, NoClusterVolume
  <2>4. CASE Abandon("DIR_FULL", FALSE) /\ UNCHANGED disk_data
    BY <2>1, <2>4, AbandonVolume
  <2> QED BY <2>2, <2>3, <2>4
<1> QED BY <1>1, <1>2, <1>3

LEMMA ExtendVolume ==
    ASSUME VolumeInv, DurableInv', ExtendDirectory
    PROVE  /\ VolumeInv' /\ KeepsHeld
           /\ \E prev, c : Lengthened(Mounted, Mounted', op.dir, prev, c)
           /\ Building' = Building
           /\ \A x \in Building :
                 g_fat_primary'[x] = g_fat_primary[x] /\ disk_data'[x] = disk_data[x]
<1>1. pc = "entry" /\ g_fs_ready /\ op.dir # 0
      /\ UNCHANGED <<g_root_dir, g_fs_ready, pc, op>>
  BY DEF ExtendDirectory, control, VolumeInv
<1>2. PICK c \in FirstFree(g_fat_primary), prev \in Last(g_fat_primary, op.dir) :
          /\ g_fat_primary' = Link(g_fat_primary, prev, c)
          /\ disk_data' = [disk_data EXCEPT ![c] = Zeroes]
  BY DEF ExtendDirectory
<1>3. /\ TypeOK /\ CallInv /\ Sound(Mounted, Building)
      /\ Building \cap Held(Mounted) = {}
      /\ Building = Chain(g_fat_primary, op.first)
  BY <1>1, ServedVolume
<1>4. op.dir \in Directories(Mounted)
  BY <1>1, <1>3 DEF CallInv
<1>5. c \in Clusters /\ g_fat_primary[c] = FREE
      /\ prev \in Chain(g_fat_primary, op.dir) /\ g_fat_primary[prev] \notin Clusters
  BY <1>2 DEF FirstFree, Last
<1>6. Lengthened(Mounted, Mounted', op.dir, prev, c)
  <2>1. disk_data'[c] = Zeroes /\ \A x \in Clusters \ {c} : disk_data'[x] = disk_data[x]
    BY <1>2, <1>3, <1>5 DEF TypeOK
  <2>2. \A i \in Slots : Zeroes.slot[i].name = END
    BY DEF Zeroes, Block, NoSlots, Unused, Entry
  <2> QED BY <1>1, <1>2, <1>4, <1>5, <2>1, <2>2, MountedParts DEF Lengthened
<1>7. Sound(Mounted', Building)
  BY <1>3, <1>6, MountedParts, SoundLengthened
<1>8. /\ Directories(Mounted') = Directories(Mounted)
      /\ Visible(Mounted', op.dir) = Visible(Mounted, op.dir)
      /\ \A s \in SlotsOf(Mounted, op.dir) : At(Mounted', s) = At(Mounted, s)
  BY <1>3, <1>4, <1>6, MountedParts, LengthenedTree
<1>9. prev \notin Building /\ c \notin Building
  <2>1. PICK h \in InUse(Mounted) :
            At(Mounted, h).first = op.dir /\ Holds(Mounted, h) = Chain(Mounted.fat, op.dir)
    BY <1>1, <1>4, MountedParts, DirectoryChainHeld
  <2>2. c \notin Building /\ prev \in Holds(Mounted, h)
    BY <1>3, <1>6, <2>1, MountedParts, LengthenedChains
  <2> QED BY <1>3, <2>1, <2>2 DEF Held
<1>10. FREE \notin Clusters
  BY ClusterFacts DEF FREE
<1>11. Chain(g_fat_primary', op.first) = Chain(g_fat_primary, op.first)
  <2>1. CASE op.first \in Clusters
    BY <1>2, <1>3, <1>5, <1>9, <1>10, <2>1, ChainLinked
  <2>2. CASE op.first \notin Clusters
    BY <2>2, ChainClosed
  <2> QED BY <2>1, <2>2
<1>12. Building' = Building
  BY <1>1, <1>3, <1>11 DEF Building
<1>13. \A x \in Building : g_fat_primary'[x] = g_fat_primary[x] /\ disk_data'[x] = disk_data[x]
  <2>1. \A x \in Building : x \in Clusters /\ x # c /\ x # prev
    BY <1>3, <1>9, ChainClosed
  <2> QED BY <1>2, <1>3, <2>1 DEF TypeOK, Link
<1>14. CallInv'
  <2>2. op.first # 0 => op.new \in Building /\ op.first \in Building
    <3>1. op.first # 0 => op.first \in Clusters
      BY <1>3 DEF TypeOK, Calls
    <3> QED BY <1>1, <1>3, <3>1, ChainClosed DEF CallInv
  <2>3. IF op'.first = 0 THEN op'.new = 0
        ELSE op'.new \in Chain(g_fat_primary', op'.first) /\ g_fat_primary'[op'.new] \notin Clusters
    BY <1>1, <1>3, <1>11, <1>13, <2>2 DEF CallInv
  <2>4. op.kind = "mkdir" => /\ op.size = 0 /\ op.old = 0 /\ op.new = op.first /\ op.first # 0
                             /\ disk_data[op.first] = DotEntries(op.first, op.dir)
    BY <1>1, <1>3 DEF CallInv
  <2>5. Visible(Mounted, op.dir) \subseteq SlotsOf(Mounted, op.dir)
    BY DEF Visible
  <2>6. \/ /\ op'.old = 0
           /\ \A s \in Visible(Mounted', op'.dir) : At(Mounted', s).name # op'.name
        \/ /\ op'.kind = "write"
           /\ \E s \in Visible(Mounted', op'.dir) :
                 LET e == At(Mounted', s) IN e.name = op'.name /\ ~e.dir /\ e.first = op'.old
    BY <1>1, <1>3, <1>8, <2>5 DEF CallInv
  <2>7. op.kind \in {"write", "mkdir"} /\ op.name \in Names
    BY <1>1, <1>3 DEF CallInv
  <2> QED BY <1>1, <1>4, <1>8, <1>13, <2>2, <2>3, <2>4, <2>6, <2>7 DEF CallInv
<1>15. KeepsHeld
  <2>1. c \in Clusters /\ c # FREE /\ EOC # FREE
    BY <1>5, <1>10 DEF EOC, FREE
  <2>2. {x \in Clusters : g_fat_primary[x] # FREE} = Building \cup Held(Mounted)
    BY <1>1, ServedVolume
  <2>3. ASSUME NEW x \in Held(Mounted)
        PROVE  x \in Clusters /\ g_fat_primary[x] # FREE /\ x # c /\ x \notin Building
    BY <1>3, <1>5, <2>2
  <2>4. \A x \in Clusters : g_fat_primary'[x] =
            (IF x = c THEN EOC ELSE IF x = prev THEN c ELSE g_fat_primary[x])
    BY <1>2 DEF Link
  <2>5. \A x \in Clusters \ {c} : disk_data'[x] = disk_data[x]
    BY <1>2, <1>3 DEF TypeOK
  <2> QED BY <1>12, <2>1, <2>3, <2>4, <2>5 DEF KeepsHeld
<1> QED BY <1>1, <1>6, <1>7, <1>12, <1>14, <1>15, <1>13, ServingStep

\* A new directory is clean and names nothing.
LEMMA DotDirectory ==
    ASSUME NEW w, IsVolume(w), NEW x \in Clusters, NEW p,
           w.fat[x] \notin Clusters, w.data[x] = DotEntries(x, p)
    PROVE  Clean(w, x) /\ \A t \in SlotsOf(w, x) : At(w, t).name \notin Names
<1>1. Chain(w.fat, x) = {x}
  <2> DEFINE S == {x}
  <2>1. x \in S /\ \A y \in S \cap Clusters : w.fat[y] \in Clusters => w.fat[y] \in S
    OBVIOUS
  <2> HIDE DEF S
  <2>2. Chain(w.fat, x) \subseteq S
    BY <2>1, ChainLeast
  <2> QED BY <2>2, ChainClosed DEF S
<1>2. SlotsOf(w, x) = {x} \X Slots
  BY <1>1, ChainsOfSlots
<1>3. x # 0
  BY ClusterFacts
<1>4. \A t \in SlotsOf(w, x) :
         /\ t[1] = x /\ t[2] \in Slots /\ t = <<x, t[2]>>
         /\ At(w, t).name = IF t[2] = 0 THEN DOT ELSE IF t[2] = 1 THEN DOTDOT ELSE END
  BY <1>2, <1>3 DEF At, DotEntries, Block, Entry, Unused
<1>5. \A t \in SlotsOf(w, x) : At(w, t).name \notin Names
  BY <1>4, NameAssumption
<1>6. \A s, t \in SlotsOf(w, x) : Before(w, s, t) <=> s[2] < t[2]
  BY <1>4, ChainsOfSlots
<1>7. \A t \in SlotsOf(w, x) : t[2] \in Nat
  BY <1>4 DEF Slots
<1>8. \A t \in SlotsOf(w, x) : ~IsFree(At(w, t)) => t[2] \in {0, 1}
  BY <1>4 DEF IsFree, END
<1>9. \A t \in SlotsOf(w, x) : At(w, t).name = END => t[2] \notin {0, 1}
  BY <1>4 DEF DOT, DOTDOT, END
<1>10. \A s, t \in SlotsOf(w, x) :
          ~IsFree(At(w, s)) /\ ~IsFree(At(w, t)) /\ At(w, s).name = At(w, t).name => s = t
  <2>1. DOT # DOTDOT
    BY DEF DOT, DOTDOT
  <2> QED BY <1>4, <1>8, <2>1
<1>11. ASSUME NEW s \in SlotsOf(w, x), NEW t \in SlotsOf(w, x), ~IsFree(At(w, s)), At(w, t).name = END
       PROVE  ~Before(w, t, s)
  <2>1. s[2] \in {0, 1} /\ t[2] \in Nat /\ t[2] \notin {0, 1}
    BY <1>7, <1>8, <1>9, <1>11
  <2>2. ~(t[2] < s[2])
    BY <2>1
  <2> QED BY <1>6, <2>2
<1> QED BY <1>5, <1>10, <1>11 DEF Clean

\* fat12_write_entry changes one slot.
LEMMA EntryStored ==
    ASSUME TypeOK, NEW d \in Directories(Mounted), NEW s \in SlotsOf(Mounted, d), NEW e, WriteEntry(s, e)
    PROVE  /\ At(Mounted', s) = e
           /\ \A t \in TreeSlots(Mounted) \ {s} : At(Mounted', t) = At(Mounted, t)
           /\ \A c \in Clusters : c # s[1] => disk_data'[c] = disk_data[c]
           /\ s[1] = 0 \/ s[1] \in Held(Mounted)
<1> DEFINE All == ({0} \X RootIndex) \cup (Clusters \X Slots)
<1>1. ASSUME NEW c \in Directories(Mounted) PROVE SlotsOf(Mounted, c) \subseteq All
  <2>1. CASE c = 0
    BY <2>1, ChainsOfSlots, MountedParts
  <2>2. CASE c \in Clusters
    BY <2>2, ChainsOfSlots, MountedParts, ChainClosed
  <2> QED BY <2>1, <2>2, DirectoriesClosed
<1>2. TreeSlots(Mounted) \subseteq All /\ s \in All
  BY <1>1 DEF TreeSlots
<1>3. \A t : /\ At(Mounted, t) = IF t[1] = 0 THEN g_root_dir[t[2]] ELSE disk_data[t[1]].slot[t[2]]
             /\ At(Mounted', t) = IF t[1] = 0 THEN g_root_dir'[t[2]] ELSE disk_data'[t[1]].slot[t[2]]
  BY MountedParts DEF At
<1>4. /\ DOMAIN g_root_dir = RootIndex /\ DOMAIN disk_data = Clusters
      /\ \A c \in Clusters : DOMAIN disk_data[c].slot = Slots /\ disk_data[c] = [pay |-> disk_data[c].pay, off |-> disk_data[c].off, slot |-> disk_data[c].slot]
  BY DEF TypeOK, Blocks
<1>5. s[1] = 0 \/ s[1] \in Held(Mounted)
  BY SlotsHeld, MountedParts
<1>6. CASE s[1] = 0
  <2>1. g_root_dir' = [g_root_dir EXCEPT ![s[2]] = e] /\ UNCHANGED disk_data
    BY <1>6 DEF WriteEntry
  <2>2. s[2] \in RootIndex /\ s = <<0, s[2]>>
    BY <1>2, <1>6, ClusterFacts
  <2>3. At(Mounted', s) = e
    BY <1>3, <1>4, <1>6, <2>1, <2>2
  <2>4. ASSUME NEW t \in All \ {s} PROVE At(Mounted', t) = At(Mounted, t)
    <3>1. CASE t[1] = 0
      <4>1. t[2] # s[2] /\ t[2] \in RootIndex
        BY <2>2, <3>1, ClusterFacts
      <4> QED BY <1>3, <1>4, <2>1, <3>1, <4>1
    <3>2. CASE t[1] # 0
      BY <1>3, <2>1, <3>2
    <3> QED BY <3>1, <3>2
  <2> QED BY <1>2, <1>5, <2>1, <2>3, <2>4
<1>7. CASE s[1] # 0
  <2> DEFINE x == s[1]
             i == s[2]
  <2>1. disk_data' = [disk_data EXCEPT ![x].slot[i] = e] /\ UNCHANGED g_root_dir
    BY <1>7 DEF WriteEntry, SlotWritten
  <2>2. x \in Clusters /\ i \in Slots /\ s = <<x, i>>
    BY <1>2, <1>7
  <2> HIDE DEF x, i
  <2>3. /\ disk_data'[x].slot = [disk_data[x].slot EXCEPT ![i] = e]
        /\ \A c \in Clusters : c # x => disk_data'[c] = disk_data[c]
    BY <1>4, <2>1, <2>2
  <2>4. disk_data'[x].slot[i] = e /\ \A j \in Slots : j # i => disk_data'[x].slot[j] = disk_data[x].slot[j]
    BY <1>4, <2>2, <2>3
  <2>5. At(Mounted', s) = e
    BY <1>3, <1>7, <2>4 DEF x, i
  <2>6. ASSUME NEW t \in All \ {s} PROVE At(Mounted', t) = At(Mounted, t)
    <3>1. CASE t[1] = 0
      BY <1>3, <2>1, <3>1
    <3>2. CASE t[1] # 0 /\ t[1] # x
      <4>1. t[1] \in Clusters
        BY <3>2
      <4> QED BY <1>3, <2>3, <3>2, <4>1
    <3>3. CASE t[1] # 0 /\ t[1] = x
      <4>1. t[2] \in Slots /\ t = <<t[1], t[2]>>
        BY <3>3
      <4>2. t[2] # i
        BY <2>2, <3>3, <4>1
      <4> QED BY <1>3, <2>4, <3>3, <4>1, <4>2
    <3> QED BY <3>1, <3>2, <3>3
  <2> QED BY <1>2, <1>5, <2>3, <2>5, <2>6 DEF x
<1> QED BY <1>6, <1>7

\* A search finds the one entry of a name in a clean directory.
LEMMA FoundIsOne ==
    ASSUME NEW v, IsVolume(v), NEW d \in Clusters \cup {0}, Clean(v, d), NEW n,
           NEW s \in Visible(v, d), At(v, s).name = n
    PROVE  FindEntry(v, d, n) = {s}
<1>1. s \in SlotsOf(v, d) /\ ~IsFree(At(v, s))
  BY DEF Visible
<1>2. {t \in Visible(v, d) : At(v, t).name = n} = {s}
  BY <1>1 DEF Visible, Clean
<1>3. ~Before(v, s, s)
  <2>1. s[2] \in Nat
    BY <1>1, ChainsOfSlots DEF RootIndex, Slots
  <2> QED BY <2>1, ChainsOfSlots
<1> QED BY <1>2, <1>3 DEF FindEntry, First

\* Where a call puts its entry: into a free slot that comes before every END,
\* or over the file of the same name, whose chain is then freed.
LEMMA TargetFacts ==
    ASSUME VolumeInv, g_fs_ready, pc = "entry", NEW s \in Target(Mounted, op.dir, op.name)
    PROVE  /\ op.dir \in Directories(Mounted) /\ s \in SlotsOf(Mounted, op.dir)
           /\ ~IsSubdirectory(At(Mounted, s))
           /\ \A t \in SlotsOf(Mounted, op.dir) \ {s} :
                 /\ At(Mounted, t).name = END => ~Before(Mounted, t, s)
                 /\ At(Mounted, t).name # op.name
           /\ Chain(g_fat_primary, op.old) \cap HeldBut(Mounted, s) = {}
           /\ Held(Mounted) = HeldBut(Mounted, s) \cup Chain(g_fat_primary, op.old)
<1> DEFINE v == Mounted
           d == op.dir
<1>1. CallInv /\ Sound(v, Building) /\ IsVolume(v) /\ v.fat = g_fat_primary
  BY ServedVolume, MountedParts
<1>2. d \in Directories(v) /\ d \in Clusters \cup {0} /\ op.name \in Names /\ s \in SlotsOf(v, d)
  BY <1>1, FoundIsSlot, DirectoryType DEF CallInv
<1>3. Clean(v, d) /\ Visible(v, d) = {t \in SlotsOf(v, d) : ~IsFree(At(v, t))}
  BY <1>1, <1>2, SoundMeaning, ScanMeaning DEF AllClean
<1>4. ~IsFree(At(v, s)) <=> At(v, s).name \notin {END, DELETED}
  BY DEF IsFree
<1>5. \/ /\ op.old = 0
         /\ \A t \in Visible(v, d) : At(v, t).name # op.name
      \/ \E t \in Visible(v, d) :
            /\ At(v, t).name = op.name /\ ~At(v, t).dir /\ At(v, t).first = op.old
  BY <1>1, Zenon DEF CallInv
<1>6. \A n \in Names : n \notin {END, DELETED}
  BY NameAssumption
<1>7. \A t \in InUse(v) : Holds(v, t) = Chain(g_fat_primary, At(v, t).first)
  BY <1>1, ChainsOfSlots
<1> HIDE DEF v, d
<1>8. CASE op.old = 0 /\ \A t \in Visible(v, d) : At(v, t).name # op.name
  <2>1. FindEntry(v, d, op.name) = {}
    BY <1>8 DEF FindEntry, First
  <2>2. s \in FindFreeEntry(v, d)
    BY <2>1 DEF Target, v, d
  <2>3. IsFree(At(v, s)) /\ \A t \in SlotsOf(v, d) : IsFree(At(v, t)) => ~Before(v, t, s)
    BY <2>2 DEF FindFreeEntry, First
  <2>4. At(v, s).name \notin Names
    BY <1>6, <2>3 DEF IsFree
  <2>5. \A t \in SlotsOf(v, d) \ {s} :
           /\ At(v, t).name = END => ~Before(v, t, s)
           /\ At(v, t).name # op.name
    BY <1>2, <1>3, <1>6, <1>8, <2>3 DEF IsFree
  <2>6. s \notin InUse(v)
    BY <2>4 DEF InUse
  <2>7. Chain(g_fat_primary, op.old) = {}
    BY <1>8, ChainClosed, ClusterFacts
  <2>8. Held(v) = HeldBut(v, s)
    BY <2>6 DEF Held, HeldBut
  <2> QED BY <1>2, <2>4, <2>5, <2>7, <2>8 DEF IsSubdirectory, v, d
<1>9. CASE \E t \in Visible(v, d) :
              /\ At(v, t).name = op.name /\ ~At(v, t).dir /\ At(v, t).first = op.old
  <2>1. PICK t \in Visible(v, d) :
            /\ At(v, t).name = op.name /\ ~At(v, t).dir /\ At(v, t).first = op.old
    BY <1>9, Zenon
  <2>2. FindEntry(v, d, op.name) = {t}
    BY <1>1, <1>2, <1>3, <2>1, FoundIsOne DEF v, d
  <2>3. s = t
    BY <2>2 DEF Target, v, d
  <2>4. ~IsSubdirectory(At(v, s))
    BY <2>1, <2>3, Zenon DEF IsSubdirectory
  <2>5. \A u \in SlotsOf(v, d) \ {s} :
           /\ At(v, u).name = END => ~Before(v, u, s)
           /\ At(v, u).name # op.name
    <3>1. ~IsFree(At(v, s)) /\ At(v, s).name = op.name
      BY <1>3, <2>1, <2>3
    <3> QED BY <1>2, <1>3, <1>6, <3>1 DEF Clean, IsFree
  <2>6. s \in InUse(v)
    BY <1>2, <2>1, <2>3 DEF InUse, v, d
  <2>7. Holds(v, s) = Chain(g_fat_primary, op.old)
    BY <1>7, <2>1, <2>3, <2>6
  <2>8. Held(v) = HeldBut(v, s) \cup Holds(v, s)
    BY <2>6 DEF Held, HeldBut
  <2>9. Holds(v, s) \cap HeldBut(v, s) = {}
    <3>1. \A t2 \in InUse(v) \ {s} : Holds(v, s) \cap Holds(v, t2) = {}
      BY <1>1, <2>6, SoundMeaning DEF v
    <3> QED BY <3>1 DEF HeldBut
  <2> QED BY <1>2, <2>4, <2>5, <2>7, <2>8, <2>9 DEF v, d
<1> QED BY <1>5, <1>8, <1>9 DEF v, d

LEMMA NewDirectoryNamesNothing ==
    ASSUME VolumeInv, g_fs_ready, pc = "entry", op.kind = "mkdir",
           g_fat_primary'[op.first] = g_fat_primary[op.first],
           disk_data'[op.first] = disk_data[op.first]
    PROVE  /\ op.first \in Clusters /\ Clean(Mounted', op.first)
           /\ \A t \in SlotsOf(Mounted', op.first) : At(Mounted', t).name \notin Names
<1>1. TypeOK /\ CallInv
  BY ServedVolume
<1>2. op.first # 0 /\ op.first \in Clusters
  BY <1>1 DEF CallInv, TypeOK, Calls
<1>3. g_fat_primary[op.first] \notin Clusters /\ disk_data[op.first] = DotEntries(op.first, op.dir)
  BY <1>1, <1>2 DEF CallInv
<1>4. (Mounted').fat[op.first] \notin Clusters /\ (Mounted').data[op.first] = DotEntries(op.first, op.dir)
  BY <1>3, MountedParts
<1> QED BY <1>2, <1>4, MountedParts, DotDirectory

LEMMA PutEntryVolume ==
    ASSUME VolumeInv, DurableInv', PutEntry
    PROVE  /\ VolumeInv'
           /\ \E s : /\ EntryWritten(Mounted, Mounted', op.dir, s)
                     /\ At(Mounted', s) = NewEntry
                     /\ \A x \in Clusters : x # s[1] => disk_data'[x] = disk_data[x]
                     /\ s[1] = 0 \/ s[1] \in Held(Mounted)
                     /\ At(Mounted, s).name = op.name \/ IsFree(At(Mounted, s))
           /\ \A x \in Building : g_fat_primary'[x] = g_fat_primary[x]
<1>1. pc = "entry" /\ g_fs_ready /\ pc' = "root" /\ UNCHANGED g_fs_ready
      /\ g_fat_primary' = FreeChain(g_fat_primary, op.old)
  BY DEF PutEntry, Goto, VolumeInv
<1>2. PICK s \in Target(Mounted, op.dir, op.name) : WriteEntry(s, NewEntry)
  BY DEF PutEntry
<1> DEFINE v == Mounted
           w == Mounted'
           e == At(w, s)
           old == Chain(g_fat_primary, op.old)
<1>3. /\ TypeOK /\ CallInv /\ Sound(v, Building)
      /\ Building \cap Held(v) = {}
      /\ {x \in Clusters : g_fat_primary[x] # FREE} = Building \cup Held(v)
      /\ Building \subseteq Clusters
      /\ Building = Chain(g_fat_primary, op.first)
  BY <1>1, ServedVolume
<1>4. /\ op.dir \in Directories(v) /\ s \in SlotsOf(v, op.dir)
      /\ ~IsSubdirectory(At(v, s))
      /\ \A t \in SlotsOf(v, op.dir) \ {s} :
            /\ At(v, t).name = END => ~Before(v, t, s)
            /\ At(v, t).name # op.name
      /\ old \cap HeldBut(v, s) = {}
      /\ Held(v) = HeldBut(v, s) \cup old
  BY <1>1, TargetFacts
<1>5. /\ e = NewEntry
      /\ \A t \in TreeSlots(v) \ {s} : At(w, t) = At(v, t)
      /\ \A c \in Clusters : c # s[1] => disk_data'[c] = disk_data[c]
      /\ s[1] = 0 \/ s[1] \in Held(v)
  BY <1>2, <1>3, <1>4, EntryStored
<1>6. e.name = op.name /\ e.first = op.first /\ e.dir = (op.kind = "mkdir")
  BY <1>5 DEF NewEntry, Entry
<1>7. op.name \in Names /\ op.name \notin {END, DELETED}
  BY <1>1, <1>3, NameAssumption DEF CallInv
<1>8. \A x \in Clusters : g_fat_primary'[x] = IF x \in old THEN FREE ELSE g_fat_primary[x]
  BY <1>1 DEF FreeChain
<1>9. IsVolume(v) /\ IsVolume(w) /\ v.fat = g_fat_primary /\ w.fat = g_fat_primary'
  BY MountedParts
<1> HIDE DEF v, w, e, old
<1>10. \A c \in HeldBut(v, s) : c \in Clusters /\ w.fat[c] = v.fat[c]
  BY <1>3, <1>4, <1>8, <1>9
<1>11. \A c \in Building : c \in Clusters /\ g_fat_primary'[c] = g_fat_primary[c]
  BY <1>3, <1>4, <1>8
<1>12. \A x \in NewDirectories(e) :
          x \in Clusters /\ Clean(w, x) /\ \A t \in SlotsOf(w, x) : At(w, t).name \notin Names
  <2>1. CASE op.kind = "mkdir"
    <3>1. op.first \in Building /\ op.first \in Clusters
      <4>1. op.first \in Clusters
        BY <1>1, <1>3, <2>1 DEF CallInv, TypeOK, Calls
      <4> QED BY <1>3, <4>1, ChainClosed
    <3>2. op.first # s[1]
      BY <1>3, <1>5, <3>1, ClusterFacts
    <3>3. g_fat_primary'[op.first] = g_fat_primary[op.first] /\ disk_data'[op.first] = disk_data[op.first]
      BY <1>5, <1>11, <3>1, <3>2
    <3>4. NewDirectories(e) \subseteq {op.first}
      BY <1>6 DEF NewDirectories
    <3> QED BY <1>1, <2>1, <3>3, <3>4, NewDirectoryNamesNothing DEF w
  <2>2. CASE op.kind # "mkdir"
    <3>1. ~e.dir
      BY <1>6, <2>2
    <3> QED BY <3>1, Zenon DEF NewDirectories, IsSubdirectory
  <2> QED BY <2>1, <2>2
<1>13. EntryWritten(v, w, op.dir, s)
  BY <1>4, <1>5, <1>6, <1>7, <1>10, <1>12, Zenon DEF EntryWritten, e
<1>14. NewlyHeld(w, e) = Building
  <2>1. NewlyHeld(w, e) = Chain(g_fat_primary', op.first)
    BY <1>6, <1>7, <1>9 DEF NewlyHeld
  <2>2. CASE op.first \in Clusters
    <3>1. KeptBy(g_fat_primary, Building) /\ op.first \in Building
      BY <1>3, <2>2, ChainKept, ChainClosed
    <3>2. Chain(g_fat_primary', op.first) = Chain(g_fat_primary, op.first)
      BY <1>11, <3>1, ChainSame
    <3> QED BY <1>3, <2>1, <3>2
  <2>3. CASE op.first \notin Clusters
    BY <1>3, <2>1, <2>3, ChainClosed
  <2> QED BY <2>2, <2>3
<1>15. {c \in Clusters : w.fat[c] # FREE} = NewlyHeld(w, e) \cup HeldBut(v, s)
  <2>1. \A c \in Clusters : w.fat[c] # FREE <=> c \in Building \cup Held(v) /\ c \notin old
    BY <1>3, <1>8, <1>9
  <2>2. old \cap Building = {}
    BY <1>3, <1>4
  <2> QED BY <1>3, <1>4, <1>10, <1>14, <2>1, <2>2
<1>16. NewlyHeld(w, e) \cap HeldBut(v, s) = {}
  BY <1>3, <1>4, <1>14
<1>17. Sound(w, {})
  BY <1>3, <1>9, <1>13, <1>15, <1>16, SoundWritten DEF v, e
<1>18. Building' = {} /\ CallInv'
  BY <1>1 DEF Building, CallInv
<1>19. At(v, s).name = op.name \/ IsFree(At(v, s))
  BY DEF Target, FindEntry, FindFreeEntry, First, v
<1>20. VolumeInv'
  BY <1>1, <1>17, <1>18, ServingStep DEF w
<1> QED BY <1>5, <1>11, <1>13, <1>19, <1>20, Zenon DEF v, w, e

LEMMA DeleteVolume ==
    ASSUME "dir" \notin MayFail, VolumeInv, DurableInv', NEW d \in Directories(Mounted), NEW n \in Names,
           DeleteFile(d, n), pc' # "returned"
    PROVE  /\ VolumeInv'
           /\ \E s \in Visible(Mounted, d) :
                 /\ At(Mounted, s).name = n /\ ~At(Mounted, s).dir
                 /\ EntryWritten(Mounted, Mounted', d, s)
                 /\ At(Mounted', s) = MarkDeleted(At(Mounted, s))
                 /\ \A x \in Clusters : x # s[1] => disk_data'[x] = disk_data[x]
<1>1. pc = "idle" /\ g_fs_ready
  BY DEF DeleteFile, Ready
<1>2. PICK s \in FindEntry(Mounted, d, n) :
          /\ ~At(Mounted, s).dir
          /\ g_fat_primary' = FreeChain(g_fat_primary, At(Mounted, s).first)
          /\ WriteEntry(s, MarkDeleted(At(Mounted, s)))
          /\ pc' = "root"
          /\ UNCHANGED g_fs_ready
  BY DEF DeleteFile, ReturnAtOnce, Return, WriteEntryFails, Goto
<1> DEFINE v == Mounted
           w == Mounted'
           e == At(w, s)
           old == Chain(g_fat_primary, At(v, s).first)
<1>3. /\ TypeOK /\ Sound(v, {}) /\ Building = {}
      /\ {x \in Clusters : g_fat_primary[x] # FREE} = Held(v)
  BY <1>1, ServedVolume
<1>4. s \in Visible(v, d) /\ At(v, s).name = n /\ s \in SlotsOf(v, d)
  BY DEF FindEntry, First, Visible
<1>5. s \in InUse(v)
  BY <1>4 DEF InUse
<1>6. IsVolume(v) /\ IsVolume(w) /\ v.fat = g_fat_primary /\ w.fat = g_fat_primary'
  BY MountedParts
<1>7. Holds(v, s) = old
  BY <1>6, ChainsOfSlots
<1>8. old \cap HeldBut(v, s) = {} /\ Held(v) = HeldBut(v, s) \cup old
  <2>1. \A t \in InUse(v) \ {s} : Holds(v, s) \cap Holds(v, t) = {}
    BY <1>3, <1>5, SoundMeaning
  <2> QED BY <1>5, <1>7, <2>1 DEF Held, HeldBut
<1>9. /\ e = MarkDeleted(At(v, s))
      /\ \A t \in TreeSlots(v) \ {s} : At(w, t) = At(v, t)
      /\ \A x \in Clusters : x # s[1] => disk_data'[x] = disk_data[x]
  BY <1>2, <1>3, <1>4, EntryStored
<1>10. At(v, s) \in Entries
  BY <1>3, <1>4, SlotType, DirectoryType
<1>11. e.name = DELETED
  BY <1>9, <1>10 DEF MarkDeleted, Entries
<1>12. DELETED \notin Names /\ DELETED # END
  BY NameAssumption DEF DELETED, END
<1>13. \A x \in Clusters : g_fat_primary'[x] = IF x \in old THEN FREE ELSE g_fat_primary[x]
  BY <1>2 DEF FreeChain
<1>14. ~IsSubdirectory(At(v, s))
  BY <1>2, Zenon DEF IsSubdirectory
<1>15. \A c \in HeldBut(v, s) : c \in Clusters /\ w.fat[c] = v.fat[c]
  BY <1>3, <1>6, <1>8, <1>13
<1>16. NewDirectories(e) = {} /\ NewlyHeld(w, e) = {} /\ IsFree(e)
  BY <1>11, <1>12 DEF NewDirectories, NewlyHeld, IsSubdirectory, IsFree
<1>17. {c \in Clusters : w.fat[c] # FREE} = HeldBut(v, s)
  BY <1>3, <1>6, <1>8, <1>13
<1> HIDE DEF v, w, e, old
<1>18. d \in Directories(v)
  BY DEF v
<1>19. EntryWritten(v, w, d, s)
  BY <1>4, <1>9, <1>11, <1>12, <1>14, <1>15, <1>16, <1>18 DEF EntryWritten, e
<1>20. Sound(w, {})
  BY <1>3, <1>6, <1>16, <1>17, <1>19, SoundWritten DEF e
<1>21. Building' = {} /\ CallInv'
  BY <1>2 DEF Building, CallInv
<1>22. VolumeInv'
  BY <1>1, <1>2, <1>20, <1>21, ServingStep DEF w
<1> QED BY <1>2, <1>4, <1>9, <1>19, <1>22, Zenon DEF v, w, e

\* A step that changes no cache and no cluster, outside the building of a file.
LEMMA IdleStep ==
    ASSUME VolumeInv, DurableInv',
           pc \notin {"alloc", "fill", "entry"}, pc' \notin {"alloc", "fill", "entry"},
           UNCHANGED <<g_fat_primary, g_root_dir, disk_data, g_fs_ready>>,
           ~g_fs_ready => /\ UNCHANGED <<disk_fat, disk_root>>
                          /\ pc' \in {"off", "idle", "returned", "halted"},
           g_fs_ready => pc' # "off"
    PROVE  VolumeInv'
<1>1. Building = {} /\ Building' = {} /\ CallInv'
  BY DEF Building, CallInv
<1>2. Mounted' = Mounted
  BY DEF Mounted
<1>3. ~g_fs_ready => OnDisk' = OnDisk
  BY DEF OnDisk
<1> QED BY <1>1, <1>2, <1>3 DEF VolumeInv

LEMMA ReturnsVolume ==
    ASSUME VolumeInv, DurableInv', pc = "idle", NEW k, NEW code, ReturnAtOnce(k, code)
    PROVE  VolumeInv'
  BY IdleStep DEF ReturnAtOnce, Return, cache, image

\* What a call that begins to build has found.
LEMMA BeginVolume ==
    ASSUME VolumeInv, DurableInv', pc = "idle", g_fs_ready, UNCHANGED <<cache, g_fs_ready, image>>,
           NEW k \in {"write", "mkdir"}, NEW d \in Directories(Mounted), NEW n \in Names,
           NEW p, NEW size, NEW old, op' = Call(k, d, n, p, size, old), pc' \in {"alloc", "entry"},
           k = "mkdir" => size = 0 /\ old = 0 /\ pc' = "alloc",
           \/ old = 0 /\ FindEntry(Mounted, d, n) = {}
           \/ /\ k = "write"
              /\ \E s \in FindEntry(Mounted, d, n) :
                    ~At(Mounted, s).dir /\ At(Mounted, s).first = old
    PROVE  VolumeInv'
<1>1. UNCHANGED <<g_fat_primary, g_root_dir, disk_data, g_fs_ready>> /\ Mounted' = Mounted
  BY DEF cache, image, Mounted
<1>2. Sound(Mounted, {}) /\ Building = {}
  BY ServedVolume
<1>3. /\ op'.kind = k /\ op'.dir = d /\ op'.name = n /\ op'.size = size /\ op'.old = old
      /\ op'.first = 0 /\ op'.new = 0
  BY DEF Call
<1>4. Building' = {}
  BY <1>3, ChainClosed, ClusterFacts DEF Building
<1>5. \/ old = 0 /\ \A s \in Visible(Mounted, d) : At(Mounted, s).name # n
      \/ /\ k = "write"
         /\ \E s \in Visible(Mounted, d) :
               At(Mounted, s).name = n /\ ~At(Mounted, s).dir /\ At(Mounted, s).first = old
  <2>1. CASE old = 0 /\ FindEntry(Mounted, d, n) = {}
    <3>1. ASSUME NEW s \in Visible(Mounted, d), At(Mounted, s).name = n PROVE FALSE
      <4>1. Clean(Mounted, d) /\ d \in Clusters \cup {0}
        BY <1>2, SoundMeaning, DirectoryType DEF AllClean
      <4>2. FindEntry(Mounted, d, n) = {s}
        BY <3>1, <4>1, MountedParts, FoundIsOne
      <4> QED BY <2>1, <4>2
    <3> QED BY <2>1, <3>1
  <2>2. CASE /\ k = "write"
             /\ \E s \in FindEntry(Mounted, d, n) :
                   ~At(Mounted, s).dir /\ At(Mounted, s).first = old
    <3>1. \A s \in FindEntry(Mounted, d, n) : s \in Visible(Mounted, d) /\ At(Mounted, s).name = n
      BY DEF FindEntry, First
    <3> QED BY <2>2, <3>1, Zenon
  <2> QED BY <2>1, <2>2
<1>6. \/ /\ op'.old = 0
         /\ \A s \in Visible(Mounted', op'.dir) : At(Mounted', s).name # op'.name
      \/ /\ op'.kind = "write"
         /\ \E s \in Visible(Mounted', op'.dir) :
               LET e == At(Mounted', s) IN e.name = op'.name /\ ~e.dir /\ e.first = op'.old
  BY <1>1, <1>3, <1>5, Zenon
<1>7. CallInv'
  BY <1>1, <1>3, <1>6 DEF CallInv
<1> QED BY <1>1, <1>2, <1>4, <1>7, ServingStep

LEMMA CallsVolume ==
    ASSUME "dir" \notin MayFail, VolumeInv, DurableInv', NEW d \in Directories(Mounted), NEW n \in Names,
           ReadFile(d, n) \/ WriteFile(d, n) \/ CreateDirectory(d, n) \/ DeleteFile(d, n)
    PROVE  VolumeInv'
<1>1. pc = "idle"
  BY DEF ReadFile, WriteFile, CreateDirectory, DeleteFile, Ready
<1>2. CASE ReadFile(d, n)
  <2>1. \E code : ReturnAtOnce("read", code)
    BY <1>2 DEF ReadFile
  <2> QED BY <1>1, <2>1, ReturnsVolume
<1>3. CASE WriteFile(d, n)
  <2>1. g_fs_ready
    BY <1>3 DEF WriteFile, Ready
  <2>2. \/ \E code : ReturnAtOnce("write", code)
        \/ \E old :
              /\ \/ old = 0 /\ FindEntry(Mounted, d, n) = {}
                 \/ \E s \in FindEntry(Mounted, d, n) :
                       ~At(Mounted, s).dir /\ At(Mounted, s).first = old
              /\ \E p \in Payloads, size \in Sizes :
                    /\ op' = Call("write", d, n, p, size, old)
                    /\ Goto(IF size > 0 THEN "alloc" ELSE "entry")
                    /\ UNCHANGED <<cache, g_fs_ready, image>>
    BY <1>3, Zenon DEF WriteFile
  <2>3. CASE \E code : ReturnAtOnce("write", code)
    BY <1>1, <2>3, ReturnsVolume
  <2>4. ASSUME NEW old, NEW p, NEW size,
               \/ old = 0 /\ FindEntry(Mounted, d, n) = {}
               \/ \E s \in FindEntry(Mounted, d, n) :
                     ~At(Mounted, s).dir /\ At(Mounted, s).first = old,
               op' = Call("write", d, n, p, size, old),
               Goto(IF size > 0 THEN "alloc" ELSE "entry"),
               UNCHANGED <<cache, g_fs_ready, image>>
        PROVE  VolumeInv'
    <3>1. pc' \in {"alloc", "entry"}
      BY <2>4 DEF Goto
    <3>2. \/ old = 0 /\ FindEntry(Mounted, d, n) = {}
          \/ /\ "write" = "write"
             /\ \E s \in FindEntry(Mounted, d, n) :
                   ~At(Mounted, s).dir /\ At(Mounted, s).first = old
      BY <2>4, Zenon
    <3> QED BY <1>1, <2>1, <2>4, <3>1, <3>2, BeginVolume
  <2> QED BY <2>2, <2>3, <2>4
<1>4. CASE CreateDirectory(d, n)
  <2>1. g_fs_ready
    BY <1>4 DEF CreateDirectory, Ready
  <2>2. \/ \E code : ReturnAtOnce("mkdir", code)
        \/ /\ FindEntry(Mounted, d, n) = {}
           /\ op' = Call("mkdir", d, n, NoPayload, 0, 0)
           /\ pc' = "alloc"
           /\ UNCHANGED <<cache, g_fs_ready, image>>
    BY <1>4 DEF CreateDirectory, ScanMayFail, Goto
  <2>3. CASE \E code : ReturnAtOnce("mkdir", code)
    BY <1>1, <2>3, ReturnsVolume
  <2> QED BY <1>1, <2>1, <2>2, <2>3, BeginVolume
<1>5. CASE DeleteFile(d, n)
  <2>1. CASE pc' # "returned"
    BY <1>5, <2>1, DeleteVolume
  <2>2. CASE pc' = "returned"
    <3>1. \E code : ReturnAtOnce("rm", code)
      BY <1>5, <2>2 DEF DeleteFile, WriteEntryFails, Goto
    <3> QED BY <1>1, <3>1, ReturnsVolume
  <2> QED BY <2>1, <2>2
<1> QED BY <1>2, <1>3, <1>4, <1>5

LEMMA FlushVolume ==
    ASSUME VolumeInv, DurableInv', FlushRoot \/ FlushRootFails \/ FlushFats \/ FlushFatsFails
    PROVE  VolumeInv'
<1>1. g_fs_ready /\ pc \in {"root", "fats"}
  BY DEF FlushRoot, FlushRootFails, FlushFats, FlushFatsFails, VolumeInv
<1>2. UNCHANGED <<g_fat_primary, g_root_dir, disk_data, g_fs_ready>>
  BY DEF FlushRoot, FlushRootFails, FlushFats, FlushFatsFails, cache
<1>3. pc' \in {"root", "fats", "returned", "halted"}
  BY DEF FlushRoot, FlushRootFails, FlushFats, FlushFatsFails, Leave, Goto, Return
<1> QED BY <1>1, <1>2, <1>3, IdleStep

\* The volume of the image builder: the root, one directory and its file.
LEMMA SeedVolume ==
    LET v == Volume(SeedFat, SeedRoot, SeedData) IN
    /\ Sound(v, {})
    /\ Directories(v) = {0, 2} /\ InUse(v) = {<<0, 0>>, <<2, 2>>}
    /\ At(v, <<0, 0>>) = Entry(SeedDir, TRUE, 2, 0) /\ At(v, <<2, 2>>) = Entry(SeedFile, FALSE, 3, 1)
    /\ \A c \in Clusters : Chain(v.fat, c) = {c}
<1> DEFINE v == Volume(SeedFat, SeedRoot, SeedData)
<1>1. IsVolume(v) /\ v.fat = SeedFat /\ v.root = SeedRoot /\ v.data = SeedData
  BY VolumeParts
<1>2. /\ 2 \in Clusters /\ 3 \in Clusters /\ 0 \in RootIndex /\ {0, 1, 2} \subseteq Slots
      /\ 0 \notin Clusters /\ EOC \notin Clusters /\ EOC # FREE
  BY GeometryAssumption DEF Clusters, RootIndex, Slots, EOC, FREE
<1>3. \A c \in Clusters : v.fat[c] = IF c \in {2, 3} THEN EOC ELSE FREE
  BY <1>1 DEF SeedFat
<1>4. FREE \notin Clusters
  BY <1>2 DEF FREE
<1> HIDE DEF v
<1>5. ASSUME NEW c \in Clusters
      PROVE  Chain(v.fat, c) = {c}
  <2> DEFINE S == {c}
  <2>1. c \in S /\ \A x \in S \cap Clusters : v.fat[x] \in Clusters => v.fat[x] \in S
    BY <1>2, <1>3, <1>4
  <2> HIDE DEF S
  <2>2. Chain(v.fat, c) \subseteq S
    BY <2>1, ChainLeast
  <2> QED BY <2>2, ChainClosed DEF S
<1>6. SlotsOf(v, 0) = {0} \X RootIndex /\ SlotsOf(v, 2) = {2} \X Slots
  BY <1>1, <1>2, <1>5, ChainsOfSlots
<1>7. /\ \A t \in SlotsOf(v, 0) : t = <<0, t[2]>> /\ t[1] = 0 /\ t[2] \in RootIndex
      /\ \A t \in SlotsOf(v, 2) : t = <<2, t[2]>> /\ t[1] = 2 /\ t[2] \in Slots
  BY <1>6
<1> DEFINE docs == Entry(SeedDir, TRUE, 2, 0)
           dot == Entry(DOT, TRUE, 2, 0)
           dotdot == Entry(DOTDOT, TRUE, 0, 0)
           file == Entry(SeedFile, FALSE, 3, 1)
<1>8. /\ docs.name = SeedDir /\ docs.first = 2
      /\ dot.name = DOT /\ dotdot.name = DOTDOT /\ Unused.name = END
      /\ file.name = SeedFile /\ file.first = 3
  BY DEF Entry, Unused
<1>9. docs.dir = TRUE /\ file.dir = FALSE
  BY DEF Entry
<1>10. /\ SeedDir \in Names /\ SeedFile \in Names
       /\ \A n \in Names : n # END /\ n # DELETED /\ n # DOT /\ n # DOTDOT
       /\ DOT # END /\ DOTDOT # END /\ DOT # DOTDOT /\ DOT # DELETED /\ DOTDOT # DELETED
  BY CallerAssumption, NameAssumption DEF END, DELETED, DOT, DOTDOT
<1> DEFINE rootSlot(i) == IF i = 0 THEN docs ELSE Unused
           dotSlot(i) == IF i = 0 THEN dot ELSE IF i = 1 THEN dotdot ELSE Unused
           dirSlot(i) == IF i = 2 THEN file ELSE dotSlot(i)
<1>11. /\ \A t \in SlotsOf(v, 0) : At(v, t) = rootSlot(t[2])
       /\ \A t \in SlotsOf(v, 2) : At(v, t) = dirSlot(t[2])
  <2>1. SeedRoot = [i \in RootIndex |-> rootSlot(i)]
    BY DEF SeedRoot
  <2>2. DotEntries(2, 0) = Block(NoPayload, 0, [i \in Slots |-> dotSlot(i)])
    BY DEF DotEntries
  <2>3. SeedData[2] = [DotEntries(2, 0) EXCEPT !.slot[2] = file]
    BY <1>2 DEF SeedData
  <2> HIDE DEF docs, dot, dotdot, file
  <2>4. SeedData[2].slot = [[i \in Slots |-> dotSlot(i)] EXCEPT ![2] = file]
    BY <2>2, <2>3 DEF Block
  <2>5. \A i \in Slots : SeedData[2].slot[i] = dirSlot(i)
    BY <1>2, <2>4
  <2>6. \A i \in RootIndex : SeedRoot[i] = rootSlot(i)
    BY <2>1
  <2> HIDE DEF rootSlot, dirSlot
  <2> QED BY <1>1, <1>7, <2>5, <2>6 DEF At
<1> HIDE DEF docs, dot, dotdot, file
<1>12. \A s, t : s[1] = t[1] => (Before(v, s, t) <=> s[2] < t[2])
  BY <1>1, ChainsOfSlots
<1>13. Clean(v, 0)
  <2>1. \A s \in SlotsOf(v, 0) : ~IsFree(At(v, s)) => s[2] = 0 /\ s = <<0, 0>>
    <3>1. \A s \in SlotsOf(v, 0) : s[2] # 0 => IsFree(At(v, s))
      BY <1>8, <1>11 DEF IsFree
    <3> QED BY <1>7, <3>1
  <2>2. ASSUME NEW s \in SlotsOf(v, 0), NEW t \in SlotsOf(v, 0), s[2] = 0 PROVE ~Before(v, t, s)
    <3>1. t[2] \in Nat /\ s[1] = t[1]
      BY <1>7 DEF RootIndex
    <3>2. ~(t[2] < s[2])
      BY <2>2, <3>1
    <3> QED BY <1>12, <3>1, <3>2
  <2> QED BY <2>1, <2>2 DEF Clean
<1>14. \A s \in SlotsOf(v, 2) :
          At(v, s).name = IF s[2] = 0 THEN DOT ELSE IF s[2] = 1 THEN DOTDOT
                          ELSE IF s[2] = 2 THEN SeedFile ELSE END
  BY <1>8, <1>11
<1>15. Clean(v, 2)
  <2>1. \A s \in SlotsOf(v, 2) : ~IsFree(At(v, s)) => s[2] \in {0, 1, 2}
    BY <1>14 DEF IsFree
  <2>2. \A t \in SlotsOf(v, 2) : t[2] \in Nat
    BY <1>7 DEF Slots
  <2>3. \A t \in SlotsOf(v, 2) : At(v, t).name = END => t[2] \notin {0, 1, 2}
    BY <1>10, <1>14
  <2>4. ASSUME NEW s \in SlotsOf(v, 2), NEW t \in SlotsOf(v, 2), ~IsFree(At(v, s)), ~IsFree(At(v, t)),
               At(v, s).name = At(v, t).name
        PROVE  s = t
    <3>1. s[2] \in {0, 1, 2} /\ t[2] \in {0, 1, 2}
      BY <2>1, <2>4
    <3>2. DOT # SeedFile /\ DOTDOT # SeedFile
      BY <1>10
    <3>3. s[2] = t[2]
      BY <1>10, <1>14, <2>4, <3>1, <3>2
    <3> QED BY <1>7, <3>3
  <2>5. ASSUME NEW s \in SlotsOf(v, 2), NEW t \in SlotsOf(v, 2), ~IsFree(At(v, s)), At(v, t).name = END
        PROVE  ~Before(v, t, s)
    <3>1. s[2] \in {0, 1, 2} /\ t[2] \notin {0, 1, 2} /\ t[2] \in Nat /\ s[1] = t[1]
      BY <1>7, <2>1, <2>2, <2>3, <2>5
    <3>2. ~(t[2] < s[2])
      BY <3>1
    <3> QED BY <1>12, <3>1, <3>2
  <2> QED BY <2>4, <2>5 DEF Clean
<1>16. Subdirectories(v, 0) = {2} /\ Subdirectories(v, 2) = {}
  <2>1. /\ Subdirectories(v, 0) =
              {At(v, s).first : s \in {t \in SlotsOf(v, 0) : IsSubdirectory(At(v, t))}}
        /\ Subdirectories(v, 2) =
              {At(v, s).first : s \in {t \in SlotsOf(v, 2) : IsSubdirectory(At(v, t))}}
    BY <1>13, <1>15, CleanDirectory
  <2>2. IsSubdirectory(docs)
    <3>1. docs.name \in Names
      BY <1>8, <1>10
    <3> QED BY <1>9, <3>1, Zenon DEF IsSubdirectory
  <2>3. ~IsSubdirectory(file)
    BY <1>9, Zenon DEF IsSubdirectory
  <2>4. ~IsSubdirectory(dot) /\ ~IsSubdirectory(dotdot) /\ ~IsSubdirectory(Unused)
    <3>1. dot.name \notin Names /\ dotdot.name \notin Names /\ Unused.name \notin Names
      BY <1>8, <1>10
    <3> QED BY <3>1, Zenon DEF IsSubdirectory
  <2>5. \A t \in SlotsOf(v, 0) : IsSubdirectory(At(v, t)) => At(v, t).first = 2
    BY <1>8, <1>11, <2>4
  <2>6. <<0, 0>> \in SlotsOf(v, 0) /\ <<0, 0>>[2] = 0
    BY <1>2, <1>6
  <2>7. At(v, <<0, 0>>) = docs
    BY <1>11, <2>6
  <2>8. \A t \in SlotsOf(v, 2) : ~IsSubdirectory(At(v, t))
    BY <1>11, <2>3, <2>4
  <2> QED BY <1>8, <2>1, <2>2, <2>5, <2>6, <2>7, <2>8
<1>17. Directories(v) = {0, 2}
  <2> DEFINE S == {0, 2}
  <2>1. 0 \in S /\ \A d \in S : \A e \in Subdirectories(v, d) : e \in Clusters => e \in S
    BY <1>16
  <2>2. S \subseteq Directories(v)
    BY <1>2, <1>16, DirectoriesClosed
  <2> HIDE DEF S
  <2>3. Directories(v) \subseteq S
    BY <2>1, DirectoriesLeast
  <2> QED BY <2>2, <2>3 DEF S
<1>18. AllClean(v)
  BY <1>13, <1>15, <1>17 DEF AllClean
<1>19. InUse(v) = {<<0, 0>>, <<2, 2>>}
  <2>1. InUse(v) = {s \in TreeSlots(v) : At(v, s).name \in Names}
    BY <1>18, CleanTree
  <2>2. TreeSlots(v) = SlotsOf(v, 0) \cup SlotsOf(v, 2)
    BY <1>17 DEF TreeSlots
  <2>3. ASSUME NEW t \in SlotsOf(v, 0) PROVE At(v, t).name \in Names <=> t = <<0, 0>>
    <3>1. t = <<0, t[2]>> /\ At(v, t) = rootSlot(t[2])
      BY <1>7, <1>11
    <3> QED BY <1>8, <1>10, <3>1
  <2>4. ASSUME NEW t \in SlotsOf(v, 2) PROVE At(v, t).name \in Names <=> t = <<2, 2>>
    <3>1. t = <<2, t[2]>>
      BY <1>7
    <3>2. At(v, t).name \in Names <=> t[2] = 2
      BY <1>10, <1>14
    <3> QED BY <3>1, <3>2
  <2>5. <<0, 0>> \in SlotsOf(v, 0) /\ <<2, 2>> \in SlotsOf(v, 2)
    BY <1>2, <1>6
  <2> QED BY <2>1, <2>2, <2>3, <2>4, <2>5
<1>20. Holds(v, <<0, 0>>) = {2} /\ Holds(v, <<2, 2>>) = {3}
  <2>1. <<0, 0>> \in SlotsOf(v, 0) /\ <<2, 2>> \in SlotsOf(v, 2)
    BY <1>2, <1>6
  <2>2. At(v, <<0, 0>>).first = 2 /\ At(v, <<2, 2>>).first = 3
    <3>1. At(v, <<0, 0>>) = rootSlot(0) /\ At(v, <<2, 2>>) = dirSlot(2)
      BY <1>11, <2>1
    <3> QED BY <1>8, <3>1
  <2> QED BY <1>1, <1>2, <1>5, <2>2, ChainsOfSlots
<1>21. {c \in Clusters : v.fat[c] # FREE} = {2, 3}
  BY <1>2, <1>3
<1>22. Held(v) = {2, 3}
  BY <1>19, <1>20 DEF Held
<1>23. \A s \in InUse(v) : \A t \in InUse(v) \ {s} : Holds(v, s) \cap Holds(v, t) = {}
  BY <1>19, <1>20
<1>24. Sound(v, {})
  BY <1>18, <1>21, <1>22, <1>23, SoundMeaning
<1>25. At(v, <<0, 0>>) = docs /\ At(v, <<2, 2>>) = file
  <2>1. <<0, 0>> \in SlotsOf(v, 0) /\ <<2, 2>> \in SlotsOf(v, 2)
    BY <1>2, <1>6
  <2> QED BY <1>11, <2>1
<1> QED BY <1>5, <1>17, <1>19, <1>24, <1>25, Zenon DEF v, docs, file

LEMMA InitVolume == Init => VolumeInv
<1> SUFFICES ASSUME Init PROVE VolumeInv
  OBVIOUS
<1>1. DurableInv
  BY InitDurable
<1>2. OnDisk = Volume(SeedFat, SeedRoot, SeedData)
  BY ClusterFacts DEF Init, OnDisk
<1>3. pc = "off" /\ g_fs_ready = FALSE
  BY DEF Init
<1> QED BY <1>1, <1>2, <1>3, SeedVolume DEF VolumeInv

LEMMA MachineVolume ==
    ASSUME VolumeInv, DurableInv', Restart => Sound(OnDisk, {}),
           \/ Mount \/ MountFails \/ Restart \/ Shutdown \/ TakeResult
           \/ \E k \in {"write", "mkdir", "rm", "read"} : Refused(k)
    PROVE  VolumeInv'
<1>1. CASE Mount
  <2>1. pc = "off" /\ ~g_fs_ready /\ Sound(OnDisk, {})
    BY <1>1 DEF Mount, VolumeInv
  <2>2. Mounted' = OnDisk
    BY <1>1 DEF Mount, Mounted, OnDisk, image
  <2>3. pc' = "returned" /\ g_fs_ready' /\ Building' = {} /\ CallInv'
    BY <1>1 DEF Mount, Return, Building, CallInv
  <2> QED BY <2>1, <2>2, <2>3 DEF VolumeInv
<1>2. CASE Restart
  <2>1. pc' = "off" /\ ~g_fs_ready' /\ OnDisk' = OnDisk
    BY <1>2 DEF Restart, OnDisk, image
  <2> QED BY <1>2, <2>1 DEF VolumeInv
<1>3. CASE MountFails
  BY <1>3, IdleStep DEF MountFails, Return, cache, image, VolumeInv
<1>4. CASE Shutdown
  BY <1>4, IdleStep DEF Shutdown, Goto, cache, image
<1>5. CASE TakeResult
  BY <1>5, IdleStep DEF TakeResult, Goto, cache, image
<1>6. CASE \E k \in {"write", "mkdir", "rm", "read"} : Refused(k)
  BY <1>6, IdleStep DEF Refused, Return, cache, image
<1> QED BY <1>1, <1>2, <1>3, <1>4, <1>5, <1>6

LEMMA NextVolume ==
    ASSUME "dir" \notin MayFail, Restart => Sound(OnDisk, {}), VolumeInv, [Next]_vars
    PROVE  VolumeInv'
<1>0. DurableInv'
  BY NextDurable DEF VolumeInv
<1>1. CASE UNCHANGED vars
  <2>1. Mounted' = Mounted /\ OnDisk' = OnDisk /\ Building' = Building
    BY <1>1 DEF vars, cache, image, control, Mounted, OnDisk, Building
  <2>2. CallInv' <=> CallInv
    BY <1>1, <2>1 DEF vars, cache, image, control, CallInv
  <2>3. UNCHANGED <<g_fs_ready, pc>>
    BY <1>1 DEF vars, control
  <2> QED BY <1>0, <2>1, <2>2, <2>3 DEF VolumeInv
<1>2. CASE Step
  BY <1>0, <1>2, AllocateVolume, FillVolume, FailingVolume, PutEntryVolume, ExtendVolume,
     FlushVolume, MachineVolume DEF Step
<1>3. ASSUME NEW d \in Directories(Mounted), NEW n \in Names,
             ReadFile(d, n) \/ WriteFile(d, n) \/ CreateDirectory(d, n) \/ DeleteFile(d, n)
      PROVE  VolumeInv'
  BY <1>0, <1>3, CallsVolume
<1> QED BY <1>0, <1>1, <1>2, <1>3, MachineVolume DEF Next

-----------------------------------------------------------------------------
(* The disk by itself *)

LEMMA OnDiskParts ==
    /\ IsVolume(OnDisk) /\ IsVolume(OnDisk')
    /\ OnDisk.fat = disk_fat[0] /\ OnDisk.root = disk_root /\ OnDisk.data = disk_data
    /\ (OnDisk').fat = disk_fat'[0] /\ (OnDisk').root = disk_root' /\ (OnDisk').data = disk_data'
  BY VolumeParts DEF OnDisk

\* What the disk holds is held in memory too.
LEMMA DiskUntouched ==
    ASSUME VolumeInv, DiskInv, pc \notin {"root", "fats"}, g_fs_ready,
           UNCHANGED <<disk_fat, disk_root>>, KeepsHeld
    PROVE  Unchanged(OnDisk, OnDisk')
<1>1. Sound(OnDisk, {}) /\ {c \in Clusters : disk_fat[0][c] # FREE} \subseteq Held(Mounted)
  BY DEF DiskInv
<1>2. {c \in Clusters : disk_fat[0][c] # FREE} = Held(OnDisk)
  BY <1>1, OnDiskParts, SoundMeaning
<1> QED BY <1>1, <1>2, OnDiskParts DEF Unchanged, KeepsHeld

\* A step before the entry is written leaves the disk as consistent as it was:
\* the clusters it writes are free on the disk too.
LEMMA DiskKept ==
    ASSUME VolumeInv, VolumeInv', DiskInv, pc \notin {"root", "fats"}, g_fs_ready, g_fs_ready',
           pc' # "fats", UNCHANGED <<disk_fat, disk_root>>, KeepsHeld
    PROVE  DiskInv'
<1>1. Sound(OnDisk, {}) /\ {c \in Clusters : disk_fat[0][c] # FREE} \subseteq Held(Mounted)
  BY DEF DiskInv
<1>2. {c \in Clusters : disk_fat[0][c] # FREE} = Held(OnDisk)
  BY <1>1, OnDiskParts, SoundMeaning
<1>3. Unchanged(OnDisk, OnDisk')
  BY DiskUntouched
<1>4. {c \in Clusters : (OnDisk').fat[c] # FREE} = {} \cup Held(OnDisk)
  BY <1>2, OnDiskParts
<1>5. Sound(OnDisk', {})
  BY <1>1, <1>3, <1>4, OnDiskParts, SoundSame
<1>6. Held(Mounted) \subseteq Held(Mounted')
  <2>1. {c \in Clusters : g_fat_primary'[c] # FREE} = Building' \cup Held(Mounted')
    BY MountedParts, SoundMeaning DEF VolumeInv
  <2>2. Held(Mounted) \subseteq Clusters
    BY ServedVolume
  <2> QED BY <2>1, <2>2 DEF KeepsHeld
<1>7. {c \in Clusters : disk_fat'[0][c] # FREE} \subseteq Held(Mounted')
  BY <1>1, <1>6
<1> QED BY <1>5, <1>7 DEF DiskInv

\* So does a step that changes no cluster and neither what is cached nor what
\* is on the disk.
LEMMA DiskSame ==
    ASSUME DiskInv, pc \notin {"root", "fats"}, pc' # "fats",
           UNCHANGED <<disk_fat, disk_root, disk_data>>,
           g_fs_ready' => g_fs_ready /\ UNCHANGED <<g_fat_primary, g_root_dir>>
    PROVE  DiskInv'
<1>1. OnDisk' = OnDisk
  BY DEF OnDisk
<1>2. g_fs_ready' => Mounted' = Mounted
  BY DEF Mounted
<1> QED BY <1>1, <1>2 DEF DiskInv

\* When the flushes end, or the disk is mounted, the disk holds what the caches
\* hold.
LEMMA DiskMirrors ==
    ASSUME VolumeInv', g_fs_ready', ~g_root_dirty', ~g_fat_dirty',
           pc' \in {"returned", "halted"}
    PROVE  DiskInv'
<1>1. disk_root' = g_root_dir' /\ disk_fat'[0] = g_fat_primary'
  BY DEF VolumeInv, DurableInv, Durable
<1>2. OnDisk' = Mounted'
  BY <1>1 DEF OnDisk, Mounted
<1>3. Building' = {}
  BY DEF Building
<1>4. Sound(Mounted', {})
  BY <1>3 DEF VolumeInv
<1>5. {c \in Clusters : disk_fat'[0][c] # FREE} = Held(Mounted')
  BY <1>1, <1>4, MountedParts, SoundMeaning
<1> QED BY <1>2, <1>4, <1>5 DEF DiskInv

LEMMA FlushDisk ==
    ASSUME "flush" \notin MayFail, VolumeInv, VolumeInv', DiskInv,
           FlushRoot \/ FlushRootFails \/ FlushFats \/ FlushFatsFails
    PROVE  DiskInv'
<1>1. g_fs_ready /\ g_fs_ready'
  BY DEF FlushRoot, FlushRootFails, FlushFats, FlushFatsFails, VolumeInv
<1>2. CASE FlushRoot
  <2>1. pc' \in {"root", "fats"} /\ (pc' = "fats" => ~g_root_dirty')
    BY <1>2 DEF FlushRoot, Goto
  <2> QED BY <2>1 DEF DiskInv
<1>3. CASE FlushFats
  <2>1. ~g_root_dirty'
    BY <1>3 DEF FlushFats, DiskInv
  <2>2. CASE pc' = "fats"
    BY <2>1, <2>2 DEF DiskInv
  <2>3. CASE pc' # "fats"
    <3>1. ~g_fat_dirty' /\ pc' \in {"returned", "halted"}
      BY <1>3, <2>3 DEF FlushFats, Leave, Goto, Return
    <3> QED BY <1>1, <2>1, <3>1, DiskMirrors
  <2> QED BY <2>2, <2>3
<1> QED BY <1>2, <1>3 DEF FlushRootFails, FlushFatsFails

\* A call that begins changes nothing, or removes an entry.
LEMMA CallsLeave ==
    ASSUME "dir" \notin MayFail, NEW d, NEW n,
           ReadFile(d, n) \/ WriteFile(d, n) \/ CreateDirectory(d, n) \/ DeleteFile(d, n)
    PROVE  \/ /\ UNCHANGED <<g_fat_primary, g_root_dir, g_fs_ready, disk_fat, disk_root, disk_data>>
              /\ pc' \in {"returned", "alloc", "entry"}
           \/ pc' = "root"
<1>1. ASSUME NEW k, NEW code, ReturnAtOnce(k, code)
      PROVE  /\ UNCHANGED <<g_fat_primary, g_root_dir, g_fs_ready, disk_fat, disk_root, disk_data>>
             /\ pc' = "returned"
  BY <1>1 DEF ReturnAtOnce, Return, cache, image
<1>2. CASE ReadFile(d, n)
  <2>1. \E code : ReturnAtOnce("read", code)
    BY <1>2 DEF ReadFile
  <2> QED BY <1>1, <2>1
<1>3. CASE WriteFile(d, n)
  <2>1. \/ \E code : ReturnAtOnce("write", code)
        \/ \E size : /\ Goto(IF size > 0 THEN "alloc" ELSE "entry")
                      /\ UNCHANGED <<cache, g_fs_ready, image>>
    BY <1>3, Zenon DEF WriteFile
  <2>2. ASSUME NEW size, Goto(IF size > 0 THEN "alloc" ELSE "entry"),
               UNCHANGED <<cache, g_fs_ready, image>>
        PROVE  /\ UNCHANGED <<g_fat_primary, g_root_dir, g_fs_ready, disk_fat, disk_root, disk_data>>
               /\ pc' \in {"alloc", "entry"}
    BY <2>2 DEF Goto, cache, image
  <2> QED BY <1>1, <2>1, <2>2
<1>4. CASE CreateDirectory(d, n)
  <2>1. \/ \E code : ReturnAtOnce("mkdir", code)
        \/ Goto("alloc") /\ UNCHANGED <<cache, g_fs_ready, image>>
    BY <1>4 DEF CreateDirectory
  <2> QED BY <1>1, <2>1 DEF Goto, cache, image
<1>5. CASE DeleteFile(d, n)
  <2>1. (\E code : ReturnAtOnce("rm", code)) \/ pc' = "root"
    BY <1>5 DEF DeleteFile, WriteEntryFails, Goto
  <2> QED BY <1>1, <2>1
<1> QED BY <1>2, <1>3, <1>4, <1>5

LEMMA CallsDisk ==
    ASSUME "dir" \notin MayFail, VolumeInv, DiskInv, NEW d \in Directories(Mounted), NEW n \in Names,
           ReadFile(d, n) \/ WriteFile(d, n) \/ CreateDirectory(d, n) \/ DeleteFile(d, n)
    PROVE  DiskInv'
<1>1. pc = "idle"
  BY DEF ReadFile, WriteFile, CreateDirectory, DeleteFile, Ready
<1>2. \/ /\ UNCHANGED <<g_fat_primary, g_root_dir, g_fs_ready, disk_fat, disk_root, disk_data>>
         /\ pc' \in {"returned", "alloc", "entry"}
      \/ pc' = "root"
  BY CallsLeave
<1>3. CASE pc' = "root"
  BY <1>3 DEF DiskInv
<1> QED BY <1>1, <1>2, <1>3, DiskSame

LEMMA MachineDisk ==
    ASSUME VolumeInv, VolumeInv', DiskInv, RestartFrom \cap {"root", "fats"} = {},
           \/ Mount \/ MountFails \/ Restart \/ Shutdown \/ TakeResult
           \/ \E k \in {"write", "mkdir", "rm", "read"} : Refused(k)
    PROVE  DiskInv'
<1>1. CASE Mount
  BY <1>1, DiskMirrors DEF Mount, Return
<1>2. CASE Restart
  <2>1. pc \notin {"root", "fats"} /\ pc' = "off" /\ ~g_fs_ready'
        /\ UNCHANGED <<disk_fat, disk_root, disk_data>>
    BY <1>2 DEF Restart, image
  <2> QED BY <2>1, DiskSame
<1>3. CASE MountFails
  BY <1>3, DiskSame DEF MountFails, Return, cache, image
<1>4. CASE Shutdown
  BY <1>4, DiskSame DEF Shutdown, Goto, cache, image
<1>5. CASE TakeResult
  BY <1>5, DiskSame DEF TakeResult, Goto, cache, image
<1>6. CASE \E k \in {"write", "mkdir", "rm", "read"} : Refused(k)
  BY <1>6, DiskSame DEF Refused, Return, cache, image
<1> QED BY <1>1, <1>2, <1>3, <1>4, <1>5, <1>6

LEMMA BuildingDisk ==
    ASSUME "dir" \notin MayFail, VolumeInv, VolumeInv', DiskInv,
           \/ Allocate \/ AllocateFails \/ Fill \/ FillFails
           \/ PutEntry \/ ExtendDirectory \/ PutEntryFails
    PROVE  DiskInv'
<1>1. pc \in {"alloc", "fill", "entry"} /\ g_fs_ready
  BY DEF Allocate, AllocateFails, Fill, FillFails, PutEntry, ExtendDirectory, PutEntryFails, VolumeInv
<1>2. DurableInv'
  BY DEF VolumeInv
<1>3. CASE PutEntry
  BY <1>3 DEF PutEntry, Goto, DiskInv
<1>4. CASE \/ Allocate \/ AllocateFails \/ Fill \/ FillFails
           \/ ExtendDirectory \/ PutEntryFails
  <2>1. KeepsHeld
    BY <1>2, <1>4, AllocateVolume, FillVolume, FailingVolume, ExtendVolume
  <2>2. g_fs_ready' /\ pc' # "fats" /\ UNCHANGED <<disk_fat, disk_root>>
    <3>1. ASSUME NEW code, NEW touched, Abandon(code, touched)
          PROVE  UNCHANGED <<g_fs_ready, disk_fat, disk_root>> /\ pc' = "returned"
      BY <3>1 DEF Abandon, Return
    <3>2. CASE Allocate \/ Fill \/ ExtendDirectory
      BY <1>1, <3>2 DEF Allocate, Fill, ExtendDirectory, Goto, control
    <3>3. CASE AllocateFails \/ FillFails \/ PutEntryFails
      <4>1. \E code, touched : Abandon(code, touched)
        BY <3>3, Zenon DEF AllocateFails, FillFails, PutEntryFails, NoCluster
      <4> QED BY <1>1, <3>1, <4>1
    <3> QED BY <1>4, <3>2, <3>3
  <2> QED BY <1>1, <2>1, <2>2, DiskKept
<1> QED BY <1>3, <1>4

LEMMA NextDisk ==
    ASSUME {"dir", "flush"} \cap MayFail = {}, RestartFrom \cap {"root", "fats"} = {},
           VolumeInv, VolumeInv', DiskInv, [Next]_vars
    PROVE  DiskInv'
<1>1. CASE UNCHANGED vars
  <2>1. Mounted' = Mounted /\ OnDisk' = OnDisk
    BY <1>1 DEF vars, cache, image, Mounted, OnDisk
  <2>2. UNCHANGED <<g_fs_ready, pc, g_root_dirty, disk_fat>>
    BY <1>1 DEF vars, cache, image, control
  <2> QED BY <2>1, <2>2 DEF DiskInv
<1>2. CASE Step
  BY <1>2, BuildingDisk, FlushDisk, MachineDisk DEF Step
<1>3. ASSUME NEW d \in Directories(Mounted), NEW n \in Names,
             ReadFile(d, n) \/ WriteFile(d, n) \/ CreateDirectory(d, n) \/ DeleteFile(d, n)
      PROVE  DiskInv'
  BY <1>3, CallsDisk
<1> QED BY <1>1, <1>2, <1>3, MachineDisk DEF Next

LEMMA RestartsOnSound ==
    ASSUME DiskInv, RestartFrom \cap {"root", "fats"} = {}
    PROVE  Restart => Sound(OnDisk, {})
  BY DEF Restart, DiskInv

LEMMA InitDisk == Init => DiskInv
<1> SUFFICES ASSUME Init PROVE DiskInv
  OBVIOUS
<1>1. VolumeInv /\ pc = "off" /\ g_fs_ready = FALSE
  BY InitVolume DEF Init
<1> QED BY <1>1 DEF VolumeInv, DiskInv

-----------------------------------------------------------------------------
(* The volume stays consistent, for every geometry, whichever mounts and     *)
(* transfers of data fail,                                                   *)
(*   - with flushes that may fail too, while the machine stays up, and       *)
(*   - with a power cut anywhere outside the flushes, when those succeed.    *)
(* A directory slot that cannot be written, and a power cut between an entry *)
(* and the FAT that goes with it, leave what they leave.                     *)

NoPowerCut == RestartFrom \subseteq {"off"}
FlushesComplete == "flush" \notin MayFail /\ RestartFrom \cap {"root", "fats"} = {}
EntriesReachTheDisk == "dir" \notin MayFail /\ (NoPowerCut \/ FlushesComplete)

LEMMA DiskAlways ==
    ASSUME "dir" \notin MayFail, FlushesComplete
    PROVE  Spec => [](VolumeInv /\ DiskInv)
<1>1. VolumeInv /\ DiskInv /\ [Next]_vars => (VolumeInv /\ DiskInv)'
  <2> SUFFICES ASSUME VolumeInv, DiskInv, [Next]_vars PROVE VolumeInv' /\ DiskInv'
    OBVIOUS
  <2>1. VolumeInv'
    BY RestartsOnSound, NextVolume DEF FlushesComplete
  <2> QED BY <2>1, NextDisk DEF FlushesComplete
<1> QED BY <1>1, InitVolume, InitDisk, PTL DEF Spec

LEMMA VolumeAlways == ASSUME EntriesReachTheDisk PROVE Spec => []VolumeInv
<1>1. CASE NoPowerCut
  <2>1. VolumeInv /\ [Next]_vars => VolumeInv'
    BY <1>1, NextVolume DEF EntriesReachTheDisk, NoPowerCut, Restart
  <2> QED BY <2>1, InitVolume, PTL DEF Spec
<1>2. CASE FlushesComplete
  <2>1. Spec => [](VolumeInv /\ DiskInv)
    BY <1>2, DiskAlways DEF EntriesReachTheDisk
  <2> QED BY <2>1, PTL
<1> QED BY <1>1, <1>2 DEF EntriesReachTheDisk

\* No cluster belongs to two entries, nor to an entry and to the file being
\* written (fat12_allocate_cluster, fat12_free_chain).
THEOREM ClustersHaveOneOwner == ASSUME EntriesReachTheDisk PROVE Spec => []NoCrossLink
<1>1. VolumeInv => NoCrossLink
  BY DEF VolumeInv, Sound, HeldOnce, NoCrossLink
<1> QED BY <1>1, VolumeAlways, PTL

\* A cluster is marked in the FAT exactly when an entry or the call in progress
\* holds it: no write, mkdir or rm loses a cluster or leaves an entry that
\* leads to a free one, whichever of its steps fails.
THEOREM NothingIsLost == ASSUME EntriesReachTheDisk PROVE Spec => []AllocatedIffHeld
<1>1. VolumeInv => AllocatedIffHeld
  BY MountedParts DEF VolumeInv, Sound, AllHeld, Held, AllocatedIffHeld
<1> QED BY <1>1, VolumeAlways, PTL

\* What a scan of a directory sees is all there is (fat12_find_entry stops at
\* the first END and takes the first entry of a name).
THEOREM ScansAreComplete == ASSUME EntriesReachTheDisk PROVE Spec => []DirectoriesSound
<1>1. VolumeInv => DirectoriesSound
  BY DEF VolumeInv, Sound, ScansSeeAll, DirectoriesSound
<1> QED BY <1>1, VolumeAlways, PTL

\* The disk by itself is a volume that a mount can use, wherever in a call the
\* power fails, but between the writing of an entry and the end of the flushes.
THEOREM DiskIsAVolume ==
    ASSUME "dir" \notin MayFail, FlushesComplete
    PROVE  Spec => []DiskSound
<1>1. DiskInv => DiskSound
  <2>1. Sound(OnDisk, {}) =>
            /\ {c \in Clusters : OnDisk.fat[c] # FREE} = {} \cup Held(OnDisk)
            /\ \A s \in InUse(OnDisk) : \A t \in InUse(OnDisk) \ {s} :
                  Holds(OnDisk, s) \cap Holds(OnDisk, t) = {}
            /\ \A d \in Directories(OnDisk) : ScansSeeAll(OnDisk, d)
    BY DEF Sound, HeldOnce, AllHeld
  <2> QED BY <2>1 DEF DiskInv, DiskSound, ScansSeeAll, Held
<1> QED BY <1>1, DiskAlways, PTL
=============================================================================
