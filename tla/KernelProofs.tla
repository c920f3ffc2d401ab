---------------------------- MODULE KernelProofs ---------------------------
(***************************************************************************)
(* The loader, the devices, the boot log and the screen, for every machine, *)
(* every choice of what fails, and whatever the user types.                 *)
(***************************************************************************)
EXTENDS Kernel, Induction, SequenceTheorems

\* What can be held where the loader is.  The files the loader reads share
\* their places, so that it is the same for both.
Holds ==
    /\ pc \in {"efi_main", "map_size", "map_alloc", "loaded_image", "block_io", "media",
               "block_alloc", "file_system", "open_volume"} => held = {}
    /\ pc = "map" => held \subseteq {"map"}
    /\ pc = "read_blocks" => held \subseteq {"block"}
    /\ pc = "open" => held \subseteq {"root"}
    /\ pc \in {"info_size", "info_alloc", "data_alloc"} => held \subseteq {"root", "file"}
    /\ pc = "info" => held \subseteq {"root", "file", "info"}
    /\ pc = "read" => held \subseteq {"root", "file", "data"}
    /\ pc = "close" => held \subseteq {"data"}
    /\ pc \in {"start_image", "failed", "returned", "grub"} => held \subseteq {"image"}

\* After any step from any place of the loader, it holds no more than it may.
LEMMA LoaderKeeps == ASSUME Holds, LoaderNext PROVE Holds'
<1>1. CASE EfiMain
  BY <1>1 DEF Holds, EfiMain, loaderVars
<1>2. CASE DumpMemoryMap
  BY <1>2 DEF Holds, DumpMemoryMap, Calls
<1>3. CASE LoadedImage
  BY <1>3 DEF Holds, LoadedImage, Calls
<1>4. CASE ProbeBlockIo
  BY <1>4 DEF Holds, ProbeBlockIo, Calls
<1>5. CASE OpenVolume
  BY <1>5 DEF Holds, OpenVolume, Calls
<1>6. CASE ReadFileIntoBuffer
  <2>1. CASE Calls("open", "info_size", {"file"}, {}, "failed", {"root"})
    BY <2>1 DEF Holds, Calls
  <2>2. CASE Calls("info_size", "info_alloc", {}, {}, "failed", {"file", "root"})
    BY <2>2 DEF Holds, Calls
  <2>3. CASE Calls("info_alloc", "info", {"info"}, {}, "failed", {"file", "root"})
    BY <2>3 DEF Holds, Calls
  <2>4. CASE FileInfo
    BY <2>4 DEF Holds, FileInfo, Calls
  <2>5. CASE Calls("data_alloc", "read", {"data"}, {}, "failed", {"file", "root"})
    BY <2>5 DEF Holds, Calls
  <2>6. CASE Calls("read", "close", {}, {"file", "root"}, "failed", {"data", "file", "root"})
    BY <2>6 DEF Holds, Calls
  <2>q. QED
    BY <1>6, <2>1, <2>2, <2>3, <2>4, <2>5, <2>6 DEF ReadFileIntoBuffer
<1>7. CASE VerifyKernelFile
  BY <1>7 DEF Holds, VerifyKernelFile
<1>8. CASE LoadGrubImage
  BY <1>8 DEF Holds, LoadGrubImage, Calls
<1>9. CASE StartImage
  BY <1>9 DEF Holds, StartImage, loaderVars
<1>10. CASE WaitForKey
  BY <1>10 DEF Holds, WaitForKey, loaderVars
<1>q. QED
  BY <1>1, <1>2, <1>3, <1>4, <1>5, <1>6, <1>7, <1>8, <1>9, <1>10 DEF LoaderNext

\* The kernel never comes back to a place of the loader.
LEMMA StartUpKeeps == ASSUME Holds, StartUp PROVE Holds'
<1>1. \E to \in StartUpPCs \cup {"prompt", "fatal"} :
          pc' = to /\ to # "grub" /\ held' = held
  <2>1. CASE DetectBootMode
    BY <2>1 DEF DetectBootMode, Phase, loaderVars, StartUpPCs
  <2>2. CASE BootlogInit
    BY <2>2 DEF BootlogInit, Phase, loaderVars, StartUpPCs
  <2>3. CASE Banner
    BY <2>3 DEF Banner, Phase, loaderVars, StartUpPCs
  <2>4. CASE StorageManagerInit
    BY <2>4 DEF StorageManagerInit, Phase, loaderVars, StartUpPCs
  <2>5. CASE BootCheck
    BY <2>5 DEF BootCheck, Phase, loaderVars, StartUpPCs
  <2>6. CASE DiskInit
    BY <2>6 DEF DiskInit, Phase, loaderVars, StartUpPCs
  <2>7. CASE SelfTest
    BY <2>7 DEF SelfTest, Phase, loaderVars, StartUpPCs
  <2>8. CASE MountVolume
    BY <2>8 DEF MountVolume, Phase, loaderVars, StartUpPCs
  <2>9. CASE HelpLine
    BY <2>9 DEF HelpLine, Phase, loaderVars, StartUpPCs
  <2>q. QED
    BY <2>1, <2>2, <2>3, <2>4, <2>5, <2>6, <2>7, <2>8, <2>9 DEF StartUp
<1>q. QED
  BY <1>1 DEF Holds, StartUpPCs

\* Nor does the shell leave its own places, until the machine stops.
LEMMA ShellStays == ASSUME UserShell PROVE pc' \in {"prompt", "wait", "halted"}
<1>1. CASE MainLoop
  BY <1>1 DEF MainLoop
<1>2. CASE TypeChar \/ Backspace
  BY <1>2 DEF TypeChar, Backspace, AtPrompt, Edited
<1>3. CASE Enter
  BY <1>3 DEF Enter, EmptyCommand, ReplyCommand, ClearCommand, ThemeCommand,
              NanoCommand, ShutdownCommand, Done
<1>4. CASE EditorKey \/ ShowHelp \/ CloseHelp
  BY <1>4 DEF EditorKey, ShowHelp, CloseHelp, InEditor
<1>5. CASE ExitEditor
  BY <1>5 DEF ExitEditor, InEditor
<1>q. QED
  BY <1>1, <1>2, <1>3, <1>4, <1>5 DEF UserShell, ShellNext

LEMMA ShellKeeps == ASSUME Holds, UserShell PROVE Holds'
<1>1. held' = held
  BY DEF UserShell, loaderVars
<1>q. QED
  BY <1>1, ShellStays DEF Holds

-----------------------------------------------------------------------------
\* Whichever call of the firmware fails, on every machine, the UEFI loader has
\* given back all it got when it returns or GRUB runs (uefi_loader.c:97-428).
THEOREM LoaderLeaksNothing == Spec => []NothingLeaks
<1>1. Init => Holds
  BY DEF Init, LoaderInit, Holds
<1>2. ASSUME Holds, [Next]_vars PROVE Holds'
  <2>1. CASE Loader
    BY <1>2, <2>1, LoaderKeeps DEF Loader
  <2>2. CASE StartUp
    BY <1>2, <2>2, StartUpKeeps
  <2>3. CASE UserShell
    BY <1>2, <2>3, ShellKeeps
  <2>4. CASE UNCHANGED vars
    BY <1>2, <2>4 DEF vars, loaderVars, Holds
  <2>q. QED
    BY <1>2, <2>1, <2>2, <2>3, <2>4 DEF Next
<1>3. Holds => NothingLeaks
  BY DEF Holds, NothingLeaks
<1>q. QED
  BY <1>1, <1>2, <1>3, PTL DEF Spec

-----------------------------------------------------------------------------
\* The places before the first kind of device is looked for.
Before == LoaderPCs \cup {"bootlog_init", "banner", "pci_enumerate", "nvme_init"}

Entries == [class_code : 0..255, subclass : 0..255, bars : SUBSET {0, 5}]

\* The table is filled with the better kinds first, and the first device is the
\* primary one.
TableInv ==
    /\ bus \in Buses
    /\ devices \in Seq(Types) /\ Len(devices) <= MaxDevices
    /\ primary = IF devices = <<>> THEN 0 ELSE 1
    /\ pc \in Before => devices = <<>>
    /\ pci \in Seq(Entries)
    /\ pc = "ahci_init" => \A i \in DOMAIN devices : devices[i] = "NVMe"
    /\ pc = "ata_pio_init" => \A i \in DOMAIN devices : devices[i] \in {"NVMe", "AHCI"}
    /\ \A i \in DOMAIN devices : Rank[devices[1]] <= Rank[devices[i]]

LEMMA MinOfTwo ==
    ASSUME NEW a \in Nat, NEW b \in Nat
    PROVE  Min({a, b}) \in {a, b} /\ Min({a, b}) \in Nat /\ Min({a, b}) <= a /\ Min({a, b}) <= b
<1>1. \E x \in {a, b} : \A y \in {a, b} : x <= y
  <2>1. CASE a <= b
    BY <2>1
  <2>2. CASE b <= a
    BY <2>2
  <2>q. QED
    BY <2>1, <2>2
<1>q. QED
  BY <1>1 DEF Min

\* Registering devices of one kind puts them behind the ones that are there.
LEMMA Registered ==
    ASSUME devices \in Seq(Types), Len(devices) <= MaxDevices,
           primary = IF devices = <<>> THEN 0 ELSE 1,
           NEW type \in Types, NEW n \in Nat, Register(type, n)
    PROVE  /\ devices' \in Seq(Types) /\ Len(devices') <= MaxDevices
           /\ primary' = IF devices' = <<>> THEN 0 ELSE 1
           /\ Len(devices) <= Len(devices')
           /\ n > 0 /\ Len(devices) < MaxDevices => Len(devices) < Len(devices')
           /\ \A i \in DOMAIN devices' :
                  devices'[i] = IF i <= Len(devices) THEN devices[i] ELSE type
<1> DEFINE k == Min({n, MaxDevices - Len(devices)})
           new == [i \in 1..k |-> type]
<1>1. k \in Nat /\ k <= MaxDevices - Len(devices) /\ k \in {n, MaxDevices - Len(devices)}
  BY MinOfTwo, StorageAssumption
<1>2. /\ new \in Seq(Types) /\ Len(new) = k
      /\ \A i \in 1..k : new[i] = type
  <2>1. new \in [1..k -> Types] /\ \A i \in 1..k : new[i] = type
    OBVIOUS
  <2>2. new \in Seq(Types)
    <3>1. k \in Nat
      BY <1>1
    <3> HIDE DEF k, new
    <3> QED BY <2>1, <3>1, SeqDef
  <2>3. Len(new) \in Nat /\ 1..Len(new) = 1..k
    BY <2>1, <2>2, LenProperties
  <2>q. QED
    BY <1>1, <2>1, <2>2, <2>3
<1>3. devices' = devices \o new
  BY DEF Register
<1> HIDE DEF k, new
<1>4. devices' \in Seq(Types) /\ Len(devices') = Len(devices) + k
  BY <1>2, <1>3, ConcatProperties
<1>5. \A i \in DOMAIN devices' :
          devices'[i] = IF i <= Len(devices) THEN devices[i] ELSE type
  BY <1>1, <1>2, <1>3, <1>4, ConcatProperties
<1>6. primary' = IF devices' = <<>> THEN 0 ELSE 1
  <2>1. primary' = IF primary = 0 /\ Len(devices') > 0 THEN 1 ELSE primary
    BY DEF Register
  <2>2. (devices' = <<>>) <=> Len(devices') = 0
    BY <1>4
  <2>3. (devices = <<>>) <=> Len(devices) = 0
    OBVIOUS
  <2>q. QED
    BY <1>1, <1>4, <2>1, <2>2, <2>3
<1>q. QED
  BY <1>1, <1>4, <1>5, <1>6, StorageAssumption

LEMMA MatchingCounted ==
    ASSUME pci \in Seq(Entries), NEW sub
    PROVE  Cardinality(Matching(sub)) \in Nat
<1>1. DOMAIN pci = 1..Len(pci) /\ Len(pci) \in Nat
  BY LenProperties
<1>2. IsFiniteSet(1..Len(pci))
  BY <1>1, FS_Interval
<1>3. Matching(sub) \in SUBSET (1..Len(pci))
  BY <1>1 DEF Matching
<1>q. QED
  BY <1>2, <1>3, FS_Subset, FS_CardinalityType

LEMMA EntriesRead ==
    ASSUME bus \in Buses, PciEnumerate
    PROVE  pci' \in Seq(Entries)
<1> DEFINE count == Min({Len(bus), PciMaxDevices})
           Functions == [class : 0..255, subclass : 0..255, prog_if : 0..255,
                         bars : SUBSET {0, 5}]
<1>1. bus \in Seq(Functions)
  BY StorageAssumption
<1> HIDE DEF Functions
<1>2. Len(bus) \in Nat /\ \A i \in 1..Len(bus) : bus[i] \in Functions
  BY <1>1, LenProperties
<1>3. count \in Nat /\ count <= Len(bus)
  BY <1>2, MinOfTwo, StorageAssumption
<1>4. \A i \in 1..count : PciEntry(bus[i]) \in Entries
  BY <1>2, <1>3 DEF PciEntry, Entries, Functions
<1>5. pci' \in [1..count -> Entries]
  BY <1>4 DEF PciEnumerate
<1>q. QED
  BY <1>3, <1>5, SeqDef

\* Looking for one kind after the other keeps the order of the table.
LEMMA ManagerKeeps == ASSUME TableInv, StorageManagerInit PROVE TableInv'
<1> USE DEF Phase
<1>0. bus' = bus
  BY DEF StorageManagerInit
<1>1. CASE Phase("pci_enumerate", "nvme_init") /\ PciEnumerate
                                               /\ UNCHANGED <<con, devices, primary>>
  <2>1. pci' \in Seq(Entries)
    BY <1>1, EntriesRead DEF TableInv
  <2>q. QED
    BY <1>0, <1>1, <2>1 DEF TableInv, Before
<1>2. CASE Phase("nvme_init", "ahci_init") /\ NvmeInit /\ UNCHANGED <<con, pci>>
  <2>1. devices = <<>>
    BY <1>2 DEF TableInv, Before
  <2>2. PICK n \in Nat : Register("NVMe", n)
    BY <1>2, MatchingCounted DEF NvmeInit, TableInv
  <2>3. /\ devices' \in Seq(Types) /\ Len(devices') <= MaxDevices
        /\ primary' = IF devices' = <<>> THEN 0 ELSE 1
        /\ \A i \in DOMAIN devices' : devices'[i] = "NVMe"
    BY <2>1, <2>2, Registered, LenProperties DEF TableInv, Types
  <2>4. \A i \in DOMAIN devices' : Rank[devices'[1]] <= Rank[devices'[i]]
    BY <2>3, LenProperties DEF Rank
  <2>q. QED
    BY <1>0, <1>2, <2>3, <2>4 DEF TableInv, Before, LoaderPCs
<1>3. CASE Phase("ahci_init", "ata_pio_init") /\ AhciInit /\ UNCHANGED <<con, pci>>
  <2>1. \A i \in DOMAIN devices : devices[i] = "NVMe"
    BY <1>3 DEF TableInv
  <2>2. PICK n \in Nat : Register("AHCI", n)
    BY <1>3, MatchingCounted DEF AhciInit, TableInv
  <2>3. /\ devices' \in Seq(Types) /\ Len(devices') <= MaxDevices
        /\ primary' = IF devices' = <<>> THEN 0 ELSE 1
        /\ \A i \in DOMAIN devices' :
              devices'[i] = IF i <= Len(devices) THEN devices[i] ELSE "AHCI"
    BY <2>2, Registered DEF TableInv, Types
  <2>4. \A i \in DOMAIN devices' :
           devices'[i] = IF i <= Len(devices) THEN "NVMe" ELSE "AHCI"
    BY <2>1, <2>3, LenProperties DEF TableInv
  <2>5. \A i \in DOMAIN devices' : Rank[devices'[1]] <= Rank[devices'[i]]
    BY <2>3, <2>4, LenProperties DEF Rank, TableInv
  <2>6. \A i \in DOMAIN devices' : devices'[i] \in {"NVMe", "AHCI"}
    BY <2>4
  <2>q. QED
    BY <1>0, <1>3, <2>3, <2>5, <2>6 DEF TableInv, Before, LoaderPCs
<1>4. ASSUME NEW works \in BOOLEAN,
             Phase("ata_pio_init", "boot_check"), AtaPioInit(works), UNCHANGED pci
      PROVE  TableInv'
  <2>1. \A i \in DOMAIN devices : devices[i] \in {"NVMe", "AHCI"}
    BY <1>4 DEF TableInv
  <2>2. PICK n \in Nat : Register("ATA", n)
    BY <1>4 DEF AtaPioInit
  <2>3. /\ devices' \in Seq(Types) /\ Len(devices') <= MaxDevices
        /\ primary' = IF devices' = <<>> THEN 0 ELSE 1
        /\ \A i \in DOMAIN devices' :
              devices'[i] = IF i <= Len(devices) THEN devices[i] ELSE "ATA"
    BY <2>2, Registered DEF TableInv, Types
  <2>4. \A i \in DOMAIN devices' : Rank[devices'[1]] <= Rank[devices'[i]]
    <3>1. \A i \in DOMAIN devices' : i > Len(devices) => devices'[i] = "ATA"
      BY <2>3, LenProperties DEF TableInv
    <3>2. \A i \in DOMAIN devices' :
             i <= Len(devices) => i \in DOMAIN devices /\ devices'[i] = devices[i]
      BY <2>3, LenProperties DEF TableInv
    <3>3. \A t \in Types : Rank[t] \in 1..3
      BY DEF Rank, Types
    <3>4. Rank["ATA"] = 3
      BY DEF Rank
    <3>5. DOMAIN devices' = 1..Len(devices') /\ \A i \in DOMAIN devices' : devices'[i] \in Types
      BY <2>3, LenProperties
    <3>6. Len(devices) \in Nat /\ Len(devices') \in Nat
      BY <2>3, LenProperties DEF TableInv
    <3>7. TAKE i \in DOMAIN devices'
    <3>8. CASE i > Len(devices)
      BY <3>1, <3>3, <3>4, <3>5, <3>6, <3>8
    <3>9. CASE i <= Len(devices)
      <4>1. 1 \in DOMAIN devices' /\ 1 <= Len(devices)
        BY <3>5, <3>6, <3>9
      <4>q. QED
        BY <3>2, <3>9, <4>1 DEF TableInv
    <3>q. QED
      BY <3>5, <3>6, <3>8, <3>9
  <2>q. QED
    BY <1>0, <1>4, <2>3, <2>4 DEF TableInv, Before, LoaderPCs
<1>q. QED
  BY <1>1, <1>2, <1>3, <1>4 DEF StorageManagerInit

\* No step but those of the storage manager touches the table.
LEMMA OthersKeep ==
    ASSUME TableInv, UNCHANGED storageVars,
           pc' \notin {"ahci_init", "ata_pio_init"}, pc' \in Before => pc \in Before
    PROVE  TableInv'
BY DEF TableInv, storageVars

LEMMA LoaderStays == ASSUME LoaderNext PROVE pc \in LoaderPCs /\ pc' \in LoaderPCs
BY DEF LoaderNext, EfiMain, DumpMemoryMap, LoadedImage, ProbeBlockIo, OpenVolume,
       ReadFileIntoBuffer, FileInfo, VerifyKernelFile, LoadGrubImage, StartImage,
       WaitForKey, Calls, LoaderPCs

LEMMA StepKeepsTable == ASSUME TableInv, [Next]_vars PROVE TableInv'
<1>1. CASE Loader
  <2>1. pc \in LoaderPCs /\ pc' \in LoaderPCs /\ UNCHANGED storageVars
    BY <1>1, LoaderStays DEF Loader
  <2>q. QED
    BY <2>1, OthersKeep DEF Before, LoaderPCs
<1>2. CASE StorageManagerInit
  BY <1>2, ManagerKeeps
<1>3. CASE DetectBootMode \/ BootlogInit \/ Banner
  BY <1>3, OthersKeep DEF DetectBootMode, BootlogInit, Banner, Phase, Before, LoaderPCs
<1>4. CASE BootCheck \/ DiskInit \/ SelfTest \/ MountVolume \/ HelpLine
  BY <1>4, OthersKeep
  DEF BootCheck, DiskInit, SelfTest, MountVolume, HelpLine, Phase, Before, LoaderPCs
<1>5. CASE UserShell
  BY <1>5, OthersKeep, ShellStays DEF UserShell, Before, LoaderPCs
<1>6. CASE UNCHANGED vars
  BY <1>6 DEF vars, storageVars, TableInv
<1>q. QED
  BY <1>1, <1>2, <1>3, <1>4, <1>5, <1>6 DEF Next, StartUp

LEMMA TableStarts == Init => TableInv
BY StorageAssumption DEF Init, StorageInit, LoaderInit, TableInv, Before, LoaderPCs

-----------------------------------------------------------------------------
\* On every machine, whatever answers, whichever table fills up, the primary device
\* is one of the best kind that was found (storage_manager.c:38-70).
THEOREM PrimaryStaysBest == Spec => []PrimaryIsBest
<1>2. TableInv => PrimaryIsBest
  <2>1. SUFFICES ASSUME TableInv, devices # <<>> PROVE 1 \in DOMAIN devices
    BY DEF TableInv, PrimaryIsBest
  <2>q. QED
    BY <2>1, LenProperties DEF TableInv
<1>q. QED
  BY <1>2, TableStarts, StepKeepsTable, PTL DEF Spec

-----------------------------------------------------------------------------
\* The places where the boot log is what was found in memory.
NotRead == LoaderPCs \cup {"bootlog_init"}

LogInv ==
    /\ pc \in NotRead => log = found
    /\ pc \notin NotRead => (log.method = 2 => found.magic /\ found.method = 2)
    /\ pc = "fatal" => log.method = 2

LEMMA StepKeepsLog == ASSUME LogInv, [Next]_vars PROVE LogInv'
<1>1. CASE Loader
  <2>1. pc \in LoaderPCs /\ pc' \in LoaderPCs /\ log' = log /\ found' = found
    BY <1>1, LoaderStays DEF Loader, shellVars
  <2>q. QED
    BY <2>1 DEF LogInv, NotRead, LoaderPCs
<1>2. CASE BootlogInit
  <2>1. /\ pc = "bootlog_init" /\ pc' = "banner" /\ found' = found
        /\ log' = IF log.magic THEN log ELSE NoLog
    BY <1>2 DEF BootlogInit, Phase, ResetLog
  <2>2. log = found
    BY <2>1 DEF LogInv, NotRead
  <2>3. CASE log.magic
    BY <2>1, <2>2, <2>3 DEF LogInv, NotRead, LoaderPCs
  <2>4. CASE ~log.magic
    BY <2>1, <2>4 DEF LogInv, NotRead, LoaderPCs, NoLog
  <2>q. QED
    BY <2>3, <2>4
<1>3. CASE DetectBootMode \/ Banner \/ StorageManagerInit
  BY <1>3 DEF DetectBootMode, Banner, StorageManagerInit, Phase, LogInv, NotRead, LoaderPCs
<1>4. CASE BootCheck
  BY <1>4 DEF BootCheck, Phase, LogInv, NotRead, LoaderPCs
<1>5. CASE DiskInit \/ SelfTest \/ MountVolume \/ HelpLine
  BY <1>5 DEF DiskInit, SelfTest, MountVolume, HelpLine, Phase, LogInv, NotRead, LoaderPCs
<1>6. CASE UserShell
  <2>1. log' = log /\ found' = found /\ pc \in {"prompt", "wait"}
    BY <1>6 DEF UserShell, ShellNext, MainLoop, TypeChar, Backspace, Edited, Enter, AtPrompt,
                EditorKey, ShowHelp, CloseHelp, ExitEditor, InEditor
  <2>q. QED
    BY <1>6, <2>1, ShellStays DEF LogInv, NotRead, LoaderPCs
<1>7. CASE UNCHANGED vars
  BY <1>7 DEF vars, shellVars, LogInv
<1>q. QED
  BY <1>1, <1>2, <1>3, <1>4, <1>5, <1>6, <1>7 DEF Next, StartUp

\* Whatever lies in memory where the log should be, the kernel stops only over an error
\* that was logged under the log's magic number (bootlog.c:10-21, main.c:58).
THEOREM StopsOnlyIfLogged == Spec => []FatalOnlyIfLogged
<1>1. Init => LogInv
  BY DEF Init, LogInv, NotRead, LoaderPCs
<1>2. LogInv => FatalOnlyIfLogged
  BY DEF LogInv, FatalOnlyIfLogged, NotRead, LoaderPCs
<1>q. QED
  BY <1>1, <1>2, StepKeepsLog, PTL DEF Spec

-----------------------------------------------------------------------------
(* Printing.                                                                 *)

\* The table by which ConsolePrint folds.
PrintTable(c, tokens, h) ==
    h = [s \in SUBSET DOMAIN tokens |->
            IF s = {} THEN c
            ELSE LET x == Max(s) IN
                 CHOOSE after \in {VgaWrite(now, tokens[x]) : now \in {h[s \ {x}]}} : TRUE]

LEMMA PrintByTable ==
    ASSUME NEW c, NEW tokens
    PROVE  ConsolePrint(c, tokens) = (CHOOSE h : PrintTable(c, tokens, h))[DOMAIN tokens]
  BY Zenon DEF ConsolePrint, FoldLeft, MapThenFoldSet, PrintTable

LEMMA OnlyChoice ==
    ASSUME NEW c, NEW t
    PROVE  (CHOOSE after \in {VgaWrite(now, t) : now \in {c}} : TRUE) = VgaWrite(c, t)
<1>1. \E after \in {VgaWrite(now, t) : now \in {c}} : TRUE
  OBVIOUS
<1> QED BY <1>1, Zenon

\* Printing stays in every set of consoles in which writing stays, and ends
\* with the last token.
LEMMA PrintSteps ==
    ASSUME NEW S, NEW c \in S, NEW tokens, NEW n \in Nat, DOMAIN tokens = 1..n,
           \A k \in S, i \in 1..n : VgaWrite(k, tokens[i]) \in S
    PROVE  /\ ConsolePrint(c, tokens) \in S
           /\ n = 0 => ConsolePrint(c, tokens) = c
           /\ n > 0 => \E k \in S : ConsolePrint(c, tokens) = VgaWrite(k, tokens[n])
<1> DEFINE g == [p \in (1..n) \X S |-> VgaWrite(p[2], tokens[p[1]])]
           h == CHOOSE h : PrintTable(c, tokens, h)
<1>1. g \in [(1..n) \X S -> S] /\ \A i \in 1..n, k \in S : g[i, k] = VgaWrite(k, tokens[i])
  OBVIOUS
<1> HIDE DEF g
<1>2. \E t : PrintTable(c, tokens, t)
  <2>1. PICK t \in [SUBSET (1..n) -> S] : FoldTable(n, c, g, t)
    BY <1>1, FoldExists
  <2>2. ASSUME NEW s \in SUBSET (1..n), s # {}
        PROVE  t[s] = CHOOSE after \in {VgaWrite(now, tokens[Max(s)]) : now \in {t[s \ {Max(s)}]}} : TRUE
    <3>1. Max(s) \in 1..n /\ t[s \ {Max(s)}] \in S
      BY <2>2, LargestOf
    <3>2. t[s] = g[Max(s), t[s \ {Max(s)}]]
      BY <2>1, <2>2 DEF FoldTable
    <3>3. t[s] = VgaWrite(t[s \ {Max(s)}], tokens[Max(s)])
      BY <1>1, <3>1, <3>2
    <3> QED BY <3>3, OnlyChoice
  <2>3. t[{}] = c
    BY <2>1 DEF FoldTable
  <2>4. t = [s \in SUBSET (1..n) |-> t[s]]
    OBVIOUS
  <2>5. t = [s \in SUBSET (1..n) |->
                IF s = {} THEN c
                ELSE CHOOSE after \in {VgaWrite(now, tokens[Max(s)]) : now \in {t[s \ {Max(s)}]}} : TRUE]
    BY <2>2, <2>3, <2>4, Zenon
  <2>6. PrintTable(c, tokens, t)
    BY <2>5, Zenon DEF PrintTable
  <2> QED BY <2>6
<1>3. PrintTable(c, tokens, h)
  BY <1>2, Zenon
<1>4. ConsolePrint(c, tokens) = h[1..n]
  BY PrintByTable, Zenon
<1> HIDE DEF h
<1>5. h = [s \in SUBSET (1..n) |->
              IF s = {} THEN c
              ELSE CHOOSE after \in {VgaWrite(now, tokens[Max(s)]) : now \in {h[s \ {Max(s)}]}} : TRUE]
  BY <1>3, Zenon DEF PrintTable
<1>6. h[{}] = c
  BY <1>5
<1>7. FoldSteps(n, S, g, h)
  <2>1. SUFFICES ASSUME NEW s \in SUBSET (1..n), s # {}, h[s \ {Max(s)}] \in S
                 PROVE  h[s] = g[Max(s), h[s \ {Max(s)}]]
    BY DEF FoldSteps
  <2>2. h[s] = CHOOSE after \in {VgaWrite(now, tokens[Max(s)]) : now \in {h[s \ {Max(s)}]}} : TRUE
    BY <1>5, <2>1, Zenon
  <2>3. h[s] = VgaWrite(h[s \ {Max(s)}], tokens[Max(s)])
    BY <2>2, OnlyChoice
  <2>4. Max(s) \in 1..n
    BY <2>1, LargestOf
  <2> QED BY <1>1, <2>1, <2>3, <2>4
<1>8. PICK f \in [0..n -> S] : Course(n, c, g, f, h[1..n])
  BY <1>1, <1>6, <1>7, FoldCourse
<1>9. f[n] = h[1..n] /\ f[n] \in S /\ (n = 0 => f[n] = c)
  <2>1. f[0] = c /\ f[n] = h[1..n]
    BY <1>8, Zenon DEF Course
  <2> QED BY <2>1
<1>10. n > 0 => \E k \in S : f[n] = VgaWrite(k, tokens[n])
  <2>1. SUFFICES ASSUME n > 0 PROVE f[n] = VgaWrite(f[n - 1], tokens[n]) /\ f[n - 1] \in S
    OBVIOUS
  <2>2. n - 1 \in 0..n /\ n - 1 < n /\ (n - 1) + 1 = n /\ n \in 1..n
    BY <2>1
  <2>3. f[(n - 1) + 1] = g[(n - 1) + 1, f[n - 1]]
    BY <1>8, <2>2, Zenon DEF Course
  <2> QED BY <1>1, <2>2, <2>3
<1> QED BY <1>4, <1>9, <1>10

-----------------------------------------------------------------------------
(* The screen.                                                               *)

\* Consoles in some of the themes, wherever the cursor is in its row, and those
\* of them with the cursor on the screen.
Rows(themes) == [shows : {"text", "prompt"}, at : Int, n : Int, attrs : SUBSET themes]
Consoles(themes) ==
    [rows : [0..Height - 1 -> Rows(themes)], x : Nat, y : 0..Height - 1, theme : themes]
OnScreen(themes) == {c \in Consoles(themes) : c.x < Width}

LEMMA CursorMoved ==
    ASSUME NEW A, NEW c \in Consoles(A), NEW x \in Nat
    PROVE  [c EXCEPT !.x = x] \in Consoles(A) /\ [c EXCEPT !.x = x].x = x
BY DEF Consoles

LEMMA BlankRows ==
    ASSUME NEW theme
    PROVE  [y \in 0..Height - 1 |-> Text({theme})] \in [0..Height - 1 -> Rows({theme})]
<1>1. Text({theme}) \in Rows({theme})
  BY DEF Text, Rows
<1> QED BY <1>1

\* Clearing the screen makes it one of the current theme whatever it showed,
\* and so does the editor.
LEMMA Cleared ==
    ASSUME NEW A, NEW c \in Consoles(A)
    PROVE  /\ VgaClear(c) \in OnScreen({c.theme}) /\ VgaClear(c) \in OnScreen(A)
           /\ VgaClear(c).x = 0 /\ VgaClear(c).theme = c.theme
<1> DEFINE rows == [y \in 0..Height - 1 |-> Text({c.theme})]
<1>1. rows \in [0..Height - 1 -> Rows({c.theme})] /\ c.theme \in A
  BY BlankRows DEF Consoles
<1>2. VgaClear(c) = [c EXCEPT !.rows = rows, !.x = 0, !.y = 0]
  BY DEF VgaClear
<1> HIDE DEF rows
<1>3. 0 \in 0..Height - 1 /\ 0 < Width
  BY ConsoleAssumption
<1>4. VgaClear(c) = [rows |-> rows, x |-> 0, y |-> 0, theme |-> c.theme]
  BY <1>2 DEF Consoles
<1>5. rows \in [0..Height - 1 -> Rows(A)]
  BY <1>1 DEF Rows
<1>6. ASSUME NEW B, c.theme \in B, rows \in [0..Height - 1 -> Rows(B)]
      PROVE  VgaClear(c) \in Consoles(B)
  BY <1>3, <1>4, <1>6 DEF Consoles
<1>7. VgaClear(c).x = 0 /\ VgaClear(c).theme = c.theme
  BY <1>4
<1> QED BY <1>1, <1>3, <1>5, <1>6, <1>7 DEF OnScreen

LEMMA ScreenRedrawn ==
    ASSUME NEW A, NEW c \in Consoles(A)
    PROVE  /\ Redrawn(c) \in Consoles({c.theme})
           /\ Redrawn(c).x = c.x /\ Redrawn(c).theme = c.theme
<1> DEFINE rows == [y \in 0..Height - 1 |-> Text({c.theme})]
<1>1. rows \in [0..Height - 1 -> Rows({c.theme})]
  BY BlankRows
<1>2. Redrawn(c) = [c EXCEPT !.rows = rows]
  BY DEF Redrawn
<1> HIDE DEF rows
<1>3. Redrawn(c) = [rows |-> rows, x |-> c.x, y |-> c.y, theme |-> c.theme]
  BY <1>2 DEF Consoles
<1>4. c.x \in Nat /\ c.y \in 0..Height - 1
  BY DEF Consoles
<1>5. ASSUME NEW B, c.theme \in B, rows \in [0..Height - 1 -> Rows(B)]
      PROVE  Redrawn(c) \in Consoles(B)
  BY <1>3, <1>4, <1>5 DEF Consoles
<1>6. Redrawn(c).x = c.x /\ Redrawn(c).theme = c.theme
  BY <1>3
<1> QED BY <1>1, <1>5, <1>6

LEMMA LineEnded ==
    ASSUME NEW A, NEW c \in Consoles(A)
    PROVE  NewLine(c) \in OnScreen(A) /\ NewLine(c).x = 0
<1>1. CASE c.y + 1 >= Height
  BY <1>1, Cleared DEF NewLine
<1>2. CASE ~(c.y + 1 >= Height)
  <2> DEFINE y == c.y + 1
  <2>1. y \in 0..Height - 1
    BY <1>2, ConsoleAssumption DEF Consoles
  <2>2. NewLine(c) = [c EXCEPT !.x = 0, !.y = y]
    BY <1>2 DEF NewLine
  <2> HIDE DEF y
  <2>3. [c EXCEPT !.x = 0, !.y = y] \in Consoles(A) /\ [c EXCEPT !.x = 0, !.y = y].x = 0
    BY <2>1 DEF Consoles
  <2>4. 0 < Width
    BY ConsoleAssumption
  <2> QED BY <2>2, <2>3, <2>4 DEF OnScreen
<1> QED BY <1>1, <1>2

\* Whatever is written, the cursor is on the screen and the colours are those
\* of the theme.
LEMMA Written ==
    ASSUME NEW A, NEW c \in Consoles(A), NEW token
    PROVE  VgaWrite(c, token) \in OnScreen(A)
<1> DEFINE after == IF token = "row" THEN Width ELSE c.x + (IF token = "\t" THEN 4 ELSE 1)
           row == IF token = "\t" THEN c.rows[c.y] ELSE Text(c.rows[c.y].attrs \cup {c.theme})
           d == [c EXCEPT !.rows[c.y] = row]
<1>0. VgaWrite(c, token) =
        IF token = "\n" THEN NewLine(c)
        ELSE IF token = "\r" THEN [c EXCEPT !.x = 0]
        ELSE IF after >= Width THEN NewLine(d)
        ELSE [c EXCEPT !.rows[c.y] = row, !.x = after]
  BY DEF VgaWrite
<1>1. after \in Nat
  BY ConsoleAssumption DEF Consoles
<1>2. row \in Rows(A)
  <2>1. c.rows[c.y] \in Rows(A) /\ c.theme \in A
    BY DEF Consoles
  <2>2. c.rows[c.y].attrs \cup {c.theme} \in SUBSET A
    BY <2>1 DEF Rows
  <2> QED BY <2>1, <2>2 DEF Rows, Text
<1> HIDE DEF after, row
<1>3. d \in Consoles(A)
  BY <1>2 DEF Consoles
<1>4. [c EXCEPT !.rows[c.y] = row, !.x = after] = [d EXCEPT !.x = after]
  BY DEF Consoles
<1> HIDE DEF d
<1>5. CASE token = "\n"
  BY <1>0, <1>5, LineEnded
<1>6. CASE token = "\r"
  <2>1. VgaWrite(c, token) = [c EXCEPT !.x = 0]
    BY <1>0, <1>6
  <2>2. [c EXCEPT !.x = 0] \in Consoles(A) /\ [c EXCEPT !.x = 0].x = 0
    BY CursorMoved
  <2>3. 0 < Width
    BY ConsoleAssumption
  <2> QED BY <2>1, <2>2, <2>3 DEF OnScreen
<1>7. CASE token # "\n" /\ token # "\r" /\ after >= Width
  BY <1>0, <1>3, <1>7, LineEnded
<1>8. CASE token # "\n" /\ token # "\r" /\ ~(after >= Width)
  <2>1. VgaWrite(c, token) = [d EXCEPT !.x = after]
    BY <1>0, <1>4, <1>8
  <2>2. [d EXCEPT !.x = after] \in Consoles(A) /\ [d EXCEPT !.x = after].x = after
    BY <1>1, <1>3, CursorMoved, Zenon
  <2>3. after < Width
    BY <1>1, <1>8, ConsoleAssumption
  <2> QED BY <2>1, <2>2, <2>3 DEF OnScreen
<1> QED BY <1>5, <1>6, <1>7, <1>8

-----------------------------------------------------------------------------
(* What is printed.                                                          *)

Tokens == Seq({"text", "row", "\n", "\r", "\t"})
EndsLine(t) == t \in Tokens /\ Len(t) > 0 /\ t[Len(t)] = "\n"

\* A message that ends its line leaves the cursor at the left edge.
LEMMA Printed ==
    ASSUME NEW A, NEW c \in OnScreen(A), NEW t \in Tokens
    PROVE  /\ ConsolePrint(c, t) \in OnScreen(A)
           /\ EndsLine(t) => ConsolePrint(c, t).x = 0
<1> DEFINE n == Len(t)
<1>1. n \in Nat /\ DOMAIN t = 1..n
  BY DEF Tokens
<1>2. \A k \in OnScreen(A), i \in 1..n : VgaWrite(k, t[i]) \in OnScreen(A)
  BY Written DEF OnScreen
<1> HIDE DEF n
<1>3. /\ ConsolePrint(c, t) \in OnScreen(A)
      /\ n > 0 => \E k \in OnScreen(A) : ConsolePrint(c, t) = VgaWrite(k, t[n])
  BY <1>1, <1>2, PrintSteps
<1>4. ASSUME EndsLine(t) PROVE ConsolePrint(c, t).x = 0
  <2>1. n > 0 /\ t[n] = "\n"
    BY <1>4 DEF EndsLine, n
  <2>2. PICK k \in OnScreen(A) : ConsolePrint(c, t) = VgaWrite(k, t[n])
    BY <1>3, <2>1
  <2>3. ConsolePrint(c, t) = NewLine(k)
    BY <2>1, <2>2 DEF VgaWrite
  <2> QED BY <2>3, LineEnded DEF OnScreen
<1> QED BY <1>3, <1>4

LEMMA LinesAreTokens ==
    ASSUME NEW n \in Nat
    PROVE  Lines(n) \in Tokens /\ Len(Lines(n)) = 2 * n /\ (n > 0 => EndsLine(Lines(n)))
<1> DEFINE m == 2 * n
<1>1. m \in Nat /\ (n > 0 => m > 0) /\ m % 2 = 0
  OBVIOUS
<1>2. /\ Lines(n) \in [1..m -> {"text", "row", "\n", "\r", "\t"}]
      /\ \A i \in 1..m : Lines(n)[i] = IF i % 2 = 1 THEN "text" ELSE "\n"
  BY DEF Lines
<1> HIDE DEF m
<1>3. Lines(n) \in Tokens
  BY <1>1, <1>2, SeqDef DEF Tokens
<1>4. Len(Lines(n)) = m
  BY <1>1, <1>2, <1>3, LenProperties DEF Tokens
<1>5. ASSUME n > 0 PROVE Lines(n)[m] = "\n"
  BY <1>1, <1>2, <1>5
<1> QED BY <1>1, <1>3, <1>4, <1>5 DEF EndsLine, m

LEMMA Joined ==
    ASSUME NEW s \in Tokens, NEW t \in Tokens
    PROVE  s \o t \in Tokens /\ (EndsLine(t) => EndsLine(s \o t))
BY ConcatProperties DEF Tokens, EndsLine

LEMMA OneLine == EndsLine(Line) /\ EndsLine(Wrapped) /\ EndsLine(<<"\n">>) /\ <<>> \in Tokens
BY DEF Line, Wrapped, Tokens, EndsLine
LEMMA MaxOfTwo ==
    ASSUME NEW a \in Nat, NEW b \in Nat
    PROVE  Max({a, b}) \in Nat /\ Max({a, b}) >= a /\ Max({a, b}) >= b
<1>1. \E x \in {a, b} : \A y \in {a, b} : x >= y
  <2>1. CASE a <= b
    BY <2>1
  <2>2. CASE b <= a
    BY <2>2
  <2>q. QED
    BY <2>1, <2>2
<1>q. QED
  BY <1>1 DEF Max

\* Every reply of a command ends its last line, cat of a file that does not end
\* in one included (commands.c:238-240).
LEMMA RepliesEndLines ==
    ASSUME log \in Logs, devices \in Seq(Types), NEW reply \in Replies
    PROVE  EndsLine(reply)
<1>1. ASSUME NEW n \in Nat, n > 0 PROVE EndsLine(Lines(n))
  BY <1>1, LinesAreTokens
<1>2. ASSUME NEW a \in AnyLine PROVE EndsLine(a)
  BY OneLine DEF AnyLine
<1>3. ASSUME NEW a \in Echo PROVE EndsLine(a)
  <2>1. EndsLine(<<"row", "\n">>)
    BY DEF EndsLine, Tokens
  <2> QED BY <1>2, <1>3, <2>1, OneLine DEF Echo
<1>4. ASSUME NEW a \in Fetch \cup Help \cup Disk \cup FsStat \cup BootlogPrint \cup ThemeText
      PROVE  EndsLine(a)
  <2>1. Number(log.memory) \in Nat /\ log.more \in Nat /\ ThemeCount \in Nat
    BY ConsoleAssumption DEF Number, Logs
  <2>2. PICK n \in Nat : n > 0 /\ a = Lines(n)
    BY <1>4, <2>1 DEF Fetch, Help, Disk, FsStat, BootlogPrint, ThemeText
  <2> QED BY <1>1, <2>2
<1>5. ASSUME NEW a \in StorageList PROVE EndsLine(a)
  <2>1. Len(devices) \in Nat
    BY LenProperties
  <2>2. Max({1, Len(devices)}) \in Nat
    BY <2>1, MaxOfTwo
  <2>3. 1 + Max({1, Len(devices)}) \in Nat /\ 1 + Max({1, Len(devices)}) > 0
    BY <2>2
  <2> QED BY <1>1, <1>5, <2>3 DEF StorageList
<1>6. ASSUME NEW a \in Ls PROVE EndsLine(a)
  <2>1. a \in {Line} \/ \E n \in 1..1 + MaxListed : a = Lines(n)
    BY <1>6 DEF Ls, NeedsFs
  <2> QED BY <1>1, <2>1, OneLine, ShellAssumption
<1>7. ASSUME NEW a \in Cat PROVE EndsLine(a)
  <2>1. ASSUME NEW text \in Contents PROVE EndsLine(CatText(text))
    <3>1. text \in Tokens
      BY ShellAssumption DEF Tokens
    <3>2. CASE text = <<>> \/ Last(text) # "\n"
      <4>1. CatText(text) = Append(text, "\n")
        BY <3>2 DEF CatText
      <4> QED BY <3>1, <4>1, AppendProperties DEF EndsLine, Tokens
    <3>3. CASE text # <<>> /\ Last(text) = "\n"
      <4>1. CatText(text) = text
        BY <3>3 DEF CatText
      <4>2. Len(text) > 0 /\ text[Len(text)] = "\n"
        BY <3>1, <3>3, EmptySeq, LenProperties DEF Last, Tokens
      <4> QED BY <3>1, <4>1, <4>2 DEF EndsLine
    <3> QED BY <3>2, <3>3
  <2> QED BY <1>7, <2>1, OneLine DEF Cat, NeedsFs
<1>8. ASSUME NEW a \in PwdOrCd \cup FileCommand PROVE EndsLine(a)
  BY <1>2, <1>8, OneLine DEF PwdOrCd, FileCommand, NeedsFs
<1> QED BY <1>2, <1>3, <1>4, <1>5, <1>6, <1>7, <1>8 DEF Replies
-----------------------------------------------------------------------------
(* What is on the screen.                                                    *)

\* A console with all of it in one theme and the cursor on the screen; the
\* cursor is at the left edge as well where the prompt may be drawn.
Sound(c) == \E theme \in Themes : c \in OnScreen({theme})
Fresh(c) == Sound(c) /\ c.x = 0

\* The help over some rows of a console in one theme.
Helped(c) ==
    /\ c \in Consoles({c.theme, HelpAttr})
    /\ \A y \in 0..Height - 1 : y \notin HelpRows => c.rows[y].attrs \subseteq {c.theme}

\* Behind an input that is wider than the screen the cursor is past the edge,
\* which only another prompt line or the end of this one may follow.
ScreenInv ==
    /\ con.theme \in Themes /\ help_overlay_visible \in BOOLEAN
    /\ IF help_overlay_visible THEN InEditor /\ Helped(con) ELSE con \in Consoles({con.theme})
    /\ con.x < Width \/ (AtPrompt /\ con.x = prompt.x + typed)
    /\ prompt \in [x : 0..Width - 1, y : 0..Height - 1]
    /\ typed \in 0..BufferSize - 1 /\ (editor => typed = 0)
    /\ fat_ready \in BOOLEAN /\ editor \in BOOLEAN /\ left \in BOOLEAN
    /\ log \in Logs
    /\ pc = "prompt" => con.x = 0
    /\ pc = "wait" => prompt.x = 0
    /\ TypedShown

LEMMA NoHelp ==
    ASSUME ScreenInv, ~InEditor
    PROVE  ~help_overlay_visible /\ con \in Consoles({con.theme}) /\ con.theme \in Themes
BY DEF ScreenInv

LEMMA SoundFields ==
    ASSUME NEW c, Sound(c)
    PROVE  c \in Consoles({c.theme}) /\ c.theme \in Themes /\ c.x < Width
<1>1. PICK theme \in Themes : c \in OnScreen({theme})
  BY DEF Sound
<1>2. c.theme = theme
  BY <1>1 DEF OnScreen, Consoles
<1> QED BY <1>1, <1>2 DEF OnScreen

LEMMA StillSound ==
    ASSUME NEW c, c \in Consoles({c.theme}), c.theme \in Themes
    PROVE  /\ c.x < Width => Sound(c)
           /\ Fresh(VgaClear(c)) /\ Fresh(NewLine(c))
<1>1. VgaClear(c) \in OnScreen({c.theme}) /\ VgaClear(c).x = 0
  BY Cleared
<1>2. NewLine(c) \in OnScreen({c.theme}) /\ NewLine(c).x = 0
  BY LineEnded
<1> QED BY <1>1, <1>2 DEF Sound, Fresh, OnScreen

LEMMA SoundPrinted ==
    ASSUME NEW c, Sound(c), NEW t \in Tokens
    PROVE  Sound(ConsolePrint(c, t)) /\ (EndsLine(t) => Fresh(ConsolePrint(c, t)))
<1>1. PICK theme \in Themes : c \in OnScreen({theme})
  BY DEF Sound
<1>2. /\ ConsolePrint(c, t) \in OnScreen({theme})
      /\ EndsLine(t) => ConsolePrint(c, t).x = 0
  BY <1>1, Printed
<1> QED BY <1>2 DEF Sound, Fresh

\* The prompt line is drawn over whatever is there, in the colours of the theme.
LEMMA PromptRendered ==
    ASSUME NEW c, c \in Consoles({c.theme}),
           NEW p \in [x : 0..Width - 1, y : 0..Height - 1], NEW n \in Nat
    PROVE  LET d == RenderPromptLine(c, p, n) IN
           /\ d \in Consoles({d.theme}) /\ d.theme = c.theme
           /\ d.x = p.x + n /\ d.y = p.y
           /\ p.x = 0 => d.rows[p.y] = [shows |-> "prompt", at |-> 0,
                                        n |-> Min({n, Width}), attrs |-> {d.theme}]
<1> DEFINE row == [shows |-> "prompt", at |-> p.x, n |-> Min({n, Width - p.x}),
                   attrs |-> {c.theme} \cup (IF p.x = 0 THEN {} ELSE c.rows[p.y].attrs)]
           x == p.x + n
           rows == [c.rows EXCEPT ![p.y] = row]
<1>1. RenderPromptLine(c, p, n) = [c EXCEPT !.rows[p.y] = row, !.x = x, !.y = p.y]
  BY DEF RenderPromptLine
<1>2. p.x \in Nat /\ p.y \in 0..Height - 1 /\ x \in Nat /\ Width - p.x \in Nat
  BY ConsoleAssumption
<1>3. c.rows \in [0..Height - 1 -> Rows({c.theme})]
  BY DEF Consoles
<1>4. Min({n, Width - p.x}) \in Nat
  BY <1>2, MinOfTwo
<1>5. c.rows[p.y].attrs \in SUBSET {c.theme}
  BY <1>2, <1>3 DEF Rows
<1>6. row \in Rows({c.theme})
  BY <1>2, <1>4, <1>5 DEF Rows
<1>7. p.x = 0 => row = [shows |-> "prompt", at |-> 0,
                        n |-> Min({n, Width}), attrs |-> {c.theme}]
  <2>1. SUFFICES ASSUME p.x = 0 PROVE Width - p.x = Width
    BY Zenon DEF row
  <2> QED BY <2>1, ConsoleAssumption
<1> HIDE DEF row, x
<1>8. RenderPromptLine(c, p, n) = [rows |-> rows, x |-> x, y |-> p.y, theme |-> c.theme]
  BY <1>1 DEF Consoles
<1>9. rows \in [0..Height - 1 -> Rows({c.theme})] /\ rows[p.y] = row
  BY <1>2, <1>3, <1>6
<1> HIDE DEF rows
<1>10. RenderPromptLine(c, p, n) \in Consoles({c.theme})
  <2>1. ASSUME NEW B, c.theme \in B, rows \in [0..Height - 1 -> Rows(B)]
        PROVE  [rows |-> rows, x |-> x, y |-> p.y, theme |-> c.theme] \in Consoles(B)
    BY <1>2, <2>1 DEF Consoles
  <2> QED BY <1>8, <1>9, <2>1
<1> DEFINE d == RenderPromptLine(c, p, n)
<1>11. d.theme = c.theme /\ d.x = x /\ d.y = p.y /\ d.rows = rows
  BY <1>8
<1> HIDE DEF d
<1>12. d \in Consoles({d.theme})
  BY <1>10, <1>11 DEF d
<1>13. p.x = 0 => d.rows[p.y] = [shows |-> "prompt", at |-> 0,
                                 n |-> Min({n, Width}), attrs |-> {d.theme}]
  BY <1>7, <1>9, <1>11
<1> QED BY <1>11, <1>12, <1>13 DEF d, x
\* The end of the line is printed on the row of the prompt: nothing is left of
\* what is past the edge.
LEMMA LineEntered == ASSUME ScreenInv, AtPrompt PROVE Fresh(Entered)
<1> DEFINE row == Text(con.rows[prompt.y].attrs)
           d == [con EXCEPT !.rows[prompt.y] = row]
<1>0. con \in Consoles({con.theme}) /\ con.theme \in Themes
  BY NoHelp DEF AtPrompt, InEditor
<1>1. con.rows \in [0..Height - 1 -> Rows({con.theme})] /\ prompt.y \in 0..Height - 1
  BY <1>0 DEF ScreenInv, Consoles
<1>2. Entered = NewLine(d)
  BY <1>1 DEF Entered
<1>3. row \in Rows({con.theme})
  <2>1. con.rows[prompt.y].attrs \in SUBSET {con.theme}
    BY <1>1 DEF Rows
  <2> QED BY <2>1 DEF Rows, Text
<1> HIDE DEF row
<1>4. d \in Consoles({con.theme}) /\ d.theme = con.theme
  BY <1>0, <1>1, <1>3 DEF Consoles
<1> HIDE DEF d
<1> QED BY <1>0, <1>2, <1>4, StillSound

LEMMA CommandDone ==
    ASSUME ScreenInv, Fresh(con'), pc' \in {"prompt", "halted"}, typed' = 0,
           editor' \in BOOLEAN, help_overlay_visible' = FALSE,
           UNCHANGED <<log, fat_ready, prompt, left>>
    PROVE  ScreenInv'
<1>1. con' \in Consoles({con'.theme}) /\ con'.theme \in Themes /\ con'.x < Width /\ con'.x = 0
  BY SoundFields DEF Fresh
<1>2. 0 \in 0..BufferSize - 1
  BY ShellAssumption
<1> QED BY <1>1, <1>2 DEF ScreenInv, TypedShown, AtPrompt

LEMMA EnterKeeps == ASSUME ScreenInv, devices \in Seq(Types), Enter PROVE ScreenInv'
<1>0. /\ typed' = 0 /\ UNCHANGED <<log, fat_ready, prompt, left>>
      /\ Fresh(Entered) /\ Sound(Entered) /\ editor \in BOOLEAN /\ log \in Logs
      /\ help_overlay_visible = FALSE
  BY LineEntered, NoHelp DEF Enter, Fresh, ScreenInv, AtPrompt, InEditor
<1>1. CASE EmptyCommand
  BY <1>0, <1>1, CommandDone DEF EmptyCommand, Done
<1>2. CASE ReplyCommand
  <2>1. PICK reply \in Replies : Done(ConsolePrint(Entered, reply))
    BY <1>2 DEF ReplyCommand
  <2>2. Fresh(ConsolePrint(Entered, reply))
    BY <1>0, RepliesEndLines, SoundPrinted DEF EndsLine
  <2> QED BY <1>0, <2>1, <2>2, CommandDone DEF Done
<1>3. CASE ClearCommand
  <2>1. Fresh(VgaClear(Entered))
    BY <1>0, SoundFields, StillSound
  <2> QED BY <1>0, <1>3, <2>1, CommandDone DEF ClearCommand, Done
<1>4. CASE ThemeCommand
  <2>1. PICK theme \in Themes : Done(HandleTheme(Entered, theme))
    BY <1>4 DEF ThemeCommand
  <2> DEFINE c == SetTheme(Entered, theme)
             said == ConsolePrint(c, Line)
  <2>2. c \in OnScreen(Themes)
    <3>1. Entered \in OnScreen(Themes)
      <4>1. Entered \in Consoles({Entered.theme}) /\ Entered.theme \in Themes /\ Entered.x < Width
        BY <1>0, SoundFields
      <4>2. Rows({Entered.theme}) \subseteq Rows(Themes)
        BY <4>1 DEF Rows
      <4> QED BY <4>1, <4>2 DEF OnScreen, Consoles
    <3> QED BY <3>1 DEF SetTheme, OnScreen, Consoles
  <2>3. Line \in Tokens /\ EndsLine(<<"\n">>) /\ <<"\n">> \in Tokens
    BY OneLine DEF EndsLine
  <2> HIDE DEF c
  <2>4. said \in OnScreen(Themes)
    BY <2>2, <2>3, Printed
  <2> HIDE DEF said
  <2>5. Sound(VgaClear(said))
    BY <2>4, Cleared DEF Sound, OnScreen, Consoles
  <2>6. Line \o <<"\n">> \in Tokens /\ EndsLine(Line \o <<"\n">>)
    BY <2>3, Joined
  <2>7. Fresh(HandleTheme(Entered, theme))
    BY <2>5, <2>6, SoundPrinted DEF HandleTheme, said, c
  <2> QED BY <1>0, <2>1, <2>7, CommandDone DEF Done
<1>5. CASE NanoCommand
  <2>1. Fresh(VgaClear(Entered))
    BY <1>0, SoundFields, StillSound
  <2> DEFINE c == VgaClear(Entered)
  <2>2. c \in Consoles({c.theme}) /\ c.theme \in Themes /\ c.x = 0
    BY <2>1, SoundFields DEF Fresh
  <2> HIDE DEF c
  <2>3. Redrawn(c) \in Consoles({c.theme}) /\ Redrawn(c).x = 0 /\ Redrawn(c).theme = c.theme
    BY <2>2, ScreenRedrawn
  <2>4. Fresh(Redrawn(c))
    BY <2>2, <2>3, StillSound, ConsoleAssumption DEF Fresh
  <2> QED BY <1>0, <1>5, <2>4, CommandDone DEF NanoCommand, c
<1>6. CASE ShutdownCommand
  <2>1. Lines(2) \in Tokens /\ EndsLine(Lines(2))
    BY LinesAreTokens
  <2>2. Fresh(ConsolePrint(Entered, Lines(2)))
    BY <1>0, <2>1, SoundPrinted
  <2> QED BY <1>0, <1>6, <2>2, CommandDone DEF ShutdownCommand
<1> QED BY <1>1, <1>2, <1>3, <1>4, <1>5, <1>6 DEF Enter
\* The prompt line with n characters of input, as MainLoop and the keys draw it.
LEMMA PromptKeeps ==
    ASSUME ScreenInv, ~InEditor, NEW p \in [x : 0..Width - 1, y : 0..Height - 1], p.x = 0,
           NEW n \in 0..BufferSize - 1, con' = RenderPromptLine(con, p, n),
           prompt' = p, typed' = n, pc' = "wait", editor' = editor, editor => n = 0,
           UNCHANGED <<log, fat_ready, help_overlay_visible>>, left' = FALSE
    PROVE  ScreenInv'
<1>0. ~help_overlay_visible /\ con \in Consoles({con.theme}) /\ con.theme \in Themes
  BY NoHelp
<1>1. n \in Nat
  OBVIOUS
<1>2. /\ con' \in Consoles({con'.theme}) /\ con'.theme = con.theme
      /\ con'.x = p.x + n /\ con'.y = p.y
      /\ con'.rows[p.y] = [shows |-> "prompt", at |-> 0,
                           n |-> Min({n, Width}), attrs |-> {con'.theme}]
  <2>1. con \in Consoles({con.theme})
    BY <1>0
  <2> QED BY <1>1, <2>1, PromptRendered
<1>3. con'.x < Width \/ (AtPrompt' /\ con'.x = prompt'.x + typed')
  BY <1>2, ConsoleAssumption DEF AtPrompt, ScreenInv
<1>4. PromptIsDrawn'
  BY <1>1, <1>2 DEF PromptIsDrawn
<1> QED BY <1>0, <1>2, <1>3, <1>4 DEF ScreenInv, TypedShown

LEMMA LineKeeps ==
    ASSUME ScreenInv, MainLoop \/ TypeChar \/ Backspace
    PROVE  ScreenInv'
<1>1. CASE MainLoop
  <2>1. con.x = 0 /\ con.y \in 0..Height - 1 /\ pc = "prompt" /\ ~InEditor
    BY <1>1, NoHelp DEF MainLoop, InEditor, ScreenInv, Consoles
  <2>2. [x |-> con.x, y |-> con.y] \in [x : 0..Width - 1, y : 0..Height - 1]
    BY <2>1, ConsoleAssumption
  <2>3. 0 \in 0..BufferSize - 1
    BY ShellAssumption
  <2> QED BY <1>1, <2>1, <2>2, <2>3, PromptKeeps DEF MainLoop, PromptReset
<1>2. ASSUME AtPrompt, NEW n \in 0..BufferSize - 1, Edited(n) PROVE ScreenInv'
  <2>1. prompt \in [x : 0..Width - 1, y : 0..Height - 1] /\ prompt.x = 0 /\ ~InEditor
    BY <1>2 DEF ScreenInv, AtPrompt, InEditor
  <2> QED BY <1>2, <2>1, PromptKeeps DEF Edited, AtPrompt
<1>3. CASE TypeChar
  <2>1. typed + 1 \in 0..BufferSize - 1
    BY <1>3, ShellAssumption DEF TypeChar, ScreenInv
  <2> QED BY <1>2, <1>3, <2>1 DEF TypeChar
<1>4. CASE Backspace
  <2>1. typed - 1 \in 0..BufferSize - 1
    BY <1>4, ShellAssumption DEF Backspace, ScreenInv
  <2> QED BY <1>2, <1>4, <2>1 DEF Backspace
<1> QED BY <1>1, <1>3, <1>4

\* The help adds its own colour, and that to its rows only.
LEMMA HelpDrawn ==
    ASSUME NEW c, c \in Consoles({c.theme})
    PROVE  LET d == HelpOverlay(c) IN Helped(d) /\ d.theme = c.theme /\ d.x = c.x
<1> DEFINE A == {c.theme, HelpAttr}
           rows == [y \in 0..Height - 1 |->
                       IF y \in HelpRows THEN Text(c.rows[y].attrs \cup {HelpAttr}) ELSE c.rows[y]]
           d == HelpOverlay(c)
<1>1. c.rows \in [0..Height - 1 -> Rows({c.theme})]
  BY DEF Consoles
<1>2. ASSUME NEW y \in 0..Height - 1
      PROVE  /\ rows[y] \in Rows(A)
             /\ y \notin HelpRows => rows[y].attrs \subseteq {c.theme}
  <2>1. c.rows[y] \in Rows({c.theme}) /\ c.rows[y].attrs \in SUBSET {c.theme}
    BY <1>1 DEF Rows
  <2>2. CASE y \in HelpRows
    <3>1. rows[y] = Text(c.rows[y].attrs \cup {HelpAttr})
      BY <2>2
    <3>2. c.rows[y].attrs \cup {HelpAttr} \in SUBSET A
      BY <2>1
    <3> QED BY <2>2, <3>1, <3>2 DEF Rows, Text
  <2>3. CASE y \notin HelpRows
    <3>1. rows[y] = c.rows[y]
      BY <2>3
    <3> QED BY <2>1, <3>1 DEF Rows
  <2> QED BY <2>2, <2>3
<1>3. rows \in [0..Height - 1 -> Rows(A)]
  BY <1>2
<1>0. d = [c EXCEPT !.rows = rows]
  BY DEF HelpOverlay
<1> HIDE DEF rows, d
<1>4. d = [rows |-> rows, x |-> c.x, y |-> c.y, theme |-> c.theme]
  BY <1>0 DEF Consoles
<1>5. c.x \in Nat /\ c.y \in 0..Height - 1 /\ c.theme \in A
  BY DEF Consoles
<1>6. d.rows = rows /\ d.theme = c.theme /\ d.x = c.x
  BY <1>4
<1>7. d \in Consoles(A)
  <2> HIDE DEF A
  <2> QED BY <1>3, <1>4, <1>5 DEF Consoles
<1> QED BY <1>2, <1>6, <1>7 DEF Helped, d

\* Drawing the editor again leaves nothing of what was there.
LEMMA EditorRedrawn ==
    ASSUME NEW A, NEW c \in Consoles(A), ScreenInv, InEditor, con' = Redrawn(c),
           c.theme \in Themes, c.x = con.x, help_overlay_visible' = FALSE,
           UNCHANGED <<pc, log, fat_ready, typed, prompt, editor, left>>
    PROVE  ScreenInv'
<1>1. con' \in Consoles({c.theme}) /\ con'.x = con.x /\ con'.theme = c.theme
  BY ScreenRedrawn
<1> QED BY <1>1 DEF InEditor, ScreenInv, TypedShown, AtPrompt

LEMMA EditorKeeps ==
    ASSUME ScreenInv, EditorKey \/ ShowHelp \/ CloseHelp \/ ExitEditor
    PROVE  ScreenInv'
<1>0. con.theme \in Themes /\ InEditor
  BY DEF ScreenInv, EditorKey, ShowHelp, CloseHelp, ExitEditor
<1>1. CASE EditorKey
  <2>1. PICK theme \in {con.theme, (con.theme + 1) % ThemeCount} :
            con' = Redrawn(SetTheme(con, theme))
    BY <1>1 DEF EditorKey
  <2>2. theme \in Themes
    BY <1>0, <2>1, ConsoleAssumption DEF Themes
  <2> DEFINE c == SetTheme(con, theme)
  <2>3. con \in Consoles(Themes)
    <3>1. con \in Consoles({con.theme})
      BY <1>1 DEF EditorKey, ScreenInv
    <3>2. Rows({con.theme}) \subseteq Rows(Themes)
      BY <1>0 DEF Rows
    <3> QED BY <1>0, <3>1, <3>2 DEF Consoles
  <2>4. c \in Consoles(Themes) /\ c.x = con.x /\ c.theme = theme
    BY <2>2, <2>3 DEF SetTheme, Consoles
  <2> HIDE DEF c
  <2>5. /\ UNCHANGED <<pc, log, fat_ready, typed, prompt, editor, left>>
        /\ help_overlay_visible' = FALSE
    BY <1>1 DEF EditorKey, inputVars, ScreenInv
  <2>6. con' = Redrawn(c)
    BY <2>1 DEF c
  <2> QED BY <1>0, <2>2, <2>4, <2>5, <2>6, EditorRedrawn
<1>3. CASE ShowHelp
  <2>1. con \in Consoles({con.theme})
    BY <1>3 DEF ShowHelp, ScreenInv
  <2>2. con' = HelpOverlay(con)
    BY <1>3 DEF ShowHelp
  <2>3. Helped(con') /\ con'.theme = con.theme /\ con'.x = con.x
    BY <2>1, <2>2, HelpDrawn
  <2>4. /\ UNCHANGED <<pc, log, fat_ready, typed, prompt, editor, left>>
        /\ help_overlay_visible' = TRUE
    BY <1>3 DEF ShowHelp
  <2> QED BY <1>0, <2>3, <2>4 DEF InEditor, ScreenInv, TypedShown, AtPrompt
<1>4. CASE CloseHelp
  <2>1. con \in Consoles({con.theme, HelpAttr})
    BY <1>4 DEF CloseHelp, ScreenInv, Helped
  <2>2. /\ UNCHANGED <<pc, log, fat_ready, typed, prompt, editor, left>>
        /\ help_overlay_visible' = FALSE /\ con' = Redrawn(con)
    BY <1>4 DEF CloseHelp
  <2> QED BY <1>0, <2>1, <2>2, EditorRedrawn
<1>2. CASE ExitEditor
  <2>1. PICK outcome \in {<<>>} \cup AnyLine, cwd \in AnyLine :
            con' = ConsolePrint(VgaClear(con), Line \o <<"\n">> \o outcome \o
                                               (IF fat_ready THEN cwd ELSE <<>>))
    BY <1>2 DEF ExitEditor
  <2> DEFINE way == IF fat_ready THEN cwd ELSE <<>>
             t == Line \o <<"\n">> \o outcome \o way
  <2>2. Line \in Tokens /\ <<"\n">> \in Tokens /\ outcome \in Tokens /\ way \in Tokens
    BY OneLine DEF AnyLine, EndsLine
  <2> HIDE DEF way
  <2>3. t \in Tokens
    BY <2>2, Joined
  <2> HIDE DEF t
  <2>4. con' = ConsolePrint(VgaClear(con), t)
    BY <2>1 DEF t, way
  <2>0. con \in Consoles({con.theme})
    BY <1>2 DEF ExitEditor, ScreenInv
  <2>5. Sound(con')
    BY <1>0, <2>0, <2>3, <2>4, StillSound, SoundPrinted DEF Fresh
  <2>6. con' \in Consoles({con'.theme}) /\ con'.theme \in Themes /\ con'.x < Width
    BY <2>5, SoundFields
  <2>7. /\ UNCHANGED <<pc, log, fat_ready, typed, prompt>>
        /\ editor' = FALSE /\ help_overlay_visible' = FALSE /\ left' = TRUE /\ pc = "wait"
    BY <1>2 DEF ExitEditor, InEditor
  <2> QED BY <2>6, <2>7 DEF ScreenInv, TypedShown
<1> QED BY <1>1, <1>2, <1>3, <1>4

\* While the machine starts it only prints.
LEMMA StartKeeps ==
    ASSUME ScreenInv, Sound(con'), log' \in Logs, fat_ready' \in BOOLEAN, UNCHANGED inputVars,
           pc # "wait", pc' # "wait", pc' = "prompt" => con'.x = 0
    PROVE  ScreenInv'
<1>1. con' \in Consoles({con'.theme}) /\ con'.theme \in Themes /\ con'.x < Width
  BY SoundFields
<1>2. TypedShown'
  BY DEF TypedShown, AtPrompt
<1>3. ~help_overlay_visible
  BY NoHelp DEF InEditor
<1> QED BY <1>1, <1>2, <1>3 DEF ScreenInv, inputVars

LEMMA StartUpShows == ASSUME ScreenInv, StartUp PROVE ScreenInv'
<1>0. /\ pc \notin {"wait", "prompt"} /\ UNCHANGED inputVars /\ pc' # "wait"
      /\ pc' = "prompt" => HelpLine
  <2>1. CASE DetectBootMode \/ BootlogInit \/ Banner \/ BootCheck
    BY <2>1 DEF DetectBootMode, BootlogInit, Banner, BootCheck, Phase
  <2>2. CASE StorageManagerInit
    BY <2>2 DEF StorageManagerInit, Phase
  <2>3. CASE DiskInit \/ SelfTest \/ MountVolume \/ HelpLine
    BY <2>3 DEF DiskInit, SelfTest, MountVolume, HelpLine, Phase
  <2> QED BY <2>1, <2>2, <2>3 DEF StartUp
<1>s. con \in Consoles({con.theme}) /\ con.theme \in Themes
  BY <1>0, NoHelp DEF InEditor
<1>1. Sound(con)
  BY <1>0, <1>s, StillSound DEF ScreenInv, AtPrompt
<1>2. ASSUME NEW t \in Tokens, Say(t) PROVE Sound(con') /\ (EndsLine(t) => con'.x = 0)
  BY <1>1, <1>2, SoundPrinted DEF Say, Fresh
<1>3. /\ Line \in Tokens /\ <<>> \in Tokens /\ <<"\n">> \in Tokens
      /\ \A n \in Nat : Lines(n) \in Tokens
  BY OneLine, LinesAreTokens DEF EndsLine
<1>4. Sound(con') /\ (pc' = "prompt" => con'.x = 0)
  <2>1. CASE DetectBootMode \/ BootlogInit
    BY <1>0, <1>1, <2>1 DEF DetectBootMode, BootlogInit, HelpLine, Phase
  <2>2. CASE Banner
    <3>1. con' = ConsolePrint(VgaClear(con), Lines(2)) /\ pc' # "prompt"
      BY <2>2 DEF Banner, Phase
    <3>2. Sound(VgaClear(con))
      BY <1>s, StillSound DEF Fresh
    <3>3. Lines(2) \in Tokens
      BY <1>3
    <3> QED BY <3>1, <3>2, <3>3, SoundPrinted
  <2>3. CASE StorageManagerInit
    <3>1. pc' # "prompt" /\ (con' = con \/ Say(Line))
      BY <2>3 DEF StorageManagerInit, Phase
    <3> QED BY <1>1, <1>2, <1>3, <3>1
  <2>4. CASE BootCheck
    <3>1. pc' # "prompt" /\ (Say(<<"\n">> \o Lines(3)) \/ Say(Line) \/ Say(<<>>))
      BY <2>4 DEF BootCheck, Phase
    <3>2. <<"\n">> \o Lines(3) \in Tokens
      BY <1>3, Joined
    <3> QED BY <1>2, <1>3, <3>1, <3>2
  <2>5. CASE DiskInit \/ SelfTest
    BY <1>2, <1>3, <2>5 DEF DiskInit, SelfTest, Phase
  <2>6. CASE MountVolume
    <3>1. PICK n \in Nat : Say(Lines(n)) /\ pc' # "prompt"
      BY <2>6 DEF MountVolume, Phase, Number
    <3> QED BY <1>2, <1>3, <3>1
  <2>7. CASE HelpLine
    <3>1. Line \o <<"\n">> \in Tokens /\ EndsLine(Line \o <<"\n">>)
      BY <1>3, OneLine, Joined
    <3> QED BY <1>2, <2>7, <3>1 DEF HelpLine
  <2> QED BY <2>1, <2>2, <2>3, <2>4, <2>5, <2>6, <2>7 DEF StartUp
<1>5. log' \in Logs /\ fat_ready' \in BOOLEAN
  <2>1. CASE DetectBootMode \/ Banner \/ StorageManagerInit \/ BootCheck
    BY <2>1 DEF DetectBootMode, Banner, StorageManagerInit, BootCheck, ScreenInv
  <2>2. CASE BootlogInit
    <3>1. NoLog \in Logs
      BY DEF NoLog, Logs
    <3> QED BY <2>2, <3>1 DEF BootlogInit, ResetLog, ScreenInv
  <2>3. CASE DiskInit \/ SelfTest \/ MountVolume \/ HelpLine
    BY <2>3 DEF DiskInit, SelfTest, MountVolume, HelpLine, ScreenInv
  <2> QED BY <2>1, <2>2, <2>3 DEF StartUp
<1> QED BY <1>0, <1>4, <1>5, StartKeeps

LEMMA ScreenStarts == ASSUME Init PROVE ScreenInv
<1> DEFINE rows == [y \in 0..Height - 1 |-> Text({})]
<1>1. con = [rows |-> rows, x |-> 0, y |-> 0, theme |-> 0]
  BY DEF Init, ShellInit
<1>2. rows \in [0..Height - 1 -> Rows({0})]
  BY DEF Rows, Text
<1> HIDE DEF rows
<1>3. /\ 0 \in 0..Height - 1 /\ 0 \in 0..Width - 1 /\ 0 \in Themes
      /\ 0 \in 0..BufferSize - 1 /\ 0 < Width
  BY ConsoleAssumption, ShellAssumption DEF Themes
<1>4. con \in Consoles({con.theme}) /\ con.theme \in Themes /\ con.x = 0
  BY <1>1, <1>2, <1>3 DEF Consoles
<1>5. pc \notin {"prompt", "wait"} /\ log \in Logs
  BY KernelAssumption DEF Init
<1>6. /\ fat_ready = FALSE /\ typed = 0 /\ prompt = [x |-> 0, y |-> 0]
      /\ editor = FALSE /\ help_overlay_visible = FALSE /\ left = FALSE
  BY DEF Init, ShellInit
<1> QED BY <1>3, <1>4, <1>5, <1>6 DEF ScreenInv, TypedShown, AtPrompt

LEMMA StepKeepsScreen == ASSUME ScreenInv, TableInv, [Next]_vars PROVE ScreenInv'
<1>1. CASE Loader
  <2>1. pc \in LoaderPCs /\ pc' \in LoaderPCs /\ UNCHANGED shellVars
    BY <1>1, LoaderStays DEF Loader
  <2>2. ~InEditor
    BY <2>1 DEF InEditor, LoaderPCs
  <2> QED BY <2>1, <2>2, NoHelp
          DEF ScreenInv, shellVars, inputVars, TypedShown, AtPrompt, LoaderPCs
<1>2. CASE StartUp
  BY <1>2, StartUpShows
<1>3. CASE UserShell
  BY <1>3, EnterKeeps, LineKeeps, EditorKeeps DEF UserShell, ShellNext, TableInv
<1>4. CASE UNCHANGED vars
  BY <1>4 DEF vars, shellVars, inputVars, ScreenInv, Helped, TypedShown, AtPrompt, InEditor,
              PromptIsDrawn
<1> QED BY <1>1, <1>2, <1>3, <1>4 DEF Next

\* However much the replies fill the screen, everything on it is in the colours
\* of the current theme, but for the rows of the editor's help, which has a
\* colour of its own and leaves none of it behind (commands.c:605,
\* nano.c:200-208, nano.c:491, vga_console.c:47).
THEOREM ScreenInOneTheme == Spec => []OneTheme
<1>1. ASSUME ScreenInv PROVE OneTheme
  <2>1. CASE help_overlay_visible
    <3>1. Helped(con)
      BY <1>1, <2>1 DEF ScreenInv
    <3>2. con.rows \in [0..Height - 1 -> Rows({con.theme, HelpAttr})]
      BY <3>1 DEF Helped, Consoles
    <3>3. \A y \in 0..Height - 1 : con.rows[y].attrs \subseteq {con.theme, HelpAttr}
      BY <3>2 DEF Rows
    <3> QED BY <2>1, <3>1, <3>2, <3>3 DEF OneTheme, Helped
  <2>2. CASE ~help_overlay_visible
    BY <1>1, <2>2 DEF ScreenInv, OneTheme, Consoles, Rows
  <2> QED BY <2>1, <2>2
<1> QED BY <1>1, ScreenStarts, TableStarts, StepKeepsTable, StepKeepsScreen, PTL DEF Spec

\* Whatever was printed before, the input is shown at the left edge of a row of
\* its own, with the cursor after it, but for the editor's way out (prompt.c:21-50).
THEOREM InputIsShown == Spec => []TypedShown
<1>1. ScreenInv => TypedShown
  BY DEF ScreenInv
<1> QED BY <1>1, ScreenStarts, TableStarts, StepKeepsTable, StepKeepsScreen, PTL DEF Spec
-----------------------------------------------------------------------------
(* The functions of the bus.                                                 *)

\* The places before the functions are listed, and those before AHCI
\* controllers are looked for.
BeforePci == LoaderPCs \cup {"bootlog_init", "banner", "pci_enumerate"}
BeforeAhci == BeforePci \cup {"nvme_init", "ahci_init"}

PciInv ==
    /\ Len(pci) <= PciMaxDevices
    /\ pc \notin BeforePci =>
          pci = [i \in 1..Min({Len(bus), PciMaxDevices}) |-> PciEntry(bus[i])]

LEMMA StepKeepsPci == ASSUME TableInv, PciInv, [Next]_vars PROVE PciInv'
<1>1. ASSUME pci' = pci, bus' = bus, pc' \notin BeforePci => pc \notin BeforePci PROVE PciInv'
  BY <1>1 DEF PciInv
<1>2. CASE Loader
  BY <1>1, <1>2, LoaderStays DEF Loader, storageVars, BeforePci
<1>3. CASE StorageManagerInit
  <2>1. CASE Phase("pci_enumerate", "nvme_init") /\ PciEnumerate /\ bus' = bus
    <3>1. Len(bus) \in Nat
      BY StorageAssumption, LenProperties DEF TableInv
    <3> DEFINE n == Min({Len(bus), PciMaxDevices})
    <3>2. n \in Nat /\ n <= PciMaxDevices
      BY <3>1, MinOfTwo, StorageAssumption
    <3>3. pci' = [i \in 1..n |-> PciEntry(bus'[i])]
      BY <2>1 DEF PciEnumerate
    <3>4. pci' \in Seq(Entries)
      BY <2>1, EntriesRead DEF TableInv
    <3>5. Len(pci') = n
      BY <3>2, <3>3, <3>4, LenProperties
    <3> QED BY <2>1, <3>2, <3>3, <3>5 DEF PciInv
  <2>2. CASE pci' = pci /\ bus' = bus /\ pc \notin BeforePci
    BY <1>1, <2>2
  <2> QED BY <1>3, <2>1, <2>2 DEF StorageManagerInit, Phase, BeforePci, LoaderPCs
<1>4. CASE DetectBootMode \/ BootlogInit \/ Banner
  BY <1>1, <1>4 DEF DetectBootMode, BootlogInit, Banner, Phase, storageVars, BeforePci
<1>5. CASE BootCheck \/ DiskInit \/ SelfTest \/ MountVolume \/ HelpLine
  BY <1>1, <1>5 DEF BootCheck, DiskInit, SelfTest, MountVolume, HelpLine, Phase, storageVars,
                    BeforePci, LoaderPCs
<1>6. CASE UserShell
  <2>1. pc \in {"prompt", "wait"}
    BY <1>6 DEF UserShell, ShellNext, MainLoop, TypeChar, Backspace, Edited, Enter, AtPrompt,
                EditorKey, ShowHelp, CloseHelp, ExitEditor, InEditor
  <2> QED BY <1>1, <1>6, <2>1 DEF UserShell, storageVars, BeforePci, LoaderPCs
<1>7. CASE UNCHANGED vars
  BY <1>1, <1>7 DEF vars, storageVars
<1> QED BY <1>2, <1>3, <1>4, <1>5, <1>6, <1>7 DEF Next, StartUp

LEMMA PciStarts == Init => PciInv
BY StorageAssumption DEF Init, StorageInit, PciInv, BeforePci, LoaderPCs

\* The machine is at one of its places.
PlaceOK == pc \in LoaderPCs \cup StartUpPCs \cup {"prompt", "wait", "fatal", "halted"}

LEMMA StepKeepsPlace == ASSUME PlaceOK, [Next]_vars PROVE PlaceOK'
<1>1. CASE Loader
  BY <1>1, LoaderStays DEF Loader, PlaceOK
<1>2. CASE DetectBootMode \/ BootlogInit \/ Banner \/ BootCheck
  BY <1>2 DEF DetectBootMode, BootlogInit, Banner, BootCheck, Phase, PlaceOK, StartUpPCs
<1>3. CASE StorageManagerInit
  BY <1>3 DEF StorageManagerInit, Phase, PlaceOK, StartUpPCs
<1>4. CASE DiskInit \/ SelfTest \/ MountVolume \/ HelpLine
  BY <1>4 DEF DiskInit, SelfTest, MountVolume, HelpLine, Phase, PlaceOK, StartUpPCs
<1>5. CASE UserShell
  BY <1>5, ShellStays DEF PlaceOK
<1>6. CASE UNCHANGED vars
  BY <1>6 DEF vars, PlaceOK
<1> QED BY <1>1, <1>2, <1>3, <1>4, <1>5, <1>6 DEF Next, StartUp

\* Everything has its type, the cursor and the prompt are where vga_write_char
\* and render_prompt_line index the screen, and no table has more than it holds.
THEOREM SystemTyped == Spec => []TypeOK
<1>1. Init => PlaceOK
  BY DEF Init, PlaceOK, LoaderPCs, StartUpPCs
<1>2. ASSUME PlaceOK, ScreenInv, TableInv, PciInv PROVE TypeOK
  <2>1. /\ con.theme \in Themes /\ con.y \in 0..Height - 1 /\ con.x \in Nat
        /\ \A y \in 0..Height - 1 : con.rows[y].attrs \subseteq Themes \cup {HelpAttr}
    <3>1. con.theme \in Themes
      BY <1>2 DEF ScreenInv
    <3>2. PICK A \in {{con.theme}, {con.theme, HelpAttr}} : con \in Consoles(A)
      BY <1>2 DEF ScreenInv, Helped
    <3>3. /\ con.y \in 0..Height - 1 /\ con.x \in Nat
          /\ con.rows \in [0..Height - 1 -> Rows(A)]
      BY <3>2 DEF Consoles
    <3>4. A \subseteq Themes \cup {HelpAttr}
      BY <3>1, <3>2
    <3>5. \A y \in 0..Height - 1 : con.rows[y].attrs \subseteq A
      BY <3>3 DEF Rows
    <3> QED BY <3>1, <3>3, <3>4, <3>5
  <2>2. con.x \in 0..Width - 1 \/ (AtPrompt /\ con.x = prompt.x + typed)
    BY <1>2, <2>1, ConsoleAssumption DEF ScreenInv
  <2>3. prompt.x \in 0..Width - 1 /\ prompt.y \in 0..Height - 1
    BY <1>2 DEF ScreenInv
  <2>4. primary \in 0..Len(devices) /\ Len(devices) <= MaxDevices
    BY <1>2, LenProperties DEF TableInv
  <2>5. /\ typed \in 0..BufferSize - 1 /\ (editor => typed = 0)
        /\ log \in Logs /\ fat_ready \in BOOLEAN /\ editor \in BOOLEAN /\ left \in BOOLEAN
        /\ help_overlay_visible \in BOOLEAN /\ (help_overlay_visible => InEditor)
    BY <1>2 DEF ScreenInv
  <2> QED BY <1>2, <2>1, <2>2, <2>3, <2>4, <2>5 DEF TypeOK, PlaceOK, PciInv
<1> QED BY <1>1, <1>2, ScreenStarts, TableStarts, PciStarts, StepKeepsPlace, StepKeepsTable,
           StepKeepsScreen, StepKeepsPci, PTL DEF Spec
-----------------------------------------------------------------------------
\* Of the functions with the subclass and the interface of an AHCI controller
\* none is of another class: the code never compares the class (pci.h:16).
OnlyAhciLooksLikeIt ==
    \A machine \in Buses : \A i \in DOMAIN machine :
        machine[i].subclass = SATA /\ machine[i].prog_if = STORAGE => IsAhci(machine[i])

\* The first AHCI controller, reached by the probe, with its registers mapped.
AhciWorks ==
    LET ahci == {i \in DOMAIN bus : IsAhci(bus[i])} IN
    ahci # {} /\ Min(ahci) <= PciMaxDevices /\ bus[Min(ahci)].bars # {}

AhciInv ==
    pc \notin BeforeAhci /\ AhciWorks /\ Len(devices) < MaxDevices
        => \E i \in DOMAIN devices : devices[i] = "AHCI"

LEMMA SmallestOf ==
    ASSUME NEW s \in SUBSET Nat, s # {}
    PROVE  Min(s) \in s /\ \A y \in s : Min(s) <= y
<1>1. \E x \in s : \A y \in s : x <= y
  BY LeastNumber
<1> QED BY <1>1, Zenon DEF Min

\* What the probe has put into the table is found again where it was.
LEMMA AhciMatches ==
    ASSUME OnlyAhciLooksLikeIt, TableInv, PciInv, pc = "ahci_init", AhciWorks
    PROVE  Matching(SATA) # {} /\ pci[Min(Matching(SATA))].bars # {}
<1> DEFINE ahci == {i \in DOMAIN bus : IsAhci(bus[i])}
           count == Min({Len(bus), PciMaxDevices})
           matches == Matching(SATA)
<1>1. /\ bus \in Seq([class : 0..255, subclass : 0..255, prog_if : 0..255, bars : SUBSET {0, 5}])
      /\ bus \in Buses
  BY StorageAssumption DEF TableInv
<1>2. Len(bus) \in Nat /\ DOMAIN bus = 1..Len(bus)
  BY <1>1, LenProperties
<1>3. /\ count \in Nat /\ count <= Len(bus)
      /\ \A k \in Nat : k <= Len(bus) /\ k <= PciMaxDevices => k <= count
  <2>1. count = Len(bus) \/ count = PciMaxDevices
    BY <1>2, MinOfTwo, StorageAssumption
  <2> QED BY <1>2, <2>1, MinOfTwo, StorageAssumption
<1>4. pci = [i \in 1..count |-> PciEntry(bus[i])]
  BY DEF PciInv, BeforePci, LoaderPCs
<1> HIDE DEF count
<1>5. \A i \in 1..count : /\ pci[i].class_code = bus[i].prog_if
                          /\ pci[i].subclass = bus[i].subclass /\ pci[i].bars = bus[i].bars
  BY <1>4 DEF PciEntry
<1>6. matches = ahci \cap (1..count)
  <2>1. ASSUME NEW i \in 1..count PROVE i \in matches <=> i \in ahci
    <3>1. i \in DOMAIN bus
      BY <1>2, <1>3
    <3>2. i \in matches <=> bus[i].prog_if = STORAGE /\ bus[i].subclass = SATA
      BY <1>4, <1>5 DEF Matching
    <3>3. IsAhci(bus[i]) => bus[i].prog_if = STORAGE /\ bus[i].subclass = SATA
      BY DEF IsAhci, STORAGE, SATA
    <3> QED BY <1>1, <3>1, <3>2, <3>3 DEF OnlyAhciLooksLikeIt
  <2>2. matches \subseteq 1..count
    BY <1>4 DEF Matching
  <2> QED BY <2>1, <2>2
<1> HIDE DEF matches
<1>7. ahci \in SUBSET Nat /\ ahci # {} /\ Min(ahci) <= PciMaxDevices /\ bus[Min(ahci)].bars # {}
  BY <1>2 DEF AhciWorks
<1> HIDE DEF ahci
<1>8. Min(ahci) \in ahci /\ \A y \in ahci : Min(ahci) <= y
  BY <1>7, SmallestOf
<1>9. Min(ahci) \in 1..Len(bus)
  BY <1>2, <1>8 DEF ahci
<1>10. Min(ahci) \in 1..count
  BY <1>3, <1>7, <1>9
<1>11. Min(ahci) \in matches /\ matches \in SUBSET Nat
  BY <1>6, <1>8, <1>10
<1>12. Min(matches) \in matches /\ Min(matches) <= Min(ahci)
  BY <1>11, SmallestOf
<1>13. Min(matches) = Min(ahci)
  BY <1>6, <1>8, <1>10, <1>12
<1> QED BY <1>5, <1>7, <1>10, <1>11, <1>13 DEF matches

LEMMA AhciRegisters ==
    ASSUME OnlyAhciLooksLikeIt, TableInv, PciInv, pc = "ahci_init", AhciInit,
           AhciWorks, Len(devices') < MaxDevices
    PROVE  \E i \in DOMAIN devices' : devices'[i] = "AHCI"
<1> DEFINE n == Cardinality(Matching(SATA))
<1>1. Register("AHCI", n)
  BY AhciMatches DEF AhciInit
<1>2. n \in Nat /\ n > 0
  <2>1. DOMAIN pci = 1..Len(pci) /\ Len(pci) \in Nat
    BY LenProperties DEF TableInv
  <2>2. Matching(SATA) \in SUBSET (1..Len(pci))
    BY <2>1 DEF Matching
  <2>3. IsFiniteSet(Matching(SATA))
    <3>1. IsFiniteSet(1..Len(pci))
      BY <2>1, FS_Interval
    <3> QED BY <2>2, <3>1, FS_Subset
  <2>4. Matching(SATA) # {}
    BY AhciMatches
  <2> QED BY <2>3, <2>4, FS_EmptySet, FS_CardinalityType
<1> HIDE DEF n
<1>3. /\ devices' \in Seq(Types) /\ Len(devices) <= Len(devices')
      /\ \A i \in DOMAIN devices' :
            devices'[i] = IF i <= Len(devices) THEN devices[i] ELSE "AHCI"
  BY <1>1, <1>2, Registered DEF TableInv, Types
<1>4. Len(devices) \in Nat /\ Len(devices') \in Nat /\ DOMAIN devices' = 1..Len(devices')
  BY <1>3, LenProperties DEF TableInv
<1>5. Len(devices') > Len(devices)
  <2>1. Len(devices) < MaxDevices
    BY <1>3, <1>4, StorageAssumption
  <2> QED BY <1>1, <1>2, <1>4, <2>1, Registered DEF TableInv, Types
<1> QED BY <1>3, <1>4, <1>5

LEMMA StepKeepsAhci ==
    ASSUME OnlyAhciLooksLikeIt, TableInv, TableInv', PciInv, AhciInv, [Next]_vars
    PROVE  AhciInv'
<1>0. Len(devices) \in Nat /\ DOMAIN devices = 1..Len(devices)
      /\ Len(devices') \in Nat /\ DOMAIN devices' = 1..Len(devices')
  BY LenProperties DEF TableInv
<1>1. ASSUME UNCHANGED storageVars, pc' \notin BeforeAhci => pc \notin BeforeAhci
      PROVE  AhciInv'
  BY <1>1 DEF AhciInv, AhciWorks, storageVars
<1>2. CASE Loader
  BY <1>1, <1>2, LoaderStays DEF Loader, BeforeAhci, BeforePci
<1>3. CASE StorageManagerInit
  <2> USE DEF Phase
  <2>1. CASE pc' \in {"nvme_init", "ahci_init"}
    BY <2>1 DEF AhciInv, BeforeAhci
  <2>2. CASE Phase("ahci_init", "ata_pio_init") /\ AhciInit /\ bus' = bus
    BY <2>2, AhciRegisters DEF AhciInv, AhciWorks
  <2>3. ASSUME NEW works \in BOOLEAN, Phase("ata_pio_init", "boot_check"),
               AtaPioInit(works), bus' = bus
        PROVE  AhciInv'
    <3>1. PICK n \in Nat : Register("ATA", n)
      BY <2>3 DEF AtaPioInit
    <3>2. /\ Len(devices) <= Len(devices')
          /\ \A i \in DOMAIN devices' :
                devices'[i] = IF i <= Len(devices) THEN devices[i] ELSE "ATA"
      BY <3>1, Registered DEF TableInv, Types
    <3>3. AhciWorks' => AhciWorks
      BY <2>3 DEF AhciWorks
    <3>4. pc \notin BeforeAhci
      BY <2>3 DEF BeforeAhci, BeforePci, LoaderPCs
    <3>5. SUFFICES ASSUME AhciWorks', Len(devices') < MaxDevices
                   PROVE  \E i \in DOMAIN devices' : devices'[i] = "AHCI"
      BY DEF AhciInv
    <3>6. Len(devices) < MaxDevices
      BY <1>0, <3>2, <3>5, StorageAssumption
    <3>7. PICK i \in DOMAIN devices : devices[i] = "AHCI"
      BY <3>3, <3>4, <3>5, <3>6 DEF AhciInv
    <3>8. i \in DOMAIN devices' /\ i <= Len(devices)
      BY <1>0, <3>2, <3>7
    <3> QED BY <3>2, <3>7, <3>8
  <2> QED BY <1>3, <2>1, <2>2, <2>3 DEF StorageManagerInit
<1>4. CASE DetectBootMode \/ BootlogInit \/ Banner
  BY <1>4 DEF DetectBootMode, BootlogInit, Banner, Phase, AhciInv, BeforeAhci, BeforePci
<1>5. CASE BootCheck \/ DiskInit \/ SelfTest \/ MountVolume \/ HelpLine
  BY <1>1, <1>5 DEF BootCheck, DiskInit, SelfTest, MountVolume, HelpLine, Phase,
                    BeforeAhci, BeforePci, LoaderPCs
<1>6. CASE UserShell
  <2>1. pc \in {"prompt", "wait"}
    BY <1>6 DEF UserShell, ShellNext, MainLoop, TypeChar, Backspace, Edited, Enter, AtPrompt,
                EditorKey, ShowHelp, CloseHelp, ExitEditor, InEditor
  <2> QED BY <1>1, <1>6, <2>1 DEF UserShell, BeforeAhci, BeforePci, LoaderPCs
<1>7. CASE UNCHANGED vars
  BY <1>1, <1>7 DEF vars, storageVars
<1> QED BY <1>2, <1>3, <1>4, <1>5, <1>6, <1>7 DEF Next, StartUp

\* However many functions answer, and whichever devices are found before, the
\* AHCI controller that the probe reaches is in the table unless it is full; for that
\* no function of another class may look like one (pci.h:16).
THEOREM AhciIsFound == OnlyAhciLooksLikeIt => (Spec => []AhciFound)
<1> SUFFICES ASSUME OnlyAhciLooksLikeIt PROVE Spec => []AhciFound
  OBVIOUS
<1>1. Init => AhciInv
  BY DEF Init, AhciInv, BeforeAhci, BeforePci, LoaderPCs
<1>2. AhciInv => AhciFound
  BY DEF AhciInv, AhciFound, AhciListed, AhciWorks, BeforeAhci, BeforePci
<1>3. ASSUME TableInv, PciInv, AhciInv, [Next]_vars PROVE TableInv' /\ PciInv' /\ AhciInv'
  BY <1>3, StepKeepsTable, StepKeepsPci, StepKeepsAhci
<1> QED BY <1>1, <1>2, <1>3, TableStarts, PciStarts, PTL DEF Spec
=============================================================================
