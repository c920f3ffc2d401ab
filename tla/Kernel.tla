------------------------------- MODULE Kernel ------------------------------
(***************************************************************************)
(* The machine from power-on to the shell: the UEFI loader or the BIOS      *)
(* starts GRUB (external), GRUB the kernel, and kernel_main (kernel/main.c) *)
(* the boot log (kernel/bootlog.c), the storage manager, the disk, the file *)
(* system and the shell.  A message is printed when its line is complete.   *)
(***************************************************************************)
EXTENDS UefiLoader, Shell

CONSTANT LogsAtPowerOn  \* what may lie in low memory, which nobody clears

ASSUME KernelAssumption == LogsAtPowerOn \subseteq Logs

VARIABLES
    boot_mode,
    found   \* history: the boot log in memory when the machine was started

vars == <<pc, loaderVars, storageVars, shellVars, boot_mode, found>>

NoLog == [magic |-> TRUE, method |-> 0, memory |-> FALSE, more |-> 0]

-----------------------------------------------------------------------------
Phase(from, to) == pc = from /\ pc' = to /\ UNCHANGED <<loaderVars, inputVars, found>>
Say(tokens) == con' = ConsolePrint(con, tokens)

\* GRUB gives the firmware's mode on the command line of the kernel.
DetectBootMode ==
    /\ Phase("grub", "bootlog_init")
    /\ boot_mode' \in {"BIOS", "UEFI"}
    /\ UNCHANGED <<storageVars, con, log, fat_ready>>

\* Faulty: what lies in memory is taken for the log of this start.
TrustLog == log' = [log EXCEPT !.magic = TRUE]
ResetLog == log' = IF log.magic THEN log ELSE NoLog
BootlogInit ==
    /\ Phase("bootlog_init", "banner")
    /\ ResetLog
    /\ UNCHANGED <<storageVars, con, fat_ready, boot_mode>>

Banner ==
    /\ Phase("banner", "pci_enumerate")
    /\ con' = ConsolePrint(VgaClear(con), Lines(2))
    /\ UNCHANGED <<storageVars, log, fat_ready, boot_mode>>

\* storage_manager_init: the bus, then one kind of device after the other.
StorageManagerInit ==
    /\ \/ Phase("pci_enumerate", "nvme_init") /\ PciEnumerate
                                              /\ UNCHANGED <<con, devices, primary>>
       \/ Phase("nvme_init", "ahci_init") /\ NvmeInit /\ UNCHANGED <<con, pci>>
       \/ Phase("ahci_init", "ata_pio_init") /\ AhciInit /\ UNCHANGED <<con, pci>>
       \/ /\ Phase("ata_pio_init", "boot_check")
          /\ \E works \in BOOLEAN : AtaPioInit(works)
          /\ Say(Line) /\ UNCHANGED pci
    /\ UNCHANGED <<bus, log, fat_ready, boot_mode>>

\* An error of the BIOS loader stops the machine.
BootCheck ==
    LET bad == boot_mode = "BIOS" /\ log.method = 2
        memory == IF boot_mode = "BIOS" /\ log.memory THEN Line ELSE <<>>
    IN /\ IF bad THEN Phase("boot_check", "fatal") /\ Say(<<"\n">> \o Lines(3))
                 ELSE Phase("boot_check", "disk_init") /\ Say(memory)
       /\ UNCHANGED <<storageVars, log, fat_ready, boot_mode>>

\* Faulty: a disk that is not ready is asked again.
DiskInitRetries ==
    /\ \E to \in {"self_test", "disk_init"} : Phase("disk_init", to)
    /\ Say(Line)
    /\ UNCHANGED <<storageVars, log, fat_ready, boot_mode>>
\* Printing the error divides disk_result down to 0: the file system is tried
\* although there is no disk.
DiskInit ==
    /\ \E to \in {"self_test", "fat12_init"} : Phase("disk_init", to)
    /\ Say(Line)
    /\ UNCHANGED <<storageVars, log, fat_ready, boot_mode>>

\* Whatever the self test says, start-up goes on.
SelfTest ==
    /\ Phase("self_test", "fat12_init")
    /\ Say(Line)
    /\ UNCHANGED <<storageVars, log, fat_ready, boot_mode>>

MountVolume ==
    /\ Phase("fat12_init", "help_line")
    /\ \E mounted \in BOOLEAN :
          fat_ready' = mounted /\ Say(Lines(1 + Number(mounted)))
    /\ UNCHANGED <<storageVars, log, boot_mode>>

HelpLine ==
    /\ Phase("help_line", "prompt")
    /\ Say(Line \o <<"\n">>)
    /\ UNCHANGED <<storageVars, log, fat_ready, boot_mode>>

-----------------------------------------------------------------------------
Init ==
    /\ pc \in {"efi_main", "grub"}
    /\ LoaderInit /\ StorageInit /\ ShellInit
    /\ log \in LogsAtPowerOn /\ found = log
    /\ boot_mode = "Unknown"

Loader == LoaderNext /\ UNCHANGED <<storageVars, shellVars, boot_mode, found>>

StartUp ==
    \/ DetectBootMode \/ BootlogInit \/ Banner \/ StorageManagerInit \/ BootCheck
    \/ DiskInit \/ SelfTest \/ MountVolume \/ HelpLine

UserShell == ShellNext /\ UNCHANGED <<loaderVars, storageVars, boot_mode, found>>

Next == Loader \/ StartUp \/ UserShell

Spec == Init /\ [][Next]_vars

\* The kernel's own steps come: nothing else runs on the machine.  Whether the
\* firmware answers and a key is pressed is not its to say.
KernelSteps == StartUp \/ (pc = "prompt" /\ UserShell)
FairSpec == Spec /\ WF_vars(KernelSteps)

-----------------------------------------------------------------------------
StartUpPCs ==
    {"grub", "bootlog_init", "banner", "pci_enumerate", "nvme_init", "ahci_init",
     "ata_pio_init", "boot_check", "disk_init", "self_test", "fat12_init", "help_line"}

\* Types, with the cursor and the prompt on the screen (vga_write_char and
\* render_prompt_line index the screen with them unchecked); only behind an input
\* that is wider than the screen the cursor is past the edge.
TypeOK ==
    /\ pc \in LoaderPCs \cup StartUpPCs \cup {"prompt", "wait", "fatal", "halted"}
    /\ con.theme \in Themes /\ con.y \in 0..Height - 1
    /\ con.x \in 0..Width - 1 \/ (AtPrompt /\ con.x = prompt.x + typed)
    /\ \A y \in 0..Height - 1 : con.rows[y].attrs \subseteq Themes \cup {HelpAttr}
    /\ prompt.x \in 0..Width - 1 /\ prompt.y \in 0..Height - 1
    /\ typed \in 0..BufferSize - 1 /\ (editor => typed = 0)
    /\ log \in Logs /\ fat_ready \in BOOLEAN /\ editor \in BOOLEAN /\ left \in BOOLEAN
    /\ help_overlay_visible \in BOOLEAN /\ (help_overlay_visible => InEditor)
    /\ Len(pci) <= PciMaxDevices /\ Len(devices) <= MaxDevices
    /\ primary \in 0..Len(devices)

\* The machine refuses to start only over an error that a loader has logged:
\* what else lies at the address of the log never stops it (bootlog.c:10-21,
\* main.c:58).
FatalOnlyIfLogged == pc = "fatal" => found.magic /\ found.method = 2

\* Once GRUB has started it, and after every command, the kernel comes to wait
\* for a key, whichever devices fail, unless it has said why it stops.
BackToPrompt ==
    pc \in StartUpPCs \cup {"prompt"} ~> pc \in {"wait", "fatal"}

AhciFound == AhciListed(pc \notin LoaderPCs \cup {"bootlog_init", "banner",
                                   "pci_enumerate", "nvme_init", "ahci_init"})
=============================================================================
