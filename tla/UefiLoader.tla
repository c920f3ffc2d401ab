---------------------------- MODULE UefiLoader -----------------------------
(***************************************************************************)
(* The UEFI loader (bootloader/uefi_loader.c): it looks at the machine and  *)
(* the boot device, reads the kernel to see that it is there, and starts    *)
(* GRUB.  The firmware is external: each of its calls may fail.             *)
(***************************************************************************)
EXTENDS Machine

VARIABLES
    held,   \* pool buffers, open files and images the loader holds
    file    \* the file it is concerned with

loaderVars == <<held, file>>

LoaderPCs ==
    {"efi_main", "map_size", "map_alloc", "map", "loaded_image",
     "block_io", "media", "block_alloc", "read_blocks", "file_system", "open_volume",
     "open", "info_size", "info_alloc", "info", "data_alloc", "read", "close",
     "start_image", "failed", "returned", "grub"}

-----------------------------------------------------------------------------
\* A firmware call of the loader: it works, gets and after it frees something,
\* or it fails, and the error path frees what it knows of.
Calls(from, to, gets, frees, otherwise, undoes) ==
    /\ pc = from
    /\ \/ pc' = to /\ held' = (held \cup gets) \ frees
       \/ pc' = otherwise /\ held' = held \ undoes
    /\ UNCHANGED file

\* Without a console or boot services the loader returns at once.
EfiMain ==
    /\ pc = "efi_main"
    /\ pc' \in {"map_size", "returned"}
    /\ UNCHANGED loaderVars

\* A memory map that cannot be had is reported; the loader goes on.
DumpMemoryMap ==
    \/ Calls("map_size", "map_alloc", {}, {}, "loaded_image", {})
    \/ Calls("map_alloc", "map", {"map"}, {}, "loaded_image", {})
    \/ Calls("map", "loaded_image", {}, {"map"}, "loaded_image", {"map"})

LoadedImage == Calls("loaded_image", "block_io", {}, {}, "failed", {})

ProbeBlockIo ==
    \/ Calls("block_io", "media", {}, {}, "failed", {})
    \/ Calls("media", "block_alloc", {}, {}, "failed", {})
    \/ Calls("block_alloc", "read_blocks", {"block"}, {}, "failed", {})
    \/ Calls("read_blocks", "file_system", {}, {"block"}, "failed", {"block"})

OpenVolume ==
    \/ Calls("file_system", "open_volume", {}, {}, "failed", {})
    \/ Calls("open_volume", "open", {"root"}, {}, "failed", {})

\* Faulty: the buffer with the file's size is kept when it cannot be filled.
KeepsInfo == Calls("info", "data_alloc", {}, {"info"}, "failed", {"file", "root"})
FileInfo == Calls("info", "data_alloc", {}, {"info"}, "failed", {"info", "file", "root"})

\* The callers close the root directory whatever came of it.
ReadFileIntoBuffer ==
    \/ Calls("open", "info_size", {"file"}, {}, "failed", {"root"})
    \/ Calls("info_size", "info_alloc", {}, {}, "failed", {"file", "root"})
    \/ Calls("info_alloc", "info", {"info"}, {}, "failed", {"file", "root"})
    \/ FileInfo
    \/ Calls("data_alloc", "read", {"data"}, {}, "failed", {"file", "root"})
    \/ Calls("read", "close", {}, {"file", "root"}, "failed", {"data", "file", "root"})

\* The kernel was read: that is all that is asked of it.
VerifyKernelFile ==
    /\ pc = "close" /\ file = "kernel.elf"
    /\ file' = "GRUBX64.EFI"
    /\ held' = held \ {"data"}
    /\ pc' = "file_system"

LoadGrubImage ==
    /\ file = "GRUBX64.EFI"
    /\ Calls("close", "start_image", {"image"}, {"data"}, "failed", {"data"})

\* GRUB runs, or comes back; when it could not be started its image stays.
StartImage ==
    /\ pc = "start_image"
    /\ pc' \in {"grub", "returned", "failed"}
    /\ UNCHANGED loaderVars

WaitForKey ==
    /\ pc = "failed"
    /\ pc' = "returned"
    /\ UNCHANGED loaderVars

LoaderInit == held = {} /\ file = "kernel.elf"
LoaderNext ==
    \/ EfiMain \/ DumpMemoryMap \/ LoadedImage \/ ProbeBlockIo \/ OpenVolume
    \/ ReadFileIntoBuffer \/ VerifyKernelFile \/ LoadGrubImage \/ StartImage \/ WaitForKey

-----------------------------------------------------------------------------
\* Whichever call fails, the loader gives back to the firmware what it got
\* from it: no buffer and no open file is left when it returns or GRUB runs
\* (the image of a GRUB that did not start is, uefi_loader.c:421).
NothingLeaks == pc \in {"returned", "grub"} => held \subseteq {"image"}
=============================================================================
