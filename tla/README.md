# A verification project for AltoniumOS

AltoniumOS is a small 32-bit kernel: a BIOS/UEFI boot path, an ATA PIO disk
driver, a FAT12 file system, a keyboard driver, a shell and a text editor.
There are no processes, no interrupts and no threads: one call runs at a time,
and the keyboard is polled. What is hard about it is what happens between two
disk transfers: transfers fail, the power goes, the drive works on its own
clock, and every caller relies on tables that are cached in memory.

The modules here model the parts that keep state, from the UEFI loader to the
shell and the editor. TLC checks them on small instances, TLAPS proves what
matters most for every size. Paths below are relative to the repository;
`fat12.c:305` is line 305 of `src/fat12.c`.

## Inventory

| Part | State | Operations | Talks to | What makes it correct |
|---|---|---|---|---|
| FAT12 volume (`fat12.c`) | cached FAT and root directory, dirty flags, the disk | mount, read, write, mkdir, rm, flush | disk driver below; shell and nano above | no cluster has two owners or none; a call takes effect once or not at all; clean caches are on the disk; a power loss costs only the call in progress |
| Packed FAT (`fat12.c:263-288`) | the FAT's bytes | get and set a 12-bit entry | the volume | writing an entry leaves its neighbours alone |
| Paths (`fat12.c:583-928`) | current directory, path stack, the text of `pwd` | cd, ls PATH, resolve a file's path | directory search | the stack leads from the root to the current directory; `..` leads to the parent |
| ATA PIO driver (`disk.c`) | counters; the drive's registers | init, self test, read and write of n sectors | the drive | OK means every sector moved and no other changed; every call returns |
| Editor (`shell/nano.c`) and keyboard (`drivers/input/keyboard.c`) | lines, cursor, viewport, dirty, prompt, overlay; Ctrl and E0 state | every key, load, save, exit | FAT12 layer, prompt | the cursor is in the text; a key edits one place; an unmodified buffer is the file; nothing is lost unasked |
| 8.3 names (`fat12.c:152-242`) | none | typed name to entry, entry to listing | all of the file calls | exactly the 8.3 names are taken; what `ls` shows can be typed |
| Image builder (`scripts/build_fat12_image.py`) | none | writes the first volume | - | its volume is the initial state |
| Prompt and commands (`shell/prompt.c`, `shell/commands.c`) | input line, where the prompt starts, `fat_ready`, I/O buffer | each key, each command | all of the above and below | the input is shown where it is typed; every command comes back |
| Console, themes (`drivers/console/`) | cells, cursor, theme | print, clear, set the theme | everything prints | the cursor stays on the screen; one theme at a time, but for the editor's help |
| Storage manager, PCI, AHCI, NVMe (`drivers/bus/`, `drivers/storage/`) | table of devices, primary device | enumerate, detect, register | kernel start-up | table bounds; the best device is primary |
| Kernel start-up, boot log (`kernel/`) | boot mode, log | start | everything | the order of initialisations; stale memory is not believed |
| UEFI loader (`bootloader/uefi_loader.c`) | buffers and files held | check the kernel, start GRUB | firmware | every error path gives back what it got |
| BIOS loader (`boot.asm`, `bootloader/stage2.asm`) | registers | load the kernel | BIOS | not modelled, see below |
| Strings (`lib/string.c`) | none | copy, compare, print numbers | - | not modelled, see below |

The behaviours that are hard here: failed transfers in the middle of a call,
failed flushes, power loss between two sectors, the drive answering late,
retries of a half-done transfer, limits (clusters, root slots, path depth,
line length, I/O buffer, device table, the bottom of the screen) met in the
middle of an operation, long sequences of edits, and a screen that shell,
editor and console each write to with a cursor of their own. `PROJECT.json`
lists each of them as a hazard with its line and the properties that watch it.

## Modules

| Module | Models |
|---|---|
| `Fat12` | the FAT12 layer over a disk whose transfers may fail |
| `FileStore` | what that layer promises: a tree that each call changes once or not at all |
| `Fat12Store` | the tree a volume holds; `Fat12` implements `FileStore` |
| `PackedFat` | the bytes of the FAT |
| `ShortNames` | 8.3 names: typed, stored, listed |
| `Fat12Path` | paths and the current directory |
| `AtaPio` | the disk driver and the drive |
| `Nano` | the editor and the keyboard driver |
| `Machine` | the processor: where the running program is |
| `UefiLoader` | the loader and the firmware calls it makes |
| `Console` | operators on the screen: printing, wrapping, clearing, themes |
| `Storage` | PCI enumeration and the table of block devices |
| `Shell` | prompt, commands, the way into the editor and out, over `Console` and `Storage` |
| `Kernel` | the machine from power-on: `UefiLoader`, start-up and `Shell` composed |
| `MC...` | instances for TLC; `MCFormats` puts `PackedFat` and `ShortNames` side by side |
| `Fat12Proofs` | theorems on `Fat12`: caches and flushes, the FAT and the directories, in memory and on the disk |
| `Fat12StoreProofs` | theorems on its tree of files: what a call does to it, in memory and on the disk |
| `FormatsProofs` | theorems on the bytes of the FAT and on the names |
| `Fat12PathProofs`, `AtaPioProofs` | theorems on the paths and the disk driver |
| `KernelProofs` | theorems on the machine: `UefiLoader`, `Storage`, `Console`, `Shell` and `Kernel` |
| `NanoProofs` | theorems on the editor |
| `Induction` | least numbers, walks along links and folds: what stands in for induction in the proofs |

How they fit: `Nano` uses the file system as `FileStore` describes it (a write
that fails leaves the file alone); `Fat12Store` shows that `Fat12` provides
that. `Fat12` uses the FAT as a table of independent entries; `PackedFat` shows
that its bytes provide one. `Fat12` takes from the disk that a transfer which
returns 0 moved its sectors; `AtaPio` shows that. `Fat12` starts each call at
the directory and name that `Fat12Path` finds, and those are entries that
`ShortNames` makes of what was typed. `Kernel` is the composition in which the
programs run one after the other on one `pc`: what a command prints and changes
in the shell is there, what it does to files is in `Fat12` and `Fat12Path`, what
a key does to the text in `Nano`.

### Fat12

The variables `g_fat_primary`, `g_root_dir`, `g_fat_dirty`, `g_root_dirty` and
`g_fs_ready` are the code's. `disk_fat` (one table per copy), `disk_root` and
`disk_data` are the disk. `pc` and `op` are the call in progress with its
locals, `cur` the sector a flush writes next, `res` what was returned.

A call is broken where the disk changes: `Allocate` (`fat12_allocate_cluster`
marks a cluster and zeroes it), `Fill` (the data, or `.` and `..`), `PutEntry`
and `ExtendDirectory` (`fat12_write_directory_entry`), `FlushRoot` and
`FlushFats` one sector at a time. Each has the variant in which the transfer
fails, with what the code does then: give the chain back (`Abandon`), carry on
(a flush inside a call), return (`fat12_flush`). A transfer that is reported to
have failed may or may not have reached the disk. `Restart` is a power loss at
any control point of `RestartFrom`. `MayFail` chooses among four kinds of
transfer: `mount`, `dir` (directories outside the root), `data`, `flush`.

Abstractions. A cluster holds directory slots, or a piece of file (payload and
offset). A FAT sector holds a whole number of entries (in the code one entry
in 341 straddles two sectors; a cut between them leaves half an entry of a
copy that the next complete flush rewrites). A cluster write that fails is all
or nothing, although a cluster is several sectors: the clusters concerned are
free ones, or directory clusters in which one slot changes. The seeded volume
is one directory with one file; the further root files the builder writes are
left out, as after `rm`. A mounted volume is a FAT12 volume: the checks of the
boot sector (`fat12.c:613-650`) are assumptions on the constants. There are at
least two clusters and one FAT copy.

### PackedFat

`Decode`, `FirstByte` and `SecondByte` are the shifts and masks of
`fat12_get_fat_entry` and `fat12_set_fat_entry` in arithmetic.

### ShortNames

`MakeShortName` is `fat12_make_short_name` with its cut at 31 characters,
`DirNameToString` the listing, `BuilderShortName` the builder's
`to_short_name`. Fields of 2 and 1 characters stand for 8 and 3. The reference
definition is `Is83`.

### Fat12Path

One module for the three copies of the walk (`fat12_locate_directory`,
`fat12_change_directory`, `fat12_resolve_parent_and_name`). A walk takes one
component per step, because each name is a search of the disk that may fail.
The tree is a constant (no call removes a directory), components are names, `.`
and `..`, or something without an 8.3 form.

### AtaPio

The drive is external: it is modelled from the status bits the driver polls.
It works between any two steps of the driver. `DriveMay` says what else it
does: end commands with ERR, end a write with DF set and nothing written
(`fault`), answer after the driver's 10000 polls or never (`late`), report not
ready. `slow` and `faulty` remember that a wait has timed out and that a write
has ended with DF. A sector count of 0 in the
8-bit register means 256, here `CountLimit`. A drive that gets a command while
DRQ is set may ignore it or drop what it was doing; ATA leaves that open.

### Nano

A step is one byte from the keyboard controller. Loading (CR dropped, long
lines cut, lines past the limit dropped) and saving (one NL per line, cut at
the I/O buffer) are modelled byte by byte, since `CleanMeansSaved` is about
them. A letter key stands for the character `Ascii` gives it; the properties
tell two characters apart. `unread` remembers that the file could not be read
and the buffer is therefore not its text. Files of CRs only are excluded
(`TextsAssumption`): the code makes no line of one and the next cursor key
indexes row -1 (`nano.c:426`); nothing in the system writes such a file.

### UefiLoader, Kernel

`held` is what the loader has got from the firmware and not given back. `Calls`
is one firmware call: it works, or it fails and the error path frees what it
knows of. Each action of the start-up is a phase of `kernel_main`; each device
works or not. GRUB is external: it starts the kernel, or returns to the loader.
`found` remembers what lay at the address of the boot log, which nobody clears.

`DiskInit` goes on to the mount when the disk failed, as the code does: printing
the error divides `disk_result` down to 0 (`main.c:111`) before it is tested.

### Storage

A PCI function is its three class bytes and its base addresses. `PciEntry` reads
the class where the code does, at offset 9 (`include/drivers/pci.h:16`), where
the header has the programming interface. `NvmeInit`, `AhciInit` and
`AtaPioInit` register one device per match, all of them the first match.

### Console, Shell

The console is a record: of a row it keeps the colours in it and, where the shell
draws the prompt, where that starts and how much of the input shows.
Text is a token that stays in its row or one that reaches the edge, which is all
that decides where the cursor goes. As the width and the length of the input are
scaled down, any input that is not empty may be any command. A command is the set
of replies it may give. Drawing the editor rewrites every cell and leaves the
console's cursor alone. Ctrl+H draws the help over the editor's text, in a colour
of no theme (`nano.c:591`): `HelpOverlay` adds `HelpAttr` to the rows `HelpRows`
the help has text in, and `help_overlay_visible` says that it is up. The next key
only redraws the editor (`CloseHelp`).

## Runs

| Run | Shows | Bounds |
|---|---|---|
| `fat12_volume` | no cross-links, no lost clusters, sound directories, in memory and, but between an entry and the end of its flushes, on the disk; bystanders on the disk between any two steps; OK means flushed; every call returns; `Fat12` implements `FileStore` | mounts and data transfers fail anywhere; 3 clusters, of which the seeded directory takes one: a file of 3 units takes both others, so that an overwrite of the seeded one, which has one, finds the volume full; a directory of one free slot has to grow; 2 names and 2 root slots, so that slots run out; 2 payloads, so that a mixture would show; power cuts everywhere but in the flushes |
| `fat12_power` | `Durable`, `FlushProgress` and `FlushMirrors` with power loss anywhere and failing mounts, directory transfers and flushes | restart at every control point; 2 FAT copies of 2 sectors |
| `disk_formats` | one FAT entry per write; exactly the 8.3 names are taken, and a listed name leads back to its entry | both parities, the entry that straddles the end of the table, values that set every nibble; every text of 6 characters, one more than is looked at (`TempLen` 5), and the longest name has 4 |
| `ata_transfer` | OK means transferred, writes stay inside, counted once, drive free afterwards, every call returns | 3 sectors; transfers of 0 to 3 sectors with a limit of 2, so that 1, the limit and more than the limit occur; 2 calls; a drive that fails, faults, is late or never answers |
| `path_walk` | the way is known, `..` is the parent, the names `pwd` shows lead from the root along the way to the current directory | stacks as deep as the tree, a `pwd` that does not fit |
| `nano_edit` | cursor, one edit per key, clean means saved, no loss unasked, cursor keys scroll | 3 lines of 2 characters, 2 rows on the screen, failing saves, a file too long to read; the second character comes from the file |
| `system` | nothing leaks from the loader; the best device is primary; AHCI is found; only a logged error stops the machine; one theme on the screen, but for the rows of the editor's help while it is up; the input is shown where it is typed; every command comes back | 3 machines: IDE, NVMe and AHCI; a device that fills the table; more functions than the PCI table holds. 3 contents of the log's memory. A screen of 8 rows holds the longest text the editor leaves behind, and `help` with its 21 lines passes its bottom; the editor's help covers 3 of the 8 rows, not all of them in a block; an input of 4 is wider than the screen of 3 |

In `fat12_power` a volume that a failure or a power loss has left inconsistent
is not followed further (`Consistent`): the code has no repair and promises
nothing about one. That happens without a power loss too: a directory write
that fails after the chain was freed (`fat12.c:1174-1178`), or that is
reported failed but was done (`fat12.c:1082-1085`), leaves an entry that leads
to free clusters. In `nano_edit` a behaviour is followed until it saves a text
of more than 6 bytes (`SmallFile`); the state after such a save is checked
too.

The other runs are disagreements between the code and what the repository
says of it; each finds a counterexample:

| Run | The repository says | The code does |
|---|---|---|
| `fat12_ok_flushed` | README.md:88: every update is flushed back to disk | a failed flush is dropped and OK returned (`fat12.c:1093`) |
| `fat12_mkdir_adds` | README.md:280: `mkdir` creates new directories | after an I/O error in its search, mkdir replaces what has that name (`fat12.c:1112`) |
| `path_deep` | README.md:18: cd supports `..` | below 16 levels `..` leads elsewhere (`fat12.c:825`) |
| `nano_exit_prompt` | README.md:638: the prompt line displays the input as `[typed_characters]>` | after the editor was left, the shell waits without a prompt, and the next key goes to row 0 over the text of the exit (`nano.c:493`) |
| `nano_large` | README.md:287: 1000 lines of 200 characters; NANO_IMPLEMENTATION.md:77: saving persists changes | the text is cut at 16 KB, reported saved (`nano.c:458`) |

Limits of what the passing runs show. `OkMeansTransferred` leaves aside what
follows a timeout, since the next call may be handed the data of the command
that timed out (`disk.c:120`), and writes that ended with DF, which the driver
does not read after a write (`disk.c:193`). Enter and Backspace do not scroll
and may move the cursor off the screen (`nano.c:385`, `nano.c:416`);
`MovingShowsCursor` is about the keys that do. A character typed into the middle
of a full line drops the line's last one (`nano.c:345`); `OneEdit` leaves that
case out. `TypedShown` leaves out the state that `nano_exit_prompt` finds, and
`OneTheme` the rows of the help while it is up.
`NothingLeaks` allows the image of a GRUB that did not start
(`uefi_loader.c:421`).

Met while modelling, and modelled as it is, without a property: NVMe controllers
are not found, as their programming interface is 2 where the code expects the
class 1 (README.md:55 says they are detected), and AHCI ones are because theirs
is 1. A controller that answers for several functions is listed several times.
The editor's help is drawn black on light cyan whatever the theme
(`nano.c:591`); THEME_IMPLEMENTATION_SUMMARY.md:89 says that all VGA buffer
writes use the colours of the theme. The screen is cleared at its bottom, not
scrolled (`vga_console.c:47`). The prompt is drawn over the editor's first row
when it opens (`main.c:177`). `touch` empties a file that exists
(`commands.c:416`).

Deadlock checking is off where the modelled machine may stop: after a
shutdown without a restart, and when the calls of a behaviour are used up.

### Fairness

`Fat12` and `AtaPio` assume weak fairness of the steps of the call in progress
and of nothing else: the processor executes the code it is in, and every loop
of that code is bounded (the polls of `disk.c:34` and `disk.c:48` by a counter).
Callers need not call, the drive need not answer, power need not fail.
`Kernel` assumes weak fairness of the kernel's own steps, start-up and main loop
(`KernelSteps`), for the same reason: no interrupt and no other program takes
the processor away. The firmware need not answer and no key need be pressed.

## Proofs

All proofs are checked by TLAPS for every value of the constants that the
named assumptions admit (`GeometryAssumption`, `CallerAssumption`,
`NameAssumption`, `SizeAssumption`, `TreeAssumption`, `LimitAssumption`,
`DriveAssumption`, `StorageAssumption`, `ConsoleAssumption`, `ShellAssumption`,
`KernelAssumption`, `NanoAssumption`, `TextsAssumption`, `NamesAssumption`,
`SeedAssumption`). `NameAssumption` says that no name begins with a byte that
marks a slot: `fat12_is_valid_char` (`fat12.c:180`) takes letters, digits, `_`
and `-` only.

### The caches and the flushes (`Fat12Proofs`)

`TypeCorrect`, then `CleanMeansDurable` (`Durable`), `PassedIsWritten`
(`FlushProgress`) and `CompletedFlushMirrors` (`FlushMirrors`). `Durable` is not
inductive: in the middle of a flush nothing says that the sectors passed are on
the disk when the flag is cleared. `FlushProgress` says it, sector by sector and
copy by copy; `TypeOK /\ Durable /\ FlushProgress` (`DurableInv`) is inductive,
also over failed transfers and restarts. It needs no assumption about chains or
directories, so it holds on damaged volumes too.

### The FAT and the directories (`Fat12Proofs`)

`OkIsFlushed` (`OkMeansFlushed`) adds to `DurableInv` that all copies of the FAT
agree with the cache when the dirty flag is clear (`FlushedInv`). It assumes that
no flush fails and that no power cut falls into the flush of the FAT: the code
drops the result of a flush (`fat12_ok_flushed` shows what then happens), and
after a flush that was cut off, the copies differ until the FAT is written again.

`ClustersHaveOneOwner` (`NoCrossLink`), `NothingIsLost` (`AllocatedIffHeld`) and
`ScansAreComplete` (`DirectoriesSound`) rest on one invariant, `VolumeInv`. None
of the three is inductive by itself, nor are the three together: allocation takes
a free cluster to be one nobody holds (`AllocatedIffHeld`), freeing takes a chain
to have one owner (`NoCrossLink`), and an entry is written over the one of the
same name only if the scan saw it (`DirectoriesSound`). `VolumeInv` has the three
as `Sound`, of the caches while a volume is mounted and of the disk while none is,
and `CallInv`, what a call in progress has in its locals: the cluster it allocated
last ends the chain it builds, and the search it made still holds, since the steps
between leave the directory alone.

A chain is what a walk along the FAT reaches. `Induction` and the chain lemmas
(`ChainClosed`, `ChainLeast`) turn that into the least set that is closed under
the links, which is all that is used of it: what linking a cluster to the end of a
chain adds (`ChainLinked`), that a chain nobody touched stays (`ChainSame`). The
same step is taken once more for the tree of directories (`DirectoriesLeast`). The
lemmas on a volume then say what a change does to a `Sound` one: clusters that no
entry holds change (`SoundSame`), one slot changes (`SoundWritten`), a directory
gets a further cluster (`SoundLengthened`). There is one lemma per action above them.

`DiskIsAVolume` (`DiskSound`) is about the disk without the caches. `DiskInv` adds
to `VolumeInv` that what is allocated on the disk is held by an entry in memory
too, so that the clusters a call takes before it writes its entry are free on the
disk. When the flushes are through, the disk is what the caches are.

Conditions. The three theorems on the caches hold whatever mounts, transfers of
data and flushes fail while the machine stays up (`NoPowerCut`), and with power cuts
anywhere outside the flushes when these succeed (`FlushesComplete`). `DiskIsAVolume`
needs the second. All four need the entries of directories outside the root to
reach the disk (`"dir"` is not in `MayFail`). The code gives no more: an entry that
could not be marked leads to clusters that were freed (`fat12.c:1174`), and a cut
between the entry and the FAT leaves an entry that leads to free clusters
(`fat12.c:1093`). `fat12_power` follows the code through those states for what
holds in them.

### The tree of files (`Fat12StoreProofs`)

`CallsTakeEffectOnce` (`ImplementsFileStore`) shows the refinement of `FileStore`:
the one step of a call that marks or writes its entry does what the abstract
operation does to the tree, and all its other steps leave the tree alone. Both
halves need `Sound`: the tree is kept when clusters change that no entry holds
(`TreeKept`) and when a directory grows by an empty cluster (`TreeLengthened`),
and it differs in the one place written when an entry is (`TreeWritten`). The
refinement needs besides what a call has stored so far, position by position along
the chain it builds (`ContentInv`), and that what it returns is what it found in
the tree (`ReplyInv`).

A restart in the middle of a call needs the disk. `BehindInv` says that until the
entry is written the disk holds what the caches hold, but for the cluster a
directory has grown by; from then on every slot on the disk is that of the volume
before or of the one after, and each sector flushed brings the disk nearer to the
second. `OthersAreOnDisk` (`BystandersOnDisk`) is what this says of the files the
call is not about.

`MkdirAddsIfScansSucceed` (`MkdirOnlyAdds`) rests on `KindInv`: while a `mkdir`
looks for a slot, no directory has the name it will write. It holds if no transfer of
a directory fails; without that condition it is false, as `fat12_mkdir_adds` shows.

Conditions. `CallsTakeEffectOnce` holds under those of the three theorems on the
caches, `OthersAreOnDisk` under those of `DiskIsAVolume`.

### The other components

- `FormatsProofs`, the FAT: `EntriesAreIndependent` (`WritesOneEntry`). An entry's
  two bytes decode to the value stored, and of the shared bytes every other entry
  reads only the half that is kept; this is shown per parity of the two
  clusters.
- `FormatsProofs`, the names: `ExactlyGoodTaken` (`TakesExactly83`),
  `ListedNamesResolve` (`ShownNameResolves`) and `NamesDifferInCase`
  (`SameOnlyByCase`), of `NamesSpec`, for every alphabet, every length of the fields
  and of what is typed. `At83(n, b)` says that the text is a good name whose base has
  `b` characters; such a text becomes the field of its base and its extension
  (`GoodIsTaken`), nothing else is taken (`TakenIsGood`; a text longer than the
  buffer it is copied to is refused for its length), and what is shown of that field
  is a good name with the same two parts (`ShownIsGood`).
- `Fat12PathProofs`: `DepthsStayInside` (`TypeOK`) and `CwdIsTheWay`
  (`CwdShowsTheWay`) for trees of any depth, and, for trees no deeper than
  the stack (`DepthFits`), `WayIsKnown` (`KnowsTheWay`) and `UpLeadsToParent`
  (`UpIsParent`). The invariant that carries them adds that the depth of the
  stack is the level of the directory it leads to: with `DepthFits` the guard
  that drops a step is never met. `path_deep` shows that the assumption is needed.
  In deeper trees the stack need not lead to the directory. `CwdInv` says what
  is left: there is a way of the tree from the root to it (`Way`), of which the
  stack holds the beginning (`Recorded`), all of it or as much as there are cells
  for. A step down from a full stack prolongs the way and not the stack
  (`DownRecorded`); a step up goes to a directory on the way, and both end there
  (`UpRecorded`).
- `AtaPioProofs`: `TypesHold` (`TypeOK`), `DriveIsFree` (`DriveFree`),
  `NothingOutside` (`WritesInside`), `OkIsTransferred` (`OkMeansTransferred`) and
  `SectorsCountedOnce` (`CountedOnce`), for every length of transfer and of
  sector counter. `InStep` relates the driver's place in its loop to the state of
  the drive and to the sectors either has left; `Transferred` adds which sectors
  have been moved, by the multi-sector command or by the retry.
- `KernelProofs`, the loader and the start-up: `LoaderLeaksNothing` (`NothingLeaks`) by an invariant that says
  at each place of the loader what it holds (`Holds`). `PrimaryStaysBest`
  (`PrimaryIsBest`), for every bus and every size of the tables, by one that
  says which types the table has when each kind is looked for (`TableInv`): the
  first device registered is then of the best kind there is.
  `StopsOnlyIfLogged` (`FatalOnlyIfLogged`): from the reset of the log on, a
  method of 2 was there with the magic number (`LogInv`). `AhciIsFound`
  (`AhciFound`): `PciInv` says which functions the probe has put into the table,
  `AhciInv` that the controller stays in the table of devices. Its hypothesis
  `OnlyAhciLooksLikeIt` is needed: the code compares the subclass and the
  programming interface (`pci.h:16`), so that a function of another class with
  those of AHCI in front of the controller would be taken for it.
- `KernelProofs`, the screen: `SystemTyped` (`TypeOK`), `ScreenInOneTheme`
  (`OneTheme`) and `InputIsShown` (`TypedShown`), for every size of screen and
  length of input. `Consoles(themes)` are the consoles whose rows have colours of
  `themes` only, with the cursor in a row; every operation of the console maps
  `Consoles({theme})` into itself, the change of theme followed by a clear into
  that of the new one. While the help is up the console is one that was drawn in the
  theme, with `HelpAttr` added in `HelpRows` (`Helped`); the next key draws the
  editor anew. Printing is a fold over tokens (`PrintSteps`). What
  `TypedShown` needs besides is that each reply ends with a line end, so that the
  prompt starts in column 0 (`EndsLine`); together they are `ScreenInv`.
- `NanoProofs`: `EditorTyped` (`TypeOK`) and `MovesAreShown` (`MovingShowsCursor`)
  without further assumption. `EditorInv` adds to the types that the file always
  opens as at least one line, for the cursor to be on: `FileOpened` shows it of
  what is loaded, `FileSaved` of what is saved. `CleanTextIsSaved`
  (`CleanMeansSaved`) and `LossIsAskedFor` (`LossOnlyIfAsked`) hold as long as the
  file does not fill the I/O buffer; when it does, the text was cut, as
  `nano_large` shows. They rest on `SavedOpens`: the loops of `nano_save_file` and
  `nano_init_editor`, byte by byte, are inverse to each other on texts within the
  limits. `EditsInOnePlace` (`OneEdit`) is about the text as one sequence, for every
  limit: `AtCursor` cuts it at the cursor into `Before` and `Behind`, `LineChanged`,
  `LineEndTaken` and `LineEndPutIn` say what replacing, joining and splitting
  lines does to it (the text of rows put together is their texts put together,
  `TextOfBoth`), and each handler then puts in (`PutBetween`) or takes out
  (`TakenBetween`) a part between two others. A tab at the end of an almost full
  line puts in as many spaces as fit (`InsertPutsIn`).

An induction over data is not available to the provers. Where a model is a fold
(printing, loading, saving), `FoldExists` and `FoldCourse` of `Induction` turn
it into the course of its intermediate results, a function on 0..n with a fact for
each step, and `NumbersUpTo` carries a fact along that course.

Model-checked only: liveness (`CallsReturn`, `BackToPrompt`), which is out of the
prover's reach.

## Not modelled

- The BIOS boot sector and stage 2. `boot.asm:58` asks for sector 1, and CHS
  sectors count from 1: the boot sector reads itself again and starts over, so
  nothing behind it is reached. Stage 2 has more of the kind (it stores over
  the log's magic number, `stage2.asm:35`). The machines of the model are started
  through GRUB.
- The 64-bit stub, which prints a line and halts, and `kernel.c.old`, which is
  not built.
- The string library: small pure functions, whose effect is part of the models
  of their callers.
- The rendering of the editor and the scancode table, of which a step of `Nano`
  and `Shell` keeps the effect on cursor, viewport and colours, the help's among them.
- AHCI and NVMe transfers, which the code does not implement.

## Plan

Done: all components above, their runs, and the proof modules. Nothing that the
passing runs check is left to prove but liveness.
