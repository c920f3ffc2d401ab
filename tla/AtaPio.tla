------------------------------- MODULE AtaPio -------------------------------
(***************************************************************************)
(* The ATA PIO driver (disk.c) and the drive it polls.                      *)
(*                                                                         *)
(* The drive (dev) is not part of the repository: it is modelled from what  *)
(* disk.c expects of its status register.  It works on its own while the    *)
(* driver polls, so its steps interleave with the driver's.  A wait ends    *)
(* when the status allows it, or after 10000 polls that all saw the drive   *)
(* busy: a timeout, possible when the drive may be "late".                  *)
(*                                                                         *)
(* A sector's 512 bytes are a value.  A drive number, a register or a word  *)
(* loop takes no step of its own.                                           *)
(***************************************************************************)
EXTENDS Integers

CONSTANTS
    SectorCount,    \* sectors on the drive
    Values,         \* what a sector may hold
    Blank,          \* the value of a sector of zeroes
    CountLimit,     \* 256: the sectors of one command, and the count's width
    MaxCount,       \* the longest transfer a caller asks for
    MaxCalls,       \* calls in a behaviour
    DriveMay        \* what the drive may do besides its work

Misbehaviour ==
    {"error",       \* end a command with ERR
     "fault",       \* end a write with DF set and ERR clear, nothing written
     "late",        \* stay busy longer than the driver polls
     "not_ready"}   \* report DRDY clear

ASSUME DriveAssumption ==
    /\ SectorCount \in Nat \ {0}
    /\ Blank \in Values
    /\ CountLimit \in Nat \ {0}
    /\ MaxCount \in Nat
    /\ MaxCalls \in Nat
    /\ DriveMay \subseteq Misbehaviour

Sectors == 0..(SectorCount - 1)

VARIABLES
    disk,   \* the sectors
    dev,    \* the drive: status, and the command it executes
    pc,     \* where the driver is
    call,   \* the call in progress or last made, and its locals
    buf,    \* the caller's buffer, sector by sector
    ret,    \* what the call returned
    stats,  \* the performance counters
    calls,  \* calls made so far
    slow,   \* history: a wait has timed out on a busy drive
    faulty  \* history: a write has ended with DF

history == <<slow, faulty>>
driver == <<pc, call, buf, ret, stats, calls>>
vars == <<disk, dev, driver, history>>

Indices == 0..(MaxCount - 1)
Buffers == [Indices -> Values]
Kinds == {"none", "init", "self_test", "read", "write"}
Commands == {"none", "identify", "read", "write", "read_multi", "write_multi"}
Status == {"ready", "busy", "drq", "err"}
Running == 1

\* got: a sector to be written has reached the drive's buffer.
Drive(st, cmd, lba, left, got, data) ==
    [st |-> st, cmd |-> cmd, lba |-> lba, left |-> left, got |-> got, data |-> data]
Writes(cmd) == cmd \in {"write", "write_multi"}

NoCall == [kind |-> "none", lba |-> 0, n |-> 0, i |-> 0, multi |-> FALSE, before |-> 0]

Init ==
    /\ disk \in [Sectors -> Values]
    /\ dev = Drive("ready", "none", 0, 0, FALSE, Blank)
    /\ pc = "idle"
    /\ call = NoCall
    /\ buf = [j \in Indices |-> Blank]
    /\ ret = 0
    /\ stats = [read |-> 0, write |-> 0, read_multi |-> 0, write_multi |-> 0,
                read_sectors |-> 0, write_sectors |-> 0]
    /\ calls = 0
    /\ slow = FALSE
    /\ faulty = FALSE

-----------------------------------------------------------------------------
(* The drive *)

\* A command written to the command register.  A drive that still wants to
\* transfer data may ignore it, or drop what it was doing.  A count of zero
\* stands for CountLimit.
Accepts(cmd, lba, n) ==
    LET count == IF n % CountLimit = 0 THEN CountLimit ELSE n % CountLimit IN
    \/ dev' = Drive("busy", cmd, lba, count, FALSE, Blank)
    \/ dev.st = "drq" /\ UNCHANGED dev

Fails == dev' = Drive("err", "none", 0, 0, FALSE, Blank)

\* The drive stops being busy.
DriveSteps ==
    /\ dev.st = "busy"
    /\ \/ /\ dev.cmd = "identify" \/ dev.lba \in Sectors
          /\ \/ /\ ~Writes(dev.cmd)
                /\ dev' = [dev EXCEPT !.st = "drq",
                              !.data = IF dev.cmd = "identify" THEN Blank ELSE disk[dev.lba]]
                /\ UNCHANGED disk
             \/ /\ Writes(dev.cmd) /\ ~dev.got
                /\ dev' = [dev EXCEPT !.st = "drq"]
                /\ UNCHANGED disk
             \/ /\ Writes(dev.cmd) /\ dev.got
                /\ disk' = [disk EXCEPT ![dev.lba] = dev.data]
                /\ dev' = IF dev.left = 1 THEN Drive("ready", "none", 0, 0, FALSE, Blank)
                          ELSE Drive("drq", dev.cmd, dev.lba + 1, dev.left - 1, FALSE, Blank)
          /\ UNCHANGED faulty
       \/ /\ "error" \in DriveMay \/ (dev.cmd # "identify" /\ dev.lba \notin Sectors)
          /\ Fails
          /\ UNCHANGED <<disk, faulty>>
       \/ /\ "fault" \in DriveMay /\ Writes(dev.cmd) /\ dev.got
          /\ dev' = Drive("ready", "none", 0, 0, FALSE, Blank)
          /\ faulty' = TRUE
          /\ UNCHANGED disk
    /\ UNCHANGED <<driver, slow>>

\* The driver has read, or written, the words of one sector.
DataRead ==
    dev' = IF dev.left = 1 THEN Drive("ready", "none", 0, 0, FALSE, Blank)
           ELSE Drive("busy", dev.cmd, dev.lba + 1, dev.left - 1, FALSE, Blank)
DataWritten(v) == dev' = [dev EXCEPT !.st = "busy", !.got = TRUE, !.data = v]

-----------------------------------------------------------------------------
(* The driver *)

Reading == call.kind \in {"read", "self_test"}
Sent == IF call.multi THEN call.n ELSE 1
\* Faulty: one sector too few.
MoreSectorsShort == call.i + 2 < call.n
MoreSectors == call.i + 1 < call.n
\* Faulty: backwards from the first sector.
LbaBackwards == IF call.multi THEN call.lba ELSE call.lba - call.i
Lba == IF call.multi THEN call.lba ELSE call.lba + call.i
\* Faulty: the buffer is not advanced.
FirstSectorBuffer == buf[0]
SectorBuffer == buf[call.i]
\* Faulty: a command counts as one sector.
CountedCommands(kind, multi, n) ==
    [stats EXCEPT ![kind] = @ + 1,
                  ![IF kind = "read" THEN "read_sectors" ELSE "write_sectors"] = @ + 1]
Counted(kind, multi, n) ==
    [stats EXCEPT ![kind] = @ + 1,
                  ![IF kind = "read" THEN "read_multi" ELSE "write_multi"] =
                      @ + (IF multi THEN 1 ELSE 0),
                  ![IF kind = "read" THEN "read_sectors" ELSE "write_sectors"] = @ + n]

Return(code) == pc' = "idle" /\ ret' = code

\* disk_init, disk_self_test, disk_read_sectors, disk_write_sectors; a
\* transfer of one sector is disk_read_sector or disk_write_sector.
Begin(kind, lba, n) ==
    /\ pc = "idle"
    /\ calls < MaxCalls
    /\ calls' = calls + 1
    /\ call' = [kind |-> kind, lba |-> lba, n |-> n, i |-> 0,
                multi |-> kind \in {"read", "write"} /\ n > 1 /\ n <= CountLimit,
                before |-> IF kind = "write" THEN stats.write_sectors ELSE stats.read_sectors]
    /\ IF kind = "write" THEN buf' \in Buffers ELSE UNCHANGED buf
    /\ IF n = 0 THEN Return(-1) ELSE pc' = "bsy" /\ ret' = Running
    /\ UNCHANGED <<disk, dev, stats, history>>

\* A wait that ends with the drive busy has timed out.
Waited == slow' = (slow \/ dev.st = "busy") /\ UNCHANGED faulty

\* A multi-sector transfer that fails is tried again sector by sector.
Failed(code) ==
    /\ IF call.multi
       THEN /\ call' = [call EXCEPT !.multi = FALSE, !.i = 0]
            /\ pc' = "bsy"
            /\ UNCHANGED ret
       ELSE Return(code) /\ UNCHANGED call
    /\ UNCHANGED <<buf, stats, calls>>

\* One command has transferred its sectors.  disk_self_test refuses a first
\* sector of zeroes.
Succeeded(b) ==
    /\ stats' = IF call.kind = "init" THEN stats
                ELSE Counted(IF Reading THEN "read" ELSE "write", call.multi, Sent)
    /\ IF ~call.multi /\ MoreSectors
       THEN call' = [call EXCEPT !.i = call.i + 1] /\ pc' = "bsy" /\ UNCHANGED ret
       ELSE /\ Return(IF call.kind = "self_test" /\ b[0] = Blank THEN -1 ELSE 0)
            /\ UNCHANGED call
    /\ UNCHANGED calls

\* wait_for_bsy, then the registers and the command.
SendCommand ==
    /\ pc = "bsy"
    /\ dev.st # "busy"
    /\ \/ /\ call.kind = "init"
          /\ \/ /\ "not_ready" \in DriveMay   \* before IDENTIFY, or after it
                /\ \E code \in {-2, -3} : Failed(code)
                /\ UNCHANGED dev
             \/ /\ Accepts("identify", 0, 1)
                /\ pc' = "drq"
                /\ UNCHANGED <<call, buf, ret, stats, calls>>
       \/ /\ call.kind # "init"
          /\ Accepts(IF call.multi THEN IF Reading THEN "read_multi" ELSE "write_multi"
                     ELSE IF Reading THEN "read" ELSE "write", Lba, Sent)
          /\ pc' = "drq"
          /\ UNCHANGED <<call, buf, ret, stats, calls>>
    /\ UNCHANGED <<disk, history>>

BusyTimeout ==
    /\ pc = "bsy"
    /\ dev.st = "busy"
    /\ "late" \in DriveMay
    /\ Failed(IF call.kind = "init" THEN -1 ELSE -2)
    /\ Waited
    /\ UNCHANGED <<disk, dev>>

\* wait_for_drq, and the words of one sector.
Transfer ==
    /\ pc = "drq"
    /\ dev.st = "drq"
    /\ IF call.kind = "write"
       THEN /\ DataWritten(SectorBuffer)
            /\ IF call.multi /\ MoreSectors
               THEN call' = [call EXCEPT !.i = call.i + 1] /\ UNCHANGED pc
               ELSE pc' = "written" /\ UNCHANGED call
            /\ UNCHANGED <<buf, ret, stats, calls>>
       ELSE /\ DataRead
            /\ buf' = IF call.kind = "init" THEN buf ELSE [buf EXCEPT ![call.i] = dev.data]
            /\ IF call.multi /\ MoreSectors
               THEN call' = [call EXCEPT !.i = call.i + 1] /\ UNCHANGED <<pc, ret, stats, calls>>
               ELSE Succeeded(buf')
    /\ UNCHANGED <<disk, history>>

\* Faulty: nothing but an error ends the wait.
NoTransferPolls ==
    /\ pc = "drq"
    /\ dev.st = "err"
    /\ Failed(IF call.kind = "init" THEN -4 ELSE -3)
    /\ Waited
    /\ UNCHANGED <<disk, dev>>

NoTransfer ==
    /\ pc = "drq"
    /\ dev.st \in {"err", "ready"} \/ (dev.st = "busy" /\ "late" \in DriveMay)
    /\ Failed(IF call.kind = "init" THEN -4 ELSE -3)
    /\ Waited
    /\ UNCHANGED <<disk, dev>>

\* Faulty: ERR is not checked.
WriteDoneUnchecked ==
    /\ pc = "written"
    /\ \/ dev.st = "busy" /\ "late" \in DriveMay /\ Failed(-4)
       \/ dev.st # "busy" /\ Succeeded(buf) /\ UNCHANGED buf
    /\ Waited
    /\ UNCHANGED <<disk, dev>>

\* The wait that ends a write, and its check of ERR.
WriteDone ==
    /\ pc = "written"
    /\ \/ dev.st = "busy" /\ "late" \in DriveMay /\ Failed(-4)
       \/ dev.st = "err" /\ Failed(-5)
       \/ dev.st \in {"ready", "drq"} /\ Succeeded(buf) /\ UNCHANGED buf
    /\ Waited
    /\ UNCHANGED <<disk, dev>>

DriverSteps == SendCommand \/ BusyTimeout \/ Transfer \/ NoTransfer \/ WriteDone

\* disk_reset_stats.
ResetStats ==
    /\ pc = "idle"
    /\ stats' = [f \in DOMAIN stats |-> 0]
    /\ UNCHANGED <<disk, dev, pc, call, buf, ret, calls, history>>

Next ==
    \/ DriveSteps \/ DriverSteps \/ ResetStats
    \/ Begin("init", 0, 1) \/ Begin("self_test", 0, 1)
    \/ \E kind \in {"read", "write"}, lba \in Sectors, n \in 0..MaxCount : Begin(kind, lba, n)

Spec == Init /\ [][Next]_vars
\* The processor keeps executing the driver.  The drive owes nothing.
FairSpec == Spec /\ WF_vars(DriverSteps)

-----------------------------------------------------------------------------
\* Types of the driver's and the drive's state.
TypeOK ==
    /\ disk \in [Sectors -> Values]
    /\ dev \in [st : Status, cmd : Commands, lba : Nat, left : Nat, got : BOOLEAN, data : Values]
    /\ pc \in {"idle", "bsy", "drq", "written"}
    /\ call \in [kind : Kinds, lba : Nat, n : Nat, i : Nat, multi : BOOLEAN, before : Nat]
    /\ buf \in Buffers
    /\ ret \in -5..Running
    /\ stats \in [{"read", "write", "read_multi", "write_multi", "read_sectors", "write_sectors"} -> Nat]
    /\ calls \in 0..MaxCalls
    /\ slow \in BOOLEAN /\ faulty \in BOOLEAN

Finished == pc = "idle" /\ ret = 0 /\ call.n > 0

\* A transfer that returned 0 moved every sector it was asked for: the buffer
\* and the disk agree, also when a multi-sector command failed half way and
\* the transfer was done again sector by sector (disk_read_sectors,
\* disk_write_sectors; disk.c:148 and disk.c:199: "return 0;  /* Success */").
\* The drive has answered in time and reported its failures with ERR.
OkMeansTransferred ==
    Finished /\ ~slow /\ ~faulty /\ call.kind \in {"read", "write"} =>
        \A j \in 0..(call.n - 1) : disk[call.lba + j] = buf[j]

\* Whatever a write returns, it changed no sector but those it was given, and
\* those only to what they were to hold.  (A drive that was given up on may
\* still write after the call.)
WritesInside ==
    [][~slow => \A s \in Sectors : disk'[s] # disk[s] =>
          /\ pc # "idle" /\ call.kind = "write"
          /\ s - call.lba \in 0..(call.n - 1)
          /\ disk'[s] = buf[s - call.lba]]_vars

\* A call that returned left the drive without a command: it answers the next
\* one, and not the last.  (Not so after a wait that timed out.)
DriveFree == pc = "idle" /\ ~slow => dev.st \in {"ready", "err"}

\* The sector counters advance by the length of each transfer that succeeds,
\* once, whether it took one command or as many as sectors (disk_get_stats).
CountedOnce ==
    [][pc # "idle" /\ pc' = "idle" /\ ret' = 0 /\ call.kind \in {"read", "write"} =>
          call.before + call.n =
              IF call.kind = "write" THEN stats'.write_sectors ELSE stats'.read_sectors]_vars

\* Every call returns, even when the drive stays busy for ever.
CallsReturn == pc # "idle" ~> pc = "idle"
=============================================================================
