---------------------------- MODULE AtaPioProofs ----------------------------
(***************************************************************************)
(* What AtaPio claims of the ATA PIO driver, for drives of every size and   *)
(* for transfers of every length.                                           *)
(***************************************************************************)
EXTENDS AtaPio, TLAPS

\* Between two steps of a call: its sector is one of those asked for, and a
\* multi-sector command starts at the first.
InCall ==
    pc # "idle" =>
          /\ call.kind # "none" /\ call.i < call.n
          /\ call.kind \in {"init", "self_test"} => call.n = 1
          /\ call.kind \in {"read", "write"} => call.n <= MaxCount
          /\ call.multi => call.kind \in {"read", "write"} /\ call.n <= CountLimit
          /\ pc = "bsy" /\ call.multi => call.i = 0

\* A drive that works on a command has sectors left.
SectorsLeft == dev.st \in {"busy", "drq"} => dev.left >= 1

TypeInv == TypeOK /\ InCall /\ SectorsLeft

Working == dev.st \in {"busy", "drq"}
Command ==
    IF call.kind = "init" THEN "identify"
    ELSE IF call.multi THEN IF Reading THEN "read_multi" ELSE "write_multi"
    ELSE IF Reading THEN "read" ELSE "write"

\* The drive is about to move the sector the driver waits for.
AtSector ==
    /\ pc = "drq" /\ ~dev.got
    /\ call.kind # "init" => dev.lba = call.lba + call.i
    /\ dev.left = IF call.multi THEN call.n - call.i ELSE 1
    /\ dev.st = "drq" /\ Reading => dev.lba \in Sectors
\* It has taken the sector before that one, which it still has to write.
OneBehind ==
    /\ pc = "drq" /\ dev.got /\ dev.st = "busy"
    /\ call.kind = "write" /\ call.multi /\ call.i >= 1
    /\ dev.lba = call.lba + call.i - 1
    /\ dev.left = call.n - call.i + 1
    /\ dev.data = buf[call.i - 1]
\* It has taken the last one.
AtLast ==
    /\ pc = "written" /\ dev.got /\ dev.st = "busy"
    /\ dev.lba = call.lba + call.i /\ dev.left = 1
    /\ dev.data = buf[call.i]

\* Unless a wait has timed out, driver and drive are at the same place of the
\* same command.
InStep ==
    ~slow =>
        /\ pc \in {"idle", "bsy"} => ~Working
        /\ pc = "written" => call.kind = "write" /\ (call.multi => call.i + 1 = call.n)
        /\ Working => dev.cmd = Command /\ (AtSector \/ OneBehind \/ AtLast)

\* So many sectors have been moved.
Moved ==
    IF pc = "bsy" \/ Reading THEN call.i
    ELSE IF pc = "drq" THEN IF ~Working THEN 0 ELSE IF dev.got THEN call.i - 1 ELSE call.i
    ELSE IF dev.st = "busy" THEN call.i ELSE IF dev.st = "ready" THEN call.i + 1 ELSE 0

Agrees(j) == call.lba + j \in Sectors /\ disk[call.lba + j] = buf[j]

\* What was moved is the same on both sides, now and when the call returns.
Transferred ==
    ~slow /\ ~faulty /\ call.kind \in {"read", "write"} =>
        /\ pc # "idle" => \A j \in 0..(Moved - 1) : Agrees(j)
        /\ Finished => \A j \in 0..(call.n - 1) : Agrees(j)
        /\ pc = "drq" /\ dev.st = "drq" /\ Reading => dev.data = disk[dev.lba]

\* What the counters have counted of the call in progress.
SectorsCounted ==
    pc # "idle" /\ call.kind \in {"read", "write"} =>
        call.before + (IF call.multi THEN 0 ELSE call.i) =
            IF call.kind = "write" THEN stats.write_sectors ELSE stats.read_sectors

-----------------------------------------------------------------------------
\* A count that fits the sector count register arrives as it was sent.
LEMMA CountArrives ==
    ASSUME NEW n \in Nat
    PROVE  LET count == IF n % CountLimit = 0 THEN CountLimit ELSE n % CountLimit
           IN /\ count \in Nat /\ count >= 1
              /\ n >= 1 /\ n <= CountLimit => count = n
<1>1. CountLimit \in Nat /\ CountLimit > 0
  BY DriveAssumption
<1>2. n % CountLimit \in 0..(CountLimit - 1)
  BY <1>1
<1>3. n < CountLimit => n % CountLimit = n
  BY <1>1
<1>4. CountLimit % CountLimit = 0
  BY <1>1
<1> QED BY <1>1, <1>2, <1>3, <1>4

LEMMA AcceptsType ==
    ASSUME TypeInv, NEW cmd \in Commands, NEW lba \in Nat, NEW n \in Nat, Accepts(cmd, lba, n)
    PROVE  /\ dev' \in [st : Status, cmd : Commands, lba : Nat, left : Nat, got : BOOLEAN, data : Values]
           /\ dev'.left >= 1 /\ dev'.st \in {"busy", "drq"}
<1>1. CASE UNCHANGED dev /\ dev.st = "drq"
  BY <1>1 DEF TypeInv, TypeOK, SectorsLeft
<1>2. CASE dev' = Drive("busy", cmd, lba,
               IF n % CountLimit = 0 THEN CountLimit ELSE n % CountLimit, FALSE, Blank)
  BY <1>2, CountArrives, DriveAssumption DEF Drive, Status
<1> QED BY <1>1, <1>2 DEF Accepts

CounterNames == {"read", "write", "read_multi", "write_multi", "read_sectors", "write_sectors"}
CallType == [kind : Kinds, lba : Nat, n : Nat, i : Nat, multi : BOOLEAN, before : Nat]
DevType == [st : Status, cmd : Commands, lba : Nat, left : Nat, got : BOOLEAN, data : Values]

LEMMA DriveTyped ==
    ASSUME NEW st \in Status, NEW cmd \in Commands, NEW lba \in Nat, NEW left \in Nat
    PROVE  /\ Drive(st, cmd, lba, left, FALSE, Blank) \in DevType
           /\ Drive(st, cmd, lba, left, FALSE, Blank).st = st
           /\ Drive(st, cmd, lba, left, FALSE, Blank).left = left
  BY DriveAssumption DEF Drive, DevType

LEMMA NoCommandTyped ==
    ASSUME NEW st \in {"ready", "err"}
    PROVE  Drive(st, "none", 0, 0, FALSE, Blank) \in DevType
  BY DriveTyped DEF Status, Commands

\* The drive goes on to the next sector of its command, or has none left.
LEMMA NextSectorTyped ==
    ASSUME TypeInv, NEW st \in {"busy", "drq"}, dev.st \in {"busy", "drq"},
           dev' = IF dev.left = 1 THEN Drive("ready", "none", 0, 0, FALSE, Blank)
                  ELSE Drive(st, dev.cmd, dev.lba + 1, dev.left - 1, FALSE, Blank)
    PROVE  dev' \in DevType /\ SectorsLeft'
<1>1. dev.left \in Nat /\ dev.left >= 1 /\ dev.lba + 1 \in Nat /\ dev.cmd \in Commands /\ st \in Status
  BY DEF TypeInv, TypeOK, SectorsLeft, Status
<1>2. CASE dev.left = 1
  <2>1. dev' = Drive("ready", "none", 0, 0, FALSE, Blank)
    BY <1>2
  <2>2. dev' \in DevType
    BY <2>1, NoCommandTyped
  <2>3. dev'.st = "ready"
    BY <2>1 DEF Drive
  <2> QED BY <2>2, <2>3 DEF SectorsLeft
<1>3. CASE dev.left # 1
  <2>1. dev' = Drive(st, dev.cmd, dev.lba + 1, dev.left - 1, FALSE, Blank)
    BY <1>3
  <2>2. dev.left - 1 \in Nat /\ dev.left - 1 >= 1
    BY <1>1, <1>3
  <2>3. Drive(st, dev.cmd, dev.lba + 1, dev.left - 1, FALSE, Blank) \in DevType
    BY <1>1, <2>2, DriveTyped
  <2>4. dev'.left = dev.left - 1
    BY <2>1 DEF Drive
  <2> QED BY <2>1, <2>2, <2>3, <2>4 DEF SectorsLeft
<1> QED BY <1>2, <1>3

LEMMA InitType == Init => TypeInv
<1> SUFFICES ASSUME Init PROVE TypeInv
  OBVIOUS
<1>1. stats \in [CounterNames -> Nat]
  BY DEF Init, CounterNames
<1>2. dev \in DevType
  BY DriveAssumption DEF Init, DevType, Drive, Status, Commands
<1>3. call \in CallType
  BY DEF Init, CallType, NoCall, Kinds
<1>4. buf \in Buffers /\ calls \in 0..MaxCalls
  BY DriveAssumption DEF Init, Buffers
<1>5. slow \in BOOLEAN /\ faulty \in BOOLEAN
  BY Zenon DEF Init
<1>6. ret \in -5..Running /\ pc = "idle" /\ disk \in [Sectors -> Values]
  BY DEF Init, Running
<1>7. TypeOK
  BY <1>1, <1>2, <1>3, <1>4, <1>5, <1>6 DEF TypeOK, CounterNames, CallType, DevType
<1> QED BY <1>6, <1>7 DEF Init, TypeInv, InCall, SectorsLeft, Drive

LEMMA BeginType ==
    ASSUME TypeInv, NEW kind \in {"init", "self_test", "read", "write"},
           NEW lba \in Nat, NEW n \in Nat, n <= MaxCount \/ n = 1,
           kind \in {"init", "self_test"} => n = 1, kind \in {"read", "write"} => n <= MaxCount,
           Begin(kind, lba, n)
    PROVE  TypeInv'
<1>1. call' \in CallType
  BY DEF TypeInv, TypeOK, Begin, Kinds, CallType
<1>2. buf' \in Buffers /\ calls' \in 0..MaxCalls
  BY DriveAssumption DEF TypeInv, TypeOK, Begin
<1>3. ret' \in -5..Running /\ pc' \in {"idle", "bsy", "drq", "written"}
  BY DEF TypeInv, TypeOK, Begin, Return, Running
<1>4. slow' = slow /\ faulty' = faulty /\ UNCHANGED <<disk, dev, stats>>
  BY DEF Begin, history
<1>5. TypeOK'
  BY <1>1, <1>2, <1>3, <1>4 DEF TypeInv, TypeOK, CallType
<1>6. InCall'
  <2>1. CASE n = 0
    BY <2>1 DEF InCall, Begin, Return
  <2>2. CASE n # 0
    <3>1. call'.kind = kind /\ call'.n = n /\ call'.i = 0 /\ pc' = "bsy"
      BY <2>2 DEF Begin
    <3>2. call'.multi => kind \in {"read", "write"} /\ n <= CountLimit
      BY DEF Begin
    <3> QED BY <2>2, <3>1, <3>2 DEF InCall
  <2> QED BY <2>1, <2>2
<1> QED BY <1>4, <1>5, <1>6 DEF TypeInv, SectorsLeft

LEMMA FailedType ==
    ASSUME TypeInv, NEW code \in -5..Running, pc # "idle", Failed(code)
    PROVE  /\ call' \in CallType
           /\ pc' \in {"idle", "bsy"} /\ ret' \in -5..Running
           /\ InCall'
<1>1. CASE call.multi
  <2>0. call' = [call EXCEPT !.multi = FALSE, !.i = 0] /\ call \in CallType
    BY <1>1 DEF TypeInv, TypeOK, Failed, CallType
  <2>1. call' \in CallType
    BY <2>0 DEF CallType
  <2>2. call.i < call.n /\ 0 < call.n
    BY DEF TypeInv, TypeOK, InCall
  <2>3. call'.kind = call.kind /\ call'.n = call.n /\ call'.i = 0 /\ ~call'.multi
    BY <1>1 DEF TypeInv, TypeOK, Failed
  <2> QED BY <1>1, <2>1, <2>2, <2>3 DEF TypeInv, TypeOK, Failed, InCall
<1>2. CASE ~call.multi
  BY <1>2 DEF TypeInv, TypeOK, InCall, Failed, Return, CallType
<1> QED BY <1>1, <1>2 DEF TypeInv, TypeOK

LEMMA SucceededType ==
    ASSUME TypeInv, NEW b, pc # "idle", Succeeded(b)
    PROVE  /\ call' \in CallType
           /\ pc' \in {"idle", "bsy"} /\ ret' \in -5..Running
           /\ stats' \in [CounterNames -> Nat]
           /\ InCall'
<1>1. stats' \in [CounterNames -> Nat]
  BY DEF TypeInv, TypeOK, Succeeded, Counted, Sent, CounterNames
<1>2. CASE ~call.multi /\ MoreSectors
  <2>1. call' = [call EXCEPT !.i = call.i + 1] /\ pc' = "bsy" /\ ret' = ret
    BY <1>2 DEF Succeeded
  <2>2. call' \in CallType /\ call'.kind = call.kind /\ call'.n = call.n
        /\ call'.i = call.i + 1 /\ call'.multi = call.multi
    BY <2>1 DEF TypeInv, TypeOK, CallType
  <2> QED BY <1>1, <1>2, <2>1, <2>2 DEF TypeInv, TypeOK, InCall, MoreSectors
<1>3. CASE ~(~call.multi /\ MoreSectors)
  <2>1. pc' = "idle" /\ ret' \in {-1, 0} /\ call' = call
    BY <1>3 DEF Succeeded, Return
  <2> QED BY <1>1, <2>1 DEF TypeInv, TypeOK, InCall, CallType, Running
<1> QED BY <1>2, <1>3

LEMMA DriveStepsType == ASSUME TypeInv, DriveSteps PROVE TypeInv'
<1>1. dev' \in DevType /\ disk' \in [Sectors -> Values] /\ SectorsLeft'
  <2>1. CASE UNCHANGED disk /\ dev' = [dev EXCEPT !.st = "drq",
                  !.data = IF dev.cmd = "identify" THEN Blank ELSE disk[dev.lba]]
              /\ (dev.cmd = "identify" \/ dev.lba \in Sectors)
    <3>1. (IF dev.cmd = "identify" THEN Blank ELSE disk[dev.lba]) \in Values
      BY <2>1, DriveAssumption DEF TypeInv, TypeOK
    <3> QED BY <2>1, <3>1 DEF TypeInv, TypeOK, DevType, Status, SectorsLeft, DriveSteps
  <2>2. CASE UNCHANGED disk /\ dev' = [dev EXCEPT !.st = "drq"]
    BY <2>2 DEF TypeInv, TypeOK, DevType, Status, SectorsLeft, DriveSteps
  <2>3. CASE disk' = [disk EXCEPT ![dev.lba] = dev.data]
             /\ dev' = IF dev.left = 1 THEN Drive("ready", "none", 0, 0, FALSE, Blank)
                       ELSE Drive("drq", dev.cmd, dev.lba + 1, dev.left - 1, FALSE, Blank)
    <3>1. dev' \in DevType /\ SectorsLeft'
      BY <2>3, NextSectorTyped DEF DriveSteps
    <3>2. disk' \in [Sectors -> Values]
      BY <2>3 DEF TypeInv, TypeOK
    <3> QED BY <3>1, <3>2
  <2>4. CASE UNCHANGED disk /\ dev'.st \in {"err", "ready"} /\ dev' \in DevType
    BY <2>4 DEF TypeInv, TypeOK, SectorsLeft
  <2>5. Fails \/ dev' = Drive("ready", "none", 0, 0, FALSE, Blank)
        => dev'.st \in {"err", "ready"} /\ dev' \in DevType
    <3>1. CASE Fails
      BY <3>1, NoCommandTyped DEF Fails, Drive
    <3>2. CASE dev' = Drive("ready", "none", 0, 0, FALSE, Blank)
      BY <3>2, NoCommandTyped DEF Drive
    <3> QED BY <3>1, <3>2
  <2> QED BY <2>1, <2>2, <2>3, <2>4, <2>5 DEF DriveSteps
<1>2. slow' = slow /\ UNCHANGED driver
  BY DEF DriveSteps
<1>3. faulty' \in BOOLEAN
  BY Zenon DEF DriveSteps, TypeInv, TypeOK
<1>4. TypeOK' /\ InCall'
  BY <1>1, <1>2, <1>3 DEF TypeInv, TypeOK, DevType, driver, InCall
<1> QED BY <1>1, <1>4 DEF TypeInv

\* What is left to show of a step of the driver.
LEMMA DriverType ==
    ASSUME TypeInv, InCall', SectorsLeft', dev' \in DevType, call' \in CallType,
           buf' \in Buffers, ret' \in -5..Running, stats' \in [CounterNames -> Nat],
           pc' \in {"idle", "bsy", "drq", "written"}, slow' \in BOOLEAN,
           UNCHANGED <<disk, calls, faulty>>
    PROVE  TypeInv'
  BY DEF TypeInv, TypeOK, DevType, CallType, CounterNames

LEMMA Typed ==
    ASSUME TypeInv
    PROVE  /\ dev \in DevType /\ call \in CallType /\ buf \in Buffers /\ ret \in -5..Running
           /\ stats \in [CounterNames -> Nat] /\ pc \in {"idle", "bsy", "drq", "written"}
  BY DEF TypeInv, TypeOK, DevType, CallType, CounterNames

LEMMA WaitedType == ASSUME TypeInv, Waited PROVE slow' \in BOOLEAN /\ faulty' = faulty
  BY Zenon DEF Waited, TypeInv, TypeOK

LEMMA SlowType == ASSUME TypeInv, UNCHANGED history PROVE slow' \in BOOLEAN /\ faulty' = faulty
  BY Zenon DEF history, TypeInv, TypeOK

LEMMA SendCommandType == ASSUME TypeInv, SendCommand PROVE TypeInv'
<1> USE Typed, SlowType
<1>1. CASE \E code \in {-2, -3} : Failed(code) /\ UNCHANGED dev
  <2>1. PICK code \in {-2, -3} : Failed(code) /\ UNCHANGED dev
    BY <1>1
  <2>2. code \in -5..Running /\ pc # "idle" /\ UNCHANGED <<disk, history>>
    BY DEF Running, SendCommand
  <2>3. SectorsLeft'
    BY <2>1 DEF TypeInv, SectorsLeft
  <2> QED BY <2>1, <2>2, <2>3, FailedType, DriverType DEF Failed
<1>2. CASE /\ \E cmd \in Commands, lba \in Nat, n \in Nat : Accepts(cmd, lba, n)
           /\ pc' = "drq" /\ UNCHANGED <<call, buf, ret, stats, calls>>
  <2>1. dev' \in DevType /\ SectorsLeft'
    BY <1>2, AcceptsType DEF DevType, SectorsLeft
  <2>2. InCall'
    BY <1>2 DEF TypeInv, InCall, SendCommand
  <2> QED BY <1>2, <2>1, <2>2, DriverType DEF SendCommand
<1>3. "identify" \in Commands /\ 0 \in Nat /\ 1 \in Nat
  BY DEF Commands
<1>4. (IF call.multi THEN IF Reading THEN "read_multi" ELSE "write_multi"
       ELSE IF Reading THEN "read" ELSE "write") \in Commands
  BY DEF Commands
<1>5. Lba \in Nat /\ Sent \in Nat
  BY DEF Lba, Sent, CallType
<1> QED BY <1>1, <1>2, <1>3, <1>4, <1>5 DEF SendCommand

LEMMA GivenUpType ==
    ASSUME TypeInv, NEW code \in -5..Running, pc # "idle", Failed(code), Waited, UNCHANGED <<disk, dev>>
    PROVE  TypeInv'
<1>1. SectorsLeft'
  BY DEF TypeInv, SectorsLeft
<1> QED BY <1>1, Typed, WaitedType, FailedType, DriverType DEF Failed

LEMMA TransferType == ASSUME TypeInv, Transfer PROVE TypeInv'
<1> USE Typed
<1>1. pc = "drq" /\ dev.st = "drq" /\ UNCHANGED <<disk, history>> /\ calls' = calls
  BY DEF Transfer, Succeeded
<1>2. call.i < call.n /\ call.i \in Nat /\ call.n \in Nat
  BY <1>1 DEF TypeInv, InCall, CallType
<1>3. dev.left \in Nat /\ dev.left >= 1
  BY <1>1 DEF TypeInv, SectorsLeft, DevType
<1>4. MoreSectors /\ call' = [call EXCEPT !.i = call.i + 1] /\ pc' = "drq" => call' \in CallType /\ InCall'
  <2> SUFFICES ASSUME MoreSectors, call' = [call EXCEPT !.i = call.i + 1], pc' = "drq"
               PROVE  call' \in CallType /\ InCall'
    OBVIOUS
  <2>1. call' \in CallType /\ call'.kind = call.kind /\ call'.n = call.n
        /\ call'.i = call.i + 1 /\ call'.multi = call.multi
    BY DEF CallType
  <2> QED BY <1>1, <2>1 DEF TypeInv, InCall, MoreSectors
<1>5. CASE call.kind = "write"
  <2>1. call.i \in Indices
    BY <1>1, <1>2, <1>5, DriveAssumption DEF TypeInv, InCall, Indices
  <2>2. SectorBuffer \in Values
    BY <2>1 DEF SectorBuffer, Buffers
  <2>3. DataWritten(SectorBuffer)
    BY <1>5 DEF Transfer
  <2>4. dev' \in DevType /\ SectorsLeft'
    BY <1>3, <2>2, <2>3 DEF DataWritten, DevType, Status, SectorsLeft
  <2>5. CASE call.multi /\ MoreSectors
    BY <1>1, <1>4, <1>5, <2>4, <2>5, SlowType, DriverType DEF Transfer
  <2>6. CASE ~(call.multi /\ MoreSectors)
    <3>1. pc' = "written" /\ UNCHANGED <<call, buf, ret, stats, calls>>
      BY <1>5, <2>6 DEF Transfer
    <3>2. InCall'
      BY <1>1, <3>1 DEF TypeInv, InCall
    <3> QED BY <1>1, <2>4, <3>1, <3>2, SlowType, DriverType
  <2> QED BY <2>5, <2>6
<1>6. CASE call.kind # "write"
  <2>1. dev' \in DevType /\ SectorsLeft'
    BY <1>1, <1>6, NextSectorTyped DEF Transfer, DataRead
  <2>2. buf' \in Buffers
    BY <1>6 DEF Transfer, Buffers, DevType
  <2>3. CASE call.multi /\ MoreSectors
    BY <1>1, <1>4, <1>6, <2>1, <2>2, <2>3, SlowType, DriverType DEF Transfer
  <2>4. CASE ~(call.multi /\ MoreSectors)
    BY <1>1, <1>6, <2>1, <2>2, <2>4, SlowType, SucceededType, DriverType DEF Transfer
  <2> QED BY <2>3, <2>4
<1> QED BY <1>5, <1>6

LEMMA WriteDoneType == ASSUME TypeInv, WriteDone PROVE TypeInv'
<1>1. pc # "idle" /\ Waited /\ UNCHANGED <<disk, dev>>
  BY DEF WriteDone
<1>2. CASE \E code \in {-4, -5} : Failed(code)
  BY <1>1, <1>2, GivenUpType DEF Running
<1>3. CASE Succeeded(buf) /\ UNCHANGED buf
  <2>1. SectorsLeft'
    BY <1>1 DEF TypeInv, SectorsLeft
  <2> QED BY <1>1, <1>3, <2>1, Typed, WaitedType, SucceededType, DriverType DEF Succeeded
<1> QED BY <1>2, <1>3 DEF WriteDone

LEMMA NextType == ASSUME TypeInv, [Next]_vars PROVE TypeInv'
<1>1. CASE BusyTimeout
  BY <1>1, GivenUpType DEF BusyTimeout, Running
<1>2. CASE NoTransfer
  BY <1>2, GivenUpType DEF NoTransfer, Running
<1>3. CASE ResetStats
  <2>1. stats' \in [CounterNames -> Nat]
    BY <1>3, Typed DEF ResetStats
  <2>2. InCall' /\ SectorsLeft'
    BY <1>3 DEF ResetStats, TypeInv, InCall, SectorsLeft
  <2> QED BY <1>3, <2>1, <2>2, Typed, SlowType, DriverType DEF ResetStats
<1>4. CASE Begin("init", 0, 1) \/ Begin("self_test", 0, 1)
  BY <1>4, BeginType
<1>5. ASSUME NEW kind \in {"read", "write"}, NEW lba \in Sectors, NEW n \in 0..MaxCount,
             Begin(kind, lba, n)
      PROVE  TypeInv'
  <2>1. lba \in Nat /\ n \in Nat /\ n <= MaxCount
    BY DriveAssumption DEF Sectors
  <2> QED BY <1>5, <2>1, BeginType
<1>6. CASE UNCHANGED vars
  BY <1>6 DEF vars, driver, history, TypeInv, TypeOK, InCall, SectorsLeft
<1> QED
  BY <1>1, <1>2, <1>3, <1>4, <1>5, <1>6, DriveStepsType, SendCommandType, TransferType, WriteDoneType
  DEF Next, DriverSteps

\* Whatever the drive does, the registers, the counters and the buffer stay in
\* their ranges: no sector is read from, or put, outside the caller's buffer.
THEOREM TypesHold == Spec => []TypeOK
<1>1. Init => TypeInv
  BY InitType
<1>2. TypeInv /\ [Next]_vars => TypeInv'
  BY NextType
<1>3. TypeInv => TypeOK
  BY DEF TypeInv
<1> QED BY <1>1, <1>2, <1>3, PTL DEF Spec

-----------------------------------------------------------------------------
\* A wait that timed out stays known.
LEMMA SlowKept == ASSUME TypeInv, [Next]_vars, ~slow' PROVE ~slow
  BY Zenon DEF Next, DriverSteps, vars, history, Begin, DriveSteps, SendCommand, BusyTimeout,
     Transfer, NoTransfer, WriteDone, ResetStats, Waited

\* The numbers of a call between two steps.
LEMMA Numbers ==
    ASSUME TypeInv, pc # "idle"
    PROVE  /\ call.lba \in Nat /\ call.i \in Nat /\ call.n \in Nat /\ call.i < call.n
           /\ dev.lba \in Nat /\ dev.left \in Nat
           /\ call.multi => call.n <= CountLimit /\ call.kind \in {"read", "write"}
           /\ call.kind \in {"init", "self_test", "read", "write"}
  BY DEF TypeInv, TypeOK, InCall, Kinds

\* While the drive is busy the driver waits for it, at the same place.
LEMMA BusyInStep ==
    ASSUME TypeInv, InStep, ~slow, dev.st = "busy"
    PROVE  /\ pc \in {"drq", "written"} /\ dev.cmd = Command
           /\ AtSector \/ OneBehind \/ AtLast
           /\ pc = "written" => call.kind = "write" /\ (call.multi => call.i + 1 = call.n)
           /\ ~Writes(dev.cmd) => AtSector /\ call.kind # "write"
           /\ Writes(dev.cmd) => call.kind = "write"
           /\ Writes(dev.cmd) /\ ~dev.got => AtSector
           /\ Writes(dev.cmd) /\ dev.got => OneBehind \/ AtLast
<1>1. pc \in {"drq", "written"} /\ dev.cmd = Command
      /\ (AtSector \/ OneBehind \/ AtLast)
      /\ (pc = "written" => call.kind = "write" /\ (call.multi => call.i + 1 = call.n))
  BY Typed DEF InStep, Working
<1>2. Writes(dev.cmd) <=> call.kind = "write"
  BY <1>1, Numbers DEF Command, Writes, Reading
<1> QED BY <1>1, <1>2 DEF AtSector, OneBehind, AtLast

LEMMA InStepDrive == ASSUME TypeInv, InStep, ~slow, DriveSteps PROVE InStep'
<1>1. dev.st = "busy" /\ UNCHANGED <<pc, call, buf, slow>>
  BY DEF DriveSteps, driver
<1>2. pc # "idle"
  BY <1>1, BusyInStep
<1>3. SUFFICES ASSUME Working'
               PROVE  dev'.cmd = dev.cmd /\ (AtSector \/ OneBehind \/ AtLast)'
  BY <1>1, BusyInStep DEF InStep, Command, Reading
<1>4. CASE /\ ~Writes(dev.cmd) /\ (dev.cmd = "identify" \/ dev.lba \in Sectors)
           /\ dev' = [dev EXCEPT !.st = "drq",
                         !.data = IF dev.cmd = "identify" THEN Blank ELSE disk[dev.lba]]
  <2>1. AtSector /\ dev.cmd = Command
    BY <1>1, <1>4, BusyInStep
  <2>2. dev'.st = "drq" /\ dev'.cmd = dev.cmd /\ dev'.lba = dev.lba /\ dev'.left = dev.left
    BY <1>4, Typed DEF DevType
  <2>3. dev'.got = dev.got
    BY <1>4, Typed DEF DevType
  <2>4. Reading => dev.lba \in Sectors
    BY <1>4, <2>1 DEF Command, Reading
  <2> QED BY <1>1, <2>1, <2>2, <2>3, <2>4 DEF AtSector, Reading
<1>5. CASE Writes(dev.cmd) /\ ~dev.got /\ dev' = [dev EXCEPT !.st = "drq"]
  <2>1. AtSector /\ call.kind = "write"
    BY <1>1, <1>5, BusyInStep
  <2>2. dev'.st = "drq" /\ dev'.cmd = dev.cmd /\ dev'.lba = dev.lba /\ dev'.left = dev.left
    BY <1>5, Typed DEF DevType
  <2>3. dev'.got = dev.got
    BY <1>5, Typed DEF DevType
  <2> QED BY <1>1, <2>1, <2>2, <2>3 DEF AtSector, Reading
<1>6. CASE /\ Writes(dev.cmd) /\ dev.got /\ dev.left # 1
           /\ dev' = Drive("drq", dev.cmd, dev.lba + 1, dev.left - 1, FALSE, Blank)
  <2>1. OneBehind /\ call.kind = "write"
    BY <1>1, <1>6, BusyInStep DEF AtLast
  <2>2. dev'.st = "drq" /\ dev'.cmd = dev.cmd /\ dev'.lba = dev.lba + 1 /\ dev'.left = dev.left - 1
    BY <1>6 DEF Drive
  <2>3. ~dev'.got
    BY <1>6 DEF Drive
  <2> QED BY <1>1, <1>2, <2>1, <2>2, <2>3, Numbers DEF AtSector, OneBehind, Reading
<1>7. CASE dev' = Drive("ready", "none", 0, 0, FALSE, Blank) \/ Fails
  BY <1>3, <1>7 DEF Working, Drive, Fails
<1> QED BY <1>4, <1>5, <1>6, <1>7 DEF DriveSteps

LEMMA InStepSend == ASSUME TypeInv, InStep, ~slow, SendCommand PROVE InStep'
<1>1. pc = "bsy" /\ dev.st # "busy" /\ ~Working /\ slow' = slow
  BY DEF SendCommand, InStep, history
<1>2. CASE UNCHANGED dev /\ \E code \in {-2, -3} : Failed(code)
  BY <1>1, <1>2 DEF Failed, Return, InStep, Working
<1>3. ASSUME NEW cmd, NEW lba, NEW n \in Nat, Accepts(cmd, lba, n),
             pc' = "drq", UNCHANGED call, cmd = Command,
             call.kind # "init" => lba = Lba, n = IF call.multi THEN call.n ELSE 1
      PROVE  InStep'
  <2>1. n >= 1 /\ n <= CountLimit
    BY <1>1, <1>3, Numbers, DriveAssumption
  <2>2. dev' = Drive("busy", cmd, lba, n, FALSE, Blank)
    BY <1>1, <1>3, <2>1, CountArrives DEF Accepts, Working
  <2>3. dev'.st = "busy" /\ dev'.cmd = Command' /\ dev'.lba = lba /\ dev'.left = n
    BY <1>3, <2>2 DEF Drive, Command, Reading
  <2>4. ~dev'.got
    BY <2>2 DEF Drive
  <2>5. call.multi => call.i = 0
    BY <1>1 DEF TypeInv, InCall
  <2>6. AtSector'
    BY <1>1, <1>3, <2>3, <2>4, <2>5, Numbers DEF AtSector, Lba
  <2> QED BY <1>3, <2>3, <2>6 DEF InStep, Working
<1>4. call.kind = "init" => ~call.multi
  BY <1>1, Numbers
<1>5. CASE call.kind = "init" /\ Accepts("identify", 0, 1) /\ pc' = "drq" /\ UNCHANGED call
  BY <1>3, <1>4, <1>5 DEF Command
<1>6. CASE call.kind # "init" /\ pc' = "drq" /\ UNCHANGED call /\ Accepts(Command, Lba, Sent)
  BY <1>1, <1>3, <1>6, Numbers DEF Sent
<1> QED BY <1>2, <1>5, <1>6 DEF SendCommand, Command

LEMMA InStepTransfer == ASSUME TypeInv, InStep, ~slow, Transfer PROVE InStep'
<1>1. pc = "drq" /\ dev.st = "drq" /\ Working /\ slow' = slow
  BY DEF Transfer, Working, history
<1>2. AtSector /\ dev.cmd = Command
  BY <1>1 DEF InStep, OneBehind, AtLast
<1>3. call \in CallType /\ dev \in DevType
  BY Typed
<1>4. MoreSectors <=> call.i + 1 < call.n
  BY DEF MoreSectors
<1>5. ASSUME call' = [call EXCEPT !.i = call.i + 1]
      PROVE  /\ call'.i = call.i + 1 /\ call'.kind = call.kind /\ call'.n = call.n
             /\ call'.lba = call.lba /\ call'.multi = call.multi /\ Command' = Command
  BY <1>3, <1>5 DEF CallType, Command, Reading
<1>6. CASE call.kind = "write"
  <2>1. dev'.st = "busy" /\ dev'.cmd = dev.cmd /\ dev'.lba = dev.lba /\ dev'.left = dev.left
        /\ dev'.data = buf[call.i] /\ buf' = buf
    BY <1>3, <1>6 DEF Transfer, DataWritten, SectorBuffer, DevType
  <2>2. dev'.got
    BY <1>3, <1>6 DEF Transfer, DataWritten, DevType
  <2>3. CASE call.multi /\ MoreSectors
    <3>1. call' = [call EXCEPT !.i = call.i + 1] /\ pc' = "drq"
      BY <1>1, <1>6, <2>3 DEF Transfer
    <3>2. OneBehind'
      BY <1>1, <1>2, <1>5, <1>6, <2>1, <2>2, <2>3, <3>1, Numbers DEF AtSector, OneBehind
    <3> QED BY <1>2, <1>5, <2>1, <3>1, <3>2 DEF InStep
  <2>4. CASE ~(call.multi /\ MoreSectors)
    <3>1. call' = call /\ pc' = "written"
      BY <1>6, <2>4 DEF Transfer
    <3>2. call.multi => call.i + 1 = call.n
      BY <1>1, <1>4, <2>4, Numbers
    <3>3. AtLast'
      BY <1>1, <1>2, <1>6, <2>1, <2>2, <3>1, <3>2, Numbers DEF AtSector, AtLast
    <3> QED BY <1>2, <1>6, <2>1, <3>1, <3>2, <3>3 DEF InStep, Command, Reading
  <2> QED BY <2>3, <2>4
<1>7. CASE call.kind # "write"
  <2>1. DataRead
    BY <1>7 DEF Transfer
  <2>2. CASE call.multi /\ MoreSectors
    <3>1. call' = [call EXCEPT !.i = call.i + 1] /\ pc' = "drq"
      BY <1>1, <1>7, <2>2 DEF Transfer
    <3>2. dev' = Drive("busy", dev.cmd, dev.lba + 1, dev.left - 1, FALSE, Blank)
      <4>1. dev.left # 1
        BY <1>1, <1>2, <1>4, <2>2, Numbers DEF AtSector
      <4> QED BY <2>1, <4>1, Zenon DEF DataRead
    <3>3. dev'.st = "busy" /\ dev'.cmd = dev.cmd /\ dev'.lba = dev.lba + 1 /\ dev'.left = dev.left - 1
      BY <3>2 DEF Drive
    <3>4. ~dev'.got
      BY <3>2 DEF Drive
    <3>5. AtSector'
      BY <1>1, <1>2, <1>5, <2>2, <3>1, <3>3, <3>4, Numbers DEF AtSector
    <3> QED BY <1>2, <1>5, <3>1, <3>3, <3>5 DEF InStep
  <2>3. CASE ~(call.multi /\ MoreSectors)
    <3>1. dev.left = 1
      BY <1>1, <1>2, <1>4, <2>3, Numbers DEF AtSector
    <3>2. dev'.st = "ready" /\ pc' \in {"idle", "bsy"}
      BY <1>7, <2>1, <2>3, <3>1 DEF DataRead, Drive, Transfer, Succeeded, Return
    <3> QED BY <3>2 DEF InStep, Working
  <2> QED BY <2>2, <2>3
<1> QED BY <1>6, <1>7

\* The steps that end a wait for a sector or for the end of a write.
LEMMA InStepEnds ==
    ASSUME TypeInv, InStep, ~slow', BusyTimeout \/ NoTransfer \/ WriteDone, ~slow
    PROVE  InStep'
<1>1. dev.st # "busy"
  BY Zenon DEF BusyTimeout, NoTransfer, WriteDone, Waited
<1>2. ~Working
  BY <1>1 DEF BusyTimeout, NoTransfer, WriteDone, InStep, Working, AtSector, OneBehind, AtLast
<1>3. pc' \in {"idle", "bsy"} /\ dev' = dev
  BY DEF BusyTimeout, NoTransfer, WriteDone, Failed, Succeeded, Return
<1> QED BY <1>2, <1>3 DEF InStep, Working

LEMMA InStepBegin ==
    ASSUME InStep, ~slow, NEW kind, NEW lba, NEW n, Begin(kind, lba, n)
    PROVE  InStep'
<1>1. ~Working /\ dev' = dev /\ pc' \in {"idle", "bsy"}
  BY DEF InStep, Begin, Return
<1> QED BY <1>1 DEF InStep, Working

LEMMA InStepNext == ASSUME TypeInv, InStep, [Next]_vars PROVE InStep'
<1>1. SUFFICES ASSUME ~slow', ~slow PROVE InStep'
  BY SlowKept DEF InStep
<1>2. CASE ResetStats \/ UNCHANGED vars
  BY <1>1, <1>2 DEF ResetStats, vars, driver, InStep, Working, AtSector, OneBehind, AtLast, Command, Reading
<1> QED
  BY <1>1, <1>2, InStepDrive, InStepSend, InStepTransfer, InStepEnds, InStepBegin DEF Next, DriverSteps

LEMMA InStepAlways == Spec => [](TypeInv /\ InStep)
<1>1. Init => TypeInv /\ InStep
  BY InitType DEF Init, InStep, Working, Drive
<1>2. TypeInv /\ InStep /\ [Next]_vars => (TypeInv /\ InStep)'
  BY NextType, InStepNext
<1> QED BY <1>1, <1>2, PTL DEF Spec

\* When a call returns, the drive has no command left: the next call cannot
\* read the end of this one (wait_for_bsy, wait_for_drq and the counts of the
\* word loops agree with the drive's).
THEOREM DriveIsFree == Spec => []DriveFree
<1>1. TypeInv /\ InStep => DriveFree
  BY Typed DEF InStep, DriveFree, Working, DevType, Status
<1> QED BY <1>1, InStepAlways, PTL

\* A write changes no sector but those it was given, whatever the drive
\* refuses and wherever the transfer is begun again.
THEOREM NothingOutside == Spec => WritesInside
<1> DEFINE Inside == ~slow => \A s \in Sectors : disk'[s] # disk[s] =>
          /\ pc # "idle" /\ call.kind = "write"
          /\ s - call.lba \in 0..(call.n - 1)
          /\ disk'[s] = buf[s - call.lba]
<1>1. TypeInv /\ InStep /\ [Next]_vars => [Inside]_vars
  <2> SUFFICES ASSUME TypeInv, InStep, [Next]_vars, ~slow,
                      NEW s \in Sectors, disk'[s] # disk[s]
               PROVE  /\ pc # "idle" /\ call.kind = "write"
                      /\ s - call.lba \in 0..(call.n - 1)
                      /\ disk'[s] = buf[s - call.lba]
    OBVIOUS
  <2>1. dev.st = "busy" /\ Writes(dev.cmd) /\ dev.got /\ disk' = [disk EXCEPT ![dev.lba] = dev.data]
    BY DEF Next, DriverSteps, vars, Begin, DriveSteps, SendCommand, BusyTimeout,
       Transfer, NoTransfer, WriteDone, ResetStats
  <2>2. s = dev.lba /\ disk'[s] = dev.data
    BY <2>1 DEF TypeInv, TypeOK
  <2>3. OneBehind \/ AtLast
    BY <2>1, BusyInStep
  <2> QED BY <2>1, <2>2, <2>3, BusyInStep, Numbers DEF OneBehind, AtLast
<1> QED BY <1>1, InStepAlways, PTL DEF Spec, WritesInside

-----------------------------------------------------------------------------
\* A transfer of sectors: of a read, or of a write.
Moves == call.kind \in {"read", "write"}

\* What a failed command leaves: nothing moved, or a call that did not succeed.
LEMMA TransferredFailed ==
    ASSUME TypeInv, pc # "idle", NEW code, code # 0, Failed(code)
    PROVE  Transferred'
<1>1. CASE call.multi
  <2>1. call'.i = 0 /\ pc' = "bsy"
    BY <1>1, Typed DEF Failed, CallType
  <2> QED BY <2>1 DEF Transferred, Moved, Finished
<1>2. CASE ~call.multi
  BY <1>2 DEF Failed, Return, Transferred, Finished
<1> QED BY <1>1, <1>2

LEMMA TransferredDrive ==
    ASSUME TypeInv, InStep, Transferred, ~slow, ~faulty', Moves, DriveSteps
    PROVE  Transferred'
<1>1. dev.st = "busy" /\ pc' = pc /\ call' = call /\ buf' = buf
  BY DEF DriveSteps, driver
<1>0. ~faulty
  BY Zenon DEF DriveSteps
<1>2. pc \in {"drq", "written"} /\ dev.cmd = Command /\ dev.cmd # "identify"
  BY <1>1, BusyInStep DEF Moves, Command, Reading
<1>3. \A j \in 0..(Moved - 1) : Agrees(j)
  BY <1>0, <1>2 DEF Transferred, Moves
<1>4. CASE disk' = disk /\ Moved' \in {0, Moved}
           /\ (dev'.st = "drq" /\ Reading => dev'.data = disk[dev'.lba])
  <2>1. \A j \in 0..(Moved' - 1) : Agrees(j)'
    <3>1. ASSUME NEW j, Agrees(j) PROVE Agrees(j)'
      BY <1>1, <1>4, <3>1 DEF Agrees
    <3>2. CASE Moved' = 0
      BY <3>2
    <3> QED BY <1>3, <1>4, <3>1, <3>2
  <2>2. pc' # "idle" /\ (Reading' => Reading)
    BY <1>1, <1>2 DEF Reading
  <2> QED BY <1>4, <2>1, <2>2 DEF Transferred, Finished
<1>5. CASE ~Writes(dev.cmd) /\ disk' = disk
           /\ dev' = [dev EXCEPT !.st = "drq",
                         !.data = IF dev.cmd = "identify" THEN Blank ELSE disk[dev.lba]]
  <2>1. Reading
    BY <1>1, <1>5, BusyInStep DEF Moves, Reading
  <2>2. dev'.data = disk[dev.lba] /\ dev'.lba = dev.lba
    BY <1>2, <1>5, Typed DEF DevType
  <2> QED BY <1>1, <1>4, <1>5, <2>1, <2>2 DEF Moved, Reading
<1>6. CASE Writes(dev.cmd) /\ ~dev.got /\ disk' = disk /\ dev' = [dev EXCEPT !.st = "drq"]
  <2>1. AtSector /\ call.kind = "write"
    BY <1>1, <1>6, BusyInStep
  <2>2. dev'.st = "drq" /\ dev'.got = dev.got
    BY <1>6, Typed DEF DevType
  <2> QED BY <1>1, <1>4, <1>6, <2>1, <2>2 DEF Moved, Working, Reading, AtSector
<1>7. CASE Writes(dev.cmd) /\ dev.got /\ dev.lba \in Sectors
           /\ disk' = [disk EXCEPT ![dev.lba] = dev.data]
           /\ dev' = IF dev.left = 1 THEN Drive("ready", "none", 0, 0, FALSE, Blank)
                     ELSE Drive("drq", dev.cmd, dev.lba + 1, dev.left - 1, FALSE, Blank)
  <2> DEFINE at == dev.lba - call.lba
  <2>1. call.kind = "write" /\ at \in Nat /\ dev.data = buf[at] /\ Moved = at /\ Moved' = at + 1
    <3>1. CASE OneBehind
      <4>1. dev.left # 1
        BY <1>1, <3>1, BusyInStep, Numbers DEF OneBehind
      <4>2. dev'.st = "drq" /\ ~dev'.got
        BY <1>7, <4>1 DEF Drive
      <4> QED BY <1>1, <3>1, <4>2, Numbers DEF OneBehind, Moved, Working, Reading
    <3>2. CASE AtLast
      <4>1. dev'.st = "ready" /\ call.kind = "write"
        BY <1>1, <1>7, <3>2, BusyInStep DEF Drive, AtLast
      <4> QED BY <1>1, <3>2, <4>1, Numbers DEF AtLast, Moved, Reading
    <3> QED BY <1>1, <1>7, <3>1, <3>2, BusyInStep
  <2>2. ASSUME NEW j \in 0..at PROVE Agrees(j)'
    <3>1. CASE j = at
      <4>1. call.lba + j = dev.lba
        BY <1>2, <3>1, Numbers
      <4> QED BY <1>1, <1>7, <2>1, <3>1, <4>1 DEF Agrees, TypeInv, TypeOK
    <3>2. CASE j # at
      <4>1. j \in 0..(Moved - 1) /\ call.lba + j # dev.lba
        BY <1>2, <2>1, <3>2, Numbers
      <4> QED BY <1>1, <1>3, <1>7, <4>1 DEF Agrees, TypeInv, TypeOK
    <3> QED BY <3>1, <3>2
  <2> QED BY <1>1, <1>2, <2>1, <2>2 DEF Transferred, Finished, Reading
<1>8. CASE disk' = disk /\ Fails
  <2>1. dev'.st = "err" /\ Moved' \in {0, Moved}
    BY <1>1, <1>2, <1>8 DEF Fails, Drive, Moved, Working, Reading
  <2> QED BY <1>4, <1>8, <2>1
<1> QED BY <1>2, <1>5, <1>6, <1>7, <1>8 DEF DriveSteps

LEMMA TransferredSend ==
    ASSUME TypeInv, InStep, Transferred, ~slow, ~faulty, Moves, SendCommand
    PROVE  Transferred'
<1>1. pc = "bsy" /\ call' = call /\ pc' = "drq" /\ disk' = disk /\ buf' = buf
      /\ dev.st # "busy" /\ ~Working
  BY DEF SendCommand, Moves, InStep
<1>2. \E cmd, lba, count : dev' = Drive("busy", cmd, lba, count, FALSE, Blank)
  BY <1>1 DEF SendCommand, Moves, Accepts, Working
<1>3. dev'.st = "busy"
  BY <1>2 DEF Drive
<1>4. ~dev'.got
  BY <1>2 DEF Drive
<1>5. Moved' = Moved
  BY <1>1, <1>3, <1>4 DEF Moved, Working, Reading, Moves
<1>6. \A j \in 0..(Moved - 1) : Agrees(j)
  BY <1>1 DEF Transferred, Moves
<1>7. ASSUME NEW j PROVE Agrees(j)' <=> Agrees(j)
  BY <1>1 DEF Agrees
<1> QED BY <1>1, <1>3, <1>5, <1>6, <1>7 DEF Transferred, Finished

\* One more sector is in the caller's buffer.
LEMMA SectorRead ==
    ASSUME TypeInv, InStep, Transferred, ~slow, ~faulty, Moves, Transfer, call.kind = "read"
    PROVE  /\ \A j \in 0..call.i : disk[call.lba + j] = buf'[j] /\ call.lba + j \in Sectors
           /\ disk' = disk /\ dev'.st # "drq"
<1>1. pc = "drq" /\ dev.st = "drq" /\ Working /\ disk' = disk
  BY DEF Transfer, Working
<1>2. AtSector /\ Reading /\ Moved = call.i
  BY <1>1 DEF InStep, OneBehind, AtLast, Reading, Moved
<1>3. dev.lba = call.lba + call.i /\ dev.lba \in Sectors /\ dev.data = disk[dev.lba]
  BY <1>1, <1>2 DEF AtSector, Transferred, Moves
<1>4. buf' = [buf EXCEPT ![call.i] = dev.data] /\ DataRead
  BY DEF Transfer
<1>5. dev'.st # "drq"
  BY <1>4 DEF DataRead, Drive
<1>6. call.i \in Indices /\ \A j \in 0..call.i : j \in Indices
  BY <1>1, Numbers, DriveAssumption DEF TypeInv, InCall, Indices
<1>7. ASSUME NEW j \in 0..call.i
      PROVE  disk[call.lba + j] = buf'[j] /\ call.lba + j \in Sectors
  <2>1. CASE j = call.i
    BY <1>3, <1>4, <1>6, <2>1, Typed DEF Buffers
  <2>2. CASE j # call.i
    <3>1. j \in 0..(Moved - 1)
      BY <1>1, <1>2, <2>2, Numbers
    <3>2. Agrees(j)
      BY <1>1, <3>1 DEF Transferred, Moves
    <3> QED BY <1>4, <1>6, <2>2, <3>2, Typed DEF Buffers, Agrees
  <2> QED BY <2>1, <2>2
<1> QED BY <1>1, <1>5, <1>7

LEMMA TransferredTransfer ==
    ASSUME TypeInv, InStep, Transferred, ~slow, ~faulty, Moves, Transfer
    PROVE  Transferred'
<1>1. pc = "drq" /\ dev.st = "drq" /\ Working /\ disk' = disk
  BY DEF Transfer, Working
<1>2. AtSector
  BY <1>1 DEF InStep, OneBehind, AtLast
<1>3. ASSUME call' = [call EXCEPT !.i = call.i + 1]
      PROVE  /\ call'.i = call.i + 1 /\ call'.kind = call.kind /\ call'.n = call.n
             /\ call'.lba = call.lba
  BY <1>3, Typed DEF CallType
<1>4. CASE call.kind = "write"
  <2>1. Moved = call.i /\ \A j \in 0..(Moved - 1) : Agrees(j)
    BY <1>1, <1>2, <1>4 DEF Transferred, Moves, Moved, Reading, AtSector
  <2>2. dev'.st = "busy" /\ buf' = buf
    BY <1>4, Typed DEF Transfer, DataWritten, DevType
  <2>3. dev'.got
    BY <1>4, Typed DEF Transfer, DataWritten, DevType
  <2>4. call'.lba = call.lba /\ call'.kind = "write" /\ Moved' = Moved /\ pc' # "idle"
    <3>1. CASE call.multi /\ MoreSectors
      <4>1. call' = [call EXCEPT !.i = call.i + 1] /\ pc' = "drq"
        BY <1>1, <1>4, <3>1 DEF Transfer
      <4> QED BY <1>1, <1>3, <1>4, <2>1, <2>2, <2>3, <4>1, Numbers DEF Moved, Working, Reading
    <3>2. CASE ~(call.multi /\ MoreSectors)
      BY <1>4, <2>1, <2>2, <3>2 DEF Transfer, Moved, Reading
    <3> QED BY <3>1, <3>2
  <2>5. ASSUME NEW j PROVE Agrees(j)' <=> Agrees(j)
    BY <1>1, <2>2, <2>4 DEF Agrees
  <2> QED BY <2>1, <2>2, <2>4, <2>5 DEF Transferred, Finished
<1>5. CASE call.kind = "read"
  <2>1. /\ \A j \in 0..call.i : disk[call.lba + j] = buf'[j] /\ call.lba + j \in Sectors
        /\ dev'.st # "drq"
    BY <1>5, SectorRead
  <2>2. CASE MoreSectors
    <3>1. call' = [call EXCEPT !.i = call.i + 1] /\ pc' # "idle"
      BY <1>1, <1>5, <2>2 DEF Transfer, Succeeded
    <3>2. Moved' = call.i + 1
      BY <1>3, <1>5, <3>1 DEF Moved, Reading
    <3>3. 0..(Moved' - 1) = 0..call.i
      BY <1>1, <3>2, Numbers
    <3> QED BY <1>1, <1>3, <2>1, <3>1, <3>3 DEF Transferred, Finished, Agrees
  <2>3. CASE ~MoreSectors
    <3>1. call' = call /\ pc' = "idle"
      BY <1>5, <2>3 DEF Transfer, Succeeded, Return
    <3>2. 0..(call.n - 1) = 0..call.i
      BY <1>1, <2>3, Numbers DEF MoreSectors
    <3> QED BY <1>1, <2>1, <3>1, <3>2 DEF Transferred, Agrees
  <2> QED BY <2>2, <2>3
<1> QED BY <1>4, <1>5 DEF Moves

LEMMA TransferredWriteDone ==
    ASSUME TypeInv, InStep, Transferred, ~slow, ~slow', ~faulty, Moves, WriteDone
    PROVE  Transferred'
<1>1. pc = "written" /\ disk' = disk
  BY DEF WriteDone
<1>2. dev.st # "busy"
  BY Zenon DEF WriteDone, Waited
<1>3. call.kind = "write" /\ (call.multi => call.i + 1 = call.n) /\ ~Working
  BY <1>1, <1>2 DEF InStep, AtSector, OneBehind, AtLast, Working
<1>4. CASE dev.st = "err"
  BY <1>1, <1>2, <1>4, TransferredFailed DEF WriteDone
<1>5. CASE dev.st = "ready" /\ Succeeded(buf) /\ UNCHANGED buf
  <2>1. Moved = call.i + 1 /\ \A j \in 0..(Moved - 1) : Agrees(j)
    BY <1>1, <1>3, <1>5 DEF Transferred, Moves, Moved, Reading
  <2>2. CASE ~call.multi /\ MoreSectors
    <3>1. call' = [call EXCEPT !.i = call.i + 1] /\ pc' = "bsy"
      BY <1>5, <2>2 DEF Succeeded
    <3>2. call'.i = call.i + 1 /\ call'.lba = call.lba /\ Moved' = Moved
      BY <2>1, <3>1, Typed DEF CallType, Moved
    <3>3. ASSUME NEW j PROVE Agrees(j)' <=> Agrees(j)
      BY <1>1, <1>5, <3>2 DEF Agrees
    <3> QED BY <2>1, <3>1, <3>2, <3>3 DEF Transferred, Finished
  <2>3. CASE ~(~call.multi /\ MoreSectors)
    <3>1. call' = call /\ pc' = "idle"
      BY <1>5, <2>3 DEF Succeeded, Return
    <3>2. call.n - 1 = Moved - 1
      BY <1>1, <1>3, <2>1, <2>3, Numbers DEF MoreSectors
    <3>3. ASSUME NEW j PROVE Agrees(j)' <=> Agrees(j)
      BY <1>1, <1>5, <3>1 DEF Agrees
    <3> QED BY <2>1, <3>1, <3>2, <3>3 DEF Transferred
  <2> QED BY <2>2, <2>3
<1> QED BY <1>2, <1>3, <1>4, <1>5 DEF WriteDone, Working

\* A step of a call is a step of the call it began as.
LEMMA SameCall ==
    ASSUME TypeInv, DriveSteps \/ DriverSteps
    PROVE  call'.kind = call.kind /\ call'.n = call.n /\ call'.lba = call.lba /\ call'.before = call.before
<1>1. CASE call' = call
  BY <1>1
<1>2. CASE call' = [call EXCEPT !.i = call.i + 1] \/ call' = [call EXCEPT !.multi = FALSE, !.i = 0]
  BY <1>2, Typed DEF CallType
<1> QED BY <1>1, <1>2 DEF DriveSteps, driver, DriverSteps, SendCommand, BusyTimeout, Transfer,
           NoTransfer, WriteDone, Failed, Succeeded

\* A write that ended with DF stays known.
LEMMA FaultyKept == ASSUME TypeInv, [Next]_vars, ~faulty' PROVE ~faulty
  BY Zenon DEF Next, DriverSteps, vars, history, Begin, DriveSteps, SendCommand, BusyTimeout,
     Transfer, NoTransfer, WriteDone, ResetStats, Waited

LEMMA TransferredBegin ==
    ASSUME TypeInv, NEW kind, NEW lba, NEW n, Begin(kind, lba, n)
    PROVE  Transferred'
<1>1. call'.i = 0 /\ pc' \in {"idle", "bsy"} /\ (pc' = "idle" => ret' = -1)
  BY DEF Begin, Return
<1> QED BY <1>1 DEF Transferred, Moved, Finished

LEMMA TransferredNext == ASSUME TypeInv, InStep, Transferred, [Next]_vars PROVE Transferred'
<1>1. SUFFICES ASSUME ~slow, ~slow', ~faulty, ~faulty' PROVE Transferred'
  BY SlowKept, FaultyKept DEF Transferred
<1>2. CASE ResetStats \/ UNCHANGED vars
  <2>1. UNCHANGED <<disk, dev, pc, call, buf, ret>>
    BY <1>2 DEF ResetStats, vars, driver
  <2> QED BY <1>1, <2>1 DEF Transferred, Moved, Agrees, Finished, Working, Reading
<1>3. CASE \E kind, lba, n : Begin(kind, lba, n)
  BY <1>3, TransferredBegin
<1>4. CASE DriveSteps \/ DriverSteps
  <2>1. CASE ~Moves
    BY <1>4, <2>1, SameCall DEF Transferred, Moves
  <2>2. CASE Moves
    <3>1. CASE BusyTimeout \/ NoTransfer
      <4>1. pc # "idle" /\ \E code \in {-1, -2, -3, -4} : Failed(code)
        BY <3>1 DEF BusyTimeout, NoTransfer
      <4> QED BY <4>1, TransferredFailed
    <3> QED BY <1>1, <1>4, <2>2, <3>1, TransferredDrive, TransferredSend, TransferredTransfer,
               TransferredWriteDone DEF DriverSteps
  <2> QED BY <2>1, <2>2
<1> QED BY <1>2, <1>3, <1>4 DEF Next

\* A transfer that returned 0 left the buffer and the disk the same, sector by
\* sector, also when the multi-sector command failed half way and was begun
\* again; whatever the lengths of the transfer and of the drive, and for every
\* order in which the drive and the driver step.
THEOREM OkIsTransferred == Spec => []OkMeansTransferred
<1>1. Init => TypeInv /\ InStep /\ Transferred
  BY InitType DEF Init, InStep, Working, Drive, Transferred, NoCall, Finished
<1>2. TypeInv /\ InStep /\ Transferred /\ [Next]_vars => (TypeInv /\ InStep /\ Transferred)'
  BY NextType, InStepNext, TransferredNext
<1>3. TypeInv /\ InStep /\ Transferred => OkMeansTransferred
  BY DEF Transferred, OkMeansTransferred, Agrees
<1> QED BY <1>1, <1>2, <1>3, PTL DEF Spec

-----------------------------------------------------------------------------
\* The counter a call advances.
SectorCounter(kind) == IF kind = "write" THEN "write_sectors" ELSE "read_sectors"

LEMMA CountedSectors ==
    ASSUME NEW s \in [CounterNames -> Nat], stats = s, NEW multi, NEW n \in Nat, Moves
    PROVE  Counted(call.kind, multi, n)[SectorCounter(call.kind)] = stats[SectorCounter(call.kind)] + n
  BY DEF Counted, CounterNames, SectorCounter, Moves

\* One command has counted its sectors, and the call goes on or returns.
LEMMA CountedSucceeded ==
    ASSUME TypeInv, SectorsCounted, pc # "idle", Moves, NEW b, Succeeded(b)
    PROVE  /\ SectorsCounted'
           /\ pc' = "idle" => call.before + call.n = stats'[SectorCounter(call.kind)]
<1> DEFINE now == stats[SectorCounter(call.kind)]
<1>1. now \in Nat /\ call.before \in Nat
  BY Typed DEF SectorCounter, CounterNames, CallType
<1>2. call.before + (IF call.multi THEN 0 ELSE call.i) = now
  BY DEF SectorsCounted, SectorCounter, Moves
<1>3. stats'[SectorCounter(call.kind)] = now + Sent
  <2>1. stats' = Counted(call.kind, call.multi, Sent) /\ Sent \in Nat
    BY Numbers DEF Succeeded, Moves, Reading, Sent
  <2> QED BY <2>1, CountedSectors, Typed
<1>4. CASE ~call.multi /\ MoreSectors
  <2>1. call' = [call EXCEPT !.i = call.i + 1] /\ pc' = "bsy"
    BY <1>4 DEF Succeeded
  <2>2. call'.i = call.i + 1 /\ call'.kind = call.kind /\ call'.before = call.before /\ ~call'.multi
    BY <1>4, <2>1, Typed DEF CallType
  <2>3. call.before + call.i + 1 = now + Sent
    BY <1>1, <1>2, <1>4, Numbers DEF Sent
  <2> QED BY <1>1, <1>3, <2>1, <2>2, <2>3, Numbers DEF SectorsCounted, SectorCounter
<1>5. CASE ~(~call.multi /\ MoreSectors)
  <2>1. pc' = "idle"
    BY <1>5 DEF Succeeded, Return
  <2>2. call.before + call.n = now + Sent
    BY <1>1, <1>2, <1>5, Numbers DEF Sent, MoreSectors
  <2> QED BY <1>3, <2>1, <2>2 DEF SectorsCounted
<1> QED BY <1>4, <1>5

\* A command that failed has counted nothing.
LEMMA CountedFailed ==
    ASSUME TypeInv, SectorsCounted, pc # "idle", Moves, NEW code, code # 0, Failed(code)
    PROVE  SectorsCounted' /\ (pc' = "idle" => ret' # 0)
<1>1. CASE call.multi
  <2>1. call' = [call EXCEPT !.multi = FALSE, !.i = 0] /\ pc' = "bsy" /\ stats' = stats
    BY <1>1 DEF Failed
  <2>2. call'.i = 0 /\ call'.kind = call.kind /\ call'.before = call.before
    BY <2>1, Typed DEF CallType
  <2> QED BY <1>1, <2>1, <2>2 DEF SectorsCounted
<1>2. CASE ~call.multi
  BY <1>2 DEF Failed, Return, SectorsCounted
<1> QED BY <1>1, <1>2

\* A call that returns 0 has counted its sectors.
CountsAll ==
    pc # "idle" /\ pc' = "idle" /\ ret' = 0 /\ Moves =>
        call.before + call.n = stats'[SectorCounter(call.kind)]

LEMMA CountedCall ==
    ASSUME TypeInv, SectorsCounted, Moves, pc # "idle", DriveSteps \/ DriverSteps
    PROVE  SectorsCounted' /\ CountsAll
<1>1. CASE Transfer \/ WriteDone \/ BusyTimeout \/ NoTransfer \/ DriveSteps \/ SendCommand
  <2>1. CASE \E b : Succeeded(b)
    BY <2>1, CountedSucceeded DEF CountsAll
  <2>2. CASE \E code \in {-1, -2, -3, -4, -5} : Failed(code)
    BY <2>2, CountedFailed DEF CountsAll
  <2>3. CASE UNCHANGED <<call, stats>> /\ pc' # "idle"
    BY <2>3 DEF SectorsCounted, CountsAll
  <2>4. CASE call' = [call EXCEPT !.i = call.i + 1] /\ UNCHANGED <<stats, pc>> /\ call.multi
    <3>1. call'.kind = call.kind /\ call'.before = call.before /\ call'.multi
      BY <2>4, Typed DEF CallType
    <3> QED BY <2>4, <3>1 DEF SectorsCounted, CountsAll
  <2> QED
    BY <1>1, <2>1, <2>2, <2>3, <2>4
    DEF Transfer, WriteDone, BusyTimeout, NoTransfer, DriveSteps, driver, SendCommand, Moves
<1> QED BY <1>1 DEF DriverSteps

LEMMA CountedNext ==
    ASSUME TypeInv, SectorsCounted, [Next]_vars
    PROVE  SectorsCounted' /\ CountsAll
<1>1. CASE ResetStats \/ UNCHANGED vars
  BY <1>1 DEF ResetStats, vars, driver, SectorsCounted, CountsAll, Reading
<1>2. ASSUME NEW kind, NEW lba, NEW n, Begin(kind, lba, n) PROVE SectorsCounted' /\ CountsAll
  <2>1. call'.i = 0 /\ call'.kind = kind /\ stats' = stats /\ pc = "idle"
    BY <1>2 DEF Begin
  <2>2. call'.before = IF kind = "write" THEN stats.write_sectors ELSE stats.read_sectors
    BY <1>2 DEF Begin
  <2>3. call'.before \in Nat
    BY <2>2, Typed DEF CounterNames
  <2> QED BY <2>1, <2>2, <2>3 DEF SectorsCounted, CountsAll
<1>3. CASE DriveSteps \/ DriverSteps
  <2>1. pc # "idle" \/ pc' = "idle"
    BY <1>3 DEF DriveSteps, driver, DriverSteps, SendCommand, BusyTimeout, Transfer, NoTransfer, WriteDone
  <2>2. CASE ~Moves
    BY <1>3, <2>2, SameCall DEF SectorsCounted, Moves, CountsAll
  <2> QED BY <1>3, <2>1, <2>2, CountedCall DEF SectorsCounted, CountsAll
<1> QED BY <1>1, <1>2, <1>3 DEF Next

\* The counters of disk_get_stats advance by the length of each transfer that
\* succeeds, once: the sectors of a multi-sector command that failed are not
\* counted a second time when the transfer is done again one by one.
THEOREM SectorsCountedOnce == Spec => CountedOnce
<1>1. Init => TypeInv /\ SectorsCounted
  BY InitType DEF Init, SectorsCounted
<1>2. TypeInv /\ SectorsCounted /\ [Next]_vars => (TypeInv /\ SectorsCounted)'
  BY NextType, CountedNext
<1>3. TypeInv /\ SectorsCounted /\ [Next]_vars =>
        [pc # "idle" /\ pc' = "idle" /\ ret' = 0 /\ call.kind \in {"read", "write"} =>
          call.before + call.n =
              IF call.kind = "write" THEN stats'.write_sectors ELSE stats'.read_sectors]_vars
  BY CountedNext DEF CountsAll, Moves, SectorCounter
<1> QED BY <1>1, <1>2, <1>3, PTL DEF Spec, CountedOnce
=============================================================================
