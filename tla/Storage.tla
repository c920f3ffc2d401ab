------------------------------ MODULE Storage ------------------------------
(***************************************************************************)
(* The PCI functions the kernel finds (drivers/bus/pci.c), and the table of *)
(* block devices made of them (drivers/storage/storage_manager.c, nvme.c,   *)
(* ahci.c, ata_pio.c).                                                      *)
(*                                                                         *)
(* A function of the bus is the three class bytes of its configuration      *)
(* header and its base addresses.  The bus is a sequence: the functions     *)
(* that answer, in the order they are probed; a device that ignores the     *)
(* function number answers for all eight.                                   *)
(***************************************************************************)
EXTENDS Integers, Sequences, FiniteSetsExt

CONSTANTS
    Buses,          \* the machines the kernel may find itself on
    PciMaxDevices,  \* PCI_MAX_DEVICES
    MaxDevices      \* STORAGE_MAX_DEVICES

STORAGE == 1
SATA == 6
NVME == 8
Types == {"NVMe", "AHCI", "ATA"}

ASSUME StorageAssumption ==
    /\ PciMaxDevices \in Nat \ {0} /\ MaxDevices \in Nat \ {0}
    /\ Buses \subseteq Seq([class : 0..255, subclass : 0..255, prog_if : 0..255,
                            bars : SUBSET {0, 5}])

VARIABLES
    bus,        \* the machine
    pci,        \* pci_devices
    devices,    \* storage_devices: their types
    primary     \* index of primary_device, 0 for none

storageVars == <<bus, pci, devices, primary>>

-----------------------------------------------------------------------------
\* Faulty: the subclass is read one byte late, where the class is.
EntryLate(f) == [class_code |-> f.prog_if, subclass |-> f.class, bars |-> f.bars]
\* What is kept of a function.  PCI_CLASS_CODE is 0x09, where the header has
\* the programming interface; PCI_SUBCLASS_CODE is 0x0A, as in the header.
PciEntry(f) == [class_code |-> f.prog_if, subclass |-> f.subclass, bars |-> f.bars]

PciEnumerate ==
    pci' = [i \in 1..Min({Len(bus), PciMaxDevices}) |-> PciEntry(bus[i])]

Matching(sub) == {i \in DOMAIN pci : pci[i].class_code = STORAGE /\ pci[i].subclass = sub}

\* Faulty: the last device becomes the primary one.
RegisterLast(type, n) ==
    /\ devices' = devices \o [i \in 1..Min({n, MaxDevices - Len(devices)}) |-> type]
    /\ primary' = Len(devices')
\* storage_register_device, n times; the first device becomes the primary one.
Register(type, n) ==
    /\ devices' = devices \o [i \in 1..Min({n, MaxDevices - Len(devices)}) |-> type]
    /\ primary' = IF primary = 0 /\ Len(devices') > 0 THEN 1 ELSE primary

\* One device for each matching function, all of them the first one.
NvmeInit ==
    LET found == Matching(NVME)
        works == found # {} /\ 0 \in pci[Min(found)].bars
    IN Register("NVMe", IF works THEN Cardinality(found) ELSE 0)

AhciInit ==
    LET found == Matching(SATA)
        works == found # {} /\ pci[Min(found)].bars # {}
    IN Register("AHCI", IF works THEN Cardinality(found) ELSE 0)

AtaPioInit(works) == Register("ATA", IF works THEN 1 ELSE 0)

StorageInit ==
    /\ bus \in Buses
    /\ pci = <<>> /\ devices = <<>> /\ primary = 0

-----------------------------------------------------------------------------
\* The primary device is one of the best kind that was found, NVMe before AHCI
\* before ATA (storage_manager.c:38-70), also when the table fills up, and there is
\* one as soon as the table has any device.
Rank == [NVMe |-> 1, AHCI |-> 2, ATA |-> 3]
PrimaryIsBest ==
    IF devices = <<>> THEN primary = 0
    ELSE /\ primary \in DOMAIN devices
         /\ \A i \in DOMAIN devices : Rank[devices[primary]] <= Rank[devices[i]]

\* An AHCI controller (class 01, subclass 06, interface 01) that the probe
\* reached and that has its registers mapped is in the table once the kernel
\* has looked for it, although no field of the table holds its class byte.
IsAhci(f) == f.class = 1 /\ f.subclass = 6 /\ f.prog_if = 1
AhciListed(lookedFor) ==
    LET ahci == {i \in DOMAIN bus : IsAhci(bus[i])} IN
    lookedFor /\ ahci # {} /\ Min(ahci) <= PciMaxDevices /\ bus[Min(ahci)].bars # {}
        /\ Len(devices) < MaxDevices
    => \E i \in DOMAIN devices : devices[i] = "AHCI"
=============================================================================
