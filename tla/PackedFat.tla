----------------------------- MODULE PackedFat -----------------------------
(***************************************************************************)
(* The bytes of the cached FAT (fat12_get_fat_entry, fat12_set_fat_entry):  *)
(* two 12-bit entries share three bytes, so that writing one entry rewrites *)
(* a byte that holds half of its neighbour.  Fat12 uses the FAT as a table  *)
(* of independent entries; this module shows that the packing provides one. *)
(*                                                                         *)
(* x & 0x0F is x % 16, x & 0xF0 is x - x % 16, shifts by 4 and 8 multiply   *)
(* or divide by 16 and 256, and | of disjoint bits is a sum.                *)
(***************************************************************************)
EXTENDS Naturals

CONSTANTS
    FatSizeBytes,   \* g_fs.fat_size_bytes
    BufferBytes,    \* sizeof g_fat_primary
    MaxCluster,     \* the largest cluster number a caller passes
    Values          \* the values callers store

FREE == 0
EOC == 4088
Clusters == 0..MaxCluster
Index(c) == c + (c \div 2)

ASSUME SizeAssumption ==
    /\ MaxCluster \in Nat /\ FatSizeBytes \in Nat /\ BufferBytes \in Nat
    /\ FatSizeBytes <= BufferBytes
    /\ Index(MaxCluster) + 1 < BufferBytes
    /\ Values \subseteq Nat

Bytes == {n \in Nat : n < 256}
Buffers == [0..(BufferBytes - 1) -> Bytes]

\* An entry from its two bytes, and its two bytes from the value stored and
\* what they held: the other half of the shared one stays.
Decode(c, x, y) ==
    IF c % 2 = 0 THEN x + ((y % 16) * 256) ELSE (x \div 16) + (y * 16)
FirstByte(c, x, v) ==
    IF c % 2 = 0 THEN v % 256 ELSE (x % 16) + ((v % 16) * 16)
\* Faulty: the neighbour's half is lost.
SecondByteAlone(c, y, v) ==
    IF c % 2 = 0 THEN v \div 256 ELSE v \div 16
SecondByte(c, y, v) ==
    IF c % 2 = 0 THEN (y - (y % 16)) + (v \div 256) ELSE v \div 16

Unpack(b, c) == Decode(c, b[Index(c)], b[Index(c) + 1])
\* An entry that ends behind the FAT reads as the end of a chain.
Covered(c) == Index(c) + 1 < FatSizeBytes
GetFatEntry(b, c) == IF Covered(c) THEN Unpack(b, c) ELSE EOC

SetFatEntry(b, c, value) ==
    [b EXCEPT ![Index(c)] = FirstByte(c, b[Index(c)], value % 4096),
              ![Index(c) + 1] = SecondByte(c, b[Index(c) + 1], value % 4096)]

VARIABLE g_fat_primary

\* The image builder stores the media descriptor in entries 0 and 1.
Init ==
    g_fat_primary = [i \in 0..(BufferBytes - 1) |->
                        IF i = 0 THEN 248 ELSE IF i \in {1, 2} THEN 255 ELSE 0]

Set(c, v) == g_fat_primary' = SetFatEntry(g_fat_primary, c, v)
Next == \E c \in Clusters \ {0, 1}, v \in Values : Set(c, v)
Spec == Init /\ [][Next]_g_fat_primary

-----------------------------------------------------------------------------
\* Bytes stay bytes.
TypeOK == g_fat_primary \in Buffers

\* The table of entries the rest of the FAT12 layer sees.
Table == [c \in Clusters |-> GetFatEntry(g_fat_primary, c)]

\* Every call of fat12_set_fat_entry writes one entry, with the low 12 bits of
\* the value, and leaves every other entry alone; one that lies behind the
\* FAT's end changes none.  Entries 0 and 1 never change.
WritesOneEntry ==
    [][\E c \in Clusters \ {0, 1}, v \in Values :
          Table' = IF Covered(c) THEN [Table EXCEPT ![c] = v % 4096] ELSE Table]_g_fat_primary
=============================================================================
