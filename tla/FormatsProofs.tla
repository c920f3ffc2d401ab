--------------------------- MODULE FormatsProofs ----------------------------
(***************************************************************************)
(* The two encodings of the volume, for every size: the packed FAT is a     *)
(* table of independent 12-bit entries, and the 8.3 names are what is typed  *)
(* up to its case.                                                          *)
(*                                                                         *)
(* A name that is taken is a base of good characters, or a base, a dot and   *)
(* an extension of good ones (At83), and its field is made of those two     *)
(* parts (GoodIsTaken, TakenIsGood), from which a listing makes a name that  *)
(* has the same parts (ShownIsGood).                                        *)
(***************************************************************************)
EXTENDS PackedFat, ShortNames, Induction, SequenceTheorems

-----------------------------------------------------------------------------
(* The packed FAT *)

\* Bits of a 12-bit value and of a byte, as numbers.
LEMMA Bits ==
    /\ \A w \in Nat : w < 4096 =>
          /\ w % 256 \in Nat /\ w % 256 < 256 /\ w \div 256 \in Nat /\ w \div 256 < 16
          /\ w % 16 \in Nat /\ w % 16 < 16 /\ w \div 16 \in Nat /\ w \div 16 < 256
          /\ (w % 256) + ((w \div 256) * 256) = w
          /\ (w % 16) + ((w \div 16) * 16) = w
    /\ \A y, h \in Nat : y < 256 /\ h < 16 =>
          /\ (y - (y % 16)) + h \in Nat /\ (y - (y % 16)) + h < 256
          /\ ((y - (y % 16)) + h) % 16 = h
          /\ ((y - (y % 16)) + h) \div 16 = y \div 16
          /\ (y % 16) + (h * 16) \in Nat /\ (y % 16) + (h * 16) < 256
          /\ ((y % 16) + (h * 16)) % 16 = y % 16
          /\ ((y % 16) + (h * 16)) \div 16 = h
<1>1. \A w \in Nat : w < 4096 =>
          /\ w % 256 \in Nat /\ w % 256 < 256 /\ w \div 256 \in Nat /\ w \div 256 < 16
          /\ w % 16 \in Nat /\ w % 16 < 16 /\ w \div 16 \in Nat /\ w \div 16 < 256
          /\ (w % 256) + ((w \div 256) * 256) = w
          /\ (w % 16) + ((w \div 16) * 16) = w
  OBVIOUS
<1>2. \A y, h \in Nat : y < 256 /\ h < 16 =>
          /\ (y - (y % 16)) + h \in Nat /\ (y - (y % 16)) + h < 256
          /\ ((y - (y % 16)) + h) % 16 = h
          /\ ((y - (y % 16)) + h) \div 16 = y \div 16
  OBVIOUS
<1>3. \A y, h \in Nat : y < 256 /\ h < 16 =>
          /\ (y % 16) + (h * 16) \in Nat /\ (y % 16) + (h * 16) < 256
          /\ ((y % 16) + (h * 16)) % 16 = y % 16
          /\ ((y % 16) + (h * 16)) \div 16 = h
  OBVIOUS
<1> QED BY <1>1, <1>2, <1>3

\* The two bytes of an entry: what is stored is read back, and the half of the
\* shared byte that belongs to the neighbour is kept.
LEMMA Nibbles ==
    ASSUME NEW c \in Nat, NEW x \in Bytes, NEW y \in Bytes, NEW w \in Nat, w < 4096
    PROVE  /\ FirstByte(c, x, w) \in Bytes
           /\ SecondByte(c, y, w) \in Bytes
           /\ Decode(c, FirstByte(c, x, w), SecondByte(c, y, w)) = w
           /\ c % 2 = 0 => SecondByte(c, y, w) \div 16 = y \div 16
           /\ c % 2 # 0 => FirstByte(c, x, w) % 16 = x % 16
<1>1. CASE c % 2 = 0
  <2>1. PICK l, h \in Nat : l < 256 /\ h < 16 /\ l = w % 256 /\ h = w \div 256 /\ l + (h * 256) = w
    BY Bits
  <2>2. PICK z \in Nat : z < 256 /\ z = (y - (y % 16)) + h
                     /\ z % 16 = h /\ z \div 16 = y \div 16
    BY Bits, <2>1 DEF Bytes
  <2>3. FirstByte(c, x, w) = l /\ SecondByte(c, y, w) = z
    BY <1>1, <2>1, <2>2 DEF FirstByte, SecondByte
  <2>4. Decode(c, l, z) = w
    BY <1>1, <2>1, <2>2 DEF Decode
  <2> QED BY <1>1, <2>1, <2>2, <2>3, <2>4 DEF Bytes
<1>2. CASE c % 2 # 0
  <2>1. PICK h, q \in Nat : h < 16 /\ q < 256 /\ h = w % 16 /\ q = w \div 16 /\ h + (q * 16) = w
    BY Bits
  <2>2. PICK z \in Nat : z < 256 /\ z = (x % 16) + (h * 16)
                     /\ z % 16 = x % 16 /\ z \div 16 = h
    BY Bits, <2>1 DEF Bytes
  <2>3. FirstByte(c, x, w) = z /\ SecondByte(c, y, w) = q
    BY <1>2, <2>1, <2>2 DEF FirstByte, SecondByte
  <2>4. Decode(c, z, q) = w
    BY <1>2, <2>1, <2>2 DEF Decode
  <2> QED BY <1>2, <2>1, <2>2, <2>3, <2>4 DEF Bytes
<1> QED BY <1>1, <1>2

\* What is stored is a byte.
LEMMA ByteTyped ==
    \A c, w \in Nat, x, y \in Bytes :
       w < 4096 => FirstByte(c, x, w) \in Bytes /\ SecondByte(c, y, w) \in Bytes
BY Nibbles

\* Both bytes of an entry lie in the buffer.
LEMMA Positions ==
    ASSUME NEW c \in Clusters
    PROVE  /\ Index(c) \in 0..(BufferBytes - 1)
           /\ Index(c) + 1 \in 0..(BufferBytes - 1)
<1>1. c \in Nat /\ MaxCluster \in Nat /\ c <= MaxCluster /\ BufferBytes \in Nat
  BY SizeAssumption DEF Clusters
<1>2. MaxCluster + (MaxCluster \div 2) + 1 < BufferBytes
  BY SizeAssumption DEF Index
<1>3. c \div 2 \in Nat /\ MaxCluster \div 2 \in Nat /\ c \div 2 <= MaxCluster \div 2
  BY <1>1
<1> QED BY <1>1, <1>2, <1>3 DEF Index

\* Which bytes two entries share.
LEMMA Overlap ==
    ASSUME NEW c \in Nat, NEW d \in Nat, c # d
    PROVE  /\ d # c + 1 \/ c % 2 # 0 => Index(d) # Index(c) + 1
           /\ d + 1 # c \/ c % 2 = 0 => Index(d) + 1 # Index(c)
           /\ Index(c) # Index(d)
BY DEF Index

\* What fat12_set_fat_entry stores, byte by byte.
LEMMA StoredBytes ==
    ASSUME NEW b \in Buffers, NEW c \in Clusters, NEW v \in Nat
    PROVE  \E x, y \in Bytes, w \in Nat, s \in Buffers :
              /\ w = v % 4096 /\ w < 4096 /\ s = SetFatEntry(b, c, v)
              /\ x = b[Index(c)] /\ y = b[Index(c) + 1]
              /\ s[Index(c)] = FirstByte(c, x, w)
              /\ s[Index(c) + 1] = SecondByte(c, y, w)
              /\ \A j \in 0..(BufferBytes - 1) :
                    j # Index(c) /\ j # Index(c) + 1 => s[j] = b[j]
<1>1. PICK w \in Nat : w = v % 4096 /\ w < 4096
  OBVIOUS
<1>2. PICK i, k \in 0..(BufferBytes - 1) : i = Index(c) /\ k = Index(c) + 1 /\ i # k
  BY Positions
<1>3. PICK x, y \in Bytes : x = b[i] /\ y = b[k]
  BY <1>2 DEF Buffers
<1>4. c \in Nat
  BY DEF Clusters
<1>5. PICK p, q \in Bytes : p = FirstByte(c, x, w) /\ q = SecondByte(c, y, w)
  <2>1. w < 4096
    BY <1>1
  <2>2. FirstByte(c, x, w) \in Bytes /\ SecondByte(c, y, w) \in Bytes
    BY <1>1, <1>3, <1>4, <2>1, ByteTyped
  <2> QED BY Zenon, <2>2
<1>6. SetFatEntry(b, c, v) = [b EXCEPT ![i] = p, ![k] = q]
  BY <1>1, <1>2, <1>3, <1>5 DEF SetFatEntry
<1>7. [b EXCEPT ![i] = p, ![k] = q] =
        [j \in 0..(BufferBytes - 1) |-> IF j = k THEN q ELSE IF j = i THEN p ELSE b[j]]
  BY <1>2 DEF Buffers
<1> DEFINE s == SetFatEntry(b, c, v)
<1>8. s \in Buffers
  BY <1>6, <1>7 DEF Buffers
<1>9. /\ s[i] = p /\ s[k] = q
      /\ \A j \in 0..(BufferBytes - 1) : j # i /\ j # k => s[j] = b[j]
  BY <1>2, <1>6, <1>7
<1> HIDE DEF s
<1>10. /\ w = v % 4096 /\ w < 4096 /\ s = SetFatEntry(b, c, v)
       /\ x = b[Index(c)] /\ y = b[Index(c) + 1]
       /\ s[Index(c)] = FirstByte(c, x, w)
       /\ s[Index(c) + 1] = SecondByte(c, y, w)
       /\ \A j \in 0..(BufferBytes - 1) :
             j # Index(c) /\ j # Index(c) + 1 => s[j] = b[j]
  BY <1>1, <1>2, <1>3, <1>5, <1>9 DEF s
<1> WITNESS x \in Bytes, y \in Bytes, w \in Nat, s \in Buffers
<1> QED BY <1>10

\* An entry is read back as it was stored, cut to 12 bits.
LEMMA ReadsBack ==
    ASSUME NEW b \in Buffers, NEW c \in Clusters, NEW v \in Nat
    PROVE  Unpack(SetFatEntry(b, c, v), c) = v % 4096
<1>1. PICK x, y \in Bytes, w \in Nat, s \in Buffers :
              /\ w = v % 4096 /\ w < 4096 /\ s = SetFatEntry(b, c, v)
              /\ s[Index(c)] = FirstByte(c, x, w)
              /\ s[Index(c) + 1] = SecondByte(c, y, w)
  BY StoredBytes
<1>2. c \in Nat
  BY DEF Clusters
<1>3. Decode(c, FirstByte(c, x, w), SecondByte(c, y, w)) = w
  BY <1>1, <1>2, Nibbles
<1> QED BY <1>1, <1>3 DEF Unpack

\* No other entry is disturbed.
LEMMA LeavesOthers ==
    ASSUME NEW b \in Buffers, NEW c \in Clusters, NEW v \in Nat,
           NEW d \in Clusters, c # d
    PROVE  Unpack(SetFatEntry(b, c, v), d) = Unpack(b, d)
<1>1. PICK x, y \in Bytes, w \in Nat, s \in Buffers :
              /\ w = v % 4096 /\ w < 4096 /\ s = SetFatEntry(b, c, v)
              /\ x = b[Index(c)] /\ y = b[Index(c) + 1]
              /\ s[Index(c)] = FirstByte(c, x, w)
              /\ s[Index(c) + 1] = SecondByte(c, y, w)
              /\ \A j \in 0..(BufferBytes - 1) :
                    j # Index(c) /\ j # Index(c) + 1 => s[j] = b[j]
  BY StoredBytes
<1>2. c \in Nat /\ d \in Nat
  BY DEF Clusters
<1>3. /\ Index(d) \in 0..(BufferBytes - 1)
      /\ Index(d) + 1 \in 0..(BufferBytes - 1)
  BY Positions
<1>4. /\ c % 2 = 0 => SecondByte(c, y, w) \div 16 = y \div 16
      /\ c % 2 # 0 => FirstByte(c, x, w) % 16 = x % 16
  <2>1. w < 4096
    BY <1>1
  <2> QED BY <1>2, <2>1, Nibbles
<1>5. CASE d = c + 1 /\ c % 2 = 0
  <2>1. Index(d) = Index(c) + 1 /\ d % 2 # 0 /\ Index(d) + 1 # Index(c) /\ Index(d) + 1 # Index(c) + 1
    BY <1>2, <1>5 DEF Index
  <2>2. s[Index(d)] \div 16 = b[Index(d)] \div 16
    BY <1>1, <1>4, <1>5, <2>1
  <2>3. s[Index(d) + 1] = b[Index(d) + 1]
    BY <1>1, <1>3, <2>1
  <2> QED BY <1>1, <2>1, <2>2, <2>3 DEF Unpack, Decode
<1>6. CASE d + 1 = c /\ c % 2 # 0
  <2>1. Index(d) + 1 = Index(c) /\ d % 2 = 0 /\ Index(d) # Index(c) /\ Index(d) # Index(c) + 1
    BY <1>2, <1>6 DEF Index
  <2>2. s[Index(d) + 1] % 16 = b[Index(d) + 1] % 16
    BY <1>1, <1>4, <1>6, <2>1
  <2>3. s[Index(d)] = b[Index(d)]
    BY <1>1, <1>3, <2>1
  <2> QED BY <1>1, <2>1, <2>2, <2>3 DEF Unpack, Decode
<1>7. CASE (d # c + 1 \/ c % 2 # 0) /\ (d + 1 # c \/ c % 2 = 0)
  <2>1. Index(d) # Index(c) /\ Index(d) # Index(c) + 1
        /\ Index(d) + 1 # Index(c) /\ Index(d) + 1 # Index(c) + 1
    BY <1>2, <1>7, Overlap DEF Index
  <2>2. s[Index(d)] = b[Index(d)] /\ s[Index(d) + 1] = b[Index(d) + 1]
    BY <1>1, <1>3, <2>1
  <2> QED BY <1>1, <2>2 DEF Unpack
<1> QED BY <1>5, <1>6, <1>7

-----------------------------------------------------------------------------
\* The buffer holds bytes, whatever entries are set (fat12_set_fat_entry).
THEOREM BytesStayBytes == Spec => []TypeOK
<1>1. Init => TypeOK
  BY SizeAssumption DEF Init, TypeOK, Buffers, Bytes
<1>2. TypeOK /\ [Next]_g_fat_primary => TypeOK'
  <2> SUFFICES ASSUME TypeOK, Next PROVE TypeOK'
    BY DEF TypeOK
  <2>1. PICK c \in Clusters, v \in Nat : g_fat_primary' = SetFatEntry(g_fat_primary, c, v)
    BY SizeAssumption DEF Next, Set
  <2> QED BY <2>1, StoredBytes DEF TypeOK
<1> QED BY <1>1, <1>2, PTL DEF Spec

\* fat12_set_fat_entry changes the entry it is given and no other, for every
\* size of the FAT: what Fat12 assumes of the cached FAT.
THEOREM EntriesAreIndependent == Spec => WritesOneEntry
<1>1. TypeOK /\ [Next]_g_fat_primary =>
        [\E c \in Clusters \ {0, 1}, v \in Values :
          Table' = IF Covered(c) THEN [Table EXCEPT ![c] = v % 4096] ELSE Table]_g_fat_primary
  <2> SUFFICES ASSUME TypeOK, Next
               PROVE  \E c \in Clusters \ {0, 1}, v \in Values :
                         Table' = IF Covered(c) THEN [Table EXCEPT ![c] = v % 4096] ELSE Table
    OBVIOUS
  <2>1. PICK c \in Clusters \ {0, 1}, v \in Values :
           g_fat_primary' = SetFatEntry(g_fat_primary, c, v)
    BY DEF Next, Set
  <2>2. g_fat_primary \in Buffers /\ c \in Clusters /\ v \in Nat
    BY SizeAssumption DEF TypeOK
  <2>3. Unpack(g_fat_primary', c) = v % 4096
    BY <2>1, <2>2, ReadsBack
  <2>4. \A d \in Clusters : d # c => Unpack(g_fat_primary', d) = Unpack(g_fat_primary, d)
    BY <2>1, <2>2, LeavesOthers
  <2>5. Table' = [d \in Clusters |-> GetFatEntry(g_fat_primary', d)]
    BY DEF Table
  <2>6. \A d \in Clusters : GetFatEntry(g_fat_primary', d) =
           IF d = c /\ Covered(c) THEN v % 4096 ELSE GetFatEntry(g_fat_primary, d)
    BY <2>2, <2>3, <2>4 DEF GetFatEntry
  <2>7. Table' = IF Covered(c) THEN [Table EXCEPT ![c] = v % 4096] ELSE Table
    BY <2>2, <2>5, <2>6 DEF Table
  <2> QED BY <2>7
<1> QED BY <1>1, BytesStayBytes, PTL DEF Spec, WritesOneEntry

-----------------------------------------------------------------------------
(* Characters and their classes *)

Good == Letters \cup Capitals

LEMMA CharClasses ==
    /\ Dot \in Chars /\ Space \in Chars /\ Dot # Space
    /\ Dot \notin Good /\ Space \notin Good /\ Capitals \subseteq Chars
    /\ \A c \in Capitals : ToUpper(c) = c
    /\ \A c \in Chars : /\ ToUpper(c) \in Chars
                        /\ IsValidChar(ToUpper(c)) <=> c \in Good
                        /\ ToUpper(c) = Dot <=> c = Dot
BY NamesAssumption DEF Good, Chars, Capitals, Dot, Space, ToUpper, IsValidChar

LEMMA Sizes ==
    /\ BaseLen \in Nat /\ BaseLen >= 1 /\ ExtLen \in Nat /\ TempLen \in Nat
    /\ BaseLen + 1 + ExtLen < TempLen
BY NamesAssumption

Upped(n) == [i \in DOMAIN n |-> ToUpper(n[i])]

LEMMA UppedIsText ==
    ASSUME NEW n \in Seq(Chars)
    PROVE  /\ Upped(n) \in Seq(Chars) /\ Len(Upped(n)) = Len(n) /\ Len(n) \in Nat
           /\ \A i \in 1..Len(n) : n[i] \in Chars /\ Upped(n)[i] = ToUpper(n[i])
<1>1. Len(n) \in Nat /\ DOMAIN n = 1..Len(n) /\ \A i \in 1..Len(n) : n[i] \in Chars
  BY LenProperties, ElementOfSeq
<1>2. \A i \in 1..Len(n) : ToUpper(n[i]) \in Chars
  BY <1>1, CharClasses
<1>3. Upped(n) = [i \in 1..Len(n) |-> ToUpper(n[i])]
  BY <1>1 DEF Upped
<1>4. Upped(n) \in Seq(Chars) /\ Len(Upped(n)) = Len(n)
  BY <1>1, <1>2, <1>3
<1> QED BY <1>1, <1>3, <1>4

\* The place of the first dot, or behind the text.
FirstDot(t) == SelectInSeq(t \o <<Dot>>, LAMBDA c : c = Dot)

LEMMA FirstDotFound ==
    ASSUME NEW t \in Seq(Chars)
    PROVE  /\ FirstDot(t) \in 1..(Len(t) + 1) /\ Len(t) \in Nat
           /\ FirstDot(t) <= Len(t) => t[FirstDot(t)] = Dot
           /\ \A i \in 1..Len(t) : i < FirstDot(t) => t[i] # Dot
<1> DEFINE d == t \o <<Dot>>
           I == {i \in 1..Len(d) : d[i] = Dot}
<1>1. /\ Len(t) \in Nat /\ Len(d) = Len(t) + 1
      /\ \A i \in 1..Len(t) : d[i] = t[i]
      /\ d[Len(t) + 1] = Dot
  <2>1. Len(t) \in Nat
    BY LenProperties
  <2>2. <<Dot>> \in Seq(Chars) /\ Len(<<Dot>>) = 1 /\ <<Dot>>[1] = Dot
    BY CharClasses
  <2>3. /\ Len(d) = Len(t) + 1
        /\ \A i \in 1..(Len(t) + 1) : d[i] = IF i <= Len(t) THEN t[i] ELSE <<Dot>>[i - Len(t)]
    BY <2>2, ConcatProperties
  <2> QED BY <2>1, <2>2, <2>3
<1> HIDE DEF d
<1>2. I \in SUBSET Nat /\ I # {} /\ Len(t) + 1 \in I
  BY <1>1
<1>3. PICK m \in I : \A k \in I : m <= k
  BY <1>2, LeastNumber
<1>4. Min(I) \in I /\ \A k \in I : Min(I) <= k
  BY <1>3, Zenon DEF Min
<1>5. FirstDot(t) = Min(I)
  BY <1>2, Zenon DEF FirstDot, SelectInSeq, d
<1>6. FirstDot(t) \in I /\ \A k \in I : FirstDot(t) <= k
  BY <1>4, <1>5
<1> QED BY <1>1, <1>6

LEMMA FirstDotIs ==
    ASSUME NEW t \in Seq(Chars), NEW b \in 0..Len(t),
           b < Len(t) => t[b + 1] = Dot, \A i \in 1..b : t[i] # Dot
    PROVE  FirstDot(t) = b + 1
<1>1. /\ FirstDot(t) \in 1..(Len(t) + 1) /\ Len(t) \in Nat
      /\ FirstDot(t) <= Len(t) => t[FirstDot(t)] = Dot
      /\ \A i \in 1..Len(t) : i < FirstDot(t) => t[i] # Dot
  BY FirstDotFound
<1>2. ~(FirstDot(t) <= b)
  BY <1>1
<1>3. ~(FirstDot(t) > b + 1)
  BY <1>1
<1> QED BY <1>1, <1>2, <1>3

-----------------------------------------------------------------------------
(* What a field shows *)

ShowTable(s, h) ==
    h = [x \in SUBSET (DOMAIN s) |->
           IF x = {} THEN <<>> ELSE Show(h[x \ {Max(x)}], s[Max(x)])]
ShowSteps(n, s, f) ==
    /\ f[0] = <<>> /\ f[n] = Shown(s)
    /\ \A k \in 0..n : k < n => f[k + 1] = Show(f[k], s[k + 1])

LEMMA ShownByTable ==
    ASSUME NEW s
    PROVE  Shown(s) = (CHOOSE h : ShowTable(s, h))[DOMAIN s]
  BY Zenon DEF Shown, FoldLeft, MapThenFoldSet, ShowTable

LEMMA ShownCourse ==
    ASSUME NEW S, <<>> \in S, NEW s, NEW n \in Nat, DOMAIN s = 1..n,
           \A d \in S, i \in 1..n : Show(d, s[i]) \in S
    PROVE  \E f \in [0..n -> S] : ShowSteps(n, s, f)
<1> DEFINE g == [p \in (1..n) \X S |-> Show(p[2], s[p[1]])]
           h == CHOOSE h : ShowTable(s, h)
<1>1. g \in [(1..n) \X S -> S] /\ \A i \in 1..n, d \in S : g[i, d] = Show(d, s[i])
  OBVIOUS
<1> HIDE DEF g
<1>2. \E t : ShowTable(s, t)
  <2>1. PICK t \in [SUBSET (1..n) -> S] : FoldTable(n, <<>>, g, t)
    BY <1>1, FoldExists
  <2>2. ASSUME NEW x \in SUBSET (1..n), x # {}
        PROVE  t[x] = Show(t[x \ {Max(x)}], s[Max(x)])
    <3>1. Max(x) \in 1..n /\ t[x \ {Max(x)}] \in S
      BY <2>2, LargestOf
    <3>2. t[x] = g[Max(x), t[x \ {Max(x)}]]
      BY <2>1, <2>2 DEF FoldTable
    <3> QED BY <1>1, <3>1, <3>2
  <2>3. t[{}] = <<>>
    BY <2>1 DEF FoldTable
  <2>4. t = [x \in SUBSET (1..n) |-> t[x]]
    OBVIOUS
  <2>5. t = [x \in SUBSET (1..n) |-> IF x = {} THEN <<>> ELSE Show(t[x \ {Max(x)}], s[Max(x)])]
    BY <2>2, <2>3, <2>4, Zenon
  <2> QED BY <2>5, Zenon DEF ShowTable
<1>3. ShowTable(s, h)
  BY <1>2, Zenon
<1>4. Shown(s) = h[1..n]
  BY ShownByTable, Zenon
<1> HIDE DEF h
<1>5. h = [x \in SUBSET (1..n) |-> IF x = {} THEN <<>> ELSE Show(h[x \ {Max(x)}], s[Max(x)])]
  BY <1>3, Zenon DEF ShowTable
<1>6. h[{}] = <<>>
  BY <1>5
<1>7. FoldSteps(n, S, g, h)
  <2>1. SUFFICES ASSUME NEW x \in SUBSET (1..n), x # {}, h[x \ {Max(x)}] \in S
                 PROVE  h[x] = g[Max(x), h[x \ {Max(x)}]]
    BY DEF FoldSteps
  <2>2. h[x] = Show(h[x \ {Max(x)}], s[Max(x)])
    BY <1>5, <2>1, Zenon
  <2>3. Max(x) \in 1..n
    BY <2>1, LargestOf
  <2> QED BY <1>1, <2>1, <2>2, <2>3
<1>8. PICK f \in [0..n -> S] : Course(n, <<>>, g, f, h[1..n])
  BY <1>1, <1>6, <1>7, FoldCourse
<1>9. f[0] = <<>> /\ f[n] = Shown(s)
  BY <1>4, <1>8, Zenon DEF Course
<1>10. ASSUME NEW k \in 0..n, k < n PROVE f[k + 1] = Show(f[k], s[k + 1])
  <2>1. f[k + 1] = g[k + 1, f[k]]
    BY <1>8, <1>10, Zenon DEF Course
  <2>2. k + 1 \in 1..n /\ f[k] \in S
    BY <1>10
  <2> QED BY <1>1, <2>1, <2>2
<1> QED BY <1>9, <1>10 DEF ShowSteps

LEMMA PaddedIsText ==
    ASSUME NEW n \in Nat, NEW s \in Seq(Capitals), Len(s) <= n
    PROVE  /\ Padded(s, n) \in [1..n -> Chars] /\ Padded(s, n) \in Seq(Chars)
           /\ Len(Padded(s, n)) = n /\ Len(s) \in Nat
           /\ \A i \in 1..n : Padded(s, n)[i] = IF i <= Len(s) THEN s[i] ELSE Space
           /\ \A i \in 1..Len(s) : s[i] \in Capitals /\ s[i] \in Chars /\ s[i] # Space
<1>1. Len(s) \in Nat /\ \A i \in 1..Len(s) : s[i] \in Capitals
  BY LenProperties, ElementOfSeq
<1>2. \A i \in 1..Len(s) : s[i] \in Chars /\ s[i] # Space
  BY <1>1, CharClasses DEF Good
<1>3. \A i \in 1..n : (IF i <= Len(s) THEN s[i] ELSE Space) \in Chars
  BY <1>1, <1>2, CharClasses
<1>4. Padded(s, n) \in [1..n -> Chars]
  BY <1>3 DEF Padded
<1>5. Padded(s, n) \in Seq(Chars) /\ Len(Padded(s, n)) = n
  BY <1>3 DEF Padded
<1>6. \A i \in 1..n : Padded(s, n)[i] = IF i <= Len(s) THEN s[i] ELSE Space
  BY DEF Padded
<1> QED BY <1>1, <1>2, <1>4, <1>5, <1>6

\* The spaces a part is filled up with are not shown.
LEMMA ShownPadded ==
    ASSUME NEW n \in Nat, NEW s \in Seq(Capitals), Len(s) <= n
    PROVE  Shown(Padded(s, n)) = s
<1> DEFINE p == Padded(s, n)
<1>1. /\ p \in [1..n -> Chars] /\ Len(s) \in Nat
      /\ \A i \in 1..n : p[i] = IF i <= Len(s) THEN s[i] ELSE Space
      /\ \A i \in 1..Len(s) : s[i] \in Chars /\ s[i] # Space
  BY PaddedIsText
<1> HIDE DEF p
<1>2. PICK f \in [0..n -> Seq(Chars)] : ShowSteps(n, p, f)
  <2>1. DOMAIN p = 1..n
    BY <1>1
  <2>2. <<>> \in Seq(Chars)
    BY EmptySeq
  <2>3. ASSUME NEW d \in Seq(Chars), NEW i \in 1..n PROVE Show(d, p[i]) \in Seq(Chars)
    <3>1. p[i] \in Chars
      BY <1>1
    <3>2. Append(d, p[i]) \in Seq(Chars)
      BY <3>1, AppendProperties
    <3> QED BY <3>2 DEF Show
  <2> QED BY <2>1, <2>2, <2>3, ShownCourse
<1> DEFINE T == {k \in 0..n : /\ Len(f[k]) = IF k <= Len(s) THEN k ELSE Len(s)
                              /\ \A i \in 1..Len(f[k]) : f[k][i] = s[i]}
<1>3. 0 \in T
  BY <1>1, <1>2, EmptySeq DEF ShowSteps
<1>4. \A k \in 0..n : k \in T /\ k < n => k + 1 \in T
  <2>1. TAKE k \in 0..n
  <2>2. HAVE k \in T /\ k < n
  <2>3. k + 1 \in 0..n /\ k + 1 \in 1..n /\ f[k] \in Seq(Chars) /\ Len(f[k]) \in Nat
    BY <2>2, LenProperties
  <2>4. f[k + 1] = Show(f[k], p[k + 1])
    BY <1>2, <2>2 DEF ShowSteps
  <2>5. CASE k + 1 <= Len(s)
    <3>1. p[k + 1] = s[k + 1] /\ s[k + 1] \in Chars /\ s[k + 1] # Space
      BY <1>1, <2>3, <2>5
    <3>2. f[k + 1] = Append(f[k], s[k + 1]) /\ Len(f[k]) = k
      BY <1>1, <2>2, <2>4, <2>5, <3>1 DEF Show
    <3>3. /\ Len(f[k + 1]) = k + 1
          /\ \A i \in 1..k : f[k + 1][i] = f[k][i]
          /\ f[k + 1][k + 1] = s[k + 1]
      BY <2>3, <3>1, <3>2, AppendProperties
    <3>4. \A i \in 1..k : f[k + 1][i] = s[i]
      BY <2>2, <3>2, <3>3
    <3>5. \A i \in 1..(k + 1) : f[k + 1][i] = s[i]
      BY <2>3, <3>3, <3>4
    <3> QED BY <2>3, <2>5, <3>3, <3>5
  <2>6. CASE ~(k + 1 <= Len(s))
    <3>1. p[k + 1] = Space
      BY <1>1, <2>3, <2>6
    <3>2. f[k + 1] = f[k]
      BY <2>4, <3>1 DEF Show
    <3>3. (IF k <= Len(s) THEN k ELSE Len(s)) = Len(s)
      BY <1>1, <2>3, <2>6
    <3> QED BY <2>2, <2>3, <2>6, <3>2, <3>3
  <2> QED BY <2>5, <2>6
<1> HIDE DEF T
<1>5. n \in T
  <2>1. \A k \in 0..n : k \in T
    BY <1>3, <1>4, NumbersUpTo, Zenon
  <2>2. n \in 0..n
    OBVIOUS
  <2> QED BY <2>1, <2>2
<1>6. f[n] = Shown(p) /\ f[n] \in Seq(Chars)
  BY <1>2 DEF ShowSteps
<1>7. Len(f[n]) = Len(s) /\ \A i \in 1..Len(f[n]) : f[n][i] = s[i]
  BY <1>1, <1>5 DEF T
<1>8. s \in Seq(Chars)
  <2>1. Capitals \subseteq Chars
    BY CharClasses
  <2> QED BY <2>1, SeqMonotonic
<1> QED BY <1>6, <1>7, <1>8, SeqEqual DEF p

\* A field as the code fills it.
LEMMA FieldParts ==
    ASSUME NEW base \in Seq(Capitals), NEW ext \in Seq(Capitals),
           Len(base) <= BaseLen, Len(ext) <= ExtLen
    PROVE  /\ SubSeq(Field(base, ext), 1, BaseLen) = Padded(base, BaseLen)
           /\ SubSeq(Field(base, ext), BaseLen + 1, BaseLen + ExtLen) = Padded(ext, ExtLen)
           /\ HasExt(Field(base, ext)) <=> ext # <<>>
           /\ Field(base, ext) # Invalid
<1> DEFINE p == Padded(base, BaseLen)
           q == Padded(ext, ExtLen)
           r == Field(base, ext)
<1>1. BaseLen \in Nat /\ BaseLen >= 1 /\ ExtLen \in Nat
  BY Sizes
<1>2. p \in Seq(Chars) /\ Len(p) = BaseLen
  BY <1>1, PaddedIsText
<1>3. /\ q \in Seq(Chars) /\ Len(q) = ExtLen /\ Len(ext) \in Nat
      /\ \A i \in 1..ExtLen : q[i] = IF i <= Len(ext) THEN ext[i] ELSE Space
      /\ \A i \in 1..Len(ext) : ext[i] # Space
  BY <1>1, PaddedIsText
<1>4. r = p \o q
  BY DEF Field
<1> HIDE DEF p, q, r
<1>5. /\ r \in Seq(Chars) /\ Len(r) = BaseLen + ExtLen
      /\ \A i \in 1..(BaseLen + ExtLen) : r[i] = IF i <= BaseLen THEN p[i] ELSE q[i - BaseLen]
  <2>1. /\ p \o q \in Seq(Chars) /\ Len(p \o q) = Len(p) + Len(q)
        /\ \A i \in 1..(Len(p) + Len(q)) : (p \o q)[i] = IF i <= Len(p) THEN p[i] ELSE q[i - Len(p)]
    BY <1>2, <1>3, ConcatProperties
  <2> QED BY <1>2, <1>3, <1>4, <2>1
<1>6. \A i \in 1..(BaseLen + ExtLen) : r[i] \in Chars
  BY <1>5, ElementOfSeq
<1>7. SubSeq(r, 1, BaseLen) = p
  <2>1. \A i \in 1..BaseLen : r[i] \in Chars
    BY <1>1, <1>6
  <2>2. /\ SubSeq(r, 1, BaseLen) \in Seq(Chars) /\ Len(SubSeq(r, 1, BaseLen)) = BaseLen
        /\ \A i \in 1..BaseLen : SubSeq(r, 1, BaseLen)[i] = r[i]
    BY <1>1, <2>1
  <2>3. \A i \in 1..BaseLen : SubSeq(r, 1, BaseLen)[i] = p[i]
    BY <1>1, <1>5, <2>2
  <2> QED BY <1>2, <2>2, <2>3, SeqEqual
<1>8. SubSeq(r, BaseLen + 1, BaseLen + ExtLen) = q
  <2> DEFINE u == SubSeq(r, BaseLen + 1, BaseLen + ExtLen)
  <2>1. \A i \in (BaseLen + 1)..(BaseLen + ExtLen) : r[i] \in Chars
    BY <1>1, <1>6
  <2>2. BaseLen + 1 \in Int /\ BaseLen + ExtLen \in Int
    BY <1>1
  <2>3. /\ u \in Seq(Chars)
        /\ Len(u) = IF BaseLen + 1 <= BaseLen + ExtLen THEN (BaseLen + ExtLen) - (BaseLen + 1) + 1 ELSE 0
        /\ \A i \in 1..((BaseLen + ExtLen) - (BaseLen + 1) + 1) : u[i] = r[(BaseLen + 1) + i - 1]
    BY <2>1, <2>2, SubSeqProperties
  <2> HIDE DEF u
  <2>4. Len(u) = ExtLen
    BY <1>1, <2>3
  <2>5. ASSUME NEW i \in 1..ExtLen PROVE u[i] = q[i]
    <3>1. u[i] = r[BaseLen + i]
      BY <1>1, <2>3
    <3>2. BaseLen + i \in 1..(BaseLen + ExtLen) /\ ~(BaseLen + i <= BaseLen)
          /\ (BaseLen + i) - BaseLen = i
      BY <1>1
    <3> QED BY <1>5, <3>1, <3>2
  <2>6. u = q
    BY <1>3, <2>3, <2>4, <2>5, SeqEqual
  <2> QED BY <2>6 DEF u
<1>9. HasExt(r) <=> ext # <<>>
  <2>1. ASSUME NEW i \in (BaseLen + 1)..(BaseLen + ExtLen)
        PROVE  r[i] = q[i - BaseLen] /\ i - BaseLen \in 1..ExtLen
    BY <1>1, <1>5
  <2>2. ASSUME HasExt(r) PROVE ext # <<>>
    <3>1. PICK i \in (BaseLen + 1)..(BaseLen + ExtLen) : r[i] # Space
      BY <2>2 DEF HasExt
    <3>2. q[i - BaseLen] # Space /\ i - BaseLen \in 1..ExtLen
      BY <2>1, <3>1
    <3>3. i - BaseLen <= Len(ext)
      BY <1>3, <3>2
    <3>4. Len(ext) # 0
      BY <1>1, <1>3, <3>2, <3>3
    <3> QED BY <3>4, EmptySeq
  <2>3. ASSUME ext # <<>> PROVE HasExt(r)
    <3>1. Len(ext) # 0
      BY <2>3, EmptySeq
    <3>2. 1 \in 1..ExtLen /\ q[1] # Space
      BY <1>1, <1>3, <3>1
    <3>3. BaseLen + 1 \in (BaseLen + 1)..(BaseLen + ExtLen) /\ (BaseLen + 1) - BaseLen = 1
      BY <1>1, <3>2
    <3>4. r[BaseLen + 1] # Space
      BY <2>1, <3>2, <3>3
    <3> QED BY <3>3, <3>4 DEF HasExt
  <2> QED BY <2>2, <2>3
<1>10. r # Invalid
  <2>1. Len(r) >= 1
    BY <1>1, <1>5
  <2> QED BY <2>1, EmptySeq DEF Invalid
<1> QED BY <1>7, <1>8, <1>9, <1>10 DEF p, q, r

DotIfExt(ext) == IF ext # <<>> THEN <<Dot>> ELSE <<>>

\* What a listing shows of a field is its base, and its extension if it has one.
LEMMA FieldIsShown ==
    ASSUME NEW base \in Seq(Capitals), NEW ext \in Seq(Capitals),
           base # <<>>, Len(base) <= BaseLen, Len(ext) <= ExtLen
    PROVE  LET d == DirNameToString(Field(base, ext)) IN
           /\ d \in Seq(Chars)
           /\ Len(base) \in Nat \ {0} /\ Len(ext) \in Nat
           /\ Len(d) = IF ext # <<>> THEN Len(base) + 1 + Len(ext) ELSE Len(base)
           /\ \A i \in 1..Len(base) : d[i] = base[i]
           /\ ext # <<>> => /\ d[Len(base) + 1] = Dot
                            /\ \A i \in 1..Len(ext) : d[Len(base) + 1 + i] = ext[i]
<1> DEFINE d == DirNameToString(Field(base, ext))
           t == (base \o DotIfExt(ext)) \o ext
<1>1. BaseLen \in Nat /\ ExtLen \in Nat
  BY Sizes
<1>2. Shown(Padded(base, BaseLen)) = base /\ Shown(Padded(ext, ExtLen)) = ext
  BY <1>1, ShownPadded
<1>3. base \in Seq(Chars) /\ ext \in Seq(Chars)
  <2>1. Capitals \subseteq Chars
    BY CharClasses
  <2> QED BY <2>1, SeqMonotonic
<1>4. Len(base) \in Nat \ {0} /\ Len(ext) \in Nat /\ (ext # <<>> => Len(ext) # 0)
  BY <1>3, EmptySeq, LenProperties
<1>5. d = IF t = <<>> THEN <<"?">> ELSE t
  BY <1>2, FieldParts, Zenon DEF DirNameToString, DotIfExt
<1> HIDE DEF d
<1>6. CASE ext = <<>>
  <2>1. t = base
    BY <1>3, <1>6, ConcatEmptySeq DEF DotIfExt
  <2> HIDE DEF t
  <2>2. d = base
    BY <1>5, <2>1
  <2> QED BY <1>3, <1>4, <1>6, <2>2 DEF d
<1>7. CASE ext # <<>>
  <2> DEFINE b == base \o <<Dot>>
  <2>1. t = b \o ext
    BY <1>7 DEF DotIfExt
  <2> HIDE DEF t
  <2>2. <<Dot>> \in Seq(Chars) /\ Len(<<Dot>>) = 1 /\ <<Dot>>[1] = Dot
    BY CharClasses
  <2>3. /\ b \in Seq(Chars) /\ Len(b) = Len(base) + 1
        /\ \A i \in 1..(Len(base) + 1) : b[i] = IF i <= Len(base) THEN base[i] ELSE <<Dot>>[i - Len(base)]
    BY <1>3, <2>2, ConcatProperties
  <2> HIDE DEF b
  <2>4. /\ t \in Seq(Chars) /\ Len(t) = Len(b) + Len(ext)
        /\ \A i \in 1..(Len(b) + Len(ext)) : t[i] = IF i <= Len(b) THEN b[i] ELSE ext[i - Len(b)]
    BY <1>3, <2>1, <2>3, ConcatProperties
  <2>5. Len(t) = Len(base) + 1 + Len(ext)
    BY <1>4, <2>3, <2>4
  <2>6. ASSUME NEW i \in 1..Len(base) PROVE t[i] = base[i]
    BY <1>4, <2>3, <2>4
  <2>7. t[Len(base) + 1] = Dot
    <3>1. b[Len(base) + 1] = Dot
      BY <1>4, <2>2, <2>3
    <3> QED BY <1>4, <2>3, <2>4, <3>1
  <2>8. ASSUME NEW i \in 1..Len(ext) PROVE t[Len(base) + 1 + i] = ext[i]
    <3>1. Len(base) + 1 + i \in 1..(Len(b) + Len(ext)) /\ ~(Len(base) + 1 + i <= Len(b))
          /\ (Len(base) + 1 + i) - Len(b) = i
      BY <1>4, <2>3
    <3> QED BY <2>4, <3>1
  <2>9. t # <<>>
    BY <1>4, <2>5, EmptySeq
  <2>10. d = t
    BY <1>5, <2>9
  <2> QED BY <1>4, <1>7, <2>4, <2>5, <2>6, <2>7, <2>8, <2>10 DEF d
<1> QED BY <1>6, <1>7

-----------------------------------------------------------------------------
(* What becomes of a typed name *)

\* The text is an 8.3 name whose base has b characters.
At83(n, b) ==
    /\ b <= Len(n) /\ \A i \in 1..b : n[i] \in Good
    /\ \/ Len(n) = b
       \/ /\ Len(n) - b - 1 \in 0..ExtLen /\ n[b + 1] = Dot
          /\ \A i \in (b + 2)..Len(n) : n[i] \in Good

LEMMA Is83Somewhere ==
    ASSUME NEW n
    PROVE  Is83(n) <=> \E b \in 1..BaseLen : At83(n, b)
  BY Zenon DEF Is83, At83, Good

BaseOf(n, b) == SubSeq(Upped(n), 1, b)
ExtOf(n, b) == SubSeq(Upped(n), b + 2, Len(n))

\* What the base and the extension of a name consist of.
LEMMA PartsOf ==
    ASSUME NEW n \in Seq(Chars), NEW b \in 1..BaseLen, At83(n, b)
    PROVE  /\ b \in Nat /\ b >= 1 /\ b <= Len(n) /\ Len(n) \in Nat
           /\ BaseOf(n, b) \in Seq(Capitals) /\ Len(BaseOf(n, b)) = b /\ BaseOf(n, b) # <<>>
           /\ \A i \in 1..b : BaseOf(n, b)[i] = ToUpper(n[i]) /\ n[i] \in Good
           /\ ExtOf(n, b) \in Seq(Capitals)
           /\ Len(ExtOf(n, b)) = IF Len(n) > b + 1 THEN Len(n) - b - 1 ELSE 0
           /\ Len(ExtOf(n, b)) <= ExtLen
           /\ \A i \in 1..(Len(n) - b - 1) :
                 ExtOf(n, b)[i] = ToUpper(n[b + 1 + i]) /\ n[b + 1 + i] \in Good
           /\ ExtOf(n, b) # <<>> <=> Len(n) > b + 1
           /\ Len(n) > b => n[b + 1] = Dot
           /\ Len(n) <= BaseLen + 1 + ExtLen
<1> DEFINE u == Upped(n)
           base == BaseOf(n, b)
           ext == ExtOf(n, b)
<1>1. BaseLen \in Nat /\ ExtLen \in Nat
  BY Sizes
<1>2. Len(n) \in Nat /\ \A i \in 1..Len(n) : n[i] \in Chars /\ u[i] = ToUpper(n[i])
  BY UppedIsText
<1>3. b \in Nat /\ b >= 1 /\ b <= Len(n) /\ \A i \in 1..b : n[i] \in Good
  BY <1>1 DEF At83
<1>4. /\ Len(n) > b => Len(n) - b - 1 \in 0..ExtLen /\ n[b + 1] = Dot
      /\ \A i \in (b + 2)..Len(n) : n[i] \in Good
  BY <1>2, <1>3 DEF At83
<1>5. \A c \in Good : c \in Chars /\ ToUpper(c) \in Capitals
  BY CharClasses DEF Good, IsValidChar, Chars
<1>6. \A i \in 1..b : u[i] = ToUpper(n[i]) /\ u[i] \in Capitals
  BY <1>2, <1>3, <1>5
<1>7. \A i \in (b + 2)..Len(n) : u[i] = ToUpper(n[i]) /\ u[i] \in Capitals
  BY <1>2, <1>3, <1>4, <1>5
<1> HIDE DEF u
<1>8. base = SubSeq(u, 1, b) /\ ext = SubSeq(u, b + 2, Len(n))
  BY DEF BaseOf, ExtOf, u
<1> HIDE DEF base, ext
<1>9. /\ base \in Seq(Capitals) /\ Len(base) = b
      /\ \A i \in 1..b : base[i] = u[i]
  <2>1. 1 \in Int /\ b \in Int
    BY <1>3
  <2>2. /\ base \in Seq(Capitals)
        /\ Len(base) = IF 1 <= b THEN b - 1 + 1 ELSE 0
        /\ \A i \in 1..(b - 1 + 1) : base[i] = u[1 + i - 1]
    BY <1>6, <1>8, <2>1, SubSeqProperties
  <2> QED BY <1>3, <2>2
<1>10. /\ ext \in Seq(Capitals)
       /\ Len(ext) = IF Len(n) > b + 1 THEN Len(n) - b - 1 ELSE 0
       /\ \A i \in 1..(Len(n) - b - 1) : ext[i] = u[b + 1 + i]
  <2>1. b + 2 \in Int /\ Len(n) \in Int
    BY <1>2, <1>3
  <2>2. /\ ext \in Seq(Capitals)
        /\ Len(ext) = IF b + 2 <= Len(n) THEN Len(n) - (b + 2) + 1 ELSE 0
        /\ \A i \in 1..(Len(n) - (b + 2) + 1) : ext[i] = u[(b + 2) + i - 1]
    BY <1>7, <1>8, <2>1, SubSeqProperties
  <2>3. Len(n) - (b + 2) + 1 = Len(n) - b - 1 /\ (b + 2 <= Len(n) <=> Len(n) > b + 1)
    BY <1>2, <1>3
  <2>4. \A i \in 1..(Len(n) - b - 1) : (b + 2) + i - 1 = b + 1 + i
    BY <1>2, <1>3
  <2> QED BY <2>2, <2>3, <2>4
<1>11. Len(ext) <= ExtLen
  BY <1>1, <1>2, <1>3, <1>4, <1>10
<1>12. ASSUME NEW i \in 1..(Len(n) - b - 1)
       PROVE  ext[i] = ToUpper(n[b + 1 + i]) /\ n[b + 1 + i] \in Good
  <2>1. b + 1 + i \in (b + 2)..Len(n)
    BY <1>2, <1>3
  <2> QED BY <1>4, <1>7, <1>10, <2>1
<1>13. base # <<>>
  BY <1>3, <1>9, EmptySeq
<1>14. ext # <<>> <=> Len(n) > b + 1
  <2>1. ext # <<>> <=> Len(ext) # 0
    BY <1>10, EmptySeq
  <2> QED BY <1>2, <1>3, <1>10, <2>1
<1>15. Len(n) <= BaseLen + 1 + ExtLen
  BY <1>1, <1>2, <1>3, <1>4
<1> QED BY <1>2, <1>3, <1>4, <1>6, <1>9, <1>10, <1>11, <1>12, <1>13, <1>14, <1>15 DEF base, ext

Dots(t) == {i \in DOMAIN t : t[i] = Dot}
ExtIn(t, b) == IF Dots(t) = {} THEN <<>> ELSE SubSeq(t, b + 2, Len(t))
AllValid(s) == \A i \in DOMAIN s : IsValidChar(s[i])
\* What fat12_make_short_name tests of the text it copied.
Taken(t, b) ==
    /\ Cardinality(Dots(t)) <= 1
    /\ b \in 1..BaseLen /\ Len(ExtIn(t, b)) <= ExtLen
    /\ AllValid(SubSeq(t, 1, b)) /\ AllValid(ExtIn(t, b))

LEMMA ShortNameOf ==
    ASSUME NEW n
    PROVE  LET t == Temp(n)
               b == FirstDot(t) - 1
           IN MakeShortName(n) = IF Taken(t, b) THEN Field(SubSeq(t, 1, b), ExtIn(t, b)) ELSE Invalid
  BY Zenon DEF MakeShortName, Taken, AllValid, ExtIn, Dots, FirstDot

LEMMA TempOf ==
    ASSUME NEW n \in Seq(Chars)
    PROVE  /\ Temp(n) \in Seq(Chars)
           /\ Len(Temp(n)) = IF Len(n) < TempLen THEN Len(n) ELSE TempLen
           /\ Len(n) < TempLen => Temp(n) = Upped(n)
<1>1. TempLen \in Nat /\ Len(n) \in Nat /\ DOMAIN n = 1..Len(n)
  BY Sizes, LenProperties
<1>2. \A i \in 1..Len(n) : ToUpper(n[i]) \in Chars
  BY UppedIsText, CharClasses
<1> DEFINE k == IF Len(n) < TempLen THEN Len(n) ELSE TempLen
<1>3. k \in Nat /\ \A i \in 1..k : i \in 1..Len(n)
  BY <1>1
<1>4. Temp(n) = [i \in 1..k |-> ToUpper(n[i])]
  BY Zenon DEF Temp
<1> HIDE DEF k
<1>5. Temp(n) \in Seq(Chars) /\ Len(Temp(n)) = k
  BY <1>2, <1>3, <1>4
<1>6. ASSUME Len(n) < TempLen PROVE Temp(n) = Upped(n)
  <2>1. k = Len(n)
    BY <1>6 DEF k
  <2> QED BY <1>1, <1>4, <2>1, Zenon DEF Upped
<1> QED BY <1>5, <1>6 DEF k

\* A good name is taken as it is.
LEMMA GoodIsTaken ==
    ASSUME NEW n \in Seq(Chars), NEW b \in 1..BaseLen, At83(n, b)
    PROVE  MakeShortName(n) = Field(BaseOf(n, b), ExtOf(n, b))
<1> DEFINE t == Upped(n)
<1>1. BaseLen \in Nat /\ ExtLen \in Nat /\ TempLen \in Nat /\ BaseLen + 1 + ExtLen < TempLen
  BY Sizes
<1>2. /\ b \in Nat /\ b >= 1 /\ b <= Len(n) /\ Len(n) \in Nat
      /\ Len(n) > b => n[b + 1] = Dot
      /\ Len(n) <= BaseLen + 1 + ExtLen
      /\ \A i \in 1..b : n[i] \in Good
      /\ \A i \in 1..(Len(n) - b - 1) : n[b + 1 + i] \in Good
  BY PartsOf
<1>3. Temp(n) = t
  BY <1>1, <1>2, TempOf
<1>4. /\ t \in Seq(Chars) /\ Len(t) = Len(n) /\ DOMAIN t = 1..Len(n)
      /\ \A i \in 1..Len(n) : n[i] \in Chars /\ t[i] = ToUpper(n[i])
  BY UppedIsText, LenProperties
<1> HIDE DEF t
<1>5. \A i \in 1..Len(n) : t[i] = Dot <=> n[i] = Dot
  BY <1>4, CharClasses
<1>6. ASSUME NEW i \in 1..Len(n), i # b + 1 PROVE n[i] # Dot
  <2>1. n[i] \in Good
    <3>1. CASE i <= b
      BY <1>2, <3>1
    <3>2. CASE i > b + 1
      <4>1. i - b - 1 \in 1..(Len(n) - b - 1) /\ b + 1 + (i - b - 1) = i
        BY <1>2, <3>2
      <4> QED BY <1>2, <4>1
    <3> QED BY <1>2, <1>6, <3>1, <3>2
  <2> QED BY <2>1, CharClasses
<1>7. FirstDot(t) = b + 1
  <2>1. b \in 0..Len(t)
    BY <1>2, <1>4
  <2>2. b < Len(t) => t[b + 1] = Dot
    BY <1>2, <1>4, <1>5
  <2>3. \A i \in 1..b : t[i] # Dot
    BY <1>2, <1>5, <1>6
  <2> QED BY <1>4, <2>1, <2>2, <2>3, FirstDotIs
<1>8. FirstDot(t) - 1 = b
  BY <1>2, <1>7
<1>9. Dots(t) = IF Len(n) > b THEN {b + 1} ELSE {}
  <2>1. \A i \in Dots(t) : i = b + 1 /\ Len(n) > b
    BY <1>2, <1>4, <1>5, <1>6 DEF Dots
  <2>2. Len(n) > b => b + 1 \in Dots(t)
    BY <1>2, <1>4, <1>5 DEF Dots
  <2> QED BY <2>1, <2>2
<1>10. Cardinality(Dots(t)) <= 1
  <2>1. Cardinality({b + 1}) = 1 /\ Cardinality({}) = 0
    BY FS_EmptySet, FS_Singleton, Zenon
  <2>2. Dots(t) = {b + 1} \/ Dots(t) = {}
    BY <1>9
  <2>3. Cardinality(Dots(t)) = 1 \/ Cardinality(Dots(t)) = 0
    BY <2>1, <2>2, Zenon
  <2> QED BY <2>3
<1>11. ExtIn(t, b) = ExtOf(n, b)
  <2>1. CASE Len(n) > b
    BY <1>4, <1>9, <2>1 DEF ExtIn, ExtOf, t
  <2>2. CASE ~(Len(n) > b)
    BY <1>2, <1>9, <2>2, PartsOf DEF ExtIn
  <2> QED BY <2>1, <2>2
<1>12. SubSeq(t, 1, b) = BaseOf(n, b)
  BY DEF BaseOf, t
<1>13. \A x \in Seq(Capitals) : AllValid(x)
  <2>1. TAKE x \in Seq(Capitals)
  <2>2. DOMAIN x = 1..Len(x) /\ \A i \in 1..Len(x) : x[i] \in Capitals
    BY LenProperties, ElementOfSeq
  <2> QED BY <2>2 DEF AllValid, IsValidChar
<1>14. Taken(t, b)
  BY <1>10, <1>11, <1>12, <1>13, PartsOf DEF Taken
<1> QED BY <1>3, <1>8, <1>11, <1>12, <1>14, ShortNameOf

\* What is taken is a good name.
LEMMA TakenIsGood ==
    ASSUME NEW n \in Seq(Chars), MakeShortName(n) # Invalid
    PROVE  \E b \in 1..BaseLen : At83(n, b)
<1> DEFINE t == Temp(n)
           b == FirstDot(t) - 1
<1>1. BaseLen \in Nat /\ ExtLen \in Nat /\ TempLen \in Nat /\ BaseLen + 1 + ExtLen < TempLen
  BY Sizes
<1>2. Taken(t, b)
  BY ShortNameOf
<1>3. /\ t \in Seq(Chars) /\ Len(t) \in Nat /\ DOMAIN t = 1..Len(t)
      /\ Len(t) = IF Len(n) < TempLen THEN Len(n) ELSE TempLen
      /\ Len(n) < TempLen => t = Upped(n)
  BY TempOf, LenProperties
<1> HIDE DEF t
<1>4. /\ FirstDot(t) \in 1..(Len(t) + 1)
      /\ FirstDot(t) <= Len(t) => t[FirstDot(t)] = Dot
      /\ \A i \in 1..Len(t) : i < FirstDot(t) => t[i] # Dot
  BY <1>3, FirstDotFound
<1>5. /\ b \in 0..Len(t) /\ FirstDot(t) = b + 1
      /\ b < Len(t) => t[b + 1] = Dot
      /\ \A i \in 1..b : t[i] # Dot
  BY <1>3, <1>4
<1> HIDE DEF b
<1>6. b \in 1..BaseLen /\ Len(ExtIn(t, b)) <= ExtLen
      /\ AllValid(SubSeq(t, 1, b)) /\ AllValid(ExtIn(t, b))
  BY <1>2 DEF Taken
<1>7. ASSUME b < Len(t)
      PROVE  /\ ExtIn(t, b) = SubSeq(t, b + 2, Len(t))
             /\ Len(t) - b - 1 \in 0..ExtLen
             /\ \A i \in (b + 2)..Len(t) : IsValidChar(t[i])
  <2>1. b + 1 \in Dots(t)
    BY <1>3, <1>5, <1>7 DEF Dots
  <2>2. ExtIn(t, b) = SubSeq(t, b + 2, Len(t))
    BY <2>1 DEF ExtIn
  <2> DEFINE e == SubSeq(t, b + 2, Len(t))
  <2>3. \A i \in (b + 2)..Len(t) : t[i] \in Chars
    BY <1>3, <1>5, ElementOfSeq
  <2>4. b + 2 \in Int /\ Len(t) \in Int
    BY <1>3, <1>5
  <2>5. /\ e \in Seq(Chars) /\ Len(e) = IF b + 2 <= Len(t) THEN Len(t) - (b + 2) + 1 ELSE 0
        /\ \A i \in 1..(Len(t) - (b + 2) + 1) : e[i] = t[(b + 2) + i - 1]
    BY <2>3, <2>4, SubSeqProperties
  <2>6. DOMAIN e = 1..Len(e)
    BY <2>5, LenProperties
  <2> HIDE DEF e
  <2>7. Len(e) = Len(t) - b - 1
    BY <1>3, <1>5, <1>7, <2>5
  <2>8. Len(e) <= ExtLen
    BY <1>6, <2>2 DEF e
  <2>9. ASSUME NEW i \in (b + 2)..Len(t) PROVE IsValidChar(t[i])
    <3>1. i - b - 1 \in 1..Len(e) /\ i - b - 1 \in 1..(Len(t) - (b + 2) + 1)
          /\ (b + 2) + (i - b - 1) - 1 = i
      BY <1>3, <1>5, <2>7
    <3>2. e[i - b - 1] = t[i]
      BY <2>5, <3>1
    <3>3. IsValidChar(e[i - b - 1])
      BY <1>6, <2>2, <2>6, <3>1 DEF AllValid, e
    <3> QED BY <3>2, <3>3
  <2> QED BY <1>1, <1>3, <1>5, <1>7, <2>2, <2>7, <2>8, <2>9
<1>8. Len(n) < TempLen
  <2>1. Len(t) <= BaseLen + 1 + ExtLen
    BY <1>1, <1>3, <1>5, <1>6, <1>7
  <2> QED BY <1>1, <1>3, <2>1, LenProperties
<1>9. /\ t = Upped(n) /\ Len(t) = Len(n)
      /\ \A i \in 1..Len(n) : n[i] \in Chars /\ t[i] = ToUpper(n[i])
  BY <1>3, <1>8, UppedIsText
<1>10. \A i \in 1..Len(n) : /\ IsValidChar(t[i]) <=> n[i] \in Good
                            /\ t[i] = Dot <=> n[i] = Dot
  BY <1>9, CharClasses
<1>11. ASSUME NEW i \in 1..b PROVE n[i] \in Good
  <2> DEFINE e == SubSeq(t, 1, b)
  <2>1. \A j \in 1..b : t[j] \in Chars
    BY <1>3, <1>5, ElementOfSeq
  <2>2. e \in Seq(Chars) /\ Len(e) = b /\ \A j \in 1..b : e[j] = t[j]
    <3>1. 1 \in Int /\ b \in Int
      BY <1>5
    <3>2. /\ e \in Seq(Chars) /\ Len(e) = IF 1 <= b THEN b - 1 + 1 ELSE 0
          /\ \A j \in 1..(b - 1 + 1) : e[j] = t[1 + j - 1]
      BY <2>1, <3>1, SubSeqProperties
    <3> HIDE DEF e
    <3> QED BY <1>1, <1>6, <3>2
  <2>3. DOMAIN e = 1..b
    BY <2>2, LenProperties
  <2>4. IsValidChar(e[i])
    BY <1>6, <2>3 DEF AllValid
  <2> HIDE DEF e
  <2>5. IsValidChar(t[i]) /\ i \in 1..Len(n)
    BY <1>3, <1>5, <1>9, <2>2, <2>4
  <2> QED BY <1>10, <2>5
<1>12. At83(n, b)
  <2>1. b \in Nat /\ b <= Len(n) /\ Len(n) \in Nat
    BY <1>3, <1>5, <1>9
  <2>2. CASE Len(n) = b
    BY <1>11, <2>1, <2>2 DEF At83
  <2>3. CASE Len(n) # b
    <3>1. b < Len(t)
      BY <1>9, <2>1, <2>3
    <3>2. n[b + 1] = Dot
      BY <1>5, <1>9, <1>10, <2>1, <3>1
    <3>3. \A i \in (b + 2)..Len(n) : n[i] \in Good
      BY <1>7, <1>9, <1>10, <2>1, <3>1
    <3> QED BY <1>7, <1>9, <1>11, <2>1, <3>1, <3>2, <3>3 DEF At83
  <2> QED BY <2>2, <2>3
<1> QED BY <1>6, <1>12

-----------------------------------------------------------------------------
(* The names the image builder stores *)

Upto(s, k) == [i \in 1..(IF Len(s) < k THEN Len(s) ELSE k) |-> ToUpper(s[i])]

LEMMA UptoFits ==
    ASSUME NEW s \in Seq(Chars), NEW k \in Nat, Len(s) <= k
    PROVE  /\ Upto(s, k) \in Seq(Chars) /\ Len(Upto(s, k)) = Len(s) /\ Len(s) \in Nat
           /\ \A i \in 1..Len(s) : Upto(s, k)[i] = ToUpper(s[i])
<1>1. Len(s) \in Nat /\ \A i \in 1..Len(s) : ToUpper(s[i]) \in Chars
  BY UppedIsText, CharClasses
<1>2. (IF Len(s) < k THEN Len(s) ELSE k) = Len(s)
  BY <1>1
<1>3. Upto(s, k) = [i \in 1..Len(s) |-> ToUpper(s[i])]
  BY <1>2 DEF Upto
<1> QED BY <1>1, <1>3

LEMMA BuilderNameOf ==
    ASSUME NEW n
    PROVE  LET b == FirstDot(n) - 1
               rest == SubSeq(n, b + 2, Len(n))
               e == FirstDot(rest) - 1
           IN BuilderShortName(n) = Field(Upto(SubSeq(n, 1, b), BaseLen), Upto(SubSeq(rest, 1, e), ExtLen))
  BY Zenon DEF BuilderShortName, Upto, FirstDot

\* On good names the builder and the shell agree.
LEMMA BuilderAgrees ==
    ASSUME NEW n \in Seq(Chars), NEW b \in 1..BaseLen, At83(n, b)
    PROVE  BuilderShortName(n) = MakeShortName(n)
<1> DEFINE base == SubSeq(n, 1, b)
           rest == SubSeq(n, b + 2, Len(n))
<1>1. BaseLen \in Nat /\ ExtLen \in Nat
  BY Sizes
<1>2. /\ b \in Nat /\ b >= 1 /\ b <= Len(n) /\ Len(n) \in Nat
      /\ Len(n) > b => n[b + 1] = Dot
      /\ \A i \in 1..b : n[i] \in Good
      /\ \A i \in 1..(Len(n) - b - 1) : n[b + 1 + i] \in Good
  BY PartsOf
<1>3. \A i \in 1..Len(n) : n[i] \in Chars
  BY UppedIsText
<1>4. FirstDot(n) = b + 1
  <2>1. \A i \in 1..b : n[i] # Dot
    BY <1>2, CharClasses
  <2> QED BY <1>2, <2>1, FirstDotIs
<1>5. base \in Seq(Chars) /\ Len(base) = b /\ \A i \in 1..b : base[i] = n[i]
  <2>1. \A j \in 1..b : n[j] \in Chars
    BY <1>2, <1>3
  <2>2. 1 \in Int /\ b \in Int
    BY <1>2
  <2>3. /\ base \in Seq(Chars) /\ Len(base) = IF 1 <= b THEN b - 1 + 1 ELSE 0
        /\ \A j \in 1..(b - 1 + 1) : base[j] = n[1 + j - 1]
    BY <2>1, <2>2, SubSeqProperties
  <2> HIDE DEF base
  <2> QED BY <1>2, <2>3
<1>6. /\ rest \in Seq(Chars)
      /\ Len(rest) = IF Len(n) > b + 1 THEN Len(n) - b - 1 ELSE 0
      /\ \A i \in 1..(Len(n) - b - 1) : rest[i] = n[b + 1 + i]
  <2>1. \A i \in (b + 2)..Len(n) : n[i] \in Chars
    BY <1>2, <1>3
  <2>2. b + 2 \in Int /\ Len(n) \in Int
    BY <1>2
  <2>3. /\ rest \in Seq(Chars) /\ Len(rest) = IF b + 2 <= Len(n) THEN Len(n) - (b + 2) + 1 ELSE 0
        /\ \A i \in 1..(Len(n) - (b + 2) + 1) : rest[i] = n[(b + 2) + i - 1]
    BY <2>1, <2>2, SubSeqProperties
  <2> HIDE DEF rest
  <2>4. Len(n) - (b + 2) + 1 = Len(n) - b - 1 /\ (b + 2 <= Len(n) <=> Len(n) > b + 1)
    BY <1>2
  <2>5. \A i \in 1..(Len(n) - b - 1) : (b + 2) + i - 1 = b + 1 + i
    BY <1>2
  <2> QED BY <2>3, <2>4, <2>5
<1> HIDE DEF base, rest
<1>7. Len(rest) \in Nat /\ \A i \in 1..Len(rest) : i \in 1..(Len(n) - b - 1)
  BY <1>2, <1>6
<1>8. FirstDot(rest) = Len(rest) + 1
  <2>1. \A i \in 1..Len(rest) : rest[i] # Dot
    BY <1>2, <1>6, <1>7, CharClasses
  <2>2. Len(rest) \in 0..Len(rest)
    BY <1>7
  <2> QED BY <1>6, <1>7, <2>1, <2>2, FirstDotIs
<1>9. SubSeq(rest, 1, Len(rest)) = rest
  BY <1>6, SubSeqFull
<1>10. BuilderShortName(n) = Field(Upto(base, BaseLen), Upto(rest, ExtLen))
  <2>1. FirstDot(n) - 1 = b /\ FirstDot(rest) - 1 = Len(rest)
    BY <1>2, <1>4, <1>7, <1>8
  <2> QED BY <1>9, <2>1, BuilderNameOf, Zenon DEF base, rest
<1>11. /\ BaseOf(n, b) \in Seq(Capitals) /\ Len(BaseOf(n, b)) = b
       /\ \A i \in 1..b : BaseOf(n, b)[i] = ToUpper(n[i])
       /\ ExtOf(n, b) \in Seq(Capitals) /\ Len(ExtOf(n, b)) = Len(rest) /\ Len(rest) <= ExtLen
       /\ \A i \in 1..(Len(n) - b - 1) : ExtOf(n, b)[i] = ToUpper(n[b + 1 + i])
  BY <1>6, PartsOf
<1>12. BaseOf(n, b) \in Seq(Chars) /\ ExtOf(n, b) \in Seq(Chars)
  <2>1. Capitals \subseteq Chars
    BY CharClasses
  <2> QED BY <1>11, <2>1, SeqMonotonic
<1>13. Upto(base, BaseLen) = BaseOf(n, b)
  <2>1. /\ Upto(base, BaseLen) \in Seq(Chars) /\ Len(Upto(base, BaseLen)) = b
        /\ \A i \in 1..b : Upto(base, BaseLen)[i] = ToUpper(base[i])
    BY <1>1, <1>5, UptoFits
  <2>2. \A i \in 1..b : Upto(base, BaseLen)[i] = BaseOf(n, b)[i]
    BY <1>5, <1>11, <2>1
  <2> QED BY <1>11, <1>12, <2>1, <2>2, SeqEqual
<1>14. Upto(rest, ExtLen) = ExtOf(n, b)
  <2>1. /\ Upto(rest, ExtLen) \in Seq(Chars) /\ Len(Upto(rest, ExtLen)) = Len(rest)
        /\ \A i \in 1..Len(rest) : Upto(rest, ExtLen)[i] = ToUpper(rest[i])
    BY <1>1, <1>6, <1>11, UptoFits
  <2>2. \A i \in 1..Len(rest) : Upto(rest, ExtLen)[i] = ExtOf(n, b)[i]
    BY <1>6, <1>7, <1>11, <2>1
  <2> QED BY <1>11, <1>12, <2>1, <2>2, SeqEqual
<1> QED BY <1>10, <1>13, <1>14, GoodIsTaken

-----------------------------------------------------------------------------
(* The theorems *)

\* The field is what the name given last becomes.
NamesInv == typed \in Seq(Chars) /\ raw = MakeShortName(typed)

LEMMA NamesAlways == NamesSpec => []NamesInv
<1>1. NamesInit => NamesInv
  <2>1. SUFFICES ASSUME NEW n \in SeedNames, typed = n, raw = BuilderShortName(n) PROVE NamesInv
    BY DEF NamesInit
  <2>2. n \in Names /\ Is83(n)
    BY SeedAssumption
  <2>3. n \in Seq(Chars)
    <3>1. PICK m \in 0..MaxTyped : n \in [1..m -> Chars]
      BY <2>2 DEF Names, SeqOf
    <3>2. MaxTyped \in Nat
      BY NamesAssumption
    <3> QED BY <3>1, <3>2
  <2>4. PICK b \in 1..BaseLen : At83(n, b)
    BY <2>2, Is83Somewhere
  <2> QED BY <2>1, <2>3, <2>4, BuilderAgrees DEF NamesInv
<1>2. NamesInv /\ [NamesNext]_names => NamesInv'
  <2>1. SUFFICES ASSUME NamesInv, [NamesNext]_names PROVE NamesInv'
    OBVIOUS
  <2>2. CASE Resolve(<<>>)
    BY <2>2, EmptySeq DEF Resolve, NamesInv
  <2>3. ASSUME NEW c \in Chars, Resolve(Append(typed, c)) PROVE NamesInv'
    BY <2>1, <2>3, AppendProperties DEF Resolve, NamesInv
  <2>4. CASE UNCHANGED names
    BY <2>1, <2>4 DEF names, NamesInv
  <2> QED BY <2>1, <2>2, <2>3, <2>4 DEF NamesNext
<1> QED BY <1>1, <1>2, PTL DEF NamesSpec

LEMMA GoodIffTaken ==
    ASSUME NEW n \in Seq(Chars)
    PROVE  MakeShortName(n) # Invalid <=> \E b \in 1..BaseLen : At83(n, b)
<1>1. ASSUME NEW b \in 1..BaseLen, At83(n, b) PROVE MakeShortName(n) # Invalid
  BY <1>1, GoodIsTaken, PartsOf, FieldParts
<1> QED BY <1>1, TakenIsGood

\* fat12_make_short_name refuses what is no 8.3 name and takes all others, for
\* every length of name and field and every alphabet; so does the builder.
THEOREM ExactlyGoodTaken == NamesSpec => []TakesExactly83
<1>1. NamesInv => TakesExactly83
  BY GoodIffTaken, Is83Somewhere DEF NamesInv, TakesExactly83
<1> QED BY <1>1, NamesAlways, PTL

\* A name that is listed is one its base and extension can be read from again.
LEMMA ShownIsGood ==
    ASSUME NEW n \in Seq(Chars), NEW b \in 1..BaseLen, At83(n, b)
    PROVE  LET d == DirNameToString(Field(BaseOf(n, b), ExtOf(n, b)))
           IN d \in Seq(Chars) /\ At83(d, b) /\ BaseOf(d, b) = BaseOf(n, b) /\ ExtOf(d, b) = ExtOf(n, b)
<1> DEFINE base == BaseOf(n, b)
           ext == ExtOf(n, b)
           d == DirNameToString(Field(base, ext))
<1>1. /\ b \in Nat /\ b >= 1 /\ base \in Seq(Capitals) /\ Len(base) = b /\ base # <<>>
      /\ ext \in Seq(Capitals) /\ Len(ext) <= ExtLen
  BY PartsOf
<1>2. BaseLen \in Nat /\ ExtLen \in Nat /\ b <= BaseLen
  BY Sizes
<1> HIDE DEF base, ext
<1>3. /\ d \in Seq(Chars) /\ Len(ext) \in Nat
      /\ Len(d) = IF ext # <<>> THEN b + 1 + Len(ext) ELSE b
      /\ \A i \in 1..b : d[i] = base[i]
      /\ ext # <<>> => d[b + 1] = Dot /\ \A i \in 1..Len(ext) : d[b + 1 + i] = ext[i]
  BY <1>1, <1>2, FieldIsShown
<1> HIDE DEF d
<1>4. /\ ext # <<>> <=> Len(ext) # 0
      /\ \A i \in 1..b : base[i] \in Capitals
      /\ \A i \in 1..Len(ext) : ext[i] \in Capitals
  BY <1>1, EmptySeq, ElementOfSeq
<1>5. \A c \in Capitals : c \in Good /\ ToUpper(c) = c
  BY CharClasses DEF Good
<1>6. At83(d, b)
  <2>1. b <= Len(d) /\ \A i \in 1..b : d[i] \in Good
    BY <1>1, <1>3, <1>4, <1>5
  <2>2. CASE ext = <<>>
    BY <1>3, <2>1, <2>2 DEF At83
  <2>3. CASE ext # <<>>
    <3>1. Len(d) - b - 1 = Len(ext) /\ d[b + 1] = Dot
      BY <1>1, <1>3, <2>3
    <3>2. ASSUME NEW i \in (b + 2)..Len(d) PROVE d[i] \in Good
      <4>1. i - b - 1 \in 1..Len(ext) /\ b + 1 + (i - b - 1) = i
        BY <1>1, <1>3, <2>3
      <4>2. d[i] = ext[i - b - 1]
        BY <1>3, <2>3, <4>1
      <4> QED BY <1>4, <1>5, <4>1, <4>2
    <3>3. Len(d) - b - 1 \in 0..ExtLen
      BY <1>1, <1>2, <1>3, <3>1
    <3> QED BY <2>1, <3>1, <3>2, <3>3 DEF At83
  <2> QED BY <2>2, <2>3
<1>7. /\ BaseOf(d, b) \in Seq(Capitals) /\ Len(BaseOf(d, b)) = b
      /\ \A i \in 1..b : BaseOf(d, b)[i] = ToUpper(d[i])
      /\ ExtOf(d, b) \in Seq(Capitals)
      /\ Len(ExtOf(d, b)) = IF Len(d) > b + 1 THEN Len(d) - b - 1 ELSE 0
      /\ \A i \in 1..(Len(d) - b - 1) : ExtOf(d, b)[i] = ToUpper(d[b + 1 + i])
  BY <1>3, <1>6, PartsOf
<1>8. BaseOf(d, b) = base
  <2>1. \A i \in 1..b : BaseOf(d, b)[i] = base[i]
    BY <1>3, <1>4, <1>5, <1>7
  <2> QED BY <1>1, <1>7, <2>1, SeqEqual
<1>9. ExtOf(d, b) = ext
  <2>1. Len(ExtOf(d, b)) = Len(ext)
    BY <1>1, <1>3, <1>4, <1>7
  <2>2. ASSUME NEW i \in 1..Len(ext) PROVE ExtOf(d, b)[i] = ext[i]
    <3>1. ext # <<>> /\ i \in 1..(Len(d) - b - 1)
      BY <1>1, <1>3, <1>4
    <3>2. ExtOf(d, b)[i] = ToUpper(d[b + 1 + i]) /\ d[b + 1 + i] = ext[i]
      BY <1>3, <1>7, <3>1
    <3> QED BY <1>4, <1>5, <3>2
  <2> QED BY <1>1, <1>7, <2>1, <2>2, SeqEqual
<1> QED BY <1>3, <1>6, <1>8, <1>9 DEF base, ext, d

\* What ls shows of an entry leads to that entry when it is typed, for every
\* length of name and field and every alphabet: fat12_dir_name_to_string undoes
\* fat12_make_short_name.
THEOREM ListedNamesResolve == NamesSpec => []ShownNameResolves
<1>1. NamesInv => ShownNameResolves
  <2>1. SUFFICES ASSUME NamesInv, raw # Invalid PROVE MakeShortName(DirNameToString(raw)) = raw
    BY DEF ShownNameResolves
  <2>2. typed \in Seq(Chars) /\ raw = MakeShortName(typed)
    BY <2>1 DEF NamesInv
  <2>3. PICK b \in 1..BaseLen : At83(typed, b)
    BY <2>1, <2>2, TakenIsGood
  <2>4. raw = Field(BaseOf(typed, b), ExtOf(typed, b))
    BY <2>2, <2>3, GoodIsTaken
  <2> DEFINE d == DirNameToString(raw)
  <2>5. /\ d \in Seq(Chars) /\ At83(d, b)
        /\ BaseOf(d, b) = BaseOf(typed, b) /\ ExtOf(d, b) = ExtOf(typed, b)
    BY <2>2, <2>3, <2>4, ShownIsGood
  <2> HIDE DEF d
  <2>6. MakeShortName(d) = Field(BaseOf(d, b), ExtOf(d, b))
    BY <2>5, GoodIsTaken
  <2>7. MakeShortName(d) = raw
    BY <2>4, <2>5, <2>6
  <2> QED BY <2>7 DEF d
<1> QED BY <1>1, NamesAlways, PTL

\* A good name is shown in capitals, but for a dot at its end.
LEMMA ShownIsCanonical ==
    ASSUME NEW n \in Seq(Chars), NEW b \in 1..BaseLen, At83(n, b)
    PROVE  Canonical(n) = DirNameToString(Field(BaseOf(n, b), ExtOf(n, b)))
<1> DEFINE u == Upped(n)
           base == BaseOf(n, b)
           ext == ExtOf(n, b)
           d == DirNameToString(Field(base, ext))
<1>1. /\ b \in Nat /\ b >= 1 /\ b <= Len(n) /\ Len(n) \in Nat
      /\ base \in Seq(Capitals) /\ Len(base) = b /\ base # <<>>
      /\ \A i \in 1..b : base[i] = ToUpper(n[i]) /\ n[i] \in Good
      /\ ext \in Seq(Capitals) /\ Len(ext) <= ExtLen
      /\ Len(ext) = IF Len(n) > b + 1 THEN Len(n) - b - 1 ELSE 0
      /\ \A i \in 1..(Len(n) - b - 1) : ext[i] = ToUpper(n[b + 1 + i]) /\ n[b + 1 + i] \in Good
      /\ ext # <<>> <=> Len(n) > b + 1
      /\ Len(n) > b => n[b + 1] = Dot
  BY PartsOf
<1>2. BaseLen \in Nat /\ ExtLen \in Nat /\ b <= BaseLen
  BY Sizes
<1>3. /\ u \in Seq(Chars) /\ Len(u) = Len(n)
      /\ \A i \in 1..Len(n) : n[i] \in Chars /\ u[i] = ToUpper(n[i])
  BY UppedIsText
<1>4. Canonical(n) = IF u # <<>> /\ Last(u) = Dot THEN Front(u) ELSE u
  BY Zenon DEF Canonical, Upped
<1> HIDE DEF base, ext, u
<1>5. /\ d \in Seq(Chars) /\ Len(ext) \in Nat
      /\ Len(d) = IF ext # <<>> THEN b + 1 + Len(ext) ELSE b
      /\ \A i \in 1..b : d[i] = base[i]
      /\ ext # <<>> => d[b + 1] = Dot /\ \A i \in 1..Len(ext) : d[b + 1 + i] = ext[i]
  BY <1>1, <1>2, FieldIsShown
<1> HIDE DEF d
<1>6. u # <<>>
  BY <1>1, <1>3, EmptySeq
<1>7. Last(u) = ToUpper(n[Len(n)]) /\ (Last(u) = Dot <=> n[Len(n)] = Dot)
  <2>1. Len(n) \in 1..Len(n)
    BY <1>1
  <2> QED BY <1>3, <2>1, CharClasses DEF Last
<1>8. Last(u) = Dot <=> Len(n) = b + 1
  <2>1. CASE Len(n) = b
    <3>1. n[Len(n)] \in Good
      BY <1>1, <2>1
    <3> QED BY <1>1, <1>7, <2>1, <3>1, CharClasses
  <2>2. CASE Len(n) = b + 1
    BY <1>1, <1>7, <2>2
  <2>3. CASE Len(n) > b + 1
    <3>1. Len(n) - b - 1 \in 1..(Len(n) - b - 1) /\ b + 1 + (Len(n) - b - 1) = Len(n)
      BY <1>1, <2>3
    <3>2. n[Len(n)] \in Good
      BY <1>1, <3>1
    <3> QED BY <1>1, <1>7, <2>3, <3>2, CharClasses
  <2> QED BY <1>1, <2>1, <2>2, <2>3
<1>9. \A i \in 1..b : u[i] = d[i]
  BY <1>1, <1>3, <1>5
<1>10. CASE Len(n) = b
  <2>1. Len(d) = b /\ Canonical(n) = u
    BY <1>1, <1>4, <1>5, <1>8, <1>10
  <2> QED BY <1>3, <1>5, <1>9, <1>10, <2>1, SeqEqual DEF d, base, ext
<1>11. CASE Len(n) = b + 1
  <2>1. Len(d) = b
    BY <1>1, <1>5, <1>11
  <2>2. Canonical(n) = SubSeq(u, 1, b)
    <3>1. Len(u) - 1 = b
      BY <1>1, <1>3, <1>11
    <3> QED BY <1>4, <1>6, <1>8, <1>11, <3>1 DEF Front
  <2> DEFINE e == SubSeq(u, 1, b)
  <2>3. \A j \in 1..b : u[j] \in Chars
    BY <1>5, <1>9, <2>1, ElementOfSeq
  <2>4. 1 \in Int /\ b \in Int
    BY <1>1
  <2>5. /\ e \in Seq(Chars) /\ Len(e) = IF 1 <= b THEN b - 1 + 1 ELSE 0
        /\ \A j \in 1..(b - 1 + 1) : e[j] = u[1 + j - 1]
    BY <2>3, <2>4, SubSeqProperties
  <2> HIDE DEF e
  <2>6. Len(e) = b /\ \A j \in 1..b : e[j] = d[j]
    BY <1>1, <1>9, <2>5
  <2>7. e = d
    BY <1>5, <2>1, <2>5, <2>6, SeqEqual
  <2> QED BY <2>2, <2>7 DEF e, d, base, ext
<1>12. CASE Len(n) > b + 1
  <2>1. ext # <<>> /\ Len(d) = Len(n) /\ Canonical(n) = u
    BY <1>1, <1>4, <1>5, <1>8, <1>12
  <2>2. u[b + 1] = d[b + 1]
    <3>1. d[b + 1] = Dot
      BY <1>5, <2>1
    <3>2. Len(n) > b /\ b + 1 \in 1..Len(n)
      BY <1>1, <1>12
    <3>3. n[b + 1] = Dot
      BY <1>1, <3>2
    <3> QED BY <1>3, <3>1, <3>2, <3>3, CharClasses
  <2>3. ASSUME NEW i \in (b + 2)..Len(n) PROVE u[i] = d[i]
    <3>1. i - b - 1 \in 1..(Len(n) - b - 1) /\ i - b - 1 \in 1..Len(ext)
          /\ b + 1 + (i - b - 1) = i /\ i \in 1..Len(n)
      BY <1>1, <1>12
    <3>2. u[i] = ext[i - b - 1]
      BY <1>1, <1>3, <3>1
    <3>3. d[i] = ext[i - b - 1]
      BY <1>5, <2>1, <3>1
    <3> QED BY <3>2, <3>3
  <2>4. \A i \in 1..Len(n) : i \in 1..b \/ i = b + 1 \/ i \in (b + 2)..Len(n)
    BY <1>1
  <2>5. \A i \in 1..Len(u) : u[i] = d[i]
    BY <1>3, <1>9, <2>2, <2>3, <2>4
  <2>6. u = d
    BY <1>3, <1>5, <2>1, <2>5, SeqEqual
  <2> QED BY <2>1, <2>6 DEF d, base, ext
<1> QED BY <1>1, <1>10, <1>11, <1>12

\* Names that lead to the same entry are equal but for case and a dot at the
\* end, for every length of name and field and every alphabet.
THEOREM NamesDifferInCase == NamesSpec => []SameOnlyByCase
<1>1. NamesInv => SameOnlyByCase
  <2>1. SUFFICES ASSUME NamesInv, raw # Invalid PROVE Canonical(typed) = DirNameToString(raw)
    BY DEF SameOnlyByCase
  <2>2. typed \in Seq(Chars) /\ raw = MakeShortName(typed)
    BY <2>1 DEF NamesInv
  <2>3. PICK b \in 1..BaseLen : At83(typed, b)
    BY <2>1, <2>2, TakenIsGood
  <2> QED BY <2>2, <2>3, GoodIsTaken, ShownIsCanonical
<1> QED BY <1>1, NamesAlways, PTL
=============================================================================
