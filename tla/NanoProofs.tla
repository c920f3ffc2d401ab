----------------------------- MODULE NanoProofs -----------------------------
(***************************************************************************)
(* The editor, for every size of its buffers, every file and every sequence *)
(* of keys.                                                                 *)
(***************************************************************************)
EXTENDS Nano, Induction, SequenceTheorems

Bytes == Chars \cup {NL, CR}
LineTexts == {l \in Seq(Chars) : Len(l) <= MaxChars}
Buffers == {b \in Seq(LineTexts) : Len(b) <= MaxLines}

LEMMA LeastOfTwo ==
    ASSUME NEW a \in Int, NEW b \in Int
    PROVE  Min({a, b}) = IF a <= b THEN a ELSE b
<1>1. \E x \in {a, b} : \A y \in {a, b} : x <= y
  <2>1. CASE a <= b
    BY <2>1
  <2>2. CASE b <= a
    BY <2>2
  <2> QED BY <2>1, <2>2
<1>2. Min({a, b}) \in {a, b} /\ \A y \in {a, b} : Min({a, b}) <= y
  BY <1>1, Zenon DEF Min
<1> QED BY <1>2

LEMMA GreatestOfTwo ==
    ASSUME NEW a \in Int, NEW b \in Int
    PROVE  Max({a, b}) = IF a >= b THEN a ELSE b
<1>1. \E x \in {a, b} : \A y \in {a, b} : x >= y
  <2>1. CASE a <= b
    BY <2>1
  <2>2. CASE b <= a
    BY <2>2
  <2> QED BY <2>1, <2>2
<1>2. Max({a, b}) \in {a, b} /\ \A y \in {a, b} : Max({a, b}) >= y
  BY <1>1, Zenon DEF Max
<1> QED BY <1>2

-----------------------------------------------------------------------------
(* How a file becomes lines.                                                 *)

LoadAll(base, text) == FoldLeft(LoadByte, base, text)
LoadSteps(n, base, text, f) ==
    /\ f[0] = base /\ f[n] = LoadAll(base, text)
    /\ \A k \in 0..n : k < n => f[k + 1] = LoadByte(f[k], text[k + 1])
LoadTable(base, text, h) ==
    h = [s \in SUBSET DOMAIN text |->
            IF s = {} THEN base ELSE LoadByte(h[s \ {Max(s)}], text[Max(s)])]

LEMMA LoadByTable ==
    ASSUME NEW base, NEW text
    PROVE  LoadAll(base, text) =
               (CHOOSE h : LoadTable(base, text, h))[DOMAIN text]
  BY Zenon DEF LoadAll, FoldLeft, MapThenFoldSet, LoadTable

\* Loading takes one byte after the other.
LEMMA LoadCourse ==
    ASSUME NEW S, NEW base \in S, NEW text, NEW n \in Nat, DOMAIN text = 1..n,
           \A d \in S, i \in 1..n : LoadByte(d, text[i]) \in S
    PROVE  \E f \in [0..n -> S] : LoadSteps(n, base, text, f)
<1> DEFINE g == [p \in (1..n) \X S |-> LoadByte(p[2], text[p[1]])]
           h == CHOOSE h : LoadTable(base, text, h)
<1>1. g \in [(1..n) \X S -> S] /\ \A i \in 1..n, d \in S : g[i, d] = LoadByte(d, text[i])
  OBVIOUS
<1> HIDE DEF g
<1>2. \E t : LoadTable(base, text, t)
  <2>1. PICK t \in [SUBSET (1..n) -> S] : FoldTable(n, base, g, t)
    BY <1>1, FoldExists
  <2>2. ASSUME NEW s \in SUBSET (1..n), s # {}
        PROVE  t[s] = LoadByte(t[s \ {Max(s)}], text[Max(s)])
    <3>1. Max(s) \in 1..n /\ t[s \ {Max(s)}] \in S
      BY <2>2, LargestOf
    <3>2. t[s] = g[Max(s), t[s \ {Max(s)}]]
      BY <2>1, <2>2 DEF FoldTable
    <3> QED BY <1>1, <3>1, <3>2
  <2>3. t[{}] = base
    BY <2>1 DEF FoldTable
  <2>4. t = [s \in SUBSET (1..n) |-> t[s]]
    OBVIOUS
  <2>5. t = [s \in SUBSET (1..n) |->
                IF s = {} THEN base ELSE LoadByte(t[s \ {Max(s)}], text[Max(s)])]
    BY <2>2, <2>3, <2>4, Zenon
  <2> QED BY <2>5, Zenon DEF LoadTable
<1>3. LoadTable(base, text, h)
  BY <1>2, Zenon
<1>4. LoadAll(base, text) = h[1..n]
  BY LoadByTable, Zenon
<1> HIDE DEF h
<1>5. h = [s \in SUBSET (1..n) |->
              IF s = {} THEN base ELSE LoadByte(h[s \ {Max(s)}], text[Max(s)])]
  BY <1>3, Zenon DEF LoadTable
<1>6. h[{}] = base
  BY <1>5
<1>7. FoldSteps(n, S, g, h)
  <2>1. SUFFICES ASSUME NEW s \in SUBSET (1..n), s # {}, h[s \ {Max(s)}] \in S
                 PROVE  h[s] = g[Max(s), h[s \ {Max(s)}]]
    BY DEF FoldSteps
  <2>2. h[s] = LoadByte(h[s \ {Max(s)}], text[Max(s)])
    BY <1>5, <2>1, Zenon
  <2>3. Max(s) \in 1..n
    BY <2>1, LargestOf
  <2> QED BY <1>1, <2>1, <2>2, <2>3
<1>8. PICK f \in [0..n -> S] : Course(n, base, g, f, h[1..n])
  BY <1>1, <1>6, <1>7, FoldCourse
<1>9. f[0] = base /\ f[n] = LoadAll(base, text)
  BY <1>4, <1>8, Zenon DEF Course
<1>10. ASSUME NEW k \in 0..n, k < n PROVE f[k + 1] = LoadByte(f[k], text[k + 1])
  <2>1. f[k + 1] = g[k + 1, f[k]]
    BY <1>8, <1>10, Zenon DEF Course
  <2>2. k + 1 \in 1..n /\ f[k] \in S
    BY <1>10
  <2> QED BY <1>1, <2>1, <2>2
<1> QED BY <1>9, <1>10 DEF LoadSteps

Loading == [lines : Buffers, line : LineTexts]

LEMMA ByteLoaded ==
    ASSUME NEW d \in Loading, NEW c \in Bytes
    PROVE  /\ LoadByte(d, c) \in Loading
           /\ d.lines # <<>> \/ d.line # <<>> \/ c # CR =>
                 LoadByte(d, c).lines # <<>> \/ LoadByte(d, c).line # <<>>
<1> DEFINE e == LoadByte(d, c)
<1>1. /\ d.lines \in Seq(LineTexts) /\ Len(d.lines) <= MaxLines /\ Len(d.lines) \in Nat
      /\ d.line \in Seq(Chars) /\ Len(d.line) <= MaxChars /\ Len(d.line) \in Nat
      /\ d.line \in LineTexts /\ d = [lines |-> d.lines, line |-> d.line]
  BY DEF Loading, Buffers, LineTexts
<1>2. MaxLines \in Nat \ {0} /\ MaxChars \in Nat \ {0} /\ <<>> \in LineTexts /\ NL # CR
  BY NanoAssumption DEF MaxChars, LineTexts, NL, CR
<1>3. CASE Len(d.lines) = MaxLines
  BY <1>1, <1>2, <1>3 DEF LoadByte
<1>4. CASE Len(d.lines) # MaxLines /\ c = NL
  <2>1. e = [lines |-> Append(d.lines, d.line), line |-> <<>>]
    BY <1>4 DEF LoadByte
  <2>2. /\ Append(d.lines, d.line) \in Seq(LineTexts)
        /\ Len(Append(d.lines, d.line)) = Len(d.lines) + 1
        /\ Append(d.lines, d.line) # <<>>
    BY <1>1, AppendProperties
  <2>3. Append(d.lines, d.line) \in Buffers
    BY <1>1, <1>2, <1>4, <2>2 DEF Buffers
  <2> QED BY <1>2, <2>1, <2>2, <2>3 DEF Loading
<1>5. CASE Len(d.lines) # MaxLines /\ c # NL /\ c # CR /\ Len(d.line) < MaxChars
  <2>1. e = [d EXCEPT !.line = Append(d.line, c)]
    BY <1>5 DEF LoadByte
  <2>2. c \in Chars
    BY <1>5 DEF Bytes
  <2>3. /\ Append(d.line, c) \in Seq(Chars) /\ Append(d.line, c) # <<>>
        /\ Len(Append(d.line, c)) = Len(d.line) + 1
    BY <1>1, <2>2, AppendProperties
  <2>4. Append(d.line, c) \in LineTexts
    BY <1>1, <1>2, <1>5, <2>3 DEF LineTexts
  <2> QED BY <2>1, <2>3, <2>4 DEF Loading
<1>6. CASE Len(d.lines) # MaxLines /\ c # NL /\ ~(c # CR /\ Len(d.line) < MaxChars)
  <2>1. e = d
    BY <1>6 DEF LoadByte
  <2>2. c # CR => d.line # <<>>
    BY <1>1, <1>2, <1>6
  <2> QED BY <2>1, <2>2
<1> QED BY <1>3, <1>4, <1>5, <1>6

\* A file whose first byte is no CR opens as at least one line, and every file as
\* lines that fit.
LEMMA FileOpened ==
    ASSUME NEW text \in Seq(Bytes)
    PROVE  Opened(text) \in Buffers /\ (text = <<>> \/ text[1] # CR => Opened(text) # <<>>)
<1> DEFINE base == [lines |-> <<>>, line |-> <<>>]
           n == Len(text)
<1>1. n \in Nat /\ DOMAIN text = 1..n /\ \A i \in 1..n : text[i] \in Bytes
  OBVIOUS
<1>2. MaxLines \in Nat \ {0} /\ MaxChars \in Nat \ {0} /\ <<>> \in LineTexts /\ <<>> \in Buffers
  BY NanoAssumption DEF MaxChars, LineTexts, Buffers
<1>3. base \in Loading /\ base.lines = <<>> /\ base.line = <<>>
  BY <1>2 DEF Loading
<1> HIDE DEF base, n
<1>4. \A d \in Loading, i \in 1..n : LoadByte(d, text[i]) \in Loading
  BY <1>1, ByteLoaded
<1>5. PICK f \in [0..n -> Loading] : LoadSteps(n, base, text, f)
  BY <1>1, <1>3, <1>4, LoadCourse
<1> DEFINE done == f[n]
<1>6. done \in Loading
  BY <1>1
<1>7. Loaded(text) = IF done.line # <<>> /\ Len(done.lines) < MaxLines
                     THEN Append(done.lines, done.line) ELSE done.lines
  BY <1>5, Zenon DEF Loaded, LoadAll, LoadSteps, base
<1>8. ASSUME n > 0, text[1] # CR PROVE done.lines # <<>> \/ done.line # <<>>
  <2> DEFINE T == {k \in 0..n : k = 0 \/ f[k].lines # <<>> \/ f[k].line # <<>>}
  <2>1. 0 \in T
    BY <1>1
  <2>2. \A k \in 0..n : k \in T /\ k < n => k + 1 \in T
    <3>1. TAKE k \in 0..n
    <3>2. HAVE k \in T /\ k < n
    <3>3. k + 1 \in 0..n /\ k + 1 \in 1..n /\ f[k] \in Loading /\ text[k + 1] \in Bytes
      BY <1>1, <3>2
    <3>4. f[k + 1] = LoadByte(f[k], text[k + 1])
      BY <1>5, <3>2 DEF LoadSteps
    <3>5. f[k].lines # <<>> \/ f[k].line # <<>> \/ text[k + 1] # CR
      BY <1>8, <3>2
    <3> QED BY <3>3, <3>4, <3>5, ByteLoaded
  <2> HIDE DEF T
  <2>3. n \in T
    BY <1>1, <2>1, <2>2, NumbersUpTo
  <2> QED BY <1>8, <2>3 DEF T
<1> HIDE DEF done
<1>9. /\ done.lines \in Seq(LineTexts) /\ Len(done.lines) <= MaxLines /\ done.line \in LineTexts
      /\ Len(done.lines) \in Nat
  BY <1>6 DEF Loading, Buffers
<1>10. /\ Append(done.lines, done.line) \in Seq(LineTexts) /\ Append(done.lines, done.line) # <<>>
       /\ Len(Append(done.lines, done.line)) = Len(done.lines) + 1
  BY <1>9, AppendProperties
<1>11. Loaded(text) \in Buffers
  BY <1>2, <1>7, <1>9, <1>10 DEF Buffers
<1>12. (done.lines # <<>> \/ done.line # <<>>) => Loaded(text) # <<>>
  <2>1. done.lines = <<>> => Len(done.lines) < MaxLines
    BY <1>2
  <2> QED BY <1>7, <1>10, <2>1
<1>13. << <<>> >> \in Buffers
  BY <1>2 DEF Buffers
<1>14. text # <<>> => n > 0
  BY <1>1 DEF n
<1> QED BY <1>8, <1>11, <1>12, <1>13, <1>14 DEF Opened

-----------------------------------------------------------------------------
(* How lines become a file.                                                  *)

SaveAll(base, ls) == FoldLeft(SaveLine, base, ls)
SaveSteps(n, base, ls, f) ==
    /\ f[0] = base /\ f[n] = SaveAll(base, ls)
    /\ \A k \in 0..n : k < n => f[k + 1] = SaveLine(f[k], ls[k + 1])
SaveTable(base, ls, h) ==
    h = [s \in SUBSET DOMAIN ls |->
            IF s = {} THEN base ELSE SaveLine(h[s \ {Max(s)}], ls[Max(s)])]

LEMMA SaveByTable ==
    ASSUME NEW base, NEW ls
    PROVE  SaveAll(base, ls) =
               (CHOOSE h : SaveTable(base, ls, h))[DOMAIN ls]
  BY Zenon DEF SaveAll, FoldLeft, MapThenFoldSet, SaveTable

\* Saving takes one line after the other.
LEMMA SaveCourse ==
    ASSUME NEW S, NEW base \in S, NEW ls, NEW n \in Nat, DOMAIN ls = 1..n,
           \A d \in S, i \in 1..n : SaveLine(d, ls[i]) \in S
    PROVE  \E f \in [0..n -> S] : SaveSteps(n, base, ls, f)
<1> DEFINE g == [p \in (1..n) \X S |-> SaveLine(p[2], ls[p[1]])]
           h == CHOOSE h : SaveTable(base, ls, h)
<1>1. g \in [(1..n) \X S -> S] /\ \A i \in 1..n, d \in S : g[i, d] = SaveLine(d, ls[i])
  OBVIOUS
<1> HIDE DEF g
<1>2. \E t : SaveTable(base, ls, t)
  <2>1. PICK t \in [SUBSET (1..n) -> S] : FoldTable(n, base, g, t)
    BY <1>1, FoldExists
  <2>2. ASSUME NEW s \in SUBSET (1..n), s # {}
        PROVE  t[s] = SaveLine(t[s \ {Max(s)}], ls[Max(s)])
    <3>1. Max(s) \in 1..n /\ t[s \ {Max(s)}] \in S
      BY <2>2, LargestOf
    <3>2. t[s] = g[Max(s), t[s \ {Max(s)}]]
      BY <2>1, <2>2 DEF FoldTable
    <3> QED BY <1>1, <3>1, <3>2
  <2>3. t[{}] = base
    BY <2>1 DEF FoldTable
  <2>4. t = [s \in SUBSET (1..n) |-> t[s]]
    OBVIOUS
  <2>5. t = [s \in SUBSET (1..n) |->
                IF s = {} THEN base ELSE SaveLine(t[s \ {Max(s)}], ls[Max(s)])]
    BY <2>2, <2>3, <2>4, Zenon
  <2> QED BY <2>5, Zenon DEF SaveTable
<1>3. SaveTable(base, ls, h)
  BY <1>2, Zenon
<1>4. SaveAll(base, ls) = h[1..n]
  BY SaveByTable, Zenon
<1> HIDE DEF h
<1>5. h = [s \in SUBSET (1..n) |->
              IF s = {} THEN base ELSE SaveLine(h[s \ {Max(s)}], ls[Max(s)])]
  BY <1>3, Zenon DEF SaveTable
<1>6. h[{}] = base
  BY <1>5
<1>7. FoldSteps(n, S, g, h)
  <2>1. SUFFICES ASSUME NEW s \in SUBSET (1..n), s # {}, h[s \ {Max(s)}] \in S
                 PROVE  h[s] = g[Max(s), h[s \ {Max(s)}]]
    BY DEF FoldSteps
  <2>2. h[s] = SaveLine(h[s \ {Max(s)}], ls[Max(s)])
    BY <1>5, <2>1, Zenon
  <2>3. Max(s) \in 1..n
    BY <2>1, LargestOf
  <2> QED BY <1>1, <2>1, <2>2, <2>3
<1>8. PICK f \in [0..n -> S] : Course(n, base, g, f, h[1..n])
  BY <1>1, <1>6, <1>7, FoldCourse
<1>9. f[0] = base /\ f[n] = SaveAll(base, ls)
  BY <1>4, <1>8, Zenon DEF Course
<1>10. ASSUME NEW k \in 0..n, k < n PROVE f[k + 1] = SaveLine(f[k], ls[k + 1])
  <2>1. f[k + 1] = g[k + 1, f[k]]
    BY <1>8, <1>10, Zenon DEF Course
  <2>2. k + 1 \in 1..n /\ f[k] \in S
    BY <1>10
  <2> QED BY <1>1, <2>1, <2>2
<1> QED BY <1>9, <1>10 DEF SaveSteps

Written == Seq(Chars \cup {NL})

LEMMA LineSaved ==
    ASSUME NEW buf \in Written, NEW line \in LineTexts
    PROVE  SaveLine(buf, line) \in Written /\ SaveLine(buf, line) # <<>>
<1> DEFINE room == Max({0, BufferSize - 2 - Len(buf)})
           part == SubSeq(line, 1, Min({Len(line), room}))
           filled == buf \o part
<1>1. Len(buf) \in Nat /\ Len(line) \in Nat /\ line \in Seq(Chars) /\ BufferSize \in Nat /\ BufferSize > 2
  BY NanoAssumption DEF Written, LineTexts
<1>2. part \in Written
  <2>1. room \in Nat
    BY <1>1, GreatestOfTwo
  <2> HIDE DEF room
  <2> DEFINE m == Min({Len(line), room})
  <2>2. m \in Nat /\ m <= Len(line)
    BY <1>1, <2>1, LeastOfTwo
  <2> HIDE DEF m
  <2>3. \A j \in 1..m : line[j] \in Chars \cup {NL}
    BY <1>1, <2>2
  <2>4. SubSeq(line, 1, m) \in Written
    BY <2>2, <2>3, SubSeqProperties DEF Written
  <2> QED BY <2>4 DEF m
<1> HIDE DEF part
<1>3. filled \in Written /\ Len(filled) \in Nat
  BY <1>2, ConcatProperties DEF Written
<1>4. SaveLine(buf, line) = IF Len(buf) >= BufferSize - 1 THEN buf
                            ELSE IF Len(filled) < BufferSize - 1 THEN Append(filled, NL)
                            ELSE filled
  BY DEF SaveLine, part
<1> HIDE DEF filled
<1>5. CASE Len(buf) >= BufferSize - 1
  <2>1. Len(buf) > 0
    BY <1>1, <1>5
  <2> QED BY <1>4, <1>5, <2>1 DEF Written
<1>6. CASE ~(Len(buf) >= BufferSize - 1) /\ Len(filled) < BufferSize - 1
  BY <1>3, <1>4, <1>6, AppendProperties DEF Written
<1>7. CASE ~(Len(buf) >= BufferSize - 1) /\ ~(Len(filled) < BufferSize - 1)
  <2>1. Len(filled) > 0
    BY <1>1, <1>3, <1>7
  <2> QED BY <1>3, <1>4, <1>7, <2>1 DEF Written
<1> QED BY <1>5, <1>6, <1>7

\* What is saved can be opened again.
LEMMA FileSaved ==
    ASSUME NEW ls \in Buffers, ls # <<>>
    PROVE  Saved(ls) \in Seq(Bytes) /\ Opened(Saved(ls)) # <<>>
<1> DEFINE n == Len(ls)
<1>1. n \in Nat /\ DOMAIN ls = 1..n /\ n > 0 /\ \A i \in 1..n : ls[i] \in LineTexts
  BY DEF Buffers
<1> HIDE DEF n
<1>2. <<>> \in Written
  BY DEF Written
<1>3. \A d \in Written, i \in 1..n : SaveLine(d, ls[i]) \in Written
  BY <1>1, LineSaved
<1>4. PICK f \in [0..n -> Written] : SaveSteps(n, <<>>, ls, f)
  BY <1>1, <1>2, <1>3, SaveCourse
<1>5. Saved(ls) = f[n]
  BY <1>4, Zenon DEF Saved, SaveAll, SaveSteps
<1>6. n - 1 \in 0..n /\ n - 1 < n /\ (n - 1) + 1 = n /\ n \in 1..n /\ n \in 0..n
  BY <1>1
<1>7. f[n] = SaveLine(f[n - 1], ls[n])
  BY <1>4, <1>6, Zenon DEF SaveSteps
<1>8. Saved(ls) \in Written /\ Saved(ls) # <<>>
  BY <1>1, <1>5, <1>6, <1>7, LineSaved
<1>9. Saved(ls) \in Seq(Bytes)
  BY <1>8 DEF Written, Bytes
<1>10. Saved(ls)[1] \in Chars \cup {NL}
  BY <1>8 DEF Written
<1>11. CR \notin Chars \cup {NL}
  BY NanoAssumption DEF NL, CR
<1> QED BY <1>8, <1>9, <1>10, <1>11, FileOpened
-----------------------------------------------------------------------------
(* The text and the cursor.                                                  *)

CursorIn(ls, x, y) == y \in 0..Len(ls) - 1 /\ x \in 0..Len(ls[y + 1])

\* The text after a step, and the cursor in it.
TextKept == lines' \in Buffers /\ CursorIn(lines', cursor_x', cursor_y')

\* The parts of the inductive invariant: besides the types, the file always
\* opens as at least one line, for the cursor to be on.
KeyboardIn == ctrl_pressed \in BOOLEAN /\ extended_pending \in BOOLEAN
ModesIn == editor_active \in BOOLEAN /\ asking \in BOOLEAN /\ help \in BOOLEAN
FlagsIn == dirty \in BOOLEAN /\ unread \in BOOLEAN
FileIn == file \in Seq(Bytes) /\ Opened(file) # <<>>
TextIn ==
    /\ lines \in Buffers /\ viewport_y \in Nat
    /\ editor_active => CursorIn(lines, cursor_x, cursor_y)
EditorInv == KeyboardIn /\ ModesIn /\ FlagsIn /\ FileIn /\ TextIn

\* A text that may be edited.
Editable == lines \in Buffers /\ CursorIn(lines, cursor_x, cursor_y)
\* The cursor stays in its row, or the text changes.
RowKept == cursor_y' = cursor_y \/ lines' # lines

LEMMA LimitsFacts ==
    MaxLines \in Nat \ {0} /\ MaxChars \in Nat \ {0} /\ MaxLineLength = MaxChars + 1
BY NanoAssumption DEF MaxChars

LEMMA BufferFacts ==
    ASSUME NEW ls \in Buffers
    PROVE  /\ ls \in Seq(LineTexts) /\ Len(ls) \in Nat /\ DOMAIN ls = 1..Len(ls) /\ Len(ls) <= MaxLines
           /\ \A i \in 1..Len(ls) : ls[i] \in Seq(Chars) /\ ls[i] \in LineTexts
                                    /\ Len(ls[i]) \in Nat /\ Len(ls[i]) <= MaxChars
BY DEF Buffers, LineTexts

LEMMA LineReplaced ==
    ASSUME NEW ls \in Buffers, NEW i \in 1..Len(ls), NEW l \in LineTexts
    PROVE  /\ [ls EXCEPT ![i] = l] \in Buffers /\ Len([ls EXCEPT ![i] = l]) = Len(ls)
           /\ [ls EXCEPT ![i] = l][i] = l
<1>1. ls \in Seq(LineTexts) /\ Len(ls) <= MaxLines
  BY DEF Buffers
<1>2. [ls EXCEPT ![i] = l] \in Seq(LineTexts) /\ Len([ls EXCEPT ![i] = l]) = Len(ls)
  BY <1>1, ExceptSeq
<1> QED BY <1>1, <1>2 DEF Buffers

\* The part of a line before some column and the part from it on.
LEMMA PartsOfLine ==
    ASSUME NEW l \in Seq(Chars), NEW x \in 0..Len(l)
    PROVE  /\ SubSeq(l, 1, x) \in Seq(Chars) /\ Len(SubSeq(l, 1, x)) = x
           /\ SubSeq(l, x + 1, Len(l)) \in Seq(Chars)
           /\ Len(SubSeq(l, x + 1, Len(l))) = Len(l) - x
<1>1. Len(l) \in Nat /\ x \in Int /\ x + 1 \in Int /\ Len(l) \in Int
  OBVIOUS
<1>2. (\A i \in 1..x : l[i] \in Chars) /\ (\A i \in x + 1..Len(l) : l[i] \in Chars)
  OBVIOUS
<1> QED BY <1>1, <1>2, SubSeqProperties

LEMMA InsertKeeps == ASSUME Editable, NEW s \in Seq(Chars), Insert(s) PROVE TextKept /\ RowKept
<1> DEFINE l == SubSeq(Line, 1, cursor_x) \o s \o SubSeq(Line, cursor_x + 1, Len(Line))
           m == Min({Len(l), MaxChars})
           x == Min({cursor_x + Len(s), MaxChars})
<1>1. /\ lines' = [lines EXCEPT ![cursor_y + 1] = SubSeq(l, 1, m)]
      /\ cursor_x' = x /\ cursor_y' = cursor_y
  BY DEF Insert, Edit, Line
<1>2. /\ cursor_y + 1 \in 1..Len(lines) /\ cursor_x \in 0..Len(Line) /\ Line \in Seq(Chars)
      /\ lines \in Buffers /\ Len(lines) \in Nat
  BY BufferFacts DEF Editable, CursorIn, Line
<1>3. l \in Seq(Chars) /\ Len(l) = Len(Line) + Len(s) /\ Len(s) \in Nat
  <2> DEFINE a == SubSeq(Line, 1, cursor_x)
             b == SubSeq(Line, cursor_x + 1, Len(Line))
  <2>1. /\ a \in Seq(Chars) /\ Len(a) = cursor_x
        /\ b \in Seq(Chars) /\ Len(b) = Len(Line) - cursor_x
    BY <1>2, PartsOfLine
  <2> HIDE DEF a, b
  <2>2. a \o s \in Seq(Chars) /\ Len(a \o s) = cursor_x + Len(s)
    BY <2>1, ConcatProperties
  <2>3. a \o s \o b \in Seq(Chars) /\ Len(a \o s \o b) = Len(Line) + Len(s)
    <3> DEFINE c == a \o s
    <3>1. c \in Seq(Chars) /\ Len(c) = cursor_x + Len(s)
      BY <2>2
    <3> HIDE DEF c
    <3>2. c \o b \in Seq(Chars) /\ Len(c \o b) = Len(c) + Len(b)
      BY <2>1, <3>1, ConcatProperties
    <3>3. Len(c) + Len(b) = Len(Line) + Len(s)
      <4>1. cursor_x \in Int /\ Len(Line) \in Int /\ Len(s) \in Int
        BY <1>2
      <4> QED BY <2>1, <3>1, <4>1
    <3> QED BY <3>2, <3>3 DEF c
  <2> QED BY <2>3 DEF a, b
<1> HIDE DEF l
<1>4. m \in Nat /\ m <= Len(l) /\ m <= MaxChars /\ x \in Nat /\ x <= m
  BY <1>2, <1>3, LeastOfTwo, LimitsFacts
<1> HIDE DEF m, x
<1>5. SubSeq(l, 1, m) \in LineTexts /\ Len(SubSeq(l, 1, m)) = m
  BY <1>3, <1>4, PartsOfLine DEF LineTexts
<1>6. lines' \in Buffers /\ Len(lines') = Len(lines) /\ lines'[cursor_y + 1] = SubSeq(l, 1, m)
  BY <1>1, <1>2, <1>5, LineReplaced
<1> QED BY <1>1, <1>2, <1>4, <1>5, <1>6 DEF TextKept, CursorIn, Editable, RowKept

LEMMA CharacterOut ==
    ASSUME NEW l \in LineTexts, NEW i \in 1..Len(l)
    PROVE  RemoveAt(l, i) \in LineTexts /\ Len(RemoveAt(l, i)) = Len(l) - 1
<1>1. l \in Seq(Chars) /\ Len(l) <= MaxChars /\ Len(l) \in Nat /\ i - 1 \in 0..Len(l) /\ i \in 0..Len(l)
  BY DEF LineTexts
<1>2. /\ SubSeq(l, 1, i - 1) \in Seq(Chars) /\ Len(SubSeq(l, 1, i - 1)) = i - 1
      /\ SubSeq(l, i + 1, Len(l)) \in Seq(Chars)
      /\ Len(SubSeq(l, i + 1, Len(l))) = Len(l) - i
  BY <1>1, PartsOfLine
<1>3. RemoveAt(l, i) \in Seq(Chars) /\ Len(RemoveAt(l, i)) = (i - 1) + (Len(l) - i)
  <2> DEFINE a == SubSeq(l, 1, i - 1)
             b == SubSeq(l, i + 1, Len(l))
  <2>1. RemoveAt(l, i) = a \o b
    BY DEF RemoveAt
  <2> HIDE DEF a, b
  <2>2. a \in Seq(Chars) /\ b \in Seq(Chars) /\ Len(a) = i - 1 /\ Len(b) = Len(l) - i
    BY <1>2 DEF a, b
  <2>3. a \o b \in Seq(Chars) /\ Len(a \o b) = Len(a) + Len(b)
    BY <2>2, ConcatProperties
  <2> QED BY <2>1, <2>2, <2>3
<1> QED BY <1>1, <1>3, LimitsFacts DEF LineTexts

LEMMA SumFacts ==
    ASSUME NEW a \in Nat, NEW b \in Nat, NEW c, c = a + b
    PROVE  c \in Nat /\ a \in 0..c /\ (c < MaxLineLength => c <= MaxChars)
BY LimitsFacts

\* Two lines that fit in one are joined.
LEMMA LinesJoined ==
    ASSUME lines \in Buffers, NEW y \in Nat, y + 1 < Len(lines), Fits(y)
    PROVE  /\ Joined(y) \in Buffers /\ Len(Joined(y)) = Len(lines) - 1
           /\ Joined(y)[y + 1] = lines[y + 1] \o lines[y + 2]
           /\ Len(Joined(y)[y + 1]) = Len(lines[y + 1]) + Len(lines[y + 2])
<1> DEFINE n == Len(lines) - 1
           both == lines[y + 1] \o lines[y + 2]
<1>1. /\ Len(lines) \in Nat /\ Len(lines) <= MaxLines /\ n \in Nat
      /\ y + 1 \in 1..Len(lines) /\ y + 2 \in 1..Len(lines) /\ y + 1 \in 1..n
      /\ (y + 1) + 1 = y + 2
  BY BufferFacts
<1>2. /\ both \in Seq(Chars) /\ Len(both) \in Nat
      /\ Len(both) = Len(lines[y + 1]) + Len(lines[y + 2])
  <2>1. /\ lines[y + 1] \in Seq(Chars) /\ Len(lines[y + 1]) \in Nat
        /\ lines[y + 2] \in Seq(Chars) /\ Len(lines[y + 2]) \in Nat
    BY <1>1, BufferFacts
  <2>2. both \in Seq(Chars) /\ Len(both) = Len(lines[y + 1]) + Len(lines[y + 2])
    BY <2>1, ConcatProperties
  <2> QED BY <2>1, <2>2, SumFacts, Zenon
<1>3. Len(both) <= MaxChars
  <2>1. Len(lines[y + 1]) + Len(lines[(y + 1) + 1]) < MaxLineLength
    BY DEF Fits, LineAt
  <2>2. Len(lines[y + 1]) \in Nat /\ Len(lines[y + 2]) \in Nat
    BY <1>1, BufferFacts
  <2>3. Len(both) < MaxLineLength
    BY <1>1, <1>2, <2>1
  <2> QED BY <1>2, <2>2, <2>3, SumFacts, Zenon
<1>4. both \in LineTexts
  BY <1>2, <1>3 DEF LineTexts
<1>5. Joined(y) = [i \in 1..n |-> IF i <= y THEN lines[i]
                                  ELSE IF i = y + 1 THEN lines[i] \o lines[i + 1] ELSE lines[i + 1]]
  BY DEF Joined, TotalLines
<1> HIDE DEF both, n
<1>6. ASSUME NEW i \in 1..n
      PROVE  (IF i <= y THEN lines[i]
              ELSE IF i = y + 1 THEN lines[i] \o lines[i + 1] ELSE lines[i + 1]) \in LineTexts
  <2>1. i \in 1..Len(lines) /\ i + 1 \in 1..Len(lines)
    BY <1>1 DEF n
  <2>2. i = y + 1 => lines[i] \o lines[i + 1] = both
    BY <1>1 DEF both
  <2> QED BY <1>4, <2>1, <2>2, BufferFacts
<1>7. Joined(y) \in [1..n -> LineTexts]
  BY <1>5, <1>6
<1>8. Joined(y) \in Seq(LineTexts) /\ Len(Joined(y)) = n
  <2>1. Joined(y) \in Seq(LineTexts)
    BY <1>1, <1>7, SeqDef
  <2> QED BY <1>1, <1>7, <2>1, LenProperties
<1>9. Joined(y)[y + 1] = both
  <2>1. ~(y + 1 <= y)
    OBVIOUS
  <2>2. Joined(y)[y + 1] = lines[y + 1] \o lines[(y + 1) + 1]
    BY <1>1, <1>5, <2>1
  <2> QED BY <1>1, <2>2 DEF both
<1>10. n <= MaxLines
  BY <1>1, LimitsFacts DEF n
<1> QED BY <1>2, <1>8, <1>9, <1>10 DEF Buffers, both, n

LEMMA BackspaceKeeps == ASSUME Editable, Backspace PROVE TextKept /\ RowKept
<1>0. /\ lines \in Buffers /\ Len(lines) \in Nat /\ cursor_y \in 0..Len(lines) - 1
      /\ cursor_y + 1 \in 1..Len(lines) /\ Line \in LineTexts /\ Line \in Seq(Chars)
      /\ cursor_x \in 0..Len(Line) /\ Len(Line) \in Nat
  BY BufferFacts DEF Editable, CursorIn, Line
<1>1. CASE cursor_x > 0 /\ Edit([lines EXCEPT ![cursor_y + 1] = RemoveAt(@, cursor_x)],
                                cursor_x - 1, cursor_y)
  <2>1. RemoveAt(Line, cursor_x) \in LineTexts /\ Len(RemoveAt(Line, cursor_x)) = Len(Line) - 1
    BY <1>0, <1>1, CharacterOut
  <2>2. /\ lines' = [lines EXCEPT ![cursor_y + 1] = RemoveAt(Line, cursor_x)]
        /\ cursor_x' = cursor_x - 1 /\ cursor_y' = cursor_y
    BY <1>1 DEF Edit, Line
  <2> DEFINE l == RemoveAt(Line, cursor_x)
             row == cursor_y + 1
  <2>3. /\ l \in LineTexts /\ Len(l) = Len(Line) - 1 /\ row \in 1..Len(lines)
        /\ lines' = [lines EXCEPT ![row] = l]
    BY <1>0, <2>1, <2>2
  <2> HIDE DEF l, row
  <2>4. lines' \in Buffers /\ Len(lines') = Len(lines) /\ lines'[row] = l
    BY <1>0, <2>3, LineReplaced
  <2>5. cursor_x - 1 \in 0..Len(l)
    BY <1>0, <1>1, <2>3
  <2> QED BY <1>0, <2>2, <2>4, <2>5 DEF TextKept, CursorIn, row, RowKept
<1>2. CASE cursor_x = 0 /\ cursor_y > 0 /\ Fits(cursor_y - 1)
           /\ Edit(Joined(cursor_y - 1), Len(LineAt(cursor_y - 1)), cursor_y - 1)
  <2> DEFINE y == cursor_y - 1
  <2>1. y \in Nat /\ y + 1 < Len(lines) /\ y + 1 \in 1..Len(lines) /\ y + 2 \in 1..Len(lines)
    BY <1>0, <1>2
  <2>2. Fits(y) /\ lines' = Joined(y) /\ cursor_x' = Len(lines[y + 1]) /\ cursor_y' = y
    BY <1>2 DEF Edit, LineAt
  <2> HIDE DEF y
  <2>3. /\ lines' \in Buffers /\ Len(lines') = Len(lines) - 1
        /\ Len(lines'[y + 1]) = Len(lines[y + 1]) + Len(lines[y + 2])
    BY <1>0, <2>1, <2>2, LinesJoined
  <2>4. Len(lines[y + 1]) \in Nat /\ Len(lines[y + 2]) \in Nat
    BY <1>0, <2>1, BufferFacts
  <2>5. y \in 0..Len(lines') - 1
    BY <1>0, <2>1, <2>3
  <2>6. Len(lines[y + 1]) \in 0..Len(lines'[y + 1])
    BY <2>3, <2>4, SumFacts, Zenon
  <2>7. lines' # lines
    BY <1>0, <2>3
  <2> QED BY <2>2, <2>3, <2>5, <2>6, <2>7 DEF TextKept, CursorIn, RowKept
<1>3. CASE Still
  BY <1>3 DEF Still, TextKept, Editable, CursorIn, RowKept
<1> QED BY <1>1, <1>2, <1>3 DEF Backspace

LEMMA DeleteKeeps == ASSUME Editable, Delete PROVE TextKept /\ RowKept
<1>0. /\ lines \in Buffers /\ Len(lines) \in Nat /\ cursor_y \in 0..Len(lines) - 1
      /\ cursor_y + 1 \in 1..Len(lines) /\ Line \in LineTexts /\ Line \in Seq(Chars)
      /\ cursor_x \in 0..Len(Line) /\ Len(Line) \in Nat
  BY BufferFacts DEF Editable, CursorIn, Line
<1>1. CASE cursor_x < Len(Line)
           /\ Edit([lines EXCEPT ![cursor_y + 1] = RemoveAt(@, cursor_x + 1)], cursor_x, cursor_y)
  <2> DEFINE x == cursor_x + 1
  <2>1. x \in 1..Len(Line)
    BY <1>0, <1>1
  <2>2. /\ lines' = [lines EXCEPT ![cursor_y + 1] = RemoveAt(Line, x)]
        /\ cursor_x' = cursor_x /\ cursor_y' = cursor_y
    BY <1>1 DEF Edit, Line
  <2> HIDE DEF x
  <2>3. RemoveAt(Line, x) \in LineTexts /\ Len(RemoveAt(Line, x)) = Len(Line) - 1
    BY <1>0, <2>1, CharacterOut
  <2> DEFINE l == RemoveAt(Line, x)
             row == cursor_y + 1
  <2>4. /\ l \in LineTexts /\ Len(l) = Len(Line) - 1 /\ row \in 1..Len(lines)
        /\ lines' = [lines EXCEPT ![row] = l]
    BY <1>0, <2>2, <2>3
  <2> HIDE DEF l, row
  <2>5. lines' \in Buffers /\ Len(lines') = Len(lines) /\ lines'[row] = l
    BY <1>0, <2>4, LineReplaced
  <2>6. cursor_x \in 0..Len(l)
    BY <1>0, <1>1, <2>4
  <2> QED BY <1>0, <2>2, <2>5, <2>6 DEF TextKept, CursorIn, row, RowKept
<1>2. CASE DeleteLineEnd
  <2>1. cursor_y \in Nat /\ cursor_y + 1 < Len(lines) /\ cursor_y + 2 \in 1..Len(lines)
    BY <1>0, <1>2 DEF DeleteLineEnd, LastLine, TotalLines
  <2>2. Fits(cursor_y) /\ lines' = Joined(cursor_y) /\ cursor_x' = cursor_x /\ cursor_y' = cursor_y
    BY <1>2 DEF DeleteLineEnd, Edit
  <2>3. /\ lines' \in Buffers /\ Len(lines') = Len(lines) - 1
        /\ Len(lines'[cursor_y + 1]) = Len(lines[cursor_y + 1]) + Len(lines[cursor_y + 2])
    BY <1>0, <2>1, <2>2, LinesJoined
  <2>4. Len(lines[cursor_y + 2]) \in Nat /\ lines[cursor_y + 1] = Line
    BY <1>0, <2>1, BufferFacts DEF Line
  <2>5. cursor_y \in 0..Len(lines') - 1
    BY <1>0, <2>1, <2>3
  <2>6. cursor_x \in 0..Len(lines'[cursor_y + 1])
    BY <1>0, <2>3, <2>4
  <2> QED BY <2>2, <2>3, <2>5, <2>6 DEF TextKept, CursorIn, RowKept
<1>3. CASE Still
  BY <1>3 DEF Still, TextKept, Editable, CursorIn, RowKept
<1> QED BY <1>1, <1>2, <1>3 DEF Delete

LEMMA RowsOfText ==
    ASSUME NEW ls \in Seq(LineTexts), NEW i \in 0..Len(ls)
    PROVE  /\ SubSeq(ls, 1, i) \in Seq(LineTexts) /\ Len(SubSeq(ls, 1, i)) = i
           /\ SubSeq(ls, i + 1, Len(ls)) \in Seq(LineTexts)
           /\ Len(SubSeq(ls, i + 1, Len(ls))) = Len(ls) - i
<1>1. i \in Int /\ i + 1 \in Int /\ Len(ls) \in Int /\ Len(ls) \in Nat
  OBVIOUS
<1>2. (\A j \in 1..i : ls[j] \in LineTexts) /\ (\A j \in i + 1..Len(ls) : ls[j] \in LineTexts)
  OBVIOUS
<1> QED BY <1>1, <1>2, SubSeqProperties

LEMMA EnterKeeps == ASSUME Editable, Enter PROVE TextKept /\ RowKept
<1>0. /\ lines \in Seq(LineTexts) /\ Len(lines) \in Nat /\ cursor_y \in 0..Len(lines) - 1
      /\ cursor_y + 1 \in 1..Len(lines) /\ Line \in LineTexts /\ Line \in Seq(Chars)
      /\ cursor_x \in 0..Len(Line) /\ Len(Line) \in Nat /\ Len(Line) <= MaxChars
  BY BufferFacts DEF Editable, CursorIn, Line
<1>1. CASE TotalLines < MaxLines
           /\ Edit(SubSeq(lines, 1, cursor_y) \o Halves \o SubSeq(lines, cursor_y + 2, TotalLines),
                   0, cursor_y + 1)
  <2> DEFINE a == SubSeq(lines, 1, cursor_y)
             b == SubSeq(lines, cursor_y + 2, Len(lines))
             l == SubSeq(Line, 1, cursor_x)
             r == SubSeq(Line, cursor_x + 1, Len(Line))
             ls == a \o <<l, r>> \o b
  <2>1. lines' = ls /\ cursor_x' = 0 /\ cursor_y' = cursor_y + 1
    BY <1>1 DEF Edit, Halves, TotalLines
  <2>2. l \in LineTexts /\ r \in LineTexts
    BY <1>0, PartsOfLine, LimitsFacts DEF LineTexts
  <2>3. a \in Seq(LineTexts) /\ Len(a) = cursor_y
    BY <1>0, RowsOfText
  <2>4. b \in Seq(LineTexts) /\ Len(b) = Len(lines) - (cursor_y + 1)
    <3> DEFINE i == cursor_y + 1
    <3>1. i \in 0..Len(lines) /\ cursor_y + 2 = i + 1
      BY <1>0
    <3> HIDE DEF i
    <3>2. b = SubSeq(lines, i + 1, Len(lines))
      BY <3>1
    <3>3. b \in Seq(LineTexts) /\ Len(b) = Len(lines) - i
      BY <1>0, <3>1, <3>2, RowsOfText
    <3> QED BY <3>3 DEF i
  <2> HIDE DEF a, b, l, r
  <2>5. <<l, r>> \in Seq(LineTexts) /\ Len(<<l, r>>) = 2
    BY <2>2
  <2> DEFINE c == a \o <<l, r>>
  <2>6. c \in Seq(LineTexts) /\ Len(c) = cursor_y + 2 /\ c[cursor_y + 2] = r
    <3>1. c \in Seq(LineTexts) /\ Len(c) = Len(a) + 2
      BY <2>3, <2>5, ConcatProperties
    <3>2. c[cursor_y + 2] = <<l, r>>[2]
      BY <1>0, <2>3, <2>5, ConcatProperties
    <3> QED BY <2>3, <3>1, <3>2
  <2> HIDE DEF c
  <2>7. ls = c \o b
    BY DEF c
  <2> HIDE DEF ls
  <2>8. ls \in Seq(LineTexts) /\ Len(ls) = Len(c) + Len(b) /\ ls[cursor_y + 2] = c[cursor_y + 2]
    <3>1. cursor_y + 2 \in 1..Len(c)
      BY <1>0, <2>6
    <3>2. c \o b \in Seq(LineTexts) /\ Len(c \o b) = Len(c) + Len(b)
      BY <2>4, <2>6, ConcatProperties
    <3>3. (c \o b)[cursor_y + 2] = c[cursor_y + 2]
      BY <2>4, <2>6, <3>1, ConcatProperties
    <3> QED BY <2>7, <3>2, <3>3
  <2>9. Len(ls) = Len(lines) + 1 /\ Len(ls) <= MaxLines
    <3>1. Len(ls) = Len(lines) + 1
      BY <1>0, <2>4, <2>6, <2>8
    <3> QED BY <1>0, <1>1, <3>1, LimitsFacts DEF TotalLines
  <2>10. ls \in Buffers
    BY <2>8, <2>9 DEF Buffers
  <2>11. 0 \in 0..Len(ls[(cursor_y + 1) + 1])
    <3>1. (cursor_y + 1) + 1 = cursor_y + 2 /\ Len(r) \in Nat
      BY <1>0, <2>2 DEF LineTexts
    <3> QED BY <2>6, <2>8, <3>1
  <2>12. ls # lines
    BY <1>0, <2>9
  <2>13. cursor_y + 1 \in 0..Len(ls) - 1
    BY <1>0, <2>9
  <2> QED BY <2>1, <2>10, <2>11, <2>12, <2>13 DEF TextKept, CursorIn, RowKept
<1>2. CASE Still
  BY <1>2 DEF Still, TextKept, Editable, CursorIn, RowKept
<1> QED BY <1>1, <1>2 DEF Enter

-----------------------------------------------------------------------------
(* A text that is saved whole is opened as it was.                           *)

Full(buf) == Len(buf) >= BufferSize - 1

\* A line that does not fill the buffer is in it, with its line end.
LEMMA LineSavedWhole ==
    ASSUME NEW buf \in Written, NEW line \in LineTexts, ~Full(SaveLine(buf, line))
    PROVE  SaveLine(buf, line) = buf \o line \o <<NL>> /\ ~Full(buf)
<1> DEFINE room == Max({0, BufferSize - 2 - Len(buf)})
           m == Min({Len(line), room})
           part == SubSeq(line, 1, m)
           filled == buf \o part
<1>1. /\ Len(buf) \in Nat /\ Len(line) \in Nat /\ line \in Seq(Chars)
      /\ BufferSize \in Nat /\ BufferSize > 2
  BY NanoAssumption DEF Written, LineTexts
<1>2. SaveLine(buf, line) = IF Full(buf) THEN buf
                            ELSE IF Len(filled) < BufferSize - 1 THEN Append(filled, NL)
                            ELSE filled
  BY DEF SaveLine, Full
<1>3. ~Full(buf)
  BY <1>2
<1>4. room = BufferSize - 2 - Len(buf) /\ room \in Nat
  BY <1>1, <1>3, GreatestOfTwo DEF Full
<1> HIDE DEF room
<1>5. m = IF Len(line) <= room THEN Len(line) ELSE room
  BY <1>1, <1>4, LeastOfTwo
<1>6. m \in 0..Len(line)
  BY <1>1, <1>4, <1>5
<1> HIDE DEF m
<1>7. part \in Seq(Chars) /\ Len(part) = m
  BY <1>1, <1>6, PartsOfLine
<1> HIDE DEF part
<1>8. filled \in Written /\ Len(filled) = Len(buf) + m
  <2>1. part \in Written
    BY <1>7, SeqMonotonic DEF Written
  <2>2. filled \in Written /\ Len(filled) = Len(buf) + Len(part)
    BY <2>1, ConcatProperties DEF Written
  <2> QED BY <1>7, <2>2
<1> HIDE DEF filled
<1>9. SaveLine(buf, line) = Append(filled, NL)
  BY <1>1, <1>2, <1>3, <1>8 DEF Full
<1>10. Len(Append(filled, NL)) = Len(filled) + 1 /\ Append(filled, NL) = filled \o <<NL>>
  BY <1>8, AppendProperties, AppendIsConcat DEF Written
<1>11. m = Len(line)
  <2>1. Len(buf) + m + 1 < BufferSize - 1
    BY <1>1, <1>6, <1>8, <1>9, <1>10 DEF Full
  <2> QED BY <1>1, <1>4, <1>5, <2>1
<1>12. part = line
  BY <1>1, <1>11, SubSeqFull DEF part
<1> QED BY <1>3, <1>9, <1>10, <1>12 DEF filled

\* buf is how text begins.
Begins(buf, text) ==
    Len(buf) <= Len(text) /\ \A i \in 1..Len(buf) : text[i] = buf[i]

\* A line found in the file becomes the next line of the buffer.
LEMMA LineLoaded ==
    ASSUME NEW text \in Seq(Bytes), NEW g \in [0..Len(text) -> Loading], NEW base,
           LoadSteps(Len(text), base, text, g),
           NEW rows \in Seq(LineTexts), Len(rows) < MaxLines, NEW l \in LineTexts,
           NEW p \in Nat, p + Len(l) + 1 <= Len(text),
           \A j \in 1..Len(l) : text[p + j] = l[j], text[p + Len(l) + 1] = NL,
           g[p] = [lines |-> rows, line |-> <<>>]
    PROVE  g[p + Len(l) + 1] = [lines |-> Append(rows, l), line |-> <<>>]
<1> DEFINE m == Len(l)
           S == {j \in 0..m : g[p + j] = [lines |-> rows, line |-> SubSeq(l, 1, j)]}
<1>1. /\ m \in Nat /\ l \in Seq(Chars) /\ m <= MaxChars /\ MaxChars \in Nat
      /\ Len(text) \in Nat /\ Len(rows) # MaxLines
  BY LimitsFacts DEF LineTexts
<1>2. \A j \in 1..m : l[j] \in Chars /\ l[j] # NL /\ l[j] # CR
  BY <1>1, NanoAssumption
<1>3. \A k \in 0..Len(text) : k < Len(text) => g[k + 1] = LoadByte(g[k], text[k + 1])
  BY DEF LoadSteps
<1>4. 0 \in S
  <2>1. SubSeq(l, 1, 0) = <<>>
    BY SubSeqEmpty
  <2> QED BY <1>1, <2>1
<1>5. ASSUME NEW j \in 0..m, j \in S, j < m PROVE j + 1 \in S
  <2> DEFINE s == SubSeq(l, 1, j)
  <2>1. /\ j + 1 \in 0..m /\ j + 1 \in 1..m /\ p + j \in 0..Len(text) /\ p + j < Len(text)
        /\ (p + j) + 1 = p + (j + 1)
    BY <1>1, <1>5
  <2>2. g[p + (j + 1)] = LoadByte([lines |-> rows, line |-> s], l[j + 1])
    BY <1>3, <1>5, <2>1
  <2>3. s \in Seq(Chars) /\ Len(s) = j
    BY <1>1, PartsOfLine
  <2>4. SubSeq(l, 1, j + 1) = s \o <<l[j + 1]>>
    <3>1. 1 \in 1..Len(l) /\ j + 1 \in 1..Len(l) /\ (j + 1) - 1 = j
      BY <2>1
    <3> QED BY <1>1, <3>1, SubSeqRecursiveSecond
  <2>5. SubSeq(l, 1, j + 1) = Append(s, l[j + 1])
    BY <1>2, <2>1, <2>3, <2>4, AppendIsConcat
  <2> HIDE DEF s
  <2>6. LoadByte([lines |-> rows, line |-> s], l[j + 1])
            = [lines |-> rows, line |-> Append(s, l[j + 1])]
    <3>1. Len(s) < MaxChars /\ l[j + 1] # NL /\ l[j + 1] # CR
      BY <1>1, <1>2, <1>5, <2>1, <2>3
    <3> QED BY <1>1, <3>1 DEF LoadByte
  <2> QED BY <2>1, <2>2, <2>5, <2>6
<1> HIDE DEF S
<1>6. m \in S
  <2>1. \A j \in 0..m : j \in S
    BY <1>1, <1>4, <1>5, NumbersUpTo, Zenon
  <2> QED BY <1>1, <2>1
<1>7. g[p + m] = [lines |-> rows, line |-> l]
  BY <1>1, <1>6, SubSeqFull DEF S
<1>8. p + m \in 0..Len(text) /\ p + m < Len(text) /\ text[(p + m) + 1] = NL
  BY <1>1
<1>9. g[(p + m) + 1] = LoadByte([lines |-> rows, line |-> l], NL)
  BY <1>3, <1>7, <1>8
<1>10. LoadByte([lines |-> rows, line |-> l], NL) = [lines |-> Append(rows, l), line |-> <<>>]
  BY <1>1 DEF LoadByte
<1> QED BY <1>9, <1>10

\* Text that did not fill the I/O buffer when it was saved opens as it was.
LEMMA SavedOpens ==
    ASSUME NEW ls \in Buffers, ls # <<>>, ~Full(Saved(ls))
    PROVE  Opened(Saved(ls)) = ls
<1> DEFINE n == Len(ls)
           text == Saved(ls)
           base == [lines |-> <<>>, line |-> <<>>]
<1>1. /\ n \in Nat /\ n > 0 /\ DOMAIN ls = 1..n /\ n <= MaxLines /\ MaxLines \in Nat
      /\ ls \in Seq(LineTexts) /\ \A i \in 1..n : ls[i] \in LineTexts
  BY BufferFacts, LimitsFacts
<1> HIDE DEF n
<1>2. text \in Seq(Bytes) /\ Len(text) \in Nat /\ DOMAIN text = 1..Len(text)
  BY FileSaved
<1>3. <<>> \in Written /\ Len(<<>>) = 0
  BY DEF Written
<1>4. \A d \in Written, i \in 1..n : SaveLine(d, ls[i]) \in Written
  BY <1>1, LineSaved
<1>5. PICK f \in [0..n -> Written] : SaveSteps(n, <<>>, ls, f)
  BY <1>1, <1>3, <1>4, SaveCourse
<1>6. /\ f[0] = <<>> /\ f[n] = text
      /\ \A k \in 0..n : k < n => f[k + 1] = SaveLine(f[k], ls[k + 1])
  BY <1>5, Zenon DEF Saved, SaveAll, SaveSteps
<1>7. ~Full(text)
  OBVIOUS
<1> HIDE DEF text
<1> DEFINE Whole(k) == ~Full(f[k]) /\ Begins(f[k], text)
<1>8. \A k \in 0..n : Whole(k)
  <2> DEFINE S == {j \in 0..n : Whole(n - j)}
  <2>1. 0 \in S
    BY <1>1, <1>2, <1>6, <1>7 DEF Begins
  <2>2. ASSUME NEW j \in 0..n, j \in S, j < n PROVE j + 1 \in S
    <3> DEFINE k == n - (j + 1)
               l == ls[k + 1]
    <3>1. k \in 0..n /\ k < n /\ k + 1 = n - j /\ k + 1 \in 1..n /\ j + 1 \in 0..n
      BY <1>1, <2>2
    <3> HIDE DEF k
    <3>2. f[k] \in Written /\ l \in LineTexts /\ l \in Seq(Chars)
      BY <1>1, <3>1 DEF LineTexts
    <3>3. f[k + 1] = SaveLine(f[k], l) /\ Whole(k + 1)
      BY <1>6, <2>2, <3>1
    <3>4. f[k + 1] = f[k] \o l \o <<NL>> /\ ~Full(f[k])
      BY <3>2, <3>3, LineSavedWhole
    <3>5. Begins(f[k], f[k + 1])
      <4> DEFINE a == f[k]
                 b == a \o l
      <4>1. l \in Written /\ <<NL>> \in Written /\ a \in Written
        BY <3>2 DEF Written
      <4> HIDE DEF a, l
      <4>2. /\ b \in Written /\ Len(b) = Len(a) + Len(l) /\ Len(a) \in Nat /\ Len(l) \in Nat
            /\ \A i \in 1..Len(a) + Len(l) : b[i] = IF i <= Len(a) THEN a[i] ELSE l[i - Len(a)]
        BY <4>1, ConcatProperties DEF Written
      <4>3. \A i \in 1..Len(a) : b[i] = a[i]
        BY <4>2
      <4> HIDE DEF b
      <4>4. Begins(a, b)
        BY <4>2, <4>3 DEF Begins
      <4>5. Len(b) <= Len(b \o <<NL>>) /\ \A i \in 1..Len(b) : (b \o <<NL>>)[i] = b[i]
        BY <4>1, <4>2 DEF Written
      <4>6. Len(b \o <<NL>>) \in Nat
        BY <4>1, <4>2, ConcatProperties DEF Written
      <4>7. Begins(a, b \o <<NL>>)
        BY <4>2, <4>4, <4>5, <4>6 DEF Begins
      <4> QED BY <3>4, <4>7 DEF a, b
    <3>6. Len(f[k]) \in Nat /\ Len(f[k + 1]) \in Nat
      <4>1. k + 1 \in 0..n
        BY <3>1
      <4> QED BY <3>1, <4>1 DEF Written
    <3>7. Begins(f[k], text)
      BY <1>2, <3>3, <3>5, <3>6 DEF Begins
    <3> QED BY <3>1, <3>4, <3>7 DEF k
  <2> HIDE DEF S
  <2>3. n \in S /\ \A j \in 0..n : j \in S
    BY <1>1, <2>1, <2>2, NumbersUpTo
  <2>4. ASSUME NEW k \in 0..n PROVE Whole(k)
    <3>1. n - k \in 0..n /\ n - (n - k) = k
      BY <1>1
    <3>2. Whole(n - (n - k))
      BY <2>3, <3>1 DEF S
    <3> QED BY <3>1, <3>2
  <2> QED BY <2>4
<1>9. ASSUME NEW k \in 0..n, k < n
      PROVE  LET p == Len(f[k])  l == ls[k + 1]
             IN /\ p \in Nat /\ l \in LineTexts /\ Len(f[k + 1]) = p + Len(l) + 1
                /\ p + Len(l) + 1 <= Len(text) /\ text[p + Len(l) + 1] = NL
                /\ \A j \in 1..Len(l) : text[p + j] = l[j]
  <2> DEFINE a == f[k]
             l == ls[k + 1]
             b == a \o l
             c == b \o <<NL>>
  <2>1. k + 1 \in 0..n /\ k + 1 \in 1..n
    BY <1>1, <1>9
  <2>2. /\ a \in Written /\ l \in LineTexts /\ l \in Written /\ <<NL>> \in Written
        /\ f[k + 1] = SaveLine(a, l)
    <3>1. f[k + 1] = SaveLine(f[k], ls[k + 1]) /\ f[k] \in Written /\ ls[k + 1] \in LineTexts
      BY <1>1, <1>6, <1>9, <2>1
    <3>2. ls[k + 1] \in Seq(Chars)
      BY <3>1 DEF LineTexts
    <3>3. ls[k + 1] \in Written /\ <<NL>> \in Written
      BY <3>2, SeqMonotonic DEF Written
    <3> QED BY <3>1, <3>3
  <2>3. f[k + 1] = c /\ Begins(c, text)
    <3>1. Whole(k + 1)
      BY <1>8, <2>1
    <3> QED BY <2>2, <3>1, LineSavedWhole
  <2> HIDE DEF a, l
  <2>4. /\ b \in Written /\ Len(b) = Len(a) + Len(l) /\ Len(a) \in Nat /\ Len(l) \in Nat
        /\ \A i \in 1..Len(a) + Len(l) : b[i] = IF i <= Len(a) THEN a[i] ELSE l[i - Len(a)]
    BY <2>2, ConcatProperties DEF Written
  <2>5. \A j \in 1..Len(l) : b[Len(a) + j] = l[j]
    <3>1. TAKE j \in 1..Len(l)
    <3>2. Len(a) + j \in 1..Len(a) + Len(l) /\ ~(Len(a) + j <= Len(a)) /\ (Len(a) + j) - Len(a) = j
      BY <2>4
    <3> QED BY <2>4, <3>2
  <2> HIDE DEF b
  <2>6. Len(<<NL>>) = 1 /\ <<NL>>[1] = NL
    OBVIOUS
  <2>7. /\ c \in Written /\ Len(c) = Len(b) + 1
        /\ \A i \in 1..Len(b) + 1 : c[i] = IF i <= Len(b) THEN b[i] ELSE <<NL>>[i - Len(b)]
    BY <2>2, <2>4, <2>6, ConcatProperties DEF Written
  <2>8. c[Len(b) + 1] = NL /\ \A i \in 1..Len(b) : c[i] = b[i]
    <3>1. Len(b) \in Nat /\ (Len(b) + 1) - Len(b) = 1
      BY <2>2, <2>4
    <3> QED BY <2>6, <2>7, <3>1
  <2> HIDE DEF c
  <2>9. Len(c) = Len(a) + Len(l) + 1 /\ Len(c) <= Len(text) /\ \A i \in 1..Len(c) : text[i] = c[i]
    BY <2>3, <2>4, <2>7 DEF Begins
  <2>10. text[Len(a) + Len(l) + 1] = NL
    BY <2>4, <2>8, <2>9
  <2>11. \A j \in 1..Len(l) : text[Len(a) + j] = l[j]
    <3>1. TAKE j \in 1..Len(l)
    <3>2. Len(a) + j \in 1..Len(b) /\ Len(a) + j \in 1..Len(c)
      BY <2>4, <2>9
    <3> QED BY <2>5, <2>8, <2>9, <3>2
  <2> QED BY <2>2, <2>3, <2>4, <2>9, <2>10, <2>11 DEF a, l
<1>10. base \in Loading
  BY <1>1 DEF Loading, Buffers, LineTexts, MaxChars, NanoAssumption
<1> HIDE DEF base
<1>11. \A i \in 1..Len(text), d \in Loading : LoadByte(d, text[i]) \in Loading
  BY <1>2, ByteLoaded
<1>12. PICK g \in [0..Len(text) -> Loading] : LoadSteps(Len(text), base, text, g)
  BY <1>2, <1>10, <1>11, LoadCourse
<1> DEFINE R == {k \in 0..n : g[Len(f[k])] = [lines |-> SubSeq(ls, 1, k), line |-> <<>>]}
<1>13. 0 \in R
  <2>1. g[0] = base
    BY <1>12 DEF LoadSteps
  <2>2. SubSeq(ls, 1, 0) = <<>>
    BY SubSeqEmpty
  <2> QED BY <1>1, <1>3, <1>6, <2>1, <2>2 DEF base
<1>14. ASSUME NEW k \in 0..n, k \in R, k < n PROVE k + 1 \in R
  <2> DEFINE l == ls[k + 1]
             p == Len(f[k])
             rows == SubSeq(ls, 1, k)
  <2>1. k + 1 \in 0..n /\ k + 1 \in 1..n /\ k < MaxLines
    BY <1>1, <1>14
  <2>2. rows \in Seq(LineTexts) /\ Len(rows) = k
    BY <1>1, RowsOfText DEF n
  <2>3. g[p] = [lines |-> rows, line |-> <<>>]
    BY <1>14
  <2>4. SubSeq(ls, 1, k + 1) = Append(rows, l)
    <3>1. 1 \in 1..Len(ls) /\ k + 1 \in 1..Len(ls) /\ (k + 1) - 1 = k
      BY <1>1, <2>1 DEF n
    <3>2. SubSeq(ls, 1, k + 1) = rows \o <<l>>
      BY <1>1, <3>1, SubSeqRecursiveSecond
    <3> QED BY <1>1, <2>1, <2>2, <3>2, AppendIsConcat
  <2>5. /\ p \in Nat /\ l \in LineTexts /\ Len(f[k + 1]) = p + Len(l) + 1
        /\ p + Len(l) + 1 <= Len(text) /\ text[p + Len(l) + 1] = NL
        /\ \A j \in 1..Len(l) : text[p + j] = l[j]
    BY <1>9, <1>14
  <2> HIDE DEF l, p, rows
  <2>6. g[p + Len(l) + 1] = [lines |-> Append(rows, l), line |-> <<>>]
    BY <1>2, <1>12, <2>1, <2>2, <2>3, <2>5, LineLoaded
  <2> QED BY <2>1, <2>4, <2>5, <2>6
<1> HIDE DEF R
<1>15. n \in R
  <2>1. \A k \in 0..n : k \in R
    BY <1>1, <1>13, <1>14, NumbersUpTo, Zenon
  <2> QED BY <1>1, <2>1
<1>16. g[Len(text)] = [lines |-> ls, line |-> <<>>]
  <2>1. SubSeq(ls, 1, n) = ls
    BY <1>1, SubSeqFull DEF n
  <2> QED BY <1>6, <1>15, <2>1 DEF R
<1>17. Loaded(text) = LET done == g[Len(text)]
                      IN IF done.line # <<>> /\ Len(done.lines) < MaxLines
                         THEN Append(done.lines, done.line) ELSE done.lines
  BY <1>12, Zenon DEF Loaded, LoadAll, LoadSteps, base
<1>18. Loaded(text) = ls
  BY <1>16, <1>17
<1>19. text # <<>>
  <2>1. n - 1 \in 0..n /\ n - 1 < n /\ (n - 1) + 1 = n
    BY <1>1
  <2>2. ls[n] \in LineTexts /\ Len(ls[n]) \in Nat
    BY <1>1 DEF LineTexts
  <2> DEFINE a == Len(f[n - 1])
             b == Len(ls[n])
  <2>3. Len(text) = a + b + 1 /\ a \in Nat /\ b \in Nat
    BY <1>6, <1>9, <2>1, <2>2
  <2> HIDE DEF a, b
  <2>4. Len(text) # 0
    BY <2>3
  <2> QED BY <1>3, <2>4
<1> QED BY <1>18, <1>19 DEF Opened, text

-----------------------------------------------------------------------------
(* The cursor and the viewport.                                              *)

LEMMA HeightFacts == ViewportHeight \in Nat /\ ViewportHeight > 1
BY NanoAssumption

LEMMA Clamped ==
    ASSUME NEW n \in Int, NEW hi \in Nat
    PROVE  Clamp(n, 0, hi) \in 0..hi
<1>1. Min({n, hi}) = IF n <= hi THEN n ELSE hi
  BY LeastOfTwo
<1>2. Min({n, hi}) \in Int /\ Min({n, hi}) <= hi
  BY <1>1
<1> HIDE DEF Min
<1> QED BY <1>2, GreatestOfTwo DEF Clamp

\* The viewport that shows a row of the text does show it.
LEMMA ScrolledShows ==
    ASSUME lines \in Buffers, viewport_y \in Nat, NEW y \in 0..Len(lines) - 1
    PROVE  Scrolled(y) \in Nat /\ y \in Scrolled(y)..Scrolled(y) + ViewportHeight - 1
<1> DEFINE near == IF y < viewport_y THEN y
                   ELSE IF y >= viewport_y + ViewportHeight THEN y - ViewportHeight + 1
                   ELSE viewport_y
           last == Len(lines) - ViewportHeight
           low == Min({near, last})
<1>1. Len(lines) \in Nat /\ y \in Nat
  BY BufferFacts
<1>2. /\ near \in Int /\ near >= 0 /\ last \in Int
      /\ near <= y /\ y <= near + ViewportHeight - 1
      /\ y <= last + ViewportHeight - 1
  BY <1>1, HeightFacts
<1>3. Scrolled(y) = Max({0, low})
  BY DEF Scrolled, TotalLines
<1> HIDE DEF near, last
<1>4. low = IF near <= last THEN near ELSE last
  BY <1>2, LeastOfTwo
<1>5. low \in Int
  BY <1>2, <1>4
<1> HIDE DEF low
<1>6. Max({0, low}) = IF 0 >= low THEN 0 ELSE low
  BY <1>5, GreatestOfTwo
<1> QED BY <1>1, <1>2, <1>3, <1>4, <1>5, <1>6, HeightFacts

\* Where the cursor is on the screen after a step.
ShownAfter == cursor_y' \in viewport_y'..viewport_y' + ViewportHeight - 1

LEMMA MoveKeeps ==
    ASSUME Editable, viewport_y \in Nat, NEW x \in Int, NEW y \in 0..Len(lines) - 1,
           MoveTo(x, y), lines' = lines
    PROVE  TextKept /\ viewport_y' \in Nat /\ ShownAfter
<1>1. /\ lines \in Buffers /\ y + 1 \in 1..Len(lines) /\ Len(lines[y + 1]) \in Nat
  BY BufferFacts DEF Editable
<1>2. Clamp(x, 0, Len(lines[y + 1])) \in 0..Len(lines[y + 1])
  BY <1>1, Clamped
<1>3. cursor_x' \in 0..Len(lines[y + 1]) /\ cursor_y' = y /\ viewport_y' = Scrolled(y)
  BY <1>2 DEF MoveTo, LineAt
<1>4. Scrolled(y) \in Nat /\ y \in Scrolled(y)..Scrolled(y) + ViewportHeight - 1
  BY <1>1, ScrolledShows
<1> QED BY <1>1, <1>3, <1>4 DEF TextKept, CursorIn, ShownAfter

\* A step on the text: the cursor ends on it, and if the cursor changes rows or
\* the viewport moves over an unchanged text then the cursor is shown.
TextStep ==
    /\ TextKept /\ viewport_y' \in Nat
    /\ (viewport_y' = viewport_y /\ RowKept) \/ ShownAfter

LEMMA EditingKeeps ==
    ASSUME Editable, viewport_y \in Nat, NEW k, Editing(k)
    PROVE  TextStep
<1>1. viewport_y' = viewport_y
  BY DEF Editing
<1>2. CASE k \in Letters /\ Insert(<<Ascii[k]>>)
  <2>1. <<Ascii[k]>> \in Seq(Chars)
    BY <1>2, NanoAssumption
  <2> QED BY <1>1, <1>2, <2>1, InsertKeeps DEF TextStep
<1>3. CASE Insert([i \in 1 .. 4 |-> Space])
  <2>1. [i \in 1 .. 4 |-> Space] \in Seq(Chars)
    BY NanoAssumption
  <2> QED BY <1>1, <1>3, <2>1, InsertKeeps DEF TextStep
<1>4. CASE Backspace
  BY <1>1, <1>4, BackspaceKeeps DEF TextStep
<1>5. CASE Delete
  BY <1>1, <1>5, DeleteKeeps DEF TextStep
<1>6. CASE Enter
  BY <1>1, <1>6, EnterKeeps DEF TextStep
<1> QED BY <1>2, <1>3, <1>4, <1>5, <1>6 DEF Editing

LEMMA MovingKeeps ==
    ASSUME Editable, viewport_y \in Nat, NEW k, Moving(k)
    PROVE  TextStep
<1>1. /\ lines' = lines /\ lines \in Buffers /\ Len(lines) - 1 \in Nat
      /\ cursor_y \in 0..Len(lines) - 1 /\ cursor_y \in Int
      /\ cursor_x \in 0..Len(lines[cursor_y + 1]) /\ cursor_x \in Int
      /\ Len(lines[cursor_y + 1]) \in Nat
  BY BufferFacts DEF Moving, Editable, CursorIn
<1>2. ASSUME NEW x \in Int, NEW dy \in Int, MoveTo(x, Clamp(cursor_y + dy, 0, TotalLines - 1))
      PROVE  TextStep
  <2>1. Clamp(cursor_y + dy, 0, Len(lines) - 1) \in 0..Len(lines) - 1
    <3>1. cursor_y + dy \in Int
      BY <1>1
    <3> QED BY <1>1, <3>1, Clamped, Zenon
  <2> QED BY <1>1, <1>2, <2>1, MoveKeeps DEF TotalLines, TextStep
<1>3. ASSUME NEW dx \in Int, NEW dy \in Int, MoveCursor(dx, dy) PROVE TextStep
  <2>1. cursor_x + dx \in Int
    BY <1>1
  <2> QED BY <1>2, <1>3, <2>1, Zenon DEF MoveCursor
<1>4. ASSUME NEW direction \in Int, PageScroll(direction) PROVE TextStep
  <2>1. direction * (ViewportHeight - 1) \in Int
    BY HeightFacts
  <2> QED BY <1>1, <1>2, <1>4, <2>1 DEF PageScroll
<1>5. CASE LineStart
  BY <1>1, <1>5 DEF LineStart, TextStep, TextKept, CursorIn, RowKept
<1>6. CASE LineEnd
  BY <1>1, <1>6 DEF LineEnd, Line, TextStep, TextKept, CursorIn, RowKept
<1> QED BY <1>3, <1>4, <1>5, <1>6 DEF Moving

-----------------------------------------------------------------------------
(* A step of the editor.                                                     *)

\* Nothing about the text changes.
TextUntouched == UNCHANGED <<view, lines>>

\* A step of the editor or of the prompt leaves everything in order.
StepKeeps ==
    /\ ModesIn' /\ FlagsIn' /\ FileIn' /\ TextIn'
    /\ (viewport_y' = viewport_y /\ RowKept) \/ CursorVisible'

LEMMA UntouchedKeeps ==
    ASSUME TextIn, TextUntouched, editor_active' => editor_active
    PROVE  TextIn' /\ viewport_y' = viewport_y /\ RowKept
BY DEF TextIn, TextUntouched, view, RowKept, CursorIn

LEMMA SavingKeeps ==
    ASSUME EditorInv, editor_active, SaveWorks \/ SaveFails
    PROVE  FlagsIn' /\ FileIn'
<1>1. lines \in Buffers /\ lines # <<>>
  <2>1. Len(lines) > 0
    BY BufferFacts DEF EditorInv, TextIn, CursorIn
  <2> QED BY <2>1 DEF EditorInv, TextIn
<1>2. Saved(lines) \in Seq(Bytes) /\ Opened(Saved(lines)) # <<>>
  BY <1>1, FileSaved
<1>3. CASE SaveWorks
  BY <1>2, <1>3 DEF SaveWorks, EditorInv, FlagsIn, FileIn
<1>4. CASE SaveFails
  BY <1>4 DEF SaveFails, EditorInv, FlagsIn, FileIn
<1> QED BY <1>3, <1>4

LEMMA OpenKeeps == ASSUME EditorInv, OpenEditor PROVE StepKeeps
<1>1. lines' \in Buffers /\ lines' # <<>>
  <2>1. CASE lines' = Opened(file)
    BY <2>1, FileOpened DEF EditorInv, FileIn
  <2>2. CASE lines' = << <<>> >>
    <3>1. <<>> \in LineTexts
      BY LimitsFacts DEF LineTexts
    <3> QED BY <2>2, <3>1, LimitsFacts DEF Buffers
  <2> QED BY <2>1, <2>2 DEF OpenEditor
<1>2. CursorIn(lines', 0, 0)
  <2>1. Len(lines') \in Nat /\ Len(lines') > 0 /\ Len(lines'[1]) \in Nat
    BY <1>1, BufferFacts
  <2> QED BY <2>1 DEF CursorIn
<1>3. /\ ModesIn' /\ FlagsIn' /\ FileIn'
      /\ viewport_y' = 0 /\ cursor_x' = 0 /\ cursor_y' = 0
  BY DEF OpenEditor, ModesIn, FlagsIn, FileIn, EditorInv
<1>4. TextIn'
  BY <1>1, <1>2, <1>3 DEF TextIn
<1>5. CursorVisible'
  BY <1>3, HeightFacts DEF CursorVisible
<1> QED BY <1>3, <1>4, <1>5 DEF StepKeeps

LEMMA HandlerKeeps ==
    ASSUME EditorInv, editor_active, NEW k, HandleScancode(k)
    PROVE  StepKeeps
<1>1. /\ Editable /\ viewport_y \in Nat /\ TextIn /\ ModesIn /\ FlagsIn /\ FileIn
  BY DEF EditorInv, TextIn, Editable
<1>2. ASSUME TextUntouched, ModesIn', FlagsIn', FileIn' PROVE StepKeeps
  BY <1>1, <1>2, UntouchedKeeps DEF StepKeeps
<1>3. CASE UNCHANGED <<dirty, file, unread>> /\ TextUntouched /\ ModesIn'
  BY <1>1, <1>2, <1>3 DEF FlagsIn, FileIn
<1>4. ASSUME TextStep, UNCHANGED <<modes, file, unread>>, dirty' \in BOOLEAN PROVE StepKeeps
  <2>1. ModesIn' /\ FlagsIn' /\ FileIn'
    BY <1>1, <1>4 DEF ModesIn, FlagsIn, FileIn, modes
  <2>2. TextIn'
    BY <1>4 DEF TextStep, TextKept, TextIn
  <2>3. (viewport_y' = viewport_y /\ RowKept) \/ CursorVisible'
    BY <1>4 DEF TextStep, ShownAfter, CursorVisible
  <2> QED BY <2>1, <2>2, <2>3 DEF StepKeeps
<1>5. CASE help /\ help' = FALSE /\ UNCHANGED <<editor_active, asking, view, lines, dirty, file, unread>>
  BY <1>1, <1>3, <1>5 DEF TextUntouched, ModesIn
<1>6. CASE AnswerYes
  <2>1. FlagsIn' /\ FileIn'
    BY <1>6, SavingKeeps DEF AnswerYes
  <2>2. TextUntouched /\ ModesIn'
    BY <1>1, <1>6 DEF AnswerYes, Exit, TextUntouched, ModesIn
  <2> QED BY <1>2, <2>1, <2>2
<1>7. CASE Discard
  BY <1>1, <1>2, <1>7 DEF Discard, Exit, TextUntouched, ModesIn, FlagsIn, FileIn
<1>8. CASE Nothing
  BY <1>1, <1>3, <1>8 DEF Nothing, TextUntouched, ModesIn, modes
<1>9. CASE CtrlS
  <2>1. FlagsIn' /\ FileIn'
    BY <1>9, SavingKeeps DEF CtrlS
  <2>2. TextUntouched /\ ModesIn'
    BY <1>1, <1>9 DEF CtrlS, TextUntouched, ModesIn, modes
  <2> QED BY <1>2, <2>1, <2>2
<1>10. CASE CtrlX
  BY <1>1, <1>3, <1>10 DEF CtrlX, Exit, TextUntouched, ModesIn
<1>11. CASE CtrlH
  BY <1>1, <1>3, <1>11 DEF CtrlH, TextUntouched, ModesIn
<1>12. CASE Editing(k)
  <2>1. dirty' \in BOOLEAN
    BY <1>1, <1>12 DEF Editing, Insert, Backspace, Delete, DeleteLineEnd, Enter, FlagsIn
  <2> QED BY <1>1, <1>4, <1>12, <2>1, EditingKeeps DEF Editing
<1>13. CASE Moving(k)
  BY <1>1, <1>4, <1>13, MovingKeeps DEF Moving, FlagsIn
<1> QED BY <1>5, <1>6, <1>7, <1>8, <1>9, <1>10, <1>11, <1>12, <1>13 DEF HandleScancode

LEMMA EditorStep == ASSUME EditorInv, Next PROVE EditorInv' /\ StepKeeps
<1>1. CASE Nothing /\ KeyboardIn'
  <2>1. StepKeeps
    BY <1>1, UntouchedKeeps
       DEF EditorInv, Nothing, modes, TextUntouched, StepKeeps, ModesIn, FlagsIn, FileIn
  <2> QED BY <1>1, <2>1 DEF EditorInv, StepKeeps
<1>2. ASSUME NEW k, Press(k) PROVE EditorInv' /\ StepKeeps
  <2>1. KeyboardIn'
    BY <1>2 DEF Press, EditorInv, KeyboardIn
  <2>2. CASE editor_active /\ HandleScancode(Scancode(k))
    BY <2>1, <2>2, HandlerKeeps DEF EditorInv, StepKeeps
  <2>3. CASE OpenEditor
    BY <2>1, <2>3, OpenKeeps DEF EditorInv, StepKeeps
  <2>4. CASE Nothing
    BY <1>1, <2>1, <2>4
  <2> QED BY <1>2, <2>2, <2>3, <2>4 DEF Press
<1>3. CASE Prefix
  BY <1>1, <1>3 DEF Prefix, Nothing, EditorInv, KeyboardIn
<1>4. CASE \E pressed \in BOOLEAN : CtrlKey(pressed)
  BY <1>1, <1>4 DEF CtrlKey, Nothing, EditorInv, KeyboardIn
<1>5. CASE Release
  BY <1>1, <1>5 DEF Release, EditorInv, KeyboardIn
<1> QED BY <1>2, <1>3, <1>4, <1>5 DEF Next

LEMMA EditorStarts == Init => EditorInv
<1>1. SUFFICES ASSUME Init PROVE EditorInv
  OBVIOUS
<1>2. <<>> \in Buffers
  BY LimitsFacts DEF Buffers
<1>3. FileIn
  BY <1>1, TextsAssumption DEF Init, FileIn, Bytes
<1> QED BY <1>1, <1>2, <1>3 DEF Init, EditorInv, KeyboardIn, ModesIn, FlagsIn, TextIn

LEMMA EditorStutters == ASSUME EditorInv, UNCHANGED vars PROVE EditorInv'
BY DEF EditorInv, KeyboardIn, ModesIn, FlagsIn, FileIn, TextIn, CursorIn, vars, keyboard, modes, view

\* No key takes the cursor out of the text or the text out of its limits,
\* whatever the file held and whichever of the disk's calls fail: every handler
\* of nano.c indexes lines and line_lengths with the cursor unchecked.
THEOREM EditorTyped == Spec => []TypeOK
<1>1. EditorInv => TypeOK
  <2>1. SUFFICES ASSUME EditorInv PROVE TypeOK
    OBVIOUS
  <2>2. /\ TotalLines <= MaxLines
        /\ \A i \in DOMAIN lines : lines[i] \in Seq(Chars) /\ Len(lines[i]) <= MaxChars
    BY <2>1, BufferFacts DEF EditorInv, TextIn, TotalLines
  <2>3. editor_active => cursor_y \in 0 .. TotalLines - 1 /\ cursor_x \in 0 .. Len(Line)
    BY <2>1 DEF EditorInv, TextIn, CursorIn, TotalLines, Line
  <2>4. file \in Seq(Chars \cup {NL, CR}) /\ viewport_y \in Nat
    BY <2>1 DEF EditorInv, FileIn, TextIn, Bytes
  <2>5. /\ ctrl_pressed \in BOOLEAN /\ extended_pending \in BOOLEAN
        /\ editor_active \in BOOLEAN /\ asking \in BOOLEAN /\ help \in BOOLEAN
        /\ dirty \in BOOLEAN /\ unread \in BOOLEAN
    BY <2>1 DEF EditorInv, KeyboardIn, ModesIn, FlagsIn
  <2> QED BY <2>2, <2>3, <2>4, <2>5, Zenon DEF TypeOK
<1>2. EditorInv /\ [Next]_vars => EditorInv'
  BY EditorStep, EditorStutters
<1> QED BY <1>1, <1>2, EditorStarts, PTL DEF Spec

\* Wherever edits left the cursor, the next key that moves the cursor over the
\* text or scrolls it ends with the cursor on the screen (nano_scroll_to_cursor).
THEOREM MovesAreShown == Spec => MovingShowsCursor
<1>1. EditorInv /\ [Next]_vars => EditorInv'
  BY EditorStep, EditorStutters
<1>2. ASSUME EditorInv, [Next]_vars
      PROVE  [viewport_y' # viewport_y \/ (cursor_y' # cursor_y /\ lines' = lines)
                  => CursorVisible']_vars
  <2>1. CASE Next
    BY <1>2, <2>1, EditorStep DEF StepKeeps, RowKept
  <2>2. CASE UNCHANGED vars
    BY <2>2
  <2> QED BY <1>2, <2>1, <2>2
<1> QED BY <1>1, <1>2, EditorStarts, PTL DEF Spec, MovingShowsCursor

-----------------------------------------------------------------------------
(* What the file holds.                                                      *)

\* What is shown as unmodified is what the file opens as, unless the file
\* fills the I/O buffer.
CleanInv == editor_active /\ ~dirty /\ ~unread /\ ~Full(file) => Opened(file) = lines

LEMMA EditedIsDirty ==
    ASSUME NEW k, Editing(k)
    PROVE  dirty' = TRUE \/ (lines' = lines /\ dirty' = dirty)
BY DEF Editing, Insert, Backspace, Delete, DeleteLineEnd, Enter, Still

LEMMA SavedIsClean ==
    ASSUME EditorInv, CleanInv, editor_active, SaveWorks \/ SaveFails, lines' = lines
    PROVE  ~dirty' /\ ~unread' /\ ~Full(file') => Opened(file') = lines'
<1>1. lines \in Buffers /\ lines # <<>>
  <2>1. Len(lines) > 0
    BY BufferFacts DEF EditorInv, TextIn, CursorIn
  <2> QED BY <2>1 DEF EditorInv, TextIn
<1>2. CASE SaveWorks /\ dirty
  BY <1>1, <1>2, SavedOpens DEF SaveWorks
<1>3. CASE SaveWorks /\ ~dirty
  BY <1>3 DEF SaveWorks, CleanInv
<1>4. CASE SaveFails
  BY <1>4 DEF SaveFails
<1> QED BY <1>2, <1>3, <1>4

LEMMA HandlerClean ==
    ASSUME EditorInv, CleanInv, editor_active, NEW k, HandleScancode(k)
    PROVE  CleanInv'
<1>1. CASE UNCHANGED <<lines, dirty, file, unread>>
  BY <1>1 DEF CleanInv
<1>2. CASE Discard
  BY <1>2 DEF Discard, Exit, CleanInv
<1>3. CASE AnswerYes
  <2>1. lines' = lines
    BY <1>3 DEF AnswerYes, Exit
  <2> QED BY <1>3, <2>1, SavedIsClean DEF AnswerYes, CleanInv
<1>4. CASE CtrlS
  <2>1. lines' = lines
    BY <1>4 DEF CtrlS
  <2> QED BY <1>4, <2>1, SavedIsClean DEF CtrlS, CleanInv
<1>5. CASE Editing(k)
  <2>1. UNCHANGED <<file, unread>>
    BY <1>5 DEF Editing
  <2> QED BY <1>5, <2>1, EditedIsDirty DEF CleanInv
<1>6. CASE Moving(k)
  BY <1>1, <1>6 DEF Moving
<1>7. CASE CtrlX
  BY <1>1, <1>7 DEF CtrlX, Exit
<1>8. CASE Nothing \/ CtrlH
  BY <1>1, <1>8 DEF Nothing, CtrlH
<1> QED BY <1>1, <1>2, <1>3, <1>4, <1>5, <1>6, <1>7, <1>8 DEF HandleScancode

LEMMA CleanStep == ASSUME EditorInv, CleanInv, Next PROVE CleanInv'
<1>1. CASE UNCHANGED <<editor_active, lines, dirty, file, unread>>
  BY <1>1 DEF CleanInv
<1>2. CASE OpenEditor
  BY <1>2 DEF OpenEditor, CleanInv
<1>3. ASSUME NEW k, Press(k) PROVE CleanInv'
  <2>1. CASE editor_active /\ HandleScancode(Scancode(k))
    BY <2>1, HandlerClean
  <2>2. CASE Nothing
    BY <1>1, <2>2 DEF Nothing, modes
  <2> QED BY <1>2, <1>3, <2>1, <2>2 DEF Press
<1> QED BY <1>1, <1>3 DEF Next, Prefix, CtrlKey, Release, Nothing, modes

LEMMA CleanSteps ==
    /\ Init => EditorInv /\ CleanInv
    /\ EditorInv /\ CleanInv /\ [Next]_vars => (EditorInv /\ CleanInv)'
<1>1. Init => CleanInv
  BY DEF Init, CleanInv
<1>2. ASSUME CleanInv, UNCHANGED vars PROVE CleanInv'
  BY <1>2 DEF CleanInv, vars, modes
<1> QED BY <1>1, <1>2, EditorStarts, EditorStep, EditorStutters, CleanStep

\* Without [MODIFIED] in the status line the file opens as the text on the
\* screen, whatever the limits, the file and the failures of the disk: all but
\* for a file that fills the I/O buffer, which is how nano_save_file cuts a text
\* (nano.c:458; the run nano_large shows the loss).
THEOREM CleanTextIsSaved == Spec => [](Len(file) < BufferSize - 1 => CleanMeansSaved)
<1>1. EditorInv /\ CleanInv => (Len(file) < BufferSize - 1 => CleanMeansSaved)
  <2>1. ASSUME EditorInv, Len(file) < BufferSize - 1 PROVE ~Full(file)
    BY <2>1, NanoAssumption DEF Full, EditorInv, FileIn
  <2> QED BY <2>1 DEF CleanInv, CleanMeansSaved
<1> QED BY <1>1, CleanSteps, PTL DEF Spec

LEMMA LeavingLoses ==
    ASSUME EditorInv, Next, ~Full(file'), editor_active, ~editor_active', dirty
    PROVE  Opened(file') = lines \/ \E k \in {"esc", "n"} : Press(k)
<1>1. lines \in Buffers /\ lines # <<>>
  <2>1. Len(lines) > 0
    BY BufferFacts DEF EditorInv, TextIn, CursorIn
  <2> QED BY <2>1 DEF EditorInv, TextIn
<1>2. PICK k \in Plain \cup Pad : Press(k)
  BY DEF Next, Prefix, CtrlKey, Release, Nothing, modes
<1>3. editor_active /\ HandleScancode(Scancode(k))
  BY <1>2 DEF Press, OpenEditor, Nothing, modes
<1>4. CASE AnswerYes
  BY <1>1, <1>4, SavedOpens DEF AnswerYes, SaveWorks, SaveFails
<1>5. CASE Scancode(k) \in {"n", "esc"}
  BY <1>2, <1>5 DEF Scancode
<1> QED BY <1>3, <1>4, <1>5
       DEF HandleScancode, CtrlS, CtrlX, CtrlH, Editing, Moving, Nothing, Exit, modes

\* While no file fills the I/O buffer, the editor is left with a text that is
\* not in the file only by Escape or by an N at the save prompt: a save that
\* fails never ends it.
THEOREM LossIsAskedFor == Spec /\ [](Len(file) < BufferSize - 1) => LossOnlyIfAsked
<1>1. ASSUME EditorInv, EditorInv', (Len(file) < BufferSize - 1)', [Next]_vars
      PROVE  [editor_active /\ ~editor_active' /\ dirty =>
                 \/ Opened(file') = lines
                 \/ \E k \in {"esc", "n"} : Press(k)]_vars
  <2>1. ~Full(file')
    <3>1. Len(file') \in Nat /\ BufferSize \in Nat
      BY <1>1, NanoAssumption DEF EditorInv, FileIn
    <3> QED BY <1>1, <3>1 DEF Full
  <2>2. CASE Next
    BY <1>1, <2>1, <2>2, LeavingLoses
  <2>3. CASE UNCHANGED vars
    BY <2>3
  <2> QED BY <1>1, <2>2, <2>3
<1>2. EditorInv /\ [Next]_vars => EditorInv'
  BY EditorStep, EditorStutters
<1> QED BY <1>1, <1>2, EditorStarts, PTL DEF Spec, LossOnlyIfAsked

-----------------------------------------------------------------------------
(* The text as one sequence.                                                 *)

Rows == Seq(Seq(Chars))

TextSteps(n, ls, f) ==
    /\ f[0] = <<>> /\ f[n] = TextOf(ls)
    /\ \A k \in 0..n : k < n => f[k + 1] = AddLine(f[k], ls[k + 1])
TextTable(ls, h) ==
    h = [s \in SUBSET DOMAIN ls |->
            IF s = {} THEN <<>> ELSE AddLine(h[s \ {Max(s)}], ls[Max(s)])]

LEMMA TextByTable ==
    ASSUME NEW ls
    PROVE  TextOf(ls) = (CHOOSE h : TextTable(ls, h))[DOMAIN ls]
  BY Zenon DEF TextOf, FoldLeft, MapThenFoldSet, TextTable

LEMMA TextSequence ==
    ASSUME NEW S, <<>> \in S, NEW ls, NEW n \in Nat, DOMAIN ls = 1..n,
           \A d \in S, i \in 1..n : AddLine(d, ls[i]) \in S
    PROVE  \E f \in [0..n -> S] : TextSteps(n, ls, f)
<1> DEFINE g == [p \in (1..n) \X S |-> AddLine(p[2], ls[p[1]])]
           h == CHOOSE h : TextTable(ls, h)
<1>1. g \in [(1..n) \X S -> S] /\ \A i \in 1..n, d \in S : g[i, d] = AddLine(d, ls[i])
  OBVIOUS
<1> HIDE DEF g
<1>2. \E t : TextTable(ls, t)
  <2>1. PICK t \in [SUBSET (1..n) -> S] : FoldTable(n, <<>>, g, t)
    BY <1>1, FoldExists
  <2>2. ASSUME NEW s \in SUBSET (1..n), s # {}
        PROVE  t[s] = AddLine(t[s \ {Max(s)}], ls[Max(s)])
    <3>1. Max(s) \in 1..n /\ t[s \ {Max(s)}] \in S
      BY <2>2, LargestOf
    <3>2. t[s] = g[Max(s), t[s \ {Max(s)}]]
      BY <2>1, <2>2 DEF FoldTable
    <3> QED BY <1>1, <3>1, <3>2
  <2>3. t[{}] = <<>>
    BY <2>1 DEF FoldTable
  <2>4. t = [s \in SUBSET (1..n) |-> t[s]]
    OBVIOUS
  <2>5. t = [s \in SUBSET (1..n) |-> IF s = {} THEN <<>> ELSE AddLine(t[s \ {Max(s)}], ls[Max(s)])]
    BY <2>2, <2>3, <2>4, Zenon
  <2> QED BY <2>5, Zenon DEF TextTable
<1>3. TextTable(ls, h)
  BY <1>2, Zenon
<1>4. TextOf(ls) = h[1..n]
  BY TextByTable, Zenon
<1> HIDE DEF h
<1>5. h = [s \in SUBSET (1..n) |-> IF s = {} THEN <<>> ELSE AddLine(h[s \ {Max(s)}], ls[Max(s)])]
  BY <1>3, Zenon DEF TextTable
<1>6. h[{}] = <<>>
  BY <1>5
<1>7. FoldSteps(n, S, g, h)
  <2>1. SUFFICES ASSUME NEW s \in SUBSET (1..n), s # {}, h[s \ {Max(s)}] \in S
                 PROVE  h[s] = g[Max(s), h[s \ {Max(s)}]]
    BY DEF FoldSteps
  <2>2. h[s] = AddLine(h[s \ {Max(s)}], ls[Max(s)])
    BY <1>5, <2>1, Zenon
  <2>3. Max(s) \in 1..n
    BY <2>1, LargestOf
  <2> QED BY <1>1, <2>1, <2>2, <2>3
<1>8. PICK f \in [0..n -> S] : Course(n, <<>>, g, f, h[1..n])
  BY <1>1, <1>6, <1>7, FoldCourse
<1>9. f[0] = <<>> /\ f[n] = TextOf(ls)
  BY <1>4, <1>8, Zenon DEF Course
<1>10. ASSUME NEW k \in 0..n, k < n PROVE f[k + 1] = AddLine(f[k], ls[k + 1])
  <2>1. f[k + 1] = g[k + 1, f[k]]
    BY <1>8, <1>10, Zenon DEF Course
  <2>2. k + 1 \in 1..n /\ f[k] \in S
    BY <1>10
  <2> QED BY <1>1, <2>1, <2>2
<1> QED BY <1>9, <1>10 DEF TextSteps

LEMMA LineEnds == <<NL>> \in Written /\ Len(<<NL>>) = 1 /\ \A l \in Seq(Chars) : l \in Written
<1>1. <<NL>> \in Written /\ Len(<<NL>>) = 1
  BY DEF Written
<1>2. \A l \in Seq(Chars) : l \in Written
  BY SeqMonotonic DEF Written
<1> QED BY <1>1, <1>2

LEMMA Concatenated ==
    /\ <<>> \in Written
    /\ \A x, y \in Written : /\ x \o y \in Written /\ Len(x) \in Nat /\ Len(x \o y) = Len(x) + Len(y)
                             /\ x \o <<>> = x /\ <<>> \o x = x
    /\ \A x, y, z \in Written : (x \o y) \o z = x \o (y \o z)
<1>1. <<>> \in Written
  BY EmptySeq DEF Written
<1>2. ASSUME NEW x \in Written, NEW y \in Written
      PROVE  /\ x \o y \in Written /\ Len(x) \in Nat /\ Len(x \o y) = Len(x) + Len(y)
             /\ x \o <<>> = x /\ <<>> \o x = x
  BY ConcatProperties, ConcatEmptySeq, LenProperties DEF Written
<1>3. ASSUME NEW x \in Written, NEW y \in Written, NEW z \in Written
      PROVE  (x \o y) \o z = x \o (y \o z)
  BY ConcatAssociative DEF Written
<1> QED BY <1>1, <1>2, <1>3

LEMMA ThreeParts ==
    ASSUME NEW x \in Written, NEW y \in Written, NEW z \in Written
    PROVE  x \o (y \o z) = (x \o y) \o z
  BY ConcatAssociative DEF Written

LEMMA LineAdded ==
    ASSUME NEW t \in Written, NEW l \in Seq(Chars)
    PROVE  AddLine(t, l) \in Written /\ AddLine(t, l) = t \o (l \o <<NL>>)
<1>1. l \in Written /\ <<NL>> \in Written
  BY LineEnds
<1>2. (t \o l) \o <<NL>> = t \o (l \o <<NL>>) /\ t \o l \in Written /\ (t \o l) \o <<NL>> \in Written
  BY <1>1, ConcatAssociative, ConcatProperties DEF Written
<1> QED BY <1>2 DEF AddLine

LEMMA TextCourse ==
    ASSUME NEW ls \in Rows
    PROVE  Len(ls) \in Nat /\ \E f \in [0..Len(ls) -> Written] : TextSteps(Len(ls), ls, f)
<1>1. Len(ls) \in Nat /\ DOMAIN ls = 1..Len(ls) /\ \A i \in 1..Len(ls) : ls[i] \in Seq(Chars)
  BY LenProperties, ElementOfSeq DEF Rows
<1>2. <<>> \in Written
  BY EmptySeq DEF Written
<1>3. \A d \in Written, i \in 1..Len(ls) : AddLine(d, ls[i]) \in Written
  BY <1>1, LineAdded
<1> HIDE DEF Rows, Written
<1> QED BY <1>1, <1>2, <1>3, TextSequence

LEMMA TextWritten == ASSUME NEW ls \in Rows PROVE TextOf(ls) \in Written
<1>1. Len(ls) \in Nat
  BY TextCourse
<1>2. PICK f \in [0..Len(ls) -> Written] : TextSteps(Len(ls), ls, f)
  BY TextCourse
<1>3. f[Len(ls)] = TextOf(ls) /\ Len(ls) \in 0..Len(ls)
  BY <1>1, <1>2 DEF TextSteps
<1> QED BY <1>3

\* The text of some lines and then others.
LEMMA TextOfBoth ==
    ASSUME NEW a \in Rows, NEW b \in Rows
    PROVE  TextOf(a \o b) = TextOf(a) \o TextOf(b)
<1> DEFINE m == Len(a)
           n == Len(b)
           c == a \o b
<1>1. m \in Nat /\ n \in Nat
  BY TextCourse
<1>2. /\ c \in Rows /\ Len(c) = m + n
      /\ \A i \in 1..m : c[i] = a[i]
      /\ \A i \in 1..n : c[m + i] = b[i] /\ b[i] \in Seq(Chars)
  <2>1. /\ c \in Rows /\ Len(c) = m + n
        /\ \A i \in 1..(m + n) : c[i] = IF i <= m THEN a[i] ELSE b[i - m]
    BY ConcatProperties DEF Rows
  <2>2. \A i \in 1..n : b[i] \in Seq(Chars)
    BY ElementOfSeq DEF Rows
  <2> HIDE DEF c, m, n
  <2>3. \A i \in 1..m : c[i] = a[i]
    BY <1>1, <2>1
  <2>4. ASSUME NEW i \in 1..n PROVE c[m + i] = b[i]
    <3>1. m + i \in 1..(m + n) /\ ~(m + i <= m) /\ (m + i) - m = i
      BY <1>1
    <3> QED BY <2>1, <3>1
  <2> QED BY <2>1, <2>2, <2>3, <2>4
<1>3. PICK e \in [0..m -> Written] : TextSteps(m, a, e)
  BY TextCourse
<1>4. PICK f \in [0..n -> Written] : TextSteps(n, b, f)
  BY TextCourse
<1>5. PICK h \in [0..(m + n) -> Written] : TextSteps(m + n, c, h)
  <2>1. \E h \in [0..Len(c) -> Written] : TextSteps(Len(c), c, h)
    BY <1>2, TextCourse
  <2> QED BY <1>2, <2>1
<1> HIDE DEF m, n, c
<1> DEFINE T == {k \in 0..m : h[k] = e[k]}
<1>6. m \in T
  <2>1. 0 \in T
    BY <1>1, <1>3, <1>5 DEF TextSteps
  <2>2. \A k \in 0..m : k \in T /\ k < m => k + 1 \in T
    <3>1. TAKE k \in 0..m
    <3>2. HAVE k \in T /\ k < m
    <3>3. k + 1 \in 0..m /\ k + 1 \in 1..m /\ k \in 0..(m + n) /\ k < m + n
      BY <1>1, <3>2
    <3>4. h[k + 1] = AddLine(h[k], c[k + 1]) /\ e[k + 1] = AddLine(e[k], a[k + 1])
      BY <1>3, <1>5, <3>2, <3>3 DEF TextSteps
    <3> QED BY <1>2, <3>2, <3>3, <3>4
  <2> HIDE DEF T
  <2>3. \A k \in 0..m : k \in T
    BY <1>1, <2>1, <2>2, NumbersUpTo, Zenon
  <2> QED BY <1>1, <2>3
<1>7. h[m] = TextOf(a) /\ TextOf(a) \in Written
  BY <1>3, <1>6, TextWritten DEF TextSteps
<1> DEFINE U == {k \in 0..n : h[m + k] = TextOf(a) \o f[k]}
<1>8. n \in U
  <2>1. 0 \in U
    <3>1. m + 0 = m /\ f[0] = <<>> /\ 0 \in 0..n
      BY <1>1, <1>4 DEF TextSteps
    <3>2. TextOf(a) \o <<>> = TextOf(a)
      BY <1>7, ConcatEmptySeq DEF Written
    <3> QED BY <1>7, <3>1, <3>2
  <2>2. \A k \in 0..n : k \in U /\ k < n => k + 1 \in U
    <3>1. TAKE k \in 0..n
    <3>2. HAVE k \in U /\ k < n
    <3>3. k + 1 \in 0..n /\ k + 1 \in 1..n /\ m + k \in 0..(m + n) /\ m + k < m + n
          /\ (m + k) + 1 = m + (k + 1)
      BY <1>1, <3>2
    <3>4. h[m + (k + 1)] = AddLine(h[m + k], c[m + (k + 1)])
      BY <1>5, <3>3 DEF TextSteps
    <3>5. f[k + 1] = AddLine(f[k], b[k + 1]) /\ f[k] \in Written
      BY <1>4, <3>2 DEF TextSteps
    <3>6. c[m + (k + 1)] = b[k + 1] /\ b[k + 1] \in Seq(Chars)
      BY <1>2, <3>3
    <3> DEFINE t == TextOf(a)
               r == b[k + 1] \o <<NL>>
    <3>7. t \o f[k] \in Written
      BY <1>7, <3>5, ConcatProperties DEF Written
    <3>8. r \in Written
      BY <3>6, LineEnds, ConcatProperties DEF Written
    <3>9. h[m + (k + 1)] = (t \o f[k]) \o r
      BY <3>2, <3>4, <3>6, <3>7, LineAdded
    <3>10. f[k + 1] = f[k] \o r
      BY <3>5, <3>6, LineAdded
    <3>11. (t \o f[k]) \o r = t \o (f[k] \o r)
      <4>1. t \in Written /\ f[k] \in Written /\ r \in Written
        BY <1>7, <3>5, <3>8
      <4> HIDE DEF t, r
      <4> DEFINE q == f[k]
      <4>2. q \in Written
        BY <4>1
      <4> HIDE DEF q
      <4>3. t \o (q \o r) = (t \o q) \o r
        BY <4>1, <4>2, ThreeParts, Zenon
      <4> QED BY <4>3 DEF q
    <3> QED BY <3>3, <3>9, <3>10, <3>11
  <2> HIDE DEF U
  <2>3. \A k \in 0..n : k \in U
    BY <1>1, <2>1, <2>2, NumbersUpTo, Zenon
  <2> QED BY <1>1, <2>3
<1>9. h[m + n] = TextOf(c) /\ f[n] = TextOf(b)
  BY <1>4, <1>5 DEF TextSteps
<1> QED BY <1>8, <1>9 DEF c

LEMMA TextOfLine ==
    ASSUME NEW l \in Seq(Chars)
    PROVE  <<l>> \in Rows /\ TextOf(<<l>>) = l \o <<NL>>
<1>1. <<l>> \in Rows /\ Len(<<l>>) = 1 /\ <<l>>[1] = l
  BY DEF Rows
<1>2. PICK f \in [0..1 -> Written] : TextSteps(1, <<l>>, f)
  <2>1. \E f \in [0..Len(<<l>>) -> Written] : TextSteps(Len(<<l>>), <<l>>, f)
    BY <1>1, TextCourse
  <2> QED BY <1>1, <2>1
<1>3. f[0] = <<>> /\ f[1] = TextOf(<<l>>) /\ f[0 + 1] = AddLine(f[0], <<l>>[0 + 1])
  BY <1>2 DEF TextSteps
<1>4. TextOf(<<l>>) = AddLine(<<>>, l)
  BY <1>1, <1>3
<1>5. l \o <<NL>> \in Written /\ <<>> \in Written
  BY LineEnds, ConcatProperties, EmptySeq DEF Written
<1>6. AddLine(<<>>, l) = <<>> \o (l \o <<NL>>)
  BY <1>5, LineAdded
<1>7. <<>> \o (l \o <<NL>>) = l \o <<NL>>
  BY <1>5, ConcatEmptySeq DEF Written
<1> QED BY <1>1, <1>4, <1>6, <1>7

-----------------------------------------------------------------------------
(* Cutting sequences.                                                        *)

\* A part of a sequence, element by element.
LEMMA PartOf ==
    ASSUME NEW S, NEW l \in Seq(S), NEW i \in Nat, NEW j \in Nat, i >= 1, j <= Len(l), i <= j + 1
    PROVE  /\ SubSeq(l, i, j) \in Seq(S) /\ Len(SubSeq(l, i, j)) = j - i + 1
           /\ \A k \in 1..(j - i + 1) : SubSeq(l, i, j)[k] = l[i + k - 1]
<1>1. \A k \in i..j : l[k] \in S
  BY LenProperties, ElementOfSeq
<1>2. i \in Int /\ j \in Int
  OBVIOUS
<1>3. /\ SubSeq(l, i, j) \in Seq(S)
      /\ Len(SubSeq(l, i, j)) = IF i <= j THEN j - i + 1 ELSE 0
      /\ \A k \in 1..(j - i + 1) : SubSeq(l, i, j)[k] = l[i + k - 1]
  BY <1>1, <1>2, SubSeqProperties
<1>4. (IF i <= j THEN j - i + 1 ELSE 0) = j - i + 1
  BY <1>2
<1> QED BY <1>3, <1>4

\* What a sequence made of two is cut into.
LEMMA CutOfBoth ==
    ASSUME NEW S, NEW a \in Seq(S), NEW b \in Seq(S)
    PROVE  SubSeq(a \o b, 1, Len(a)) = a /\ SubSeq(a \o b, Len(a) + 1, Len(a) + Len(b)) = b
<1> DEFINE c == a \o b
           u == SubSeq(c, 1, Len(a))
           v == SubSeq(c, Len(a) + 1, Len(a) + Len(b))
<1>1. Len(a) \in Nat /\ Len(b) \in Nat
  BY LenProperties
<1>2. /\ c \in Seq(S) /\ Len(c) = Len(a) + Len(b)
      /\ \A k \in 1..(Len(a) + Len(b)) : c[k] = IF k <= Len(a) THEN a[k] ELSE b[k - Len(a)]
  BY ConcatProperties
<1> HIDE DEF c
<1>3. /\ u \in Seq(S) /\ Len(u) = Len(a) - 1 + 1
      /\ \A k \in 1..(Len(a) - 1 + 1) : u[k] = c[1 + k - 1]
  <2>1. 1 \in Nat /\ Len(a) <= Len(c) /\ 1 <= Len(a) + 1
    BY <1>1, <1>2
  <2> QED BY <1>1, <1>2, <2>1, PartOf
<1>4. /\ v \in Seq(S) /\ Len(v) = (Len(a) + Len(b)) - (Len(a) + 1) + 1
      /\ \A k \in 1..((Len(a) + Len(b)) - (Len(a) + 1) + 1) : v[k] = c[(Len(a) + 1) + k - 1]
  <2>1. Len(a) + 1 \in Nat /\ Len(a) + Len(b) \in Nat /\ Len(a) + 1 >= 1
        /\ Len(a) + Len(b) <= Len(c) /\ Len(a) + 1 <= (Len(a) + Len(b)) + 1
    BY <1>1, <1>2
  <2> QED BY <1>2, <2>1, PartOf
<1> HIDE DEF u, v
<1>5. u = a
  <2>1. Len(u) = Len(a) /\ \A k \in 1..Len(u) : u[k] = a[k]
    BY <1>1, <1>2, <1>3
  <2> QED BY <1>3, <2>1, SeqEqual
<1>6. v = b
  <2>1. Len(v) = Len(b)
    BY <1>1, <1>4
  <2>2. ASSUME NEW k \in 1..Len(b) PROVE v[k] = b[k]
    <3>1. Len(a) + k \in 1..(Len(a) + Len(b)) /\ ~(Len(a) + k <= Len(a))
          /\ (Len(a) + k) - Len(a) = k /\ (Len(a) + 1) + k - 1 = Len(a) + k
          /\ k \in 1..((Len(a) + Len(b)) - (Len(a) + 1) + 1)
      BY <1>1
    <3>2. v[k] = c[Len(a) + k]
      BY <1>4, <3>1
    <3> QED BY <1>2, <3>1, <3>2
  <2> QED BY <1>4, <2>1, <2>2, SeqEqual
<1> QED BY <1>5, <1>6 DEF u, v, c

\* A sequence is what is before one of its elements, that, and what follows.
LEMMA AroundElement ==
    ASSUME NEW S, NEW l \in Seq(S), NEW i \in 1..Len(l)
    PROVE  /\ l[i] \in S /\ <<l[i]>> \in Seq(S)
           /\ SubSeq(l, 1, i - 1) \in Seq(S) /\ Len(SubSeq(l, 1, i - 1)) = i - 1
           /\ SubSeq(l, i + 1, Len(l)) \in Seq(S) /\ Len(SubSeq(l, i + 1, Len(l))) = Len(l) - i
           /\ l = (SubSeq(l, 1, i - 1) \o <<l[i]>>) \o SubSeq(l, i + 1, Len(l))
<1> DEFINE a == SubSeq(l, 1, i - 1)
           b == SubSeq(l, i + 1, Len(l))
           e == <<l[i]>>
<1>1. Len(l) \in Nat /\ i \in Nat /\ i >= 1 /\ i <= Len(l)
  BY LenProperties
<1>2. l[i] \in S /\ e \in Seq(S) /\ Len(e) = 1 /\ e[1] = l[i]
  BY ElementOfSeq
<1>3. /\ a \in Seq(S) /\ Len(a) = (i - 1) - 1 + 1
      /\ \A k \in 1..((i - 1) - 1 + 1) : a[k] = l[1 + k - 1]
  <2>1. 1 \in Nat /\ i - 1 \in Nat /\ i - 1 <= Len(l) /\ 1 <= (i - 1) + 1
    BY <1>1
  <2> QED BY <2>1, PartOf
<1>4. /\ b \in Seq(S) /\ Len(b) = Len(l) - (i + 1) + 1
      /\ \A k \in 1..(Len(l) - (i + 1) + 1) : b[k] = l[(i + 1) + k - 1]
  <2>1. i + 1 \in Nat /\ i + 1 >= 1 /\ Len(l) <= Len(l) /\ i + 1 <= Len(l) + 1
    BY <1>1
  <2> QED BY <1>1, <2>1, PartOf
<1> HIDE DEF a, b, e
<1>5. Len(a) = i - 1 /\ Len(b) = Len(l) - i
  BY <1>1, <1>3, <1>4
<1> DEFINE c == a \o e
<1>6. /\ c \in Seq(S) /\ Len(c) = i
      /\ \A k \in 1..i : c[k] = l[k]
  <2>1. /\ c \in Seq(S) /\ Len(c) = Len(a) + Len(e)
        /\ \A k \in 1..(Len(a) + Len(e)) : c[k] = IF k <= Len(a) THEN a[k] ELSE e[k - Len(a)]
    BY <1>2, <1>3, ConcatProperties
  <2> HIDE DEF c
  <2>2. \A k \in 1..i : c[k] = l[k]
    BY <1>1, <1>2, <1>3, <1>5, <2>1
  <2> QED BY <1>1, <1>2, <1>5, <2>1, <2>2
<1> HIDE DEF c
<1> DEFINE d == c \o b
<1>7. /\ d \in Seq(S) /\ Len(d) = Len(c) + Len(b)
      /\ \A k \in 1..(Len(c) + Len(b)) : d[k] = IF k <= Len(c) THEN c[k] ELSE b[k - Len(c)]
  BY <1>4, <1>6, ConcatProperties
<1> HIDE DEF d
<1>8. ASSUME NEW k \in 1..Len(l) PROVE d[k] = l[k]
  <2>1. CASE k <= i
    BY <1>1, <1>5, <1>6, <1>7, <2>1
  <2>2. CASE ~(k <= i)
    <3>1. k - i \in 1..(Len(l) - (i + 1) + 1) /\ (i + 1) + (k - i) - 1 = k
          /\ k \in 1..(Len(c) + Len(b)) /\ ~(k <= Len(c)) /\ k - Len(c) = k - i
      BY <1>1, <1>5, <1>6, <2>2
    <3>2. d[k] = b[k - i]
      BY <1>7, <3>1
    <3>3. b[k - i] = l[k]
      <4>1. b[k - i] = l[(i + 1) + (k - i) - 1]
        BY <1>4, <3>1
      <4> QED BY <3>1, <4>1
    <3> QED BY <3>2, <3>3
  <2> QED BY <2>1, <2>2
<1>9. d = l
  <2>1. Len(d) = Len(l)
    BY <1>1, <1>5, <1>6, <1>7
  <2> QED BY <1>7, <1>8, <2>1, SeqEqual
<1> QED BY <1>2, <1>3, <1>4, <1>5, <1>9 DEF a, b, c, d, e

-----------------------------------------------------------------------------
(* What an edit of the text does to it as one sequence.                      *)

\* s followed by t.  Left unexpanded it is known by ThenFacts alone, which the
\* provers need to regroup long chains.
Then(s, t) == s \o t

\* Putting t between what is before the cursor and what is behind it.
LEMMA PutBetween ==
    ASSUME NEW p \in Written, NEW t \in Written, NEW q \in Written,
           Flat = p \o q, Flat' = (p \o t) \o q, Offset = Len(p), Offset' = Offset + Len(t)
    PROVE  PutIn(Len(t))
<1> DEFINE n == Len(t)
           w == p \o t
           r == t \o q
<1>1. /\ w \in Written /\ r \in Written /\ Len(p) \in Nat /\ n \in Nat /\ Len(q) \in Nat
      /\ Len(w) = Len(p) + n /\ Len(r) = n + Len(q)
  BY Concatenated
<1>2. w \o q = p \o r
  BY ThreeParts, Zenon
<1> HIDE DEF w, r, n
<1>3. Len(p \o q) = Len(p) + Len(q) /\ Len(w \o q) = Len(w) + Len(q)
  BY <1>1, Concatenated
<1>4. SubSeq(p \o q, 1, Len(p)) = p /\ SubSeq(p \o q, Len(p) + 1, Len(p) + Len(q)) = q
  BY CutOfBoth DEF Written
<1>5. SubSeq(p \o r, 1, Len(p)) = p
  BY <1>1, CutOfBoth DEF Written
<1>6. SubSeq(w \o q, Len(w) + 1, Len(w) + Len(q)) = q
  BY <1>1, CutOfBoth DEF Written
<1>7. Flat' = w \o q
  BY DEF w
<1>8. Len(Flat') = Len(Flat) + n
  BY <1>1, <1>3, <1>7
<1>9. SubSeq(Flat', 1, Offset) = SubSeq(Flat, 1, Offset)
  BY <1>2, <1>4, <1>5, <1>7
<1>10. SubSeq(Flat', Offset + n + 1, Len(Flat')) = SubSeq(Flat, Offset + 1, Len(Flat))
  <2>1. Offset + n + 1 = Len(w) + 1 /\ Len(Flat') = Len(w) + Len(q) /\ Len(Flat) = Len(p) + Len(q)
    BY <1>1, <1>3, <1>7
  <2> QED BY <1>4, <1>6, <1>7, <2>1
<1> QED BY <1>8, <1>9, <1>10 DEF PutIn, n

LEMMA TakenBetween ==
    ASSUME NEW p \in Written, NEW e \in Written, NEW q \in Written, Len(e) = 1,
           Flat = (p \o e) \o q, Flat' = p \o q, Offset' = Len(p)
    PROVE  TakenOut(Len(p) + 1)
<1> DEFINE w == p \o e
           r == e \o q
           i == Len(p) + 1
<1>1. /\ w \in Written /\ r \in Written /\ Len(p) \in Nat /\ Len(q) \in Nat
      /\ Len(w) = Len(p) + 1 /\ Len(r) = 1 + Len(q)
  <2>1. w \in Written /\ Len(w) = Len(p) + Len(e) /\ Len(p) \in Nat
    BY Concatenated
  <2>2. r \in Written /\ Len(r) = Len(e) + Len(q) /\ Len(q) \in Nat
    BY Concatenated
  <2> HIDE DEF w, r
  <2> QED BY <2>1, <2>2
<1>2. w \o q = p \o r
  BY ThreeParts, Zenon
<1> HIDE DEF w, r
<1>3. Len(w \o q) = Len(w) + Len(q)
  BY <1>1, Concatenated
<1>4. SubSeq(p \o r, 1, Len(p)) = p
  BY <1>1, CutOfBoth DEF Written
<1>5. SubSeq(w \o q, Len(w) + 1, Len(w) + Len(q)) = q
  BY <1>1, CutOfBoth DEF Written
<1>6. Flat = w \o q
  BY DEF w
<1>7. i - 1 = Len(p) /\ i + 1 = Len(w) + 1 /\ Len(Flat) = Len(w) + Len(q)
  BY <1>1, <1>3, <1>6
<1> HIDE DEF i
<1>8. SubSeq(Flat, 1, i - 1) = p
  BY <1>2, <1>4, <1>6, <1>7
<1>9. SubSeq(Flat, i + 1, Len(Flat)) = q
  BY <1>5, <1>6, <1>7
<1>10. RemoveAt(Flat, i) = p \o q
  BY <1>8, <1>9 DEF RemoveAt
<1> QED BY <1>7, <1>10 DEF TakenOut, i

Above(ls, y) == SubSeq(ls, 1, y)
Below(ls, y) == SubSeq(ls, y + 2, Len(ls))

LEMMA RowsAround ==
    ASSUME NEW ls \in Rows, NEW y \in 0..Len(ls) - 1
    PROVE  /\ Len(ls) \in Nat /\ y \in Nat /\ ls[y + 1] \in Seq(Chars)
           /\ Above(ls, y) \in Rows /\ Len(Above(ls, y)) = y
           /\ Below(ls, y) \in Rows /\ Len(Below(ls, y)) = Len(ls) - y - 1
           /\ \A k \in 1..y : Above(ls, y)[k] = ls[k]
           /\ \A k \in 1..(Len(ls) - y - 1) : Below(ls, y)[k] = ls[y + 1 + k]
           /\ ls = (Above(ls, y) \o <<ls[y + 1]>>) \o Below(ls, y)
           /\ TextOf(ls) = TextOf(Above(ls, y)) \o ((ls[y + 1] \o <<NL>>) \o TextOf(Below(ls, y)))
           /\ TextOf(Above(ls, y)) \in Written /\ TextOf(Below(ls, y)) \in Written
<1> DEFINE a == Above(ls, y)
           b == Below(ls, y)
           l == ls[y + 1]
<1>1. Len(ls) \in Nat /\ y \in Nat /\ y + 1 \in 1..Len(ls) /\ (y + 1) - 1 = y /\ (y + 1) + 1 = y + 2
  BY TextCourse
<1>2. /\ l \in Seq(Chars) /\ <<l>> \in Rows
      /\ a \in Rows /\ Len(a) = y
      /\ b \in Rows /\ Len(b) = Len(ls) - (y + 1)
      /\ ls = (a \o <<l>>) \o b
  <2> DEFINE i == y + 1
  <2>1. i \in 1..Len(ls) /\ i - 1 = y /\ i + 1 = y + 2
    BY <1>1
  <2> HIDE DEF i
  <2>2. /\ ls[i] \in Seq(Chars) /\ <<ls[i]>> \in Rows
        /\ SubSeq(ls, 1, i - 1) \in Rows /\ Len(SubSeq(ls, 1, i - 1)) = i - 1
        /\ SubSeq(ls, i + 1, Len(ls)) \in Rows /\ Len(SubSeq(ls, i + 1, Len(ls))) = Len(ls) - i
        /\ ls = (SubSeq(ls, 1, i - 1) \o <<ls[i]>>) \o SubSeq(ls, i + 1, Len(ls))
    BY <2>1, AroundElement DEF Rows
  <2> QED BY <2>1, <2>2 DEF i, Above, Below
<1>3. \A k \in 1..y : a[k] = ls[k]
  <2>1. 1 \in Nat /\ y <= Len(ls) /\ 1 <= y + 1
    BY <1>1
  <2>2. \A k \in 1..(y - 1 + 1) : SubSeq(ls, 1, y)[k] = ls[1 + k - 1]
    BY <1>1, <2>1, PartOf DEF Rows
  <2>3. \A k \in 1..y : k \in 1..(y - 1 + 1) /\ 1 + k - 1 = k
    BY <1>1
  <2> QED BY <2>2, <2>3 DEF Above
<1>4. \A k \in 1..(Len(ls) - y - 1) : b[k] = ls[y + 1 + k]
  <2>1. y + 2 \in Nat /\ y + 2 >= 1 /\ Len(ls) <= Len(ls) /\ y + 2 <= Len(ls) + 1
    BY <1>1
  <2>2. \A k \in 1..(Len(ls) - (y + 2) + 1) : SubSeq(ls, y + 2, Len(ls))[k] = ls[(y + 2) + k - 1]
    BY <1>1, <2>1, PartOf DEF Rows
  <2>3. \A k \in 1..(Len(ls) - y - 1) : /\ k \in 1..(Len(ls) - (y + 2) + 1)
                                        /\ (y + 2) + k - 1 = y + 1 + k
    BY <1>1
  <2> QED BY <2>2, <2>3 DEF Below
<1> HIDE DEF a, b, l
<1>5. TextOf(ls) = TextOf(a) \o ((l \o <<NL>>) \o TextOf(b))
  <2> DEFINE c == a \o <<l>>
  <2>1. c \in Rows
    BY <1>2, ConcatProperties DEF Rows
  <2>2. TextOf(c) = TextOf(a) \o TextOf(<<l>>) /\ TextOf(<<l>>) = l \o <<NL>>
    BY <1>2, TextOfBoth, TextOfLine
  <2> HIDE DEF c
  <2>3. TextOf(c \o b) = TextOf(c) \o TextOf(b)
    BY <1>2, <2>1, TextOfBoth
  <2>4. TextOf(a) \in Written /\ l \o <<NL>> \in Written /\ TextOf(b) \in Written
    BY <1>2, TextWritten, LineEnds, Concatenated
  <2>5. TextOf(a) \o ((l \o <<NL>>) \o TextOf(b)) = (TextOf(a) \o (l \o <<NL>>)) \o TextOf(b)
    BY <2>4, ThreeParts, Zenon
  <2> QED BY <1>2, <2>2, <2>3, <2>5 DEF c
<1>6. TextOf(a) \in Written /\ TextOf(b) \in Written
  BY <1>2, TextWritten
<1>7. Len(b) = Len(ls) - y - 1
  BY <1>1, <1>2
<1> QED BY <1>1, <1>2, <1>3, <1>4, <1>5, <1>6, <1>7 DEF a, b, l

\* The text above the next line has one line more.
LEMMA RowsAbove ==
    ASSUME NEW ls \in Rows, NEW y \in 0..Len(ls) - 1
    PROVE  TextOf(Above(ls, y + 1)) = (TextOf(Above(ls, y)) \o ls[y + 1]) \o <<NL>>
<1> DEFINE a == Above(ls, y)
           c == Above(ls, y + 1)
           l == ls[y + 1]
<1>1. /\ Len(ls) \in Nat /\ y \in Nat /\ l \in Seq(Chars) /\ a \in Rows /\ Len(a) = y
      /\ \A k \in 1..y : a[k] = ls[k]
      /\ TextOf(a) \in Written
  BY RowsAround
<1>2. <<l>> \in Rows /\ Len(<<l>>) = 1 /\ <<l>>[1] = l /\ TextOf(<<l>>) = l \o <<NL>>
  BY <1>1, TextOfLine
<1>3. c \in Rows /\ Len(c) = y + 1 /\ \A k \in 1..(y + 1) : c[k] = ls[k]
  <2>1. 1 \in Nat /\ y + 1 \in Nat /\ y + 1 <= Len(ls) /\ 1 <= (y + 1) + 1
    BY <1>1
  <2>2. /\ SubSeq(ls, 1, y + 1) \in Rows /\ Len(SubSeq(ls, 1, y + 1)) = (y + 1) - 1 + 1
        /\ \A k \in 1..((y + 1) - 1 + 1) : SubSeq(ls, 1, y + 1)[k] = ls[1 + k - 1]
    BY <2>1, PartOf DEF Rows
  <2>3. \A k \in 1..(y + 1) : k \in 1..((y + 1) - 1 + 1) /\ 1 + k - 1 = k
    BY <1>1
  <2>4. (y + 1) - 1 + 1 = y + 1
    BY <1>1
  <2> QED BY <2>2, <2>3, <2>4 DEF Above
<1> HIDE DEF a, c, l
<1>4. /\ a \o <<l>> \in Rows /\ Len(a \o <<l>>) = y + 1
      /\ \A k \in 1..(y + 1) : (a \o <<l>>)[k] = IF k <= y THEN a[k] ELSE <<l>>[k - y]
  BY <1>1, <1>2, ConcatProperties DEF Rows
<1>5. \A k \in 1..(y + 1) : c[k] = (a \o <<l>>)[k]
  <2>1. TAKE k \in 1..(y + 1)
  <2>2. CASE k <= y
    BY <1>1, <1>3, <1>4, <2>2
  <2>3. CASE k = y + 1
    <3>1. ~(k <= y) /\ k - y = 1
      BY <1>1, <2>3
    <3> QED BY <1>2, <1>3, <1>4, <2>3, <3>1 DEF l
  <2> QED BY <1>1, <2>2, <2>3
<1>6. c = a \o <<l>>
  BY <1>3, <1>4, <1>5, SeqEqual DEF Rows
<1>7. TextOf(c) = TextOf(a) \o (l \o <<NL>>)
  BY <1>1, <1>2, <1>6, TextOfBoth
<1>8. TextOf(a) \o (l \o <<NL>>) = (TextOf(a) \o l) \o <<NL>>
  BY <1>1, LineEnds, ThreeParts, Zenon
<1> QED BY <1>7, <1>8 DEF a, c, l

LEMMA ThenFacts ==
    /\ \A x, y \in Written : /\ Then(x, y) \in Written /\ Len(x) \in Nat
                             /\ Len(Then(x, y)) = Len(x) + Len(y)
    /\ \A x, y, z \in Written : Then(Then(x, y), z) = Then(x, Then(y, z))
<1>1. \A x, y \in Written : /\ Then(x, y) \in Written /\ Len(x) \in Nat
                            /\ Len(Then(x, y)) = Len(x) + Len(y)
  BY Concatenated DEF Then
<1>2. \A x, y, z \in Written : Then(Then(x, y), z) = Then(x, Then(y, z))
  BY Concatenated, Zenon DEF Then
<1> QED BY <1>1, <1>2

LEMMA BuffersAreRows == ASSUME NEW ls \in Buffers PROVE ls \in Rows
<1>1. LineTexts \subseteq Seq(Chars)
  BY DEF LineTexts
<1>2. ls \in Seq(LineTexts)
  BY DEF Buffers
<1> QED BY <1>1, <1>2, SeqMonotonic DEF Rows

\* A line is what is before some column of it and what is behind.
LEMMA HalvesJoin ==
    ASSUME NEW l \in Seq(Chars), NEW x \in 0..Len(l)
    PROVE  l = Then(SubSeq(l, 1, x), SubSeq(l, x + 1, Len(l)))
<1> DEFINE u == SubSeq(l, 1, x)
           v == SubSeq(l, x + 1, Len(l))
<1>1. Len(l) \in Nat /\ x \in Nat /\ x <= Len(l)
  BY LenProperties
<1>2. /\ u \in Seq(Chars) /\ Len(u) = x - 1 + 1
      /\ \A k \in 1..(x - 1 + 1) : u[k] = l[1 + k - 1]
  <2>1. 1 \in Nat /\ 1 <= x + 1
    BY <1>1
  <2> QED BY <1>1, <2>1, PartOf
<1>3. /\ v \in Seq(Chars) /\ Len(v) = Len(l) - (x + 1) + 1
      /\ \A k \in 1..(Len(l) - (x + 1) + 1) : v[k] = l[(x + 1) + k - 1]
  <2>1. x + 1 \in Nat /\ x + 1 >= 1 /\ Len(l) <= Len(l) /\ x + 1 <= Len(l) + 1
    BY <1>1
  <2> QED BY <1>1, <2>1, PartOf
<1> HIDE DEF u, v
<1>4. Len(u) = x /\ Len(v) = Len(l) - x
  BY <1>1, <1>2, <1>3
<1> DEFINE d == u \o v
<1>5. /\ d \in Seq(Chars) /\ Len(d) = Len(u) + Len(v)
      /\ \A k \in 1..(Len(u) + Len(v)) : d[k] = IF k <= Len(u) THEN u[k] ELSE v[k - Len(u)]
  BY <1>2, <1>3, ConcatProperties
<1> HIDE DEF d
<1>6. ASSUME NEW k \in 1..Len(l) PROVE d[k] = l[k]
  <2>1. CASE k <= x
    <3>1. k \in 1..(x - 1 + 1) /\ 1 + k - 1 = k /\ k \in 1..(Len(u) + Len(v)) /\ k <= Len(u)
      BY <1>1, <1>4, <2>1
    <3> QED BY <1>2, <1>5, <3>1
  <2>2. CASE ~(k <= x)
    <3>1. /\ k - x \in 1..(Len(l) - (x + 1) + 1) /\ (x + 1) + (k - x) - 1 = k
          /\ k \in 1..(Len(u) + Len(v)) /\ ~(k <= Len(u)) /\ k - Len(u) = k - x
      BY <1>1, <1>4, <2>2
    <3>2. d[k] = v[k - x]
      BY <1>5, <3>1
    <3>3. v[k - x] = l[(x + 1) + (k - x) - 1]
      BY <1>3, <3>1
    <3> QED BY <3>1, <3>2, <3>3
  <2> QED BY <2>1, <2>2
<1>7. Len(d) = Len(l)
  BY <1>1, <1>4, <1>5
<1>8. d = l
  BY <1>5, <1>6, <1>7, SeqEqual
<1> QED BY <1>8 DEF d, u, v, Then

\* The rows above row y, and below it.
Around(ls, y, a, b) ==
    /\ Len(ls) \in Nat /\ y \in Nat /\ y + 1 \in 1..Len(ls)
    /\ a \in Rows /\ Len(a) = y /\ b \in Rows /\ Len(b) = Len(ls) - y - 1
    /\ \A k \in 1..y : a[k] = ls[k]
    /\ \A k \in 1..(Len(ls) - y - 1) : b[k] = ls[y + 1 + k]

LEMMA AroundRow ==
    ASSUME NEW ls \in Rows, NEW y \in 0..Len(ls) - 1
    PROVE  Around(ls, y, Above(ls, y), Below(ls, y))
<1>1. /\ Len(ls) \in Nat /\ y \in Nat
      /\ Above(ls, y) \in Rows /\ Len(Above(ls, y)) = y
      /\ Below(ls, y) \in Rows /\ Len(Below(ls, y)) = Len(ls) - y - 1
      /\ \A k \in 1..y : Above(ls, y)[k] = ls[k]
      /\ \A k \in 1..(Len(ls) - y - 1) : Below(ls, y)[k] = ls[y + 1 + k]
  BY RowsAround, Zenon
<1>2. y + 1 \in 1..Len(ls)
  BY <1>1
<1> QED BY <1>1, <1>2, Zenon DEF Around

LEMMA TextAround ==
    ASSUME NEW ls \in Rows, NEW y \in 0..Len(ls) - 1
    PROVE  /\ ls[y + 1] \in Seq(Chars)
           /\ TextOf(Above(ls, y)) \in Written /\ TextOf(Below(ls, y)) \in Written
           /\ TextOf(ls) = Then(TextOf(Above(ls, y)),
                                Then(Then(ls[y + 1], <<NL>>), TextOf(Below(ls, y))))
  BY RowsAround, Zenon DEF Then

\* Only one sequence of rows is above a row, and only one below it.
LEMMA SameAround ==
    ASSUME NEW ls, NEW y, NEW a, NEW b, NEW c, NEW d, Around(ls, y, a, b), Around(ls, y, c, d)
    PROVE  a = c /\ b = d
<1>1. a \in Rows /\ c \in Rows /\ Len(a) = Len(c) /\ \A k \in 1..Len(a) : a[k] = c[k]
  BY DEF Around
<1>2. b \in Rows /\ d \in Rows /\ Len(b) = Len(d)
  BY DEF Around
<1>3. \A k \in 1..Len(b) : b[k] = d[k]
  <2>1. Len(b) = Len(ls) - y - 1
    BY DEF Around
  <2> QED BY <2>1, Zenon DEF Around
<1> QED BY <1>1, <1>2, <1>3, SeqEqual DEF Rows

\* Another line in some row: the rows around it are what they were.
LEMMA LineChanged ==
    ASSUME NEW ls \in Rows, NEW y \in 0..Len(ls) - 1, NEW l \in Seq(Chars), NEW ms,
           ms = [ls EXCEPT ![y + 1] = l]
    PROVE  /\ Above(ms, y) = Above(ls, y)
           /\ TextOf(ms) = Then(TextOf(Above(ls, y)), Then(Then(l, <<NL>>), TextOf(Below(ls, y))))
<1> DEFINE a == Above(ls, y)
           b == Below(ls, y)
<1>1. Around(ls, y, a, b)
  BY AroundRow, Zenon
<1> HIDE DEF a, b
<1>2. ms \in Rows /\ Len(ms) = Len(ls)
  BY <1>1, ExceptSeq DEF Rows, Around
<1>3. ms[y + 1] = l /\ \A k \in 1..Len(ls) : k # y + 1 => ms[k] = ls[k]
  <2>1. DOMAIN ls = 1..Len(ls)
    BY LenProperties DEF Rows
  <2> QED BY <1>1, <2>1 DEF Around
<1>4. y \in 0..Len(ms) - 1
  BY <1>2
<1>5. Around(ms, y, a, b)
  <2>1. \A k \in 1..y : k \in 1..Len(ls) /\ k # y + 1
    BY <1>1 DEF Around
  <2>2. \A k \in 1..(Len(ls) - y - 1) : y + 1 + k \in 1..Len(ls) /\ y + 1 + k # y + 1
    BY <1>1 DEF Around
  <2> QED BY <1>1, <1>2, <1>3, <2>1, <2>2, Zenon DEF Around
<1>6. Around(ms, y, Above(ms, y), Below(ms, y))
  BY <1>2, <1>4, AroundRow
<1>7. Above(ms, y) = a /\ Below(ms, y) = b
  BY <1>5, <1>6, SameAround, Zenon
<1>8. TextOf(ms) = Then(TextOf(Above(ms, y)), Then(Then(ms[y + 1], <<NL>>), TextOf(Below(ms, y))))
  BY <1>2, <1>4, TextAround
<1> QED BY <1>3, <1>7, <1>8 DEF a, b

\* The text up to the cursor and from it on.
Before == Then(TextOf(Above(lines, cursor_y)), SubSeq(Line, 1, cursor_x))
Behind == Then(Then(SubSeq(Line, cursor_x + 1, Len(Line)), <<NL>>), TextOf(Below(lines, cursor_y)))

LEMMA AtCursor ==
    ASSUME Editable
    PROVE  /\ lines \in Rows /\ cursor_y \in 0..Len(lines) - 1 /\ cursor_x \in 0..Len(Line)
           /\ Line \in Seq(Chars) /\ Len(Line) \in Nat /\ Len(Line) <= MaxChars
           /\ Line = lines[cursor_y + 1]
           /\ TextOf(Above(lines, cursor_y)) \in Written
           /\ TextOf(Below(lines, cursor_y)) \in Written
           /\ SubSeq(Line, 1, cursor_x) \in Written /\ SubSeq(Line, cursor_x + 1, Len(Line)) \in Written
           /\ Before \in Written /\ Behind \in Written
           /\ Flat = Then(Before, Behind) /\ Offset = Len(Before)
           /\ Offset = Len(TextOf(Above(lines, cursor_y))) + cursor_x
<1>1. /\ lines \in Rows /\ cursor_y \in 0..Len(lines) - 1 /\ cursor_x \in 0..Len(Line)
      /\ Line \in Seq(Chars) /\ Len(Line) \in Nat /\ Len(Line) <= MaxChars
      /\ Line = lines[cursor_y + 1]
  BY BufferFacts, BuffersAreRows DEF Editable, CursorIn, Line
<1> DEFINE a == TextOf(Above(lines, cursor_y))
           b == TextOf(Below(lines, cursor_y))
           u == SubSeq(Line, 1, cursor_x)
           v == SubSeq(Line, cursor_x + 1, Len(Line))
           e == <<NL>>
<1>2. a \in Written /\ b \in Written /\ Flat = Then(a, Then(Then(Line, e), b))
  BY <1>1, TextAround DEF Flat
<1>3. u \in Seq(Chars) /\ Len(u) = cursor_x /\ v \in Seq(Chars) /\ Line = Then(u, v)
  <2>1. u \in Seq(Chars) /\ Len(u) = cursor_x /\ v \in Seq(Chars)
    BY <1>1, PartsOfLine
  <2>2. Line = Then(u, v)
    BY <1>1, HalvesJoin
  <2> QED BY <2>1, <2>2
<1>4. Before = Then(a, u) /\ Behind = Then(Then(v, e), b) /\ Offset = Len(a) + cursor_x
  BY DEF Before, Behind, Offset, Above
<1> HIDE DEF a, b, u, v, e
<1>5. u \in Written /\ v \in Written /\ e \in Written
  BY <1>3, LineEnds DEF e
<1>6. Flat = Then(a, Then(Then(Then(u, v), e), b))
  BY <1>2, <1>3
<1> HIDE DEF Written
<1>7. /\ Then(a, u) \in Written /\ Then(Then(v, e), b) \in Written
      /\ Len(Then(a, u)) = Len(a) + Len(u)
      /\ Then(a, Then(Then(Then(u, v), e), b)) = Then(Then(a, u), Then(Then(v, e), b))
  BY <1>2, <1>5, ThenFacts
<1> QED BY <1>1, <1>2, <1>3, <1>4, <1>5, <1>6, <1>7 DEF a, b, u, v

LEMMA LineOf ==
    ASSUME NEW a \in Seq(Chars), NEW b \in Seq(Chars)
    PROVE  /\ Then(a, b) \in Seq(Chars) /\ Len(a) \in Nat /\ Len(Then(a, b)) = Len(a) + Len(b)
           /\ SubSeq(Then(a, b), 1, Len(a)) = a /\ SubSeq(a, 1, Len(a)) = a
<1>1. Then(a, b) \in Seq(Chars) /\ Len(Then(a, b)) = Len(a) + Len(b)
  BY ConcatProperties DEF Then
<1>2. SubSeq(Then(a, b), 1, Len(a)) = a
  BY CutOfBoth DEF Then
<1>3. SubSeq(a, 1, Len(a)) = a
  <2>1. a \o <<>> = a /\ <<>> \in Seq(Chars)
    BY ConcatEmptySeq, EmptySeq
  <2>2. SubSeq(a \o <<>>, 1, Len(a)) = a
    BY <2>1, CutOfBoth
  <2> QED BY <2>1, <2>2
<1> QED BY <1>1, <1>2, <1>3, LenProperties

LEMMA PutInside ==
    ASSUME NEW a \in Written, NEW u \in Written, NEW t \in Written, NEW v \in Written,
           NEW e \in Written, NEW b \in Written
    PROVE  Then(a, Then(Then(Then(Then(u, t), v), e), b))
               = Then(Then(Then(a, u), t), Then(Then(v, e), b))
<1>1. Then(v, e) \in Written /\ Then(Then(v, e), b) \in Written /\ Then(u, t) \in Written
  BY ThenFacts
<1>2. Then(Then(Then(u, t), v), e) = Then(Then(u, t), Then(v, e))
  BY <1>1, ThenFacts
<1>3. Then(Then(Then(u, t), Then(v, e)), b) = Then(Then(u, t), Then(Then(v, e), b))
  BY <1>1, ThenFacts
<1>4. \A q \in Written : Then(a, Then(Then(u, t), q)) = Then(Then(Then(a, u), t), q)
  <2>1. TAKE q \in Written
  <2>2. Then(a, Then(Then(u, t), q)) = Then(Then(a, Then(u, t)), q)
    BY <1>1, ThenFacts
  <2> QED BY <2>2, ThenFacts
<1> QED BY <1>1, <1>2, <1>3, <1>4

\* t is put in at the cursor.
LEMMA TypedIn ==
    ASSUME Editable, NEW t \in Seq(Chars),
           lines' = [lines EXCEPT ![cursor_y + 1] =
                        Then(Then(SubSeq(Line, 1, cursor_x), t), SubSeq(Line, cursor_x + 1, Len(Line)))],
           cursor_x' = cursor_x + Len(t), cursor_y' = cursor_y
    PROVE  PutIn(Len(t))
<1> DEFINE a == TextOf(Above(lines, cursor_y))
           b == TextOf(Below(lines, cursor_y))
           u == SubSeq(Line, 1, cursor_x)
           v == SubSeq(Line, cursor_x + 1, Len(Line))
           e == <<NL>>
           l == Then(Then(u, t), v)
<1>1. /\ lines \in Rows /\ cursor_y \in 0..Len(lines) - 1 /\ a \in Written /\ b \in Written
      /\ u \in Written /\ v \in Written /\ e \in Written /\ t \in Written
      /\ Before = Then(a, u) /\ Behind = Then(Then(v, e), b)
      /\ Before \in Written /\ Behind \in Written
      /\ Flat = Then(Before, Behind) /\ Offset = Len(Before) /\ Offset = Len(a) + cursor_x
      /\ cursor_x \in Nat
  BY AtCursor, LineEnds DEF Before, Behind
<1>2. l \in Seq(Chars)
  <2>1. u \in Seq(Chars) /\ v \in Seq(Chars)
    BY AtCursor, PartsOfLine
  <2> HIDE DEF u, v
  <2>2. Then(u, t) \in Seq(Chars)
    BY <2>1, LineOf
  <2> QED BY <2>1, <2>2, LineOf
<1>3. Above(lines', cursor_y) = Above(lines, cursor_y) /\ TextOf(lines') = Then(a, Then(Then(l, e), b))
  BY <1>1, <1>2, LineChanged
<1>4. Flat' = Then(a, Then(Then(l, e), b))
  BY <1>3 DEF Flat
<1>5. Offset' = Len(a) + cursor_x'
  BY <1>3 DEF Offset, Above
<1> HIDE DEF a, b, u, v, e
<1>6. Then(a, Then(Then(Then(Then(u, t), v), e), b)) = Then(Then(Then(a, u), t), Then(Then(v, e), b))
  BY <1>1, PutInside
<1>7. Flat' = Then(Then(Before, t), Behind)
  BY <1>1, <1>4, <1>6
<1>8. Offset' = Offset + Len(t)
  <2>1. Len(a) \in Nat /\ Len(t) \in Nat
    BY <1>1, ThenFacts
  <2> QED BY <1>1, <1>5, <2>1
<1> QED BY <1>1, <1>7, <1>8, PutBetween DEF Then

LEMMA InsertPutsIn ==
    ASSUME Editable, NEW s \in Seq(Chars), Len(s) \in 1..4, Insert(s), lines' # lines,
           ~(Len(Line) + cursor_x' - cursor_x > MaxChars)
    PROVE  \E n \in 1..4 : PutIn(n)
<1> DEFINE u == SubSeq(Line, 1, cursor_x)
           v == SubSeq(Line, cursor_x + 1, Len(Line))
           l == Then(Then(u, s), v)
<1>1. /\ Len(Line) \in Nat /\ cursor_x \in 0..Len(Line) /\ Len(Line) <= MaxChars /\ MaxChars \in Nat
      /\ Line = lines[cursor_y + 1] /\ lines \in Rows /\ cursor_y \in 0..Len(lines) - 1
      /\ Line \in Seq(Chars)
  BY AtCursor, LimitsFacts
<1>2. u \in Seq(Chars) /\ Len(u) = cursor_x /\ v \in Seq(Chars) /\ Len(v) = Len(Line) - cursor_x
  BY <1>1, PartsOfLine
<1>3. /\ lines' = [lines EXCEPT ![cursor_y + 1] = SubSeq(l, 1, Min({Len(l), MaxChars}))]
      /\ cursor_x' = Min({cursor_x + Len(s), MaxChars}) /\ cursor_y' = cursor_y
  BY DEF Insert, Edit, Line, Then
<1> HIDE DEF u, v
<1>4. l \in Seq(Chars) /\ Len(l) = (cursor_x + Len(s)) + (Len(Line) - cursor_x)
      /\ Then(u, s) \in Seq(Chars) /\ Len(Then(u, s)) = cursor_x + Len(s)
  <2>1. Then(u, s) \in Seq(Chars) /\ Len(Then(u, s)) = cursor_x + Len(s)
    BY <1>2, LineOf
  <2> QED BY <1>2, <2>1, LineOf
<1>5. Len(l) = Len(Line) + Len(s) /\ Len(l) \in Nat
  <2> HIDE DEF l
  <2> DEFINE n == Len(s)
  <2>1. cursor_x \in Int /\ n \in Nat /\ n \in Int /\ Len(Line) \in Int
    BY <1>1
  <2>2. \A x, y, z \in Int : (x + y) + (z - x) = z + y
    OBVIOUS
  <2>3. Len(l) = Len(Line) + n
    BY <1>4, <2>1, <2>2, Zenon
  <2> QED BY <1>1, <2>3
<1>6. CASE cursor_x + Len(s) <= MaxChars
  <2>1. cursor_x' = cursor_x + Len(s)
    BY <1>1, <1>3, <1>6, LeastOfTwo
  <2>2. Min({Len(l), MaxChars}) = Len(l)
    BY <1>1, <1>5, <2>1, LeastOfTwo
  <2>3. lines' = [lines EXCEPT ![cursor_y + 1] = l]
    BY <1>3, <1>4, <2>2, LineOf
  <2>4. PutIn(Len(s))
    BY <1>3, <2>1, <2>3, TypedIn DEF u, v
  <2> QED BY <2>4
<1>7. CASE ~(cursor_x + Len(s) <= MaxChars)
  <2> DEFINE m == MaxChars - cursor_x
             t == SubSeq(s, 1, m)
             r == SubSeq(s, m + 1, Len(s))
  <2>1. cursor_x' = MaxChars
    BY <1>1, <1>3, <1>7, LeastOfTwo
  <2>2. cursor_x = Len(Line) /\ m \in 0..Len(s) /\ m \in 0..4
    <3> HIDE DEF l, t, r
    <3>1. cursor_x = Len(Line)
      BY <1>1, <2>1
    <3> DEFINE n == Len(s)
    <3>2. n \in 1..4 /\ ~(cursor_x + n <= MaxChars)
      BY <1>7
    <3> HIDE DEF n
    <3>3. cursor_x \in Nat /\ cursor_x <= MaxChars
      BY <1>1
    <3>4. m \in 0..n /\ m \in 0..4
      BY <1>1, <3>2, <3>3
    <3> QED BY <3>1, <3>4 DEF n
  <2>3. Min({Len(l), MaxChars}) = MaxChars
    BY <1>1, <1>5, <1>7, <2>2, LeastOfTwo
  <2>4. t \in Seq(Chars) /\ Len(t) = m /\ r \in Seq(Chars) /\ s = Then(t, r)
    BY <2>2, PartsOfLine, HalvesJoin
  <2> HIDE DEF t, r
  <2>5. v = <<>> /\ u = Line
    <3>1. Len(v) = 0
      BY <1>1, <1>2, <2>2
    <3>2. SubSeq(Line, 1, Len(Line)) = Line
      BY <1>1, LineOf
    <3> QED BY <1>2, <2>2, <3>1, <3>2, EmptySeq DEF u
  <2>6. \A x \in Seq(Chars) : Then(x, v) = x
    BY <2>5, ConcatEmptySeq DEF Then
  <2>7. l = Then(Then(u, t), r)
    <3>1. l = Then(u, Then(t, r))
      BY <1>4, <2>4, <2>6
    <3>2. u \in Written /\ t \in Written /\ r \in Written
      BY <1>2, <2>4, LineEnds
    <3> QED BY <3>1, <3>2, ThenFacts
  <2>8. Then(u, t) \in Seq(Chars) /\ Len(Then(u, t)) = cursor_x + m
    BY <1>2, <2>4, LineOf
  <2>9. SubSeq(l, 1, MaxChars) = Then(u, t)
    <3>1. cursor_x + m = MaxChars
      BY <1>1
    <3>2. SubSeq(Then(Then(u, t), r), 1, Len(Then(u, t))) = Then(u, t)
      BY <2>4, <2>8, LineOf
    <3> QED BY <2>7, <2>8, <3>1, <3>2
  <2>10. lines' = [lines EXCEPT ![cursor_y + 1] = Then(Then(u, t), v)]
    BY <1>3, <2>3, <2>6, <2>8, <2>9
  <2>11. cursor_x' = cursor_x + Len(t)
    BY <1>1, <2>1, <2>4
  <2>12. PutIn(Len(t))
    BY <1>3, <2>4, <2>10, <2>11, TypedIn DEF u, v
  <2>13. m # 0
    <3>1. SUFFICES ASSUME m = 0 PROVE FALSE
      OBVIOUS
    <3>2. t = <<>>
      BY <2>4, <3>1, EmptySeq
    <3>3. Then(u, t) = Line
      BY <1>1, <2>5, <3>2, ConcatEmptySeq DEF Then
    <3>4. lines' = [lines EXCEPT ![cursor_y + 1] = lines[cursor_y + 1]]
      BY <1>1, <1>3, <2>3, <2>9, <3>3
    <3>5. lines = [k \in DOMAIN lines |-> lines[k]]
      BY <1>1 DEF Rows
    <3> QED BY <3>4, <3>5
  <2> QED BY <2>2, <2>4, <2>12, <2>13
<1> QED BY <1>6, <1>7

LEMMA SplitInside ==
    ASSUME NEW a \in Written, NEW u \in Written, NEW v \in Written,
           NEW e \in Written, NEW b \in Written
    PROVE  Then(a, Then(Then(Then(u, v), e), b)) = Then(Then(a, u), Then(Then(v, e), b))
<1>1. (\A x, y \in Written : Then(x, y) \in Written)
      /\ \A x, y, z \in Written : Then(Then(x, y), z) = Then(x, Then(y, z))
  BY ThenFacts, Zenon
<1> QED BY <1>1

LEMMA EndInside ==
    ASSUME NEW a \in Written, NEW u \in Written, NEW v \in Written,
           NEW e \in Written, NEW b \in Written
    PROVE  Then(Then(a, Then(u, e)), Then(Then(v, e), b))
               = Then(Then(Then(a, u), e), Then(Then(v, e), b))
<1>1. (\A x, y \in Written : Then(x, y) \in Written)
      /\ \A x, y, z \in Written : Then(Then(x, y), z) = Then(x, Then(y, z))
  BY ThenFacts, Zenon
<1> QED BY <1>1

LEMMA SequenceOf ==
    ASSUME NEW S, NEW n \in Nat, NEW f \in [1..n -> S]
    PROVE  f \in Seq(S) /\ Len(f) = n
<1>1. f \in Seq(S)
  BY DEF Seq
<1> QED BY <1>1, LenProperties

\* Character i of the cursor's line is taken out.
LEMMA CharacterTaken ==
    ASSUME Editable, NEW i \in 1..Len(Line),
           lines' = [lines EXCEPT ![cursor_y + 1] = RemoveAt(Line, i)],
           cursor_x' = i - 1, cursor_y' = cursor_y
    PROVE  TakenOut(Len(TextOf(Above(lines, cursor_y))) + i)
<1> DEFINE a == TextOf(Above(lines, cursor_y))
           b == TextOf(Below(lines, cursor_y))
           u == SubSeq(Line, 1, i - 1)
           c == <<Line[i]>>
           v == SubSeq(Line, i + 1, Len(Line))
           e == <<NL>>
           l == RemoveAt(Line, i)
           p == Then(a, u)
           q == Then(Then(v, e), b)
<1>1. /\ lines \in Rows /\ cursor_y \in 0..Len(lines) - 1 /\ a \in Written /\ b \in Written
      /\ e \in Written /\ Line \in Seq(Chars) /\ Line = lines[cursor_y + 1] /\ i \in Nat
  BY AtCursor, LineEnds
<1>2. /\ u \in Seq(Chars) /\ Len(u) = i - 1 /\ v \in Seq(Chars) /\ c \in Seq(Chars)
      /\ Line = Then(Then(u, c), v) /\ Len(c) = 1
  BY <1>1, AroundElement DEF Then
<1>3. l = Then(u, v)
  BY DEF RemoveAt, Then
<1> HIDE DEF a, b, u, c, v, l, e
<1>4. l \in Seq(Chars)
  BY <1>2, <1>3, LineOf
<1>5. Above(lines', cursor_y) = Above(lines, cursor_y) /\ TextOf(lines') = Then(a, Then(Then(l, e), b))
  BY <1>1, <1>4, LineChanged DEF a, b, e, l
<1>6. Flat' = Then(a, Then(Then(Then(u, v), e), b)) /\ Offset' = Len(a) + (i - 1)
  BY <1>3, <1>5 DEF Flat, Offset, Above, a
<1>7. Flat = Then(a, Then(Then(Then(Then(u, c), v), e), b))
  BY <1>1, <1>2, TextAround DEF Flat, a, b, e
<1>8. u \in Written /\ c \in Written /\ v \in Written
  BY <1>2, LineEnds
<1>9. Flat = Then(Then(p, c), q) /\ Flat' = Then(p, q)
  <2>1. Flat = Then(Then(p, c), q)
    BY <1>1, <1>7, <1>8, PutInside
  <2>2. Flat' = Then(p, q)
    BY <1>1, <1>6, <1>8, SplitInside
  <2> QED BY <2>1, <2>2
<1>10. p \in Written /\ q \in Written /\ Len(p) = Len(a) + (i - 1) /\ Len(a) \in Nat
  <2>1. p \in Written /\ Len(p) = Len(a) + Len(u) /\ Len(a) \in Nat /\ Then(v, e) \in Written
    BY <1>1, <1>8, ThenFacts
  <2> QED BY <1>1, <1>2, <1>8, <2>1, ThenFacts
<1> HIDE DEF p, q
<1>11. Offset' = Len(p)
  BY <1>6, <1>10
<1>12. TakenOut(Len(p) + 1)
  BY <1>2, <1>8, <1>9, <1>10, <1>11, TakenBetween DEF Then
<1>13. Len(p) + 1 = Len(a) + i
  BY <1>1, <1>10
<1> QED BY <1>12, <1>13 DEF a

\* The line end between two rows is taken out.
LEMMA LineEndTaken ==
    ASSUME lines \in Rows, NEW y \in Nat, y + 1 < Len(lines), lines' = Joined(y),
           cursor_x' = Len(lines[y + 1]), cursor_y' = y
    PROVE  /\ TakenOut(Len(TextOf(Above(lines, y))) + Len(lines[y + 1]) + 1)
           /\ TextOf(Above(lines, y)) \in Written /\ lines[y + 1] \in Written
           /\ Len(TextOf(Above(lines, y + 1)))
                  = Len(TextOf(Above(lines, y))) + Len(lines[y + 1]) + 1
<1> DEFINE a == Above(lines, y)
           b == Below(lines, y + 1)
           l == lines[y + 1]
           r == lines[y + 2]
           e == <<NL>>
           p == Then(TextOf(a), l)
           q == Then(Then(r, e), TextOf(b))
<1>1. /\ Len(lines) \in Nat /\ y \in 0..Len(lines) - 1 /\ y + 1 \in 0..Len(lines) - 1
      /\ (y + 1) + 1 = y + 2 /\ y + 2 \in 1..Len(lines) /\ y + 1 \in 1..Len(lines)
  BY TextCourse
<1>2. Around(lines, y, a, Below(lines, y)) /\ Around(lines, y + 1, Above(lines, y + 1), b)
  BY <1>1, AroundRow, Zenon
<1>3. /\ TextOf(a) \in Written /\ TextOf(b) \in Written /\ l \in Seq(Chars) /\ r \in Seq(Chars)
      /\ Flat = Then(TextOf(Above(lines, y + 1)), q)
  <2>1. TextOf(a) \in Written /\ l \in Seq(Chars)
    BY <1>1, TextAround
  <2>2. /\ TextOf(b) \in Written /\ lines[(y + 1) + 1] \in Seq(Chars)
        /\ TextOf(lines) = Then(TextOf(Above(lines, y + 1)),
                                Then(Then(lines[(y + 1) + 1], e), TextOf(b)))
    BY <1>1, TextAround
  <2> QED BY <1>1, <2>1, <2>2 DEF Flat
<1>4. TextOf(Above(lines, y + 1)) = Then(p, e)
  BY <1>1, RowsAbove DEF Then
<1> HIDE DEF a, b, l, r, e
<1> DEFINE m == Then(l, r)
<1>5. m \in Seq(Chars)
  BY <1>3, LineOf
<1> HIDE DEF m
<1> DEFINE n == Len(lines) - 1
<1>6. n \in Nat /\ n = Len(lines) - 1 /\ y + 1 \in 1..n
  BY <1>1
<1> HIDE DEF n
<1>7. lines' = [k \in 1..n |-> IF k <= y THEN lines[k] ELSE IF k = y + 1 THEN m ELSE lines[k + 1]]
  <2>1. \A k \in 1..n : k = y + 1 => lines[k] \o lines[k + 1] = m
    BY <1>1 DEF m, l, r, Then
  <2> QED BY <2>1 DEF Joined, TotalLines, n
<1>8. lines' \in Rows /\ Len(lines') = n
  <2>1. \A k \in 1..n : k \in 1..Len(lines) /\ k + 1 \in 1..Len(lines)
    BY <1>1, <1>6
  <2>2. \A k \in 1..Len(lines) : lines[k] \in Seq(Chars)
    BY ElementOfSeq DEF Rows
  <2>3. lines' \in [1..n -> Seq(Chars)]
    BY <1>5, <1>7, <2>1, <2>2
  <2> HIDE DEF Rows
  <2>4. lines' \in Rows
    BY <1>6, <2>3, SequenceOf DEF Rows
  <2>5. Len(lines') = n
    BY <1>6, <2>3, SequenceOf
  <2> QED BY <2>4, <2>5
<1>9. Around(lines', y, a, b)
  <2>1. a \in Rows /\ Len(a) = y /\ \A k \in 1..y : a[k] = lines'[k]
    <3>1. a \in Rows /\ Len(a) = y /\ \A k \in 1..y : a[k] = lines[k]
      BY <1>2 DEF Around
    <3>2. \A k \in 1..y : k \in 1..n /\ k <= y
      BY <1>6
    <3> QED BY <1>7, <3>1, <3>2
  <2>2. b \in Rows /\ Len(b) = Len(lines) - (y + 1) - 1
        /\ \A k \in 1..(Len(lines) - (y + 1) - 1) : b[k] = lines[(y + 1) + 1 + k]
    BY <1>2 DEF Around
  <2>3. Len(b) = n - y - 1
    BY <1>1, <1>6, <2>2
  <2>4. ASSUME NEW k \in 1..(n - y - 1) PROVE b[k] = lines'[y + 1 + k]
    <3>1. /\ y + 1 + k \in 1..n /\ ~(y + 1 + k <= y) /\ y + 1 + k # y + 1
          /\ k \in 1..(Len(lines) - (y + 1) - 1) /\ (y + 1 + k) + 1 = (y + 1) + 1 + k
      BY <1>1, <1>6
    <3>2. lines'[y + 1 + k] = lines[(y + 1 + k) + 1]
      BY <1>7, <3>1
    <3> QED BY <2>2, <3>1, <3>2
  <2> QED BY <1>6, <1>8, <2>1, <2>2, <2>3, <2>4 DEF Around
<1>10. y \in 0..Len(lines') - 1 /\ lines'[y + 1] = m
  BY <1>6, <1>7, <1>8
<1>11. Above(lines', y) = a /\ Below(lines', y) = b
  <2>1. Around(lines', y, Above(lines', y), Below(lines', y))
    BY <1>8, <1>10, AroundRow
  <2> QED BY <1>9, <2>1, SameAround, Zenon
<1>12. TextOf(lines') = Then(TextOf(a), Then(Then(m, e), TextOf(b)))
  <2>1. TextOf(lines') = Then(TextOf(Above(lines', y)),
                              Then(Then(lines'[y + 1], e), TextOf(Below(lines', y))))
    BY <1>8, <1>10, TextAround DEF e
  <2> QED BY <1>10, <1>11, <2>1
<1>13. l \in Written /\ r \in Written /\ e \in Written /\ Len(e) = 1
  BY <1>3, LineEnds DEF e
<1>14. Flat' = Then(p, q)
  BY <1>3, <1>12, <1>13, SplitInside DEF Flat, m
<1>15. p \in Written /\ q \in Written /\ Len(p) = Len(TextOf(a)) + Len(l)
       /\ Len(Then(p, e)) = Len(p) + 1
  <2>1. p \in Written /\ Len(p) = Len(TextOf(a)) + Len(l)
    BY <1>3, <1>13, ThenFacts
  <2>2. q \in Written
    <3>1. Then(r, e) \in Written
      BY <1>13, ThenFacts
    <3> QED BY <1>3, <3>1, ThenFacts
  <2> HIDE DEF p, q
  <2>3. Len(Then(p, e)) = Len(p) + Len(e)
    BY <1>13, <2>1, ThenFacts
  <2> QED BY <1>13, <2>1, <2>2, <2>3
<1>16. Flat = Then(Then(p, e), q)
  BY <1>3, <1>4
<1>17. Offset' = Len(p)
  <2>1. Offset' = Len(TextOf(Above(lines', y))) + Len(l)
    BY DEF Offset, Above, l
  <2> QED BY <1>11, <1>15, <2>1
<1> HIDE DEF p, q
<1>18. TakenOut(Len(p) + 1)
  BY <1>13, <1>14, <1>15, <1>16, <1>17, TakenBetween DEF Then
<1> QED BY <1>3, <1>4, <1>13, <1>15, <1>18 DEF a, l

LEMMA RowsThen ==
    /\ \A x, y \in Rows : /\ Then(x, y) \in Rows /\ Len(Then(x, y)) = Len(x) + Len(y)
                          /\ TextOf(Then(x, y)) = Then(TextOf(x), TextOf(y))
                          /\ SubSeq(Then(x, y), 1, Len(x)) = x
    /\ \A x, y, z \in Rows : Then(Then(x, y), z) = Then(x, Then(y, z))
<1>1. ASSUME NEW x \in Rows, NEW y \in Rows
      PROVE  /\ Then(x, y) \in Rows /\ Len(Then(x, y)) = Len(x) + Len(y)
             /\ TextOf(Then(x, y)) = Then(TextOf(x), TextOf(y))
             /\ SubSeq(Then(x, y), 1, Len(x)) = x
  <2>1. x \o y \in Rows /\ Len(x \o y) = Len(x) + Len(y)
    BY ConcatProperties DEF Rows
  <2>2. TextOf(x \o y) = TextOf(x) \o TextOf(y)
    BY TextOfBoth
  <2>3. SubSeq(x \o y, 1, Len(x)) = x
    BY CutOfBoth DEF Rows
  <2> QED BY <2>1, <2>2, <2>3, Zenon DEF Then
<1>2. ASSUME NEW x \in Rows, NEW y \in Rows, NEW z \in Rows
      PROVE  Then(Then(x, y), z) = Then(x, Then(y, z))
  BY ConcatAssociative DEF Then, Rows
<1> QED BY <1>1, <1>2, Zenon

\* A line end is put in at the cursor.
LEMMA LineEndPutIn ==
    ASSUME Editable,
           Edit(SubSeq(lines, 1, cursor_y) \o Halves \o SubSeq(lines, cursor_y + 2, TotalLines),
                0, cursor_y + 1)
    PROVE  PutIn(1)
<1> DEFINE above == Above(lines, cursor_y)
           below == Below(lines, cursor_y)
           a == TextOf(above)
           b == TextOf(below)
           u == SubSeq(Line, 1, cursor_x)
           v == SubSeq(Line, cursor_x + 1, Len(Line))
           e == <<NL>>
           row == <<u>>
           next == <<v>>
<1>1. /\ lines \in Rows /\ cursor_y \in 0..Len(lines) - 1 /\ a \in Written /\ b \in Written
      /\ u \in Written /\ v \in Written /\ e \in Written /\ Len(e) = 1
      /\ Before = Then(a, u) /\ Behind = Then(Then(v, e), b)
      /\ Before \in Written /\ Behind \in Written
      /\ Flat = Then(Before, Behind) /\ Offset = Len(Before)
  BY AtCursor, LineEnds DEF Before, Behind
<1>2. u \in Seq(Chars) /\ v \in Seq(Chars)
  BY AtCursor, PartsOfLine
<1>3. lines' = (above \o <<u, v>>) \o below /\ cursor_x' = 0 /\ cursor_y' = cursor_y + 1
  BY DEF Edit, Halves, TotalLines, Above, Below
<1>4. above \in Rows /\ Len(above) = cursor_y /\ below \in Rows
  BY <1>1, AroundRow DEF Around
<1> HIDE DEF above, below, a, b, u, v, e
<1>5. /\ row \in Rows /\ TextOf(row) = Then(u, e) /\ Len(row) = 1
      /\ next \in Rows /\ TextOf(next) = Then(v, e)
  BY <1>2, TextOfLine DEF Then, e
<1>6. <<u, v>> = Then(row, next)
  <2> DEFINE both == <<u, v>>
             c == row \o next
  <2>1. both \in Seq(Seq(Chars)) /\ Len(both) = 2 /\ both[1] = u /\ both[2] = v
    BY <1>2
  <2>2. row \in Seq(Seq(Chars)) /\ next \in Seq(Seq(Chars)) /\ row[1] = u /\ next[1] = v
        /\ Len(row) = 1 /\ Len(next) = 1
    BY <1>2
  <2> HIDE DEF both, row, next
  <2>3. /\ c \in Seq(Seq(Chars)) /\ Len(c) = 2
        /\ \A k \in 1..2 : c[k] = IF k <= 1 THEN row[k] ELSE next[k - 1]
    <3>1. /\ c \in Seq(Seq(Chars)) /\ Len(c) = Len(row) + Len(next)
          /\ \A k \in 1..(Len(row) + Len(next)) :
                c[k] = IF k <= Len(row) THEN row[k] ELSE next[k - Len(row)]
      BY <2>2, ConcatProperties
    <3> HIDE DEF c
    <3> QED BY <2>2, <3>1
  <2> HIDE DEF c
  <2>4. c[1] = u /\ c[2] = v
    BY <2>2, <2>3
  <2>5. \A k \in 1..Len(both) : both[k] = c[k]
    <3>1. \A k \in 1..2 : k = 1 \/ k = 2
      OBVIOUS
    <3> QED BY <2>1, <2>4, <3>1
  <2> QED BY <2>1, <2>3, <2>5, SeqEqual DEF both, c, Then
<1> HIDE DEF row, next
<1>7. lines' = Then(Then(above, row), Then(next, below))
  <2>1. lines' = Then(Then(above, Then(row, next)), below)
    BY <1>3, <1>6 DEF Then
  <2>2. (\A x, y \in Rows : Then(x, y) \in Rows)
        /\ \A x, y, z \in Rows : Then(Then(x, y), z) = Then(x, Then(y, z))
    BY RowsThen, Zenon
  <2> QED BY <1>4, <1>5, <2>1, <2>2
<1> DEFINE x == Then(above, row)
           y == Then(next, below)
<1>8. x \in Rows /\ Len(x) = cursor_y + 1 /\ TextOf(x) = Then(a, Then(u, e))
  <2>1. x \in Rows /\ Len(x) = Len(above) + Len(row) /\ TextOf(x) = Then(TextOf(above), TextOf(row))
    BY <1>4, <1>5, RowsThen, Zenon
  <2> HIDE DEF x
  <2> QED BY <1>4, <1>5, <2>1 DEF a
<1>9. y \in Rows /\ TextOf(y) = Behind
  <2>1. y \in Rows /\ TextOf(y) = Then(TextOf(next), TextOf(below))
    BY <1>4, <1>5, RowsThen, Zenon
  <2> HIDE DEF y
  <2> QED BY <1>1, <1>5, <2>1 DEF b
<1> HIDE DEF x, y
<1>10. Flat' = Then(Then(a, Then(u, e)), Behind) /\ SubSeq(lines', 1, cursor_y + 1) = x
  <2>1. TextOf(Then(x, y)) = Then(TextOf(x), TextOf(y)) /\ SubSeq(Then(x, y), 1, Len(x)) = x
    BY <1>8, <1>9, RowsThen
  <2>2. lines' = Then(x, y)
    BY <1>7 DEF x, y
  <2> QED BY <1>8, <1>9, <2>1, <2>2 DEF Flat
<1>11. Then(a, Then(u, e)) = Then(Before, e)
  BY <1>1, ThenFacts
<1>12. Flat' = Then(Then(Before, e), Behind)
  BY <1>10, <1>11
<1>13. Len(Then(Before, e)) = Len(Before) + 1 /\ Len(Before) \in Nat
  <2>1. Len(Then(Before, e)) = Len(Before) + Len(e) /\ Len(Before) \in Nat
    BY <1>1, ThenFacts
  <2> QED BY <1>1, <2>1
<1>14. Offset' = Offset + 1
  <2>1. Offset' = Len(TextOf(x)) + 0
    BY <1>3, <1>10 DEF Offset
  <2> QED BY <1>1, <1>8, <1>11, <1>13, <2>1
<1> QED BY <1>1, <1>12, <1>14, PutBetween DEF Then

-----------------------------------------------------------------------------
\* The text changes at the cursor only.
Edited == \/ \E n \in 1 .. 4 : PutIn(n)
          \/ TakenOut(Offset)
          \/ TakenOut(Offset + 1)

LEMMA InsertEdits ==
    ASSUME Editable, NEW s \in Seq(Chars), Len(s) \in 1..4, Insert(s), lines' # lines,
           ~(/\ TotalLines' = TotalLines /\ cursor_y' = cursor_y
             /\ Len(Line) + cursor_x' - cursor_x > MaxChars)
    PROVE  Edited
<1>1. cursor_y' = cursor_y /\ Len(lines') = Len(lines)
  <2> DEFINE l == SubSeq(Line, 1, cursor_x) \o s \o SubSeq(Line, cursor_x + 1, Len(Line))
             m == SubSeq(l, 1, Min({Len(l), MaxChars}))
             ms == [lines EXCEPT ![cursor_y + 1] = m]
  <2>1. lines' = ms /\ cursor_y' = cursor_y
    BY DEF Insert, Edit, Line
  <2>2. lines \in Seq(LineTexts) /\ lines' \in Seq(LineTexts)
    BY InsertKeeps DEF Editable, TextKept, Buffers
  <2> HIDE DEF m
  <2>3. DOMAIN lines' = DOMAIN lines
    BY <2>1
  <2> HIDE DEF ms
  <2>4. DOMAIN lines = 1..Len(lines) /\ DOMAIN lines' = 1..Len(lines')
        /\ Len(lines) \in Nat /\ Len(lines') \in Nat
    BY <2>2, LenProperties
  <2> QED BY <2>1, <2>3, <2>4
<1>2. ~(Len(Line) + cursor_x' - cursor_x > MaxChars)
  BY <1>1 DEF TotalLines
<1> QED BY <1>2, InsertPutsIn DEF Edited

LEMMA BackspaceEdits == ASSUME Editable, Backspace, lines' # lines PROVE Edited
<1>1. CASE cursor_x > 0 /\ Edit([lines EXCEPT ![cursor_y + 1] = RemoveAt(@, cursor_x)],
                                cursor_x - 1, cursor_y)
  <2>1. cursor_x \in 1..Len(Line) /\ Offset = Len(TextOf(Above(lines, cursor_y))) + cursor_x
    BY <1>1, AtCursor
  <2>2. lines' = [lines EXCEPT ![cursor_y + 1] = RemoveAt(Line, cursor_x)]
        /\ cursor_x' = cursor_x - 1 /\ cursor_y' = cursor_y
    BY <1>1 DEF Edit, Line
  <2>3. TakenOut(Len(TextOf(Above(lines, cursor_y))) + cursor_x)
    BY <2>1, <2>2, CharacterTaken
  <2> QED BY <2>1, <2>3 DEF Edited
<1>2. CASE /\ cursor_x = 0 /\ cursor_y > 0
           /\ Edit(Joined(cursor_y - 1), Len(LineAt(cursor_y - 1)), cursor_y - 1)
  <2> DEFINE y == cursor_y - 1
  <2>1. lines \in Rows /\ y \in Nat /\ y + 1 < Len(lines) /\ cursor_y = y + 1
    <3>1. lines \in Rows /\ cursor_y \in 0..Len(lines) - 1
      BY AtCursor
    <3>2. Len(lines) \in Nat
      BY <3>1, TextCourse
    <3> QED BY <1>2, <3>1, <3>2
  <2>2. lines' = Joined(y) /\ cursor_x' = Len(lines[y + 1]) /\ cursor_y' = y
    BY <1>2 DEF Edit, LineAt
  <2> HIDE DEF y
  <2> DEFINE w == Len(TextOf(Above(lines, y))) + Len(lines[y + 1]) + 1
  <2>3. TakenOut(w) /\ Len(TextOf(Above(lines, y + 1))) = w
    BY <2>1, <2>2, LineEndTaken
  <2>4. Offset = Len(TextOf(Above(lines, y + 1))) /\ w \in Nat
    <3>1. Offset = Len(TextOf(Above(lines, y + 1))) + 0 /\ TextOf(Above(lines, y + 1)) \in Written
      BY <1>2, <2>1, AtCursor
    <3>2. Len(TextOf(Above(lines, y + 1))) \in Nat
      BY <3>1, ThenFacts
    <3> QED BY <2>3, <3>1, <3>2
  <2> QED BY <2>3, <2>4 DEF Edited
<1> QED BY <1>1, <1>2 DEF Backspace, Still

LEMMA DeleteEdits == ASSUME Editable, Delete, lines' # lines PROVE Edited
<1>0. /\ cursor_x \in 0..Len(Line) /\ Len(Line) \in Nat /\ lines \in Rows
      /\ cursor_y \in 0..Len(lines) - 1 /\ Line = lines[cursor_y + 1]
      /\ Offset = Len(TextOf(Above(lines, cursor_y))) + cursor_x
      /\ TextOf(Above(lines, cursor_y)) \in Written
  BY AtCursor
<1> DEFINE o == Len(TextOf(Above(lines, cursor_y)))
<1>1. o \in Nat /\ Offset = o + cursor_x /\ (o + cursor_x) + 1 = o + (cursor_x + 1)
  BY <1>0, ThenFacts
<1>2. CASE /\ cursor_x < Len(Line)
           /\ Edit([lines EXCEPT ![cursor_y + 1] = RemoveAt(@, cursor_x + 1)], cursor_x, cursor_y)
  <2> DEFINE x == cursor_x + 1
  <2>1. x \in 1..Len(Line) /\ cursor_x = x - 1
    BY <1>0, <1>2
  <2>2. lines' = [lines EXCEPT ![cursor_y + 1] = RemoveAt(Line, x)]
        /\ cursor_x' = x - 1 /\ cursor_y' = cursor_y
    BY <1>2, <2>1 DEF Edit, Line
  <2> HIDE DEF x
  <2>3. TakenOut(o + x)
    BY <2>1, <2>2, CharacterTaken
  <2>4. TakenOut(Offset + 1)
    BY <1>1, <2>3 DEF x
  <2> QED BY <2>4 DEF Edited
<1>3. CASE cursor_x >= Len(Line) /\ DeleteLineEnd
  <2>1. cursor_y \in Nat /\ cursor_y + 1 < Len(lines)
    <3>1. Len(lines) \in Nat
      BY <1>0, TextCourse
    <3> QED BY <1>0, <1>3, <3>1 DEF DeleteLineEnd, LastLine, TotalLines
  <2>2. cursor_x = Len(lines[cursor_y + 1])
    BY <1>0, <1>3
  <2>3. lines' = Joined(cursor_y) /\ cursor_x' = Len(lines[cursor_y + 1]) /\ cursor_y' = cursor_y
    BY <1>3, <2>2 DEF DeleteLineEnd, Edit
  <2>4. TakenOut(o + Len(lines[cursor_y + 1]) + 1)
    BY <1>0, <2>1, <2>3, LineEndTaken
  <2> QED BY <1>1, <2>2, <2>4 DEF Edited
<1> QED BY <1>2, <1>3 DEF Delete, Still

LEMMA EditingEdits ==
    ASSUME Editable, NEW k, Editing(k), lines' # lines,
           ~(/\ TotalLines' = TotalLines /\ cursor_y' = cursor_y
             /\ Len(Line) + cursor_x' - cursor_x > MaxChars)
    PROVE  Edited
<1>1. CASE k \in Letters /\ Insert(<<Ascii[k]>>)
  <2>1. <<Ascii[k]>> \in Seq(Chars) /\ Len(<<Ascii[k]>>) = 1
    BY <1>1, NanoAssumption
  <2>2. Len(<<Ascii[k]>>) \in 1..4
    BY <2>1
  <2> QED BY <1>1, <2>1, <2>2, InsertEdits, Zenon
<1>2. CASE Insert([i \in 1 .. 4 |-> Space])
  <2> DEFINE s == [i \in 1 .. 4 |-> Space]
  <2>1. s \in Seq(Chars) /\ Len(s) = 4
    <3>1. s \in [1..4 -> Chars] /\ 4 \in Nat
      BY NanoAssumption
    <3> QED BY <3>1, SequenceOf
  <2>2. Len(s) \in 1..4
    BY <2>1
  <2>3. Insert(s)
    BY <1>2
  <2> HIDE DEF s
  <2> QED BY <2>1, <2>2, <2>3, InsertEdits, Zenon
<1>3. CASE Backspace
  BY <1>3, BackspaceEdits
<1>4. CASE Delete
  BY <1>4, DeleteEdits
<1>5. CASE Enter
  <2>1. PutIn(1)
    BY <1>5, LineEndPutIn DEF Enter, Still
  <2> QED BY <2>1 DEF Edited
<1> QED BY <1>1, <1>2, <1>3, <1>4, <1>5 DEF Editing

LEMMA HandlerEdits ==
    ASSUME NEW k, HandleScancode(k), lines' # lines PROVE Editing(k)
<1>1. lines' = lines => FALSE
  OBVIOUS
<1>2. CASE AnswerYes \/ Discard \/ Nothing \/ CtrlS \/ CtrlX \/ CtrlH \/ Moving(k)
  BY <1>1, <1>2 DEF AnswerYes, Discard, Exit, Nothing, CtrlS, CtrlX, CtrlH, Moving
<1> QED BY <1>1, <1>2 DEF HandleScancode

\* A key changes the text at the cursor and there only, however long the lines
\* and whatever they hold: nano_insert_char, nano_handle_backspace,
\* nano_handle_delete and nano_handle_enter lose nothing else.
THEOREM EditsInOnePlace == Spec => OneEdit
<1>1. EditorInv /\ [Next]_vars => EditorInv'
  BY EditorStep, EditorStutters
<1> DEFINE Changes == /\ editor_active /\ editor_active' /\ lines' # lines
                      /\ ~(TotalLines' = TotalLines /\ cursor_y' = cursor_y
                             /\ Len(Line) + cursor_x' - cursor_x > MaxChars)
<1>2. ASSUME EditorInv, [Next]_vars, Changes PROVE Edited
  <2>1. Editable
    BY <1>2 DEF EditorInv, TextIn, Editable
  <2>2. ASSUME NEW k, Press(k) PROVE Edited
    <3>1. HandleScancode(Scancode(k))
      BY <1>2, <2>2 DEF Press
    <3>2. Editing(Scancode(k))
      BY <1>2, <3>1, HandlerEdits
    <3> QED BY <1>2, <2>1, <3>2, EditingEdits
  <2>3. CASE \E k \in Plain \cup Pad : Press(k)
    BY <2>2, <2>3
  <2>4. CASE lines' = lines
    BY <1>2, <2>4
  <2> QED BY <1>2, <2>3, <2>4 DEF Next, Prefix, CtrlKey, Release, Nothing, vars
<1>3. ASSUME EditorInv, [Next]_vars
      PROVE  [Changes => \/ \E n \in 1 .. 4 : PutIn(n)
                         \/ TakenOut(Offset)
                         \/ TakenOut(Offset + 1)]_vars
  BY <1>2, <1>3 DEF Edited
<1> QED BY <1>1, <1>3, EditorStarts, PTL DEF Spec, OneEdit
=============================================================================
