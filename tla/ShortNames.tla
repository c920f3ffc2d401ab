----------------------------- MODULE ShortNames -----------------------------
(***************************************************************************)
(* The 8.3 names of directory entries: what a typed name becomes            *)
(* (fat12_make_short_name), what a listing shows of it                      *)
(* (fat12_dir_name_to_string), and the names the image builder writes.      *)
(*                                                                         *)
(* A name is a sequence of characters, of which only the classes matter     *)
(* that the code tells apart: small and capital letters (Upper pairs them), *)
(* the dot, the space, and characters that no name may hold.                *)
(***************************************************************************)
EXTENDS Integers, Sequences, FiniteSets, SequencesExt

CONSTANTS
    Letters,    \* small letters
    Upper,      \* the capital of each
    Bad,        \* characters fat12_is_valid_char refuses
    BaseLen,    \* 8
    ExtLen,     \* 3
    TempLen,    \* 31: sizeof temp - 1
    MaxTyped,   \* the longest name typed
    SeedNames   \* the names build_image stores

Dot == "."
Space == " "
Capitals == {Upper[c] : c \in Letters}
Chars == Letters \cup Capitals \cup Bad \cup {Dot, Space}
Names == SeqOf(Chars, MaxTyped)
Invalid == <<>>

ASSUME NamesAssumption ==
    /\ Upper \in [Letters -> Capitals]
    /\ Letters \cap Capitals = {} /\ {Dot, Space} \cap (Letters \cup Capitals) = {}
    /\ Bad \cap (Letters \cup Capitals \cup {Dot, Space}) = {}
    /\ BaseLen \in Nat \ {0} /\ {ExtLen, TempLen, MaxTyped} \subseteq Nat
    /\ BaseLen + 1 + ExtLen < TempLen

\* One to eight good characters, or those and a dot and up to three more.
Is83(n) ==
    LET good(i) == n[i] \in Letters \cup Capitals IN
    \E b \in 1..BaseLen :
        /\ b <= Len(n) /\ \A i \in 1..b : good(i)
        /\ \/ Len(n) = b
           \/ /\ Len(n) - b - 1 \in 0..ExtLen /\ n[b + 1] = Dot
              /\ \A i \in (b + 2)..Len(n) : good(i)

\* The names build_image stores are such names (README.TXT, INFO.TXT).
ASSUME SeedAssumption == \A n \in SeedNames : n \in Names /\ Is83(n)

VARIABLES
    typed,  \* the name given last
    raw     \* the name field it became, or Invalid

names == <<typed, raw>>

-----------------------------------------------------------------------------
ToUpper(c) == IF c \in Letters THEN Upper[c] ELSE c
IsValidChar(c) == c \in Capitals

\* Faulty: the last character is lost.
PaddedShort(s, n) == [i \in 1..n |-> IF i < Len(s) THEN s[i] ELSE Space]
Padded(s, n) == [i \in 1..n |-> IF i <= Len(s) THEN s[i] ELSE Space]
Field(base, ext) == Padded(base, BaseLen) \o Padded(ext, ExtLen)

\* Faulty: the text is cut to the longest name that fits.
TempCut(input) ==
    [i \in 1..(IF Len(input) < BaseLen + 1 + ExtLen THEN Len(input) ELSE BaseLen + 1 + ExtLen) |->
        ToUpper(input[i])]
\* The capitals of what fits into temp.
Temp(input) ==
    [i \in 1..(IF Len(input) < TempLen THEN Len(input) ELSE TempLen) |-> ToUpper(input[i])]

MakeShortName(input) ==
    LET temp == Temp(input)
        dots == {i \in DOMAIN temp : temp[i] = Dot}
        base == SelectInSeq(temp \o <<Dot>>, LAMBDA c : c = Dot) - 1
        ext == IF dots = {} THEN <<>> ELSE SubSeq(temp, base + 2, Len(temp))
        ok(s) == \A i \in DOMAIN s : IsValidChar(s[i])
    IN IF /\ Cardinality(dots) <= 1
          /\ base \in 1..BaseLen /\ Len(ext) <= ExtLen
          /\ ok(SubSeq(temp, 1, base)) /\ ok(ext)
       THEN Field(SubSeq(temp, 1, base), ext)
       ELSE Invalid

\* Faulty: the dot is shown only behind a base that fills its field.
DotIfFull(field) == field[BaseLen] # Space
HasExt(field) == \E i \in (BaseLen + 1)..(BaseLen + ExtLen) : field[i] # Space

\* The loop over the characters of a part.
Show(text, c) == IF c = Space THEN text ELSE Append(text, c)
Shown(s) == FoldLeft(Show, <<>>, s)

DirNameToString(field) ==
    LET text == Shown(SubSeq(field, 1, BaseLen))
                \o (IF HasExt(field) THEN <<Dot>> ELSE <<>>)
                \o Shown(SubSeq(field, BaseLen + 1, BaseLen + ExtLen))
    IN IF text = <<>> THEN <<"?">> ELSE text

\* to_short_name: both parts are cut, and any character is taken.
BuilderShortName(name) ==
    LET upto(s, n) == [i \in 1..(IF Len(s) < n THEN Len(s) ELSE n) |-> ToUpper(s[i])]
        base == SelectInSeq(name \o <<Dot>>, LAMBDA c : c = Dot) - 1
        rest == SubSeq(name, base + 2, Len(name))
        ext == SelectInSeq(rest \o <<Dot>>, LAMBDA c : c = Dot) - 1
    IN Field(upto(SubSeq(name, 1, base), BaseLen), upto(SubSeq(rest, 1, ext), ExtLen))

NamesInit == \E n \in SeedNames : typed = n /\ raw = BuilderShortName(n)
\* Another name is typed, key by key; every prefix is a name too.
Resolve(n) == typed' = n /\ raw' = MakeShortName(n)
NamesNext ==
    \/ Resolve(<<>>)
    \/ \E c \in Chars : Len(typed) < MaxTyped /\ Resolve(Append(typed, c))
NamesSpec == NamesInit /\ [][NamesNext]_names

-----------------------------------------------------------------------------
\* A name is taken if and only if it is an 8.3 name of good characters, however
\* long the text is that was typed (fat12_make_short_name cuts it at 31
\* characters before it looks at it).
TakesExactly83 == (raw # Invalid) <=> Is83(typed)

\* What ls shows of an entry, typed again, leads to that entry and to no other,
\* for the names the shell makes and those the image builder wrote.
ShownNameResolves == raw # Invalid => MakeShortName(DirNameToString(raw)) = raw

\* Two names lead to the same entry only if they differ in case, or in a dot
\* at the end.
Canonical(n) ==
    LET u == [i \in DOMAIN n |-> ToUpper(n[i])]
    IN IF u # <<>> /\ Last(u) = Dot THEN Front(u) ELSE u
SameOnlyByCase == raw # Invalid => Canonical(typed) = DirNameToString(raw)
=============================================================================
