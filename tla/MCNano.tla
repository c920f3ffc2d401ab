------------------------------- MODULE MCNano ------------------------------
(***************************************************************************)
(* Instances of Nano for TLC.                                               *)
(***************************************************************************)
EXTENDS Nano

\* The keys all write an "a"; the other character comes from the files.
TwoChars == {"a", "b"}
OneLetter == [k \in {"s", "x", "t", "h", "y", "n"} |-> "a"]

\* No file, one with a CR LF line end and no last one, one with a line too
\* long and a line too many, and one longer than the I/O buffer.
MCTexts ==
    {<<>>, <<"a", CR, NL, "b">>, <<"a", "a", "a", NL, NL, NL, "a">>, [i \in 1 .. 10 |-> NL]}

\* After a save of a longer text only the state itself is looked at.
SmallFile == Len(file) <= 6 \/ file \in Texts
=============================================================================
