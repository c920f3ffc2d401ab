------------------------------ MODULE MCFormats ------------------------------
(* The two encodings of the volume side by side, for TLC: the FAT's packed   *)
(* entries, the last of which straddles the FAT's end, and the 8.3 names,    *)
(* here of at most two and one characters.                                   *)
EXTENDS PackedFat, ShortNames

UpperOf == [a |-> "A"]
Seeds == {<<"a">>, <<"A", "a", ".", "a">>}

FormatsInit == Init /\ NamesInit
FormatsNext ==
    \/ Next /\ UNCHANGED names
    \/ NamesNext /\ UNCHANGED g_fat_primary
FormatsSpec == FormatsInit /\ [][FormatsNext]_<<g_fat_primary, names>>
=============================================================================
