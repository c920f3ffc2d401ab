------------------------------ MODULE Console ------------------------------
(***************************************************************************)
(* The screen (drivers/console/vga_console.c): operators on a console, a    *)
(* record of the rows, the cursor and the theme.                            *)
(*                                                                         *)
(* Of a row the model keeps the colours in it and, for the line the shell   *)
(* draws itself, where the prompt starts and how much of the input shows.   *)
(* What is printed is a sequence of tokens: "text" stays inside the row,    *)
(* "row" reaches its right edge, "\n", "\r" and "\t" are themselves.        *)
(***************************************************************************)
EXTENDS Integers, Sequences, SequencesExt

CONSTANTS
    Width,      \* VGA_WIDTH
    Height,     \* VGA_HEIGHT
    ThemeCount, \* THEME_COUNT
    HelpRows    \* the rows of the editor's help that have text

ASSUME ConsoleAssumption ==
    /\ Width \in Nat \ {0} /\ Height \in Nat \ {0} /\ ThemeCount \in Nat \ {0}
    /\ HelpRows \subseteq 0..Height - 1

Themes == 0..ThemeCount - 1
HelpAttr == ThemeCount  \* help_attr, the colours of no theme
Text(attrs) == [shows |-> "text", at |-> 0, n |-> 0, attrs |-> attrs]

\* Blank rows in the colours of the theme, and the cursor home.
VgaClear(c) ==
    [c EXCEPT !.rows = [y \in 0..Height - 1 |-> Text({c.theme})], !.x = 0, !.y = 0]

\* Faulty: the row below the last one is still taken for one of the screen.
NewLineLate(c) ==
    IF c.y >= Height THEN VgaClear(c) ELSE [c EXCEPT !.x = 0, !.y = @ + 1]
\* Below the last row the screen is cleared.
NewLine(c) ==
    IF c.y + 1 >= Height THEN VgaClear(c) ELSE [c EXCEPT !.x = 0, !.y = @ + 1]

\* A tab moves the cursor over what is there.
VgaWrite(c, token) ==
    LET after == IF token = "row" THEN Width ELSE c.x + (IF token = "\t" THEN 4 ELSE 1)
        row == IF token = "\t" THEN c.rows[c.y] ELSE Text(c.rows[c.y].attrs \cup {c.theme})
    IN IF token = "\n" THEN NewLine(c)
       ELSE IF token = "\r" THEN [c EXCEPT !.x = 0]
       ELSE IF after >= Width THEN NewLine([c EXCEPT !.rows[c.y] = row])
       ELSE [c EXCEPT !.rows[c.y] = row, !.x = after]

\* (The console in between is bound to a value, for TLC to compute it once.)
ConsolePrint(c, tokens) ==
    FoldLeft(LAMBDA k, token : CHOOSE after \in {VgaWrite(now, token) : now \in {k}} : TRUE,
             c, tokens)

SetTheme(c, theme) == [c EXCEPT !.theme = theme]

\* Every cell rewritten, the cursor of the console left alone: the editor.
Redrawn(c) == [c EXCEPT !.rows = [y \in 0..Height - 1 |-> Text({c.theme})]]

\* The editor's help, in a colour of its own, over parts of some rows.
HelpOverlay(c) ==
    [c EXCEPT !.rows = [y \in 0..Height - 1 |->
        IF y \in HelpRows THEN Text(c.rows[y].attrs \cup {HelpAttr}) ELSE c.rows[y]]]

-----------------------------------------------------------------------------
\* Messages: one line, n lines, and one longer than the screen is wide.
Line == <<"text", "\n">>
Lines(n) == [i \in 1..2 * n |-> IF i % 2 = 1 THEN "text" ELSE "\n"]
Wrapped == <<"row", "text", "\n">>
AnyLine == {Line, Wrapped}
=============================================================================
