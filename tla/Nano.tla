------------------------------- MODULE Nano --------------------------------
(***************************************************************************)
(* The text editor, shell/nano.c, and the keyboard driver that feeds it,    *)
(* drivers/input/keyboard.c.  A step is one byte of the keyboard controller *)
(* (handle_keyboard_input), or a command line that starts the editor.       *)
(*                                                                          *)
(* Kept: the line buffer and its limits, the cursor and the viewport, the   *)
(* dirty flag, the save prompt and the help overlay, the E0 prefix and the  *)
(* Ctrl key, how a file becomes lines and lines a file, the calls that may  *)
(* fail.  Left out: the status line's wording, colours and themes.  The     *)
(* FAT12 layer is FileStore: a write that fails leaves the file as it was.  *)
(* total_lines is Len(lines); rows and columns count from 0, as in the      *)
(* code.                                                                    *)
(***************************************************************************)
EXTENDS Integers, FiniteSetsExt, SequencesExt

CONSTANTS
    Chars,          \* printable characters, Space among them
    Space,
    Ascii,          \* scancode_to_ascii: the character of each letter key
    MaxLines,       \* NANO_MAX_LINES
    MaxLineLength,  \* NANO_MAX_LINE_LENGTH
    ViewportHeight, \* NANO_VIEWPORT_HEIGHT
    BufferSize,     \* FS_IO_BUFFER_SIZE
    Texts,          \* what the file may hold when the machine starts
    FsMayFail       \* the calls of the FAT12 layer that may fail

NL == "nl"
CR == "cr"
MaxChars == MaxLineLength - 1       \* the last byte of a line is its NUL

\* Keys with a letter on them, keys the editor acts upon whether or not an E0
\* precedes them, and keys it acts upon only when none does.
Letters == DOMAIN Ascii
Pad == {"delete", "up", "down", "left", "right", "home", "end", "pgup", "pgdn"}
Plain == Letters \cup {"esc", "backspace", "enter", "tab"}

ASSUME NanoAssumption ==
    /\ MaxLines \in Nat \ {0}
    /\ MaxLineLength \in Nat \ {0, 1}
    /\ ViewportHeight \in Nat \ {0, 1}
    /\ BufferSize \in Nat \ {0, 1, 2}
    /\ Space \in Chars
    /\ {NL, CR} \cap Chars = {}
    /\ {"s", "x", "h", "y", "n"} \subseteq Letters
    /\ \A k \in Letters : Ascii[k] \in Chars
    /\ FsMayFail \subseteq {"read", "write"}

VARIABLES
    ctrl_pressed, extended_pending,                 \* keyboard.c
    editor_active, lines, cursor_x, cursor_y, viewport_y,
    dirty, asking,                                  \* prompt_state
    help,                                           \* help_overlay_visible
    file,                                           \* what the disk holds
    unread      \* the file could not be read: the buffer is not its text

keyboard == <<ctrl_pressed, extended_pending>>
modes == <<editor_active, asking, help>>
view == <<cursor_x, cursor_y, viewport_y>>
vars == <<keyboard, modes, view, lines, dirty, file, unread>>

-----------------------------------------------------------------------------
(* How a file becomes lines and lines a file.                               *)

\* nano_init_editor takes one byte: past the last line nothing more is taken,
\* a CR is dropped, and so is what does not fit in a line.
LoadByte(done, c) ==
    IF Len(done.lines) = MaxLines THEN done
    ELSE IF c = NL THEN [lines |-> Append(done.lines, done.line), line |-> <<>>]
    ELSE IF c # CR /\ Len(done.line) < MaxChars
         THEN [done EXCEPT !.line = Append(@, c)]
         ELSE done
\* A last line without its NL is a line too.
Loaded(text) ==
    LET done == FoldLeft(LoadByte, [lines |-> <<>>, line |-> <<>>], text)
    IN IF done.line # <<>> /\ Len(done.lines) < MaxLines
       THEN Append(done.lines, done.line)
       ELSE done.lines
\* An empty file, and one that does not exist, open as one empty line.
Opened(text) == IF text = <<>> THEN << <<>> >> ELSE Loaded(text)

\* Of a file of CRs alone the code makes no line at all: the image builder
\* and the shell never write one.
ASSUME TextsAssumption ==
    \A t \in Texts : t \in Seq(Chars \cup {NL, CR}) /\ Opened(t) # <<>>

\* nano_save_file adds one line to the I/O buffer.
SaveLine(buf, line) ==
    LET room == Max({0, BufferSize - 2 - Len(buf)})
        filled == buf \o SubSeq(line, 1, Min({Len(line), room}))
    IN IF Len(buf) >= BufferSize - 1 THEN buf
       ELSE IF Len(filled) < BufferSize - 1 THEN Append(filled, NL)
       ELSE filled
Saved(ls) == FoldLeft(SaveLine, <<>>, ls)

-----------------------------------------------------------------------------
TotalLines == Len(lines)
Line == lines[cursor_y + 1]
LineAt(row) == lines[row + 1]
Clamp(n, lo, hi) == Max({lo, Min({n, hi})})

\* Faulty: scrolls down one row late.
ScrolledLate(y) ==
    Max({0, Min({IF y > viewport_y + ViewportHeight THEN y - ViewportHeight + 1
                 ELSE Min({y, viewport_y}), TotalLines - ViewportHeight})})
\* nano_scroll_to_cursor: the viewport that shows row y.
Scrolled(y) ==
    LET near == IF y < viewport_y THEN y
                ELSE IF y >= viewport_y + ViewportHeight THEN y - ViewportHeight + 1
                ELSE viewport_y
    IN Max({0, Min({near, TotalLines - ViewportHeight})})

Init ==
    /\ ctrl_pressed = FALSE /\ extended_pending = FALSE
    /\ editor_active = FALSE /\ asking = FALSE /\ help = FALSE
    /\ lines = <<>> /\ dirty = FALSE /\ unread = FALSE
    /\ cursor_x = 0 /\ cursor_y = 0 /\ viewport_y = 0
    /\ file \in Texts

-----------------------------------------------------------------------------
(* The files.                                                               *)

\* handle_nano_command, nano_init_editor: a file that cannot be read, or is
\* longer than the I/O buffer, opens as one empty line.
OpenEditor ==
    /\ editor_active' = TRUE /\ asking' = FALSE /\ help' = FALSE
    /\ cursor_x' = 0 /\ cursor_y' = 0 /\ viewport_y' = 0
    /\ dirty' = FALSE
    /\ \/ /\ Len(file) <= BufferSize - 1
          /\ lines' = Opened(file) /\ unread' = FALSE
       \/ /\ Len(file) > BufferSize - 1 \/ "read" \in FsMayFail
          /\ lines' = << <<>> >> /\ unread' = TRUE
    /\ UNCHANGED file

\* nano_save_file: nothing is written when nothing is dirty.
SaveWorks ==
    /\ dirty' = FALSE
    /\ IF dirty THEN file' = Saved(lines) /\ unread' = FALSE
                ELSE UNCHANGED <<file, unread>>
SaveFails ==
    /\ dirty /\ "write" \in FsMayFail
    /\ UNCHANGED <<dirty, file, unread>>

\* nano_exit_editor once nothing is left to save.
Exit ==
    /\ editor_active' = FALSE /\ asking' = FALSE /\ help' = FALSE
    /\ UNCHANGED <<view, lines>>
Discard == Exit /\ dirty' = FALSE /\ UNCHANGED <<file, unread>>

CtrlS == (SaveWorks \/ SaveFails) /\ UNCHANGED <<modes, view, lines>>
CtrlX ==
    \/ dirty /\ asking' = TRUE /\ UNCHANGED <<editor_active, help, view, lines, dirty, file, unread>>
    \/ ~dirty /\ Exit /\ UNCHANGED <<dirty, file, unread>>
CtrlH == help' = TRUE /\ UNCHANGED <<editor_active, asking, view, lines, dirty, file, unread>>

\* Faulty: the editor is left whether or not the save works.
AnswerYesAnyway == (SaveWorks \/ SaveFails) /\ Exit
\* A Y at the save prompt.
AnswerYes ==
    \/ SaveWorks /\ Exit
    \/ SaveFails /\ asking' = FALSE /\ UNCHANGED <<editor_active, help, view, lines>>

-----------------------------------------------------------------------------
(* The text.                                                                *)

Edit(ls, x, y) == lines' = ls /\ cursor_x' = x /\ cursor_y' = y
Still == lines' = lines /\ cursor_x' = cursor_x /\ cursor_y' = cursor_y

\* nano_insert_char for each character of s (a tab is four spaces): what does
\* not fit in the line falls off its end.
Insert(s) ==
    /\ Edit([lines EXCEPT ![cursor_y + 1] =
                LET l == SubSeq(@, 1, cursor_x) \o s \o SubSeq(@, cursor_x + 1, Len(@))
                IN SubSeq(l, 1, Min({Len(l), MaxChars}))],
            Min({cursor_x + Len(s), MaxChars}), cursor_y)
    /\ dirty' = TRUE

\* Faulty: the rows below stay where they are.
JoinedOnly(y) ==
    [i \in 1 .. TotalLines - 1 |-> IF i = y + 1 THEN lines[i] \o lines[i + 1] ELSE lines[i]]
\* Row y + 1 is appended to row y and the rows below move up.
Joined(y) ==
    [i \in 1 .. TotalLines - 1 |->
        IF i <= y THEN lines[i]
        ELSE IF i = y + 1 THEN lines[i] \o lines[i + 1] ELSE lines[i + 1]]
Fits(y) == Len(LineAt(y)) + Len(LineAt(y + 1)) < MaxLineLength

\* nano_handle_backspace: dirty even where there is nothing to take out.
Backspace ==
    /\ \/ /\ cursor_x > 0
          /\ Edit([lines EXCEPT ![cursor_y + 1] = RemoveAt(@, cursor_x)], cursor_x - 1, cursor_y)
       \/ /\ cursor_x = 0 /\ cursor_y > 0
          /\ IF Fits(cursor_y - 1)
             THEN Edit(Joined(cursor_y - 1), Len(LineAt(cursor_y - 1)), cursor_y - 1)
             ELSE Still
       \/ cursor_x = 0 /\ cursor_y = 0 /\ Still
    /\ dirty' = TRUE

LastLine == cursor_y = TotalLines - 1
\* Faulty: dirty is not set.
DeleteLineEndQuietly ==
    ~LastLine /\ Fits(cursor_y) /\ Edit(Joined(cursor_y), cursor_x, cursor_y) /\ UNCHANGED dirty
\* nano_handle_delete at the end of a line takes out its line end.
DeleteLineEnd ==
    ~LastLine /\ Fits(cursor_y) /\ Edit(Joined(cursor_y), cursor_x, cursor_y) /\ dirty' = TRUE
Delete ==
    \/ /\ cursor_x < Len(Line)
       /\ Edit([lines EXCEPT ![cursor_y + 1] = RemoveAt(@, cursor_x + 1)], cursor_x, cursor_y)
       /\ dirty' = TRUE
    \/ cursor_x >= Len(Line) /\ DeleteLineEnd
    \/ /\ cursor_x >= Len(Line)
       /\ ~LastLine => ~Fits(cursor_y)
       /\ Still /\ UNCHANGED dirty

\* nano_handle_enter cuts the line in two.
Halves == << SubSeq(Line, 1, cursor_x), SubSeq(Line, cursor_x + 1, Len(Line)) >>
Enter ==
    \/ /\ TotalLines < MaxLines
       /\ Edit(SubSeq(lines, 1, cursor_y) \o Halves \o SubSeq(lines, cursor_y + 2, TotalLines),
               0, cursor_y + 1)
       /\ dirty' = TRUE
    \/ TotalLines >= MaxLines /\ Still /\ UNCHANGED dirty

-----------------------------------------------------------------------------
(* The cursor.                                                              *)

MoveTo(x, y) ==
    /\ cursor_x' = Clamp(x, 0, Len(LineAt(y))) /\ cursor_y' = y
    /\ viewport_y' = Scrolled(y)

MoveCursor(dx, dy) == MoveTo(cursor_x + dx, Clamp(cursor_y + dy, 0, TotalLines - 1))

\* Faulty: the column is not brought back into the line.
PageScrollKeepsColumn(direction) ==
    LET y == Clamp(cursor_y + direction * (ViewportHeight - 1), 0, TotalLines - 1)
    IN cursor_x' = cursor_x /\ cursor_y' = y /\ viewport_y' = Scrolled(y)
\* nano_page_scroll: a page less one line, the column kept where it can be.
PageScroll(direction) ==
    MoveTo(cursor_x, Clamp(cursor_y + direction * (ViewportHeight - 1), 0, TotalLines - 1))

LineStart == cursor_x' = 0 /\ UNCHANGED <<cursor_y, viewport_y>>
LineEnd == cursor_x' = Len(Line) /\ UNCHANGED <<cursor_y, viewport_y>>

-----------------------------------------------------------------------------
(* nano_handle_scancode, for a key that is pressed.                         *)

Editing(k) ==
    /\ \/ k \in Letters /\ Insert(<<Ascii[k]>>)
       \/ k = "tab" /\ Insert([i \in 1 .. 4 |-> Space])
       \/ k = "backspace" /\ Backspace
       \/ k = "delete" /\ Delete
       \/ k = "enter" /\ Enter
    /\ UNCHANGED <<modes, viewport_y, file, unread>>

Moving(k) ==
    /\ \/ k = "up" /\ MoveCursor(0, -1)
       \/ k = "down" /\ MoveCursor(0, 1)
       \/ k = "left" /\ MoveCursor(-1, 0)
       \/ k = "right" /\ MoveCursor(1, 0)
       \/ k = "home" /\ LineStart
       \/ k = "end" /\ LineEnd
       \/ k = "pgup" /\ PageScroll(-1)
       \/ k = "pgdn" /\ PageScroll(1)
    /\ UNCHANGED <<modes, lines, dirty, file, unread>>

Nothing == UNCHANGED <<modes, view, lines, dirty, file, unread>>

HandleScancode(k) ==
    \/ /\ help
       /\ help' = FALSE /\ UNCHANGED <<editor_active, asking, view, lines, dirty, file, unread>>
    \/ /\ ~help /\ asking
       /\ \/ k = "y" /\ AnswerYes
          \/ k \in {"n", "esc"} /\ Discard
          \/ k \notin {"y", "n", "esc"} /\ Nothing
    \/ /\ ~help /\ ~asking
       /\ \/ ctrl_pressed /\ k = "s" /\ CtrlS
          \/ ctrl_pressed /\ k = "x" /\ CtrlX
          \/ ctrl_pressed /\ k = "h" /\ CtrlH
          \/ ctrl_pressed /\ k = "t" /\ Nothing
          \/ ~(ctrl_pressed /\ k \in {"s", "x", "h", "t"}) /\ Editing(k)
          \/ Moving(k)
          \/ k = "esc" /\ Discard
          \/ k \notin Plain \cup Pad /\ Nothing

-----------------------------------------------------------------------------
(* handle_keyboard_input.                                                   *)

Prefix == extended_pending' = TRUE /\ UNCHANGED <<ctrl_pressed, modes, view, lines, dirty, file, unread>>

CtrlKey(pressed) ==
    /\ ctrl_pressed' = pressed /\ extended_pending' = FALSE
    /\ UNCHANGED <<modes, view, lines, dirty, file, unread>>

\* scancode: what an E0 leaves of the key.
Scancode(k) == IF extended_pending /\ k \notin Pad THEN "none" ELSE k

\* A key other than Ctrl goes to the editor or, when it is not active, to the
\* prompt, where Enter may end a line that starts the editor.
Press(k) ==
    /\ extended_pending' = FALSE /\ UNCHANGED ctrl_pressed
    /\ \/ editor_active /\ HandleScancode(Scancode(k))
       \/ ~editor_active /\ Scancode(k) = "enter" /\ OpenEditor
       \/ ~editor_active /\ Nothing

\* The editor and the prompt ignore releases.
Release == extended_pending' = FALSE /\ UNCHANGED ctrl_pressed /\ Nothing

Next ==
    \/ Prefix
    \/ \E pressed \in BOOLEAN : CtrlKey(pressed)
    \/ \E k \in Plain \cup Pad : Press(k)
    \/ Release

Spec == Init /\ [][Next]_vars

-----------------------------------------------------------------------------
(* Properties.                                                              *)

\* The text as one sequence, and where in it the cursor is.
AddLine(text, l) == text \o l \o <<NL>>
TextOf(ls) == FoldLeft(AddLine, <<>>, ls)
Flat == TextOf(lines)
Offset == Len(TextOf(SubSeq(lines, 1, cursor_y))) + cursor_x

\* The buffer keeps its limits and, while the editor is active, the cursor is
\* on a line of the buffer and not past that line's end: every handler indexes
\* lines and line_lengths with it unchecked.
TypeOK ==
    /\ ctrl_pressed \in BOOLEAN /\ extended_pending \in BOOLEAN
    /\ editor_active \in BOOLEAN /\ asking \in BOOLEAN /\ help \in BOOLEAN
    /\ dirty \in BOOLEAN /\ unread \in BOOLEAN
    /\ file \in Seq(Chars \cup {NL, CR})
    /\ TotalLines <= MaxLines
    /\ \A i \in DOMAIN lines : lines[i] \in Seq(Chars) /\ Len(lines[i]) <= MaxChars
    /\ viewport_y \in Nat
    /\ editor_active => cursor_y \in 0 .. TotalLines - 1 /\ cursor_x \in 0 .. Len(Line)

\* Without [MODIFIED] in the status line, the file holds what the editor
\* shows: leaving now and opening the file again shows the same lines
\* (NANO_IMPLEMENTATION.md:77: "Saving persists changes", of "up to 1000 lines
\* of 200 characters each", README.md:287).
CleanMeansSaved == editor_active /\ ~dirty /\ ~unread => Opened(file) = lines

\* The cursor is on the screen.  Enter and Backspace move it off: they do not
\* scroll (nano.c:385, nano.c:416).
CursorVisible ==
    editor_active => cursor_y \in viewport_y .. viewport_y + ViewportHeight - 1

\* The arrow keys and the page keys leave the cursor on the screen, wherever
\* earlier edits left it (README.md:286: "Full-screen editing with viewport
\* scrolling").
MovingShowsCursor ==
    [][viewport_y' # viewport_y \/ (cursor_y' # cursor_y /\ lines' = lines)
          => CursorVisible']_vars

\* A key changes the text in one place only, at the cursor: it puts in what
\* was typed, or takes out one character or line end.  Nothing else is lost,
\* however lines are split or joined.  Left out: a character typed into a full
\* line, which pushes the line's last one out (nano.c:345).
PutIn(n) ==
    /\ Len(Flat') = Len(Flat) + n
    /\ SubSeq(Flat', 1, Offset) = SubSeq(Flat, 1, Offset)
    /\ SubSeq(Flat', Offset + n + 1, Len(Flat')) = SubSeq(Flat, Offset + 1, Len(Flat))
    /\ Offset' = Offset + n
TakenOut(at) == Flat' = RemoveAt(Flat, at) /\ Offset' = at - 1
OneEdit ==
    [][/\ editor_active /\ editor_active' /\ lines' # lines
       /\ ~(TotalLines' = TotalLines /\ cursor_y' = cursor_y
              /\ Len(Line) + cursor_x' - cursor_x > MaxChars)
       => \/ \E n \in 1 .. 4 : PutIn(n)
          \/ TakenOut(Offset)
          \/ TakenOut(Offset + 1)]_vars

\* The editor is left with changes that are not in the file only by Escape or
\* by an N at the save prompt; a save that fails never ends it.
LossOnlyIfAsked ==
    [][editor_active /\ ~editor_active' /\ dirty =>
          \/ Opened(file') = lines
          \/ \E k \in {"esc", "n"} : Press(k)]_vars
=============================================================================
