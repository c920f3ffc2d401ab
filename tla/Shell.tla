------------------------------- MODULE Shell -------------------------------
(***************************************************************************)
(* The shell: the prompt (shell/prompt.c), the commands (shell/commands.c)  *)
(* as far as they show on the screen or change what the shell keeps, the    *)
(* way into the editor and out of it (shell/nano.c), and the loop of        *)
(* kernel_main that joins them.  What the commands do to files is in Fat12  *)
(* and Fat12Path, what the keys do in the editor in Nano.                   *)
(*                                                                         *)
(* pc = "prompt" is the top of the outer loop of kernel_main, pc = "wait"   *)
(* its inner loop, in which every key is handled to its end.                *)
(***************************************************************************)
EXTENDS Machine, Console, Storage

CONSTANTS
    BufferSize,     \* PROMPT_BUFFER_SIZE
    MaxListed,      \* bound on the entries of a directory
    Contents        \* what the files hold, as tokens

ASSUME ShellAssumption ==
    /\ BufferSize \in Nat \ {0} /\ MaxListed \in Nat
    /\ Contents \subseteq Seq({"text", "row", "\n", "\r", "\t"})

VARIABLES
    con,        \* global_console_state and the screen
    log,        \* bootlog_data
    fat_ready,
    typed,      \* input_pos
    prompt,     \* prompt_line_start_x, prompt_line_y
    editor,     \* nano_state.editor_active
    help_overlay_visible,
    left        \* history: the editor was left and no prompt drawn since

inputVars == <<typed, prompt, editor, help_overlay_visible, left>>
shellVars == <<con, log, fat_ready, inputVars>>

Logs == [magic : BOOLEAN, method : 0..255, memory : BOOLEAN, more : 0..5]
Number(b) == IF b THEN 1 ELSE 0

ShellInit ==
    /\ con = [rows |-> [y \in 0..Height - 1 |-> Text({})], x |-> 0, y |-> 0, theme |-> 0]
    /\ fat_ready = FALSE
    /\ typed = 0 /\ prompt = [x |-> 0, y |-> 0] /\ left = FALSE
    /\ editor = FALSE /\ help_overlay_visible = FALSE

-----------------------------------------------------------------------------
\* The input and the marker, from the start of the prompt to the right edge.
RenderPromptLine(c, p, n) ==
    LET attrs == {c.theme} \cup (IF p.x = 0 THEN {} ELSE c.rows[p.y].attrs)
    IN [c EXCEPT !.rows[p.y] = [shows |-> "prompt", at |-> p.x,
                                n |-> Min({n, Width - p.x}), attrs |-> attrs],
                 !.x = p.x + n, !.y = p.y]

PromptReset == prompt' = [x |-> con.x, y |-> con.y] /\ typed' = 0

\* The outer loop of kernel_main: also when the command was nano.
MainLoop ==
    /\ pc = "prompt"
    /\ PromptReset
    /\ con' = RenderPromptLine(con, prompt', 0)
    /\ pc' = "wait" /\ left' = FALSE
    /\ UNCHANGED <<log, fat_ready, editor, help_overlay_visible>>

AtPrompt == pc = "wait" /\ ~editor

Edited(n) ==
    /\ typed' = n
    /\ con' = RenderPromptLine(con, prompt, n)
    /\ left' = FALSE
    /\ UNCHANGED <<pc, log, fat_ready, prompt, editor, help_overlay_visible>>

TypeChar == AtPrompt /\ typed < BufferSize - 1 /\ Edited(typed + 1)
Backspace == AtPrompt /\ typed > 0 /\ Edited(typed - 1)

-----------------------------------------------------------------------------
\* What the commands print.  A command that needs the file system says in one
\* line that it is not there.
NeedsFs(replies) == IF fat_ready THEN replies ELSE {Line}

Echo == {<<"\n">>, <<"row", "\n">>} \cup AnyLine
Fetch == {Lines(6 + Number(log.memory))}
Help == {Lines(21)}
Disk == {Lines(2), Lines(3), Lines(9)}
Ls == NeedsFs({Lines(n) : n \in 1..1 + MaxListed})
PwdOrCd == NeedsFs(AnyLine)

\* Faulty: the end of the line is printed for an empty file only.
CatIfEmpty(text) == IF text = <<>> THEN <<"\n">> ELSE text
\* The file, and the end of its last line when it does not have one.
CatText(text) ==
    IF text = <<>> \/ Last(text) # "\n" THEN Append(text, "\n") ELSE text
Cat == NeedsFs({Line} \cup {CatText(text) : text \in Contents})

\* touch, write, mkdir, rm: usage, failure, and nano without a file name.
FileCommand == NeedsFs(AnyLine)
FsStat == {Lines(6), Lines(7)}
ThemeText == {Lines(2), Lines(1 + ThemeCount)}
BootlogPrint == {Lines(5 + Number(log.memory) + log.more)}
StorageList == {Lines(1 + Max({1, Len(devices)}))}

Replies ==
    Echo \cup Fetch \cup Help \cup Disk \cup Ls \cup PwdOrCd \cup Cat \cup FileCommand
        \cup FsStat \cup ThemeText \cup BootlogPrint \cup StorageList \cup AnyLine

\* Faulty: the screen keeps the colours it was printed in.
ThemeOnly(c, theme) == ConsolePrint(SetTheme(c, theme), Lines(2))
\* theme NAME clears the screen, in the new colours, after its first message.
HandleTheme(c, theme) ==
    ConsolePrint(VgaClear(ConsolePrint(SetTheme(c, theme), Line)), Line \o <<"\n">>)

\* The screen once the end of the line is printed.
Entered ==
    NewLine([con EXCEPT !.rows[prompt.y] = Text(@.attrs)])

Done(c) == con' = c /\ pc' = "prompt" /\ UNCHANGED <<editor, help_overlay_visible>>

EmptyCommand == typed = 0 /\ Done(Entered)
ReplyCommand == typed > 0 /\ \E reply \in Replies : Done(ConsolePrint(Entered, reply))
ClearCommand == typed > 0 /\ Done(VgaClear(Entered))
ThemeCommand == typed > 0 /\ \E theme \in Themes : Done(HandleTheme(Entered, theme))

NanoCommand ==
    /\ typed > 0 /\ fat_ready
    /\ con' = Redrawn(VgaClear(Entered))
    /\ editor' = TRUE /\ help_overlay_visible' = FALSE /\ pc' = "prompt"

ShutdownCommand ==
    /\ typed > 0
    /\ con' = ConsolePrint(Entered, Lines(2))
    /\ pc' = "halted" /\ UNCHANGED <<editor, help_overlay_visible>>

\* prompt_handle_scancode at '\n', execute_command.
Enter ==
    /\ AtPrompt
    /\ \/ EmptyCommand \/ ReplyCommand \/ ClearCommand
       \/ ThemeCommand \/ NanoCommand \/ ShutdownCommand
    /\ typed' = 0
    /\ UNCHANGED <<log, fat_ready, prompt, left>>

-----------------------------------------------------------------------------
InEditor == pc = "wait" /\ editor

\* Any key that draws the editor again; Ctrl+T in the colours of the next theme.
EditorKey ==
    /\ InEditor /\ ~help_overlay_visible
    /\ \E theme \in {con.theme, (con.theme + 1) % ThemeCount} :
          con' = Redrawn(SetTheme(con, theme))
    /\ UNCHANGED <<pc, log, fat_ready, inputVars>>

\* Ctrl+H.
ShowHelp ==
    /\ InEditor /\ ~help_overlay_visible
    /\ con' = HelpOverlay(con)
    /\ help_overlay_visible' = TRUE
    /\ UNCHANGED <<pc, log, fat_ready, typed, prompt, editor, left>>

\* The next key, whichever it is, does nothing else.
CloseHelp ==
    /\ InEditor /\ help_overlay_visible
    /\ con' = Redrawn(con)
    /\ help_overlay_visible' = FALSE
    /\ UNCHANGED <<pc, log, fat_ready, typed, prompt, editor, left>>

\* The main loop is not told: no prompt is drawn.
ExitEditor ==
    /\ InEditor /\ ~help_overlay_visible
    /\ \E outcome \in {<<>>} \cup AnyLine, cwd \in AnyLine :
          con' = ConsolePrint(VgaClear(con), Line \o <<"\n">> \o outcome \o
                                             (IF fat_ready THEN cwd ELSE <<>>))
    /\ editor' = FALSE /\ help_overlay_visible' = FALSE /\ left' = TRUE
    /\ UNCHANGED <<pc, log, fat_ready, typed, prompt>>

ShellNext ==
    MainLoop \/ TypeChar \/ Backspace \/ Enter \/ EditorKey \/ ShowHelp \/ CloseHelp \/ ExitEditor

-----------------------------------------------------------------------------
\* However long the replies were and wherever the screen was cleared in the
\* middle of one, everything on it is in the colours of the current theme, but
\* for the rows of the editor's help while that is up: no command and no way
\* through the editor leaves a row of an earlier theme, or of the help
\* (commands.c:605, nano.c:200-208, nano.c:491, vga_console.c:47).
OneTheme ==
    \A y \in DOMAIN con.rows :
        con.rows[y].attrs \subseteq
            {con.theme} \cup (IF help_overlay_visible /\ y \in HelpRows THEN {HelpAttr} ELSE {})

PromptIsDrawn ==
    /\ con.rows[prompt.y] = [shows |-> "prompt", at |-> 0,
                             n |-> Min({typed, Width}), attrs |-> {con.theme}]
    /\ con.x = typed /\ con.y = prompt.y

\* Whatever was printed before, the input is shown from the left edge of a row
\* of its own, all of it that fits, with the cursor after it (README.md:638,
\* prompt.c:21-50); the editor's way out, until a key is pressed, aside.
TypedShown == AtPrompt /\ ~left => PromptIsDrawn

\* The same without the exception: the prompt line is there whenever the shell
\* waits (README.md:638: the prompt line displays input as [typed_characters]>).
PromptShown == AtPrompt => PromptIsDrawn
=============================================================================
