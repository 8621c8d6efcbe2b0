----------------------------- MODULE LineEditor ------------------------------
(* The line editor of the built-in shell: shell_main's handling of a key,    *)
(* with the escape sequences, and tab completion (kernel/src/shell.rs).  The  *)
(* shell task alone touches this state, so a key is one step.                *)
(*                                                                           *)
(* Printable keys are "a" and " "; the letters of escape sequences, typed    *)
(* outside of one, are printable too and count as "a".  Completion brings in *)
(* other letters and "/".                                                    *)
EXTENDS Integers, Sequences, SequencesExt, FiniteSets

CONSTANTS
    LineCap,     \* bytes of input_buf (128)
    Commands,    \* COMMANDS, as sequences of letters
    HereNames,   \* the listing of the current directory: name, and whether a directory;
                 \* a mount point with a directory of its name is listed twice
    BelowNames   \* the listing of a directory named in the argument

ASSUME LineCapAssumption == LineCap \in Nat \ {0}

VARIABLES
    input_buf, cursor_pos, cursor_end, esc_state,
    last_cmd,   \* ShellState::last_cmd
    line,       \* history: the line as an ideal editor has it
    ran,        \* history: the last command line that was run
    panicked    \* an index was out of bounds; the panic handler never returns

editVars == <<input_buf, cursor_pos, cursor_end, esc_state, last_cmd, line, ran, panicked>>

Place == 1..LineCap

Text == [i \in 1..cursor_end |-> input_buf[i]]

EditorInit ==
    /\ input_buf = [i \in Place |-> "NUL"]
    /\ cursor_pos = 0 /\ cursor_end = 0
    /\ esc_state = "Normal"
    /\ last_cmd = <<>> /\ line = <<>> /\ ran = <<>>
    /\ panicked = FALSE

\* the buffer with a text stored from its beginning
Stored(b, from, text) ==
    [i \in Place |-> IF i - from \in DOMAIN text THEN text[i - from] ELSE b[i]]

-----------------------------------------------------------------------------
(* Escape sequences.                                                         *)

Escape(k) ==
    /\ esc_state = "Normal" /\ k = "ESC"
    /\ esc_state' = "SawEsc"
    /\ UNCHANGED <<input_buf, cursor_pos, cursor_end, last_cmd, line, ran, panicked>>

SawEsc(k) ==
    /\ esc_state = "SawEsc"
    /\ esc_state' = IF k = "[" THEN "SawBracket" ELSE "Normal"
    /\ UNCHANGED <<input_buf, cursor_pos, cursor_end, last_cmd, line, ran, panicked>>

MoveTo(pos) ==
    /\ cursor_pos' = pos
    /\ UNCHANGED <<input_buf, cursor_end, last_cmd, line, ran, panicked>>

\* up: the last command, unless it filled the buffer
Up ==
    /\ last_cmd # <<>> /\ Len(last_cmd) < LineCap
    /\ input_buf' = Stored(input_buf, 0, last_cmd)
    /\ cursor_pos' = Len(last_cmd) /\ cursor_end' = Len(last_cmd)
    /\ line' = ran
    /\ UNCHANGED <<last_cmd, ran, panicked>>

Bracket(k) ==
    \/ k = "A" /\ Up
    \/ k = "A" /\ (last_cmd = <<>> \/ Len(last_cmd) >= LineCap) /\ MoveTo(cursor_pos)
    \/ k = "C" /\ MoveTo(IF cursor_pos < cursor_end THEN cursor_pos + 1 ELSE cursor_pos)
    \/ k = "D" /\ MoveTo(IF cursor_pos > 0 THEN cursor_pos - 1 ELSE cursor_pos)
    \/ k = "H" /\ MoveTo(0)
    \/ k = "F" /\ MoveTo(cursor_end)
    \/ k \notin {"A", "C", "D", "H", "F"} /\ MoveTo(cursor_pos)

SawBracket(k) ==
    /\ esc_state = "SawBracket"
    /\ esc_state' = IF k = "3" THEN "Saw3" ELSE "Normal"
    /\ Bracket(k)

ShiftLeftShort(b, from) ==
    [i \in Place |-> IF i >= from /\ i < cursor_end - 1 THEN b[i + 1] ELSE b[i]]

\* the buffer with the character at place `from` taken out
ShiftLeft(b, from) ==
    [i \in Place |-> IF i >= from /\ i < cursor_end THEN b[i + 1] ELSE b[i]]

\* the delete key removes the character at the cursor
Saw3(k) ==
    /\ esc_state = "Saw3" /\ esc_state' = "Normal"
    /\ IF k = "~" /\ cursor_pos < cursor_end
       THEN /\ input_buf' = ShiftLeft(input_buf, cursor_pos + 1)
            /\ cursor_end' = cursor_end - 1
            /\ line' = RemoveAt(line, cursor_pos + 1)
       ELSE UNCHANGED <<input_buf, cursor_end, line>>
    /\ UNCHANGED <<cursor_pos, last_cmd, ran, panicked>>

-----------------------------------------------------------------------------
(* Keys.                                                                     *)

\* Enter terminates the text in the buffer, which a full line has no room for
Enter(k) ==
    /\ esc_state = "Normal" /\ k = "CR"
    /\ panicked' = (cursor_end = LineCap)
    /\ IF cursor_end > 0 /\ cursor_end < LineCap
       THEN /\ last_cmd' = Text /\ ran' = line
            /\ input_buf' = [input_buf EXCEPT ![cursor_end + 1] = "NUL"]
       ELSE UNCHANGED <<last_cmd, ran, input_buf>>
    /\ IF cursor_end = LineCap THEN UNCHANGED <<cursor_pos, cursor_end, line>>
       ELSE cursor_pos' = 0 /\ cursor_end' = 0 /\ line' = <<>>
    /\ UNCHANGED esc_state

Backspace(k) ==
    /\ esc_state = "Normal" /\ k = "BS"
    /\ IF cursor_pos > 0
       THEN /\ input_buf' = ShiftLeft(input_buf, cursor_pos)
            /\ cursor_pos' = cursor_pos - 1 /\ cursor_end' = cursor_end - 1
            /\ line' = RemoveAt(line, cursor_pos)
       ELSE UNCHANGED <<input_buf, cursor_pos, cursor_end, line>>
    /\ UNCHANGED <<esc_state, last_cmd, ran, panicked>>

Printable(k) == k \notin {"ESC", "CR", "BS", "TAB"}

Room == cursor_end < LineCap

\* the shift writes one place past the text
ShiftRight(b, ch) ==
    [i \in Place |-> IF i = cursor_pos + 1 THEN ch
                     ELSE IF i > cursor_pos + 1 /\ i <= cursor_end + 1 THEN b[i - 1] ELSE b[i]]

Insert(k) ==
    /\ esc_state = "Normal" /\ Printable(k)
    /\ IF Room
       THEN LET ch == IF k = " " THEN " " ELSE "a" IN
            /\ input_buf' = ShiftRight(input_buf, ch)
            /\ cursor_pos' = cursor_pos + 1 /\ cursor_end' = cursor_end + 1
            /\ line' = InsertAt(line, cursor_pos + 1, ch)
            /\ panicked' = (cursor_end >= LineCap)
       ELSE UNCHANGED <<input_buf, cursor_pos, cursor_end, line, panicked>>
    /\ UNCHANGED <<esc_state, last_cmd, ran>>

-----------------------------------------------------------------------------
(* Completion.  With exactly one candidate the text is replaced; otherwise   *)
(* candidates are at most printed.                                           *)

Candidates(names, prefix) == SelectSeq(names, LAMBDA e : IsPrefix(prefix, e.name))

Replace(from, text) ==
    LET kept == IF from + Len(text) > LineCap THEN SubSeq(text, 1, LineCap - from) ELSE text IN
    /\ input_buf' = Stored(input_buf, from, kept)
    /\ cursor_pos' = from + Len(kept) /\ cursor_end' = from + Len(kept)
    /\ line' = SubSeq(line, 1, from) \o kept

\* the whole line is the prefix, wherever the cursor is
complete_command ==
    LET hits == {c \in Commands : IsPrefix(Text, c)} IN
    IF Cardinality(hits) = 1 THEN \E c \in hits : Replace(0, c)
    ELSE UNCHANGED <<input_buf, cursor_pos, cursor_end, line>>

\* the argument up to the cursor, split at its last slash; what follows the
\* cursor is dropped when the name is put in
complete_filename(start) ==
    LET slashes == {i \in (start + 1)..cursor_pos : input_buf[i] = "/"}
        from == IF slashes = {} THEN start ELSE Max(slashes)
        hits == Candidates(IF slashes = {} THEN HereNames ELSE BelowNames,
                           [i \in 1..(cursor_pos - from) |-> input_buf[from + i]]) IN
    IF Len(hits) = 1 /\ from < LineCap
    THEN Replace(from, IF hits[1].dir THEN Append(hits[1].name, "/") ELSE hits[1].name)
    ELSE UNCHANGED <<input_buf, cursor_pos, cursor_end, line>>

handle_tab_completion(k) ==
    LET blanks == {i \in 1..cursor_pos : input_buf[i] = " "} IN
    /\ esc_state = "Normal" /\ k = "TAB"
    /\ IF cursor_end = 0 THEN UNCHANGED <<input_buf, cursor_pos, cursor_end, line>>
       ELSE IF blanks # {} THEN complete_filename(Max(blanks))
       ELSE complete_command
    /\ UNCHANGED <<esc_state, last_cmd, ran, panicked>>

Keys == {"a", " ", "ESC", "[", "A", "C", "D", "H", "F", "3", "~", "CR", "BS", "TAB"}

shell_main ==
    /\ ~panicked
    /\ \E k \in Keys : \/ Escape(k) \/ SawEsc(k) \/ SawBracket(k) \/ Saw3(k)
                       \/ Enter(k) \/ Backspace(k) \/ Insert(k) \/ handle_tab_completion(k)

EditorSpec == EditorInit /\ [][shell_main]_editVars

-----------------------------------------------------------------------------
(* Properties.                                                               *)

\* After any keys the first cursor_end bytes of the buffer are the line an
\* ideal editor has, which inserts and removes characters of a sequence: the
\* shifting loops of insert, backspace and delete lose, keep or double nothing,
\* the recalled line is the one that was run, and what Enter runs is the line.
BufferIsLine == ~panicked => Text = line /\ last_cmd = ran

=============================================================================
