------------------------------- MODULE Editor -------------------------------
(***************************************************************************)
(* foxe (src/foxe): the main loop reads a key and changes the text, the    *)
(* cursor and the counters of the status line; the arrow keys arrive as a  *)
(* signal that moves the cursor at any time.  The text is input_buffer up  *)
(* to current_size, "block" the bytes malloc or realloc gave it, "cursor"  *)
(* buffer_idx, "line" buffer_ln_idx and "lines" ln_cnt.  A key that types  *)
(* or erases a character is several steps, because a signal between them   *)
(* changes buffer_idx; "pc" is the next one and "held" its local variable. *)
(* A key of the edit mode is one step, and another one, not followed any   *)
(* further, if a signal comes while its loops walk with buffer_idx.        *)
(*                                                                         *)
(* A byte read outside the text is any character.  Every insertion writes  *)
(* the byte behind the block: this does no harm, or it is the end because  *)
(* that byte was in use ("clobbered").  A write to any other place outside *)
(* the block, freeing a block twice and a cursor that a signal took out of *)
(* the text are the end as well ("undefined").                             *)
(* "careful" is history: FALSE once the user did something the code does   *)
(* not get right; the actions say what that is.  is_edited and char_cnt    *)
(* are only shown and left out.                                            *)
(***************************************************************************)
EXTENDS Integers, Sequences, SequencesExt

CONSTANTS
    Chars,          \* characters, among them Newline
    Newline,
    Texts,          \* files to start with
    Word,           \* the range of the unsigned counters
    MaxKeys         \* bound: keys and signals
ASSUME EditorAssumption ==
    /\ Newline \in Chars
    /\ Texts \subseteq Seq(Chars)
    /\ Word \in Nat \ {0} /\ MaxKeys \in Nat

VARIABLES text, block, cursor, line, lines, insert, clip, file, status, pc, held, careful, keys
vars == <<text, block, cursor, line, lines, insert, clip, file, status, pc, held, careful, keys>>

NewlinesIn(s) == Quantify(DOMAIN s, LAMBDA i : s[i] = Newline)
Before(s, at) == SubSeq(s, 1, at)
NoClip == [set |-> FALSE, chars |-> <<>>, freed |-> FALSE]
Overwrite(old, new) == new \o SubSeq(old, Len(new) + 1, Len(old))

Init ==
    /\ text \in Texts
    /\ block = Len(text) /\ cursor = Len(text)
    /\ line = NewlinesIn(text) % Word /\ lines = (NewlinesIn(text) + 1) % Word
    /\ insert = TRUE /\ clip = NoClip
    /\ file = text /\ status = "running"
    /\ pc = "getchar" /\ held = Newline /\ careful = TRUE /\ keys = 0

counters == <<line, lines>>
Running == status = "running"
Key(mode) == Running /\ pc = "getchar" /\ insert = mode /\ keys < MaxKeys /\ keys' = keys + 1
Same(exact) == careful' = (careful /\ exact)

(***************************************************************************)
(* Moving the cursor: as keys of the edit mode and by the arrow keys.      *)
(***************************************************************************)
MoveToSigned(c, l) == cursor' = c /\ line' = l
MoveTo(c, l) == cursor' = c /\ line' = l % Word

LineStart(seen) == Max({0} \cup { i \in 1 .. cursor : seen[i] = Newline })
NextLine == Min({Len(text)} \cup { i \in cursor + 1 .. Len(text) : text[i] = Newline })

move_up(seen) ==
    IF line = 0 \/ cursor = 0 THEN UNCHANGED <<cursor, line>>
    ELSE MoveTo(Max({0, LineStart(seen) - 1}), line - 1)
move_down ==
    IF line >= (lines - 1) % Word \/ cursor >= Len(text) THEN UNCHANGED <<cursor, line>>
    ELSE MoveTo(NextLine, line + 1)
move_left(seen) ==
    IF cursor = 0 THEN UNCHANGED <<cursor, line>>
    ELSE MoveTo(cursor - 1, IF seen[cursor] = Newline THEN line - 1 ELSE line)
move_right ==
    IF cursor >= Len(text) THEN UNCHANGED <<cursor, line>>
    ELSE MoveTo(cursor + 1, IF text[cursor + 1] = Newline THEN line + 1 ELSE line)
\* While a character is erased the cursor may be one behind the text.
AnyMove ==
    \/ move_down \/ move_right
    \/ \E byte \in Chars :
          LET seen == IF cursor > Len(text) THEN Append(text, byte) ELSE text
          IN  move_up(seen) \/ move_left(seen)

\* A signal while the main loop works on a character is not foreseen; while
\* it waits for a key it is.
arrow_keys_sighandler ==
    /\ Running /\ keys < MaxKeys /\ keys' = keys + 1
    /\ AnyMove
    /\ Same(pc \in {"getchar", "replace", "discard"})
    /\ UNCHANGED <<text, block, lines, insert, clip, file, status, pc, held>>

MoveKey ==
    /\ Key(FALSE)
    /\ AnyMove \/ MoveTo(0, 0) \/ MoveTo(Len(text), lines - 1) \/ MoveTo(LineStart(text), line)
    /\ UNCHANGED <<text, block, lines, insert, clip, file, status, pc, held, careful>>

\* Where a loop of D, C or X stops that starts at "from": on the character
\* before a newline, or at the end of the text; for the last character it
\* looks at a byte behind the text.
Stops(from) ==
    LET seen == { i \in from .. Len(text) - 2 : text[i + 2] = Newline }
    IN  IF seen # {} THEN {Min(seen)} ELSE { i \in {Len(text) - 1, Len(text)} : i >= from }
Crosses(from, to) == NewlinesIn(SubSeq(text, from + 1, to)) > 0

EndOfLine ==
    /\ Key(FALSE)
    /\ \E end \in Stops(cursor) :
          /\ cursor' = end
          /\ Same(~Crosses(cursor, end))
    /\ UNCHANGED <<text, block, counters, insert, clip, file, status, pc, held>>

(***************************************************************************)
(* Copy, cut and paste                                                     *)
(***************************************************************************)
Clip(end) ==
    LET chars == SubSeq(text, LineStart(text) + 1, IF end < Len(text) THEN end + 1 ELSE end)
    IN  [set |-> TRUE, chars |-> chars, freed |-> clip.freed /\ chars = <<>>]

CopyLine ==
    /\ Key(FALSE) /\ ~clip.set
    /\ \E end \in Stops(LineStart(text)) :
          /\ clip' = Clip(end)
          /\ cursor' = end
          /\ Same(~Crosses(LineStart(text), end) /\ clip'.chars # <<>>)
    /\ UNCHANGED <<text, block, counters, insert, file, status, pc, held>>

\* The characters before the cursor go, as many as were copied: where the
\* loop stopped at a newline that is one too far, and before the text in
\* the first line.
CutLine ==
    /\ Key(FALSE) /\ ~clip.set
    /\ \E end \in Stops(LineStart(text)) :
          LET to == end - Len(Clip(end).chars)
          IN  /\ clip' = Clip(end)
              /\ Same(end = Len(text) /\ ~Crosses(LineStart(text), end) /\ clip'.chars # <<>>)
              /\ IF to < 0 THEN status' = "undefined" /\ UNCHANGED <<text, cursor>>
                 ELSE /\ text' = Before(text, to) \o SubSeq(text, end + 1, Len(text))
                      /\ cursor' = to
                      /\ UNCHANGED status
    /\ UNCHANGED <<block, counters, insert, file, pc, held>>

\* The character at the cursor is lost and one from behind the text comes in.
Paste ==
    /\ Key(FALSE) /\ clip.set
    /\ \E byte \in Chars :
          text' = Before(text, cursor) \o clip.chars
                    \o (IF cursor = Len(text) THEN <<>>
                        ELSE Append(SubSeq(text, cursor + 2, Len(text)), byte))
    /\ block' = Len(text) + Len(clip.chars)
    /\ cursor' = cursor + Len(clip.chars)
    /\ clip' = [NoClip EXCEPT !.freed = TRUE]
    /\ status' = IF clip.freed THEN "undefined" ELSE status
    /\ Same(cursor = Len(text) /\ clip.chars # <<>> /\ NewlinesIn(clip.chars) = 0)
    /\ UNCHANGED <<counters, insert, file, pc, held>>

(***************************************************************************)
(* The keys that ask for a second one, and the file                        *)
(***************************************************************************)
Ask(next) ==
    /\ Key(FALSE) /\ pc' = next
    /\ UNCHANGED <<text, block, cursor, counters, insert, clip, file, status, held, careful>>
AskReplace == Ask("replace")
AskDiscard == Ask("discard")

\* A newline is not taken.
Replace(c) ==
    /\ Running /\ pc = "replace" /\ pc' = "getchar"
    /\ IF c = Newline THEN UNCHANGED <<text, status, careful>>
       ELSE IF cursor >= Len(text)
       THEN /\ status' = (IF cursor < block THEN status ELSE "undefined")
            /\ Same(cursor < block)
            /\ UNCHANGED text
       ELSE /\ text' = [text EXCEPT ![cursor + 1] = c]
            /\ Same(text[cursor + 1] # Newline)
            /\ UNCHANGED status
    /\ UNCHANGED <<block, cursor, counters, insert, clip, file, held, keys>>

\* The counters of the status line stay.
Discard(yes) ==
    /\ Running /\ pc = "discard" /\ pc' = "getchar"
    /\ IF ~yes THEN UNCHANGED <<text, block, cursor, careful>>
       ELSE /\ text' = file /\ block' = Len(file) /\ cursor' = Len(file)
            /\ Same(line = NewlinesIn(file) % Word /\ lines = (NewlinesIn(file) + 1) % Word)
    /\ UNCHANGED <<counters, insert, clip, file, status, held, keys>>

Save ==
    /\ Key(FALSE) /\ file' = Overwrite(file, text)
    /\ UNCHANGED <<text, block, cursor, counters, insert, clip, status, pc, held, careful>>

ToggleMode ==
    /\ Key(insert) /\ insert' = ~insert
    /\ UNCHANGED <<text, block, cursor, counters, clip, file, status, pc, held, careful>>

\* A signal while a key of the edit mode walks along the line (w, s, A, D, C,
\* X) or stores what was copied (v): both go on with a cursor the other one
\* has moved, so that any place may be the next one to be written.
InterruptedKey ==
    /\ Key(FALSE) /\ status' = "undefined" /\ careful' = FALSE
    /\ UNCHANGED <<text, block, cursor, counters, insert, clip, file, pc, held>>

Quit ==
    /\ Key(FALSE) /\ status' = "ended"
    /\ UNCHANGED <<text, block, cursor, counters, insert, clip, file, pc, held, careful>>

(***************************************************************************)
(* Typing a character                                                      *)
(***************************************************************************)
Step(from, to) == Running /\ pc = from /\ pc' = to

TypeWithoutLine(c) ==
    /\ Key(TRUE) /\ held' = c /\ pc' = "grow"
    /\ lines' = (IF c = Newline THEN lines + 1 ELSE lines) % Word
    /\ UNCHANGED <<text, block, cursor, line, insert, clip, file, status, careful>>
Type(c) ==
    /\ Key(TRUE) /\ held' = c /\ pc' = "grow"
    /\ IF c = Newline THEN line' = (line + 1) % Word /\ lines' = (lines + 1) % Word
                      ELSE UNCHANGED counters
    /\ UNCHANGED <<text, block, cursor, insert, clip, file, status, careful>>
GrowForgotten ==
    /\ Step("grow", "shift")
    /\ UNCHANGED <<text, block, cursor, counters, insert, clip, file, status, held, careful, keys>>
Grow ==
    /\ Step("grow", "shift")
    /\ \E byte \in Chars : text' = Append(text, byte)
    /\ block' = Len(text) + 1
    /\ UNCHANGED <<cursor, counters, insert, clip, file, status, held, careful, keys>>
ShiftForgotten ==
    /\ Step("shift", "store")
    /\ UNCHANGED <<text, block, cursor, counters, insert, clip, file, status, held, careful, keys>>
\* memmove(&input_buffer[buffer_idx + 1], &input_buffer[buffer_idx],
\* current_size - buffer_idx): the last byte goes to the index current_size.
Shift ==
    /\ Step("shift", "store")
    /\ text' = [i \in DOMAIN text |-> IF i <= cursor + 1 THEN text[i] ELSE text[i - 1]]
    /\ IF cursor >= Len(text) \/ Len(text) < block THEN UNCHANGED status
       ELSE status' \in (IF Len(text) = block THEN {status, "clobbered"} ELSE {"undefined"})
    /\ UNCHANGED <<block, cursor, counters, insert, clip, file, held, careful, keys>>
Store ==
    /\ Step("store", "advance")
    /\ IF cursor < Len(text) THEN text' = [text EXCEPT ![cursor + 1] = held] /\ UNCHANGED status
       ELSE status' = "undefined" /\ UNCHANGED text
    /\ UNCHANGED <<block, cursor, counters, insert, clip, file, held, careful, keys>>
Advance ==
    /\ Step("advance", "getchar")
    /\ IF cursor < Len(text) THEN cursor' = cursor + 1 /\ UNCHANGED status
       ELSE status' = "undefined" /\ UNCHANGED cursor
    /\ UNCHANGED <<text, block, counters, insert, clip, file, held, careful, keys>>

(***************************************************************************)
(* Erasing one.  The check for the start of the text compares an unsigned  *)
(* number with 0 and lets everything pass.                                 *)
(***************************************************************************)
Backspace ==
    /\ Key(TRUE)
    /\ IF text = <<>> THEN UNCHANGED <<line, status, pc, held, careful>>
       ELSE IF cursor = 0 THEN status' = "undefined" /\ careful' = FALSE /\ UNCHANGED <<line, pc, held>>
       ELSE /\ held' = text[cursor]
            /\ line' = (IF text[cursor] = Newline THEN line - 1 ELSE line) % Word
            /\ pc' = "unshift"
            /\ UNCHANGED <<status, careful>>
    /\ UNCHANGED <<text, block, cursor, lines, insert, clip, file>>
\* memmove(&input_buffer[buffer_idx - 1], &input_buffer[buffer_idx], ...)
Unshift ==
    /\ Step("unshift", "shrink")
    /\ IF cursor = 0 THEN status' = "undefined" /\ UNCHANGED text
       ELSE /\ text' = [i \in DOMAIN text |-> IF i < cursor \/ i = Len(text) THEN text[i] ELSE text[i + 1]]
            /\ UNCHANGED status
    /\ UNCHANGED <<block, cursor, counters, insert, clip, file, held, careful, keys>>
\* The character now at the cursor decides whether there is a line less.
Shrink ==
    /\ Step("shrink", "retreat")
    /\ \E byte \in Chars :
          /\ cursor < Len(text) => byte = text[cursor + 1]
          /\ lines' = (IF byte = Newline THEN lines - 1 ELSE lines) % Word
          /\ Same((byte = Newline) = (held = Newline))
    /\ text' = Front(text) /\ block' = Len(text) - 1
    /\ UNCHANGED <<cursor, line, insert, clip, file, status, held, keys>>
Retreat ==
    /\ Step("retreat", "getchar")
    /\ IF cursor = 0 THEN status' = "undefined" /\ UNCHANGED cursor
       ELSE cursor' = cursor - 1 /\ UNCHANGED status
    /\ UNCHANGED <<text, block, counters, insert, clip, file, held, careful, keys>>

Next ==
    \/ arrow_keys_sighandler
    \/ MoveKey \/ EndOfLine \/ CopyLine \/ CutLine \/ Paste
    \/ InterruptedKey
    \/ AskReplace \/ AskDiscard \/ Save \/ ToggleMode \/ Quit
    \/ \E c \in Chars : Replace(c) \/ Type(c)
    \/ \E yes \in BOOLEAN : Discard(yes)
    \/ Grow \/ Shift \/ Store \/ Advance
    \/ Backspace \/ Unshift \/ Shrink \/ Retreat

Spec == Init /\ [][Next]_vars

(***************************************************************************)
(* Properties                                                              *)
(***************************************************************************)
Types ==
    /\ text \in Seq(Chars) /\ file \in Seq(Chars)
    /\ cursor \in Nat /\ line \in 0 .. Word - 1 /\ lines \in 0 .. Word - 1
    /\ insert \in BOOLEAN /\ careful \in BOOLEAN /\ keys \in 0 .. MaxKeys /\ held \in Chars
    /\ clip \in [set : BOOLEAN, chars : Seq(Chars), freed : BOOLEAN]
    /\ status \in {"running", "ended", "clobbered", "undefined"}
    /\ pc \in {"getchar", "replace", "discard", "grow", "shift", "store", "advance",
               "unshift", "shrink", "retreat"}
TypeOK == Types /\ block \in Nat

\* The memmove of an insertion writes one byte behind the block, into
\* whatever is there.  With a careful user this is the only write outside of
\* what realloc gave, nothing is freed twice, and the cursor is in the text
\* whenever a key is awaited: the ways out are those the actions name.
NoOtherOverrun ==
    careful => /\ status # "undefined"
               /\ Len(text) <= block
               /\ cursor <= Len(text) + (IF pc = "retreat" THEN 1 ELSE 0)

\* The status line tells a careful user the line of the cursor and the number
\* of lines, whatever was typed, erased, copied and moved, by keys and by
\* arrow keys (buffer_ln_idx and ln_cnt).
StatusLineExact ==
    careful /\ pc \in {"getchar", "replace", "discard"} =>
        /\ line = NewlinesIn(Before(text, cursor)) % Word
        /\ lines = (NewlinesIn(text) + 1) % Word

(***************************************************************************)
(* For a careful user foxe is a text editor: a character appears or goes   *)
(* in one step, between them the text is what it was before.               *)
(***************************************************************************)
SeenText ==
    CASE pc = "shift" -> Front(text)
      [] pc \in {"store", "advance"} -> Before(text, cursor) \o SubSeq(text, cursor + 2, Len(text))
      [] pc = "shrink" -> Front(text)
      [] OTHER -> text
SeenCursor == IF pc \in {"shrink", "retreat"} THEN cursor - 1 ELSE cursor

A == INSTANCE TextEditor WITH
        text <- IF careful THEN SeenText ELSE <<>>,
        cursor <- IF careful THEN SeenCursor ELSE 0,
        clip <- IF careful THEN clip.chars ELSE <<>>,
        file <- file, lost <- ~careful
\* Every step of foxe that a careful user sees is one of TextEditor.
ImplementsTextEditor == A!Spec
=============================================================================
