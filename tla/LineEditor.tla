----------------------------- MODULE LineEditor -----------------------------
(***************************************************************************)
(* The line editor of the shell (main and tab_complete in                  *)
(* src/terminal/main.c): what each key does to the buffer and to the line  *)
(* on the screen.  A directory is a sequence of entries.                   *)
(***************************************************************************)
EXTENDS CommandLine

CONSTANTS
    MAX_BUFFER_SIZE,        \* characters a line may have
    MAX_DIR_NAME_LENGTH     \* characters of a name, of libfoxos
ASSUME LineAssumption == MAX_BUFFER_SIZE \in Nat \ {0} /\ MAX_DIR_NAME_LENGTH \in Nat \ {0}

Entry(name, isDir) == [name |-> name, isDir |-> isDir]
Elf == <<".", "e", "l", "f">>

(***************************************************************************)
(* tab_complete                                                            *)
(***************************************************************************)
Candidates(dir, command) ==
    LET list[i \in 0 .. Len(dir)] ==
            CASE i = 0 -> <<>>
              [] i > 0 /\ IsPrefix(command, dir[i].name) ->
                    Append(list[i - 1], dir[i].name \o (IF dir[i].isDir THEN <<"/">> ELSE <<>>))
              [] OTHER -> list[i - 1]
    IN  list[Len(dir)]

\* Names are followed by Nuls up to MAX_DIR_NAME_LENGTH, and those are
\* compared and copied like characters.
CharAt(name, i) == IF i <= Len(name) THEN name[i] ELSE Nul
CopiedTooFar(names, start, extra_size) ==
    LET same(i) == \A k \in DOMAIN names : CharAt(names[k], i) = CharAt(names[1], i)
        limit == IF extra_size < MAX_DIR_NAME_LENGTH THEN extra_size + 1 ELSE MAX_DIR_NAME_LENGTH
    IN  IF names = <<>> THEN 0
        ELSE CHOOSE n \in 0 .. MAX_DIR_NAME_LENGTH :
                /\ \A i \in start + 1 .. start + n : i <= limit /\ same(i)
                /\ ~(start + n + 1 <= limit /\ same(start + n + 1))
Copied(names, start, extra_size) ==
    LET same(i) == \A k \in DOMAIN names : CharAt(names[k], i) = CharAt(names[1], i)
        limit == IF extra_size < MAX_DIR_NAME_LENGTH THEN extra_size ELSE MAX_DIR_NAME_LENGTH
    IN  IF names = <<>> THEN 0
        ELSE CHOOSE n \in 0 .. MAX_DIR_NAME_LENGTH :
                /\ \A i \in start + 1 .. start + n : i <= limit /\ same(i)
                /\ ~(start + n + 1 <= limit /\ same(start + n + 1))

Taken(names, start, n) ==
    LET end == IF start + n < Len(names[1]) THEN start + n ELSE Len(names[1])
    IN  SubSeq(names[1], start + 1, end)

WithoutElf(extra) ==
    IF IsSuffix(Elf, extra) THEN SubSeq(extra, 1, Len(extra) - 4) \o <<" ">> ELSE extra

\* The list of the first directory is freed but stays linked: if it was of
\* no use and the second directory has no candidate, it is read and freed
\* once more (Undefined).  With less than four characters in extra the
\* program looks for ".elf" in front of it; those bytes are taken to be others.
Undefined == <<"undefined">>
tab_complete(command, cwd, path, extra_size) ==
    LET first == Candidates(cwd, command)
        second == Candidates(path, command)
        start == Len(command)
        n1 == Copied(first, start, extra_size)
        n2 == Copied(second, start, extra_size)
    IN  CASE n1 > 0 -> Taken(first, start, n1)
          [] n1 = 0 /\ n2 > 0 -> WithoutElf(Taken(second, start, n2))
          [] n1 = 0 /\ n2 = 0 /\ first # <<>> /\ second = <<>> -> Undefined
          [] OTHER -> <<>>

(***************************************************************************)
(* main: "screen" is what is to be seen behind the last prompt, "kept" the *)
(* part of the buffer typed before a quote> prompt.                        *)
(***************************************************************************)
Controls == {"back", "tab", "enter", "esc", "end"}
EmptyLine == [buffer |-> <<>>, screen |-> <<>>, kept |-> <<>>, submitted |-> <<>>,
              state |-> "reading"]
Prompt(s) == [s EXCEPT !.buffer = <<>>, !.screen = <<>>, !.kept = <<>>]
DropLast(s) == IF s = <<>> THEN s ELSE Front(s)

Backspace(s) == [s EXCEPT !.buffer = DropLast(@),
                          !.screen = IF s.buffer = <<>> THEN @ ELSE DropLast(@)]

\* strtok gives the last word; a line of blanks has none and is completed whole.
LastWord(line) ==
    LET words == argv_split_all(process_line(line, FALSE))
        at == SelectLastInSeq(words, LAMBDA word : word # <<>>)
    IN  IF at = 0 THEN <<>> ELSE words[at]

Tab(s, cwd, path) ==
    LET extra == tab_complete(LastWord(s.buffer), cwd, path, MAX_BUFFER_SIZE - Len(s.buffer))
    IN  CASE s.buffer = <<>> \/ is_quote_open(s.buffer) -> s
          [] s.buffer # <<>> /\ ~is_quote_open(s.buffer) /\ extra = Undefined ->
                [s EXCEPT !.state = "undefined"]
          [] OTHER -> [s EXCEPT !.buffer = @ \o extra, !.screen = @ \o extra]

Enter(s) ==
    CASE s.buffer = <<>> -> Prompt(s)
      [] s.buffer # <<>> /\ is_quote_open(s.buffer) ->
            [s EXCEPT !.kept = s.buffer, !.screen = <<>>]
      [] OTHER -> Prompt([s EXCEPT !.submitted = Append(@, s.buffer)])

OtherOffByOne(s, key) ==
    CASE Len(s.buffer) > MAX_BUFFER_SIZE ->
            IF key \in Controls THEN [s EXCEPT !.screen = DropLast(@)] ELSE s
      [] Len(s.buffer) <= MAX_BUFFER_SIZE /\ key = "end" -> [s EXCEPT !.state = "ended"]
      [] Len(s.buffer) <= MAX_BUFFER_SIZE /\ key = "esc" -> Prompt(s)
      [] OTHER -> [s EXCEPT !.buffer = Append(@, key), !.screen = Append(@, key)]
\* With a full buffer every other key is answered with a backspace, which
\* takes back the echo of the key; the keys esc and end have none.
Other(s, key) ==
    CASE Len(s.buffer) >= MAX_BUFFER_SIZE ->
            IF key \in Controls THEN [s EXCEPT !.screen = DropLast(@)] ELSE s
      [] Len(s.buffer) < MAX_BUFFER_SIZE /\ key = "end" -> [s EXCEPT !.state = "ended"]
      [] Len(s.buffer) < MAX_BUFFER_SIZE /\ key = "esc" -> Prompt(s)
      [] OTHER -> [s EXCEPT !.buffer = Append(@, key), !.screen = Append(@, key)]

Press(s, key, cwd, path) ==
    CASE s.state # "reading" -> s
      [] s.state = "reading" /\ key = "back" -> Backspace(s)
      [] s.state = "reading" /\ key = "tab" -> Tab(s, cwd, path)
      [] s.state = "reading" /\ key = "enter" -> Enter(s)
      [] OTHER -> Other(s, key)

\* The states of the editor, one more than there are keys.
Typed(keys, cwd, path) ==
    LET state[i \in 0 .. Len(keys)] ==
            IF i = 0 THEN EmptyLine ELSE Press(state[i - 1], keys[i], cwd, path)
    IN  state

(***************************************************************************)
(* What is expected of it.                                                 *)
(***************************************************************************)
\* What the user could not see: a backspace over a quote> prompt, and esc or
\* the end of the input on a full line.
Slip(s, key) ==
    \/ key = "back" /\ s.screen = <<>> /\ s.kept # <<>>
    \/ key \in {"esc", "end"} /\ Len(s.buffer) >= MAX_BUFFER_SIZE

\* The line on the screen, with the lines before a quote> prompt, is the
\* buffer that the next newline hands to command_received, it fits in the
\* buffer, and the end of the input ends the shell, for keys without a slip.
IsShown(keys, state) ==
    LET careful == \A i \in DOMAIN keys : ~Slip(state[i - 1], keys[i])
    IN  \A i \in DOMAIN keys :
            /\ Len(state[i].buffer) <= MAX_BUFFER_SIZE
            /\ careful /\ state[i].state # "undefined" =>
                  /\ state[i].buffer = state[i].kept \o state[i].screen
                  /\ keys[i] = "end" => state[i].state = "ended"
                  /\ state[i].submitted # state[i - 1].submitted =>
                        Last(state[i].submitted) = state[i - 1].kept \o state[i - 1].screen
ShowsWhatItTakes(keys, cwd, path) == IsShown(keys, Typed(keys, cwd, path))

\* A completion is what all candidates of one directory have in common, and
\* all of it that fits; programs, found in the second directory, lose their
\* .elf; the second directory is only asked when the first gives nothing.
\* The list that was freed is only used when the first directory has
\* candidates that give nothing and the second has none.
CompletesCommon(command, cwd, path, extra_size) ==
    LET extra == tab_complete(command, cwd, path, extra_size)
        common(dir) == LongestCommonPrefix({ Candidates(dir, command)[i] :
                                                i \in DOMAIN Candidates(dir, command) })
        room == IF extra_size > Len(command) THEN extra_size - Len(command) ELSE 0
        offer(dir) == IF Candidates(dir, command) = <<>> THEN <<>>
                      ELSE LET rest == SubSeq(common(dir), Len(command) + 1, Len(common(dir)))
                           IN  SubSeq(rest, 1, IF Len(rest) < room THEN Len(rest) ELSE room)
        complete(dir) == Len(Candidates(dir, command)) = 1 /\ room > 0
    IN  CASE offer(cwd) # <<>> \/ complete(cwd) -> extra = offer(cwd)
          [] offer(cwd) = <<>> /\ ~complete(cwd) /\ (offer(path) # <<>> \/ complete(path)) ->
                extra = WithoutElf(offer(path))
          [] OTHER -> extra = IF Candidates(cwd, command) # <<>> /\ Candidates(path, command) = <<>>
                              THEN Undefined ELSE <<>>
=============================================================================
