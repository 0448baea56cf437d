---------------------------- MODULE CommandLine ----------------------------
(***************************************************************************)
(* What the shell makes of the characters of a line (argv_tools.c) and of  *)
(* a script (script.c).  A text is a sequence of characters.               *)
(***************************************************************************)
EXTENDS Integers, Sequences, SequencesExt

CONSTANT LINE_SIZE      \* char current_line[256], command[256] of script.c
ASSUME ScriptAssumption == LINE_SIZE \in Nat \ {0}

Quotes == {"\"", "'"}
Operators == {"|", ">", "&"}

(***************************************************************************)
(* The scanners share two flags for the quotes, of which at most one is    *)
(* set ("open" is the quote or ""), and special_char_next.  Only           *)
(* get_command_type forgets a backslash at the next character.             *)
(***************************************************************************)
Scan(s, c, forgets) ==
    CASE c = "\\" -> [s EXCEPT !.special = TRUE]
      [] c \in Quotes -> IF s.special \/ s.open \notin {"", c} THEN [s EXCEPT !.special = FALSE]
                         ELSE [s EXCEPT !.open = IF @ = c THEN "" ELSE c]
      [] OTHER -> IF forgets THEN [s EXCEPT !.special = FALSE] ELSE s

\* The flags before the character at "to".
Flags(line, to, forgets) ==
    LET after[i \in 0 .. to - 1] ==
            IF i = 0 THEN [open |-> "", special |-> FALSE]
            ELSE Scan(after[i - 1], line[i], forgets)
    IN  after[to - 1]

get_command_type(line) ==
    LET free(i) == Flags(line, i, TRUE) = [open |-> "", special |-> FALSE]
        at == SelectInSeq([i \in DOMAIN line |-> line[i] \in Operators /\ free(i)], LAMBDA b : b)
        double == at # 0 /\ line[at] = ">" /\ at < Len(line) /\ line[at + 1] = ">"
    IN  CASE at = 0 -> [type |-> "NORMAL", token_pos |-> 0]
          [] double -> [type |-> "PIPE_FILE_APPEND", token_pos |-> at + 1]
          [] OTHER -> [type |-> CASE line[at] = "|" -> "PIPE_PROC" [] line[at] = ">" -> "PIPE_FILE"
                                  [] OTHER -> "AND_RUN",
                       token_pos |-> at]

is_quote_open(line) == Flags(line, Len(line) + 1, FALSE).open # ""

\* A text is taken apart at some of its positions.
Pieces(text, cuts) ==
    LET pieces[i \in 0 .. Len(text)] ==
            CASE i = 0 -> << <<>> >>
              [] i \in cuts -> Append(pieces[i - 1], <<>>)
              [] OTHER -> Append(Front(pieces[i - 1]), Append(Last(pieces[i - 1]), text[i]))
    IN  pieces[Len(text)]
Joined(pieces, separator) ==
    LET joined[i \in 1 .. Len(pieces)] ==
            IF i = 1 THEN pieces[1] ELSE joined[i - 1] \o <<separator>> \o pieces[i]
    IN  joined

\* strtok(" ") cuts a line at every blank.
argv_split_all(line) == Pieces(line, { i \in DOMAIN line : line[i] = " " })
\* The arguments are cut at the blanks outside quotes; quotes stay in them.
argv_split(line) ==
    Pieces(line, { i \in DOMAIN line : line[i] = " " /\ Flags(line, i, FALSE).open = "" })

process_line(line, check_hashtag) ==
    LET hash == IF check_hashtag THEN SelectInSeq(line, LAMBDA c : c = "#") ELSE 0
        kept == IF hash = 0 THEN line ELSE SubSeq(line, 1, hash - 1)
        text == { i \in DOMAIN kept : kept[i] # " " }
    IN  IF text = {} THEN <<>>
        ELSE SubSeq(kept, CHOOSE i \in text : \A j \in text : i <= j,
                          CHOOSE i \in text : \A j \in text : j <= i)

(***************************************************************************)
(* script.c: current_line is a sequence of cells that keeps what earlier   *)
(* lines left in it; its text ends at the first Nul.                       *)
(***************************************************************************)
Nul == ""
TextOf(cells) ==
    LET end == SelectInSeq(cells, LAMBDA c : c = Nul) IN SubSeq(cells, 1, end - 1)
PutOver(cells, text) == text \o SubSeq(cells, Len(text) + 1, Len(cells))

\* main.c cuts a line where get_command_type found the operator, but only
\* when process_line has moved the text to the left.
cut(line) ==
    LET op == get_command_type(line)
        text == process_line(line, FALSE)
        blanks == SelectInSeq(line, LAMBDA c : c # " ") - 1
        cells == PutOver(Append(line, Nul),
                         text \o [i \in 1 .. Len(line) - blanks - Len(text) + 1 |-> Nul])
        end == op.token_pos - (IF op.type = "PIPE_FILE_APPEND" THEN 1 ELSE 0)
    IN  [current_command |-> TextOf([cells EXCEPT ![end] = Nul]),
         next_command |-> process_line(TextOf(SubSeq(cells, op.token_pos + 1, Len(cells))), FALSE)]

NextNewline(text, from) == SelectInSubSeq(text, from, Len(text), LAMBDA c : c = "\n")
ReadPart(text, from, newline) == SubSeq(text, from, IF newline = 0 THEN Len(text) ELSE newline - 1)

\* The line that begins at "from" and its Nul do not fit in current_line; what
\* fits there fits in command.
Overruns(text, from) == Len(ReadPart(text, from, NextNewline(text, from))) >= LINE_SIZE

ReadLineUnterminated(text, s) ==
    LET newline == NextNewline(text, s.script_idx)
        line == ReadPart(text, s.script_idx, newline)
    IN  [s EXCEPT !.current_line = PutOver(@, line),
                  !.script_idx = IF newline = 0 THEN Len(text) + 1 ELSE newline + 1]
\* Only a line that ends with a newline is terminated.
ReadLine(text, s) ==
    LET newline == NextNewline(text, s.script_idx)
        line == ReadPart(text, s.script_idx, newline)
    IN  [s EXCEPT !.current_line = PutOver(@, IF newline = 0 THEN line ELSE Append(line, Nul)),
                  !.script_idx = IF newline = 0 THEN Len(text) + 1 ELSE newline + 1]

\* Comments and empty lines are passed over without clearing current_line.
RunLine(s) ==
    LET line == TextOf(s.current_line)
        command == process_line(line, TRUE)
    IN  CASE line = <<>> \/ Head(line) = "#" -> s
          [] line # <<>> /\ Head(line) # "#" /\ command = <<>> ->
                [s EXCEPT !.current_line = PutOver(@, <<Nul>>)]
          [] OTHER -> [s EXCEPT !.commands = Append(@, command),
                                !.current_line = [i \in DOMAIN @ |-> Nul]]

\* The loop goes on while the file does; here it stops at an overrun too.
Stays(text, s, n) == (n > 1 /\ s.script_idx > Len(text)) \/ Overruns(text, s.script_idx)

\* The commands run_script hands to command_received, if all are found and
\* none ends the shell, and whether it then writes a line behind the end of its
\* array.  What it does after that is undefined.  A round is one pass of the loop.
run_script(text) ==
    LET start == [script_idx |-> 1, commands |-> <<>>,
                  current_line |-> [i \in 1 .. LINE_SIZE |-> Nul]]
        round[n \in 0 .. Len(text) + 1] ==
            IF n = 0 THEN start
            ELSE IF Stays(text, round[n - 1], n) THEN round[n - 1]
            ELSE RunLine(ReadLine(text, round[n - 1]))
        last == round[Len(text) + 1]
    IN  [commands |-> last.commands, overrun |-> Overruns(text, last.script_idx)]

(***************************************************************************)
(* What is expected of them.                                               *)
(***************************************************************************)
\* The scanners see the same line: where every backslash stands before a
\* quote, the operator at which get_command_type cuts is the first that
\* is_quote_open takes to be outside quotes, and argv_split puts back
\* together is the line, no word of it being cut inside quotes.  A line that
\* does not begin with a blank is cut exactly at its operator.
ScannersAgree(line) ==
    LET known == \A i \in DOMAIN line :
                    line[i] = "\\" => i < Len(line) /\ line[i + 1] \in Quotes
        outside == { i \in DOMAIN line : line[i] \in Operators /\ ~is_quote_open(SubSeq(line, 1, i - 1)) }
        found == get_command_type(line)
        words == argv_split(line)
        joined == Joined(words, " ")
        end == found.token_pos - (IF found.type = "PIPE_FILE_APPEND" THEN 1 ELSE 0)
    IN  /\ line # <<>> /\ Head(line) # " " /\ found.type # "NORMAL" =>
              cut(line) = [current_command |-> SubSeq(line, 1, end - 1),
                           next_command |-> process_line(SubSeq(line, found.token_pos + 1, Len(line)), FALSE)]
        /\ known => \/ outside = {} /\ found.type = "NORMAL"
                    \/ /\ outside # {}
                       /\ end = CHOOSE i \in outside : \A j \in outside : i <= j
        /\ joined[Len(words)] = line
        /\ \A i \in 1 .. Len(words) - 1 : ~is_quote_open(joined[i])
        /\ ~is_quote_open(line) /\ (\A i \in DOMAIN line : line[i] # "\\")
                => \A i \in DOMAIN words : ~is_quote_open(words[i])

\* How many lines fit in the array before one does not.
Fitting(lines) ==
    CHOOSE i \in 0 .. Len(lines) :
        /\ \A j \in 1 .. i : Len(lines[j]) < LINE_SIZE
        /\ i < Len(lines) => Len(lines[i + 1]) >= LINE_SIZE

\* A script runs each of its lines, without comments and the blanks around
\* it, once and in order, up to one that does not fit in the array, which it
\* overruns there and only there; if the last line ends with a newline or there
\* is no comment (script.c:56 leaves the tail of a comment behind a last line
\* that is not terminated).
RunsItsLines(text) ==
    LET lines == Pieces(text, { i \in DOMAIN text : text[i] = "\n" })
        expected[i \in 0 .. Len(lines)] ==
            CASE i = 0 -> <<>>
              [] i > 0 /\ process_line(lines[i], TRUE) # <<>> ->
                    Append(expected[i - 1], process_line(lines[i], TRUE))
              [] OTHER -> expected[i - 1]
        runs == Fitting(lines)
        terminated == text # <<>> /\ Last(text) = "\n"
        commented == \E i \in DOMAIN text : text[i] = "#"
    IN  terminated \/ ~commented =>
            run_script(text) = [commands |-> expected[runs], overrun |-> runs < Len(lines)]
=============================================================================
