------------------------------ MODULE Console ------------------------------
(***************************************************************************)
(* The console behind the windows of the desktop: every task whose output  *)
(* is piped to FoxDE writes into it, in its own context and with no lock.   *)
(***************************************************************************)
EXTENDS Integers, Sequences

CONSTANTS
    Printers,       \* the tasks that print
    Chars,          \* the ordinary characters they print
    Columns, Rows,  \* num_background_console_colums, ..._rows
    MaxChars        \* bound: characters printed

\* There is room for a character, and ordinary ones are neither \n nor \b.
ASSUME ConsoleAssumption ==
    /\ Columns \in Nat \ {0} /\ Rows \in Nat \ {0} /\ MaxChars \in Nat
    /\ Chars \cap {"newline", "back"} = {}

VARIABLES
    background_console,     \* the characters, row by row
    colum, row,             \* background_console_colum, ..._row
    step,                   \* what a task has still to do for its character
    printed,                \* history: how many characters were begun
    paper,                  \* history: the same characters on an endless sheet
    mixed,                  \* history: one was begun within another one
    overrun                 \* the block was left: the model ends

consoleVars == <<background_console, colum, row, step, printed, paper, mixed, overrun>>

Blank == "0"
Newline == "newline"
Back == "back"
Then(p, next) == step' = [step EXCEPT ![p] = next]
Write(i, c) ==
    /\ background_console' = IF i \in DOMAIN background_console
                             THEN [background_console EXCEPT ![i] = c] ELSE background_console
    /\ overrun' = (i \notin DOMAIN background_console)

EmptyRow == [i \in 1 .. Columns |-> Blank]
OnPaper(c) ==
    LET n == Len(paper.rows)
        col == IF c = Back /\ paper.col > 0 THEN paper.col - 1 ELSE paper.col
        put == [paper.rows EXCEPT ![n][col + 1] = IF c = Back THEN " " ELSE c]
    IN  CASE c = Newline -> [rows |-> Append(paper.rows, EmptyRow), col |-> 0]
          [] c = Back -> [rows |-> put, col |-> col]
          [] c \in Chars /\ col + 1 < Columns -> [rows |-> put, col |-> col + 1]
          [] OTHER -> [rows |-> Append(put, EmptyRow), col |-> 0]

ConsoleInit ==
    /\ background_console = [i \in 0 .. Columns * Rows - 1 |-> Blank]
    /\ colum = 0 /\ row = 0 /\ step = [p \in Printers |-> "next"]
    /\ printed = 0 /\ paper = [rows |-> <<EmptyRow>>, col |-> 0]
    /\ mixed = FALSE /\ overrun = FALSE

Begin(p, c) ==
    /\ step[p] = "next" /\ printed < MaxChars
    /\ printed' = printed + 1 /\ paper' = OnPaper(c)
    /\ mixed' = (mixed \/ \E q \in Printers : step[q] # "next")
    /\ UNCHANGED row

PrintNewline(p) ==
    /\ Begin(p, Newline) /\ colum' = 0 /\ Then(p, "row")
    /\ UNCHANGED <<background_console, overrun>>

PrintBack(p) ==
    /\ Begin(p, Back) /\ colum' = IF colum > 0 THEN colum - 1 ELSE colum
    /\ Then(p, "erase") /\ UNCHANGED <<background_console, overrun>>

Erase(p) ==
    /\ step[p] = "erase" /\ Then(p, "next")
    /\ Write(row * Columns + colum, " ")
    /\ UNCHANGED <<colum, row, printed, paper, mixed>>

PrintChar(p, c) ==
    /\ Begin(p, c) /\ Then(p, "colum")
    /\ Write(colum + row * Columns, c)
    /\ UNCHANGED colum

\* Mutant: the test is off by one.
NextColumLate(p) ==
    /\ step[p] = "colum"
    /\ IF colum + 1 > Columns THEN colum' = 0 /\ Then(p, "row")
       ELSE colum' = colum + 1 /\ Then(p, "next")
    /\ UNCHANGED <<background_console, row, printed, paper, mixed, overrun>>

NextColum(p) ==
    /\ step[p] = "colum"
    /\ IF colum + 1 >= Columns THEN colum' = 0 /\ Then(p, "row")
       ELSE colum' = colum + 1 /\ Then(p, "next")
    /\ UNCHANGED <<background_console, row, printed, paper, mixed, overrun>>

NextRow(p) ==
    /\ step[p] = "row" /\ row' = row + 1
    /\ Then(p, IF row + 1 >= Rows THEN "scroll" ELSE "next")
    /\ UNCHANGED <<background_console, colum, printed, paper, mixed, overrun>>

scroll_bg_console(p) ==
    /\ step[p] = "scroll" /\ Then(p, "next")
    /\ background_console' = [i \in DOMAIN background_console |->
          IF i + Columns \in DOMAIN background_console THEN background_console[i + Columns] ELSE Blank]
    /\ row' = row - 1
    /\ UNCHANGED <<colum, printed, paper, mixed, overrun>>

ConsoleNext ==
    /\ ~overrun
    /\ \E p \in Printers :
          \/ PrintNewline(p) \/ PrintBack(p) \/ Erase(p) \/ NextColum(p) \/ NextRow(p)
          \/ scroll_bg_console(p) \/ \E c \in Chars : PrintChar(p, c)
ConsoleSpec == ConsoleInit /\ [][ConsoleNext]_consoleVars

(***************************************************************************)
(* Properties                                                              *)
(***************************************************************************)
\* As long as tasks interrupt each other only between two characters, nothing
\* is written outside of the block, and the console shows the last rows of all
\* that they printed.
Top(n) == IF n > Rows THEN n - Rows ELSE 0
Shown(n, r) == IF Top(n) + r < n THEN paper.rows[Top(n) + r + 1] ELSE EmptyRow
ConsoleExact ==
    mixed \/ /\ ~overrun
             /\ (\A p \in Printers : step[p] = "next") =>
                  LET n == Len(paper.rows)
                  IN  /\ \A r \in 0 .. Rows - 1, k \in 0 .. Columns - 1 :
                            background_console[r * Columns + k] = Shown(n, r)[k + 1]
                      /\ colum = paper.col /\ row = n - 1 - Top(n)
=============================================================================
