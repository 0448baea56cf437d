------------------------------ MODULE Pipeline ------------------------------
(***************************************************************************)
(* What the terminal promises of one command line, as the comments of      *)
(* command_received put it: the commands run one after the other; what a   *)
(* command before a | prints is the next one's input; what a command       *)
(* before > or >> prints goes into the file, and on to the command after   *)
(* the file if there is one; everything else goes to the screen.           *)
(* A command may print to the screen before its pipe is attached.          *)
(***************************************************************************)
EXTENDS Naturals, Sequences

CONSTANTS Lines, Files

VARIABLES
    line,      \* the line being run
    at,        \* the stage being run, 0 between lines
    input,     \* what the stage may read
    got,       \* what it has read
    captured,  \* what it has printed into its pipe
    saved,     \* whether that has been written to its file
    files,
    screen

vars == <<line, at, input, got, captured, saved, files, screen>>

ToFile == {"PIPE_FILE", "PIPE_FILE_APPEND"}

Op == line[at].op

Init ==
    /\ line = << >> /\ at = 0
    /\ input = << >> /\ got = << >> /\ captured = << >> /\ saved = FALSE
    /\ files = [f \in Files |-> << >>] /\ screen = << >>

Start(l) ==
    /\ at = 0
    /\ line' = l /\ at' = 1
    /\ UNCHANGED <<input, got, captured, saved, files, screen>>

Longer(new, old) == Len(new) = Len(old) + 1 /\ SubSeq(new, 1, Len(old)) = old

(* One thing more is printed.  Only a piped stage prints into its pipe, and *)
(* nothing once it is saved.                                               *)
Output ==
    /\ at # 0 /\ ~saved
    /\ \/ /\ captured = << >>
          /\ Longer(screen', screen)
          /\ UNCHANGED captured
       \/ /\ Op \notin {"NORMAL", "AND_RUN"}
          /\ Longer(captured', captured)
          /\ UNCHANGED screen
    /\ UNCHANGED <<line, at, input, got, saved, files>>

Read ==
    /\ at # 0 /\ Len(got) < Len(input)
    /\ got' = Append(got, input[Len(got) + 1])
    /\ UNCHANGED <<line, at, input, captured, saved, files, screen>>

(* >> keeps the file and adds to it, > writes over its beginning.          *)
Save ==
    /\ at # 0 /\ Op \in ToFile /\ ~saved
    /\ saved' = TRUE
    /\ LET file == line[at + 1].cmd
           old == files[file] IN
       files' = [files EXCEPT ![file] =
                    IF Op = "PIPE_FILE_APPEND" THEN old \o captured
                    ELSE captured \o SubSeq(old, Len(captured) + 1, Len(old))]
    /\ UNCHANGED <<line, at, input, got, captured, screen>>

(* The next command gets what this one printed into its pipe.              *)
Advance ==
    /\ at # 0 /\ (Op \in ToFile => saved)
    /\ at' = at + (IF Op \in ToFile THEN 2 ELSE 1)
    /\ at' <= Len(line)
    /\ input' = captured
    /\ got' = << >> /\ captured' = << >> /\ saved' = FALSE
    /\ UNCHANGED <<line, files, screen>>

(* The line is over: after its last command, or after a file that ends it. *)
End ==
    /\ at # 0
    /\ \/ Op = "NORMAL"
       \/ Op \in ToFile /\ saved /\ at + 1 = Len(line)
    /\ line' = << >> /\ at' = 0
    /\ input' = << >> /\ got' = << >> /\ captured' = << >> /\ saved' = FALSE
    /\ UNCHANGED <<files, screen>>

Next ==
    \/ \E l \in Lines : Start(l)
    \/ Output \/ Read \/ Save \/ Advance \/ End

Spec == Init /\ [][Next]_vars
=============================================================================
