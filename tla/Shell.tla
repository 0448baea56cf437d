------------------------------- MODULE Shell -------------------------------
(***************************************************************************)
(* The command interpreter of the terminal: command_received and           *)
(* on_shutdown in terminal/main.c, run_command, spawn_process and the pipe *)
(* callbacks in terminal/commands.c, the script loop in terminal/script.c. *)
(*                                                                         *)
(* A command line is a sequence of stages; a stage is one command and the  *)
(* separator get_command_type finds after it.  command_received runs the   *)
(* first stage and calls itself on the rest, and a program that calls      *)
(* system() enters command_received again, in the context of that program  *)
(* while the shell spins in spawn_process.  All these activations share    *)
(* the five globals term_stdout .. stdin_pos, so the model keeps the       *)
(* activations on one stack (frame, depth) beside the globals.             *)
(*                                                                         *)
(* Output is abstracted to tokens <<run, n>>: the n-th thing that run      *)
(* number `run` wrote.                                                     *)
(***************************************************************************)
EXTENDS Naturals, Sequences

CONSTANTS
    Lines,        \* command lines a user or a script may give
    SystemLines,  \* command lines a program may pass to system()
    Programs,     \* names search_executable finds and spawn can load
    Builtins,     \* names run_command handles itself and that print one thing
    Exit,         \* the builtin that sets *should_break
    Missing,      \* names for which spawn_process returns NULL
    Files,        \* names used as targets of > and >>
    BadFiles,     \* those resolve_check or fopen rejects
    EarlyRun,     \* what a task may do before spawn_process has wired it
    NullStrlen,   \* what strlen(NULL) may do: "zero", "fault"
    MaxLines,     \* bound: lines received
    MaxDepth,     \* bound: nested activations of command_received
    MaxWrites,    \* bound: tokens one program writes, and reads it makes
    MaxCalls,     \* bound: system() calls of one program
    MaxBufs       \* bound: heap blocks

NULL == 0
BufId == 1 .. MaxBufs
Ptr == 0 .. MaxBufs
Token == Nat \X Nat

(* enum pipe_type_e *)
Ops == {"NORMAL", "AND_RUN", "PIPE_PROC", "PIPE_FILE", "PIPE_FILE_APPEND"}
ToFile == {"PIPE_FILE", "PIPE_FILE_APPEND"}
Pipes == ToFile \cup {"PIPE_PROC"}

Commands == Programs \cup Builtins \cup Missing \cup {Exit}
Stage == [cmd : Commands \cup Files, op : Ops]

(* Only the last stage has no separator after it, and what follows a > is  *)
(* the name of a file.                                                     *)
WellFormed(line) ==
    /\ line # << >>
    /\ \A i \in 1 .. Len(line) : (line[i].op = "NORMAL") <=> (i = Len(line))
    /\ line[1].cmd \in Commands
    /\ \A i \in 1 .. Len(line) - 1 :
          line[i + 1].cmd \in Files <=> (line[i].cmd \in Commands /\ line[i].op \in ToFile)

AllLines == Lines \cup SystemLines

ASSUME LineAssumption ==
    /\ AllLines \subseteq Seq(Stage)
    /\ \A line \in AllLines : WellFormed(line)
    /\ Commands \cap Files = {}
    /\ BadFiles \subseteq Files

(* run_command compares with the names it handles itself, one after the    *)
(* other, before it searches for an executable.                            *)
ASSUME ExitAssumption == Exit \notin Programs \cup Builtins

ASSUME BoundAssumption ==
    /\ MaxLines \in Nat
    /\ MaxDepth \in Nat \ {0}
    /\ MaxWrites \in Nat
    /\ MaxCalls \in Nat
    /\ MaxBufs \in Nat
    /\ EarlyRun \subseteq {"write", "exit"}
    /\ NullStrlen \subseteq {"zero", "fault"}

VARIABLES
    term_stdout,  \* where run_command's output goes, or NULL
    term_stdin,   \* what the running command reads, or NULL
    term_stdin_size, \* tokens behind term_stdin when it was set
    stdin_pos,    \* tokens already read
    heap,         \* contents of every block, also of freed ones
    live,         \* the blocks malloc has handed out and free has not taken
    files,        \* contents of the output files
    screen,       \* what reached the screen
    frame,        \* frame[0] is the REPL or script loop, the others command_received
    task,         \* task[k] is the program frame[k] spawned
    depth,        \* the innermost activation
    interactive,  \* main's REPL, or run_script
    status,       \* the run whose exit code was last exported as "?"
    lines,        \* lines received
    runs          \* commands started

globals == <<term_stdout, term_stdin, term_stdin_size, stdin_pos>>
memory == <<heap, live>>
world == <<files, screen>>
stack == <<frame, task, depth>>
counters == <<status, lines, runs>>
vars == <<globals, memory, world, stack, counters, interactive>>

-----------------------------------------------------------------------------

(* An activation: where it is in its line, its stdin parameter, its local  *)
(* stdout, its program counter, the task it executes in (0 is the shell,   *)
(* k the program spawned by frame k) and the two results of its callee.    *)
PC == {"prompt", "enter", "exec", "spawned", "wiring", "wait", "ran", "filed", "callee",
       "returned", "finish", "gone", "none"}

Frame == [line : AllLines \cup {<< >>}, i : Nat, stdin : Ptr, stdout : Ptr, pc : PC,
          ctx : 0 .. MaxDepth, found : BOOLEAN, brk : BOOLEAN]

NoFrame == [line |-> << >>, i |-> 1, stdin |-> NULL, stdout |-> NULL, pc |-> "none",
            ctx |-> 0, found |-> FALSE, brk |-> FALSE]

NewFrame(line, i, stdin, ctx) ==
    [NoFrame EXCEPT !.line = line, !.i = i, !.stdin = stdin, !.ctx = ctx, !.pc = "enter"]

(* A spawned program: its state, whether on_exit and the pipes have been   *)
(* stored in it, the pipes run_command chose, what it wrote (early of it   *)
(* before it was wired) and what it read.                                  *)
TaskState == {"none", "running", "system", "exited", "lost"}

Task == [st : TaskState, hooked : BOOLEAN, wired : BOOLEAN, outp : BOOLEAN, inp : BOOLEAN,
         id : Nat, out : Seq(Token), early : Nat, got : Seq(Token), reads : Nat,
         calls : Nat]

NoTask == [st |-> "none", hooked |-> FALSE, wired |-> FALSE, outp |-> FALSE, inp |-> FALSE,
           id |-> 0, out |-> << >>, early |-> 0, got |-> << >>, reads |-> 0,
           calls |-> 0]

Top == frame[depth]
Op(f) == f.line[f.i].op
Cmd(f) == f.line[f.i].cmd

(* The innermost activation and the program it spawned change.             *)
Stay(f) == frame' = [frame EXCEPT ![depth] = f]
Child(t) == task' = [task EXCEPT ![depth] = t]

(* run_command receives &stdout exactly when the stage has a separator.    *)
Capturing(f) == Op(f) # "NORMAL"

Init ==
    /\ term_stdout = NULL /\ term_stdin = NULL
    /\ term_stdin_size = 0 /\ stdin_pos = 0
    /\ heap = [b \in BufId |-> << >>] /\ live = {}
    /\ files = [f \in Files |-> << >>] /\ screen = << >>
    /\ frame = [k \in 0 .. MaxDepth |-> IF k = 0 THEN [NoFrame EXCEPT !.pc = "prompt"]
                                                 ELSE NoFrame]
    /\ task = [k \in 0 .. MaxDepth |-> NoTask]
    /\ depth = 0
    /\ interactive \in BOOLEAN
    /\ status = 0 /\ lines = 0 /\ runs = 0

-----------------------------------------------------------------------------
(* Memory and output.                                                      *)

(* malloc, first fit.                                                      *)
Malloc(b) == b \in BufId \ live /\ \A c \in 1 .. b - 1 : c \in live

(* append_stdout: realloc of NULL allocates.                               *)
AppendStdout(tok) ==
    /\ UNCHANGED screen
    /\ \/ /\ term_stdout # NULL
          /\ heap' = [heap EXCEPT ![term_stdout] = Append(@, tok)]
          /\ UNCHANGED <<term_stdout, live>>
       \/ /\ term_stdout = NULL
          /\ \E b \in BufId :
                /\ Malloc(b)
                /\ term_stdout' = b
                /\ heap' = [heap EXCEPT ![b] = <<tok>>]
                /\ live' = live \cup {b}

(* write(STDOUT) in the context of task k, or of the shell itself (k = 0): *)
(* the kernel hands the text to the stdout pipe of a task that has one.    *)
Piped(k) == k # 0 /\ task[k].wired /\ task[k].outp

WriteFrom(k, tok) ==
    \/ Piped(k) /\ AppendStdout(tok)
    \/ ~Piped(k) /\ screen' = Append(screen, tok) /\ UNCHANGED <<term_stdout, memory>>

TermPrintf(k, tok) ==
    \/ term_stdout # NULL /\ AppendStdout(tok)
    \/ term_stdout = NULL /\ WriteFrom(k, tok)

-----------------------------------------------------------------------------
(* Entering and leaving activations.                                       *)

(* Every activation of a line needs a place on the stack.                  *)
Fits(line) == depth + Len(line) <= MaxDepth

Push(f, below) ==
    /\ depth' = depth + 1
    /\ frame' = [frame EXCEPT ![depth] = below, ![depth + 1] = f]

(* Mutant of Return: *should_break is set and never reset.                 *)
ReturnKeepsBreak(found, brk) ==
    LET caller == frame[depth - 1]
        system == task[depth - 1].st = "system" IN
    /\ depth' = depth - 1
    /\ frame' = [frame EXCEPT ![depth] = NoFrame,
                    ![depth - 1] = IF system THEN caller
                                   ELSE [caller EXCEPT !.pc = "returned", !.found = found,
                                                       !.brk = brk \/ caller.brk]]
    /\ task' = [task EXCEPT ![depth] = NoTask,
                    ![depth - 1] = IF system THEN [task[depth - 1] EXCEPT !.st = "running"]
                                   ELSE task[depth - 1]]

(* return found, with *should_break = brk, to the caller: an enclosing     *)
(* command_received or the command loop, or a program inside system().     *)
Return(found, brk) ==
    LET caller == frame[depth - 1]
        system == task[depth - 1].st = "system" IN
    /\ depth' = depth - 1
    /\ frame' = [frame EXCEPT ![depth] = NoFrame,
                    ![depth - 1] = IF system THEN caller
                                   ELSE [caller EXCEPT !.pc = "returned", !.found = found,
                                                       !.brk = brk]]
    /\ task' = [task EXCEPT ![depth] = NoTask,
                    ![depth - 1] = IF system THEN [task[depth - 1] EXCEPT !.st = "running"]
                                   ELSE task[depth - 1]]

(* main's REPL and run_script: hand the next line to command_received.     *)
Receive(line) ==
    /\ depth = 0 /\ Top.pc = "prompt"
    /\ lines < MaxLines /\ Fits(line)
    /\ lines' = lines + 1
    /\ Push(NewFrame(line, 1, NULL, 0), [Top EXCEPT !.pc = "callee"])
    /\ UNCHANGED <<globals, memory, world, task, status, runs, interactive>>

(* Mutant of TakeStdin: the + 1 of strlen + 1 is forgotten.                *)
TakeStdinNoTerminator(f) ==
    IF f.stdin # NULL
    THEN term_stdin' = f.stdin /\ term_stdin_size' = Len(heap[f.stdin]) - 1 /\ stdin_pos' = 0
    ELSE UNCHANGED <<term_stdin, term_stdin_size, stdin_pos>>

(* command_received up to run_command's own assignments: a stage with a    *)
(* separator passes &stdout, a fresh empty block for a pipe and NULL for   *)
(* an &, and a given stdin replaces term_stdin.                            *)
TakeStdin(f) ==
    IF f.stdin # NULL
    THEN term_stdin' = f.stdin /\ term_stdin_size' = Len(heap[f.stdin]) /\ stdin_pos' = 0
    ELSE UNCHANGED <<term_stdin, term_stdin_size, stdin_pos>>

Enter ==
    /\ Top.pc = "enter"
    /\ TakeStdin(Top)
    /\ \/ /\ Op(Top) = "NORMAL"
          /\ Stay([Top EXCEPT !.pc = "exec"])
          /\ UNCHANGED <<term_stdout, memory>>
       \/ /\ Op(Top) = "AND_RUN" /\ "zero" \in NullStrlen
          /\ Stay([Top EXCEPT !.pc = "exec"])
          /\ term_stdout' = NULL
          /\ UNCHANGED memory
       \/ /\ Op(Top) \in Pipes
          /\ \E b \in BufId :
                /\ Malloc(b)
                /\ Stay([Top EXCEPT !.pc = "exec", !.stdout = b])
                /\ term_stdout' = b
                /\ heap' = [heap EXCEPT ![b] = << >>]
                /\ live' = live \cup {b}
    /\ UNCHANGED <<world, task, depth, counters, interactive>>

(* strlen(NULL), where address 0 is not readable: behind an & run_command  *)
(* has stored the NULL in term_stdout by then and does not reach its       *)
(* stdin; in command_received it is the fwrite of a lost capture, into a   *)
(* file that could be opened.                                              *)
StrlenFaults ==
    /\ "fault" \in NullStrlen
    /\ \/ Top.pc = "enter" /\ Op(Top) = "AND_RUN" /\ term_stdout' = NULL
       \/ /\ Top.pc = "ran" /\ Op(Top) \in ToFile /\ Top.stdout = NULL
          /\ Top.line[Top.i + 1].cmd \notin BadFiles
          /\ UNCHANGED term_stdout

(* The executing task dies, and with it every activation it was in; its    *)
(* own caller sees it exit.                                                *)
Fault ==
    /\ StrlenFaults
    /\ depth' = Top.ctx
    /\ frame' = [k \in 0 .. MaxDepth |->
                    IF k > Top.ctx THEN NoFrame
                    ELSE IF k = 0 /\ Top.ctx = 0 THEN [NoFrame EXCEPT !.pc = "gone"]
                    ELSE frame[k]]
    /\ task' = [k \in 0 .. MaxDepth |->
                    IF k > Top.ctx THEN NoTask
                    ELSE IF k = Top.ctx /\ k # 0 THEN [task[k] EXCEPT !.st = "exited"]
                    ELSE task[k]]
    /\ UNCHANGED <<term_stdin, term_stdin_size, stdin_pos, memory, world, counters,
                   interactive>>

-----------------------------------------------------------------------------
(* run_command's branches.                                                 *)

ExecBuiltin ==
    /\ Top.pc = "exec" /\ Cmd(Top) \in Builtins
    /\ runs' = runs + 1
    /\ TermPrintf(Top.ctx, <<runs + 1, 1>>)
    /\ Stay([Top EXCEPT !.pc = "finish"])
    /\ UNCHANGED <<term_stdin, term_stdin_size, stdin_pos, files, task, depth, status, lines,
                   interactive>>

ExecExit ==
    /\ Top.pc = "exec" /\ Cmd(Top) = Exit
    /\ runs' = runs + 1
    /\ Stay([Top EXCEPT !.pc = "finish", !.brk = TRUE])
    /\ UNCHANGED <<globals, memory, world, task, depth, status, lines, interactive>>

(* Mutant of ExecNotFound: the failure path frees stdout, without a reset. *)
ExecNotFoundFrees ==
    /\ Top.pc = "exec" /\ Cmd(Top) \in Missing
    /\ Return(FALSE, FALSE)
    /\ live' = live \ {Top.stdout}
    /\ UNCHANGED <<globals, heap, world, counters, interactive>>

(* spawn_process returns NULL: run_command returns false on the spot, and  *)
(* so does command_received; neither touches the globals or frees stdout.  *)
ExecNotFound ==
    /\ Top.pc = "exec" /\ Cmd(Top) \in Missing
    /\ Return(FALSE, FALSE)
    /\ UNCHANGED <<globals, memory, world, counters, interactive>>

(* spawn: from here on the task runs by itself.                            *)
ExecSpawn ==
    /\ Top.pc = "exec" /\ Cmd(Top) \in Programs
    /\ runs' = runs + 1
    /\ Stay([Top EXCEPT !.pc = "spawned"])
    /\ Child([NoTask EXCEPT !.st = "running", !.id = runs + 1,
                             !.outp = (term_stdout # NULL), !.inp = (term_stdin # NULL)])
    /\ UNCHANGED <<globals, memory, world, depth, status, lines, interactive>>

(* Mutant of WireExit: on_exit is stored only beside a stdout pipe.        *)
WireExitIfPiped ==
    /\ Top.pc = "spawned"
    /\ Stay([Top EXCEPT !.pc = "wiring"])
    /\ Child([task[depth] EXCEPT !.hooked = task[depth].outp])
    /\ UNCHANGED <<globals, memory, world, depth, counters, interactive>>

(* spawn_process stores on_exit first, then the pipes and system_method,   *)
(* into a task that is already running.                                    *)
WireExit ==
    /\ Top.pc = "spawned"
    /\ Stay([Top EXCEPT !.pc = "wiring"])
    /\ Child([task[depth] EXCEPT !.hooked = TRUE])
    /\ UNCHANGED <<globals, memory, world, depth, counters, interactive>>

WirePipes ==
    /\ Top.pc = "wiring"
    /\ Stay([Top EXCEPT !.pc = "wait"])
    /\ Child([task[depth] EXCEPT !.wired = TRUE])
    /\ UNCHANGED <<globals, memory, world, depth, counters, interactive>>

(* Mutant of WaitDone: the spin on task_exit is left out.                  *)
WaitDoneAtOnce ==
    /\ Top.pc = "wait"
    /\ status' = task[depth].id
    /\ Stay([Top EXCEPT !.pc = "finish"])
    /\ UNCHANGED <<globals, memory, world, task, depth, lines, runs, interactive>>

(* The spin on task_exit ends, and export("?=...") records the exit code.  *)
WaitDone ==
    /\ Top.pc = "wait" /\ task[depth].st = "exited"
    /\ status' = task[depth].id
    /\ Stay([Top EXCEPT !.pc = "finish"])
    /\ UNCHANGED <<globals, memory, world, task, depth, lines, runs, interactive>>

(* Mutants of Finish: one of the globals is not reset.                     *)
FinishKeepsStdin ==
    /\ Top.pc = "finish"
    /\ term_stdout' = NULL
    /\ UNCHANGED <<term_stdin, term_stdin_size, stdin_pos>>
    /\ \/ /\ Capturing(Top)
          /\ Stay([Top EXCEPT !.pc = "ran", !.stdout = term_stdout])
          /\ UNCHANGED <<task, depth>>
       \/ ~Capturing(Top) /\ Return(TRUE, Top.brk)
    /\ UNCHANGED <<memory, world, counters, interactive>>

FinishKeepsStdout ==
    /\ Top.pc = "finish"
    /\ UNCHANGED term_stdout
    /\ term_stdin' = NULL /\ term_stdin_size' = 0 /\ stdin_pos' = 0
    /\ \/ /\ Capturing(Top)
          /\ Stay([Top EXCEPT !.pc = "ran", !.stdout = term_stdout])
          /\ UNCHANGED <<task, depth>>
       \/ ~Capturing(Top) /\ Return(TRUE, Top.brk)
    /\ UNCHANGED <<memory, world, counters, interactive>>

(* The end of run_command: hand back the capture, reset the globals.  A    *)
(* last stage returns at once from command_received as well.               *)
Finish ==
    /\ Top.pc = "finish"
    /\ term_stdout' = NULL
    /\ term_stdin' = NULL /\ term_stdin_size' = 0 /\ stdin_pos' = 0
    /\ \/ /\ Capturing(Top)
          /\ Stay([Top EXCEPT !.pc = "ran", !.stdout = term_stdout])
          /\ UNCHANGED <<task, depth>>
       \/ ~Capturing(Top) /\ Return(TRUE, Top.brk)
    /\ UNCHANGED <<memory, world, counters, interactive>>

-----------------------------------------------------------------------------
(* The spawned programs.                                                   *)

Runs(k, what) == task[k].st = "running" /\ (task[k].wired \/ what \in EarlyRun)

TaskWrite ==
    /\ Runs(depth, "write") /\ Len(task[depth].out) < MaxWrites
    /\ LET tok == <<task[depth].id, Len(task[depth].out) + 1>> IN
          /\ WriteFrom(depth, tok)
          /\ Child([task[depth] EXCEPT !.out = Append(@, tok),
                    !.early = @ + (IF task[depth].wired THEN 0 ELSE 1)])
    /\ UNCHANGED <<term_stdin, term_stdin_size, stdin_pos, files, frame, depth, counters,
                   interactive>>

(* A read of one token through append_stdin, which zero-fills at the end.  *)
(* Behind a pointer to a freed block is what was there or anything else.   *)
Remaining == IF term_stdin = NULL THEN 0 ELSE term_stdin_size - stdin_pos

Garbage == <<0, 0>>

Peek ==
    LET block == heap[term_stdin]
        there == stdin_pos + 1 \in DOMAIN block IN
    (IF there THEN {block[stdin_pos + 1]} ELSE {}) \cup
    (IF there /\ term_stdin \in live THEN {} ELSE {Garbage})

TaskRead ==
    /\ Runs(depth, "read") /\ task[depth].inp /\ task[depth].reads < MaxWrites
    /\ \/ /\ Remaining > 0
          /\ \E tok \in Peek :
                Child([task[depth] EXCEPT !.reads = @ + 1, !.got = Append(@, tok)])
          /\ stdin_pos' = stdin_pos + 1
       \/ /\ Remaining = 0
          /\ Child([task[depth] EXCEPT !.reads = @ + 1])
          /\ UNCHANGED stdin_pos
    /\ UNCHANGED <<term_stdout, term_stdin, term_stdin_size, memory, world, frame, depth,
                   counters, interactive>>

(* system(line): system_command_handler enters command_received with no    *)
(* stdin, in this task.                                                    *)
TaskSystem(line) ==
    /\ Runs(depth, "system")
    /\ task[depth].calls < MaxCalls /\ Fits(line)
    /\ Push(NewFrame(line, 1, NULL, depth), Top)
    /\ Child([task[depth] EXCEPT !.st = "system", !.calls = @ + 1])
    /\ UNCHANGED <<globals, memory, world, counters, interactive>>

(* The kernel sets *on_exit, if there is one yet.                          *)
TaskExit ==
    /\ Runs(depth, "exit")
    /\ Child([task[depth] EXCEPT !.st = IF task[depth].hooked THEN "exited" ELSE "lost"])
    /\ UNCHANGED <<globals, memory, world, frame, depth, counters, interactive>>

-----------------------------------------------------------------------------
(* command_received after run_command.                                     *)

(* > and >>: fopen(.., "w") keeps what is there (>> relies on it), so >    *)
(* overwrites a prefix and >> appends after a seek to the end.             *)
Overwrite(old, new) == new \o SubSeq(old, Len(new) + 1, Len(old))

Contents(b) == IF b = NULL THEN << >> ELSE heap[b]

(* Mutant of WriteFile: > appends and >> overwrites.                       *)
WriteFileSwapped ==
    /\ Top.pc = "ran" /\ Op(Top) \in ToFile
    /\ LET file == Top.line[Top.i + 1].cmd
           data == Contents(Top.stdout) IN
          \/ /\ file \in BadFiles
             /\ Return(FALSE, Top.brk)
             /\ UNCHANGED files
          \/ /\ file \notin BadFiles
             /\ Top.stdout # NULL \/ "zero" \in NullStrlen
             /\ files' = [files EXCEPT ![file] = IF Op(Top) = "PIPE_FILE"
                                                 THEN @ \o data ELSE Overwrite(@, data)]
             /\ Stay([Top EXCEPT !.pc = "filed"])
             /\ UNCHANGED <<task, depth>>
    /\ UNCHANGED <<globals, memory, screen, counters, interactive>>

WriteFile ==
    /\ Top.pc = "ran" /\ Op(Top) \in ToFile
    /\ LET file == Top.line[Top.i + 1].cmd
           data == Contents(Top.stdout) IN
          \/ /\ file \in BadFiles
             /\ Return(FALSE, Top.brk)
             /\ UNCHANGED files
          \/ /\ file \notin BadFiles
             /\ Top.stdout # NULL \/ "zero" \in NullStrlen
             /\ files' = [files EXCEPT ![file] = IF Op(Top) = "PIPE_FILE"
                                                 THEN Overwrite(@, data) ELSE @ \o data]
             /\ Stay([Top EXCEPT !.pc = "filed"])
             /\ UNCHANGED <<task, depth>>
    /\ UNCHANGED <<globals, memory, screen, counters, interactive>>

(* The stage command_received calls itself on: the next one, or the one    *)
(* after the file name; a file name that ends the line calls nothing.      *)
NextStage(f) == f.i + (IF Op(f) \in ToFile THEN 2 ELSE 1)

CallNext ==
    /\ \/ Top.pc = "ran" /\ Op(Top) \notin ToFile
       \/ Top.pc = "filed" /\ Top.line[Top.i + 1].op # "NORMAL"
    /\ Push(NewFrame(Top.line, NextStage(Top), Top.stdout, Top.ctx),
            [Top EXCEPT !.pc = "callee"])
    /\ UNCHANGED <<globals, memory, world, task, counters, interactive>>

(* Mutant of FreeAndReturn: nothing is freed.                              *)
ReturnWithoutFree ==
    /\ depth > 0
    /\ \/ Top.pc = "returned" /\ Return(Top.found, Top.brk)
       \/ /\ Top.pc = "filed" /\ Top.line[Top.i + 1].op = "NORMAL"
          /\ Return(TRUE, Top.brk)
    /\ UNCHANGED <<globals, memory, world, counters, interactive>>

(* free(stdout) and return.                                                *)
FreeAndReturn ==
    /\ depth > 0
    /\ \/ Top.pc = "returned" /\ Return(Top.found, Top.brk)
       \/ /\ Top.pc = "filed" /\ Top.line[Top.i + 1].op = "NORMAL"
          /\ Return(TRUE, Top.brk)
    /\ live' = live \ {Top.stdout}
    /\ UNCHANGED <<globals, heap, world, counters, interactive>>

-----------------------------------------------------------------------------
(* The loops around command_received.                                      *)

(* A script aborts at a command that is not found; should_break ends both. *)
LineDone ==
    /\ depth = 0 /\ Top.pc = "returned"
    /\ frame' = [frame EXCEPT ![0] = [NoFrame EXCEPT !.pc =
                    IF Top.brk \/ (~interactive /\ ~Top.found) THEN "gone" ELSE "prompt",
                    !.found = Top.found]]
    /\ UNCHANGED <<globals, memory, world, task, depth, counters, interactive>>

(* init starts a new interactive terminal; its memory is fresh.            *)
Respawn ==
    /\ depth = 0 /\ Top.pc = "gone"
    /\ interactive' = TRUE
    /\ frame' = [frame EXCEPT ![0] = [NoFrame EXCEPT !.pc = "prompt"]]
    /\ term_stdout' = NULL /\ term_stdin' = NULL /\ term_stdin_size' = 0 /\ stdin_pos' = 0
    /\ heap' = [b \in BufId |-> << >>] /\ live' = {}
    /\ UNCHANGED <<world, task, depth, counters>>

(* The script is over, or the keyboard delivers end of file.               *)
EndOfInput ==
    /\ depth = 0 /\ Top.pc = "prompt"
    /\ frame' = [frame EXCEPT ![0].pc = "gone"]
    /\ UNCHANGED <<globals, memory, world, task, depth, counters, interactive>>

Shell ==
    \/ Enter \/ Fault \/ ExecBuiltin \/ ExecExit \/ ExecNotFound \/ ExecSpawn
    \/ WireExit \/ WirePipes \/ WaitDone \/ Finish \/ WriteFile \/ CallNext \/ FreeAndReturn \/ LineDone

Next ==
    \/ \E line \in Lines : Receive(line)
    \/ Shell
    \/ TaskWrite \/ TaskRead \/ TaskExit
    \/ \E line \in SystemLines : TaskSystem(line)
    \/ EndOfInput \/ Respawn

(* The shell and init are scheduled, and every program comes to its end.   *)
Fairness == WF_vars(Shell) /\ WF_vars(Respawn) /\ WF_vars(TaskExit)

Spec == Init /\ [][Next]_vars
FairSpec == Spec /\ Fairness

-----------------------------------------------------------------------------
(* Type correctness.                                                       *)
TypeOK ==
    /\ term_stdout \in Ptr /\ term_stdin \in Ptr
    /\ term_stdin_size \in Nat /\ stdin_pos \in Nat
    /\ heap \in [BufId -> Seq(Token)] /\ live \subseteq BufId
    /\ files \in [Files -> Seq(Token)] /\ screen \in Seq(Token)
    /\ frame \in [0 .. MaxDepth -> Frame]
    /\ task \in [0 .. MaxDepth -> Task]
    /\ depth \in 0 .. MaxDepth
    /\ interactive \in BOOLEAN
    /\ status \in Nat /\ lines \in Nat /\ runs \in Nat

(* The block output is appended to has not been freed, whatever failed or  *)
(* was nested before (run_command's term_stdout against the free(stdout)   *)
(* of command_received).                                                   *)
CaptureLive == term_stdout # NULL => term_stdout \in live

(* A local stdout of command_received is allocated and no other activation *)
(* holds the same block: free(stdout) never frees a block twice, although  *)
(* run_command hands back whatever term_stdout has become.                 *)
OwnedOnce ==
    \A j \in 1 .. depth : frame[j].stdout # NULL =>
        /\ frame[j].stdout \in live
        /\ \A k \in 1 .. depth : k # j => frame[k].stdout # frame[j].stdout

(* After a line whose commands were all found the globals are reset: only  *)
(* a failing line can leave a capture or an input behind for the next one. *)
ResetAfterSuccess ==
    depth = 0 /\ frame[0].found => term_stdout = NULL /\ term_stdin = NULL

(* main.c: "we need to run the next command with the stdout as the stdin": *)
(* all the program before a | wrote is what the next command is given.     *)
NextGetsStdout ==
    \A k \in 1 .. depth :
        /\ frame[k].pc = "callee" /\ Op(frame[k]) = "PIPE_PROC" /\ Cmd(frame[k]) \in Programs
        => Contents(frame[k].stdout) = task[k].out

(* main.c: "Set to NULL by default, so that stdout isn't send if it isn't  *)
(* needed": the command after an & is given no stdin.                      *)
NotSentAfterAnd ==
    \A k \in 2 .. depth :
        /\ frame[k - 1].pc = "callee" /\ Op(frame[k - 1]) = "AND_RUN"
        => frame[k].stdin = NULL

(* main.c: "Make sure to free the stdout if it was allocated": nothing is  *)
(* allocated any more when the loop waits for the next line.               *)
FreedIfAllocated == depth = 0 => live = {}

(* script.c and main.c: "This should block while command is running": no   *)
(* activation of command_received ends while its program still runs.       *)
BlocksWhileRunning ==
    [][\A k \in 1 .. MaxDepth : task[k].st \in {"running", "system"} => depth' >= k]_vars

LastCommand(line) ==
    LET n == Len(line) IN IF line[n].cmd \in Files THEN line[n - 1].cmd ELSE line[n].cmd

(* A found line ends the shell exactly when exit is its last command, and  *)
(* an exit inside system() never does (should_break is reset by every      *)
(* activation and local to system_command_handler).                        *)
ExitIsLast ==
    [][frame[0].pc = "callee" /\ frame'[0].pc = "returned" /\ frame'[0].found
          => (frame'[0].brk <=> LastCommand(frame[1].line) = Exit)]_vars

(* Every line received comes back to the loop.                             *)
LineReturns == (depth > 0) ~> (depth = 0)
=============================================================================
