---------------------------- MODULE ShellPipeline ----------------------------
(***************************************************************************)
(* The shell implements the pipeline: for lines whose commands are all     *)
(* found and make no system() call, what the activations of               *)
(* command_received, the globals and the heap do is what Pipeline says.    *)
(***************************************************************************)
EXTENDS Shell

(* Every command is found, every file can be written, no program calls     *)
(* system() and address 0 can be read.                                     *)
Clean ==
    /\ \A line \in Lines : \A i \in 1 .. Len(line) : line[i].cmd \notin Missing \cup BadFiles
    /\ SystemLines = {}
    /\ "fault" \notin NullStrlen

(* A stage is at work until its activation has the result of the next one, *)
(* and the line is over when the last stage starts returning.              *)
Working == depth > 0 /\ Top.pc # "returned"

Pipe == INSTANCE Pipeline WITH
    line <- IF Working THEN Top.line ELSE << >>,
    at <- IF Working THEN Top.i ELSE 0,
    input <- IF Working THEN Contents(Top.stdin) ELSE << >>,
    got <- IF Working THEN task[depth].got ELSE << >>,
    captured <- IF Working THEN Contents(Top.stdout) ELSE << >>,
    saved <- Working /\ Top.pc = "filed"

(* Every behaviour of the shell is one of the pipeline: each stage reads   *)
(* only what its predecessor printed into the pipe, in order, files get    *)
(* exactly what was captured, and stages never overlap.                    *)
ImplementsPipeline == Pipe!Spec
=============================================================================
