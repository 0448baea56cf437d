------------------------------ MODULE MCShell ------------------------------
(***************************************************************************)
(* Lines for model-checking Shell.  a and b are programs, p a builtin that *)
(* prints, x a name that is not found, f a file that can be written and g  *)
(* one that cannot.                                                        *)
(***************************************************************************)
EXTENDS ShellPipeline

S(cmd, op) == [cmd |-> cmd, op |-> op]

Alone(c) == <<S(c, "NORMAL")>>
Two(c, op, d) == <<S(c, op), S(d, "NORMAL")>>

(* Every command is found and every file can be written.                   *)
CleanLines ==
    {Two("a", "PIPE_PROC", "b"), Two("p", "PIPE_PROC", "a"), Two("a", "AND_RUN", "p"),
     Two("a", "PIPE_FILE", "f"), Two("b", "PIPE_FILE_APPEND", "f"),
     Two("exit", "AND_RUN", "p"), Two("a", "AND_RUN", "exit"),
     <<S("a", "PIPE_FILE_APPEND"), S("f", "AND_RUN"), S("b", "NORMAL")>>,
     <<S("p", "PIPE_PROC"), S("a", "PIPE_PROC"), S("b", "NORMAL")>>}

(* Lines that fail, and lines that then run with what those left behind.   *)
FailingLines ==
    {Alone("p"), Two("x", "PIPE_FILE", "f"), Two("a", "PIPE_PROC", "x"),
     Two("p", "PIPE_FILE", "g"), Two("exit", "AND_RUN", "b"), Two("a", "AND_RUN", "exit"),
     Two("a", "PIPE_FILE", "f")}

(* What programs pass to system().                                         *)
NestedLines == {Alone("exit"), Two("p", "PIPE_PROC", "b"), Two("x", "PIPE_FILE", "f"),
                Two("p", "AND_RUN", "p")}

NoLines == {}
=============================================================================
