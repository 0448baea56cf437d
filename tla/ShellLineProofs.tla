-------------------------- MODULE ShellLineProofs --------------------------
(***************************************************************************)
(* What a line leaves behind in the shell, and what it hands back: more of *)
(* what holds of Shell for all lines, programs and bounds.  It rests on    *)
(* the shape of the stack, proved in ShellProofs.                          *)
(***************************************************************************)
EXTENDS ShellProofs, ShellPipeline

(* What return does to the stack: the caller was waiting for its callee or *)
(* for a program inside system().                                          *)
LEMMA ReturnResult ==
    ASSUME IInv, depth > 0, NEW found \in BOOLEAN, NEW brk \in BOOLEAN, Return(found, brk)
    PROVE  /\ depth' = depth - 1 /\ depth' \in 0 .. MaxDepth /\ frame[depth'] \in Frame
           /\ \A k \in 0 .. depth - 2 : frame'[k] = frame[k]
           /\ \/ /\ frame[depth'].pc = "callee"
                 /\ frame'[depth'] = [frame[depth'] EXCEPT !.pc = "returned", !.found = found,
                                                           !.brk = brk]
              \/ /\ depth' > 0 /\ frame[depth'].pc \in Waiting
                 /\ frame'[depth'] = frame[depth']
<1>1. /\ depth \in 1 .. MaxDepth /\ frame \in [0 .. MaxDepth -> Frame] /\ MaxDepth \in Nat
      /\ depth' = depth - 1
  BY TopFacts, BoundAssumption DEF IInv, TypeOK, Return
<1>2. /\ depth' \in 0 .. MaxDepth /\ frame[depth'] \in Frame /\ CalleeOrSystem(depth')
      /\ task[0].st = "none"
  BY <1>1 DEF IInv, Shape
<1>3. \A k \in 0 .. depth - 2 : frame'[k] = frame[k]
  BY <1>1 DEF Return
<1>4. CASE task[depth'].st = "system"
  <2>1. frame'[depth'] = frame[depth']
    BY <1>1, <1>2, <1>4 DEF Return
  <2>2. depth' > 0
    BY <1>1, <1>2, <1>4
  <2>3. ShapeAt(depth')
    BY <1>1, <2>2 DEF IInv, Shape
  <2>4. frame[depth'].pc \in Waiting
    BY <1>4, <2>3 DEF ShapeAt
  <2>5. QED
    BY <1>1, <1>2, <1>3, <2>1, <2>2, <2>4
<1>5. CASE task[depth'].st # "system"
  <2>1. frame[depth'].pc = "callee"
    BY <1>2, <1>5 DEF CalleeOrSystem
  <2>2. frame'[depth'] = [frame[depth'] EXCEPT !.pc = "returned", !.found = found, !.brk = brk]
    BY <1>1, <1>2, <1>5 DEF Return
  <2>3. QED
    BY <1>1, <1>2, <1>3, <2>1, <2>2
<1>6. QED
  BY <1>4, <1>5

(* A fault lands in the command loop, which is gone, or in an activation   *)
(* that waits for the program that died.                                   *)
LEMMA FaultResult ==
    ASSUME IInv, Fault
    PROVE  /\ depth > 0 /\ depth' \in 0 .. depth - 1
           /\ depth' = 0 => frame'[0] = [NoFrame EXCEPT !.pc = "gone"]
           /\ depth' > 0 => frame[depth'].pc \in {"callee"} \cup Waiting
           /\ \A k \in 1 .. depth' : frame'[k] = frame[k]
<1>1. /\ depth > 0 /\ depth \in 1 .. MaxDepth /\ MaxDepth \in Nat /\ depth' = Top.ctx
      /\ Top.ctx \in 0 .. depth - 1
  <2>1. depth > 0 /\ depth \in 1 .. MaxDepth /\ MaxDepth \in Nat
    BY InLine, TopFacts, BoundAssumption DEF Fault, StrlenFaults
  <2>2. Top.ctx < depth /\ Top.ctx \in Nat
    BY <2>1, TopFacts, ContextType DEF ContextAt, Top
  <2>3. QED
    BY <2>1, <2>2 DEF Fault
<1>2. ASSUME NEW k \in 1 .. depth' PROVE frame'[k] = frame[k]
  <2>1. k \in 0 .. MaxDepth /\ ~(k > Top.ctx) /\ k # 0
    BY <1>1
  <2>2. QED
    BY <2>1 DEF Fault
<1>3. depth' = 0 => frame'[0] = [NoFrame EXCEPT !.pc = "gone"]
  BY <1>1 DEF Fault
<1>4. depth' > 0 => frame[depth'].pc \in {"callee"} \cup Waiting
  BY <1>1 DEF IInv, Shape, CalleeOrSystem
<1>5. QED
  BY <1>1, <1>2, <1>3, <1>4

(* A running program is waited for by the innermost activation.            *)
LEMMA RunsWaiting == IInv /\ task[depth].st = "running" => depth > 0 /\ Top.pc \in Waiting
BY RunsInLine, TopFacts DEF ShapeAt, Top

(* What the innermost activation becomes by a step that neither enters nor *)
(* leaves one.                                                             *)
LEMMA StayResult ==
    ASSUME IInv, depth > 0, NEW f, Stay(f)
    PROVE  frame'[depth] = f /\ \A k \in 0 .. depth - 1 : frame'[k] = frame[k]
BY TopFacts, BoundAssumption DEF IInv, TypeOK, Stay

LEMMA PushResult ==
    ASSUME IInv, depth < MaxDepth, NEW f, NEW below, Push(f, below)
    PROVE  /\ depth' = depth + 1 /\ frame'[depth'] = f /\ frame'[depth] = below
           /\ \A k \in 0 .. depth - 1 : frame'[k] = frame[k]
BY BoundAssumption DEF IInv, TypeOK, Push

-----------------------------------------------------------------------------
(* The globals are reset when run_command ends and stay so until the       *)
(* result of a found command has reached the command loop.                 *)
Settled ==
    \/ Top.pc \in {"ran", "filed"}
    \/ Top.pc = "returned" /\ Top.found
    \/ depth = 0 /\ Top.found

Clear == term_stdout = NULL /\ term_stdin = NULL

LEMMA ResetStep ==
    ASSUME IInv, Settled => Clear, [Next]_vars
    PROVE  (Settled => Clear)'
<1>1. depth \in 0 .. MaxDepth /\ MaxDepth \in Nat
  BY BoundAssumption DEF IInv, TypeOK
<1>2. ASSUME Return(FALSE, FALSE) \/ Return(FALSE, Top.brk), depth > 0 PROVE ~Settled'
  <2>1. PICK brk \in BOOLEAN : Return(FALSE, brk)
    BY <1>2, TopFacts DEF Frame
  <2>2. /\ depth' = depth - 1 /\ frame[depth'] \in Frame
        /\ \/ frame'[depth'] = [frame[depth'] EXCEPT !.pc = "returned", !.found = FALSE,
                                                     !.brk = brk]
           \/ depth' > 0 /\ frame[depth'].pc \in Waiting /\ frame'[depth'] = frame[depth']
    BY <1>2, <2>1, ReturnResult
  <2>3. CASE frame'[depth'] = [frame[depth'] EXCEPT !.pc = "returned", !.found = FALSE, !.brk = brk]
    <3>1. frame'[depth'].pc = "returned" /\ frame'[depth'].found = FALSE
      BY <2>2, <2>3 DEF Frame
    <3>2. QED
      BY <3>1 DEF Settled, Top
  <2>4. CASE depth' > 0 /\ frame[depth'].pc \in Waiting /\ frame'[depth'] = frame[depth']
    BY <2>4, <1>1, <1>2, <2>2 DEF Settled, Top, Waiting
  <2>5. QED
    BY <2>2, <2>3, <2>4
<1>3. ASSUME NEW f, Stay(f), depth > 0, depth' = depth,
             f.pc \in {"exec", "spawned", "wiring", "wait", "finish"}
      PROVE  ~Settled'
  BY <1>3, StayResult DEF Settled, Top
<1>4. CASE Enter
  BY <1>4, InLine, TopFacts, <1>3 DEF Enter, Frame
<1>5. CASE Fault
  BY <1>5, FaultResult DEF Settled, Top, NoFrame, Waiting
<1>6. CASE ExecBuiltin \/ ExecExit \/ ExecSpawn \/ WireExit \/ WirePipes \/ WaitDone
  BY <1>6, InLine, TopFacts, <1>3
  DEF ExecBuiltin, ExecExit, ExecSpawn, WireExit, WirePipes, WaitDone, Frame
<1>7. CASE ExecNotFound
  BY <1>7, InLine, <1>2 DEF ExecNotFound
<1>8. CASE Finish
  BY <1>8 DEF Finish, Clear
<1>9. CASE WriteFile
  <2>1. CASE Return(FALSE, Top.brk)
    BY <1>9, <2>1, InLine, <1>2 DEF WriteFile
  <2>2. CASE ~Return(FALSE, Top.brk)
    BY <1>9 DEF WriteFile, Settled, Clear, globals
  <2>3. QED
    BY <2>1, <2>2
<1>10. CASE FreeAndReturn
  <2>1. CASE Settled
    BY <1>10, <2>1 DEF FreeAndReturn, Clear, globals
  <2>2. CASE ~Settled
    <3>1. Return(FALSE, Top.brk) /\ depth > 0
      BY <1>10, <2>2, TopFacts DEF FreeAndReturn, Settled, Frame
    <3>2. QED
      BY <1>2, <3>1
  <2>3. QED
    BY <2>1, <2>2
<1>11. ASSUME NEW f, NEW below, depth < MaxDepth, Push(f, below), f.pc = "enter" PROVE ~Settled'
  BY <1>1, <1>11, PushResult DEF Settled, Top
<1>12. ASSUME NEW line, NEW i, NEW stdin, NEW ctx PROVE NewFrame(line, i, stdin, ctx).pc = "enter"
  BY DEF NewFrame, NoFrame
<1>13. CASE CallNext
  <2> DEFINE f == NewFrame(Top.line, NextStage(Top), Top.stdout, Top.ctx)
             below == [Top EXCEPT !.pc = "callee"]
  <2>1. Push(f, below) /\ f.pc = "enter"
    BY <1>12, <1>13 DEF CallNext
  <2>2. depth + 1 \in 0 .. MaxDepth
    BY <1>13, CallNextStack, <2>1 DEF StackOK, Push
  <2> HIDE DEF f, below
  <2>3. QED
    BY <1>1, <1>11, <2>1, <2>2
<1>14. CASE \E line \in Lines : Receive(line)
  <2>1. PICK line \in Lines : Receive(line)
    BY <1>14
  <2> DEFINE f == NewFrame(line, 1, NULL, 0)
             below == [Top EXCEPT !.pc = "callee"]
  <2>2. Push(f, below) /\ f.pc = "enter"
    BY <1>12, <2>1 DEF Receive
  <2>3. depth + 1 \in 0 .. MaxDepth
    BY <2>1, ReceiveStack, <2>2 DEF StackOK, Push
  <2> HIDE DEF f, below
  <2>4. QED
    BY <1>1, <1>11, <2>2, <2>3
<1>15. CASE \E line \in SystemLines : TaskSystem(line)
  <2>1. PICK line \in SystemLines : TaskSystem(line)
    BY <1>15
  <2> DEFINE f == NewFrame(line, 1, NULL, depth)
  <2>2. Push(f, Top) /\ f.pc = "enter"
    BY <1>12, <2>1 DEF TaskSystem
  <2>3. depth + 1 \in 0 .. MaxDepth
    BY <2>1, TaskSystemStack, <2>2 DEF StackOK, Push
  <2> HIDE DEF f
  <2>4. QED
    BY <1>1, <1>11, <2>2, <2>3
<1>16. CASE LineDone \/ EndOfInput \/ Respawn
  <2>1. depth = 0 /\ depth' = 0 /\ frame \in [0 .. MaxDepth -> Frame]
    BY <1>16 DEF LineDone, EndOfInput, Respawn, IInv, TypeOK
  <2>2. CASE Respawn
    BY <2>1, <2>2 DEF Respawn, Clear
  <2>3. CASE LineDone \/ EndOfInput
    <3>1. PICK pc \in {"gone", "prompt"} : /\ frame'[0].found = frame[0].found
                                         /\ frame'[0].pc = pc
      <4>1. Top = frame[0] /\ frame[0] \in Frame
        BY <1>1, <2>1 DEF Top
      <4>2. CASE EndOfInput
        BY <2>1, <4>1, <4>2 DEF EndOfInput, Frame
      <4>3. CASE LineDone
        <5> DEFINE p == IF Top.brk \/ (~interactive /\ ~Top.found) THEN "gone" ELSE "prompt"
        <5>1. frame' = [frame EXCEPT ![0] = [NoFrame EXCEPT !.pc = p, !.found = Top.found]]
          BY <4>3 DEF LineDone
        <5>2. p \in {"gone", "prompt"}
          OBVIOUS
        <5> HIDE DEF p
        <5>3. frame'[0].found = Top.found /\ frame'[0].pc = p
          BY <1>1, <2>1, <5>1 DEF NoFrame
        <5>4. QED
          BY <4>1, <5>2, <5>3
      <4>4. QED
        BY <2>3, <4>2, <4>3
    <3>2. UNCHANGED Clear
      BY <2>3 DEF LineDone, EndOfInput, Clear, globals
    <3>3. Settled' => Settled
      BY <2>1, <3>1 DEF Settled, Top
    <3>4. QED
      BY <3>2, <3>3
  <2>4. QED
    BY <1>16, <2>2, <2>3
<1>17. CASE TaskWrite \/ TaskRead \/ TaskExit
  <2>1. UNCHANGED <<frame, depth>> /\ task[depth].st = "running"
    BY <1>17 DEF TaskWrite, TaskRead, TaskExit, Runs
  <2>2. QED
    BY <2>1, RunsWaiting DEF Settled, Top, Waiting
<1>18. CASE UNCHANGED vars
  BY <1>18 DEF vars, globals, stack, Settled, Clear, Top
<1>19. QED
  BY <1>4, <1>5, <1>6, <1>7, <1>8, <1>9, <1>10, <1>13, <1>14, <1>15, <1>16, <1>17, <1>18
  DEF Next, Shell

(* Only a failing line leaves a capture or an input behind: after one whose *)
(* commands were all found, whatever they called through system(), the     *)
(* globals are reset (the end of run_command against its early returns).   *)
THEOREM ResetsAfterSuccess == Spec => []ResetAfterSuccess
<1>1. Init => (Settled => Clear)
  BY BoundAssumption DEF Init, Clear
<1>2. (Settled => Clear) => ResetAfterSuccess
  BY DEF ResetAfterSuccess, Settled, Clear, Top
<1>3. IInv /\ (Settled => Clear) /\ [Next]_vars => (Settled => Clear)'
  BY ResetStep
<1>4. QED
  BY <1>1, <1>2, <1>3, StackDiscipline, PTL DEF Spec

-----------------------------------------------------------------------------
(* An activation knows whether its own command was exit until it has the   *)
(* result of the last one of its line.                                     *)
ExitAt(f) ==
    /\ Cmd(f) \in Commands
    /\ f.pc \in Waiting => Cmd(f) \in Programs
    /\ f.pc \in {"enter", "exec"} \cup Waiting => ~f.brk
    /\ f.pc \in {"finish", "ran", "filed"} => (f.brk <=> Cmd(f) = Exit)
    /\ f.pc = "returned" /\ f.found => (f.brk <=> LastCommand(f.line) = Exit)

(* A callee works on the line of its caller.                               *)
SameLine(k) == frame[k].pc = "callee" => frame[k + 1].line = frame[k].line

ExitInv == (\A k \in 1 .. depth : ExitAt(frame[k])) /\ \A k \in 1 .. depth - 1 : SameLine(k)

(* Stages and the names of files take turns as the > and >> of a line say. *)
LEMMA StageCommands ==
    ASSUME NEW line \in AllLines, NEW i \in 1 .. Len(line), line[i].cmd \in Commands
    PROVE  /\ line[i].op = "NORMAL" => LastCommand(line) = line[i].cmd
           /\ line[i].op \in {"AND_RUN", "PIPE_PROC"} => line[i + 1].cmd \in Commands
           /\ line[i].op \in ToFile =>
                /\ line[i + 1].op = "NORMAL" => LastCommand(line) = line[i].cmd
                /\ line[i + 1].op # "NORMAL" => line[i + 2].cmd \in Commands
<1>1. /\ Len(line) \in Nat \ {0} /\ \A j \in 1 .. Len(line) : line[j] \in Stage
      /\ Commands \cap Files = {}
  BY LineFacts, LineAssumption
<1>2. /\ \A j \in 1 .. Len(line) : (line[j].op = "NORMAL") <=> (j = Len(line))
      /\ \A j \in 1 .. Len(line) - 1 :
            line[j + 1].cmd \in Files <=> (line[j].cmd \in Commands /\ line[j].op \in ToFile)
  BY LineAssumption DEF WellFormed
<1>3. CASE line[i].op = "NORMAL"
  BY <1>1, <1>2, <1>3 DEF LastCommand, ToFile
<1>4. CASE line[i].op \in {"AND_RUN", "PIPE_PROC"}
  <2>1. i \in 1 .. Len(line) - 1 /\ i + 1 \in 1 .. Len(line)
    BY <1>1, <1>2, <1>4
  <2>2. line[i + 1].cmd \notin Files /\ line[i + 1] \in Stage
    BY <1>1, <1>2, <1>4, <2>1 DEF ToFile
  <2>3. line[i + 1].cmd \in Commands
    BY <2>2 DEF Stage
  <2>4. QED
    BY <1>4, <2>3 DEF ToFile
<1>5. CASE line[i].op \in ToFile
  <2>1. line[i].op # "NORMAL" /\ i \in 1 .. Len(line) - 1 /\ i + 1 \in 1 .. Len(line)
    BY <1>1, <1>2, <1>5 DEF ToFile
  <2>2. line[i + 1].cmd \in Files
    BY <1>2, <1>5, <2>1
  <2>3. CASE line[i + 1].op = "NORMAL"
    <3>1. i + 1 = Len(line) /\ Len(line) - 1 = i
      BY <1>1, <1>2, <2>1, <2>3
    <3>2. LastCommand(line) = line[i].cmd
      BY <2>2, <3>1 DEF LastCommand
    <3>3. QED
      BY <1>5, <2>1, <2>3, <3>2 DEF ToFile
  <2>4. CASE line[i + 1].op # "NORMAL"
    <3>1. i + 1 \in 1 .. Len(line) - 1 /\ i + 2 \in 1 .. Len(line) /\ (i + 1) + 1 = i + 2
      BY <1>1, <1>2, <2>1, <2>4
    <3>2. line[i + 2].cmd \notin Files /\ line[i + 2] \in Stage
      BY <1>1, <1>2, <2>2, <3>1
    <3>3. line[i + 2].cmd \in Commands
      BY <3>2 DEF Stage
    <3>4. QED
      BY <1>5, <2>1, <2>4, <3>3 DEF ToFile
  <2>5. QED
    BY <2>1, <2>3, <2>4
<1>6. QED
  <2>1. line[i].op \in ToFile \cup {"NORMAL", "AND_RUN", "PIPE_PROC"}
    BY <1>1 DEF Stage, Ops, ToFile
  <2>2. QED
    BY <2>1, <1>3, <1>4, <1>5

LEMMA ExitStay ==
    ASSUME IInv, ExitInv, depth > 0, NEW f, Stay(f), depth' = depth,
           f.line = Top.line, ExitAt(f)
    PROVE  ExitInv'
<1>1. /\ depth \in 1 .. MaxDepth /\ frame'[depth] = f
      /\ \A k \in 0 .. depth - 1 : frame'[k] = frame[k]
  BY TopFacts, StayResult
<1>2. ASSUME NEW k \in 1 .. depth' PROVE ExitAt(frame'[k])
  BY <1>1 DEF ExitInv
<1>3. ASSUME NEW k \in 1 .. depth' - 1 PROVE SameLine(k)'
  <2>1. k \in 1 .. depth - 1 /\ frame'[k] = frame[k] /\ SameLine(k)
    BY <1>1 DEF ExitInv
  <2>2. frame'[k + 1].line = frame[k + 1].line
    BY <1>1, <2>1 DEF Top
  <2>3. QED
    BY <2>1, <2>2 DEF SameLine
<1>4. QED
  BY <1>2, <1>3 DEF ExitInv, ExitAt, Cmd

LEMMA ExitReturn ==
    ASSUME IInv, ExitInv, depth > 0, NEW found \in BOOLEAN, NEW brk \in BOOLEAN,
           Return(found, brk), found => (brk <=> LastCommand(Top.line) = Exit)
    PROVE  ExitInv'
<1>1. /\ depth' = depth - 1 /\ depth \in 1 .. MaxDepth /\ frame[depth'] \in Frame
      /\ \A k \in 0 .. depth - 2 : frame'[k] = frame[k]
      /\ \/ /\ frame[depth'].pc = "callee"
            /\ frame'[depth'] = [frame[depth'] EXCEPT !.pc = "returned", !.found = found,
                                                      !.brk = brk]
         \/ /\ depth' > 0 /\ frame[depth'].pc \in Waiting
            /\ frame'[depth'] = frame[depth']
  BY ReturnResult, TopFacts
<1>2. ASSUME depth' > 0 PROVE ExitAt(frame'[depth']) /\ frame'[depth'].line = frame[depth'].line
  <2>1. depth' \in 1 .. depth - 1 /\ ExitAt(frame[depth']) /\ SameLine(depth')
    BY <1>1, <1>2 DEF ExitInv
  <2>2. CASE frame'[depth'] = frame[depth']
    BY <2>1, <2>2
  <2>3. CASE /\ frame[depth'].pc = "callee"
             /\ frame'[depth'] = [frame[depth'] EXCEPT !.pc = "returned", !.found = found,
                                                       !.brk = brk]
    <3>1. frame[depth].line = frame[depth'].line
      BY <1>1, <2>1, <2>3 DEF SameLine
    <3>2. /\ frame'[depth'].pc = "returned" /\ frame'[depth'].found = found
          /\ frame'[depth'].brk = brk /\ frame'[depth'].line = frame[depth'].line
          /\ frame'[depth'].i = frame[depth'].i
      BY <1>1, <2>3 DEF Frame
    <3>3. found => (brk <=> LastCommand(frame'[depth'].line) = Exit)
      BY <3>1, <3>2 DEF Top
    <3>4. QED
      BY <2>1, <3>2, <3>3 DEF ExitAt, Cmd, Waiting
  <2>4. QED
    BY <1>1, <2>2, <2>3
<1>3. ASSUME NEW k \in 1 .. depth' PROVE ExitAt(frame'[k])
  BY <1>1, <1>2, <1>3 DEF ExitInv
<1>4. ASSUME NEW k \in 1 .. depth' - 1 PROVE SameLine(k)'
  <2>1. k \in 1 .. depth - 2 /\ frame'[k] = frame[k] /\ SameLine(k)
    BY <1>1 DEF ExitInv
  <2>2. frame'[k + 1].line = frame[k + 1].line
    BY <1>1, <1>2, <2>1
  <2>3. QED
    BY <2>1, <2>2 DEF SameLine
<1>5. QED
  BY <1>3, <1>4 DEF ExitInv, ExitAt, Cmd

LEMMA ExitPush ==
    ASSUME IInv, ExitInv, depth < MaxDepth, NEW f, NEW below, Push(f, below), ExitAt(f),
           depth > 0 => /\ ExitAt(below) /\ below.line = Top.line
                        /\ below.pc = "callee" => f.line = below.line
    PROVE  ExitInv'
<1>1. /\ depth' = depth + 1 /\ depth \in 0 .. MaxDepth
      /\ frame'[depth'] = f /\ frame'[depth] = below
      /\ \A k \in 0 .. depth - 1 : frame'[k] = frame[k]
  BY PushResult DEF IInv, TypeOK
<1>2. ASSUME NEW k \in 1 .. depth' PROVE ExitAt(frame'[k])
  BY <1>1 DEF ExitInv
<1>3. ASSUME NEW k \in 1 .. depth' - 1 PROVE SameLine(k)'
  <2>1. CASE k = depth
    BY <1>1, <2>1 DEF SameLine
  <2>2. CASE k # depth
    <3>1. k \in 1 .. depth - 1 /\ frame'[k] = frame[k] /\ SameLine(k)
      BY <1>1, <2>2 DEF ExitInv
    <3>2. frame'[k + 1].line = frame[k + 1].line
      BY <1>1, <3>1 DEF Top
    <3>3. QED
      BY <3>1, <3>2 DEF SameLine
  <2>3. QED
    BY <2>1, <2>2
<1>4. QED
  BY <1>2, <1>3 DEF ExitInv, ExitAt, Cmd

LEMMA ExitEnter == IInv /\ ExitInv /\ Enter => ExitInv'
<1> SUFFICES ASSUME IInv, ExitInv, Enter PROVE ExitInv'
  OBVIOUS
<1>1. depth > 0 /\ Top \in Frame /\ Top.pc = "enter" /\ depth' = depth
  BY InLine, TopFacts DEF Enter
<1>2. PICK b \in Ptr : Stay([Top EXCEPT !.pc = "exec", !.stdout = b])
  <2>1. Top.stdout \in Ptr /\ BufId \subseteq Ptr
    BY <1>1 DEF Frame, BufId, Ptr
  <2>2. [Top EXCEPT !.pc = "exec"] = [Top EXCEPT !.pc = "exec", !.stdout = Top.stdout]
    BY <1>1 DEF Frame
  <2>3. \/ Stay([Top EXCEPT !.pc = "exec"])
        \/ \E b \in BufId : Stay([Top EXCEPT !.pc = "exec", !.stdout = b])
    BY DEF Enter
  <2>4. CASE Stay([Top EXCEPT !.pc = "exec"])
    <3>1. Stay([Top EXCEPT !.pc = "exec", !.stdout = Top.stdout])
      BY <2>2, <2>4
    <3>2. QED
      BY <2>1, <3>1
  <2>5. QED
    BY <2>1, <2>3, <2>4
<1> DEFINE f == [Top EXCEPT !.pc = "exec", !.stdout = b]
<1>3. /\ f.pc = "exec" /\ f.line = Top.line /\ f.i = Top.i /\ f.brk = Top.brk
  BY <1>1 DEF Frame
<1>4. Cmd(Top) \in Commands /\ ~Top.brk
  BY <1>1, TopFacts DEF ExitInv, ExitAt, Top
<1>5. Stay(f)
  BY <1>2
<1> HIDE DEF f
<1>6. ExitAt(f)
  BY <1>3, <1>4 DEF ExitAt, Cmd, Waiting
<1>7. QED
  BY <1>1, <1>3, <1>5, <1>6, ExitStay

(* Inside run_command, exit is the one command that sets *should_break.    *)
LEMMA ExitRun ==
    ASSUME IInv, ExitInv, ExecBuiltin \/ ExecExit \/ ExecSpawn \/ WireExit \/ WirePipes \/ WaitDone
    PROVE  ExitInv'
<1>1. /\ depth > 0 /\ Top \in Frame /\ depth' = depth
      /\ Top.pc \in {"exec"} \cup Waiting /\ Top.pc # "exec" => Cmd(Top) \in Programs
      /\ Cmd(Top) \in Commands /\ ~Top.brk
  <2>1. depth > 0 /\ depth' = depth /\ Top.pc \in {"exec"} \cup Waiting
    BY InLine DEF ExecBuiltin, ExecExit, ExecSpawn, WireExit, WirePipes, WaitDone, Waiting
  <2>2. ExitAt(Top) /\ Top \in Frame
    BY <2>1, TopFacts DEF ExitInv, Top
  <2>3. QED
    BY <2>1, <2>2 DEF ExitAt
<1>2. ASSUME NEW pc, Stay([Top EXCEPT !.pc = pc]), pc \in Waiting => Cmd(Top) \in Programs,
             pc \in Waiting \/ (pc = "finish" /\ Cmd(Top) # Exit)
      PROVE  ExitInv'
  <2> DEFINE f == [Top EXCEPT !.pc = pc]
  <2>1. f.pc = pc /\ f.line = Top.line /\ f.i = Top.i /\ f.brk = Top.brk /\ Stay(f)
    BY <1>1, <1>2 DEF Frame
  <2> HIDE DEF f
  <2>2. ExitAt(f)
    BY <1>1, <1>2, <2>1 DEF ExitAt, Cmd, Waiting
  <2>3. QED
    BY <1>1, <2>1, <2>2, ExitStay
<1>3. CASE ExecExit
  <2> DEFINE f == [Top EXCEPT !.pc = "finish", !.brk = TRUE]
  <2>1. f.pc = "finish" /\ f.line = Top.line /\ f.i = Top.i /\ f.brk /\ Stay(f)
        /\ Cmd(Top) = Exit
    BY <1>1, <1>3 DEF Frame, ExecExit
  <2> HIDE DEF f
  <2>2. ExitAt(f)
    BY <1>1, <2>1 DEF ExitAt, Cmd, Waiting
  <2>3. QED
    BY <1>1, <2>1, <2>2, ExitStay
<1>4. CASE ExecBuiltin
  BY <1>2, <1>4, ExitAssumption DEF ExecBuiltin, Waiting
<1>5. CASE ExecSpawn \/ WireExit \/ WirePipes
  BY <1>1, <1>2, <1>5 DEF ExecSpawn, WireExit, WirePipes, Waiting
<1>6. CASE WaitDone
  BY <1>1, <1>2, <1>6, ExitAssumption DEF WaitDone, Waiting
<1>7. QED
  BY <1>3, <1>4, <1>5, <1>6

(* A found line comes back from its last stage with the verdict of exit.   *)
LEMMA FoundVerdict ==
    ASSUME IInv, ExitInv, depth > 0
    PROVE  /\ Top.pc = "finish" /\ ~Capturing(Top)
                => (Top.brk <=> LastCommand(Top.line) = Exit)
           /\ Top.pc = "filed" /\ Top.line[Top.i + 1].op = "NORMAL"
                => (Top.brk <=> LastCommand(Top.line) = Exit)
           /\ Top.pc = "returned" /\ Top.found => (Top.brk <=> LastCommand(Top.line) = Exit)
<1>1. ExitAt(Top) /\ ShapeAt(depth) /\ Top.line \in AllLines /\ Top.i \in 1 .. Len(Top.line)
  BY TopFacts DEF ExitInv, Top
<1>2. Top.line[Top.i].cmd \in Commands
  BY <1>1 DEF ExitAt, Cmd
<1>3. ASSUME Top.pc = "finish", ~Capturing(Top) PROVE Top.brk <=> LastCommand(Top.line) = Exit
  <2>1. LastCommand(Top.line) = Cmd(Top)
    BY <1>1, <1>2, <1>3, StageCommands DEF Capturing, Op, Cmd
  <2>2. QED
    BY <1>1, <1>3, <2>1 DEF ExitAt
<1>4. ASSUME Top.pc = "filed", Top.line[Top.i + 1].op = "NORMAL"
      PROVE  Top.brk <=> LastCommand(Top.line) = Exit
  <2>1. Top.line[Top.i].op \in ToFile
    BY <1>1, <1>4 DEF ShapeAt, Op, Top
  <2>2. LastCommand(Top.line) = Cmd(Top)
    BY <1>1, <1>2, <1>4, <2>1, StageCommands DEF Cmd
  <2>3. QED
    BY <1>1, <1>4, <2>2 DEF ExitAt
<1>5. QED
  BY <1>1, <1>3, <1>4 DEF ExitAt

LEMMA ExitFinish == IInv /\ ExitInv /\ Finish => ExitInv'
<1> SUFFICES ASSUME IInv, ExitInv, Finish PROVE ExitInv'
  OBVIOUS
<1>1. depth > 0 /\ Top \in Frame /\ Top.pc = "finish" /\ ExitAt(Top)
  BY InLine, TopFacts DEF Finish, ExitInv, Top
<1>2. CASE ~Capturing(Top)
  BY <1>1, <1>2, FoundVerdict, ExitReturn DEF Finish, Frame
<1>3. CASE Capturing(Top)
  <2> DEFINE f == [Top EXCEPT !.pc = "ran", !.stdout = term_stdout]
  <2>1. f.pc = "ran" /\ f.line = Top.line /\ f.i = Top.i /\ f.brk = Top.brk /\ Stay(f)
        /\ depth' = depth
    BY <1>1, <1>3 DEF Frame, Finish
  <2> HIDE DEF f
  <2>2. ExitAt(f)
    BY <1>1, <2>1 DEF ExitAt, Cmd, Waiting
  <2>3. QED
    BY <1>1, <2>1, <2>2, ExitStay
<1>4. QED
  BY <1>2, <1>3

LEMMA ExitFile == IInv /\ ExitInv /\ WriteFile => ExitInv'
<1> SUFFICES ASSUME IInv, ExitInv, WriteFile PROVE ExitInv'
  OBVIOUS
<1>1. depth > 0 /\ Top \in Frame /\ Top.pc = "ran" /\ ExitAt(Top)
  <2>1. Top.pc = "ran"
    BY DEF WriteFile
  <2>2. depth > 0
    BY <2>1, InLine
  <2>3. Top \in Frame /\ depth \in 1 .. depth
    BY <2>2, TopFacts
  <2>4. ExitAt(Top)
    BY <2>3 DEF ExitInv, Top
  <2> QED BY <2>1, <2>2, <2>3, <2>4
<1>2. CASE Return(FALSE, Top.brk)
  BY <1>1, <1>2, ExitReturn DEF Frame
<1>3. CASE Stay([Top EXCEPT !.pc = "filed"]) /\ UNCHANGED depth
  <2> DEFINE f == [Top EXCEPT !.pc = "filed"]
  <2>1. f.pc = "filed" /\ f.line = Top.line /\ f.i = Top.i /\ f.brk = Top.brk /\ Stay(f)
        /\ depth' = depth
    BY <1>1, <1>3 DEF Frame
  <2> HIDE DEF f
  <2>2. ExitAt(f)
    BY <1>1, <2>1 DEF ExitAt, Cmd, Waiting
  <2>3. QED
    BY <1>1, <2>1, <2>2, ExitStay
<1>4. QED
  BY <1>2, <1>3 DEF WriteFile

LEMMA ExitCall == IInv /\ ExitInv /\ CallNext => ExitInv'
<1> SUFFICES ASSUME IInv, ExitInv, CallNext PROVE ExitInv'
  OBVIOUS
<1> DEFINE f == NewFrame(Top.line, NextStage(Top), Top.stdout, Top.ctx)
           below == [Top EXCEPT !.pc = "callee"]
<1>1. /\ depth > 0 /\ Top \in Frame /\ Top.pc \in {"ran", "filed"} /\ ExitAt(Top)
      /\ ShapeAt(depth) /\ Top.line \in AllLines /\ Top.i \in 1 .. Len(Top.line)
  BY InLine, TopFacts DEF CallNext, ExitInv, Top
<1>2. /\ f.pc = "enter" /\ f.line = Top.line /\ f.i = NextStage(Top) /\ f.brk = FALSE
  BY DEF NewFrame, NoFrame
<1>3. below.pc = "callee" /\ below.line = Top.line /\ below.i = Top.i
  BY <1>1 DEF Frame
<1>4. Push(f, below)
  BY DEF CallNext
<1>5. depth < MaxDepth
  <2>1. depth + 1 \in 0 .. MaxDepth
    BY CallNextStack, <1>4 DEF StackOK, Push
  <2>2. QED
    BY <2>1, <1>1, TopFacts, BoundAssumption
<1> HIDE DEF f, below
<1>6. Top.line[NextStage(Top)].cmd \in Commands
  <2>1. Top.line[Top.i].cmd \in Commands /\ Top.line[Top.i].op \in Ops
    BY <1>1, LineFacts DEF ExitAt, Cmd, Stage
  <2>2. CASE Top.pc = "ran" /\ Op(Top) \notin ToFile
    <3>1. Op(Top) \in {"AND_RUN", "PIPE_PROC"}
      BY <1>1, <2>1, <2>2 DEF ShapeAt, PastRun, Capturing, Op, Ops, ToFile, Top
    <3>2. Top.line[Top.i + 1].cmd \in Commands
      BY <1>1, <2>1, <3>1, StageCommands DEF Op
    <3>3. NextStage(Top) = Top.i + 1
      BY <2>2 DEF NextStage
    <3>4. QED
      BY <3>2, <3>3
  <2>3. CASE Top.pc = "filed" /\ Top.line[Top.i + 1].op # "NORMAL"
    <3>1. Op(Top) \in ToFile
      BY <1>1, <2>3 DEF ShapeAt, Top
    <3>2. Top.line[Top.i + 2].cmd \in Commands
      BY <1>1, <2>1, <2>3, <3>1, StageCommands DEF Op
    <3>3. NextStage(Top) = Top.i + 2
      BY <3>1 DEF NextStage
    <3>4. QED
      BY <3>2, <3>3
  <2>4. QED
    BY <2>2, <2>3 DEF CallNext
<1>7. ExitAt(f)
  BY <1>2, <1>6 DEF ExitAt, Cmd, Waiting
<1>8. ExitAt(below)
  BY <1>1, <1>3 DEF ExitAt, Cmd, Waiting
<1>9. QED
  BY <1>1, <1>2, <1>3, <1>4, <1>5, <1>7, <1>8, ExitPush

LEMMA ExitEntry ==
    ASSUME IInv, ExitInv, NEW line \in AllLines, NEW ctx,
           NEW below, Push(NewFrame(line, 1, NULL, ctx), below), depth < MaxDepth,
           depth > 0 => below = Top /\ Top.pc \in Waiting
    PROVE  ExitInv'
<1> DEFINE f == NewFrame(line, 1, NULL, ctx)
<1>1. f.pc = "enter" /\ f.line = line /\ f.i = 1 /\ f.brk = FALSE
  BY DEF NewFrame, NoFrame
<1>2. line[1].cmd \in Commands
  BY LineAssumption DEF WellFormed
<1>3. Push(f, below)
  OBVIOUS
<1> HIDE DEF f
<1>4. ExitAt(f)
  BY <1>1, <1>2 DEF ExitAt, Cmd, Waiting
<1>5. depth > 0 => ExitAt(below) /\ below.line = Top.line /\ below.pc # "callee"
  BY TopFacts DEF ExitInv, Top, Waiting
<1>6. QED
  BY <1>3, <1>4, <1>5, ExitPush

LEMMA ExitFault == IInv /\ ExitInv /\ Fault => ExitInv'
<1> SUFFICES ASSUME IInv, ExitInv, Fault PROVE ExitInv'
  OBVIOUS
<1>1. /\ depth \in 1 .. MaxDepth /\ depth' \in 0 .. depth - 1
      /\ \A k \in 1 .. depth' : frame'[k] = frame[k]
  BY FaultResult, TopFacts
<1>2. ASSUME NEW k \in 1 .. depth' PROVE ExitAt(frame'[k])
  BY <1>1 DEF ExitInv
<1>3. ASSUME NEW k \in 1 .. depth' - 1 PROVE SameLine(k)'
  <2>1. /\ k \in 1 .. depth - 1 /\ SameLine(k) /\ frame'[k] = frame[k]
        /\ frame'[k + 1] = frame[k + 1]
    BY <1>1 DEF ExitInv
  <2>2. QED
    BY <2>1 DEF SameLine
<1>4. QED
  BY <1>2, <1>3 DEF ExitInv, ExitAt, Cmd

LEMMA ExitStep == IInv /\ ExitInv /\ [Next]_vars => ExitInv'
<1> SUFFICES ASSUME IInv, ExitInv, [Next]_vars PROVE ExitInv'
  OBVIOUS
<1>1. depth \in 0 .. MaxDepth /\ MaxDepth \in Nat
  BY BoundAssumption DEF IInv, TypeOK
<1>2. CASE UNCHANGED <<frame, depth>>
  BY <1>2 DEF ExitInv, ExitAt, SameLine, Cmd
<1>3. CASE ExecNotFound
  BY <1>3, InLine, ExitReturn DEF ExecNotFound
<1>4. CASE FreeAndReturn
  <2>1. depth > 0 /\ Top \in Frame
    BY <1>4, TopFacts DEF FreeAndReturn
  <2>2. CASE Top.pc = "returned" /\ Return(Top.found, Top.brk)
    BY <2>1, <2>2, FoundVerdict, ExitReturn DEF Frame
  <2>3. CASE Top.pc = "filed" /\ Top.line[Top.i + 1].op = "NORMAL" /\ Return(TRUE, Top.brk)
    BY <2>1, <2>3, FoundVerdict, ExitReturn DEF Frame
  <2>4. QED
    BY <1>4, <2>2, <2>3 DEF FreeAndReturn
<1>5. ASSUME NEW line \in Lines, Receive(line) PROVE ExitInv'
  <2>1. depth = 0 /\ depth < MaxDepth
    BY <1>5, BoundAssumption DEF Receive
  <2>2. QED
    BY <1>5, <2>1, ExitEntry DEF Receive, AllLines
<1>6. ASSUME NEW line \in SystemLines, TaskSystem(line) PROVE ExitInv'
  <2>1. task[depth].st = "running" /\ line \in AllLines
    BY <1>6 DEF TaskSystem, Runs, AllLines
  <2>2. depth < MaxDepth
    BY <1>1, <1>6, <2>1, LineFacts DEF TaskSystem, Fits
  <2>3. QED
    BY <1>6, <2>1, <2>2, RunsWaiting, ExitEntry DEF TaskSystem
<1>7. CASE LineDone \/ EndOfInput \/ Respawn
  BY <1>7 DEF LineDone, EndOfInput, Respawn, ExitInv
<1>8. CASE TaskWrite \/ TaskRead \/ TaskExit \/ UNCHANGED vars
  BY <1>2, <1>8 DEF TaskWrite, TaskRead, TaskExit, vars, stack
<1>9. QED
  BY <1>3, <1>4, <1>5, <1>6, <1>7, <1>8, ExitEnter, ExitRun, ExitFinish, ExitFile, ExitCall,
     ExitFault DEF Next, Shell

(* A found line ends the shell exactly when exit is its last command,      *)
(* whatever its programs pass to system() and whatever failed before:      *)
(* every activation of command_received gives should_break a value of its  *)
(* own, which is the one of the last command when it comes back.           *)
THEOREM OnlyLastExitEnds == Spec => ExitIsLast
<1>1. Init => ExitInv
  BY DEF Init, ExitInv
<1> DEFINE Verdict == frame[0].pc = "callee" /\ frame'[0].pc = "returned" /\ frame'[0].found
                        => (frame'[0].brk <=> LastCommand(frame[1].line) = Exit)
<1>2. IInv /\ ExitInv /\ [Next]_vars => [Verdict]_vars
  <2> SUFFICES ASSUME IInv, ExitInv, [Next]_vars, frame[0].pc = "callee",
                      frame'[0].pc = "returned", frame'[0].found
               PROVE  frame'[0].brk <=> LastCommand(frame[1].line) = Exit
    OBVIOUS
  <2>1. /\ depth \in 0 .. MaxDepth /\ MaxDepth \in Nat \ {0} /\ frame \in [0 .. MaxDepth -> Frame]
    BY BoundAssumption DEF IInv, TypeOK
  <2>2. ASSUME NEW found \in BOOLEAN, NEW brk \in BOOLEAN, depth > 0, Return(found, brk),
               found => (brk <=> LastCommand(Top.line) = Exit)
        PROVE  frame'[0].brk <=> LastCommand(frame[1].line) = Exit
    <3>1. CASE depth = 1
      <4>1. frame'[0] = [frame[0] EXCEPT !.pc = "returned", !.found = found, !.brk = brk]
        <5>1. depth' = 0 /\ task[0].st = "none"
          BY <2>2, <3>1 DEF Return, IInv, Shape
        <5>2. QED
          BY <2>1, <2>2, <3>1, <5>1 DEF Return
      <4>2. frame'[0].found = found /\ frame'[0].brk = brk
        BY <2>1, <4>1 DEF Frame
      <4>3. QED
        BY <2>2, <3>1, <4>2 DEF Top
    <3>2. CASE depth # 1
      <4>1. 0 \in 0 .. depth - 2
        BY <2>1, <2>2, <3>2
      <4>2. frame'[0] = frame[0]
        BY <2>2, <4>1, ReturnResult
      <4>3. QED
        BY <4>2
    <3>3. QED
      BY <3>1, <3>2
  <2>3. ASSUME frame'[0] = frame[0] PROVE FALSE
    BY <2>3
  <2>4. ASSUME depth > 0, NEW f, Stay(f) PROVE FALSE
    BY <2>1, <2>3, <2>4, StayResult
  <2>5. CASE Enter \/ ExecBuiltin \/ ExecExit \/ ExecSpawn \/ WireExit \/ WirePipes \/ WaitDone
    BY <2>4, <2>5, InLine DEF Enter, ExecBuiltin, ExecExit, ExecSpawn, WireExit, WirePipes, WaitDone
  <2>6. CASE ExecNotFound
    BY <2>2, <2>6, InLine DEF ExecNotFound
  <2>7. CASE Finish
    BY <2>2, <2>4, <2>7, InLine, TopFacts, FoundVerdict DEF Finish, Frame
  <2>8. CASE WriteFile
    BY <2>2, <2>4, <2>8, InLine, TopFacts DEF WriteFile, Frame
  <2>9. CASE FreeAndReturn
    BY <2>2, <2>9, TopFacts, FoundVerdict DEF FreeAndReturn, Frame
  <2>10. CASE Fault
    <3>1. frame'[0] = frame[0] \/ frame'[0] = [NoFrame EXCEPT !.pc = "gone"]
      <4>1. 0 \in 0 .. MaxDepth /\ ~(0 > Top.ctx)
        BY <2>1, <2>10, FaultResult DEF Fault
      <4>2. QED
        BY <2>10, <4>1 DEF Fault
    <3>2. QED
      BY <2>3, <3>1 DEF NoFrame
  <2>11. CASE CallNext
    <3>1. depth > 0 /\ depth < MaxDepth
      BY <2>1, <2>11, InLine, CallNextStack DEF CallNext, Push, StackOK
    <3>2. QED
      BY <2>1, <2>3, <2>11, <3>1, PushResult DEF CallNext
  <2>12. ASSUME NEW line \in Lines, Receive(line) PROVE FALSE
    BY <2>12 DEF Receive, Top
  <2>13. ASSUME NEW line \in SystemLines, TaskSystem(line) PROVE FALSE
    <3>1. depth > 0 /\ depth < MaxDepth
      BY <2>1, <2>13, RunsWaiting, LineFacts DEF TaskSystem, Runs, Fits, AllLines
    <3>2. QED
      BY <2>1, <2>3, <2>13, <3>1, PushResult DEF TaskSystem
  <2>14. CASE LineDone \/ EndOfInput \/ Respawn
    BY <2>14 DEF LineDone, EndOfInput, Respawn, Top
  <2>15. CASE TaskWrite \/ TaskRead \/ TaskExit \/ UNCHANGED vars
    BY <2>3, <2>15 DEF TaskWrite, TaskRead, TaskExit, vars, stack
  <2>16. QED
    BY <2>5, <2>6, <2>7, <2>8, <2>9, <2>10, <2>11, <2>12, <2>13, <2>14, <2>15 DEF Next, Shell
<1>3. QED
  BY <1>1, <1>2, ExitStep, StackDiscipline, PTL DEF Spec, ExitIsLast

-----------------------------------------------------------------------------
(* Lines on which nothing fails.  Every activation captures what its       *)
(* separator asks for and reads what the one below it captured; the        *)
(* globals, and the task that runs, are those of the innermost one.        *)
StageAt(k) ==
    /\ frame[k].ctx = 0
    /\ frame[k].stdout # NULL <=> Op(frame[k]) \in Pipes /\ frame[k].pc # "enter"
    /\ frame[k].stdin = frame[k - 1].stdout

Stacked ==
    /\ frame[0].stdout = NULL
    /\ \A k \in 0 .. depth - 1 : frame[k].pc = "callee"
    /\ \A k \in 1 .. depth : StageAt(k)
    /\ \A k \in depth + 1 .. MaxDepth : task[k].got = << >>

Innermost ==
    /\ term_stdout = IF Top.pc \in InRun THEN Top.stdout ELSE NULL
    /\ term_stdin = IF Top.pc \in InRun THEN Top.stdin ELSE NULL
    /\ Top.pc \in InRun /\ Top.stdin # NULL =>
          term_stdin_size = Len(heap[Top.stdin]) /\ stdin_pos = Len(task[depth].got)
    /\ Top.pc \in {"enter", "exec"} => task[depth].got = << >>
    /\ Top.pc \in {"exec", "spawned", "wiring"} => Contents(Top.stdout) = << >>
    /\ Top.pc \in Waiting =>
          /\ task[depth].outp <=> Top.stdout # NULL
          /\ task[depth].inp <=> Top.stdin # NULL
          /\ task[depth].wired <=> Top.pc = "wait"

Owned == \A b \in live : \E k \in 1 .. depth : frame[k].stdout = b

PInv == Stacked /\ Innermost /\ Owned

LEMMA StackedStay ==
    ASSUME IInv, Stacked, depth > 0, NEW f, Stay(f), depth' = depth,
           f.line = Top.line, f.i = Top.i, f.ctx = Top.ctx, f.stdin = Top.stdin,
           f.stdout # NULL <=> Op(Top) \in Pipes /\ f.pc # "enter",
           \A k \in depth + 1 .. MaxDepth : task'[k] = task[k]
    PROVE  Stacked' /\ Top' = f
<1>1. /\ depth \in 1 .. MaxDepth /\ frame'[depth] = f
      /\ \A k \in 0 .. depth - 1 : frame'[k] = frame[k]
  BY TopFacts, StayResult
<1>2. ASSUME NEW k \in 1 .. depth' PROVE StageAt(k)'
  <2>1. StageAt(k) /\ k - 1 \in 0 .. depth - 1 /\ frame'[k - 1] = frame[k - 1]
    BY <1>1 DEF Stacked
  <2>2. CASE k = depth
    BY <1>1, <2>1, <2>2 DEF StageAt, Op, Top
  <2>3. CASE k # depth
    BY <1>1, <2>1, <2>3 DEF StageAt, Op
  <2>4. QED
    BY <2>2, <2>3
<1>3. QED
  BY <1>1, <1>2 DEF Stacked, Top

(* No program is inside system(), so a return is always to a caller.       *)
LEMMA StackedReturn ==
    ASSUME IInv, Stacked, depth > 0, NEW found \in BOOLEAN, NEW brk \in BOOLEAN,
           Return(found, brk)
    PROVE  /\ Stacked' /\ Top'.pc = "returned" /\ depth' = depth - 1
           /\ \A k \in 1 .. depth' : frame'[k].stdout = frame[k].stdout
<1>1. /\ depth' = depth - 1 /\ depth \in 1 .. MaxDepth /\ MaxDepth \in Nat /\ depth' \in 0 .. depth - 1
      /\ frame[depth'] \in Frame /\ frame[depth'].pc = "callee"
      /\ \A k \in 0 .. depth - 2 : frame'[k] = frame[k]
  <2>1. /\ depth' = depth - 1 /\ frame[depth'] \in Frame
        /\ \A k \in 0 .. depth - 2 : frame'[k] = frame[k]
    BY ReturnResult
  <2>2. depth \in 1 .. MaxDepth /\ MaxDepth \in Nat
    BY TopFacts, BoundAssumption
  <2>3. depth' \in 0 .. depth - 1 /\ frame[depth'].pc = "callee"
    BY <2>1, <2>2 DEF Stacked
  <2>4. QED
    BY <2>1, <2>2, <2>3
<1>2. frame'[depth'] = [frame[depth'] EXCEPT !.pc = "returned", !.found = found, !.brk = brk]
  BY <1>1, ReturnResult DEF Waiting
<1>3. /\ frame'[depth'].pc = "returned" /\ frame'[depth'].stdout = frame[depth'].stdout
      /\ frame'[depth'].stdin = frame[depth'].stdin /\ frame'[depth'].ctx = frame[depth'].ctx
      /\ Op(frame'[depth']) = Op(frame[depth'])
  BY <1>1, <1>2 DEF Frame, Op
<1>4. ASSUME NEW k \in 0 .. depth'
      PROVE  /\ frame'[k].stdout = frame[k].stdout /\ frame'[k].stdin = frame[k].stdin
             /\ frame'[k].ctx = frame[k].ctx /\ Op(frame'[k]) = Op(frame[k])
             /\ frame'[k].pc # "enter" /\ frame[k].pc # "enter"
  BY <1>1, <1>3 DEF Stacked
<1>5. ASSUME NEW k \in 1 .. depth' PROVE StageAt(k)'
  <2>1. StageAt(k) /\ k \in 0 .. depth' /\ k - 1 \in 0 .. depth'
    BY <1>1 DEF Stacked
  <2>2. QED
    BY <1>4, <2>1 DEF StageAt, Op
<1>6. ASSUME NEW k \in depth' + 1 .. MaxDepth PROVE task'[k].got = << >>
  <2>1. CASE k = depth
    BY <1>1, <2>1 DEF Return, NoTask, IInv, TypeOK
  <2>2. CASE k # depth
    <3>1. k \in depth + 1 .. MaxDepth /\ task'[k] = task[k]
      BY <1>1, <2>2 DEF Return, IInv, TypeOK
    <3>2. QED
      BY <3>1 DEF Stacked
  <2>3. QED
    BY <2>1, <2>2
<1>7. frame'[0].stdout = NULL /\ \A k \in 0 .. depth' - 1 : frame'[k].pc = "callee"
  BY <1>1, <1>4 DEF Stacked
<1>8. QED
  BY <1>1, <1>3, <1>4, <1>5, <1>6, <1>7 DEF Stacked, Top

LEMMA StackedPush ==
    ASSUME IInv, Stacked, depth < MaxDepth, NEW f, NEW below, Push(f, below), UNCHANGED task,
           below.pc = "callee", below.stdout = Top.stdout, below.stdin = Top.stdin,
           below.ctx = Top.ctx, below.line = Top.line, below.i = Top.i,
           f.pc = "enter", f.stdout = NULL, f.stdin = Top.stdout, f.ctx = 0, Top.pc # "enter"
    PROVE  /\ Stacked' /\ Top' = f /\ depth' = depth + 1 /\ task'[depth'].got = << >>
           /\ \A k \in 1 .. depth : frame'[k].stdout = frame[k].stdout
<1>1. /\ depth' = depth + 1 /\ depth \in 0 .. MaxDepth /\ MaxDepth \in Nat
      /\ frame'[depth'] = f /\ frame'[depth] = below
      /\ \A k \in 0 .. depth - 1 : frame'[k] = frame[k]
  BY PushResult, BoundAssumption DEF IInv, TypeOK
<1>2. ASSUME NEW k \in 1 .. depth' PROVE StageAt(k)'
  <2>1. CASE k = depth + 1
    BY <1>1, <2>1 DEF StageAt
  <2>2. CASE k = depth
    <3>1. StageAt(k) /\ k - 1 \in 0 .. depth - 1 /\ frame'[k - 1] = frame[k - 1]
      BY <1>1, <2>2 DEF Stacked
    <3>2. QED
      BY <1>1, <2>2, <3>1 DEF StageAt, Op, Top
  <2>3. CASE k < depth
    <3>1. /\ StageAt(k) /\ frame'[k - 1] = frame[k - 1] /\ frame'[k] = frame[k]
      BY <1>1, <2>3 DEF Stacked
    <3>2. QED
      BY <3>1 DEF StageAt, Op
  <2>4. QED
    BY <1>1, <2>1, <2>2, <2>3
<1>3. frame'[0].stdout = NULL /\ \A k \in 0 .. depth' - 1 : frame'[k].pc = "callee"
  BY <1>1 DEF Stacked, Top
<1>4. /\ \A k \in depth' + 1 .. MaxDepth : task'[k].got = << >>
      /\ task'[depth'].got = << >>
  BY <1>1 DEF Stacked
<1>5. \A k \in 1 .. depth : frame'[k].stdout = frame[k].stdout
  BY <1>1 DEF Top
<1>6. QED
  BY <1>1, <1>2, <1>3, <1>4, <1>5 DEF Stacked, Top

(* What the innermost activation reads is the block its caller captured;   *)
(* it is not the one it appends to.                                        *)
LEMMA StdinBlock ==
    ASSUME IInv, Ownership, Stacked, depth > 0, Top.stdin # NULL
    PROVE  Top.stdin \in live /\ Top.stdin # Top.stdout
<1>1. depth \in 1 .. MaxDepth /\ StageAt(depth) /\ Top.stdin = frame[depth - 1].stdout
  BY TopFacts DEF Stacked, StageAt, Top
<1>2. depth - 1 \in 1 .. depth /\ depth - 1 # depth
  BY <1>1 DEF Stacked
<1>3. QED
  BY <1>1, <1>2 DEF Ownership, OwnedOnce, Top

(* What can be said of the innermost activation while nothing fails.       *)
LEMMA InnerFacts ==
    ASSUME IInv, Stacked, depth > 0
    PROVE  /\ Top \in Frame /\ depth \in 1 .. MaxDepth /\ StageAt(depth)
           /\ Top.ctx = 0
           /\ Top.stdout # NULL <=> Op(Top) \in Pipes /\ Top.pc # "enter"
           /\ Op(Top) \in Ops
<1>1. Top \in Frame /\ depth \in 1 .. MaxDepth /\ Top.line \in AllLines /\ Top.i \in 1 .. Len(Top.line)
  BY TopFacts
<1>2. StageAt(depth)
  BY <1>1 DEF Stacked
<1>3. Op(Top) \in Ops
  BY <1>1, LineFacts DEF Op, Stage
<1>4. QED
  BY <1>1, <1>2, <1>3 DEF StageAt, Top

LEMMA OwnedStay ==
    ASSUME IInv, Owned, depth > 0, NEW f, Stay(f), depth' = depth,
           f.stdout = Top.stdout \/ Top.stdout = NULL,
           live' \subseteq live \cup {f.stdout}
    PROVE  Owned'
<1>1. /\ depth \in 1 .. MaxDepth /\ frame'[depth] = f
      /\ \A k \in 0 .. depth - 1 : frame'[k] = frame[k]
  BY TopFacts, StayResult
<1>2. ASSUME NEW b \in live' PROVE \E k \in 1 .. depth' : frame'[k].stdout = b
  <2>1. CASE b = f.stdout
    BY <1>1, <2>1
  <2>2. CASE b # f.stdout
    <3>1. b \in live /\ b # NULL
      BY <2>2 DEF IInv, TypeOK, BufId, NULL
    <3>2. PICK k \in 1 .. depth : frame[k].stdout = b
      BY <3>1 DEF Owned
    <3>3. k # depth
      BY <2>2, <3>1, <3>2 DEF Top
    <3>4. frame'[k].stdout = b
      BY <1>1, <3>2, <3>3
    <3>5. QED
      BY <3>2, <3>4
  <2>3. QED
    BY <2>1, <2>2
<1>3. QED
  BY <1>2 DEF Owned

LEMMA PipeEnter == IInv /\ Ownership /\ PInv /\ Enter => PInv'
<1> SUFFICES ASSUME IInv, Ownership, PInv, Enter PROVE PInv'
  OBVIOUS
<1>1. /\ depth > 0 /\ Top \in Frame /\ Top.pc = "enter" /\ depth' = depth /\ Stacked
      /\ Top.stdout = NULL /\ Op(Top) \in Ops /\ UNCHANGED task /\ Owned
  <2>1. depth > 0 /\ Top.pc = "enter" /\ depth' = depth /\ UNCHANGED task
    BY InLine DEF Enter
  <2>2. Stacked /\ Owned
    BY DEF PInv
  <2>3. QED
    BY <2>1, <2>2, InnerFacts
<1>2. /\ term_stdout = NULL /\ term_stdin = NULL /\ task[depth].got = << >>
  BY <1>1 DEF PInv, Innermost, InRun
<1>3. /\ heap \in [BufId -> Seq(Token)] /\ live \subseteq BufId
  BY DEF IInv, TypeOK
<1>4. /\ term_stdin' = Top.stdin
      /\ Top.stdin # NULL => term_stdin_size' = Len(heap[Top.stdin]) /\ stdin_pos' = 0
  BY <1>2 DEF Enter, TakeStdin
<1>5. CASE Op(Top) \in Pipes
  <2>1. PICK b \in BufId :
           /\ Malloc(b) /\ Stay([Top EXCEPT !.pc = "exec", !.stdout = b])
           /\ term_stdout' = b /\ heap' = [heap EXCEPT ![b] = << >>] /\ live' = live \cup {b}
    BY <1>5 DEF Enter, Pipes, ToFile
  <2> DEFINE f == [Top EXCEPT !.pc = "exec", !.stdout = b]
  <2>2. /\ f.pc = "exec" /\ f.stdout = b /\ f.line = Top.line /\ f.i = Top.i
        /\ f.ctx = Top.ctx /\ f.stdin = Top.stdin /\ Stay(f)
    BY <1>1, <2>1 DEF Frame
  <2> HIDE DEF f
  <2>3. b # NULL /\ b \notin live /\ heap'[b] = << >>
        /\ \A c \in live : heap'[c] = heap[c]
    BY <1>3, <2>1 DEF BufId, NULL, Malloc
  <2>4. Stacked' /\ Top' = f
    BY <1>1, <1>5, <2>2, <2>3, StackedStay
  <2>5. Owned'
    BY <1>1, <2>1, <2>2, OwnedStay
  <2>6. Top.stdin # NULL => heap'[Top.stdin] = heap[Top.stdin]
    BY <1>1, <2>3, StdinBlock
  <2>7. Innermost'
    BY <1>1, <1>2, <1>4, <2>1, <2>2, <2>3, <2>4, <2>6 DEF Innermost, InRun, Waiting, Contents
  <2>8. QED
    BY <2>4, <2>5, <2>7 DEF PInv
<1>6. CASE Op(Top) \notin Pipes
  <2> DEFINE f == [Top EXCEPT !.pc = "exec"]
  <2>1. Stay(f) /\ UNCHANGED memory /\ term_stdout' = NULL
    BY <1>2, <1>6 DEF Enter
  <2>2. /\ f.pc = "exec" /\ f.stdout = NULL /\ f.line = Top.line /\ f.i = Top.i
        /\ f.ctx = Top.ctx /\ f.stdin = Top.stdin
    BY <1>1 DEF Frame
  <2> HIDE DEF f
  <2>3. Stacked' /\ Top' = f
    BY <1>1, <1>6, <2>1, <2>2, StackedStay
  <2>4. Owned'
    BY <1>1, <2>1, <2>2, OwnedStay DEF memory
  <2>5. Innermost'
    BY <1>1, <1>2, <1>4, <2>1, <2>2, <2>3 DEF Innermost, InRun, Waiting, Contents, memory
  <2>6. QED
    BY <2>3, <2>4, <2>5 DEF PInv
<1>7. QED
  BY <1>5, <1>6

(* Output that is captured goes into the block of the innermost activation, *)
(* which is nobody's input.                                                *)
LEMMA Captured ==
    ASSUME IInv, PInv, NEW tok, AppendStdout(tok), Top.pc \in InRun, Top.stdout # NULL
    PROVE  /\ heap'[Top.stdout] = Append(heap[Top.stdout], tok)
           /\ \A b \in BufId : b # Top.stdout => heap'[b] = heap[b]
           /\ UNCHANGED <<term_stdout, live, screen>>
<1>1. term_stdout = Top.stdout /\ heap \in [BufId -> Seq(Token)] /\ term_stdout \in BufId
  BY DEF PInv, Innermost, IInv, TypeOK, Ptr, BufId, NULL
<1>2. QED
  BY <1>1 DEF AppendStdout

LEMMA PipeBuiltin == IInv /\ Ownership /\ PInv /\ ExecBuiltin => PInv'
<1> SUFFICES ASSUME IInv, Ownership, PInv, ExecBuiltin PROVE PInv'
  OBVIOUS
<1>1. /\ depth > 0 /\ Top.pc = "exec" /\ depth' = depth /\ Stacked /\ Owned /\ Innermost
      /\ UNCHANGED task
  BY InLine DEF ExecBuiltin, PInv
<1>2. /\ Top \in Frame /\ Top.ctx = 0
      /\ Top.stdout # NULL <=> Op(Top) \in Pipes
      /\ term_stdout = Top.stdout /\ live \subseteq BufId
  BY <1>1, InnerFacts DEF Innermost, InRun, IInv, TypeOK
<1>3. /\ UNCHANGED <<term_stdout, live>>
      /\ \A b \in live : b # Top.stdout => heap'[b] = heap[b]
  <2>1. CASE term_stdout = NULL
    BY <1>2, <2>1 DEF ExecBuiltin, TermPrintf, WriteFrom, Piped, memory
  <2>2. CASE term_stdout # NULL
    <3>1. AppendStdout(<<runs + 1, 1>>)
      BY <2>2 DEF ExecBuiltin, TermPrintf
    <3>2. Top.pc \in InRun /\ Top.stdout # NULL
      BY <1>1, <1>2, <2>2 DEF InRun
    <3>3. QED
      BY <1>2, <3>1, <3>2, Captured
  <2>3. QED
    BY <2>1, <2>2
<1>4. Top.stdin # NULL => heap'[Top.stdin] = heap[Top.stdin]
  BY <1>1, <1>3, StdinBlock
<1> DEFINE f == [Top EXCEPT !.pc = "finish"]
<1>5. /\ f.pc = "finish" /\ f.stdout = Top.stdout /\ f.line = Top.line /\ f.i = Top.i
      /\ f.ctx = Top.ctx /\ f.stdin = Top.stdin /\ Stay(f)
  BY <1>1, <1>2 DEF Frame, ExecBuiltin
<1> HIDE DEF f
<1>6. Stacked' /\ Top' = f
  BY <1>1, <1>2, <1>5, StackedStay
<1>7. Owned'
  BY <1>1, <1>3, <1>5, OwnedStay
<1>8. Innermost'
  <2>1. UNCHANGED <<term_stdin, term_stdin_size, stdin_pos>>
    BY DEF ExecBuiltin
  <2>2. QED
    BY <1>1, <1>3, <1>4, <1>5, <1>6, <2>1 DEF Innermost, InRun, Waiting
<1>9. QED
  BY <1>6, <1>7, <1>8 DEF PInv

(* The steps of run_command that only move its program counter or start,   *)
(* wire and end the wait for its program.                                  *)
LEMMA PipeRun ==
    ASSUME IInv, Ownership, PInv,
           ExecExit \/ ExecSpawn \/ WireExit \/ WirePipes \/ WaitDone
    PROVE  PInv'
<1>1. /\ depth > 0 /\ Top.pc \in {"exec"} \cup Waiting /\ depth' = depth
      /\ Stacked /\ Owned /\ Innermost /\ UNCHANGED <<globals, memory>>
  BY InLine DEF ExecExit, ExecSpawn, WireExit, WirePipes, WaitDone, PInv, Waiting
<1>2. /\ Top \in Frame
      /\ Top.stdout # NULL <=> Op(Top) \in Pipes
      /\ depth \in 1 .. MaxDepth /\ task[depth] \in Task /\ task \in [0 .. MaxDepth -> Task]
  BY <1>1, InnerFacts, TopFacts DEF Waiting, IInv, TypeOK
<1>3. ASSUME NEW f, Stay(f), f.pc \in Waiting \cup {"finish"}, f.stdout = Top.stdout,
             f.line = Top.line, f.i = Top.i, f.ctx = Top.ctx, f.stdin = Top.stdin,
             \A k \in depth + 1 .. MaxDepth : task'[k] = task[k],
             task'[depth].got = task[depth].got,
             f.pc \in {"spawned", "wiring"} => Top.pc \in {"exec", "spawned", "wiring"},
             f.pc \in Waiting => /\ task'[depth].outp <=> Top.stdout # NULL
                                 /\ task'[depth].inp <=> Top.stdin # NULL
                                 /\ task'[depth].wired <=> f.pc = "wait"
      PROVE  PInv'
  <2>1. Stacked' /\ Top' = f
    BY <1>1, <1>2, <1>3, StackedStay DEF Waiting
  <2>2. Owned'
    BY <1>1, <1>3, OwnedStay DEF memory
  <2>3. Innermost'
    BY <1>1, <1>3, <2>1 DEF Innermost, InRun, Waiting, globals, memory, Contents
  <2>4. QED
    BY <2>1, <2>2, <2>3 DEF PInv
<1>4. CASE ExecExit \/ WaitDone
  <2>1. PICK brk \in BOOLEAN : Stay([Top EXCEPT !.pc = "finish", !.brk = brk])
    <3>1. [Top EXCEPT !.pc = "finish"] = [Top EXCEPT !.pc = "finish", !.brk = Top.brk]
          /\ Top.brk \in BOOLEAN
      BY <1>2 DEF Frame
    <3>2. QED
      BY <1>4, <3>1 DEF ExecExit, WaitDone
  <2> DEFINE f == [Top EXCEPT !.pc = "finish", !.brk = brk]
  <2>2. /\ f.pc = "finish" /\ f.stdout = Top.stdout /\ f.line = Top.line /\ f.i = Top.i
        /\ f.ctx = Top.ctx /\ f.stdin = Top.stdin /\ Stay(f)
    BY <1>2, <2>1 DEF Frame
  <2>3. UNCHANGED task
    BY <1>4 DEF ExecExit, WaitDone
  <2> HIDE DEF f
  <2>4. QED
    BY <1>3, <2>2, <2>3 DEF Waiting
<1>5. ASSUME NEW pc, Stay([Top EXCEPT !.pc = pc]), NEW t, Child(t), t.got = task[depth].got,
             \/ Top.pc = "exec" /\ pc = "spawned"
             \/ Top.pc = "spawned" /\ pc = "wiring"
             \/ Top.pc = "wiring" /\ pc = "wait",
             t.outp <=> Top.stdout # NULL, t.inp <=> Top.stdin # NULL, t.wired <=> pc = "wait"
      PROVE  PInv'
  <2> DEFINE f == [Top EXCEPT !.pc = pc]
  <2>1. /\ f.pc = pc /\ f.stdout = Top.stdout /\ f.line = Top.line /\ f.i = Top.i
        /\ f.ctx = Top.ctx /\ f.stdin = Top.stdin /\ Stay(f)
    BY <1>2, <1>5 DEF Frame
  <2>2. task'[depth] = t /\ \A k \in depth + 1 .. MaxDepth : task'[k] = task[k]
    BY <1>2, <1>5 DEF Child
  <2> HIDE DEF f
  <2>3. QED
    BY <1>3, <1>5, <2>1, <2>2 DEF Waiting
<1>6. CASE ExecSpawn
  <2> DEFINE t == [NoTask EXCEPT !.st = "running", !.id = runs + 1,
                                 !.outp = (term_stdout # NULL), !.inp = (term_stdin # NULL)]
  <2>1. /\ t.got = << >> /\ t.wired = FALSE /\ t.outp = (term_stdout # NULL)
        /\ t.inp = (term_stdin # NULL)
    BY DEF NoTask
  <2>2. Child(t) /\ Stay([Top EXCEPT !.pc = "spawned"]) /\ Top.pc = "exec"
    BY <1>6 DEF ExecSpawn
  <2>3. term_stdout = Top.stdout /\ term_stdin = Top.stdin /\ task[depth].got = << >>
    BY <1>1, <2>2 DEF Innermost, InRun
  <2> HIDE DEF t
  <2>4. QED
    BY <1>5, <2>1, <2>2, <2>3
<1>7. CASE WireExit
  <2> DEFINE t == [task[depth] EXCEPT !.hooked = TRUE]
  <2>1. /\ t.got = task[depth].got /\ t.wired = task[depth].wired /\ t.outp = task[depth].outp
        /\ t.inp = task[depth].inp
    BY <1>2 DEF Task
  <2>2. Child(t) /\ Stay([Top EXCEPT !.pc = "wiring"]) /\ Top.pc = "spawned"
    BY <1>7 DEF WireExit
  <2> HIDE DEF t
  <2>3. QED
    BY <1>1, <1>5, <2>1, <2>2 DEF Innermost, Waiting
<1>8. CASE WirePipes
  <2> DEFINE t == [task[depth] EXCEPT !.wired = TRUE]
  <2>1. /\ t.got = task[depth].got /\ t.wired = TRUE /\ t.outp = task[depth].outp
        /\ t.inp = task[depth].inp
    BY <1>2 DEF Task
  <2>2. Child(t) /\ Stay([Top EXCEPT !.pc = "wait"]) /\ Top.pc = "wiring"
    BY <1>8 DEF WirePipes
  <2> HIDE DEF t
  <2>3. QED
    BY <1>1, <1>5, <2>1, <2>2 DEF Innermost, Waiting
<1>9. QED
  BY <1>4, <1>6, <1>7, <1>8

(* An activation that returns leaves no block behind: it has freed its own *)
(* or never had one.                                                       *)
LEMMA PipeReturn ==
    ASSUME IInv, PInv, depth > 0, NEW found \in BOOLEAN, NEW brk \in BOOLEAN, Return(found, brk),
           term_stdout' = NULL, term_stdin' = NULL, live' = live \ {Top.stdout}
    PROVE  PInv'
<1>1. /\ Stacked' /\ Top'.pc = "returned" /\ depth' = depth - 1
      /\ \A k \in 1 .. depth' : frame'[k].stdout = frame[k].stdout
  BY StackedReturn DEF PInv
<1>2. Innermost'
  BY <1>1 DEF Innermost, InRun, Waiting
<1>3. ASSUME NEW b \in live' PROVE \E k \in 1 .. depth' : frame'[k].stdout = b
  <2>1. PICK k \in 1 .. depth : frame[k].stdout = b
    BY DEF PInv, Owned
  <2>2. k # depth /\ depth \in 1 .. MaxDepth
    BY <2>1, TopFacts DEF Top
  <2>3. k \in 1 .. depth'
    BY <1>1, <2>2
  <2>4. QED
    BY <1>1, <2>1, <2>3
<1>4. QED
  BY <1>1, <1>2, <1>3 DEF PInv, Owned

LEMMA PipeFinish == IInv /\ Ownership /\ PInv /\ Finish => PInv'
<1> SUFFICES ASSUME IInv, Ownership, PInv, Finish PROVE PInv'
  OBVIOUS
<1>1. /\ depth > 0 /\ Top.pc = "finish" /\ Stacked /\ Owned /\ Innermost
      /\ term_stdout' = NULL /\ term_stdin' = NULL /\ UNCHANGED memory
  BY InLine DEF Finish, PInv
<1>2. /\ Top \in Frame /\ live \subseteq BufId
      /\ Top.stdout # NULL <=> Op(Top) \in Pipes
  BY <1>1, InnerFacts DEF IInv, TypeOK
<1>3. CASE ~Capturing(Top)
  <2>1. Top.stdout = NULL /\ live' = live \ {Top.stdout}
    BY <1>1, <1>2, <1>3 DEF Capturing, Pipes, ToFile, BufId, NULL, memory
  <2>2. Return(TRUE, Top.brk) /\ Top.brk \in BOOLEAN
    BY <1>2, <1>3 DEF Finish, Frame
  <2>3. QED
    BY <1>1, <2>1, <2>2, PipeReturn
<1>4. CASE Capturing(Top)
  <2> DEFINE f == [Top EXCEPT !.pc = "ran", !.stdout = term_stdout]
  <2>1. term_stdout = Top.stdout
    BY <1>1 DEF Innermost, InRun
  <2>2. /\ f.pc = "ran" /\ f.stdout = Top.stdout /\ f.line = Top.line /\ f.i = Top.i
        /\ f.ctx = Top.ctx /\ f.stdin = Top.stdin /\ Stay(f) /\ depth' = depth /\ UNCHANGED task
    BY <1>2, <1>4, <2>1 DEF Frame, Finish
  <2> HIDE DEF f
  <2>3. Stacked' /\ Top' = f
    BY <1>1, <1>2, <2>2, StackedStay
  <2>4. Owned'
    BY <1>1, <2>2, OwnedStay DEF memory
  <2>5. Innermost'
    BY <1>1, <2>2, <2>3 DEF Innermost, InRun, Waiting
  <2>6. QED
    BY <2>3, <2>4, <2>5 DEF PInv
<1>5. QED
  BY <1>3, <1>4

LEMMA PipeFile == IInv /\ PInv /\ WriteFile /\ ~Return(FALSE, Top.brk) => PInv'
<1> SUFFICES ASSUME IInv, PInv, WriteFile, ~Return(FALSE, Top.brk) PROVE PInv'
  OBVIOUS
<1>1. /\ depth > 0 /\ Top.pc = "ran" /\ Stacked /\ Owned /\ Innermost
      /\ UNCHANGED <<globals, memory, task, depth>> /\ Stay([Top EXCEPT !.pc = "filed"])
  BY InLine DEF WriteFile, PInv
<1>2. /\ Top \in Frame
      /\ Top.stdout # NULL <=> Op(Top) \in Pipes
  BY <1>1, InnerFacts
<1> DEFINE f == [Top EXCEPT !.pc = "filed"]
<1>3. /\ f.pc = "filed" /\ f.stdout = Top.stdout /\ f.line = Top.line /\ f.i = Top.i
      /\ f.ctx = Top.ctx /\ f.stdin = Top.stdin /\ Stay(f)
  BY <1>1, <1>2 DEF Frame
<1> HIDE DEF f
<1>4. Stacked' /\ Top' = f
  BY <1>1, <1>2, <1>3, StackedStay
<1>5. Owned'
  BY <1>1, <1>3, OwnedStay DEF memory
<1>6. Innermost'
  BY <1>1, <1>3, <1>4 DEF Innermost, InRun, Waiting, globals
<1>7. QED
  BY <1>4, <1>5, <1>6 DEF PInv

LEMMA PipePush ==
    ASSUME IInv, PInv, depth < MaxDepth, NEW f, NEW below, Push(f, below), UNCHANGED task,
           below.pc = "callee", below.stdout = Top.stdout, below.stdin = Top.stdin,
           below.ctx = Top.ctx, below.line = Top.line, below.i = Top.i,
           f.pc = "enter", f.stdout = NULL, f.stdin = Top.stdout, f.ctx = 0,
           Top.pc \notin {"enter"} \cup InRun, UNCHANGED <<globals, memory>>
    PROVE  PInv' /\ Top' = f /\ depth' = depth + 1 /\ task'[depth'].got = << >>
<1>1. /\ Stacked' /\ Top' = f /\ depth' = depth + 1 /\ task'[depth'].got = << >>
      /\ \A k \in 1 .. depth : frame'[k].stdout = frame[k].stdout
  BY StackedPush DEF PInv
<1>2. Innermost'
  BY <1>1 DEF PInv, Innermost, InRun, Waiting, globals
<1>3. depth \in Nat
  BY BoundAssumption DEF IInv, TypeOK
<1>4. Owned'
  BY <1>1, <1>3 DEF PInv, Owned, memory
<1>5. QED
  BY <1>1, <1>2, <1>4 DEF PInv

LEMMA PipeCall ==
    IInv /\ PInv /\ CallNext
        => /\ PInv' /\ Top'.pc = "enter" /\ depth' = depth + 1 /\ Top'.line = Top.line
           /\ Top'.i = NextStage(Top) /\ Top'.stdin = Top.stdout /\ Top'.stdout = NULL
           /\ task'[depth'].got = << >>
<1> SUFFICES ASSUME IInv, PInv, CallNext
             PROVE  /\ PInv' /\ Top'.pc = "enter" /\ depth' = depth + 1 /\ Top'.line = Top.line
                    /\ Top'.i = NextStage(Top) /\ Top'.stdin = Top.stdout /\ Top'.stdout = NULL
                    /\ task'[depth'].got = << >>
  OBVIOUS
<1> DEFINE f == NewFrame(Top.line, NextStage(Top), Top.stdout, Top.ctx)
           below == [Top EXCEPT !.pc = "callee"]
<1>1. depth > 0 /\ Top.pc \in {"ran", "filed"} /\ Stacked /\ UNCHANGED <<globals, memory, task>>
  BY InLine DEF CallNext, PInv
<1>2. Top \in Frame /\ Top.ctx = 0
  BY <1>1, InnerFacts
<1>3. /\ f.pc = "enter" /\ f.line = Top.line /\ f.i = NextStage(Top) /\ f.stdout = NULL
      /\ f.stdin = Top.stdout /\ f.ctx = 0
  BY <1>2 DEF NewFrame, NoFrame
<1>4. /\ below.pc = "callee" /\ below.stdout = Top.stdout /\ below.stdin = Top.stdin
      /\ below.ctx = Top.ctx /\ below.line = Top.line /\ below.i = Top.i
  BY <1>2 DEF Frame
<1>5. Push(f, below)
  BY DEF CallNext
<1>6. depth < MaxDepth
  <2>1. depth + 1 \in 0 .. MaxDepth
    BY CallNextStack, <1>5 DEF StackOK, Push
  <2>2. QED
    BY <2>1, <1>1, TopFacts, BoundAssumption
<1> HIDE DEF f, below
<1>7. QED
  BY <1>1, <1>3, <1>4, <1>5, <1>6, PipePush DEF InRun

LEMMA PipeReceive ==
    ASSUME IInv, PInv, NEW line \in Lines, Receive(line)
    PROVE  /\ PInv' /\ Top'.pc = "enter" /\ depth = 0 /\ depth' = 1 /\ Top'.line = line
           /\ Top'.i = 1 /\ Top'.stdin = NULL /\ Top'.stdout = NULL /\ task'[depth'].got = << >>
<1> DEFINE f == NewFrame(line, 1, NULL, 0)
           below == [Top EXCEPT !.pc = "callee"]
<1>1. /\ depth = 0 /\ Top.pc = "prompt" /\ UNCHANGED <<globals, memory, task>>
      /\ Push(f, below) /\ depth < MaxDepth
  BY BoundAssumption DEF Receive
<1>2. Top \in Frame /\ Top.stdout = NULL
  BY <1>1, BoundAssumption DEF Top, IInv, TypeOK, PInv, Stacked
<1>3. /\ f.pc = "enter" /\ f.line = line /\ f.i = 1 /\ f.stdout = NULL
      /\ f.stdin = NULL /\ f.ctx = 0
  BY <1>2 DEF NewFrame, NoFrame
<1>4. /\ below.pc = "callee" /\ below.stdout = Top.stdout /\ below.stdin = Top.stdin
      /\ below.ctx = Top.ctx /\ below.line = Top.line /\ below.i = Top.i
  BY <1>2 DEF Frame
<1> HIDE DEF f, below
<1>5. QED
  BY <1>1, <1>2, <1>3, <1>4, PipePush DEF InRun

(* The program changes, and perhaps what it was given and what it wrote.   *)
LEMMA StackedTask ==
    ASSUME IInv, Stacked, Owned, NEW t, Child(t), UNCHANGED <<frame, depth, live>>
    PROVE  /\ Stacked' /\ Owned' /\ Top' = Top /\ task'[depth'] = t
<1>1. depth \in 0 .. MaxDepth /\ MaxDepth \in Nat /\ task \in [0 .. MaxDepth -> Task]
  BY BoundAssumption DEF IInv, TypeOK
<1>2. \A k \in depth + 1 .. MaxDepth : task'[k] = task[k]
  BY <1>1 DEF Child
<1>3. QED
  BY <1>1, <1>2 DEF Stacked, StageAt, Owned, Top, Child, Op

LEMMA PipeWrite ==
    ASSUME IInv, Ownership, PInv, TaskWrite
    PROVE  /\ PInv' /\ Top' = Top /\ depth' = depth /\ Top.pc \in Waiting
           /\ task'[depth].got = task[depth].got
           /\ Top.stdin # NULL => heap'[Top.stdin] = heap[Top.stdin]
           /\ \/ /\ Top.stdout # NULL /\ screen' = screen
                 /\ \E tok : heap'[Top.stdout] = Append(heap[Top.stdout], tok)
              \/ /\ Contents(Top.stdout) = << >> /\ heap' = heap
                 /\ \E tok : screen' = Append(screen, tok)
<1> DEFINE tok == <<task[depth].id, Len(task[depth].out) + 1>>
           t == [task[depth] EXCEPT !.out = Append(@, tok),
                                    !.early = @ + (IF task[depth].wired THEN 0 ELSE 1)]
<1>1. /\ Stacked /\ Owned /\ Innermost /\ UNCHANGED <<frame, depth, term_stdin, term_stdin_size, stdin_pos>>
      /\ WriteFrom(depth, tok) /\ Child(t)
  BY DEF PInv, TaskWrite
<1>2. depth > 0 /\ Top.pc \in Waiting /\ depth \in 1 .. MaxDepth
  BY RunsWaiting, TopFacts DEF TaskWrite, Runs
<1>3. /\ t.got = task[depth].got /\ t.outp = task[depth].outp /\ t.inp = task[depth].inp
      /\ t.wired = task[depth].wired
  BY <1>2, TopFacts DEF Task
<1> HIDE DEF t, tok
<1>4. /\ UNCHANGED <<term_stdout, live>>
      /\ \A b \in BufId : b # Top.stdout => heap'[b] = heap[b]
      /\ \/ /\ Top.stdout # NULL /\ screen' = screen /\ task[depth].wired
            /\ heap'[Top.stdout] = Append(heap[Top.stdout], tok)
         \/ /\ Contents(Top.stdout) = << >> /\ heap' = heap /\ screen' = Append(screen, tok)
  <2>1. CASE Piped(depth)
    <3>1. task[depth].outp /\ task[depth].wired /\ AppendStdout(tok)
      BY <1>1, <2>1 DEF Piped, WriteFrom
    <3>2. Top.stdout # NULL
      BY <1>1, <1>2, <3>1 DEF Innermost
    <3>3. QED
      BY <1>2, <3>1, <3>2, Captured DEF InRun, Waiting
  <2>2. CASE ~Piped(depth)
    <3>1. Contents(Top.stdout) = << >>
      BY <1>1, <1>2, <2>2 DEF Piped, Innermost, Waiting, Contents
    <3>2. QED
      BY <1>1, <2>2, <3>1 DEF WriteFrom, memory
  <2>3. QED
    BY <2>1, <2>2
<1>5. Stacked' /\ Owned' /\ Top' = Top /\ task'[depth'] = t
  BY <1>1, <1>4, StackedTask
<1>6. Top.stdin # NULL => heap'[Top.stdin] = heap[Top.stdin]
  <2>1. live \subseteq BufId
    BY DEF IInv, TypeOK
  <2>2. QED
    BY <1>1, <1>2, <1>4, <2>1, StdinBlock
<1>7. Innermost'
  <2>1. Top.pc \in {"spawned", "wiring"} => Contents(Top.stdout)' = << >>
    BY <1>1, <1>4, <1>5 DEF Innermost, Contents, Waiting
  <2>2. QED
    BY <1>1, <1>2, <1>3, <1>4, <1>5, <1>6, <2>1 DEF Innermost, Waiting, InRun
<1>8. QED
  BY <1>1, <1>2, <1>3, <1>4, <1>5, <1>6, <1>7 DEF PInv

LEMMA PipeRead ==
    ASSUME IInv, Ownership, PInv, TaskRead
    PROVE  /\ PInv' /\ Top' = Top /\ depth' = depth /\ Top.pc \in Waiting
           /\ \/ task'[depth].got = task[depth].got
              \/ /\ Top.stdin # NULL /\ Len(task[depth].got) < Len(heap[Top.stdin])
                 /\ task'[depth].got = Append(task[depth].got,
                                              heap[Top.stdin][Len(task[depth].got) + 1])
<1>1. /\ Stacked /\ Owned /\ Innermost /\ UNCHANGED <<term_stdout, term_stdin, term_stdin_size>>
      /\ UNCHANGED <<memory, frame, depth>> /\ task[depth].inp
  BY DEF PInv, TaskRead
<1>2. depth > 0 /\ Top.pc \in Waiting /\ depth \in 1 .. MaxDepth /\ task[depth] \in Task
  BY RunsWaiting, TopFacts DEF TaskRead, Runs
<1>3. /\ Top.stdin # NULL /\ term_stdin = Top.stdin /\ Top.stdin \in live /\ Top.stdin \in BufId
      /\ term_stdin_size = Len(heap[Top.stdin]) /\ stdin_pos = Len(task[depth].got)
      /\ heap[Top.stdin] \in Seq(Token) /\ task[depth].got \in Seq(Token)
  <2>1. Top.stdin # NULL /\ term_stdin = Top.stdin
    BY <1>1, <1>2 DEF Innermost, InRun, Waiting
  <2>2. Top.stdin \in live
    BY <1>1, <1>2, <2>1, StdinBlock
  <2>3. QED
    BY <1>1, <1>2, <2>1, <2>2 DEF Innermost, InRun, Waiting, IInv, TypeOK, Task
<1>4. PICK t : /\ Child(t) /\ t.outp = task[depth].outp /\ t.inp = task[depth].inp
               /\ t.wired = task[depth].wired
               /\ \/ t.got = task[depth].got /\ stdin_pos' = stdin_pos
                  \/ /\ stdin_pos' = stdin_pos + 1
                     /\ Len(task[depth].got) < Len(heap[Top.stdin])
                     /\ t.got = Append(task[depth].got, heap[Top.stdin][Len(task[depth].got) + 1])
  <2>1. CASE Remaining > 0
    <3>1. stdin_pos + 1 \in 1 .. Len(heap[Top.stdin]) /\ stdin_pos + 1 \in DOMAIN heap[Top.stdin]
      <4>1. Remaining = Len(heap[Top.stdin]) - stdin_pos
        BY <1>3 DEF Remaining
      <4>2. stdin_pos \in Nat /\ Len(heap[Top.stdin]) \in Nat
        BY <1>3
      <4>3. stdin_pos + 1 \in 1 .. Len(heap[Top.stdin])
        BY <2>1, <4>1, <4>2
      <4>4. QED
        BY <1>3, <4>3
    <3>2. Peek = {heap[Top.stdin][stdin_pos + 1]}
      BY <1>3, <3>1 DEF Peek
    <3> DEFINE t == [task[depth] EXCEPT !.reads = @ + 1,
                                        !.got = Append(@, heap[Top.stdin][stdin_pos + 1])]
    <3>3. Child(t) /\ stdin_pos' = stdin_pos + 1
      BY <2>1, <3>2 DEF TaskRead
    <3>4. /\ t.outp = task[depth].outp /\ t.inp = task[depth].inp
          /\ t.wired = task[depth].wired
          /\ t.got = Append(task[depth].got, heap[Top.stdin][stdin_pos + 1])
      BY <1>2 DEF Task
    <3> HIDE DEF t
    <3>5. QED
      BY <1>3, <3>1, <3>3, <3>4
  <2>2. CASE Remaining = 0
    <3> DEFINE t == [task[depth] EXCEPT !.reads = @ + 1]
    <3>1. Child(t) /\ stdin_pos' = stdin_pos
      BY <2>2 DEF TaskRead
    <3>2. /\ t.outp = task[depth].outp /\ t.inp = task[depth].inp
          /\ t.wired = task[depth].wired /\ t.got = task[depth].got
      BY <1>2 DEF Task
    <3> HIDE DEF t
    <3>3. QED
      BY <3>1, <3>2
  <2>3. QED
    BY <2>1, <2>2 DEF TaskRead
<1>5. Stacked' /\ Owned' /\ Top' = Top /\ task'[depth'] = t
  BY <1>1, <1>4, StackedTask DEF memory
<1>6. /\ stdin_pos' = Len(task'[depth'].got)
      /\ \/ task'[depth].got = task[depth].got
         \/ /\ Len(task[depth].got) < Len(heap[Top.stdin])
            /\ task'[depth].got = Append(task[depth].got, heap[Top.stdin][Len(task[depth].got) + 1])
  <2>1. CASE t.got = task[depth].got /\ stdin_pos' = stdin_pos
    BY <1>1, <1>3, <1>5, <2>1
  <2>2. CASE /\ stdin_pos' = stdin_pos + 1
             /\ Len(task[depth].got) < Len(heap[Top.stdin])
             /\ t.got = Append(task[depth].got, heap[Top.stdin][Len(task[depth].got) + 1])
    <3>1. heap[Top.stdin][Len(task[depth].got) + 1] \in Token
      BY <1>3, <2>2
    <3>2. Len(t.got) = Len(task[depth].got) + 1
      BY <1>3, <2>2, <3>1
    <3>3. QED
      BY <1>1, <1>3, <1>5, <2>2, <3>2
  <2>3. QED
    BY <1>4, <2>1, <2>2
<1>7. Innermost'
  BY <1>1, <1>2, <1>3, <1>4, <1>5, <1>6 DEF Innermost, Waiting, InRun, memory, Contents
<1>8. QED
  BY <1>1, <1>2, <1>3, <1>5, <1>6, <1>7 DEF PInv

LEMMA PipeExit ==
    ASSUME IInv, PInv, TaskExit
    PROVE  PInv' /\ Top' = Top /\ depth' = depth /\ task'[depth].got = task[depth].got
<1> DEFINE t == [task[depth] EXCEPT !.st = IF task[depth].hooked THEN "exited" ELSE "lost"]
<1>1. /\ Stacked /\ Owned /\ Innermost /\ UNCHANGED <<globals, memory, frame, depth>> /\ Child(t)
  BY DEF PInv, TaskExit
<1>2. depth > 0 /\ Top.pc \in Waiting /\ task[depth] \in Task
  BY RunsWaiting, TopFacts DEF TaskExit, Runs
<1>3. /\ t.got = task[depth].got /\ t.outp = task[depth].outp /\ t.inp = task[depth].inp
      /\ t.wired = task[depth].wired
  BY <1>2 DEF Task
<1> HIDE DEF t
<1>4. Stacked' /\ Owned' /\ Top' = Top /\ task'[depth'] = t
  BY <1>1, StackedTask DEF memory
<1>5. Innermost'
  BY <1>1, <1>2, <1>3, <1>4 DEF Innermost, Waiting, InRun, memory, globals, Contents
<1>6. QED
  BY <1>1, <1>3, <1>4, <1>5 DEF PInv

LEMMA PipeLoop == IInv /\ PInv /\ (LineDone \/ EndOfInput \/ Respawn) => PInv' /\ depth = 0 /\ depth' = 0
<1> SUFFICES ASSUME IInv, PInv, LineDone \/ EndOfInput \/ Respawn PROVE PInv' /\ depth = 0 /\ depth' = 0
  OBVIOUS
<1>1. /\ depth = 0 /\ depth' = 0 /\ frame \in [0 .. MaxDepth -> Frame] /\ MaxDepth \in Nat
      /\ UNCHANGED task /\ Top = frame[0] /\ frame[0] \in Frame
      /\ Top.pc \in {"returned", "gone", "prompt"}
  BY BoundAssumption DEF LineDone, EndOfInput, Respawn, IInv, TypeOK, Top
<1>2. frame'[0].stdout = NULL /\ frame'[0].pc \in {"prompt", "gone"}
  <2>1. CASE LineDone
    <3> DEFINE p == IF Top.brk \/ (~interactive /\ ~Top.found) THEN "gone" ELSE "prompt"
    <3>1. frame' = [frame EXCEPT ![0] = [NoFrame EXCEPT !.pc = p, !.found = Top.found]]
      BY <2>1 DEF LineDone
    <3>2. p \in {"gone", "prompt"}
      OBVIOUS
    <3> HIDE DEF p
    <3>3. frame'[0].stdout = NULL /\ frame'[0].pc = p
      BY <1>1, <3>1 DEF NoFrame
    <3>4. QED
      BY <3>2, <3>3
  <2>2. CASE EndOfInput
    <3>1. frame'[0].stdout = frame[0].stdout /\ frame'[0].pc = "gone"
      BY <1>1, <2>2 DEF EndOfInput, Frame
    <3>2. QED
      BY <3>1 DEF PInv, Stacked
  <2>3. CASE Respawn
    BY <1>1, <2>3 DEF Respawn, NoFrame
  <2>4. QED
    BY <2>1, <2>2, <2>3
<1>3. term_stdout' = NULL /\ term_stdin' = NULL /\ live' \subseteq live
  BY <1>1 DEF PInv, Innermost, InRun, LineDone, EndOfInput, Respawn, globals, memory
<1>4. QED
  BY <1>1, <1>2, <1>3 DEF PInv, Stacked, Innermost, Owned, Top, InRun, Waiting

LEMMA InitPipe == Init => PInv
<1> SUFFICES ASSUME Init PROVE PInv
  OBVIOUS
<1>1. /\ depth = 0 /\ MaxDepth \in Nat /\ frame[0].pc = "prompt" /\ frame[0].stdout = NULL
      /\ \A k \in 1 .. MaxDepth : task[k].got = << >>
  BY BoundAssumption DEF Init, NoFrame, NoTask
<1>2. term_stdout = NULL /\ term_stdin = NULL /\ live = {}
  BY DEF Init
<1>3. QED
  BY <1>1, <1>2 DEF PInv, Stacked, Innermost, Owned, Top, InRun, Waiting

(* No step of such a line fails.                                           *)
LEMMA NothingFails ==
    ASSUME Clean, IInv
    PROVE  /\ ~ExecNotFound /\ ~Fault /\ (WriteFile => ~Return(FALSE, Top.brk))
           /\ \A line \in SystemLines : ~TaskSystem(line)
<1>1. /\ \A line \in AllLines : \A i \in 1 .. Len(line) : line[i].cmd \notin Missing \cup BadFiles
      /\ SystemLines = {}
  BY DEF Clean, AllLines
<1>2. ASSUME ExecNotFound PROVE FALSE
  BY <1>1, <1>2, InLine, TopFacts DEF ExecNotFound, Cmd
<1>3. ASSUME WriteFile, Return(FALSE, Top.brk) PROVE FALSE
  <2>1. /\ depth > 0 /\ Top.pc = "ran" /\ Op(Top) \in ToFile
        /\ Top.line \in AllLines /\ Top.i \in 1 .. Len(Top.line)
    BY <1>3, InLine, TopFacts DEF WriteFile
  <2>2. Top.i + 1 \in 1 .. Len(Top.line)
    BY <2>1, NextStageInLine DEF Op, ToFile
  <2>3. Top.line[Top.i + 1].cmd \notin BadFiles
    BY <1>1, <2>1, <2>2
  <2>4. UNCHANGED depth
    BY <1>3, <2>3 DEF WriteFile
  <2>5. depth' = depth - 1 /\ depth \in Nat
    BY <1>3, BoundAssumption DEF Return, IInv, TypeOK
  <2>6. QED
    BY <2>4, <2>5
<1>4. ~Fault
  BY DEF Clean, Fault, StrlenFaults
<1>5. QED
  BY <1>1, <1>2, <1>3, <1>4

LEMMA PipeFree == IInv /\ PInv /\ FreeAndReturn => PInv' /\ Top'.pc = "returned"
<1> SUFFICES ASSUME IInv, PInv, FreeAndReturn PROVE PInv' /\ Top'.pc = "returned"
  OBVIOUS
<1>1. /\ depth > 0 /\ Top \in Frame /\ Top.pc \in {"returned", "filed"}
      /\ live' = live \ {Top.stdout} /\ UNCHANGED globals
  BY TopFacts DEF FreeAndReturn
<1>2. PICK found \in BOOLEAN, brk \in BOOLEAN : Return(found, brk)
  BY <1>1 DEF FreeAndReturn, Frame
<1>3. term_stdout' = NULL /\ term_stdin' = NULL
  BY <1>1 DEF PInv, Innermost, InRun, globals
<1>4. PInv'
  BY <1>1, <1>2, <1>3, PipeReturn
<1>5. QED
  BY <1>1, <1>2, <1>4, StackedReturn DEF PInv

LEMMA PipeInvariant == ASSUME Clean PROVE IInv /\ Ownership /\ PInv /\ [Next]_vars => PInv'
<1> SUFFICES ASSUME IInv, Ownership, PInv, [Next]_vars PROVE PInv'
  OBVIOUS
<1>1. CASE UNCHANGED vars
  BY <1>1 DEF PInv, Stacked, StageAt, Innermost, Owned, Top, Op, Contents, vars, stack, globals, memory
<1>2. CASE Shell
  BY <1>2, NothingFails, PipeEnter, PipeBuiltin, PipeRun, PipeFinish, PipeFile, PipeCall, PipeFree, PipeLoop
  DEF Shell
<1>3. CASE TaskWrite \/ TaskRead \/ TaskExit
  BY <1>3, PipeWrite, PipeRead, PipeExit
<1>4. CASE \E line \in Lines : Receive(line)
  BY <1>4, PipeReceive
<1>5. CASE EndOfInput \/ Respawn
  BY <1>5, PipeLoop
<1>6. QED
  BY <1>1, <1>2, <1>3, <1>4, <1>5, NothingFails DEF Next

LEMMA PipeHolds == ASSUME Clean PROVE Spec => [](IInv /\ Ownership /\ PInv)
BY InitPipe, PipeInvariant, StackDiscipline, OwnershipHolds, PTL DEF Spec

(* Where nothing fails, every block that a stage allocated has been freed  *)
(* when the loop waits for the next line, whatever the programs print and  *)
(* read and however many stages a line has.                                *)
THEOREM NothingLeaks == ASSUME Clean PROVE Spec => []FreedIfAllocated
<1>1. PInv => FreedIfAllocated
  BY DEF PInv, Owned, FreedIfAllocated
<1>2. QED
  BY <1>1, PipeHolds, PTL

-----------------------------------------------------------------------------
(* The steps of the shell as steps of the pipeline.                        *)
LEMMA Idle ==
    ASSUME ~Working, ~Working', UNCHANGED world
    PROVE  UNCHANGED Pipe!vars
BY DEF Pipe!vars, world

LEMMA SameStage ==
    ASSUME Working, Working', UNCHANGED world, Top'.line = Top.line, Top'.i = Top.i,
           Contents(Top.stdin)' = Contents(Top.stdin),
           Contents(Top.stdout)' = Contents(Top.stdout),
           task'[depth'].got = task[depth].got,
           (Top'.pc = "filed") <=> (Top.pc = "filed")
    PROVE  UNCHANGED Pipe!vars
BY DEF Pipe!vars, world

LEMMA Longer ==
    ASSUME NEW S, NEW old \in Seq(S), NEW x
    PROVE  Pipe!Longer(Append(old, x), old)
<1>1. old \in Seq(S \cup {x}) /\ x \in S \cup {x}
  OBVIOUS
<1>2. Len(Append(old, x)) = Len(old) + 1
  BY <1>1
<1>3. SubSeq(Append(old, x), 1, Len(old)) = old
  BY <1>1
<1>4. QED
  BY <1>2, <1>3 DEF Pipe!Longer

LEMMA StepOutput == ASSUME IInv, Ownership, PInv, TaskWrite PROVE Pipe!Output
<1>1. /\ Top' = Top /\ depth' = depth /\ depth > 0 /\ Top.pc \in Waiting /\ Working /\ Working'
      /\ Top.i # 0 /\ UNCHANGED files /\ heap \in [BufId -> Seq(Token)] /\ screen \in Seq(Token)
  <2>1. /\ Top' = Top /\ depth' = depth /\ Top.pc \in Waiting
    BY PipeWrite
  <2>2. task[depth].st = "running" /\ UNCHANGED files
    BY DEF TaskWrite, Runs
  <2>3. depth > 0
    BY <2>2, RunsWaiting
  <2>4. Top.i # 0
    BY <2>3, TopFacts
  <2>5. heap \in [BufId -> Seq(Token)] /\ screen \in Seq(Token)
    BY DEF IInv, TypeOK
  <2>6. Working /\ Working'
    BY <2>1, <2>3 DEF Working, Waiting
  <2> QED BY <2>1, <2>2, <2>3, <2>4, <2>5, <2>6, Zenon
<1>2. /\ Contents(Top.stdin)' = Contents(Top.stdin)
      /\ task'[depth].got = task[depth].got
  BY <1>1, PipeWrite DEF Contents
<1>3. /\ Contents(Top.stdout) \in Seq(Token)
      /\ Top.stdout # NULL => Op(Top) \in Pipes
  BY <1>1, InnerFacts DEF PInv, Contents, Frame, Ptr, BufId, NULL
<1>4. \/ /\ Contents(Top.stdout) = << >> /\ Contents(Top.stdout)' = Contents(Top.stdout)
         /\ Pipe!Longer(screen', screen)
      \/ /\ Op(Top) \notin {"NORMAL", "AND_RUN"} /\ screen' = screen
         /\ Pipe!Longer(Contents(Top.stdout)', Contents(Top.stdout))
  <2>1. CASE /\ Top.stdout # NULL /\ screen' = screen
             /\ \E tok : heap'[Top.stdout] = Append(heap[Top.stdout], tok)
    <3>1. PICK tok : Contents(Top.stdout)' = Append(Contents(Top.stdout), tok)
      BY <1>1, <2>1 DEF Contents
    <3>2. Op(Top) \notin {"NORMAL", "AND_RUN"}
      BY <1>3, <2>1 DEF Pipes, ToFile
    <3>3. QED
      BY <1>3, <2>1, <3>1, <3>2, Longer
  <2>2. CASE /\ Contents(Top.stdout) = << >> /\ heap' = heap
             /\ \E tok : screen' = Append(screen, tok)
    BY <1>1, <2>2, Longer DEF Contents
  <2>3. QED
    BY <2>1, <2>2, PipeWrite
<1>5. QED
  BY <1>1, <1>2, <1>4 DEF Pipe!Output, Pipe!Op, Op, Waiting

LEMMA StepBuiltin == ASSUME IInv, Ownership, PInv, ExecBuiltin PROVE Pipe!Output
<1>1. /\ depth > 0 /\ Top.pc = "exec" /\ depth' = depth /\ Working
      /\ UNCHANGED <<files, task>> /\ Stacked /\ Innermost /\ screen \in Seq(Token)
  BY InLine DEF ExecBuiltin, Working, PInv, IInv, TypeOK
<1>2. /\ Top \in Frame /\ Top.i # 0 /\ depth \in 1 .. MaxDepth /\ Top.ctx = 0 /\ term_stdout = Top.stdout
      /\ Contents(Top.stdout) = << >>
      /\ Top.stdout # NULL => Op(Top) \in Pipes
  BY <1>1, InnerFacts, TopFacts DEF Innermost, InRun
<1> DEFINE f == [Top EXCEPT !.pc = "finish"]
           tok == <<runs + 1, 1>>
<1>3. /\ f.pc = "finish" /\ f.stdout = Top.stdout /\ f.line = Top.line /\ f.i = Top.i
      /\ f.stdin = Top.stdin /\ Stay(f) /\ TermPrintf(0, tok)
  BY <1>1, <1>2 DEF Frame, ExecBuiltin
<1> HIDE DEF f, tok
<1>4. Top' = f /\ Working'
  BY <1>1, <1>3, StayResult DEF Top, Working
<1>5. /\ Top.stdin # NULL => heap'[Top.stdin] = heap[Top.stdin]
      /\ \/ /\ Contents(Top.stdout)' = << >> /\ Pipe!Longer(screen', screen)
         \/ /\ Op(Top) \notin {"NORMAL", "AND_RUN"} /\ screen' = screen
            /\ Pipe!Longer(Contents(Top.stdout)', << >>)
  <2>1. CASE term_stdout = NULL
    <3>1. screen' = Append(screen, tok) /\ heap' = heap
      BY <1>3, <2>1 DEF TermPrintf, WriteFrom, Piped, memory
    <3>2. QED
      BY <1>1, <1>2, <1>3, <1>4, <2>1, <3>1, Longer DEF Contents
  <2>2. CASE term_stdout # NULL
    <3>1. AppendStdout(tok) /\ Top.stdout # NULL
      BY <1>2, <1>3, <2>2 DEF TermPrintf
    <3>2. /\ heap'[Top.stdout] = Append(heap[Top.stdout], tok) /\ screen' = screen
          /\ \A b \in BufId : b # Top.stdout => heap'[b] = heap[b]
      BY <1>1, <3>1, Captured DEF InRun
    <3>3. Contents(Top.stdout)' = Append(<< >>, tok)
      BY <1>2, <1>3, <1>4, <3>1, <3>2 DEF Contents
    <3>4. Op(Top) \notin {"NORMAL", "AND_RUN"}
      BY <1>2, <3>1 DEF Pipes, ToFile
    <3>5. Top.stdin # NULL => heap'[Top.stdin] = heap[Top.stdin]
      BY <1>1, <3>2, StdinBlock DEF IInv, TypeOK
    <3>6. Pipe!Longer(Append(<< >>, tok), << >>)
      <4>1. << >> \in Seq(Token)
        OBVIOUS
      <4>2. QED
        BY <4>1, Longer
    <3>7. QED
      BY <3>2, <3>3, <3>4, <3>5, <3>6
  <2>3. QED
    BY <2>1, <2>2
<1>6. Contents(Top.stdin)' = Contents(Top.stdin)
  BY <1>3, <1>4, <1>5 DEF Contents
<1>7. QED
  BY <1>1, <1>2, <1>3, <1>4, <1>5, <1>6 DEF Pipe!Output, Pipe!Op, Op

LEMMA StepRead == ASSUME IInv, Ownership, PInv, TaskRead PROVE Pipe!Read \/ UNCHANGED Pipe!vars
<1>1. /\ Top' = Top /\ depth' = depth /\ depth > 0 /\ Top.pc \in Waiting /\ Working /\ Working'
      /\ Top.i # 0 /\ UNCHANGED <<memory, world>>
  <2>1. Top' = Top /\ depth' = depth /\ Top.pc \in Waiting
    BY PipeRead
  <2>2. depth > 0 /\ UNCHANGED <<memory, world>>
    BY RunsWaiting DEF TaskRead, Runs
  <2>3. QED
    BY <2>1, <2>2, TopFacts DEF Working, Waiting
<1>2. Contents(Top.stdin)' = Contents(Top.stdin) /\ Contents(Top.stdout)' = Contents(Top.stdout)
  BY <1>1 DEF Contents, memory
<1>3. CASE task'[depth].got = task[depth].got
  BY <1>1, <1>2, <1>3, SameStage
<1>4. CASE /\ Top.stdin # NULL /\ Len(task[depth].got) < Len(heap[Top.stdin])
           /\ task'[depth].got = Append(task[depth].got, heap[Top.stdin][Len(task[depth].got) + 1])
  <2>1. Contents(Top.stdin) = heap[Top.stdin]
    BY <1>4 DEF Contents
  <2>2. QED
    BY <1>1, <1>2, <1>4, <2>1 DEF Pipe!Read, world, Waiting
<1>5. QED
  BY <1>3, <1>4, PipeRead

LEMMA StepEnter == ASSUME IInv, Ownership, PInv, Enter PROVE UNCHANGED Pipe!vars
<1>1. /\ depth > 0 /\ Top.pc = "enter" /\ depth' = depth /\ UNCHANGED <<world, task>> /\ Stacked
      /\ heap \in [BufId -> Seq(Token)] /\ Working
  BY InLine DEF Enter, PInv, IInv, TypeOK, Working
<1>2. Top \in Frame /\ Top.stdout = NULL
  BY <1>1, InnerFacts
<1>3. PICK b \in BufId \cup {NULL} :
         /\ Stay([Top EXCEPT !.pc = "exec", !.stdout = b])
         /\ \/ b = NULL /\ heap' = heap
            \/ b \in BufId /\ b \notin live /\ heap' = [heap EXCEPT ![b] = << >>]
  <2>1. [Top EXCEPT !.pc = "exec"] = [Top EXCEPT !.pc = "exec", !.stdout = NULL]
    BY <1>2 DEF Frame
  <2>2. CASE Op(Top) \in Pipes
    BY <2>2 DEF Enter, Pipes, ToFile, Malloc
  <2>3. CASE Op(Top) \notin Pipes
    BY <2>1, <2>3 DEF Enter, memory
  <2>4. QED
    BY <2>2, <2>3
<1> DEFINE f == [Top EXCEPT !.pc = "exec", !.stdout = b]
<1>4. /\ f.pc = "exec" /\ f.stdout = b /\ f.line = Top.line /\ f.i = Top.i
      /\ f.stdin = Top.stdin /\ Stay(f)
  BY <1>2, <1>3 DEF Frame
<1> HIDE DEF f
<1>5. Top' = f /\ Working'
  BY <1>1, <1>4, StayResult DEF Top, Working
<1>6. Contents(Top.stdout)' = << >> /\ Contents(Top.stdout) = << >>
  BY <1>1, <1>2, <1>3, <1>4, <1>5 DEF Contents, BufId, NULL
<1>7. Contents(Top.stdin)' = Contents(Top.stdin)
  <2>1. Top.stdin # NULL => heap'[Top.stdin] = heap[Top.stdin]
    BY <1>1, <1>3, StdinBlock DEF IInv, TypeOK
  <2>2. QED
    BY <1>4, <1>5, <2>1 DEF Contents
<1>8. QED
  BY <1>1, <1>4, <1>5, <1>6, <1>7, SameStage

LEMMA StepRun ==
    ASSUME IInv, PInv, ExecExit \/ ExecSpawn \/ WireExit \/ WirePipes \/ WaitDone
    PROVE  UNCHANGED Pipe!vars
<1>1. /\ depth > 0 /\ Top.pc \in {"exec"} \cup Waiting /\ depth' = depth /\ Working
      /\ UNCHANGED <<memory, world>> /\ Innermost
  BY InLine DEF ExecExit, ExecSpawn, WireExit, WirePipes, WaitDone, PInv, Waiting, Working
<1>2. Top \in Frame /\ depth \in 0 .. MaxDepth /\ task \in [0 .. MaxDepth -> Task]
  BY <1>1, TopFacts DEF IInv, TypeOK
<1>3. PICK pc \in Waiting \cup {"finish"}, brk \in BOOLEAN : Stay([Top EXCEPT !.pc = pc, !.brk = brk])
  <2>1. \A pc : [Top EXCEPT !.pc = pc] = [Top EXCEPT !.pc = pc, !.brk = Top.brk]
    BY <1>2 DEF Frame
  <2>2. Top.brk \in BOOLEAN
    BY <1>2 DEF Frame
  <2>3. CASE ExecExit
    BY <2>3 DEF ExecExit
  <2>4. CASE ~ExecExit
    <3>1. PICK pc \in Waiting \cup {"finish"} : Stay([Top EXCEPT !.pc = pc])
      BY <2>4 DEF ExecSpawn, WireExit, WirePipes, WaitDone, Waiting
    <3>2. Stay([Top EXCEPT !.pc = pc, !.brk = Top.brk])
      BY <2>1, <3>1
    <3>3. QED
      BY <2>2, <3>2
  <2>5. QED
    BY <2>3, <2>4
<1> DEFINE f == [Top EXCEPT !.pc = pc, !.brk = brk]
<1>4. /\ f.pc = pc /\ f.stdout = Top.stdout /\ f.line = Top.line /\ f.i = Top.i
      /\ f.stdin = Top.stdin /\ Stay(f)
  BY <1>2, <1>3 DEF Frame
<1> HIDE DEF f
<1>5. Top' = f /\ Working'
  BY <1>1, <1>3, <1>4, StayResult DEF Top, Working, Waiting
<1>6. task'[depth].got = task[depth].got
  <2>1. CASE ExecSpawn
    <3>1. task[depth].got = << >>
      BY <1>1, <2>1 DEF ExecSpawn, Innermost
    <3>2. task'[depth].got = << >>
      BY <1>2, <2>1 DEF ExecSpawn, Child, NoTask
    <3>3. QED
      BY <3>1, <3>2
  <2>2. CASE WireExit \/ WirePipes
    BY <1>2, <2>2 DEF WireExit, WirePipes, Child, Task
  <2>3. CASE ExecExit \/ WaitDone
    BY <2>3 DEF ExecExit, WaitDone
  <2>4. QED
    BY <2>1, <2>2, <2>3
<1>7. QED
  BY <1>1, <1>3, <1>4, <1>5, <1>6, SameStage DEF Contents, memory, Waiting

(* The end of a line, seen from its last stage.                            *)
LEMMA StepEnd ==
    ASSUME IInv, PInv, depth > 0, NEW found \in BOOLEAN, NEW brk \in BOOLEAN, Return(found, brk),
           Top.pc # "returned", UNCHANGED world,
           \/ Op(Top) = "NORMAL"
           \/ Op(Top) \in ToFile /\ Top.pc = "filed" /\ Top.i + 1 = Len(Top.line)
    PROVE  Pipe!End
<1>1. Working /\ ~Working'
  BY StackedReturn DEF PInv, Working
<1>2. Top.i # 0
  BY TopFacts
<1>3. QED
  BY <1>1, <1>2 DEF Pipe!End, Pipe!Op, Op, world, ToFile, Pipe!ToFile

LEMMA StepFinish == ASSUME IInv, PInv, Finish PROVE Pipe!End \/ UNCHANGED Pipe!vars
<1>1. /\ depth > 0 /\ Top.pc = "finish" /\ Innermost /\ UNCHANGED <<memory, world>> /\ Top \in Frame
  BY InLine, TopFacts DEF Finish, PInv
<1>2. CASE ~Capturing(Top)
  BY <1>1, <1>2, StepEnd DEF Finish, Capturing, Frame
<1>3. CASE Capturing(Top)
  <2> DEFINE f == [Top EXCEPT !.pc = "ran", !.stdout = term_stdout]
  <2>1. term_stdout = Top.stdout
    BY <1>1 DEF Innermost, InRun
  <2>2. /\ f.pc = "ran" /\ f.stdout = Top.stdout /\ f.line = Top.line /\ f.i = Top.i
        /\ f.stdin = Top.stdin /\ Stay(f) /\ depth' = depth /\ UNCHANGED task
    BY <1>1, <1>3, <2>1 DEF Frame, Finish
  <2> HIDE DEF f
  <2>3. Top' = f /\ Working /\ Working'
    BY <1>1, <2>2, StayResult DEF Top, Working
  <2>4. QED
    BY <1>1, <2>2, <2>3, SameStage DEF Contents, memory
<1>4. QED
  BY <1>2, <1>3

LEMMA StepFree == ASSUME IInv, PInv, FreeAndReturn PROVE Pipe!End \/ UNCHANGED Pipe!vars
<1>1. depth > 0 /\ Top \in Frame /\ UNCHANGED world
  BY TopFacts DEF FreeAndReturn
<1>2. CASE Top.pc = "returned"
  <2>1. ~Working /\ ~Working'
    BY <1>2, PipeFree DEF Working
  <2>2. QED
    BY <1>1, <2>1, Idle
<1>3. CASE Top.pc # "returned"
  <2>1. /\ Top.pc = "filed" /\ Top.line[Top.i + 1].op = "NORMAL" /\ Return(TRUE, Top.brk)
        /\ Op(Top) \in ToFile /\ Top.line \in AllLines /\ Top.i \in 1 .. Len(Top.line)
    BY <1>1, <1>3, TopFacts DEF FreeAndReturn, ShapeAt, Top
  <2>2. Top.i + 1 \in 1 .. Len(Top.line)
    BY <2>1, NextStageInLine DEF Op, ToFile
  <2>3. Top.i + 1 = Len(Top.line)
    BY <2>1, <2>2, LineAssumption DEF WellFormed
  <2>4. QED
    BY <1>1, <2>1, <2>3, StepEnd DEF Frame
<1>4. QED
  BY <1>2, <1>3

LEMMA StepSave == ASSUME IInv, PInv, WriteFile, ~Return(FALSE, Top.brk) PROVE Pipe!Save
<1>1. /\ depth > 0 /\ Top.pc = "ran" /\ Op(Top) \in ToFile /\ Top.i # 0 /\ Top \in Frame
      /\ UNCHANGED <<memory, screen, task, depth>> /\ Stay([Top EXCEPT !.pc = "filed"])
  <2>1. /\ Top.pc = "ran" /\ Op(Top) \in ToFile /\ UNCHANGED <<memory, screen, task, depth>>
        /\ Stay([Top EXCEPT !.pc = "filed"])
    BY DEF WriteFile
  <2>2. depth > 0
    BY <2>1, InLine
  <2>3. QED
    BY <2>1, <2>2, TopFacts
<1> DEFINE f == [Top EXCEPT !.pc = "filed"]
           file == Top.line[Top.i + 1].cmd
           data == Contents(Top.stdout)
<1>2. /\ f.pc = "filed" /\ f.stdout = Top.stdout /\ f.line = Top.line /\ f.i = Top.i
      /\ f.stdin = Top.stdin /\ Stay(f)
  BY <1>1 DEF Frame
<1>3. files' = [files EXCEPT ![file] = IF Op(Top) = "PIPE_FILE"
                                       THEN Overwrite(files[file], data) ELSE files[file] \o data]
  BY DEF WriteFile
<1> HIDE DEF f
<1>4. Top' = f /\ Working /\ Working'
  BY <1>1, <1>2, StayResult DEF Top, Working
<1>5. (IF Op(Top) = "PIPE_FILE" THEN Overwrite(files[file], data) ELSE files[file] \o data)
       = (IF Op(Top) = "PIPE_FILE_APPEND" THEN files[file] \o data
          ELSE data \o SubSeq(files[file], Len(data) + 1, Len(files[file])))
  BY <1>1 DEF ToFile, Overwrite
<1>6. files' = [files EXCEPT ![file] = IF Op(Top) = "PIPE_FILE_APPEND" THEN files[file] \o data
                                ELSE data \o SubSeq(files[file], Len(data) + 1, Len(files[file]))]
  BY <1>3, <1>5
<1>7. /\ Contents(Top.stdin)' = Contents(Top.stdin) /\ Contents(Top.stdout)' = data
  BY <1>1, <1>2, <1>4 DEF Contents, memory
<1>8. Op(Top) \in Pipe!ToFile
  BY <1>1 DEF ToFile, Pipe!ToFile
<1>9. QED
  BY <1>1, <1>2, <1>4, <1>6, <1>7, <1>8 DEF Pipe!Save, Pipe!Op, Op

LEMMA StepAdvance == ASSUME IInv, PInv, CallNext PROVE Pipe!Advance
<1>1. /\ PInv' /\ Top'.pc = "enter" /\ depth' = depth + 1 /\ Top'.line = Top.line
      /\ Top'.i = NextStage(Top) /\ Top'.stdin = Top.stdout /\ Top'.stdout = NULL
      /\ task'[depth'].got = << >>
  BY PipeCall
<1>2. /\ depth > 0 /\ depth \in Nat /\ UNCHANGED <<memory, world>> /\ Top.i # 0
      /\ \/ Top.pc = "ran" /\ Op(Top) \notin ToFile
         \/ Top.pc = "filed" /\ Op(Top) \in ToFile
  BY InLine, TopFacts, BoundAssumption DEF CallNext, ShapeAt, Top
<1>3. Working /\ Working'
  BY <1>1, <1>2 DEF Working
<1>4. Top'.i <= Len(Top.line)
  <2>1. Shape' /\ depth' \in 1 .. depth'
    BY <1>1, <1>2, CallNextStack
  <2>2. ShapeAt(depth)'
    BY <2>1 DEF Shape
  <2>3. frame'[depth'].i \in 1 .. Len(frame'[depth'].line)
    BY <2>2 DEF ShapeAt
  <2>4. Top'.i \in 1 .. Len(Top'.line)
    BY <2>3 DEF Top
  <2>5. Len(Top.line) \in Nat
    BY <1>2, TopFacts, LineFacts
  <2>6. QED
    BY <1>1, <2>4, <2>5
<1>5. /\ Contents(Top.stdin)' = Contents(Top.stdout) /\ Contents(Top.stdout)' = << >>
  BY <1>1, <1>2 DEF Contents, memory
<1>6. /\ Top'.i = Top.i + (IF Op(Top) \in Pipe!ToFile THEN 2 ELSE 1)
      /\ Op(Top) \in Pipe!ToFile => Top.pc = "filed"
  BY <1>1, <1>2 DEF NextStage, ToFile, Pipe!ToFile
<1>7. QED
  BY <1>1, <1>2, <1>3, <1>4, <1>5, <1>6 DEF Pipe!Advance, Pipe!Op, Op, world

LEMMA StepStart == ASSUME IInv, PInv, NEW line \in Lines, Receive(line) PROVE Pipe!Start(line)
<1>1. /\ PInv' /\ Top'.pc = "enter" /\ depth = 0 /\ depth' = 1 /\ Top'.line = line
      /\ Top'.i = 1 /\ Top'.stdin = NULL /\ Top'.stdout = NULL /\ task'[depth'].got = << >>
  BY PipeReceive
<1>2. ~Working /\ Working' /\ UNCHANGED world
  BY <1>1 DEF Working, Receive
<1>3. QED
  BY <1>1, <1>2 DEF Pipe!Start, Contents, world

LEMMA PipeStep ==
    ASSUME Clean, IInv, Ownership, PInv, [Next]_vars
    PROVE  [Pipe!Next]_(Pipe!vars)
<1>1. CASE ExecBuiltin \/ TaskWrite
  BY <1>1, StepBuiltin, StepOutput DEF Pipe!Next
<1>2. CASE TaskRead
  BY <1>2, StepRead DEF Pipe!Next
<1>3. CASE Enter \/ ExecExit \/ ExecSpawn \/ WireExit \/ WirePipes \/ WaitDone
  BY <1>3, StepEnter, StepRun
<1>4. CASE Finish \/ FreeAndReturn
  BY <1>4, StepFinish, StepFree DEF Pipe!Next
<1>5. CASE WriteFile
  BY <1>5, StepSave, NothingFails DEF Pipe!Next
<1>6. CASE CallNext
  BY <1>6, StepAdvance DEF Pipe!Next
<1>7. CASE \E line \in Lines : Receive(line)
  BY <1>7, StepStart DEF Pipe!Next
<1>8. CASE LineDone \/ EndOfInput \/ Respawn
  <2>1. ~Working /\ ~Working' /\ UNCHANGED world
    BY <1>8, PipeLoop DEF Working, LineDone, EndOfInput, Respawn
  <2>2. QED
    BY <2>1, Idle
<1>9. CASE TaskExit
  <2>1. Top' = Top /\ depth' = depth /\ task'[depth].got = task[depth].got
    BY <1>9, PipeExit
  <2>2. /\ UNCHANGED <<memory, world>> /\ Working /\ Working'
    BY <1>9, <2>1, RunsWaiting DEF TaskExit, Runs, Working, Waiting
  <2>3. QED
    BY <2>1, <2>2, SameStage DEF Contents, memory
<1>10. CASE UNCHANGED vars
  BY <1>10 DEF Pipe!vars, vars, stack, memory, world, Working, Contents, Top
<1>11. QED
  BY <1>1, <1>2, <1>3, <1>4, <1>5, <1>6, <1>7, <1>8, <1>9, <1>10, NothingFails DEF Next, Shell

(* Where nothing fails, what the activations of command_received, the five *)
(* globals, the heap and the spawned programs do is one pipeline, for any  *)
(* lines: each stage reads what the one before it printed into its pipe    *)
(* and nothing else, in order, and the files get what was captured.        *)
THEOREM ShellIsPipeline == ASSUME Clean PROVE Spec => ImplementsPipeline
<1>1. Init => Pipe!Init
  BY DEF Init, Working, Pipe!Init
<1>2. IInv /\ Ownership /\ PInv /\ [Next]_vars => [Pipe!Next]_(Pipe!vars)
  BY PipeStep
<1>3. QED
  BY <1>1, <1>2, PipeHolds, PTL DEF Spec, Pipe!Spec, ImplementsPipeline
=============================================================================
