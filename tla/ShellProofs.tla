---------------------------- MODULE ShellProofs ----------------------------
(***************************************************************************)
(* What holds of Shell for all lines, programs and bounds.  The argument:  *)
(* TypeOK with Shape (where each activation stands in its line and which   *)
(* program it waits for) is inductive; Ownership adds which activation may *)
(* still refer to the block behind term_stdout.                            *)
(***************************************************************************)
EXTENDS Shell, SequenceTheorems, TLAPS

(* Program counters of an activation that is inside run_command, and of    *)
(* one that is past it.                                                    *)
InRun == {"exec", "spawned", "wiring", "wait", "finish"}
PastRun == {"ran", "filed", "callee", "returned"}
Waiting == {"spawned", "wiring", "wait"}

(* Every activation is at a stage of a given line and has room above it    *)
(* for the stages after it; a program that runs is waited for.             *)
ShapeAt(k) ==
    /\ frame[k].pc \in {"enter"} \cup InRun \cup PastRun
    /\ frame[k].line \in AllLines
    /\ frame[k].i \in 1 .. Len(frame[k].line)
    /\ k + Len(frame[k].line) - frame[k].i <= MaxDepth
    /\ frame[k].pc \in PastRun => Capturing(frame[k])
    /\ frame[k].pc = "filed" => Op(frame[k]) \in ToFile
    /\ task[k].st \in {"running", "system", "lost"} => frame[k].pc \in Waiting

(* An activation below the innermost one waits for a callee, or for a      *)
(* program inside system().                                                *)
CalleeOrSystem(k) ==
    \/ frame[k].pc = "callee"
    \/ task[k].st = "system" /\ frame[k].pc \in Waiting

(* The activations between k and the task it executes in all wait for a    *)
(* callee.                                                                 *)
ContextAt(k) ==
    /\ frame[k].ctx < k
    /\ \A j \in frame[k].ctx + 1 .. k - 1 : frame[j].pc = "callee"

Shape ==
    /\ frame[0].pc \in {"prompt", "callee", "returned", "gone"}
    /\ task[0].st = "none"
    /\ frame[0].ctx = 0
    /\ \A k \in 1 .. depth : ShapeAt(k) /\ ContextAt(k)
    /\ \A k \in 0 .. depth - 1 : CalleeOrSystem(k)
    /\ \A k \in depth + 1 .. MaxDepth : task[k].st = "none"

(* An activation whose stdout is the block being appended to is the        *)
(* innermost one inside a run_command that captures.                       *)
OwnerAt(j) ==
    frame[j].stdout = term_stdout /\ term_stdout # NULL =>
        /\ frame[j].pc \in InRun
        /\ \A k \in j + 1 .. depth : ~(Capturing(frame[k]) /\ frame[k].pc \in InRun)

Ownership == CaptureLive /\ OwnedOnce /\ \A j \in 1 .. depth : OwnerAt(j)

IInv == TypeOK /\ Shape

-----------------------------------------------------------------------------
(* A line goes on after a stage with a separator, and after the file name  *)
(* of a > unless that ends it.                                             *)
LEMMA NextStageInLine ==
    ASSUME NEW line \in AllLines, NEW i \in 1 .. Len(line), line[i].op # "NORMAL"
    PROVE  /\ i + 1 \in 1 .. Len(line)
           /\ line[i + 1].op # "NORMAL" => i + 2 \in 1 .. Len(line)
<1>1. line \in Seq(Stage) /\ Len(line) \in Nat
  BY LineAssumption
<1>2. \A j \in 1 .. Len(line) : (line[j].op = "NORMAL") <=> (j = Len(line))
  BY LineAssumption DEF WellFormed
<1>3. i + 1 \in 1 .. Len(line)
  BY <1>1, <1>2
<1>4. QED
  BY <1>1, <1>2, <1>3

LEMMA LineFacts ==
    ASSUME NEW line \in AllLines
    PROVE  Len(line) \in Nat \ {0} /\ \A j \in 1 .. Len(line) : line[j] \in Stage
BY LineAssumption DEF WellFormed

LEMMA EmptyRecords == NoFrame \in Frame /\ NoTask \in Task
<1>1. NoFrame \in Frame
  <2>1. NULL \in Ptr /\ 0 \in 0 .. MaxDepth
    BY BoundAssumption DEF NULL, Ptr
  <2>2. QED
    BY <2>1 DEF NoFrame, Frame, PC
<1>2. NoTask \in Task
  BY DEF NoTask, Task, TaskState
<1>3. QED
  BY <1>1, <1>2

LEMMA InitIInv == Init => IInv
<1> SUFFICES ASSUME Init PROVE IInv
  OBVIOUS
<1>1. TypeOK
  <2>1. frame \in [0 .. MaxDepth -> Frame]
    <3>1. [NoFrame EXCEPT !.pc = "prompt"] \in Frame
      BY EmptyRecords DEF Frame, PC
    <3>2. QED
      BY <3>1, EmptyRecords DEF Init
  <2>2. task \in [0 .. MaxDepth -> Task]
    BY EmptyRecords DEF Init
  <2>3. heap \in [BufId -> Seq(Token)] /\ files \in [Files -> Seq(Token)] /\ screen \in Seq(Token)
    BY DEF Init
  <2>4. term_stdout \in Ptr /\ term_stdin \in Ptr /\ depth \in 0 .. MaxDepth
    BY BoundAssumption DEF Init, Ptr, NULL
  <2>5. /\ term_stdin_size \in Nat /\ stdin_pos \in Nat /\ live \subseteq BufId
        /\ status \in Nat /\ lines \in Nat /\ runs \in Nat
    BY DEF Init
  <2>6. interactive \in BOOLEAN
    BY DEF Init
  <2>7. QED
    BY <2>1, <2>2, <2>3, <2>4, <2>5, <2>6 DEF TypeOK
<1>2. Shape
  BY BoundAssumption DEF Init, Shape, NoFrame, NoTask
<1>3. QED
  BY <1>1, <1>2 DEF IInv

-----------------------------------------------------------------------------
(* TypeOK in two halves: the stack of activations, and everything else.    *)
StackOK ==
    /\ frame \in [0 .. MaxDepth -> Frame]
    /\ task \in [0 .. MaxDepth -> Task]
    /\ depth \in 0 .. MaxDepth

DataOK ==
    /\ term_stdout \in Ptr /\ term_stdin \in Ptr
    /\ term_stdin_size \in Nat /\ stdin_pos \in Nat
    /\ heap \in [BufId -> Seq(Token)] /\ live \subseteq BufId
    /\ files \in [Files -> Seq(Token)] /\ screen \in Seq(Token)
    /\ interactive \in BOOLEAN
    /\ status \in Nat /\ lines \in Nat /\ runs \in Nat

LEMMA TypeSplit == TypeOK <=> (StackOK /\ DataOK)
BY DEF TypeOK, StackOK, DataOK

(* What is known of the innermost activation while a line is run.          *)
LEMMA TopFacts ==
    ASSUME IInv, depth > 0
    PROVE  /\ depth \in 1 .. MaxDepth /\ depth - 1 \in 0 .. MaxDepth
           /\ Top \in Frame /\ task[depth] \in Task
           /\ ShapeAt(depth) /\ ContextAt(depth)
           /\ Top.line \in AllLines /\ Top.i \in 1 .. Len(Top.line)
<1>1. depth \in 1 .. MaxDepth /\ depth - 1 \in 0 .. MaxDepth
  BY BoundAssumption DEF IInv, TypeOK
<1>2. Top \in Frame /\ task[depth] \in Task
  BY <1>1 DEF IInv, TypeOK, Top
<1>3. ShapeAt(depth) /\ ContextAt(depth)
  BY <1>1 DEF IInv, Shape
<1>4. QED
  BY <1>1, <1>2, <1>3 DEF ShapeAt, Top

(* A line is being run whenever the innermost program counter says so.     *)
LEMMA InLine ==
    ASSUME IInv, Top.pc \notin {"prompt", "callee", "returned", "gone"}
    PROVE  depth > 0
BY BoundAssumption DEF IInv, TypeOK, Shape, Top

LEMMA ContextType == IInv => \A k \in 1 .. depth : frame[k].ctx \in Nat /\ k \in 1 .. MaxDepth
<1> SUFFICES ASSUME IInv, NEW k \in 1 .. depth PROVE frame[k].ctx \in Nat /\ k \in 1 .. MaxDepth
  OBVIOUS
<1>1. k \in 1 .. MaxDepth
  BY BoundAssumption, TypeSplit DEF IInv, StackOK
<1>2. frame[k] \in Frame
  BY <1>1, TypeSplit DEF IInv, StackOK
<1>3. QED
  BY <1>1, <1>2, BoundAssumption DEF Frame

(* Only the activations below k matter to its context.                     *)
LEMMA ContextKept ==
    ASSUME NEW k \in Nat, frame[k].ctx \in Nat, ContextAt(k), frame'[k].ctx = frame[k].ctx,
           \A j \in 1 .. k - 1 : frame'[j] = frame[j]
    PROVE  ContextAt(k)'
<1>1. frame'[k].ctx < k
  BY DEF ContextAt
<1>2. ASSUME NEW j \in frame'[k].ctx + 1 .. k - 1 PROVE frame'[j].pc = "callee"
  <2>1. j \in 1 .. k - 1 /\ j \in frame[k].ctx + 1 .. k - 1
    OBVIOUS
  <2>2. frame'[j] = frame[j] /\ frame[j].pc = "callee"
    BY <2>1 DEF ContextAt
  <2>3. QED
    BY <2>2
<1>3. QED
  BY <1>1, <1>2 DEF ContextAt

(* The innermost activation stays in its stage.                            *)
LEMMA TopStep ==
    ASSUME IInv, depth > 0, NEW f \in Frame, NEW t \in Task,
           f.line = Top.line, f.i = Top.i, f.ctx = Top.ctx,
           f.pc \in {"enter"} \cup InRun \cup PastRun,
           f.pc \in PastRun => Capturing(Top),
           f.pc = "filed" => Op(Top) \in ToFile,
           t.st \in {"running", "system", "lost"} => f.pc \in Waiting,
           frame' = [frame EXCEPT ![depth] = f],
           task' = [task EXCEPT ![depth] = t],
           depth' = depth
    PROVE  StackOK' /\ Shape'
<1>1. StackOK'
  BY TypeSplit DEF IInv, StackOK
<1>2. depth \in 1 .. MaxDepth /\ frame \in [0 .. MaxDepth -> Frame]
      /\ task \in [0 .. MaxDepth -> Task]
  BY TopFacts, TypeSplit DEF IInv, StackOK
<1>3. frame'[0] = frame[0] /\ task'[0] = task[0]
  BY <1>2
<1>4. ASSUME NEW k \in 1 .. depth' PROVE ShapeAt(k)' /\ ContextAt(k)'
  <2>0. frame'[k].ctx = frame[k].ctx /\ ContextAt(k)
    BY <1>2 DEF IInv, Shape, Top
  <2>1. \A j \in 1 .. k - 1 : frame'[j] = frame[j]
    BY <1>2
  <2>2. ContextAt(k)'
    BY <2>0, <2>1, ContextType, ContextKept
  <2>3. ShapeAt(k)'
    <3>1. CASE k = depth
      BY <3>1, <1>2, TopFacts, SMTT(30) DEF ShapeAt, Capturing, Op, Top
    <3>2. CASE k # depth
      <4>1. frame'[k] = frame[k] /\ task'[k] = task[k]
        BY <3>2, <1>2
      <4>2. ShapeAt(k)
        BY DEF IInv, Shape
      <4>3. QED
        BY <4>1, <4>2 DEF ShapeAt, Capturing, Op
    <3>3. QED
      BY <3>1, <3>2
  <2>4. QED
    BY <2>2, <2>3
<1>5. ASSUME NEW k \in 0 .. depth' - 1 PROVE CalleeOrSystem(k)'
  <2>1. frame'[k] = frame[k] /\ task'[k] = task[k] /\ k \in 0 .. depth - 1
    BY <1>2, BoundAssumption
  <2>2. QED
    BY <2>1 DEF IInv, Shape, CalleeOrSystem
<1>6. ASSUME NEW k \in depth' + 1 .. MaxDepth PROVE task'[k].st = "none"
  BY <1>2 DEF IInv, Shape
<1>7. QED
  BY <1>1, <1>3, <1>4, <1>5, <1>6 DEF IInv, Shape

(* A new activation is entered above one that waits for it.                *)
LEMMA PushStep ==
    ASSUME IInv, NEW f \in Frame, NEW below \in Frame, NEW t \in Task,
           depth + 1 \in 1 .. MaxDepth,
           f.pc = "enter", f.line \in AllLines, f.i \in 1 .. Len(f.line),
           depth + 1 + Len(f.line) - f.i <= MaxDepth,
           below.line = Top.line, below.i = Top.i, below.ctx = Top.ctx,
           depth = 0 => below.pc = "callee" /\ t.st = "none",
           below.pc = "callee" \/ (t.st = "system" /\ below.pc \in Waiting),
           depth > 0 => /\ below.pc \in InRun \cup PastRun
                        /\ below.pc \in PastRun => Capturing(Top)
                        /\ below.pc = "filed" => Op(Top) \in ToFile
                        /\ t.st \in {"running", "system", "lost"} => below.pc \in Waiting,
           f.ctx = depth \/ (f.ctx = Top.ctx /\ below.pc = "callee"),
           frame' = [frame EXCEPT ![depth] = below, ![depth + 1] = f],
           task' = [task EXCEPT ![depth] = t],
           depth' = depth + 1
    PROVE  StackOK' /\ Shape'
<1>1. /\ depth \in 0 .. MaxDepth /\ frame \in [0 .. MaxDepth -> Frame]
      /\ task \in [0 .. MaxDepth -> Task] /\ MaxDepth \in Nat \ {0}
  BY TypeSplit, BoundAssumption DEF IInv, StackOK
<1>2. StackOK'
  <2>1. frame' \in [0 .. MaxDepth -> Frame]
    BY <1>1
  <2>2. task' \in [0 .. MaxDepth -> Task] /\ depth' \in 0 .. MaxDepth
    BY <1>1
  <2>3. QED
    BY <2>1, <2>2 DEF StackOK
<1>3. frame'[depth + 1] = f /\ task'[depth + 1] = task[depth + 1]
  BY <1>1
<1>4. frame'[depth] = below /\ task'[depth] = t
  BY <1>1
<1>5. frame'[0].pc \in {"prompt", "callee", "returned", "gone"} /\ task'[0].st = "none"
      /\ frame'[0].ctx = 0
  <2>1. CASE depth = 0
    BY <2>1, <1>4 DEF IInv, Shape, Top
  <2>2. CASE depth # 0
    BY <2>2, <1>1, SMTT(30) DEF IInv, Shape
  <2>3. QED
    BY <2>1, <2>2
<1>6. ASSUME NEW k \in 1 .. depth' PROVE ShapeAt(k)'
  <2>1. CASE k = depth + 1
    <3>1. task[depth + 1].st = "none"
      BY <1>1 DEF IInv, Shape
    <3>2. QED
      BY <2>1, <3>1, <1>3 DEF ShapeAt, InRun, PastRun
  <2>2. CASE k = depth
    <3>1. depth > 0 /\ depth \in 1 .. MaxDepth
      BY <2>2, <1>1
    <3>2. ShapeAt(depth)
      BY <3>1, TopFacts
    <3>3. /\ frame'[depth].line = frame[depth].line /\ frame'[depth].i = frame[depth].i
          /\ Capturing(frame'[depth]) <=> Capturing(frame[depth])
          /\ Op(frame'[depth]) = Op(frame[depth])
      BY <1>4, <3>1 DEF Capturing, Op, Top
    <3>4. /\ frame'[depth].pc \in InRun \cup PastRun
          /\ frame'[depth].pc \in PastRun => Capturing(frame[depth])
          /\ frame'[depth].pc = "filed" => Op(frame[depth]) \in ToFile
          /\ task'[depth].st \in {"running", "system", "lost"} => frame'[depth].pc \in Waiting
      BY <1>4, <3>1 DEF Top
    <3>5. QED
      BY <2>2, <3>2, <3>3, <3>4 DEF ShapeAt, Capturing, Op
  <2>3. CASE k # depth /\ k # depth + 1
    <3>1. frame'[k] = frame[k] /\ task'[k] = task[k] /\ k \in 1 .. depth
      BY <2>3, <1>1, SMTT(30)
    <3>2. ShapeAt(k)
      BY <3>1 DEF IInv, Shape
    <3>3. QED
      BY <3>1, <3>2 DEF ShapeAt, Capturing, Op
  <2>4. QED
    BY <2>1, <2>2, <2>3
<1>7. ASSUME NEW k \in 0 .. depth' - 1 PROVE CalleeOrSystem(k)'
  <2>1. CASE k = depth
    BY <2>1, <1>4 DEF CalleeOrSystem
  <2>2. CASE k # depth
    <3>1. k \in 0 .. depth - 1 /\ k \in 0 .. MaxDepth /\ k # depth + 1
      BY <2>2, <1>1
    <3>2. frame'[k] = frame[k] /\ task'[k] = task[k]
      BY <3>1, <2>2, <1>1
    <3>3. QED
      BY <3>1, <3>2 DEF IInv, Shape, CalleeOrSystem
  <2>3. QED
    BY <2>1, <2>2
<1>8. ASSUME NEW k \in 1 .. depth' PROVE ContextAt(k)'
  <2>1. CASE k = depth + 1
    <3>1. frame'[k].ctx = f.ctx
      BY <2>1, <1>3
    <3>2. CASE f.ctx = depth
      BY <2>1, <3>1, <3>2, <1>1 DEF ContextAt
    <3>3. CASE f.ctx # depth
      <4>1. f.ctx = frame[depth].ctx /\ below.pc = "callee" /\ depth # 0
        BY <3>3 DEF IInv, Shape, Top
      <4>2. ContextAt(depth) /\ frame[depth].ctx \in Nat
        BY <4>1, <1>1, SMTT(30) DEF IInv, Shape, Frame
      <4>3. \A j \in 1 .. depth - 1 : frame'[j] = frame[j]
        BY <1>1
      <4>4. f.ctx < k
        BY <4>1, <4>2, <2>1, <1>1 DEF ContextAt
      <4>5. ASSUME NEW j \in f.ctx + 1 .. k - 1 PROVE frame'[j].pc = "callee"
        <5>1. CASE j = depth
          BY <5>1, <4>1, <1>4
        <5>2. CASE j # depth
          <6>1. j \in frame[depth].ctx + 1 .. depth - 1 /\ j \in 1 .. depth - 1
            BY <5>2, <4>1, <4>2, <2>1, <1>1
          <6>2. QED
            BY <6>1, <4>2, <4>3 DEF ContextAt
        <5>3. QED
          BY <5>1, <5>2
      <4>6. QED
        BY <3>1, <4>4, <4>5 DEF ContextAt
    <3>4. QED
      BY <3>2, <3>3
  <2>2. CASE k # depth + 1
    <3>1. k \in Nat /\ k \in 1 .. depth /\ ContextAt(k) /\ frame[k].ctx \in Nat
      BY <2>2, <1>1, ContextType DEF IInv, Shape
    <3>2. frame'[k].ctx = frame[k].ctx
      BY <3>1, <1>1 DEF Top
    <3>3. ASSUME NEW j \in 1 .. k - 1 PROVE frame'[j] = frame[j]
      <4>1. j \in 0 .. MaxDepth /\ j # depth /\ j # depth + 1
        BY <3>1, <1>1
      <4>2. QED
        BY <4>1, <1>1
    <3>4. QED
      BY <3>1, <3>2, <3>3, ContextKept
  <2>3. QED
    BY <2>1, <2>2
<1>9. ASSUME NEW k \in depth' + 1 .. MaxDepth PROVE task'[k].st = "none"
  <2>1. k \in depth + 1 .. MaxDepth /\ task'[k] = task[k]
    BY <1>1
  <2>2. QED
    BY <2>1 DEF IInv, Shape
<1>10. QED
  BY <1>2, <1>5, <1>6, <1>7, <1>8, <1>9 DEF Shape

(* The innermost activation returns to the one below it.                   *)
LEMMA ReturnStep ==
    ASSUME IInv, depth > 0, NEW found \in BOOLEAN, NEW brk \in BOOLEAN,
           Return(found, brk)
    PROVE  StackOK' /\ Shape'
<1> DEFINE c == frame[depth - 1]
           s == task[depth - 1].st = "system"
           f == IF s THEN c ELSE [c EXCEPT !.pc = "returned", !.found = found, !.brk = brk]
           t == IF s THEN [task[depth - 1] EXCEPT !.st = "running"] ELSE task[depth - 1]
<1>1. /\ depth \in 1 .. MaxDepth /\ frame \in [0 .. MaxDepth -> Frame]
      /\ task \in [0 .. MaxDepth -> Task] /\ MaxDepth \in Nat \ {0}
  BY TopFacts, TypeSplit, BoundAssumption DEF IInv, StackOK
<1>2. c \in Frame /\ task[depth - 1] \in Task
  BY <1>1
<1>3. f \in Frame
  BY <1>2 DEF Frame, PC
<1>4. t \in Task
  BY <1>2 DEF Task, TaskState
<1>5. /\ frame' = [frame EXCEPT ![depth] = NoFrame, ![depth - 1] = f]
      /\ task' = [task EXCEPT ![depth] = NoTask, ![depth - 1] = t]
      /\ depth' = depth - 1
  BY <1>1 DEF Return
<1> HIDE DEF f, t
<1>6. StackOK'
  BY <1>1, <1>3, <1>4, <1>5, EmptyRecords DEF StackOK
<1>7. frame'[depth - 1] = f /\ task'[depth - 1] = t
  BY <1>1, <1>5
<1>8. /\ f.line = c.line /\ f.i = c.i /\ f.ctx = c.ctx
      /\ s => f = c
      /\ ~s => f.pc = "returned"
  BY <1>2 DEF f, Frame
<1>9. (s => t.st = "running") /\ (~s => t.st = task[depth - 1].st)
  BY <1>2 DEF t, Task
<1>10. frame'[0].pc \in {"prompt", "callee", "returned", "gone"} /\ task'[0].st = "none"
       /\ frame'[0].ctx = 0
  <2>1. CASE depth = 1
    BY <2>1, <1>7, <1>8, <1>9 DEF IInv, Shape
  <2>2. CASE depth # 1
    BY <2>2, <1>1, <1>5 DEF IInv, Shape
  <2>3. QED
    BY <2>1, <2>2
<1>11. ASSUME NEW k \in 1 .. depth' PROVE ShapeAt(k)'
  <2>0. k \in 1 .. depth - 1 /\ ShapeAt(k) /\ CalleeOrSystem(depth - 1)
    BY <1>1, <1>5 DEF IInv, Shape
  <2>1. CASE k = depth - 1
    BY <2>0, <2>1, <1>7, <1>8, <1>9 DEF ShapeAt, CalleeOrSystem, Capturing, Op, PastRun, Waiting
  <2>2. CASE k # depth - 1
    <3>1. frame'[k] = frame[k] /\ task'[k] = task[k]
      BY <2>0, <2>2, <1>1, <1>5
    <3>2. QED
      BY <3>1, <2>0 DEF ShapeAt, Capturing, Op
  <2>3. QED
    BY <2>1, <2>2
<1>12. ASSUME NEW k \in 0 .. depth' - 1 PROVE CalleeOrSystem(k)'
  <2>1. frame'[k] = frame[k] /\ task'[k] = task[k] /\ k \in 0 .. depth - 1
    BY <1>1, <1>5
  <2>2. QED
    BY <2>1 DEF IInv, Shape, CalleeOrSystem
<1>13. ASSUME NEW k \in 1 .. depth' PROVE ContextAt(k)'
  <2>1. k \in 1 .. depth - 1 /\ ContextAt(k) /\ frame[k].ctx \in Nat
    BY <1>1, <1>5, ContextType DEF IInv, Shape
  <2>2. frame'[k].ctx = frame[k].ctx
    <3>1. CASE k = depth - 1
      BY <3>1, <1>7, <1>8
    <3>2. CASE k # depth - 1
      BY <3>2, <2>1, <1>1, <1>5
    <3>3. QED
      BY <3>1, <3>2
  <2>3. \A j \in 1 .. k - 1 : frame'[j] = frame[j]
    BY <2>1, <1>1, <1>5
  <2>4. QED
    BY <2>1, <2>2, <2>3, ContextKept
<1>14. ASSUME NEW k \in depth' + 1 .. MaxDepth PROVE task'[k].st = "none"
  <2>1. CASE k = depth
    BY <2>1, <1>1, <1>5 DEF NoTask
  <2>2. CASE k # depth
    <3>1. k \in depth + 1 .. MaxDepth /\ task'[k] = task[k]
      BY <2>2, <1>1, <1>5
    <3>2. QED
      BY <3>1 DEF IInv, Shape
  <2>3. QED
    BY <2>1, <2>2
<1>15. QED
  BY <1>6, <1>10, <1>11, <1>12, <1>13, <1>14 DEF Shape

-----------------------------------------------------------------------------
(* Each action keeps the stack well formed.                                *)
LEMMA EnterStack == IInv /\ Enter => StackOK' /\ Shape'
<1> SUFFICES ASSUME IInv, Enter PROVE StackOK' /\ Shape'
  OBVIOUS
<1>1. depth > 0
  BY InLine DEF Enter
<1>2. Top \in Frame /\ task[depth] \in Task /\ task \in [0 .. MaxDepth -> Task]
  BY <1>1, TopFacts DEF IInv, TypeOK
<1>3. task' = [task EXCEPT ![depth] = task[depth]] /\ depth' = depth
  BY <1>2 DEF Enter
<1>4. task[depth].st \notin {"running", "system", "lost"}
  BY <1>1, TopFacts DEF Enter, ShapeAt, Waiting, Top
<1>5. \E b \in Ptr : Stay([Top EXCEPT !.pc = "exec", !.stdout = b])
  <2>1. CASE Stay([Top EXCEPT !.pc = "exec"])
    <3>1. [Top EXCEPT !.pc = "exec"] = [Top EXCEPT !.pc = "exec", !.stdout = Top.stdout]
      BY <1>2 DEF Frame
    <3>2. Top.stdout \in Ptr
      BY <1>2 DEF Frame
    <3>3. QED
      BY <2>1, <3>1, <3>2
  <2>2. CASE \E b \in BufId : Stay([Top EXCEPT !.pc = "exec", !.stdout = b])
    <3>1. PICK b \in BufId : Stay([Top EXCEPT !.pc = "exec", !.stdout = b])
      BY <2>2
    <3>2. b \in Ptr
      BY BoundAssumption DEF BufId, Ptr
    <3>3. QED
      BY <3>1, <3>2
  <2>3. QED
    BY <2>1, <2>2 DEF Enter
<1> PICK b \in Ptr : Stay([Top EXCEPT !.pc = "exec", !.stdout = b])
  BY <1>5
<1> DEFINE f == [Top EXCEPT !.pc = "exec", !.stdout = b]
<1>6. /\ f \in Frame /\ f.pc = "exec" /\ f.line = Top.line /\ f.i = Top.i /\ f.ctx = Top.ctx
      /\ frame' = [frame EXCEPT ![depth] = f]
  BY <1>2 DEF Frame, PC, Stay
<1> HIDE DEF f
<1>7. QED
  BY <1>1, <1>2, <1>3, <1>4, <1>6, TopStep DEF InRun, PastRun

(* An action that moves only the innermost activation, and one that moves  *)
(* only its program.                                                       *)
LEMMA FrameStep ==
    ASSUME IInv, depth > 0, NEW f \in Frame, Stay(f), UNCHANGED <<task, depth>>,
           f.line = Top.line, f.i = Top.i, f.ctx = Top.ctx,
           f.pc \in {"enter"} \cup InRun \cup PastRun,
           f.pc \in PastRun => Capturing(Top),
           f.pc = "filed" => Op(Top) \in ToFile,
           f.pc \in Waiting \/ task[depth].st \notin {"running", "system", "lost"}
    PROVE  StackOK' /\ Shape'
<1>1. task[depth] \in Task /\ task \in [0 .. MaxDepth -> Task]
  BY TopFacts DEF IInv, TypeOK
<1>2. task' = [task EXCEPT ![depth] = task[depth]]
  BY <1>1
<1>3. QED
  BY <1>1, <1>2, TopStep DEF Stay

LEMMA TaskStep ==
    ASSUME IInv, depth > 0, NEW t \in Task, Child(t), UNCHANGED <<frame, depth>>,
           t.st \in {"running", "system", "lost"} => Top.pc \in Waiting
    PROVE  StackOK' /\ Shape'
<1>1. Top \in Frame /\ frame \in [0 .. MaxDepth -> Frame] /\ ShapeAt(depth)
  BY TopFacts DEF IInv, TypeOK
<1>2. frame' = [frame EXCEPT ![depth] = Top]
  BY <1>1 DEF Top
<1>3. QED
  BY <1>1, <1>2, TopStep DEF Child, ShapeAt, Top

(* A program waited for by the innermost activation has a line.            *)
LEMMA RunsInLine == IInv /\ task[depth].st # "none" => depth > 0
BY BoundAssumption DEF IInv, TypeOK, Shape

LEMMA ExecBuiltinStack == IInv /\ ExecBuiltin => StackOK' /\ Shape'
<1> SUFFICES ASSUME IInv, ExecBuiltin PROVE StackOK' /\ Shape'
  OBVIOUS
<1> DEFINE f == [Top EXCEPT !.pc = "finish"]
<1>1. depth > 0
  BY InLine DEF ExecBuiltin
<1>2. task[depth].st \notin {"running", "system", "lost"}
  BY <1>1, TopFacts DEF ExecBuiltin, ShapeAt, Waiting, Top
<1>3. f \in Frame /\ f.pc = "finish" /\ f.line = Top.line /\ f.i = Top.i /\ f.ctx = Top.ctx
  BY <1>1, TopFacts DEF Frame, PC
<1>4. Stay(f) /\ UNCHANGED <<task, depth>>
  BY DEF ExecBuiltin
<1> HIDE DEF f
<1>5. QED
  BY <1>1, <1>2, <1>3, <1>4, FrameStep DEF InRun, PastRun

LEMMA ExecExitStack == IInv /\ ExecExit => StackOK' /\ Shape'
<1> SUFFICES ASSUME IInv, ExecExit PROVE StackOK' /\ Shape'
  OBVIOUS
<1> DEFINE f == [Top EXCEPT !.pc = "finish", !.brk = TRUE]
<1>1. depth > 0
  BY InLine DEF ExecExit
<1>2. task[depth].st \notin {"running", "system", "lost"}
  BY <1>1, TopFacts DEF ExecExit, ShapeAt, Waiting, Top
<1>3. f \in Frame /\ f.pc = "finish" /\ f.line = Top.line /\ f.i = Top.i /\ f.ctx = Top.ctx
  BY <1>1, TopFacts DEF Frame, PC
<1>4. Stay(f) /\ UNCHANGED <<task, depth>>
  BY DEF ExecExit
<1> HIDE DEF f
<1>5. QED
  BY <1>1, <1>2, <1>3, <1>4, FrameStep DEF InRun, PastRun

LEMMA ExecNotFoundStack == IInv /\ ExecNotFound => StackOK' /\ Shape'
BY InLine, ReturnStep DEF ExecNotFound

LEMMA SpawnedTask ==
    ASSUME NEW n \in Nat, NEW o \in BOOLEAN, NEW p \in BOOLEAN
    PROVE  [NoTask EXCEPT !.st = "running", !.id = n, !.outp = o, !.inp = p] \in Task
BY EmptyRecords DEF NoTask, Task, TaskState

LEMMA ExecSpawnStack == IInv /\ ExecSpawn => StackOK' /\ Shape'
<1> SUFFICES ASSUME IInv, ExecSpawn PROVE StackOK' /\ Shape'
  OBVIOUS
<1> DEFINE f == [Top EXCEPT !.pc = "spawned"]
           t == [NoTask EXCEPT !.st = "running", !.id = runs + 1,
                               !.outp = (term_stdout # NULL), !.inp = (term_stdin # NULL)]
<1>1. depth > 0
  BY InLine DEF ExecSpawn
<1>2. f \in Frame /\ f.pc = "spawned" /\ f.line = Top.line /\ f.i = Top.i /\ f.ctx = Top.ctx
  BY <1>1, TopFacts DEF Frame, PC
<1>3. t \in Task
  <2>1. runs + 1 \in Nat
    BY DEF IInv, TypeOK
  <2>2. (term_stdout # NULL) \in BOOLEAN /\ (term_stdin # NULL) \in BOOLEAN
    OBVIOUS
  <2>3. QED
    BY <2>1, <2>2, SpawnedTask
<1>4. Stay(f) /\ Child(t) /\ UNCHANGED depth
  BY DEF ExecSpawn
<1> HIDE DEF f, t
<1>5. QED
  BY <1>1, <1>2, <1>3, <1>4, TopStep DEF InRun, PastRun, Waiting, Stay, Child

LEMMA WireStack == IInv /\ (WireExit \/ WirePipes) => StackOK' /\ Shape'
<1> SUFFICES ASSUME IInv, WireExit \/ WirePipes PROVE StackOK' /\ Shape'
  OBVIOUS
<1>1. depth > 0
  BY InLine DEF WireExit, WirePipes
<1>2. Top \in Frame /\ task[depth] \in Task
  BY <1>1, TopFacts
<1>3. CASE WireExit
  <2> DEFINE f == [Top EXCEPT !.pc = "wiring"]
             t == [task[depth] EXCEPT !.hooked = TRUE]
  <2>1. f \in Frame /\ f.pc = "wiring" /\ f.line = Top.line /\ f.i = Top.i /\ f.ctx = Top.ctx
    BY <1>2 DEF Frame, PC
  <2>2. t \in Task
    BY <1>2 DEF Task
  <2>3. Stay(f) /\ Child(t) /\ UNCHANGED depth
    BY <1>3 DEF WireExit
  <2> HIDE DEF f, t
  <2>4. QED
    BY <1>1, <2>1, <2>2, <2>3, TopStep DEF InRun, PastRun, Waiting, Stay, Child
<1>4. CASE WirePipes
  <2> DEFINE f == [Top EXCEPT !.pc = "wait"]
             t == [task[depth] EXCEPT !.wired = TRUE]
  <2>1. f \in Frame /\ f.pc = "wait" /\ f.line = Top.line /\ f.i = Top.i /\ f.ctx = Top.ctx
    BY <1>2 DEF Frame, PC
  <2>2. t \in Task
    BY <1>2 DEF Task
  <2>3. Stay(f) /\ Child(t) /\ UNCHANGED depth
    BY <1>4 DEF WirePipes
  <2> HIDE DEF f, t
  <2>4. QED
    BY <1>1, <2>1, <2>2, <2>3, TopStep DEF InRun, PastRun, Waiting, Stay, Child
<1>5. QED
  BY <1>3, <1>4

LEMMA WaitDoneStack == IInv /\ WaitDone => StackOK' /\ Shape'
<1> SUFFICES ASSUME IInv, WaitDone PROVE StackOK' /\ Shape'
  OBVIOUS
<1> DEFINE f == [Top EXCEPT !.pc = "finish"]
<1>1. depth > 0 /\ task[depth].st \notin {"running", "system", "lost"}
  BY InLine DEF WaitDone
<1>2. f \in Frame /\ f.pc = "finish" /\ f.line = Top.line /\ f.i = Top.i /\ f.ctx = Top.ctx
  BY <1>1, TopFacts DEF Frame, PC
<1>3. Stay(f) /\ UNCHANGED <<task, depth>>
  BY DEF WaitDone
<1> HIDE DEF f
<1>4. QED
  BY <1>1, <1>2, <1>3, FrameStep DEF InRun, PastRun

LEMMA FinishStack == IInv /\ Finish => StackOK' /\ Shape'
<1> SUFFICES ASSUME IInv, Finish PROVE StackOK' /\ Shape'
  OBVIOUS
<1>1. depth > 0
  BY InLine DEF Finish
<1>2. Top \in Frame
  BY <1>1, TopFacts
<1>3. CASE ~Capturing(Top)
  <2>1. Return(TRUE, Top.brk) /\ Top.brk \in BOOLEAN
    BY <1>2, <1>3 DEF Finish, Frame
  <2>2. QED
    BY <1>1, <2>1, ReturnStep
<1>4. CASE Capturing(Top)
  <2> DEFINE f == [Top EXCEPT !.pc = "ran", !.stdout = term_stdout]
  <2>1. f \in Frame /\ f.pc = "ran" /\ f.line = Top.line /\ f.i = Top.i /\ f.ctx = Top.ctx
    BY <1>2 DEF Frame, PC, IInv, TypeOK
  <2>2. Stay(f) /\ UNCHANGED <<task, depth>>
    BY <1>4 DEF Finish
  <2>3. task[depth].st \notin {"running", "system", "lost"}
    BY <1>1, TopFacts DEF Finish, ShapeAt, Waiting, Top
  <2> HIDE DEF f
  <2>4. QED
    BY <1>1, <1>4, <2>1, <2>2, <2>3, FrameStep DEF InRun, PastRun
<1>5. QED
  BY <1>3, <1>4

LEMMA TaskWriteStack == IInv /\ TaskWrite => StackOK' /\ Shape'
<1> SUFFICES ASSUME IInv, TaskWrite PROVE StackOK' /\ Shape'
  OBVIOUS
<1> DEFINE tok == <<task[depth].id, Len(task[depth].out) + 1>>
           t == [task[depth] EXCEPT !.out = Append(@, tok),
                    !.early = @ + (IF task[depth].wired THEN 0 ELSE 1)]
<1>1. depth > 0 /\ task[depth].st = "running"
  BY RunsInLine DEF TaskWrite, Runs
<1>2. task[depth] \in Task
  BY <1>1, TopFacts
<1>3. t \in Task /\ t.st = "running"
  <2>1. tok \in Token
    BY <1>2 DEF Task, Token
  <2>2. Append(task[depth].out, tok) \in Seq(Token)
    BY <1>2, <2>1 DEF Task
  <2>3. task[depth].early + (IF task[depth].wired THEN 0 ELSE 1) \in Nat
    BY <1>2 DEF Task
  <2> HIDE DEF tok
  <2>4. QED
    BY <1>1, <1>2, <2>2, <2>3 DEF Task
<1>4. Child(t) /\ UNCHANGED <<frame, depth>>
  BY DEF TaskWrite
<1> HIDE DEF t, tok
<1>5. Top.pc \in Waiting
  BY <1>1, TopFacts DEF ShapeAt, Top
<1>6. QED
  BY <1>1, <1>3, <1>4, <1>5, TaskStep

LEMMA TaskExitStack == IInv /\ TaskExit => StackOK' /\ Shape'
<1> SUFFICES ASSUME IInv, TaskExit PROVE StackOK' /\ Shape'
  OBVIOUS
<1> DEFINE t == [task[depth] EXCEPT !.st = IF task[depth].hooked THEN "exited" ELSE "lost"]
<1>1. depth > 0 /\ task[depth].st = "running"
  BY RunsInLine DEF TaskExit, Runs
<1>2. t \in Task
  BY <1>1, TopFacts DEF Task, TaskState
<1>3. Child(t) /\ UNCHANGED <<frame, depth>>
  BY DEF TaskExit
<1> HIDE DEF t
<1>4. Top.pc \in Waiting
  BY <1>1, TopFacts DEF ShapeAt, Top
<1>5. QED
  BY <1>1, <1>2, <1>3, <1>4, TaskStep

(* What a read returns, also behind a pointer to a freed block, is a token.*)
LEMMA PeekType == IInv /\ Remaining > 0 => Peek \subseteq Token
<1> SUFFICES ASSUME IInv, Remaining > 0 PROVE Peek \subseteq Token
  OBVIOUS
<1>1. term_stdin \in BufId
  BY BoundAssumption DEF Remaining, IInv, TypeOK, Ptr, BufId, NULL
<1>2. heap[term_stdin] \in Seq(Token) /\ Garbage \in Token
  BY <1>1 DEF IInv, TypeOK, Garbage, Token
<1>3. stdin_pos + 1 \in DOMAIN heap[term_stdin] => heap[term_stdin][stdin_pos + 1] \in Token
  BY <1>2
<1>4. QED
  BY <1>2, <1>3 DEF Peek

LEMMA TaskReadStack == IInv /\ TaskRead => StackOK' /\ Shape'
<1> SUFFICES ASSUME IInv, TaskRead PROVE StackOK' /\ Shape'
  OBVIOUS
<1>1. depth > 0 /\ task[depth].st = "running"
  BY RunsInLine DEF TaskRead, Runs
<1>2. task[depth] \in Task /\ UNCHANGED <<frame, depth>>
  BY <1>1, TopFacts DEF TaskRead
<1>3. Top.pc \in Waiting
  BY <1>1, TopFacts DEF ShapeAt, Top
<1>4. CASE Child([task[depth] EXCEPT !.reads = @ + 1])
  <2> DEFINE t == [task[depth] EXCEPT !.reads = @ + 1]
  <2>1. t \in Task
    BY <1>2, SMTT(30) DEF Task
  <2> HIDE DEF t
  <2>2. QED
    BY <1>1, <1>2, <1>3, <1>4, <2>1, TaskStep DEF t
<1>5. CASE Remaining > 0 /\ \E tok \in Peek :
              Child([task[depth] EXCEPT !.reads = @ + 1, !.got = Append(@, tok)])
  <2>1. PICK tok \in Peek : Child([task[depth] EXCEPT !.reads = @ + 1, !.got = Append(@, tok)])
    BY <1>5
  <2>2. tok \in Token
    BY <1>5, PeekType
  <2> DEFINE t == [task[depth] EXCEPT !.reads = @ + 1, !.got = Append(@, tok)]
  <2>3. t \in Task
    <3>1. Append(task[depth].got, tok) \in Seq(Token) /\ task[depth].reads + 1 \in Nat
      BY <1>2, <2>2 DEF Task
    <3>2. QED
      BY <1>2, <3>1 DEF Task
  <2> HIDE DEF t
  <2>4. QED
    BY <1>1, <1>2, <1>3, <2>1, <2>3, TaskStep DEF t
<1>6. QED
  BY <1>4, <1>5 DEF TaskRead

LEMMA WriteFileStack == IInv /\ WriteFile => StackOK' /\ Shape'
<1> SUFFICES ASSUME IInv, WriteFile PROVE StackOK' /\ Shape'
  OBVIOUS
<1>1. depth > 0
  BY InLine DEF WriteFile
<1>2. Top \in Frame /\ Capturing(Top) /\ Op(Top) \in ToFile
      /\ task[depth].st \notin {"running", "system", "lost"}
  BY <1>1, TopFacts DEF WriteFile, ShapeAt, Capturing, PastRun, Waiting, Top
<1>3. CASE Return(FALSE, Top.brk)
  <2>1. Top.brk \in BOOLEAN
    BY <1>2 DEF Frame
  <2>2. QED
    BY <1>1, <1>3, <2>1, ReturnStep
<1>4. CASE Stay([Top EXCEPT !.pc = "filed"]) /\ UNCHANGED <<task, depth>>
  <2> DEFINE f == [Top EXCEPT !.pc = "filed"]
  <2>1. f \in Frame /\ f.pc = "filed" /\ f.line = Top.line /\ f.i = Top.i /\ f.ctx = Top.ctx
    BY <1>2 DEF Frame, PC
  <2>2. Stay(f)
    BY <1>4
  <2> HIDE DEF f
  <2>3. QED
    BY <1>1, <1>2, <1>4, <2>1, <2>2, FrameStep DEF InRun, PastRun
<1>5. QED
  BY <1>3, <1>4 DEF WriteFile

LEMMA FreeAndReturnStack == IInv /\ FreeAndReturn => StackOK' /\ Shape'
<1> SUFFICES ASSUME IInv, FreeAndReturn PROVE StackOK' /\ Shape'
  OBVIOUS
<1>1. depth > 0
  BY DEF FreeAndReturn
<1>2. Top.brk \in BOOLEAN /\ Top.found \in BOOLEAN
  BY <1>1, TopFacts DEF Frame
<1>3. PICK found \in BOOLEAN : Return(found, Top.brk)
  BY <1>2 DEF FreeAndReturn
<1>4. QED
  BY <1>1, <1>2, <1>3, ReturnStep

(* The first stage of a line that fits has room for the others.            *)
LEMMA FirstStage ==
    ASSUME IInv, NEW line \in AllLines, Fits(line), NEW ctx \in 0 .. MaxDepth
    PROVE  LET f == NewFrame(line, 1, NULL, ctx) IN
           /\ f \in Frame /\ f.pc = "enter" /\ f.line = line /\ f.i = 1 /\ f.ctx = ctx
           /\ depth + 1 \in 1 .. MaxDepth
           /\ 1 \in 1 .. Len(line)
           /\ depth + 1 + Len(line) - 1 <= MaxDepth
<1>1. NewFrame(line, 1, NULL, ctx) \in Frame
  BY EmptyRecords, BoundAssumption DEF NewFrame, NoFrame, Frame, PC, NULL, Ptr
<1>2. Len(line) \in Nat \ {0} /\ depth \in Nat /\ MaxDepth \in Nat
  BY LineFacts, BoundAssumption DEF IInv, TypeOK
<1>3. QED
  BY <1>1, <1>2 DEF NewFrame, NoFrame, Fits

LEMMA ReceiveStack == \A line \in Lines : IInv /\ Receive(line) => StackOK' /\ Shape'
<1> SUFFICES ASSUME NEW line \in Lines, IInv, Receive(line) PROVE StackOK' /\ Shape'
  OBVIOUS
<1> DEFINE f == NewFrame(line, 1, NULL, 0)
           below == [Top EXCEPT !.pc = "callee"]
<1>1. line \in AllLines /\ depth = 0 /\ 0 \in 0 .. MaxDepth
  BY BoundAssumption DEF AllLines, Receive
<1>2. /\ f \in Frame /\ f.pc = "enter" /\ f.line = line /\ f.i = 1 /\ f.ctx = 0
      /\ depth + 1 \in 1 .. MaxDepth /\ 1 \in 1 .. Len(line)
      /\ depth + 1 + Len(line) - 1 <= MaxDepth
  BY <1>1, FirstStage DEF Receive
<1>3. Top \in Frame /\ task \in [0 .. MaxDepth -> Task] /\ task[0].st = "none"
  BY <1>1 DEF IInv, TypeOK, Top, Shape
<1>4. /\ below \in Frame /\ below.pc = "callee" /\ below.line = Top.line
      /\ below.i = Top.i /\ below.ctx = Top.ctx
  BY <1>3 DEF Frame, PC
<1>5. frame' = [frame EXCEPT ![depth] = below, ![depth + 1] = f] /\ depth' = depth + 1
  BY DEF Receive, Push
<1>6. task' = [task EXCEPT ![depth] = task[depth]] /\ task[depth] \in Task
  BY <1>1, <1>3 DEF Receive
<1> HIDE DEF f, below
<1>7. /\ f.line \in AllLines /\ f.i \in 1 .. Len(f.line) /\ f.ctx = depth
      /\ depth + 1 + Len(f.line) - f.i <= MaxDepth
      /\ task[depth].st = "none" /\ ~(depth > 0)
  BY <1>1, <1>2, <1>3
<1>8. QED
  BY <1>2, <1>4, <1>5, <1>6, <1>7, PushStep

LEMMA TaskSystemStack == \A line \in SystemLines : IInv /\ TaskSystem(line) => StackOK' /\ Shape'
<1> SUFFICES ASSUME NEW line \in SystemLines, IInv, TaskSystem(line) PROVE StackOK' /\ Shape'
  OBVIOUS
<1> DEFINE f == NewFrame(line, 1, NULL, depth)
           t == [task[depth] EXCEPT !.st = "system", !.calls = @ + 1]
<1>1. depth > 0 /\ task[depth].st = "running"
  BY RunsInLine DEF TaskSystem, Runs
<1>2. line \in AllLines /\ depth \in 0 .. MaxDepth
  BY DEF AllLines, IInv, TypeOK
<1>3. /\ f \in Frame /\ f.pc = "enter" /\ f.line = line /\ f.i = 1 /\ f.ctx = depth
      /\ depth + 1 \in 1 .. MaxDepth /\ 1 \in 1 .. Len(line)
      /\ depth + 1 + Len(line) - 1 <= MaxDepth
  BY <1>2, FirstStage DEF TaskSystem
<1>4. Top \in Frame /\ task[depth] \in Task /\ Top.pc \in Waiting
  BY <1>1, TopFacts DEF ShapeAt, Top
<1>5. t \in Task /\ t.st = "system"
  <2>1. task[depth].calls + 1 \in Nat
    BY <1>4 DEF Task
  <2>2. QED
    BY <1>4, <2>1 DEF Task, TaskState
<1>6. frame' = [frame EXCEPT ![depth] = Top, ![depth + 1] = f] /\ depth' = depth + 1
  BY DEF TaskSystem, Push
<1>7. task' = [task EXCEPT ![depth] = t]
  BY DEF TaskSystem, Child
<1> HIDE DEF f, t
<1>8. /\ f.line \in AllLines /\ f.i \in 1 .. Len(f.line)
      /\ depth + 1 + Len(f.line) - f.i <= MaxDepth
  BY <1>2, <1>3
<1>9. /\ Top.pc \in InRun \cup PastRun /\ Top.pc \notin PastRun /\ Top.pc # "filed"
      /\ depth # 0
  BY <1>1, <1>4 DEF Waiting, InRun, PastRun
<1>10. QED
  BY <1>3, <1>4, <1>5, <1>6, <1>7, <1>8, <1>9, PushStep

LEMMA CallNextStack == IInv /\ CallNext => StackOK' /\ Shape'
<1> SUFFICES ASSUME IInv, CallNext PROVE StackOK' /\ Shape'
  OBVIOUS
<1> DEFINE f == NewFrame(Top.line, NextStage(Top), Top.stdout, Top.ctx)
           below == [Top EXCEPT !.pc = "callee"]
<1>1. depth > 0
  BY InLine DEF CallNext
<1>2. /\ Top \in Frame /\ task[depth] \in Task /\ task \in [0 .. MaxDepth -> Task]
      /\ Top.line \in AllLines /\ Top.i \in 1 .. Len(Top.line) /\ depth \in 1 .. MaxDepth
      /\ Len(Top.line) \in Nat
  BY <1>1, TopFacts, LineFacts DEF IInv, TypeOK
<1>3. /\ Top.pc \in {"ran", "filed"} /\ Capturing(Top)
      /\ Top.pc = "filed" <=> Op(Top) \in ToFile
      /\ task[depth].st \notin {"running", "system", "lost"}
      /\ depth + Len(Top.line) - Top.i <= MaxDepth
  BY <1>1, TopFacts DEF CallNext, ShapeAt, Top, PastRun, Waiting, Op, Capturing
<1>4. Top.line[Top.i].op # "NORMAL"
  BY <1>3 DEF Capturing, Op
<1>5. /\ Top.i + 1 \in 1 .. Len(Top.line)
      /\ Top.line[Top.i + 1].op # "NORMAL" => Top.i + 2 \in 1 .. Len(Top.line)
  BY <1>2, <1>4, NextStageInLine
<1>6. NextStage(Top) \in 1 .. Len(Top.line) /\ NextStage(Top) > Top.i /\ NextStage(Top) \in Nat
  <2>1. CASE Top.pc = "ran"
    BY <2>1, <1>2, <1>3, <1>5 DEF NextStage
  <2>2. CASE Top.pc = "filed"
    BY <2>2, <1>2, <1>3, <1>5 DEF NextStage, CallNext
  <2>3. QED
    BY <1>3, <2>1, <2>2
<1>7. /\ f \in Frame /\ f.pc = "enter" /\ f.line = Top.line /\ f.i = NextStage(Top)
      /\ f.ctx = Top.ctx
  BY <1>2, <1>6, EmptyRecords DEF NewFrame, NoFrame, Frame, PC
<1>8. /\ below \in Frame /\ below.pc = "callee" /\ below.line = Top.line
      /\ below.i = Top.i /\ below.ctx = Top.ctx
  BY <1>2 DEF Frame, PC
<1>9. frame' = [frame EXCEPT ![depth] = below, ![depth + 1] = f] /\ depth' = depth + 1
  BY DEF CallNext, Push
<1>10. task' = [task EXCEPT ![depth] = task[depth]]
  BY <1>2 DEF CallNext
<1> HIDE DEF f, below
<1>11. /\ f.line \in AllLines /\ f.i \in 1 .. Len(f.line)
       /\ depth + 1 + Len(f.line) - f.i <= MaxDepth
       /\ depth + 1 \in 1 .. MaxDepth
  <2>1. Len(f.line) = Len(Top.line)
    BY <1>7
  <2>2. QED
    BY <2>1, <1>2, <1>3, <1>6, <1>7, BoundAssumption
<1>12. below.pc \in InRun \cup PastRun /\ depth # 0
  BY <1>1, <1>8 DEF PastRun
<1>13. QED
  BY <1>2, <1>3, <1>7, <1>8, <1>9, <1>10, <1>11, <1>12, PushStep

(* The loops: no line is being run.                                        *)
LEMMA LoopStack == IInv /\ (LineDone \/ Respawn \/ EndOfInput) => StackOK' /\ Shape'
<1> SUFFICES ASSUME IInv, LineDone \/ Respawn \/ EndOfInput PROVE StackOK' /\ Shape'
  OBVIOUS
<1>1. /\ frame \in [0 .. MaxDepth -> Frame] /\ task \in [0 .. MaxDepth -> Task]
      /\ depth = 0 /\ 0 \in 0 .. MaxDepth /\ UNCHANGED <<task, depth>>
  BY BoundAssumption DEF IInv, TypeOK, LineDone, Respawn, EndOfInput
<1>2. PICK f \in Frame : /\ frame' = [frame EXCEPT ![0] = f]
                        /\ f.pc \in {"prompt", "gone"} /\ f.ctx = 0
  <2>1. CASE LineDone
    <3> DEFINE f == [NoFrame EXCEPT !.pc =
                       IF Top.brk \/ (~interactive /\ ~Top.found) THEN "gone" ELSE "prompt",
                       !.found = Top.found]
    <3>1. Top.found \in BOOLEAN
      BY <1>1 DEF Top, Frame
    <3>2. f \in Frame /\ f.pc \in {"prompt", "gone"} /\ f.ctx = 0
      BY <3>1, EmptyRecords DEF NoFrame, Frame, PC
    <3>3. QED
      BY <2>1, <3>2 DEF LineDone
  <2>2. CASE Respawn
    <3>1. [NoFrame EXCEPT !.pc = "prompt"] \in Frame
      BY EmptyRecords DEF Frame, PC
    <3>2. QED
      BY <2>2, <3>1 DEF Respawn, NoFrame
  <2>3. CASE EndOfInput
    <3>1. [frame[0] EXCEPT !.pc = "gone"] \in Frame /\ frame[0].ctx = 0
      BY <1>1 DEF Frame, PC, IInv, Shape
    <3>2. frame' = [frame EXCEPT ![0] = [frame[0] EXCEPT !.pc = "gone"]]
      BY <2>3 DEF EndOfInput
    <3>3. QED
      BY <3>1, <3>2, <1>1 DEF Frame
  <2>4. QED
    BY <2>1, <2>2, <2>3
<1>3. StackOK' /\ frame'[0] = f
  BY <1>1, <1>2 DEF StackOK
<1>4. QED
  BY <1>1, <1>2, <1>3 DEF IInv, Shape

(* A faulting task takes its activations with it; those below it stay.     *)
LEMMA FaultStack == IInv /\ Fault => StackOK' /\ Shape'
<1> SUFFICES ASSUME IInv, Fault PROVE StackOK' /\ Shape'
  OBVIOUS
<1> DEFINE c == Top.ctx
<1>1. /\ depth > 0 /\ c \in 0 .. depth - 1 /\ c \in 0 .. MaxDepth /\ depth \in 0 .. MaxDepth
      /\ MaxDepth \in Nat
      /\ frame \in [0 .. MaxDepth -> Frame] /\ task \in [0 .. MaxDepth -> Task]
  <2>1. depth > 0
    BY InLine DEF Fault, StrlenFaults
  <2>2. c < depth /\ c \in Nat /\ depth \in 0 .. MaxDepth
    BY <2>1, TopFacts, ContextType DEF ContextAt, Top
  <2>3. QED
    BY <2>1, <2>2, BoundAssumption DEF IInv, TypeOK
<1>2. depth' = c
  BY DEF Fault
<1>3. \A k \in 0 .. MaxDepth :
        frame'[k] = IF k > c THEN NoFrame
                    ELSE IF k = 0 /\ c = 0 THEN [NoFrame EXCEPT !.pc = "gone"]
                    ELSE frame[k]
  BY DEF Fault
<1> HIDE DEF c
<1>4. /\ \A k \in c + 1 .. MaxDepth : task'[k] = NoTask
      /\ \A k \in 0 .. c - 1 : task'[k] = task[k]
      /\ task'[c] = IF c = 0 THEN task[c] ELSE [task[c] EXCEPT !.st = "exited"]
  <2>1. task' = [k \in 0 .. MaxDepth |->
                   IF k > c THEN NoTask
                   ELSE IF k = c /\ k # 0 THEN [task[k] EXCEPT !.st = "exited"]
                   ELSE task[k]]
    BY DEF Fault, c
  <2>2. \A k \in c + 1 .. MaxDepth : k \in 0 .. MaxDepth /\ k > c
    BY <1>1
  <2>3. \A k \in 0 .. c - 1 : k \in 0 .. MaxDepth /\ ~(k > c) /\ k # c
    BY <1>1
  <2>4. ~(c > c)
    BY <1>1
  <2>5. QED
    BY <1>1, <2>1, <2>2, <2>3, <2>4
<1>5. StackOK'
  <2>1. [NoFrame EXCEPT !.pc = "gone"] \in Frame
    BY EmptyRecords DEF Frame, PC
  <2>2. \A k \in 0 .. MaxDepth : frame'[k] \in Frame
    BY <1>1, <1>3, <2>1, EmptyRecords
  <2>3. [task[c] EXCEPT !.st = "exited"] \in Task
    <3>1. task[c] \in Task /\ "exited" \in TaskState
      BY <1>1 DEF TaskState
    <3> QED BY <3>1 DEF Task
  <2>4. ASSUME NEW k \in 0 .. MaxDepth PROVE task'[k] \in Task
    <3>1. k \in c + 1 .. MaxDepth \/ k = c \/ k \in 0 .. c - 1
      BY <1>1
    <3>2. QED
      BY <1>1, <1>4, <2>3, <3>1, EmptyRecords
  <2>5. frame' = [k \in 0 .. MaxDepth |-> frame'[k]] /\ task' = [k \in 0 .. MaxDepth |-> task'[k]]
    BY DEF Fault
  <2>6. QED
    BY <1>1, <1>2, <2>2, <2>4, <2>5 DEF StackOK
<1>6. frame'[0].pc \in {"prompt", "callee", "returned", "gone"} /\ task'[0].st = "none"
      /\ frame'[0].ctx = 0
  <2>1. 0 \in 0 .. MaxDepth /\ ~(0 > c) /\ (c = 0 \/ 0 \in 0 .. c - 1)
    BY <1>1
  <2>2. QED
    BY <1>3, <1>4, <2>1 DEF IInv, Shape, NoFrame
<1>7. \A k \in 1 .. c : frame'[k] = frame[k] /\ k \in 0 .. MaxDepth
  BY <1>1, <1>3
<1>8. ASSUME NEW k \in 1 .. depth' PROVE ShapeAt(k)' /\ ContextAt(k)'
  <2>1. k \in 1 .. depth /\ k \in 1 .. c /\ k \in Nat /\ k \in 0 .. MaxDepth
    BY <1>1, <1>2
  <2>2. ShapeAt(k) /\ ContextAt(k) /\ frame[k].ctx \in Nat
    BY <2>1, ContextType DEF IInv, Shape
  <2>3. ContextAt(k)'
    <3>1. \A j \in 1 .. k - 1 : frame'[j] = frame[j]
      BY <2>1, <1>1, <1>7
    <3>2. QED
      BY <2>1, <2>2, <3>1, <1>7, ContextKept
  <2>4. task'[k].st = "exited" \/ task'[k] = task[k]
    <3>1. CASE k = c
      <4>1. task[c] \in Task /\ c # 0
        BY <3>1, <2>1, <1>1
      <4>2. QED
        BY <3>1, <4>1, <1>4 DEF Task
    <3>2. CASE k # c
      BY <3>2, <2>1, <1>1, <1>4
    <3>3. QED
      BY <3>1, <3>2
  <2>5. ShapeAt(k)'
    <3>1. frame'[k] = frame[k]
      BY <2>1, <1>7
    <3>2. QED
      BY <2>2, <2>4, <3>1 DEF ShapeAt, Capturing, Op
  <2>6. QED
    BY <2>3, <2>5
<1>9. ASSUME NEW k \in 0 .. depth' - 1 PROVE CalleeOrSystem(k)'
  <2>1. k \in 0 .. depth - 1 /\ k \in 0 .. MaxDepth /\ k \in 0 .. c - 1 /\ ~(k > c) /\ c # 0
    BY <1>1, <1>2
  <2>2. frame'[k] = frame[k] /\ task'[k] = task[k]
    BY <2>1, <1>3, <1>4
  <2>3. QED
    BY <2>1, <2>2 DEF IInv, Shape, CalleeOrSystem
<1>10. ASSUME NEW k \in depth' + 1 .. MaxDepth PROVE task'[k].st = "none"
  <2>1. k \in c + 1 .. MaxDepth
    BY <1>1, <1>2
  <2>2. QED
    BY <2>1, <1>4 DEF NoTask
<1>11. QED
  BY <1>5, <1>6, <1>8, <1>9, <1>10 DEF Shape

LEMMA StutterStack == IInv /\ UNCHANGED vars => StackOK' /\ Shape'
<1> SUFFICES ASSUME IInv, UNCHANGED vars PROVE StackOK' /\ Shape'
  OBVIOUS
<1>1. UNCHANGED <<frame, task, depth>>
  BY DEF vars, stack
<1>2. QED
  BY <1>1 DEF IInv, TypeOK, StackOK, Shape, ShapeAt, ContextAt, CalleeOrSystem, Capturing, Op

LEMMA StackInvariant == IInv /\ [Next]_vars => StackOK' /\ Shape'
BY EnterStack, FaultStack, ExecBuiltinStack, ExecExitStack, ExecNotFoundStack, ExecSpawnStack,
   WireStack, WaitDoneStack, FinishStack, TaskWriteStack, TaskReadStack, TaskSystemStack,
   TaskExitStack, WriteFileStack, CallNextStack, FreeAndReturnStack, ReceiveStack, LoopStack,
   StutterStack DEF Next, Shell

-----------------------------------------------------------------------------
(* The data the activations share keeps its type.                          *)
MemoryOK ==
    /\ term_stdout \in Ptr /\ heap \in [BufId -> Seq(Token)] /\ live \subseteq BufId
    /\ screen \in Seq(Token)

LEMMA AppendTypes ==
    ASSUME DataOK, NEW tok \in Token, AppendStdout(tok)
    PROVE  MemoryOK'
<1>1. /\ heap \in [BufId -> Seq(Token)] /\ live \subseteq BufId /\ term_stdout \in Ptr
      /\ screen' \in Seq(Token)
  BY DEF DataOK, AppendStdout
<1>2. CASE term_stdout # NULL
  <2>1. term_stdout \in BufId
    BY <1>1, <1>2, BoundAssumption DEF Ptr, BufId, NULL
  <2>2. Append(heap[term_stdout], tok) \in Seq(Token)
    BY <1>1, <2>1
  <2>3. QED
    BY <1>1, <1>2, <2>2 DEF AppendStdout, MemoryOK
<1>3. CASE term_stdout = NULL
  <2>1. PICK b \in BufId : /\ term_stdout' = b /\ heap' = [heap EXCEPT ![b] = <<tok>>]
                          /\ live' = live \cup {b}
    BY <1>3 DEF AppendStdout
  <2>2. b \in Ptr /\ <<tok>> \in Seq(Token)
    BY BoundAssumption DEF BufId, Ptr
  <2>3. QED
    BY <1>1, <2>1, <2>2 DEF MemoryOK
<1>4. QED
  BY <1>2, <1>3

LEMMA WriteTypes ==
    ASSUME DataOK, NEW k, NEW tok \in Token, WriteFrom(k, tok) \/ TermPrintf(k, tok)
    PROVE  MemoryOK'
<1>1. CASE AppendStdout(tok)
  BY <1>1, AppendTypes
<1>2. CASE screen' = Append(screen, tok) /\ UNCHANGED <<term_stdout, memory>>
  <2>1. Append(screen, tok) \in Seq(Token)
    BY DEF DataOK
  <2>2. QED
    BY <1>2, <2>1 DEF DataOK, MemoryOK, memory
<1>3. QED
  BY <1>1, <1>2 DEF WriteFrom, TermPrintf

(* The counters and a given stdin are natural numbers.                     *)
LEMMA StdinTypes ==
    ASSUME DataOK, NEW f \in Frame, TakeStdin(f)
    PROVE  term_stdin' \in Ptr /\ term_stdin_size' \in Nat /\ stdin_pos' \in Nat
<1>1. CASE f.stdin = NULL
  BY <1>1 DEF TakeStdin, DataOK
<1>2. CASE f.stdin # NULL
  <2>1. f.stdin \in Ptr /\ f.stdin \in BufId
    BY <1>2, BoundAssumption DEF Frame, Ptr, BufId, NULL
  <2>2. Len(heap[f.stdin]) \in Nat
    BY <2>1 DEF DataOK
  <2>3. QED
    BY <1>2, <2>1, <2>2 DEF TakeStdin
<1>3. QED
  BY <1>1, <1>2

LEMMA ContentsType ==
    ASSUME DataOK, NEW b \in Ptr
    PROVE  Contents(b) \in Seq(Token)
<1>1. CASE b = NULL
  BY <1>1 DEF Contents
<1>2. CASE b # NULL
  <2>1. b \in BufId
    BY <1>2, BoundAssumption DEF Ptr, BufId, NULL
  <2>2. QED
    BY <1>2, <2>1 DEF Contents, DataOK
<1>3. QED
  BY <1>1, <1>2

LEMMA OverwriteType ==
    ASSUME NEW old \in Seq(Token), NEW new \in Seq(Token)
    PROVE  Overwrite(old, new) \in Seq(Token)
<1>1. Len(new) + 1 \in Nat /\ Len(new) + 1 >= 1
  OBVIOUS
<1>2. SubSeq(old, Len(new) + 1, Len(old)) \in Seq(Token)
  BY <1>1, SubSeqProperties
<1>3. QED
  BY <1>2, ConcatProperties DEF Overwrite

LEMMA DataInvariant == IInv /\ [Next]_vars => DataOK'
<1> SUFFICES ASSUME IInv, [Next]_vars PROVE DataOK'
  OBVIOUS
<1>1. DataOK
  BY TypeSplit DEF IInv
<1>2. CASE Enter
  <2>1. Top \in Frame
    BY <1>2, InLine, TopFacts DEF Enter
  <2>2. term_stdin' \in Ptr /\ term_stdin_size' \in Nat /\ stdin_pos' \in Nat
    BY <1>1, <1>2, <2>1, StdinTypes DEF Enter
  <2>3. term_stdout' \in Ptr /\ heap' \in [BufId -> Seq(Token)] /\ live' \subseteq BufId
    <3>1. CASE term_stdout' = NULL /\ UNCHANGED memory
      BY <3>1, <1>1, BoundAssumption DEF DataOK, memory, NULL, Ptr
    <3>2. CASE UNCHANGED <<term_stdout, memory>>
      BY <3>2, <1>1 DEF DataOK, memory
    <3>3. CASE \E b \in BufId : /\ term_stdout' = b /\ heap' = [heap EXCEPT ![b] = << >>]
                               /\ live' = live \cup {b}
      <4>1. PICK b \in BufId : /\ term_stdout' = b /\ heap' = [heap EXCEPT ![b] = << >>]
                              /\ live' = live \cup {b}
        BY <3>3
      <4>2. b \in Ptr /\ << >> \in Seq(Token)
        BY BoundAssumption DEF BufId, Ptr
      <4>3. QED
        BY <4>1, <4>2, <1>1 DEF DataOK
    <3>4. QED
      BY <1>2, <3>1, <3>2, <3>3 DEF Enter
  <2>4. UNCHANGED <<files, screen, interactive, status, lines, runs>>
    BY <1>2 DEF Enter, world, counters
  <2>5. QED
    BY <1>1, <2>2, <2>3, <2>4 DEF DataOK
<1>3. CASE Fault
  <2>1. term_stdout' \in Ptr
    BY <1>1, <1>3, BoundAssumption DEF Fault, StrlenFaults, DataOK, Ptr, NULL
  <2>2. QED
    BY <1>1, <1>3, <2>1 DEF Fault, DataOK, MemoryOK, memory, world, counters
<1>4. CASE ExecBuiltin
  <2>1. <<runs + 1, 1>> \in Token /\ runs + 1 \in Nat
    BY <1>1 DEF DataOK, Token
  <2>2. MemoryOK'
    BY <1>1, <1>4, <2>1, WriteTypes DEF ExecBuiltin
  <2>3. QED
    BY <1>1, <1>4, <2>1, <2>2 DEF ExecBuiltin, DataOK, MemoryOK
<1>5. CASE ExecExit \/ ExecNotFound \/ ExecSpawn \/ WireExit \/ WirePipes \/ CallNext
           \/ TaskExit \/ LineDone \/ EndOfInput
  <2>1. /\ UNCHANGED <<globals, memory, world, status, lines, interactive>>
        /\ runs' = runs \/ runs' = runs + 1
    BY <1>5 DEF ExecExit, ExecNotFound, ExecSpawn, WireExit, WirePipes, CallNext,
       TaskExit, LineDone, EndOfInput, counters
  <2>2. QED
    BY <1>1, <2>1 DEF DataOK, globals, memory, world
<1>6. CASE WaitDone
  <2>1. task[depth].id \in Nat
    BY <1>6, InLine, TopFacts DEF WaitDone, Task
  <2>2. QED
    BY <1>1, <1>6, <2>1 DEF WaitDone, DataOK, globals, memory, world
<1>7. CASE Finish
  <2>1. NULL \in Ptr
    BY BoundAssumption DEF NULL, Ptr
  <2>2. QED
    BY <1>1, <1>7, <2>1 DEF Finish, DataOK, memory, world, counters
<1>8. CASE TaskWrite
  <2>1. task[depth] \in Task
    BY <1>8, RunsInLine, TopFacts DEF TaskWrite, Runs
  <2>2. <<task[depth].id, Len(task[depth].out) + 1>> \in Token
    BY <2>1 DEF Task, Token
  <2>3. MemoryOK'
    BY <1>1, <1>8, <2>2, WriteTypes DEF TaskWrite
  <2>4. QED
    BY <1>1, <1>8, <2>3 DEF TaskWrite, DataOK, MemoryOK, counters
<1>9. CASE TaskRead
  <2>1. stdin_pos' = stdin_pos \/ stdin_pos' = stdin_pos + 1
    BY <1>9 DEF TaskRead
  <2>2. UNCHANGED <<term_stdout, term_stdin, term_stdin_size, memory, world, counters, interactive>>
    BY <1>9 DEF TaskRead
  <2>3. QED
    BY <1>1, <2>1, <2>2 DEF DataOK, memory, world, counters
<1>10. CASE \E line \in SystemLines : TaskSystem(line)
  BY <1>1, <1>10 DEF TaskSystem, DataOK, globals, memory, world, counters
<1>11. CASE \E line \in Lines : Receive(line)
  BY <1>1, <1>11 DEF Receive, DataOK, globals, memory, world
<1>12. CASE WriteFile
  <2>1. /\ depth > 0 /\ Top.stdout \in Ptr
    BY <1>12, InLine, TopFacts DEF WriteFile, Frame
  <2> DEFINE data == Contents(Top.stdout)
             file == Top.line[Top.i + 1].cmd
  <2>2. data \in Seq(Token)
    BY <1>1, <2>1, ContentsType
  <2>3. files' \in [Files -> Seq(Token)]
    <3>1. CASE UNCHANGED files
      BY <3>1, <1>1 DEF DataOK
    <3>2. CASE files' = [files EXCEPT ![file] = IF Op(Top) = "PIPE_FILE"
                                                 THEN Overwrite(@, data) ELSE @ \o data]
      <4>1. ASSUME file \in Files
            PROVE  Overwrite(files[file], data) \in Seq(Token) /\ files[file] \o data \in Seq(Token)
        <5>1. files[file] \in Seq(Token)
          BY <4>1, <1>1 DEF DataOK
        <5>2. QED
          BY <5>1, <2>2, OverwriteType, ConcatProperties
      <4> HIDE DEF data, file
      <4>2. QED
        BY <3>2, <4>1, <1>1 DEF DataOK
    <3>3. QED
      BY <1>12, <3>1, <3>2 DEF WriteFile
  <2>4. QED
    BY <1>1, <1>12, <2>3 DEF WriteFile, DataOK, globals, memory, counters
<1>13. CASE FreeAndReturn
  BY <1>1, <1>13 DEF FreeAndReturn, DataOK, globals, world, counters
<1>14. CASE Respawn
  <2>1. NULL \in Ptr
    BY BoundAssumption DEF NULL, Ptr
  <2>2. QED
    BY <1>1, <1>14, <2>1 DEF Respawn, DataOK, world, counters
<1>15. CASE UNCHANGED vars
  BY <1>1, <1>15 DEF vars, globals, memory, world, counters, DataOK
<1>16. QED
  BY <1>2, <1>3, <1>4, <1>5, <1>6, <1>7, <1>8, <1>9, <1>10, <1>11, <1>12, <1>13, <1>14, <1>15
     DEF Next, Shell

LEMMA Inductive == IInv /\ [Next]_vars => IInv'
<1>1. IInv /\ [Next]_vars => TypeOK'
  BY StackInvariant, DataInvariant DEF TypeOK, StackOK, DataOK
<1>2. QED
  BY <1>1, StackInvariant DEF IInv

(* Whatever lines are given and however the programs behave, the stack of  *)
(* activations of command_received stays within its bound and every        *)
(* program that runs is waited for by the activation that spawned it.      *)
THEOREM StackDiscipline == Spec => []IInv
<1>1. QED
  BY InitIInv, Inductive, PTL DEF Spec

THEOREM TypeCorrect == Spec => []TypeOK
<1>1. IInv => TypeOK
  BY DEF IInv
<1>2. QED
  BY <1>1, StackDiscipline, PTL

-----------------------------------------------------------------------------
(* No step returns from an activation whose program still runs.            *)
LEMMA Blocks ==
    ASSUME IInv, [Next]_vars, NEW k \in 1 .. MaxDepth, task[k].st \in {"running", "system"}
    PROVE  depth' >= k
<1>1. k \in 1 .. depth /\ depth \in 0 .. MaxDepth /\ MaxDepth \in Nat
  <2>1. depth \in 0 .. MaxDepth /\ MaxDepth \in Nat
    BY BoundAssumption DEF IInv, TypeOK
  <2>2. k \notin depth + 1 .. MaxDepth
    BY DEF IInv, Shape
  <2>3. QED
    BY <2>1, <2>2
<1>2. ShapeAt(k) /\ frame[k].pc \in Waiting
  BY <1>1 DEF IInv, Shape, ShapeAt
<1>3. CASE depth' = depth \/ depth' = depth + 1
  BY <1>1, <1>3
<1>4. CASE Fault
  <2>1. depth' = frame[depth].ctx /\ ContextAt(depth) /\ frame[depth].ctx \in Nat
    BY <1>1, <1>4, ContextType DEF IInv, Shape, Fault, Top
  <2>2. k # depth
    BY <1>2, <1>4 DEF Fault, StrlenFaults, Top, Waiting
  <2>3. k \notin frame[depth].ctx + 1 .. depth - 1
    BY <1>2, <2>1 DEF ContextAt, Waiting
  <2>4. QED
    BY <1>1, <2>1, <2>2, <2>3
<1>5. CASE depth' = depth - 1 /\ Top.pc \in {"exec", "finish", "ran", "filed", "returned"}
  <2>1. k # depth
    BY <1>2, <1>5 DEF Top, Waiting
  <2>2. QED
    BY <1>1, <1>5, <2>1
<1>6. QED
  <2>1. CASE ExecNotFound \/ Finish \/ WriteFile \/ FreeAndReturn
    BY <2>1, <1>3, <1>5 DEF ExecNotFound, Finish, WriteFile, FreeAndReturn, Return
  <2>2. CASE CallNext \/ (\E line \in Lines : Receive(line))
             \/ (\E line \in SystemLines : TaskSystem(line))
    BY <2>2, <1>3 DEF CallNext, Receive, TaskSystem, Push
  <2>3. CASE \/ Enter \/ ExecBuiltin \/ ExecExit \/ ExecSpawn \/ WireExit \/ WirePipes
             \/ WaitDone \/ LineDone \/ TaskWrite \/ TaskRead \/ TaskExit
             \/ EndOfInput \/ Respawn
    BY <2>3, <1>3 DEF Enter, ExecBuiltin, ExecExit, ExecSpawn, WireExit, WirePipes, WaitDone,
       LineDone, TaskWrite, TaskRead, TaskExit, EndOfInput, Respawn
  <2>4. CASE UNCHANGED vars
    BY <2>4, <1>3 DEF vars, stack
  <2>5. QED
    BY <1>4, <2>1, <2>2, <2>3, <2>4 DEF Next, Shell

(* The blocking that script.c's and main.c's comments ask for holds for    *)
(* nested system() calls, failing commands and faults alike.               *)
THEOREM BlockingDiscipline == Spec => BlocksWhileRunning
<1>1. IInv /\ [Next]_vars =>
        [\A k \in 1 .. MaxDepth : task[k].st \in {"running", "system"} => depth' >= k]_vars
  BY Blocks
<1>2. QED
  BY <1>1, StackDiscipline, PTL DEF Spec, BlocksWhileRunning

-----------------------------------------------------------------------------
(* Who may free what term_stdout points to.                                *)

(* The activation stays inside run_command if it was, and enters it only   *)
(* without capturing.                                                      *)
SameRun(k) ==
    /\ frame[k].pc \in InRun => frame'[k].pc \in InRun
    /\ Capturing(frame'[k]) /\ frame'[k].pc \in InRun =>
          Capturing(frame[k]) /\ frame[k].pc \in InRun

(* A step that frees nothing and hands no activation a block.              *)
LEMMA OwnershipKept ==
    ASSUME IInv, Ownership, live \subseteq live', depth' \in 0 .. MaxDepth,
           \A k \in 1 .. depth' :
              \/ k \in 1 .. depth /\ frame'[k].stdout = frame[k].stdout
              \/ k > depth /\ frame'[k].stdout = NULL /\ frame'[k].pc = "enter",
           \/ term_stdout' = term_stdout /\ \A k \in 1 .. depth : k <= depth' => SameRun(k)
           \/ term_stdout' = NULL
           \/ term_stdout' \in live' \ live
    PROVE  Ownership'
<1>1. CaptureLive'
  BY DEF Ownership, CaptureLive
<1>2. OwnedOnce'
  <2> SUFFICES ASSUME NEW j \in 1 .. depth', frame'[j].stdout # NULL
               PROVE  /\ frame'[j].stdout \in live'
                      /\ \A k \in 1 .. depth' : k # j => frame'[k].stdout # frame'[j].stdout
    BY DEF OwnedOnce
  <2>1. j \in 1 .. depth /\ frame'[j].stdout = frame[j].stdout
    OBVIOUS
  <2>2. /\ frame[j].stdout \in live
        /\ \A k \in 1 .. depth : k # j => frame[k].stdout # frame[j].stdout
    BY <2>1 DEF Ownership, OwnedOnce
  <2>3. QED
    BY <2>1, <2>2
<1>3. ASSUME NEW j \in 1 .. depth' PROVE OwnerAt(j)'
  <2> SUFFICES ASSUME frame'[j].stdout = term_stdout', term_stdout' # NULL
               PROVE  /\ frame'[j].pc \in InRun
                      /\ \A k \in j + 1 .. depth' :
                            ~(Capturing(frame'[k]) /\ frame'[k].pc \in InRun)
    BY DEF OwnerAt, Capturing, Op
  <2>1. j \in 1 .. depth /\ frame[j].stdout = term_stdout'
    OBVIOUS
  <2>2. term_stdout' \in live
    BY <2>1 DEF Ownership, OwnedOnce
  <2>3. term_stdout' = term_stdout /\ \A k \in 1 .. depth : k <= depth' => SameRun(k)
    BY <2>2
  <2>4. /\ frame[j].pc \in InRun
        /\ \A k \in j + 1 .. depth : ~(Capturing(frame[k]) /\ frame[k].pc \in InRun)
    BY <2>1, <2>3 DEF Ownership, OwnerAt
  <2>5. depth \in Nat /\ depth' \in Nat /\ j \in Nat /\ j <= depth'
    BY BoundAssumption DEF IInv, TypeOK
  <2>6. frame'[j].pc \in InRun
    BY <2>1, <2>3, <2>4, <2>5 DEF SameRun
  <2>7. ASSUME NEW k \in j + 1 .. depth'
        PROVE  ~(Capturing(frame'[k]) /\ frame'[k].pc \in InRun)
    <3>1. CASE k > depth
      <4>1. frame'[k].pc = "enter"
        BY <3>1, <2>5
      <4>2. QED
        BY <4>1 DEF InRun
    <3>2. CASE ~(k > depth)
      <4>1. k \in j + 1 .. depth /\ k \in 1 .. depth /\ k <= depth'
        BY <3>2, <2>5
      <4>2. QED
        BY <4>1, <2>3, <2>4 DEF SameRun
    <3>3. QED
      BY <3>1, <3>2
  <2>8. QED
    BY <2>6, <2>7
<1>4. QED
  BY <1>1, <1>2, <1>3 DEF Ownership

(* The innermost activation moves and keeps its local stdout.              *)
LEMMA OwnershipStay ==
    ASSUME IInv, Ownership, depth > 0, NEW f, f.stdout = Top.stdout, f.line = Top.line,
           f.i = Top.i,
           Stay(f), UNCHANGED depth, live \subseteq live',
           \/ /\ term_stdout' = term_stdout
              /\ Top.pc \in InRun => f.pc \in InRun
              /\ Capturing(Top) /\ f.pc \in InRun => Top.pc \in InRun
           \/ term_stdout' = NULL
           \/ term_stdout' \in live' \ live
    PROVE  Ownership'
<1>1. /\ depth \in 1 .. MaxDepth /\ frame \in [0 .. MaxDepth -> Frame] /\ MaxDepth \in Nat
      /\ depth' \in 0 .. MaxDepth
  BY TopFacts, BoundAssumption DEF IInv, TypeOK
<1>2. frame'[depth] = f /\ \A k \in 1 .. depth : k # depth => frame'[k] = frame[k]
  BY <1>1 DEF Stay
<1>3. \A k \in 1 .. depth' : k \in 1 .. depth /\ frame'[k].stdout = frame[k].stdout
  BY <1>2 DEF Top
<1>4. ASSUME Top.pc \in InRun => f.pc \in InRun,
             Capturing(Top) /\ f.pc \in InRun => Top.pc \in InRun, NEW k \in 1 .. depth
      PROVE  SameRun(k)
  <2>1. CASE k = depth
    BY <2>1, <1>2, <1>4 DEF SameRun, Top, Capturing, Op
  <2>2. CASE k # depth
    BY <2>2, <1>2 DEF SameRun, Capturing, Op
  <2>3. QED
    BY <2>1, <2>2
<1>5. QED
  BY <1>1, <1>3, <1>4, OwnershipKept

(* What append_stdout does to the blocks.                                  *)
LEMMA AppendOwnership ==
    ASSUME NEW k, NEW tok, WriteFrom(k, tok) \/ TermPrintf(k, tok)
    PROVE  live \subseteq live' /\ (term_stdout' = term_stdout \/ term_stdout' \in live' \ live)
BY DEF WriteFrom, TermPrintf, AppendStdout, Malloc, memory

LEMMA OwnershipPush ==
    ASSUME IInv, Ownership, depth + 1 \in 0 .. MaxDepth, NEW f, NEW below,
           f.stdout = NULL, f.pc = "enter",
           below.stdout = Top.stdout, below.line = Top.line, below.i = Top.i,
           below.pc = Top.pc \/ (below.pc \notin InRun /\ Top.pc \notin InRun),
           Push(f, below), term_stdout' = term_stdout, live' = live
    PROVE  Ownership'
<1>1. /\ depth \in 0 .. MaxDepth /\ frame \in [0 .. MaxDepth -> Frame] /\ MaxDepth \in Nat
      /\ depth' = depth + 1
  BY BoundAssumption DEF IInv, TypeOK, Push
<1>2. /\ frame'[depth] = below /\ frame'[depth + 1] = f
      /\ \A k \in 1 .. depth : k # depth => frame'[k] = frame[k]
  BY <1>1 DEF Push
<1>3. ASSUME NEW k \in 1 .. depth'
      PROVE  \/ k \in 1 .. depth /\ frame'[k].stdout = frame[k].stdout
             \/ k > depth /\ frame'[k].stdout = NULL /\ frame'[k].pc = "enter"
  <2>1. k = depth + 1 \/ k \in 1 .. depth
    BY <1>1
  <2>2. QED
    BY <2>1, <1>1, <1>2 DEF Top
<1>4. ASSUME NEW k \in 1 .. depth PROVE SameRun(k)
  <2>1. CASE k = depth
    BY <2>1, <1>2 DEF SameRun, Top, Capturing, Op
  <2>2. CASE k # depth
    BY <2>2, <1>2 DEF SameRun, Capturing, Op
  <2>3. QED
    BY <2>1, <2>2
<1>5. QED
  BY <1>1, <1>3, <1>4, OwnershipKept

(* Returning changes nothing below but the caller's program counter, and   *)
(* a caller that waits for a callee is not inside run_command.             *)
LEMMA ReturnFrames ==
    ASSUME IInv, depth > 0, NEW found \in BOOLEAN, NEW brk \in BOOLEAN, Return(found, brk)
    PROVE  /\ depth' = depth - 1 /\ depth' \in 0 .. MaxDepth
           /\ \A k \in 1 .. depth' : frame'[k].stdout = frame[k].stdout /\ SameRun(k)
<1>1. /\ depth \in 1 .. MaxDepth /\ frame \in [0 .. MaxDepth -> Frame] /\ MaxDepth \in Nat
      /\ depth' = depth - 1
  BY TopFacts, BoundAssumption DEF IInv, TypeOK, Return
<1>2. ASSUME NEW k \in 1 .. depth'
      PROVE  frame'[k].stdout = frame[k].stdout /\ SameRun(k)
  <2>1. CASE k = depth - 1
    <3>1. k \in 0 .. MaxDepth /\ k # depth /\ frame[k] \in Frame /\ CalleeOrSystem(k)
      BY <2>1, <1>1 DEF IInv, Shape
    <3>2. CASE task[k].st = "system"
      <4>1. frame'[k] = frame[k]
        BY <2>1, <3>1, <3>2, <1>1 DEF Return
      <4>2. QED
        BY <4>1 DEF SameRun, Capturing, Op
    <3>3. CASE task[k].st # "system"
      <4>1. frame[k].pc = "callee"
        BY <3>1, <3>3 DEF CalleeOrSystem
      <4>2. frame'[k] = [frame[k] EXCEPT !.pc = "returned", !.found = found, !.brk = brk]
        BY <2>1, <3>1, <3>3, <1>1 DEF Return
      <4>3. frame'[k].stdout = frame[k].stdout /\ frame'[k].pc = "returned"
        BY <4>2, <3>1 DEF Frame
      <4>4. QED
        BY <4>1, <4>3 DEF SameRun, InRun
    <3>4. QED
      BY <3>2, <3>3
  <2>2. CASE k # depth - 1
    <3>1. k \in 0 .. MaxDepth /\ k # depth /\ k # depth - 1
      BY <2>2, <1>1
    <3>2. frame'[k] = frame[k]
      BY <3>1, <1>1 DEF Return
    <3>3. QED
      BY <3>2 DEF SameRun, Capturing, Op
  <2>3. QED
    BY <2>1, <2>2
<1>3. QED
  BY <1>1, <1>2

LEMMA OwnershipReturn ==
    ASSUME IInv, Ownership, depth > 0, NEW found \in BOOLEAN, NEW brk \in BOOLEAN,
           Return(found, brk), live' = live, term_stdout' = term_stdout \/ term_stdout' = NULL
    PROVE  Ownership'
<1>1. /\ depth' = depth - 1 /\ depth' \in 0 .. MaxDepth /\ depth \in 1 .. MaxDepth
      /\ \A k \in 1 .. depth' : frame'[k].stdout = frame[k].stdout /\ SameRun(k)
  BY ReturnFrames, TopFacts
<1>2. \A k \in 1 .. depth' : k \in 1 .. depth /\ frame'[k].stdout = frame[k].stdout
  BY <1>1
<1>3. \A k \in 1 .. depth : k <= depth' => SameRun(k)
  BY <1>1
<1>4. QED
  BY <1>1, <1>2, <1>3, OwnershipKept

(* free(stdout) takes nobody else's block.                                 *)
LEMMA OwnershipFree == IInv /\ Ownership /\ FreeAndReturn => Ownership'
<1> SUFFICES ASSUME IInv, Ownership, FreeAndReturn PROVE Ownership'
  OBVIOUS
<1>1. /\ depth > 0 /\ depth \in 1 .. MaxDepth /\ Top.brk \in BOOLEAN /\ Top.found \in BOOLEAN
      /\ Top.pc \in {"returned", "filed"}
  BY TopFacts DEF FreeAndReturn, Frame
<1>2. PICK found \in BOOLEAN : Return(found, Top.brk)
  BY <1>1 DEF FreeAndReturn
<1>3. /\ depth' = depth - 1 /\ depth' \in 0 .. MaxDepth
      /\ \A k \in 1 .. depth' : frame'[k].stdout = frame[k].stdout /\ SameRun(k)
  BY <1>1, <1>2, ReturnFrames
<1>4. \A k \in 1 .. depth' : k \in 1 .. depth - 1 /\ k \in 1 .. depth /\ k # depth
  BY <1>1, <1>3
<1>5. live' = live \ {Top.stdout} /\ term_stdout' = term_stdout
  BY DEF FreeAndReturn, globals
<1>6. CaptureLive'
  <2>1. term_stdout # NULL => term_stdout # Top.stdout
    BY <1>1 DEF Ownership, OwnerAt, InRun, Top
  <2>2. QED
    BY <2>1, <1>5 DEF Ownership, CaptureLive
<1>7. OwnedOnce'
  <2> SUFFICES ASSUME NEW j \in 1 .. depth', frame'[j].stdout # NULL
               PROVE  /\ frame'[j].stdout \in live'
                      /\ \A k \in 1 .. depth' : k # j => frame'[k].stdout # frame'[j].stdout
    BY DEF OwnedOnce
  <2>1. /\ frame[j].stdout \in live /\ frame[depth].stdout # frame[j].stdout
        /\ \A k \in 1 .. depth : k # j => frame[k].stdout # frame[j].stdout
    BY <1>1, <1>3, <1>4 DEF Ownership, OwnedOnce
  <2>2. QED
    BY <2>1, <1>3, <1>4, <1>5 DEF Top
<1>8. ASSUME NEW j \in 1 .. depth' PROVE OwnerAt(j)'
  <2> SUFFICES ASSUME frame'[j].stdout = term_stdout', term_stdout' # NULL
               PROVE  /\ frame'[j].pc \in InRun
                      /\ \A k \in j + 1 .. depth' :
                            ~(Capturing(frame'[k]) /\ frame'[k].pc \in InRun)
    BY DEF OwnerAt, Capturing, Op
  <2>1. /\ frame[j].pc \in InRun
        /\ \A k \in j + 1 .. depth : ~(Capturing(frame[k]) /\ frame[k].pc \in InRun)
    BY <1>3, <1>4, <1>5 DEF Ownership, OwnerAt
  <2>2. frame'[j].pc \in InRun
    BY <2>1, <1>3 DEF SameRun
  <2>3. ASSUME NEW k \in j + 1 .. depth' PROVE ~(Capturing(frame'[k]) /\ frame'[k].pc \in InRun)
    <3>1. k \in 1 .. depth' /\ k \in j + 1 .. depth
      BY <1>1, <1>3
    <3>2. QED
      BY <3>1, <2>1, <1>3 DEF SameRun
  <2>4. QED
    BY <2>2, <2>3
<1>9. QED
  BY <1>6, <1>7, <1>8 DEF Ownership

(* A stage before a pipe gets a block nobody has, and is then the only     *)
(* owner of what term_stdout points to.                                    *)
LEMMA OwnershipEnter == IInv /\ Ownership /\ Enter => Ownership'
<1> SUFFICES ASSUME IInv, Ownership, Enter PROVE Ownership'
  OBVIOUS
<1>1. /\ depth > 0 /\ Top \in Frame /\ Top.pc = "enter" /\ UNCHANGED depth
      /\ depth \in 1 .. MaxDepth /\ MaxDepth \in Nat /\ frame \in [0 .. MaxDepth -> Frame]
  BY InLine, TopFacts, BoundAssumption DEF Enter, IInv, TypeOK
<1>2. CASE /\ Stay([Top EXCEPT !.pc = "exec"]) /\ UNCHANGED memory
           /\ \/ term_stdout' = term_stdout /\ Op(Top) = "NORMAL"
              \/ term_stdout' = NULL
  <2> DEFINE f == [Top EXCEPT !.pc = "exec"]
  <2>1. f.stdout = Top.stdout /\ f.line = Top.line /\ f.i = Top.i /\ f.pc = "exec" /\ Stay(f)
    BY <1>1, <1>2 DEF Frame
  <2>2. live \subseteq live' /\ (Top.pc \in InRun => f.pc \in InRun)
    BY <1>1, <1>2 DEF memory, InRun
  <2> HIDE DEF f
  <2>3. QED
    BY <1>1, <1>2, <2>1, <2>2, OwnershipStay DEF Capturing
<1>3. CASE \E b \in BufId :
              /\ Malloc(b) /\ Stay([Top EXCEPT !.pc = "exec", !.stdout = b])
              /\ term_stdout' = b /\ live' = live \cup {b}
  <2>1. PICK b \in BufId :
              /\ Malloc(b) /\ Stay([Top EXCEPT !.pc = "exec", !.stdout = b])
              /\ term_stdout' = b /\ live' = live \cup {b}
    BY <1>3
  <2>2. b \notin live /\ b # NULL
    BY <2>1, BoundAssumption DEF Malloc, BufId, NULL
  <2>3. /\ frame'[depth].stdout = b /\ frame'[depth].pc = "exec"
        /\ \A k \in 1 .. depth : k # depth => frame'[k] = frame[k]
    BY <1>1, <2>1 DEF Stay, Frame
  <2>4. \A k \in 1 .. depth : frame[k].stdout # NULL => frame[k].stdout \in live
    BY DEF Ownership, OwnedOnce
  <2>5. CaptureLive'
    BY <2>1 DEF CaptureLive
  <2>6. OwnedOnce'
    <3> SUFFICES ASSUME NEW j \in 1 .. depth, frame'[j].stdout # NULL
                 PROVE  /\ frame'[j].stdout \in live'
                        /\ \A k \in 1 .. depth : k # j => frame'[k].stdout # frame'[j].stdout
      BY <1>1 DEF OwnedOnce
    <3>1. CASE j = depth
      BY <3>1, <2>1, <2>2, <2>3, <2>4
    <3>2. CASE j # depth
      <4>1. /\ frame[j].stdout \in live /\ frame'[j].stdout = frame[j].stdout
            /\ \A k \in 1 .. depth : k # j => frame[k].stdout # frame[j].stdout
        BY <3>2, <2>3 DEF Ownership, OwnedOnce
      <4>2. QED
        BY <4>1, <2>1, <2>2, <2>3
    <3>3. QED
      BY <3>1, <3>2
  <2>7. ASSUME NEW j \in 1 .. depth PROVE OwnerAt(j)'
    <3>1. CASE j = depth
      <4>1. frame'[j].pc \in InRun /\ j + 1 .. depth' = {}
        BY <3>1, <2>3, <1>1 DEF InRun
      <4>2. QED
        BY <4>1 DEF OwnerAt
    <3>2. CASE j # depth
      <4>1. frame'[j].stdout # term_stdout' \/ term_stdout' = NULL
        BY <3>2, <2>1, <2>2, <2>3, <2>4
      <4>2. QED
        BY <4>1 DEF OwnerAt
    <3>3. QED
      BY <3>1, <3>2
  <2>8. QED
    BY <1>1, <2>5, <2>6, <2>7 DEF Ownership
<1>4. QED
  BY <1>2, <1>3 DEF Enter

(* run_command hands its capture to the activation that captured, which no *)
(* activation below it still owns.                                         *)
LEMMA OwnershipFinish == IInv /\ Ownership /\ Finish => Ownership'
<1> SUFFICES ASSUME IInv, Ownership, Finish PROVE Ownership'
  OBVIOUS
<1>1. /\ depth > 0 /\ Top \in Frame /\ Top.pc = "finish" /\ term_stdout' = NULL /\ live' = live
      /\ depth \in 1 .. MaxDepth /\ MaxDepth \in Nat /\ frame \in [0 .. MaxDepth -> Frame]
  BY InLine, TopFacts, BoundAssumption DEF Finish, IInv, TypeOK, memory
<1>2. CASE ~Capturing(Top)
  <2>1. Return(TRUE, Top.brk) /\ Top.brk \in BOOLEAN
    BY <1>1, <1>2 DEF Finish, Frame
  <2>2. QED
    BY <1>1, <2>1, OwnershipReturn
<1>3. CASE Capturing(Top)
  <2>1. Stay([Top EXCEPT !.pc = "ran", !.stdout = term_stdout]) /\ UNCHANGED depth
    BY <1>3 DEF Finish
  <2>2. /\ frame'[depth].stdout = term_stdout
        /\ \A k \in 1 .. depth : k # depth => frame'[k] = frame[k]
    BY <1>1, <2>1 DEF Stay, Frame
  <2>3. ASSUME NEW k \in 1 .. depth, k # depth, term_stdout # NULL
        PROVE  frame[k].stdout # term_stdout
    <3>1. depth \in k + 1 .. depth
      BY <2>3, <1>1
    <3>2. Capturing(frame[depth]) /\ frame[depth].pc \in InRun
      BY <1>1, <1>3 DEF Top, InRun
    <3>3. QED
      BY <2>3, <3>1, <3>2 DEF Ownership, OwnerAt
  <2>4. CaptureLive'
    BY <1>1 DEF CaptureLive
  <2>5. \A j \in 1 .. depth : OwnerAt(j)'
    BY <1>1 DEF OwnerAt
  <2>6. OwnedOnce'
    <3> SUFFICES ASSUME NEW j \in 1 .. depth, frame'[j].stdout # NULL
                 PROVE  /\ frame'[j].stdout \in live
                        /\ \A k \in 1 .. depth : k # j => frame'[k].stdout # frame'[j].stdout
      BY <1>1, <2>1 DEF OwnedOnce
    <3>1. CASE j = depth
      BY <3>1, <2>2, <2>3 DEF Ownership, CaptureLive
    <3>2. CASE j # depth
      <4>1. /\ frame[j].stdout \in live /\ frame'[j].stdout = frame[j].stdout
            /\ \A k \in 1 .. depth : k # j => frame[k].stdout # frame[j].stdout
        BY <3>2, <2>2 DEF Ownership, OwnedOnce
      <4>2. ASSUME NEW k \in 1 .. depth, k # j PROVE frame'[k].stdout # frame'[j].stdout
        <5>1. CASE k = depth
          BY <5>1, <3>2, <4>1, <2>2, <2>3
        <5>2. CASE k # depth
          BY <5>2, <4>1, <4>2, <2>2
        <5>3. QED
          BY <5>1, <5>2
      <4>3. QED
        BY <4>1, <4>2
    <3>3. QED
      BY <3>1, <3>2
  <2>7. QED
    BY <2>1, <2>4, <2>5, <2>6 DEF Ownership
<1>4. QED
  BY <1>2, <1>3

(* A fault drops activations, and at most forgets the capture.             *)
LEMMA OwnershipFault == IInv /\ Ownership /\ Fault => Ownership'
<1> SUFFICES ASSUME IInv, Ownership, Fault PROVE Ownership'
  OBVIOUS
<1>1. /\ depth > 0 /\ depth \in 1 .. MaxDepth /\ MaxDepth \in Nat /\ depth' = Top.ctx
      /\ Top.ctx \in 0 .. depth - 1
  <2>1. depth > 0 /\ depth \in 1 .. MaxDepth /\ MaxDepth \in Nat
    BY InLine, TopFacts, BoundAssumption DEF Fault, StrlenFaults
  <2>2. Top.ctx < depth /\ Top.ctx \in Nat
    BY <2>1, TopFacts, ContextType DEF ContextAt, Top
  <2>3. QED
    BY <2>1, <2>2 DEF Fault
<1>2. ASSUME NEW k \in 1 .. depth' PROVE frame'[k] = frame[k] /\ k \in 1 .. depth
  <2>1. k \in 0 .. MaxDepth /\ ~(k > Top.ctx) /\ k # 0
    BY <1>1
  <2>2. QED
    BY <1>1, <2>1 DEF Fault
<1>3. ASSUME NEW k \in 1 .. depth, k <= depth' PROVE SameRun(k)
  <2>1. k \in 1 .. depth'
    BY <1>1, <1>3
  <2>2. QED
    BY <2>1, <1>2 DEF SameRun, Capturing, Op
<1>4. live' = live /\ (term_stdout' = term_stdout \/ term_stdout' = NULL) /\ depth' \in 0 .. MaxDepth
  BY <1>1 DEF Fault, StrlenFaults, memory
<1>5. QED
  BY <1>2, <1>3, <1>4, OwnershipKept

LEMMA OwnershipInvariant == IInv /\ Ownership /\ [Next]_vars => Ownership'
<1> SUFFICES ASSUME IInv, Ownership, [Next]_vars PROVE Ownership'
  OBVIOUS
<1>1. /\ depth \in 0 .. MaxDepth /\ MaxDepth \in Nat /\ frame \in [0 .. MaxDepth -> Frame]
  BY BoundAssumption DEF IInv, TypeOK
<1>2. CASE UNCHANGED <<frame, depth>> /\ live \subseteq live'
           /\ (term_stdout' = term_stdout \/ term_stdout' \in live' \ live)
  <2>1. \A k \in 1 .. depth : SameRun(k)
    BY <1>2 DEF SameRun, Capturing, Op
  <2>2. QED
    BY <1>1, <1>2, <2>1, OwnershipKept
<1>3. CASE TaskWrite
  BY <1>2, <1>3, AppendOwnership DEF TaskWrite
<1>4. CASE TaskRead \/ TaskExit \/ UNCHANGED vars
  BY <1>2, <1>4 DEF TaskRead, TaskExit, vars, globals, memory, stack
<1>5. CASE ExecBuiltin
  <2> DEFINE f == [Top EXCEPT !.pc = "finish"]
  <2>1. depth > 0 /\ Top \in Frame /\ Top.pc = "exec"
    BY <1>5, InLine, TopFacts DEF ExecBuiltin
  <2>2. f.stdout = Top.stdout /\ f.line = Top.line /\ f.i = Top.i /\ f.pc = "finish"
    BY <2>1 DEF Frame
  <2>3. Stay(f) /\ UNCHANGED depth
    BY <1>5 DEF ExecBuiltin
  <2>4. live \subseteq live' /\ (term_stdout' = term_stdout \/ term_stdout' \in live' \ live)
    BY <1>5, AppendOwnership DEF ExecBuiltin
  <2> HIDE DEF f
  <2>5. QED
    BY <2>1, <2>2, <2>3, <2>4, OwnershipStay DEF InRun
<1>6. CASE ExecExit \/ ExecSpawn \/ WireExit \/ WirePipes \/ WaitDone
  <2>1. depth > 0 /\ Top \in Frame /\ Top.pc \in InRun
    BY <1>6, InLine, TopFacts DEF ExecExit, ExecSpawn, WireExit, WirePipes, WaitDone, InRun
  <2>2. PICK pc \in InRun, brk \in BOOLEAN : Stay([Top EXCEPT !.pc = pc, !.brk = brk])
    <3>1. \A pc \in InRun : [Top EXCEPT !.pc = pc] = [Top EXCEPT !.pc = pc, !.brk = Top.brk]
      BY <2>1 DEF Frame
    <3>2. Top.brk \in BOOLEAN
      BY <2>1 DEF Frame
    <3>3. CASE ExecExit
      BY <3>3 DEF ExecExit, InRun
    <3>4. ASSUME NEW pc \in InRun, Stay([Top EXCEPT !.pc = pc])
          PROVE  Stay([Top EXCEPT !.pc = pc, !.brk = Top.brk])
      BY <3>1, <3>4
    <3>5. CASE ~ExecExit
      <4>1. PICK pc \in InRun : Stay([Top EXCEPT !.pc = pc])
        BY <1>6, <3>5 DEF ExecSpawn, WireExit, WirePipes, WaitDone, InRun
      <4>2. Stay([Top EXCEPT !.pc = pc, !.brk = Top.brk])
        BY <3>4, <4>1
      <4>3. QED
        BY <3>2, <4>1, <4>2
    <3>6. QED
      BY <3>3, <3>5
  <2> DEFINE f == [Top EXCEPT !.pc = pc, !.brk = brk]
  <2>3. f.stdout = Top.stdout /\ f.line = Top.line /\ f.i = Top.i /\ f.pc \in InRun
    BY <2>1, <2>2 DEF Frame
  <2>4. Stay(f) /\ UNCHANGED <<term_stdout, live, depth>>
    BY <1>6, <2>2 DEF ExecExit, ExecSpawn, WireExit, WirePipes, WaitDone, globals, memory
  <2> HIDE DEF f
  <2>5. QED
    BY <2>1, <2>3, <2>4, OwnershipStay
<1>7. CASE ExecNotFound
  BY <1>7, InLine, OwnershipReturn DEF ExecNotFound, globals, memory
<1>8. CASE WriteFile
  <2>1. depth > 0 /\ Top \in Frame /\ Top.pc = "ran"
    BY <1>8, InLine, TopFacts DEF WriteFile
  <2>2. UNCHANGED <<term_stdout, live>>
    BY <1>8 DEF WriteFile, globals, memory
  <2>3. CASE Return(FALSE, Top.brk)
    <3>1. Top.brk \in BOOLEAN
      BY <2>1 DEF Frame
    <3>2. QED
      BY <2>1, <2>2, <2>3, <3>1, OwnershipReturn
  <2>4. CASE Stay([Top EXCEPT !.pc = "filed"]) /\ UNCHANGED depth
    <3> DEFINE f == [Top EXCEPT !.pc = "filed"]
    <3>1. f.stdout = Top.stdout /\ f.line = Top.line /\ f.i = Top.i /\ f.pc = "filed" /\ Stay(f)
      BY <2>1, <2>4 DEF Frame
    <3> HIDE DEF f
    <3>2. QED
      BY <2>1, <2>2, <2>4, <3>1, OwnershipStay DEF InRun
  <2>5. QED
    BY <1>8, <2>3, <2>4 DEF WriteFile
<1>9. CASE CallNext
  <2> DEFINE f == NewFrame(Top.line, NextStage(Top), Top.stdout, Top.ctx)
             below == [Top EXCEPT !.pc = "callee"]
  <2>1. depth > 0 /\ Top \in Frame /\ Top.pc \in {"ran", "filed"}
    BY <1>9, InLine, TopFacts DEF CallNext
  <2>2. f.stdout = NULL /\ f.pc = "enter"
    BY DEF NewFrame, NoFrame
  <2>3. /\ below.stdout = Top.stdout /\ below.line = Top.line /\ below.i = Top.i
        /\ below.pc \notin InRun /\ Top.pc \notin InRun
    BY <2>1 DEF Frame, InRun
  <2>4. Push(f, below) /\ UNCHANGED <<term_stdout, live>>
    BY <1>9 DEF CallNext, globals, memory
  <2>5. depth + 1 \in 0 .. MaxDepth
    BY <1>9, CallNextStack, <2>4 DEF StackOK, Push
  <2> HIDE DEF f, below
  <2>6. QED
    BY <2>2, <2>3, <2>4, <2>5, OwnershipPush
<1>10. CASE \E line \in Lines : Receive(line)
  <2>1. PICK line \in Lines : Receive(line)
    BY <1>10
  <2> DEFINE f == NewFrame(line, 1, NULL, 0)
             below == [Top EXCEPT !.pc = "callee"]
  <2>2. Top \in Frame /\ Top.pc = "prompt"
    BY <2>1, <1>1 DEF Receive, Top
  <2>3. f.stdout = NULL /\ f.pc = "enter"
    BY DEF NewFrame, NoFrame
  <2>4. /\ below.stdout = Top.stdout /\ below.line = Top.line /\ below.i = Top.i
        /\ below.pc \notin InRun /\ Top.pc \notin InRun
    BY <2>2 DEF Frame, InRun
  <2>5. Push(f, below) /\ UNCHANGED <<term_stdout, live>>
    BY <2>1 DEF Receive, globals, memory
  <2>6. depth + 1 \in 0 .. MaxDepth
    BY <2>1, ReceiveStack, <2>5 DEF StackOK, Push
  <2> HIDE DEF f, below
  <2>7. QED
    BY <2>3, <2>4, <2>5, <2>6, OwnershipPush
<1>11. CASE \E line \in SystemLines : TaskSystem(line)
  <2>1. PICK line \in SystemLines : TaskSystem(line)
    BY <1>11
  <2> DEFINE f == NewFrame(line, 1, NULL, depth)
  <2>2. f.stdout = NULL /\ f.pc = "enter"
    BY DEF NewFrame, NoFrame
  <2>3. Push(f, Top) /\ UNCHANGED <<term_stdout, live>>
    BY <2>1 DEF TaskSystem, globals, memory
  <2>4. depth + 1 \in 0 .. MaxDepth
    BY <2>1, TaskSystemStack, <2>3 DEF StackOK, Push
  <2> HIDE DEF f
  <2>5. QED
    BY <2>2, <2>3, <2>4, OwnershipPush
<1>12. CASE LineDone \/ EndOfInput \/ Respawn
  <2>1. depth = 0 /\ depth' = 0
    BY <1>12 DEF LineDone, EndOfInput, Respawn
  <2>2. CaptureLive'
    BY <1>12 DEF LineDone, EndOfInput, Respawn, globals, memory, Ownership, CaptureLive
  <2>3. QED
    BY <2>1, <2>2 DEF Ownership, OwnedOnce
<1>13. QED
  BY <1>3, <1>4, <1>5, <1>6, <1>7, <1>8, <1>9, <1>10, <1>11, <1>12,
     OwnershipEnter, OwnershipFinish, OwnershipFree, OwnershipFault DEF Next, Shell

LEMMA InitOwnership == Init => Ownership
BY DEF Init, Ownership, CaptureLive, OwnedOnce

LEMMA OwnershipHolds == Spec => []Ownership
BY InitOwnership, OwnershipInvariant, StackDiscipline, PTL DEF Spec

(* The output of a command is never appended to a freed block, although    *)
(* the failure paths leave term_stdout as it is and nested system() calls  *)
(* reset it under the feet of an outer run_command.                        *)
THEOREM CaptureStaysLive == Spec => []CaptureLive
<1>1. Ownership => CaptureLive
  BY DEF Ownership
<1>2. QED
  BY <1>1, OwnershipHolds, PTL

(* No block is handed to two activations, so the free(stdout) of           *)
(* command_received never frees one twice.                                 *)
THEOREM NoDoubleFree == Spec => []OwnedOnce
<1>1. Ownership => OwnedOnce
  BY DEF Ownership
<1>2. QED
  BY <1>1, OwnershipHolds, PTL
=============================================================================
