------------------------------ MODULE Children ------------------------------
(***************************************************************************)
(* Two parents that start programs and learn of their end through a flag   *)
(* the kernel sets: init, which runs the auto-exec script and then one     *)
(* terminal after the other, and the launcher of the desktop.  Both store  *)
(* the address of the flag (on_exit) when the program already runs.        *)
(***************************************************************************)
EXTENDS Integers

CONSTANT Programs   \* the programs the launcher can run: entries of its list

VARIABLES
    init,               \* where init stands
    desk,               \* the program the launcher has spawned but not wired, or "idle"
    running_programs,   \* the entries of the launcher's list
    task,               \* "none", "running" or "ended": the task of each program
    wired,              \* the programs whose on_exit is stored
    flag,               \* the programs whose flag is set
    told                \* history: the programs that ended after on_exit was stored

vars == <<init, desk, running_programs, task, wired, flag, told>>
deskVars == <<desk, running_programs>>

Slots == {"script", "terminal"} \cup Programs
Set(s, st) == task' = [task EXCEPT ![s] = st]

Init ==
    /\ init = "resolve" /\ desk = "idle" /\ running_programs = {}
    /\ task = [s \in Slots |-> "none"]
    /\ wired = {} /\ flag = {} /\ told = {}

\* A new program: its flag is clear and nothing is stored in its task yet.
spawn(s) ==
    /\ Set(s, "running")
    /\ wired' = wired \ {s} /\ flag' = flag \ {s} /\ told' = told \ {s}
Unspawned == UNCHANGED <<task, wired, flag, told>>

(***************************************************************************)
(* init                                                                    *)
(***************************************************************************)
At(from, to) == init = from /\ init' = to /\ UNCHANGED deskVars

Resolve == Unspawned /\ (At("resolve", "script") \/ At("resolve", "spawn"))

\* The result of spawn is not looked at: a fault, or a flag that is never set.
SpawnScript ==
    \/ At("script", "wire script") /\ spawn("script")
    \/ Unspawned /\ (At("script", "fault") \/ At("script", "wait script"))
WireScript ==
    /\ At("wire script", "wait script")
    /\ wired' = wired \cup {"script"} /\ UNCHANGED <<task, flag, told>>
ScriptEnded == "script" \in flag /\ At("wait script", "spawn") /\ Unspawned

SpawnTerminal ==
    \/ At("spawn", "wire") /\ spawn("terminal")
    \/ At("spawn", "stopped") /\ Unspawned
WireTerminal ==
    /\ At("wire", "wait")
    /\ wired' = wired \cup {"terminal"} /\ UNCHANGED <<task, flag, told>>
Respawn == "terminal" \in flag /\ At("wait", "spawn") /\ Unspawned

InitStep ==
    \/ Resolve \/ SpawnScript \/ WireScript \/ ScriptEnded
    \/ SpawnTerminal \/ WireTerminal \/ Respawn

(***************************************************************************)
(* The launcher, in the draw loop of the desktop                           *)
(***************************************************************************)
\* Without a task the store faults, or leaves an entry that never ends.
launcher_run(p) ==
    /\ desk = "idle" /\ p \notin running_programs /\ UNCHANGED init
    /\ \/ desk' = p /\ spawn(p) /\ UNCHANGED running_programs
       \/ desk' = "fault" /\ UNCHANGED running_programs /\ Unspawned
       \/ /\ UNCHANGED desk /\ running_programs' = running_programs \cup {p}
          /\ Set(p, "none") /\ wired' = wired \ {p} /\ flag' = flag \ {p} /\ told' = told \ {p}
Wire(p) ==
    /\ desk = p /\ desk' = "idle"
    /\ running_programs' = running_programs \cup {p}
    /\ wired' = wired \cup {p} /\ UNCHANGED <<init, task, flag, told>>
\* Mutant: the flag of each entry is not looked at.
launcher_tick_all ==
    /\ desk = "idle" /\ running_programs \cap flag # {} /\ running_programs' = {}
    /\ UNCHANGED <<init, desk>> /\ Unspawned

launcher_tick ==
    /\ desk = "idle" /\ running_programs \cap flag # {}
    /\ running_programs' = running_programs \ flag
    /\ UNCHANGED <<init, desk>> /\ Unspawned

(***************************************************************************)
(* A program ends: the kernel sets the flag it knows of.                   *)
(***************************************************************************)
End(s) ==
    /\ task[s] = "running" /\ Set(s, "ended")
    /\ flag' = IF s \in wired THEN flag \cup {s} ELSE flag
    /\ told' = IF s \in wired THEN told \cup {s} ELSE told
    /\ UNCHANGED <<init, deskVars, wired>>

DeskStep == launcher_tick \/ \E p \in Programs : Wire(p)
Next ==
    \/ InitStep \/ DeskStep
    \/ \E p \in Programs : launcher_run(p)
    \/ \E s \in Slots : End(s)
Spec == Init /\ [][Next]_vars /\ WF_vars(InitStep) /\ WF_vars(DeskStep)

(***************************************************************************)
(* Properties                                                              *)
(***************************************************************************)
\* The kernel never writes through an on_exit whose entry was freed; and every
\* end that comes after on_exit was stored is noticed: init goes on behind the
\* script and starts the next terminal, unless it cannot, and the launcher
\* forgets the program, unless it faulted.
EntryLives == \A p \in Programs : task[p] = "running" /\ p \in wired => p \in running_programs
EndsNoticed ==
    /\ ~<>(~EntryLives)
    /\ \A p \in Programs : p \in told ~> (p \notin running_programs \/ desk = "fault")
    /\ "script" \in told ~> init = "wait" \/ init = "stopped"
    /\ "terminal" \in told ~> task["terminal"] = "running" \/ init = "stopped"
=============================================================================
