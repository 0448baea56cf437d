---------------------------- MODULE Environment ----------------------------
(***************************************************************************)
(* The environment of the terminal: the array terminal_envp of main.c and  *)
(* the operations of commands.c on it, export, read and the ?= after every *)
(* program, which may be called while programs run, through system().      *)
(* search_executable needs PATH and aborts the shell without it; init then *)
(* starts a new one.                                                       *)
(***************************************************************************)
EXTENDS Naturals, Sequences, FiniteSets

CONSTANTS
    Names, Values, Unset,
    Begins,      \* the pairs <<n, m>> of names of which m begins with n
    Path, Status, \* the names PATH and ?
    Initial,     \* the variables init gives the shell
    Capacity,    \* pointers main allocates (0xff in the code)
    MaxNested    \* bound: programs running inside each other

Entry == [name : Names, value : Values]

ASSUME EnvAssumption ==
    /\ Unset \notin Values
    /\ Path \in Names /\ Status \in Names
    /\ Begins \subseteq Names \X Names /\ \A n \in Names : <<n, n>> \in Begins
    /\ Initial \in Seq(Entry)
    /\ \E i \in 1 .. Len(Initial) : Initial[i].name = Path
    /\ \A i, j \in 1 .. Len(Initial) : Initial[i].name = Initial[j].name => i = j
    /\ Capacity \in Nat /\ Len(Initial) < Capacity
    /\ MaxNested \in Nat

VARIABLES
    envp,     \* the strings before the NULL of terminal_envp
    shell,    \* "prompt" or "gone"
    running,  \* programs that spawn_process waits for
    overrun   \* the NULL was written behind the last pointer

vars == <<envp, shell, running, overrun>>

(* main copies what it is given.                                           *)
Init ==
    /\ envp = Initial
    /\ shell = "prompt" /\ running = 0 /\ overrun = FALSE

(* getenv: the first string for this name.                                 *)
First(n) == {i \in 1 .. Len(envp) : envp[i].name = n /\ \A j \in 1 .. i - 1 : envp[j].name # n}
Getenv(n) == IF First(n) = {} THEN Unset ELSE envp[CHOOSE i \in First(n) : TRUE].value

(* Mutant of Matches: the search stops before the last string.             *)
MatchesTooFew(n) == {i \in 1 .. Len(envp) - 1 : <<n, envp[i].name>> \in Begins
                                     /\ \A j \in 1 .. i - 1 : <<n, envp[j].name>> \notin Begins}

(* The loop compares as many characters as the new name has.               *)
Matches(n) == {i \in 1 .. Len(envp) : <<n, envp[i].name>> \in Begins
                                     /\ \A j \in 1 .. i - 1 : <<n, envp[j].name>> \notin Begins}

(* Mutant of Replace: the old string is freed and not replaced.            *)
ReplaceDrops(n, v) ==
    /\ \E i \in Matches(n) : envp' = SubSeq(envp, 1, i - 1) \o SubSeq(envp, i + 1, Len(envp))
    /\ UNCHANGED overrun

Replace(n, v) ==
    /\ \E i \in Matches(n) : envp' = [envp EXCEPT ![i] = [name |-> n, value |-> v]]
    /\ UNCHANGED overrun

(* The new string goes where the NULL was, and the NULL behind it.         *)
Add(n, v) ==
    /\ Matches(n) = {}
    /\ envp' = Append(envp, [name |-> n, value |-> v])
    /\ overrun' = (overrun \/ Len(envp) + 1 >= Capacity)

Set(n, v) == Replace(n, v) \/ Add(n, v)

(* export NAME=value, and read NAME, which exports what was typed.         *)
Export(n, v) ==
    /\ shell = "prompt" /\ ~overrun
    /\ Set(n, v)
    /\ UNCHANGED <<shell, running>>

(* search_executable needs PATH before anything is spawned: without it the *)
(* task aborts, the shell, or a program in system(), for which see Ended.  *)
Spawn ==
    /\ shell = "prompt" /\ ~overrun
    /\ IF Getenv(Path) # Unset
       THEN running < MaxNested /\ running' = running + 1 /\ UNCHANGED shell
       ELSE running = 0 /\ shell' = "gone" /\ UNCHANGED running
    /\ UNCHANGED <<envp, overrun>>

(* Mutant of Ended: also without a program.                                *)
EndedUnguarded(code) ==
    /\ shell = "prompt" /\ ~overrun
    /\ Set(Status, code)
    /\ running' = running - 1
    /\ UNCHANGED shell

(* The end of the innermost program: its exit code is exported as ?.       *)
Ended(code) ==
    /\ shell = "prompt" /\ ~overrun /\ running > 0
    /\ Set(Status, code)
    /\ running' = running - 1
    /\ UNCHANGED shell

Exit ==
    /\ shell = "prompt" /\ running = 0
    /\ shell' = "gone"
    /\ UNCHANGED <<envp, running, overrun>>

Respawn ==
    /\ shell = "gone"
    /\ shell' = "prompt" /\ envp' = Initial /\ overrun' = FALSE
    /\ UNCHANGED running

Next ==
    \/ \E n \in Names, v \in Values : Export(n, v)
    \/ Spawn \/ \E code \in Values : Ended(code)
    \/ Exit \/ Respawn

Spec == Init /\ [][Next]_vars

-----------------------------------------------------------------------------
(* Values also stand for exit codes.                                       *)
TypeOK ==
    /\ envp \in Seq(Entry)
    /\ shell \in {"prompt", "gone"} /\ running \in 0 .. MaxNested /\ overrun \in BOOLEAN

(* Where no name begins with another one, the array is a map: export, read *)
(* and the end of a program change one variable (the search of export      *)
(* against that of getenv).                                                *)
Given == [n \in Names |-> IF \E i \in 1 .. Len(Initial) : Initial[i].name = n
                          THEN Initial[CHOOSE i \in 1 .. Len(Initial) : Initial[i].name = n].value
                          ELSE Unset]

Map == INSTANCE EnvMap WITH value <- [n \in Names |-> Getenv(n)]

ImplementsEnvMap == Map!Spec

(* The array has room for every variable there can be, so that repeating   *)
(* exports never runs over its end.                                        *)
RoomForAll == Cardinality(Names) < Capacity => ~overrun

(* commands.c: "We haven't found the environment variable, so we need to   *)
(* add it": a variable that was not there is added beside all the others.  *)
AddsIfNotFound ==
    [][\A n \in Names : Getenv(n) = Unset /\ Getenv(n)' # Unset
          => \A m \in Names \ {n} : Getenv(m)' = Getenv(m)]_envp
=============================================================================
