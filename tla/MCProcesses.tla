----------------------------- MODULE MCProcesses -----------------------------
(***************************************************************************)
(* The programs whose steps others may interrupt: "program" says which of  *)
(* them moves, the others have not begun.                                  *)
(***************************************************************************)
EXTENDS Database, Console, TLC

CONSTANT Programs   \* model values

VARIABLES
    program,
    source, old, disk, left, status, runs, built,
    init, desk, running_programs, task, wired, flag, told

installVars == <<source, old, disk, left, status, runs, built>>
childrenVars == <<init, desk, running_programs, task, wired, flag, told>>
vars == <<program, foxdbVars, installVars, childrenVars, consoleVars>>

Tree == INSTANCE FileTree
Arch == INSTANCE Archive
OneFile == <<Tree!File("x", <<5>>)>>
System(bin, modules) ==
    << Tree!Dir("BIN", bin), Tree!Dir("RES", OneFile),
       Tree!Dir("BOOT", <<Tree!Dir("MODULES", modules), Tree!File("foxkrnl.elf", <<7>>)>>),
       Tree!Dir("EFI", <<Tree!Dir("BOOT", OneFile)>>),
       Tree!Dir("FOXCFG", <<Tree!File("start.fox", <<2>>)>>), Tree!File("startup.nsh", <<7>>),
       Tree!File("LICENSE", <<3>>), Tree!File("limine.sys", <<4>>) >>
Systems == { System(bin, modules) :
    bin \in {<<>>, OneFile, <<Tree!Dir("d", <<>>)>>, <<Tree!File("a", <<1, 2>>)>>},
    modules \in {OneFile, <<Tree!File("c", <<1>>), Tree!File("x", <<>>)>>} }
Older == <<Tree!File("c", <<6, 6>>)>>
OlderRamdisk == <<Arch!Make(Arch!World(Older, Older, 0))>>
Partitions ==
    {<<>>, <<Tree!Dir("BIN", <<Tree!File("a", <<8, 9, 9>>), Tree!File("z", <<8>>)>>),
             Tree!Dir("BOOT", <<Tree!Dir("MODULES", Older),
                                Tree!File("foxkrnl.elf", <<1, 2>>), Tree!File("initrd.saf", OlderRamdisk)>>),
             Tree!File("limine.cfg", <<9, 9>>)>>,
     <<Tree!File("RES", <<1>>)>>, <<Tree!Dir("LICENSE", <<>>)>>}

Command(name, key) == [name |-> name, key |-> key]
MCCommands ==
    { Command(name, "k") : name \in {"new_str", "append", "remove", "get", "help"} }
      \cup {Command("new_int", "l")}
Text(r) == [type |-> "str", by |-> <<r>>]
MCDatabases == {[k \in {"k", "l"} |-> Text(0)]}

MCRuns == 1 .. 3

Install == INSTANCE Installation WITH Config <- <<0>>, MaxRuns <- 3
Child == INSTANCE Children

NoFoxdb == first = Absent /\ ~replaces
NoInstall == source = 0 /\ old = 0 /\ disk = 0 /\ left = 0 /\ status = 0 /\ runs = 0 /\ built = 0
Init ==
    /\ Child!Init /\ ConsoleInit /\ FoxdbInit
    /\ \/ program = "foxdb" /\ NoInstall
       \/ program = "install" /\ Install!Init /\ NoFoxdb
       \/ program \in {"children", "console"} /\ NoInstall /\ NoFoxdb

FoxdbSteps ==
    program = "foxdb" /\ FoxdbNext /\ UNCHANGED <<program, installVars, childrenVars, consoleVars>>
InstallSteps ==
    program = "install" /\ Install!Next /\ UNCHANGED <<program, foxdbVars, childrenVars, consoleVars>>
Others == <<program, foxdbVars, installVars, consoleVars>>
InitStep == program = "children" /\ Child!InitStep /\ UNCHANGED Others
DeskStep == program = "children" /\ Child!DeskStep /\ UNCHANGED Others
ChildrenSteps == program = "children" /\ Child!Next /\ UNCHANGED Others
ConsoleSteps ==
    program = "console" /\ ConsoleNext /\ UNCHANGED <<program, foxdbVars, installVars, childrenVars>>

Next == FoxdbSteps \/ InstallSteps \/ ChildrenSteps \/ ConsoleSteps
Spec == Init /\ [][Next]_vars /\ WF_vars(InitStep) /\ WF_vars(DeskStep)

\* install: a run that ends has copied the whole system, whatever earlier runs
\* were interrupted at; the ramdisk is right once any safm (install/main.c:135)
\* has succeeded, and else the one that was there.
DoneInstalls == program = "install" => Install!DoneInstalls

\* init and launcher: every end that comes after on_exit was stored is noticed.
EndsNoticed == Child!EndsNoticed
=============================================================================
