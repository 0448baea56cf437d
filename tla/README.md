# A verification project for FoxOS-programs

TLA+ models of the user programs of FoxOS, the TLC runs that check them and the
TLAPS proofs about them. The models are written from the code under `src/`; the
kernel, libc and libfoxos are not part of the repository and are modelled only
from how this code uses them (such definitions are marked external in
`PROJECT.json`).

    tlc -config ShellPipeline.cfg MCShell.tla           # one run
    tlapm LimineInstallProofs.tla                       # one proof module

`PROJECT.json` lists every run with the properties it checks, the source lines
every definition stands for, one mutant of the code per checked property (a
plausible bug that makes TLC reject it), the hazards and the theorems.

## 1. The system

FoxOS-programs is the user land of FoxOS: about fifty small programs. Most are
a page of straight-line calls to libc. The ones with state, concurrency or an
order that matters:

| Component | State | Operations | Talks to |
|---|---|---|---|
| **Shell** (`terminal/main.c`, `commands.c`) | five globals shared by all activations: `term_stdout`, `term_stdout_size`, `term_stdin`, `term_stdin_size`, `stdin_pos`; the C stack; heap blocks for captured output | `command_received` (splits at `&`, `\|`, `>`, `>>`, calls itself on the rest), `run_command`, `spawn_process`, pipe callbacks `append_stdout`/`append_stdin`, `system_command_handler` | spawns programs, whose reads, writes and `system()` calls call back into the shell's code *in the context of the program* |
| Environment (`commands.c` `export`, `read_`, `main.c` 232) | `terminal_envp`, 255 pointers | replace, add, copy at start, `?=` after each program | `getenv` of the shell and all programs it spawns |
| Line editor and scripts (`main.c` 226-340, `tab_complete`, `script.c`) | input buffer; a line buffer | keys, completion; reading lines | `command_received` |
| Scanners (`argv_tools.c`) | none | operator, quotes, arguments, `$VAR` | shell |
| **Boot loader installer** (`limine_install`) | the sectors of a GPT disk | read both headers, shorten both partition arrays, write headers, MBR, two halves of stage 2 | raw disk |
| init | the running terminal | auto-exec script, respawn | shell |
| Desktop FoxDE (`foxde`) | window list, pending key, console, running programs | draw loop; IPC handler that runs in its clients; signal handler; launcher | clients (`window_test`), terminal |
| Editor `foxe` | text buffer, cursor, counters, clipboard | keys; arrow-key signal handler | files |
| Calculator, assembler, archives, `cp`, `du` | none that lasts | lexer, parser, evaluation; operands and encodings; offsets of an archive; walks over directories | the file system |
| `foxdb` | a database file | load, change, save | other processes on the same file |
| Installer `install` | a partition | directories, copies, configuration, ramdisk | the running system, `safm` through the shell |
| the rest | none | a few system calls each | - |

What is hard here:

* **Re-entrancy.** While the shell spins in `spawn_process`, the program it
  waits for may call `system()`, which runs `command_received` on the same
  globals, and may fail half way.
* **Spawn before wiring.** `spawn` starts a task; only afterwards its parent
  stores `on_exit`, the pipes and `system_method`. Shell, init, launcher and
  desktop all do this.
* **Crashes.** The installer rewrites a partition table in place, in many
  writes, with no journal.
* **Callbacks in foreign contexts.** The desktop's IPC handler changes the list
  that its draw loop walks, its signal handler a slot that the loop reads.
* **One file, several runs.** `foxdb` loads, changes and saves without a lock;
  `install` writes in place, may be interrupted and does not look at what became of `safm`; `safm` reads every directory several times.
* **Boundaries.** Captured output with its terminator, the entry count of a
  shortened partition array, fixed buffers of the editor and environment.

For each component, correct means:

* Shell: each stage reads exactly what the one before it printed; files get
  exactly what was captured; nothing is freed twice or used after it was freed;
  a line ends only after its programs, and always ends; exit ends the shell
  when it is the last command and never from within `system()`.
* Installer: no partition is lost, whatever happens and however often it is
  run; the disk is readable after every interruption; a run that ends has
  installed a bootable and consistent disk.
* Environment: an exported variable has its value, and no other one changes.
* Editor and line editor: the cursor stays in the buffer and the counters
  describe it. Scripts: the lines run are the lines of the file.
* Desktop: only live windows are drawn, an event reaches at most one window, a
  closed window goes away.
* Archives, calculator, assembler: they agree with a reference definition, the calculator as far as an `int` goes.
* Database: a saved change stays unless a later run undoes it. Installer of the system: a
  run that ends has installed everything, whatever was interrupted before.
* Parents of programs: every end is noticed.

## 2. What is modelled

### `Shell`: command lines, pipes and output capture

The state is the five globals (the size of `term_stdout` is the length of its
block), the heap (`heap`, `live`), one stack of activations and the world
(`files`, `screen`). An activation `frame[k]` is one call of `command_received`
together with the `run_command` and `spawn_process` calls inside it; its `pc`
says where it stands. `task[k]` is the program `frame[k]` spawned and waits
for. `frame[0]` is the loop that reads lines: the REPL of `main`, or
`run_script`. A frame's `ctx` is the task it runs in: 0 for the shell, `k` if it
was entered through a `system()` of `task[k]`.

| Action | Code |
|---|---|
| `Receive`, `LineDone`, `EndOfInput` | REPL and script loop: hand over a line, take its result |
| `Enter` | `command_received` up to `run_command`, with the malloc of `stdout`, and the start of `run_command` |
| `Fault` | `strlen(NULL)` when there is an operator but no capture: zero, or a fault that ends the task. In `run_command` (`&`, commands.c:86) `term_stdout` is NULL by then and the input still that of before; in `command_received` (main.c:92) nothing has changed (`StrlenFaults`) |
| `ExecBuiltin`, `ExecExit`, `ExecNotFound`, `ExecSpawn` | the dispatch of `run_command` |
| `WireExit`, `WirePipes`, `WaitDone` | `spawn_process` after `spawn`: `on_exit`, then pipes and `system_method`, then the loop that waits |
| `Finish` | the end of `run_command`: hand back `term_stdout`, reset the globals |
| `WriteFile`, `CallNext`, `FreeAndReturn` | the rest of `command_received` |
| `TaskWrite`, `TaskRead`, `TaskSystem`, `TaskExit` | what a program does, interleaved with the shell at every step |
| `Respawn` | init starts the shell again |

Output is a sequence of tokens `<<run, n>>`, the n-th thing run number `run`
wrote, which is enough to tell lost, duplicated, reordered and mixed output
apart. Decisions taken from the code:

* `malloc` is first fit and a `realloc` stays in place, so that a freed block is
  reused as soon as possible: the case in which a dangling pointer shows.
* A freed block keeps its contents in `heap`; a read of it returns them or
  anything else.
* Opening with `"w"` does not empty the file: `>>` is an open with `"w"` and a
  seek to the end, and that works only if the contents are still there. `>`
  therefore overwrites the beginning (`Overwrite`).
* What a program may do between `spawn` and `system_method` is the constant
  `EarlyRun`. `"exit"` is left out where liveness is checked (section 4).
* The assignment to the parameter `*stdin` at the end of `run_command` is dead
  and not modelled; nor are error messages and `kill`.

### `Pipeline`: what a command line promises

The abstract specification: a line, the stage at work, what it may read, what
it printed into its pipe, files and screen. `ShellPipeline` maps the stack of
activations onto it (innermost activation = stage at work): every step of the shell is
a step of `Pipeline` or a stutter, for `Clean` lines: every command is found, every
file can be written, no program calls `system()` and address 0 can be read.

### `LimineInstall`: the boot loader installer

One action per read or written sector, and `Crash` between any two of them, which
loses the buffers and keeps the disk; then the program may be started again with
the same or another loader image. A partition array is a sequence of sectors; a
slot stands for the entries of one sector and `number_of_partition_entries`
counts slots, because the code only ever shortens an array by whole sectors. A
CRC is the sequence it was computed from, so a header is valid exactly if what it
covers has not changed. The layout is the usual one (and the one the code's
`+ 32` assumes): each array has `ArraySectors` sectors, the first usable sector
follows the primary array, and the secondary header follows the secondary array.
`num_entries_sectors` is one more than the entries fill, so both array writes
also touch the sector behind: harmless for the primary, but the secondary
header is overwritten (`WriteArray2`) until `WriteHeader2`.

Images have any size. Each half may fill its whole array; one that is larger makes the count
negative, which is refused, unless `stage2_loc_a` itself wraps below 0 (`EntryLba`): then the
count is huge. `stage2_size_a` and `stage2_size_b` are `uint16_t`, so they are taken modulo
`SizeLimit` sectors: of a larger image only what is left of them is written, and where the first
wraps and the second does not (`Swapped`: of 255 sectors in the code, for example) the second half is written over its whole array and
what lies before it, the end of the last partition (`spoiled`). A new count larger
than what was read makes the clearing loop run behind `buffer3`; the run then is
`"undefined"`, a state without a continuation.

### `Environment` and `EnvMap`: the variables of the shell

`envp` is the sequence of strings before the NULL in `terminal_envp`, each a
name and a value. `Set` is the body of `export`: `Replace` the first string
that *begins with* the new name, which is what `strncmp` with the length of the
name compares, or `Add` behind the last one. Which names begin with which is
the constant `Begins`. `Export` stands for `export` and `read`, `Spawn` and
`Ended` for `spawn_process`, which needs `PATH` (without it the shell aborts) and
exports `?` at the end, for programs nested through `system()`; `Exit` and
`Respawn` replace the shell and its environment. `getenv` belongs to libc and
reads the first string with exactly this name. `overrun` records that the NULL
was written behind the allocated pointers, after which the run is undefined and
the model stops. Values also stand for exit codes; the length checks
of `export` (no name, no `=`) change nothing and are not modelled.

`EnvMap` is what export promises: a map in which one call changes one
variable. `ImplementsEnvMap` refines it with `value[n] = Getenv(n)`.

### `Desktop`: windows, clicks and keys of FoxDE

The task of the desktop is `desk`: its `pc`, and the locals of the walk over the
window list it may be in (`walk`, the point `at` of the click, `handled`). A
client is a run of `window_test`; its handler steps run in its own task, so
they fall anywhere between the steps of the desktop. `list` is the sequence of
linked nodes, `node` the memory of all nodes.

| Action | Code |
|---|---|
| `Begin`, `InitWindows` | `main` up to `ipc_register`, then up to the draw loop: in between clients reach the handler without a list |
| `Tick`, `Draw`, `DrawNext`, `DrawDone` | the loop and `draw_windows`, one step per window and one for the read of `next` |
| `NoButton`, `ClickIcon`, `ClickElsewhere`, `Click`, `ClickNext`, `ClickDone` | the mouse: task bar first, then `mouse_handle_windows` |
| `Signal` | `special_key_sighandler`, at any point of the loop |
| `KeyLook`, `KeyDown`, `KeyUp`, `KeyClear` | the three reads of `cache_signum`, and its clearing |
| `TerminalExit`, `LeaveLoop`, `DestroyAllWindows`, `Over` | the end of the terminal and of the desktop, after which another one may begin |
| `Register`, `Add` | a program starts and registers its window: find, then add |
| `ShowExitButton`, `SeeExit`, `Delete` | the rest of `window_test` |
| `Unregister`, `Remove` | find, then remove |

Decisions:

* The list is `list_t` of libfoxos, which is not in the repository. Its `find`,
  `add` and `remove` are one step each; `foreach` calls the callback and reads
  `next` afterwards (`NextOf`). What two of its operations do to each other
  *inside* is not modelled.
* Memory of a removed node keeps its contents until it is handed out again.
  Only the walk that is under way can still see it; after it the contents are
  forgotten (`Forget`) to keep the state space small.
* All windows of `window_test` open at the same place, so four points of the
  screen tell all clicks apart: the exit button, the inside, the corner around
  (0, 0) and an icon. Before a window was drawn with its exit button, the
  coordinates in its node are zero (`armed`).
* A client that faults (no desktop, no list yet) just ends or goes on without
  being listed. A terminal that ends before its `on_exit` is stored would leave
  the desktop running for ever; this is the hazard of `spawn` again and excluded
  here.
* `seen`, `got` and `unsent` are history variables: they guard nothing.
* Who gets a key and which key it is are not modelled, nor are pixels.

### `Editor` and `TextEditor`: foxe

The text buffer, the cursor, the counters of the status line, the clipboard and
the file. A key that types or erases is a chain of steps (`Type`, `Grow`,
`Shift`, `Store`, `Advance`; `Backspace`, `Unshift`, `Shrink`, `Retreat`), as in
`listen_input`, because the arrow keys move the same cursor from a signal
handler (`arrow_keys_sighandler`) between any two of them. A key of the edit mode is one step;
if a signal comes in the middle of one, inside its loops over the text, the key is `InterruptedKey`
instead, which ends the model.
Counters are unsigned (`% Word`).

`block` is what `malloc` or `realloc` gave. An insertion makes the block as long as the new text and then moves
one byte too many (`Shift`, input.c:290): the byte behind the block is written each time. Whose byte
that is depends on the allocator, so both outcomes are explored: nobody's, and the editor goes on, or somebody's
("clobbered"), which ends the model. Any other write outside of the block, a block freed twice
and a cursor that a signal took out of the text end it as "undefined".

The editor is wrong in several places: an arrow key in the middle of typing moves
the place the character goes to; copying or cutting an empty line, a cut that stops at a newline, a paste that is
not at the end of the text, a replaced newline and a discard after lines were added
leave the text, the clipboard or the counters wrong. `careful` is a history variable
that turns FALSE with the first such thing, and each action says which it is;
the properties promise what they say to a user who avoids these. This is
a weaker statement than correctness, but not a vacuous one: every key occurs, and
arrow keys occur between all steps of typing and erasing, in careful behaviours. `NoOtherOverrun` says that for
this user the byte behind the block is the only one written outside of it.

`TextEditor` is the abstract specification: a text, a cursor, a clipboard, and one
step per visible change. `ImplementsTextEditor` maps a character that is half
inserted to one that is not there yet (`SeenText`).

### The programs that compute: `MCFunctions` and its parts

| Module | Code | Reference it is held against |
|---|---|---|
| `CommandLine` | the scanners of `argv_tools.c`, the cut in `command_received`, `run_script` with its line buffer (`LINE_SIZE`), which a longer line overruns | each other; the lines of the file |
| `LineEditor` | the keys of the prompt and `tab_complete` | the line that is on the screen; the longest common prefix |
| `ShellText` | the inputs of the two: lines, scripts, keys, words to complete, which grow by one character or key | - |
| `Calculator` | lexer, parser with its iterator, evaluation of `calc` in the `int` of the processor (`Wrap`), and the input array of `main` | the meaning of an expression tree, written out with its parentheses |
| `Assembler`, `Executables`, `AssemblerMeaning` | foxasm from characters to an executable in three formats | `X86`, a decoder written from the processor manual: the bytes of a line do what the line says |
| `Archive` | `safm` with every call of the file system it makes, the change of the directory between any two of them, and what is written before its room is checked; the way back in `safe` | the directory before and after the change |
| `FileTree`, `FileCopy` | directories as the file system shows them; `cp -r` and `du` | the set of paths |

They are functions; `MCFunctions` is a state machine that only grows inputs, so that
one run goes over all of them. What the shell reads is a specification of its own,
`ShellText` (`TextSpec`), for the proofs: its operators are written with recursive functions
over the positions of a text, while the other modules follow the recursion of the code over
trees and tokens. Its assumptions are what libfoxos gives: a name and the slash
behind it fit in their array, a directory has a name once, and no name has a slash in it. Where the code does not support an input, the property says
which inputs these are (`Unsupported` in `Calculator`, `Slip`
in `LineEditor`) and what happens then: the calculator refuses
them. What it answers is exact where every number and result is an `int`, and without a division
right modulo the size of an `int` otherwise: `65536*65536` is 0.
`ArchiveExact` says when `safm` writes outside of its block (the header before
`inc_offset` looks at the room, or one offset more than was counted), or the offsets of a folder over its first child:
only if something grew or moved while it ran. Outside the inputs: negative numbers of the assembler, escapes in
its strings, labels as operands of `mov` (`MovLabel` is there, but nothing ever
patches what it emits), and the registers 4 and 5 (`[rsp]`, `[rbp]`) as addresses, whose
encoding needs bytes that foxasm does not emit.

### `Database`: foxdb

Each run is a process with one command: `Load`, `Create` (a file that was not there is
made at once), `Execute`, `Save` (the file is being written), `Saved`; `Kill` ends it
anywhere. `file` is absent, empty, torn while somebody writes it, or holds
a database, a function from keys to values that remember who wrote them.
libfoxdb is external: whether inserting a key again replaces it is not known, so
`replaces` is chosen once for all. It is assumed that a database knows its own length
(`fdb_scanner.c` reads `header->size`), so the rest of a longer old file does no
harm. A run that reads an empty or torn file, two runs that write at once, one
killed while it writes and an `append` to a key without a text leave undefined
contents, where the model ends (`spoilt`). What the runs have saved is remembered in `work`:
for every set of runs, the database these would have made of the first one, had they
been run one after the other in the order in which they saved.

### `Installation`: install

`Writes` is the list of writes `main` does after its questions, computed from the running
system: directories, copies, configuration, and the ramdisk, which `Archive` makes of
what is on the partition at that moment (nothing else writes there, so the directory does not change under it). `safm` may be missing or fail: the result of `system` is
ignored, and the run goes on without a ramdisk (`SafmFails`). A file that cannot be opened, to read or to write, ends the list (`abort`, `CannotOpen`); an
empty source directory is such a case, because `copy_dir_across_fs` asks for entry 0
before it knows there is one. `Crash` may come between any two writes, and `RunAgain` starts over.
`"w"` and `"wb"` are taken to make the file and keep its contents, as in `Shell`. `built` remembers whether
any run had its ramdisk written.

### `Children`: init and the launcher

Both parents spawn, and only then store `on_exit`: what ends in between is never
noticed (`told` stays empty). `spawn` may fail: init then faults or waits for ever behind the
script, and returns for a terminal; the launcher faults or keeps an entry that never
goes. `launcher_run` and `launcher_tick` run in the same task, so an entry in
`running_programs` is always complete.

### `Console`: what all programs print to

`print_bg_console` with its accesses to column and row as single steps, in any number
of tasks. `paper` is an endless sheet on which every character is printed at once when it is begun,
`mixed` records that one was begun while another one was not finished.

### MC modules

`MCShell` names the lines, `MCLimineInstall` the loader images,
`MCEnvironment` the variables and `MCEditor` the characters and files for TLC. `MCDesktop` needs
no definitions. `MCFunctions` and `MCProcesses` each put several modules into one run; their
variables `kind` and `program` say which of them moves. `ShellText` is extended by `MCFunctions`,
`Database` and `Console` by `MCProcesses`, so their formulas have names of their own (`TextSpec`,
`FoxdbSpec`, `ConsoleSpec`).

## 3. The runs

| Run | Question | Result |
|---|---|---|
| `shell_pipeline` | Does every interleaving of shell, pipes and programs implement `Pipeline`, leak nothing and come back to the prompt, for lines whose commands are found? | holds |
| `shell_nested` | With failing lines, `system()` from programs whose output is captured, and faults: which control and heap discipline survives? | holds |
| `shell_early_output` | Does "run the next command with the stdout as the stdin" (main.c:96) hold? | violated: output before commands.c:426 goes to the screen |
| `shell_and_stdin` | Does "stdout isn't send if it isn't needed" (main.c:49) hold? | violated: a failed `>` inside `system()` leaves its capture behind, which the outer `&` passes on |
| `limine_install` | What does an interruption between any two sectors leave, and what has a finished run installed? | holds |
| `environment` | Is the array a map, and does it hold every variable, where no name begins with another one? | holds |
| `env_prefix` | Does "we haven't found the environment variable, so we need to add it" (commands.c:357) hold when a name begins with another one? | violated: `export PA=x` takes the place of `PATH` |
| `desktop` | Programs open and close windows while the desktop draws, distributes clicks and keys, ends and starts again: what does the draw loop reach, who gets an event, does everything that is closed end? | holds |
| `editor` | With arrow keys as signals while one types: is the byte behind the block the only one written outside of it, the status line right and the text the one an editor would have, for a careful user? | holds |
| `functions` | Do the programs that compute agree with their references on all small inputs? | holds |
| `processes` | Several runs of `foxdb` on one file, interrupted installations, tasks that share the console, parents that wait: what is lost, and when? | holds |
| `desktop_corner` | Does "check if exit button is pressed" (window_renderer.cpp:291) hold? | violated: until a window was drawn with its exit button, a click near (0, 0) closes it |

The properties of `shell_nested` are the ones that could be expected to break and
do not: `CaptureLive` (output is never appended to a freed block), `OwnedOnce`
(no block is freed twice, although `run_command` hands back *whatever*
`term_stdout` has become), `BlocksWhileRunning` and `ExitIsLast`. What does break
is the input side: after a failing line `term_stdin` may point to a freed
block. `ResetAfterSuccess` says that only failing lines do this.

Of the installer, `PrimaryValid` has a premise: the unused entries were empty.
An entry without a GUID but with other data is cleared on disk before the
header's CRC is updated, and an interruption then leaves the primary copy
invalid while the secondary header is overwritten. `RefusedAfterCrash` says
that the message "Invalid signature" on a proper disk needs an interruption; after
one inside `WriteArray2 .. WriteHeader2` it is permanent.

The images of that run have eight sizes, those that do not fit among them. `PartitionsKept` says what the sizes can do: the
primary array loses nothing ever; only a swapped image takes entries of the secondary array and
the end of a partition. `Installed` promises the whole second stage and a valid secondary copy only where both sizes
fit in 16 bits (`Counted`): of a larger image the run reports success and leaves a part of it.

Of the desktop, `TouchesRegistered` is the strongest thing that can be said of the
draw loop: it *does* reach windows whose program has unregistered and deleted
them, because nothing locks the list; but never one that was gone before the
walk began. `DesktopEnds` needs every walk to end although windows
may be added behind it: a window that goes and comes back during a walk needs
another click, of a later frame, before it can go again.

Of foxdb, `LostOnlyIfOvertaken` says what can be promised without a lock: the file is
the work of some of the runs, one after the other, among them every run that no other one
overtook (loaded before it saved, and saved after it). `help` overtakes too, because it returns its database and so saves
it; `get` and `keys` do not. `DoneInstalls` needs the second and third run to repair
what a crash left: nothing but the list of writes being complete and each being repeatable
makes it hold. It does not say that a run that is done has left a ramdisk, because that is false: if `safm` failed in
every run, the partition has the ramdisk it had at the start, or none; what is promised is that
the first success gives a right one, and no later failure spoils it. `ConsoleExact` shows that the unlocked console survives every interruption
*between* characters; within one, the last column can be written behind the
block. `EndsNoticed` excepts only the ends before `on_exit` is stored.

Two properties checked here before, on what a stage captures and what it is given
to read, are gone because `ImplementsPipeline` implies them.

### Bounds, and why they are enough

| Bound | Value | Why |
|---|---|---|
| `MaxLines` | 1-2 | what a line leaves behind shows in the next one |
| `MaxDepth` | 2-4 | three stages in one line; a two-stage line inside the `system()` of a two-stage line |
| `MaxWrites` | 1-2 | two tokens tell lost from reordered |
| `MaxCalls` | 0-1 | one nested call per program, at every depth |
| `MaxBufs` | 4-8 | never reached: the invariants hold with blocks to spare, so `Malloc` is never disabled by it |
| `ArraySectors`, `SizeLimit` | 5, 9 | images of one half, of two equal and of two unequal halves, so that second runs shorten, repeat and overrun; halves that fill the array, exceed it, wrap its place around and wrap around themselves (32 and 128 in the code) |
| `MaxRuns` | 3 | a run, an interrupted one and a repair |
| `Capacity` | 5 | four names and the NULL just fit, so that one string too many shows (255 in the code) |
| `MaxNested` | 2 | a program and one it calls through `system()` |
| `Clients`, `Nodes` | 2, 2 | while one window is removed under a walk, the other one may take over its node; the proofs hold for any number |
| `Word`, `MaxKeys` | 8, 6 | counters wrap below zero; six keys type, erase, cut, paste and save across two lines |
| `MAX_BUFFER_SIZE` | 4 | keys reach and pass the end of the buffer (2048 in the code) |
| `LINE_SIZE` | 5 | the lines of a script fit, just fit and overrun (256 in the code) |
| `INT_MAX`, `INPUT_SIZE` | 127, 18 | products and sums of two or three numbers wrap; the longest expressions do not fit in the array (2^31 - 1 and 1024 in the code) |
| inputs of `functions` | up to 3 operators; 3 lines; 6 characters; 5 keys; two levels of directories | every branch of the code is reached, and every pair of operands of `mov` |
| `Runs` | 3 | one run overtakes another one that a third one overtook |
| `MaxRuns` of `Installation` | 3 | a run, an interrupted one and a repair |
| `Columns`, `Rows`, `MaxChars` | 2, 2, 5 | wraps and scrolls |
| `Programs`, `Printers` | 2, 2 | entries come and go independently; two tasks mix |

### Fairness

`FairSpec` assumes weak fairness of `Shell` (the task of the shell is
scheduled: FoxOS is preemptive and the shell spins rather than blocks), of
`Respawn` (init loops for ever) and of `TaskExit` (programs end: this is an
assumption about programs, and `LineReturns` promises nothing for one that does
not). No fairness is assumed for what programs write, read or call, nor for the
user. `LineReturns` further assumes, through `EarlyRun`, that no program ends
before its `on_exit` is stored: without that it is false, since the flag the
shell waits for is then never set. `LimineInstall` has no liveness property:
it is a straight line of writes.

`Desktop` assumes weak fairness of the task of the desktop and of every client's
own steps, for the same reason. New programs, clicks, keys and the end of the
terminal are not fair: `CloseHonoured` and `DesktopEnds` hold however often
or seldom they come.

`MCProcesses` assumes weak fairness of the steps of init and of the draw loop of the desktop,
which are scheduled like any task. That programs end, and that anything is started, is not
assumed.

## 4. The proofs

Eight modules prove safety and refinement for every value of the constants that satisfies the
assumptions stated in the modules:

| Module | About | Theorems | Assumptions |
|---|---|---|---|
| `ShellProofs` | `Shell` | `StackDiscipline`, `TypeCorrect`, `BlockingDiscipline`, `CaptureStaysLive`, `NoDoubleFree` | `LineAssumption`, `BoundAssumption` |
| `ShellLineProofs` | `Shell`, `ShellPipeline` | `ResetsAfterSuccess`, `OnlyLastExitEnds`, `NothingLeaks`, `ShellIsPipeline` | the same, `ExitAssumption`; the last two: `Clean` |
| `LimineInstallProofs` | `LimineInstall` | `PartitionsSafe`, `TypeCorrect`, `PrimaryStaysValid`, `RefusalNeedsCrash`, `EndsInstalled` | `SizeAssumption` |
| `EnvironmentProofs` | `Environment` | `IsMap`, `NoOverrun`, `TypeCorrect` | `EnvAssumption`; the first two: `PrefixFree` |
| `DesktopProofs` | `Desktop` | `TypeCorrect`, `OnlyLiveListed`, `WalksStayFresh`, `ClicksOnce`, `KeysOnce` | `DesktopAssumption` |
| `EditorProofs` | `Editor` | `TypesStay`, `NoOtherOverrunEver`, `FoxeIsTextEditor`, `StatusLineStaysExact` | `EditorAssumption` |
| `ProcessesProofs` | `Database`, `Console` | `OnlyOvertakenLost`, `ConsoleStaysExact` | none; `ConsoleAssumption` |
| `ShellTextProofs` | `CommandLine`, `LineEditor`, `ShellText` | `ScannersStayTogether`, `ScriptsRunInOrder`, `EditorStaysHonest`, `CompletionAddsCommon` | `LineAssumption` of `LineEditor`, `ScriptAssumption`, `TextAssumption` |

So they hold for any lines, any depth, any number of programs; any size of the
partition array, images of any size, any number of runs and crashes; any variables; any number of windows;
texts, widths and numbers of keys of any size; any commands on any database; a console of any size; lines, scripts,
keys and directories of any length.

**Shell.** The properties are not inductive: they speak of the globals, and
what protects the globals is the shape of the stack. `IInv` adds to the type
invariant that every activation below the innermost one waits, either for its
callee or for a program of its own that is inside `system()`; that contexts only
change at such a program; and that frames and tasks above `depth` are
empty (`StackDiscipline`). From it follow `BlockingDiscipline` and
`TypeCorrect`. For the heap the argument is ownership: the owner of the
block in `term_stdout` is an activation inside `run_command`, and above it
no activation that captures is inside `run_command`. This is what makes it
safe that `run_command` returns the global instead of the block it was
given: `CaptureStaysLive` and `NoDoubleFree`.

**Lines.** `ResetsAfterSuccess` follows the globals through the stack (`Settled`): once an activation
has its result, either a command of its line was not found or both are NULL again. `ExitInv`
says that an activation works on the line of its caller, and that its `should_break` tells whether its own
command was exit until it has the result of the next one; so the value that comes back is that of the last command. For `Clean` lines,
`PInv` describes the whole stack: all activations but the innermost one wait for the next stage (`Stacked`),
the globals are those of the innermost one at every place of its code (`Innermost`),
and every live block is the capture of an activation (`Owned`). `NothingLeaks` is `Owned` with no
activation left. `ShellIsPipeline` shows under `PInv`, action by action, that a step
of the shell is the step of `Pipeline` with the same output, or none. `Clean` is
needed: with a command that is not found or with `system()`, blocks stay behind and input
is handed to the wrong command, as `shell_and_stdin` shows.

**Installer.** `IInv` says that the buffer holds every entry in use below the
new count, that the primary header covers all entries in use, that the
header in memory is the one on disk until it is written, and that both halves
of the second stage lie behind the new count, the second one unless the image is `Swapped`. That a
half that does not fit or wraps is refused or undefined, and so never written, is in `Plan`; what the sizes of an image may be is
in `Halves`. It gives `PartitionsSafe` and
`TypeCorrect`. For `PrimaryStaysValid`, `CleanInv` adds that below the old
count buffer and disk agree from the plan on, and up to and including the
sector behind it once the first array is written. `RefusalNeedsCrash` follows
from `IInv` and the place at which the secondary header is missing. For
`EndsInstalled`, `Progress` says for every place of a run what is already right: the
sectors of both arrays that are written hold what the buffer holds, both headers cover that, and so on
to the second half of the second stage.

**Environment.** `IInv` adds to the types that no name occurs twice (`Unique`).
Under `PrefixFree`, no name begins with another one, the string `export` finds
is then the one `getenv` reads, and a replaced or added string changes one
variable: every step maps to a step of `EnvMap` or a stutter (`IsMap`). With
finitely many names, distinct strings are no more than the names, and
`NoOverrun` follows. `PrefixFree` is the condition under which the code is
right, as the run `env_prefix` shows. `TypeCorrect` does without it.

**Desktop.** `IInv` adds four things to the properties. A client between the find
and the remove of its window still holds the node that carries it (`FindHolds`),
because only it takes that node out, or the whole list goes; so `Remove` removes
the right node although the list has changed since, and `OnlyLiveListed` follows.
`WalkHolds` says that during a walk everything reachable, through the list or
through the old `next` of a node taken out, belongs to a window seen in this walk,
and that nothing of a removed node is left outside of one: `WalksStayFresh`.
`ClickHolds` ties `handled` to the receivers and `SlotHolds` the slot to unsent
signals: `ClicksOnce` and `KeysOnce`.

**Editor.** That the cursor is in the text is not inductive: a key is several steps,
and an arrow key may come between any two of them. `SafeInv` adds to the types where the cursor may be
at each of them (`InText`), and for a careful user that the rest of a key finds the room it needs, and that the copied line is
neither empty nor freed (`CarefulPlace`). `BlockInv` compares the block with the
text at each place of a key, so that a move of an insertion ends one byte behind it and never further. The
refinement reads the text through `SeenText`, which leaves out the character that is
half inserted or half erased; each step is shown to leave it alone, but for the one at
which the character appears or goes. `StatusLineStaysExact` is the hardest: `CountInv` says, for every
place in the middle of a key, by how much the two counters are ahead of or behind the newlines of the seen
text. The newlines of a text that is cut or put together are counted by cardinalities of sets of positions
(`CountConcat`), and since the counters are unsigned all equations hold modulo `Word`
(`ModAdd`, `ModUnique`). No induction over texts is used: the start of a line is the
largest of a bounded set of positions (`MaxOfBounded`), which exists because finite
sets are well-founded under inclusion.

**foxdb.** A run that has loaded holds the work of a set of runs (`LoadedAt`): runs that had saved
by then, and all of them that nobody overtook (`Basis`). Later saves do not change the work of this set,
because they add to sets with themselves in it only, and a run saves once (`WorkOfSaved`, `SavedOnce`).
When it saves, the file is the work of that set and itself; what it drops had saved after it
loaded, and so is overtaken. A second writer would break this: `OneWriter` says that until the model
ends there is none. What the commands do is never looked into.

**Console.** Without `mixed`, at most one task is within a character (`Alone`), and
`Lags` says for each place in `print_bg_console` by what the console is behind the paper: one cell
(`WhenErasing`), the cursor at the end of a row (`WhenAtEnd`), a row that is not there
yet (`WhenInNewRow`), or one to scroll (`WhenBelow`). Cells are `r * Columns + k` for arbitrary
`Columns`, so the lemmas `CellIn` and `CellUnique` do the arithmetic that keeps a write in its
place.

**What the shell reads.** These theorems are about what recursive functions compute for every text, and
so need inductions. The induction theorems of the library cannot be instantiated, so it is rebuilt from
one fact that can be cited: finite sets are well-founded under strict inclusion. It gives a smallest
element of every set of numbers (`MinOfNat`), from that a set that has 0 and with each number the
next one has them all (`Reached`), and from that the existence (`Recursion`) and the equations
(`IsRecursion`) of a function defined by a step over positions. Every recursive operator then has one
lemma that says what it is: `PiecesAre`, `JoinedIs`, `CandidatesAre`, `FlagsAre`, `TypedIs`, `RoundsAre`. On
these rest the four results:

* `CompletionAddsCommon`: the candidates of a directory are its names that begin with the word, each once
  (`CandidatesDiffer`, which is where a directory having each name once is needed); copying until two of
  them differ is the longest common prefix (`CopiedIs`, `CommonIs`), cut where the code cuts it (`TakenIsOffer`).
* `EditorStaysHonest`: an invariant over the keys typed so far, one lemma per key (`BackspaceRight`,
  `TabRight`, `EnterRight`, `OtherRight`).
* `ScannersStayTogether`: `FlagsKnown` compares the quotes the two scanners see. They agree as long
  as each backslash stands before a quote, so the operator found is the first one outside quotes (`TypeIs`).
  `PiecesCut` and `JoinedAtCuts` put the words together again; `FlagsOfPiece` carries the quotes from the
  beginning of a word to its end (`WordsClosed`); `CellsAre` follows the buffer that `command_received` cuts in place (`CutExact`).
* `ScriptsRunInOrder`: `current_line` is one array that is written over by each line and not always emptied. A
  line that ends with a newline is what is run, whatever the array held (`CutRound`). One that does not
  is followed by the rest of the array: the invariant of the rounds is that without a comment this is
  only blanks and zeros (`Fades`), which `process_line` takes away (`EndRound`). At the first line
  that does not fit the rounds stop (`OverrunIs`), behind the end of the file nothing overruns the array (`EndFits`), and `FittingIs`
  counts the lines in between.

Only model-checked:

* Liveness (`LineReturns`, `CloseHonoured`, `DesktopEnds`, `EndsNoticed`): fairness and ENABLED are out of
  the prover's reach.
* `CalculatorNeverWrong`, `AssemblerExact`, `ArchiveExact`, `CopyExact`: these programs recurse over
  expression trees, token lists that are consumed, and directories in directories. There is no set of numbers to index such
  a recursion, so the models use RECURSIVE operators, which the prover cannot reason about.
* `DoneInstalls`: its ramdisk is the archive of such a directory, and its paths are
  followed down a tree.

## 5. Findings

1. `commands.c:426`: output of a program before its pipe is stored is lost for
   the pipe (`shell_early_output`).
2. `commands.c:138`: the path of a command that is not found leaves the
   capture of the globals behind; an `&` passes it on (`shell_and_stdin`).
3. `commands.c:343`: exporting a variable whose name is the beginning of another
   one replaces the other one (`env_prefix`).
4. `window_renderer.cpp:293`: the exit button of a window that was not drawn with it
   yet is at (0, 0) (`desktop_corner`).

## 6. What is not modelled, and the plan

Not modelled for good: drawing, tables (keymaps, opcodes that foxasm has no mnemonic for, glyphs), formatted
output, programs that are a few system calls in a row (`if`, `tasks`, the system tools
and most file tools), the patch to mujs, the build files. Sector writes that fail without stopping the boot loader installer are not
modelled: the code ignores their results. `frame_ready` of a window is only about
pixels.

Hazards seen but not listed in `PROJECT.json`, because nothing of the models depends on them:
`commands.c:401` reads `magic` from a block it has just freed; `cp` and `du` ask for entry 0 of a
directory before they know there is one (`CopyExact` says what follows); `>` overwrites
the beginning of a file only.

Possible next steps: lemmas on `Perform` of `Installation` for paths of a fixed depth, as a first part of
`DoneInstalls`; the ends of programs in `Children` as a safety property that says which flag is lost.
