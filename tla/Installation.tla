---------------------------- MODULE Installation ----------------------------
(***************************************************************************)
(* install puts FoxOS on a partition: it makes directories, copies files   *)
(* from the running system, writes the configuration and has safm make the *)
(* initial ramdisk from the modules on the partition, if safm does.  It may *)
(* crash at any write, and can be run again on whatever is there.          *)
(***************************************************************************)
EXTENDS Archive
LOCAL INSTANCE SequencesExt

CONSTANTS
    Systems,    \* the systems it may be run from: their root directories
    Partitions, \* what may be on the partition before
    Config,     \* the bytes of a configuration file
    MaxRuns     \* bound: how often it is started

VARIABLES
    source,     \* the root of the running system
    old,        \* history: the partition before the first run
    disk,       \* the partition
    left,       \* the writes still to be done
    status,     \* "running", "done", "aborted" or "crashed"
    runs,       \* number of runs
    built       \* history: whether safm of any run has written the ramdisk

vars == <<source, old, disk, left, status, runs, built>>

RECURSIVE Update(_, _, _)
Update(entries, path, new) ==
    IF path = <<>> THEN new
    ELSE LET i == IndexOf(entries, Head(path))
         IN  [entries EXCEPT ![i].entries = Update(@, Tail(path), new)]

\* One write to the partition.
Write(op, path, name, bytes) == [op |-> op, path |-> path, name |-> name, bytes |-> bytes]
Put(d, w, new) == IF IsDir(d, w.path) THEN Update(d, w.path, new) ELSE d

\* fopen for writing finds no file, and none can be made.
Opens(d, w) == IsDir(d, w.path) /\ ~IsDir(d, Append(w.path, w.name))

Modules == <<"BOOT", "MODULES">>
Ramdisk(d) == Make(World(At(d, Modules), At(d, Modules), 0))
Built(d, w) == Ramdisk(d).end = "done" /\ Opens(d, w)

\* What the partition is after a write.
Perform(d, w) ==
    LET here == At(d, w.path)
    IN  CASE w.op = "mkdir" -> Put(d, w, Touch(here, Dir(w.name, <<>>)))
          [] w.op = "touch" -> Put(d, w, Touch(here, File(w.name, <<>>)))
          [] w.op = "write" -> Put(d, w, WriteFile(here, w.name, w.bytes))
          [] w.op = "safm" -> Put(d, w, WriteFile(here, w.name, <<Ramdisk(d)>>))

create_directory(path, name) == << Write("mkdir", path, name, <<>>) >>
write_text_file(path, name, bytes) ==
    << Write("touch", path, name, <<>>), Write("write", path, name, bytes) >>
copy_file_across_fs(path, name) ==
    LET there == At(source, path)
        i == IndexOf(there, name)
    IN  IF i > Len(there) \/ there[i].type # "file" THEN << Write("abort", path, name, <<>>) >>
        ELSE write_text_file(path, name, there[i].bytes)
\* Mutant: the loop begins with the second entry.
copy_dir_from_one(path) ==
    LET there == At(source, path)
    IN  IF there = <<>> THEN copy_file_across_fs(path, "")
        ELSE FlattenSeq([i \in 1 .. Len(there) - 1 |-> copy_file_across_fs(path, there[i + 1].name)])

copy_dir_across_fs(path) ==
    LET there == At(source, path)
    IN  IF there = <<>> THEN copy_file_across_fs(path, "")
        ELSE FlattenSeq([i \in DOMAIN there |-> copy_file_across_fs(path, there[i].name)])

\* What main does from its answers on.
Copies ==
    << copy_dir_across_fs(<<"BIN">>), copy_dir_across_fs(<<"RES">>),
       copy_dir_across_fs(Modules), copy_dir_across_fs(<<"EFI", "BOOT">>),
       copy_file_across_fs(<<>>, "startup.nsh"),
       copy_file_across_fs(<<>>, "LICENSE"),
       copy_file_across_fs(<<"BOOT">>, "foxkrnl.elf"),
       copy_file_across_fs(<<"FOXCFG">>, "start.fox") >>
Writes ==
    create_directory(<<>>, "BIN") \o create_directory(<<>>, "EFI")
      \o create_directory(<<"EFI">>, "BOOT") \o create_directory(<<>>, "BOOT")
      \o create_directory(<<"BOOT">>, "MODULES") \o create_directory(<<>>, "FOXCFG")
      \o create_directory(<<>>, "RES") \o FlattenSeq(Copies)
      \o write_text_file(<<"FOXCFG">>, "dn.fox", Config)
      \o write_text_file(<<>>, "limine.cfg", Config)
      \o copy_file_across_fs(<<>>, "limine.sys")
      \o << Write("write", <<"FOXCFG">>, "sys.fdb", Config),
            Write("safm", <<"BOOT">>, "initrd.saf", <<>>) >>

Init ==
    /\ source \in Systems /\ old \in Partitions
    /\ disk = old /\ left = Writes /\ status = "running" /\ runs = 1 /\ built = FALSE

\* A write is done.
Succeeds(d, w) ==
    CASE w.op = "write" -> Opens(d, w)
      [] w.op = "safm" -> Built(d, w)
      [] OTHER -> w.op # "abort"
Step ==
    /\ status = "running" /\ left # <<>>
    /\ LET w == Head(left)
       IN  /\ Succeeds(disk, w)
           /\ disk' = Perform(disk, w) /\ built' = (built \/ w.op = "safm")
    /\ left' = Tail(left)
    /\ UNCHANGED <<source, old, status, runs>>

\* safm is not found or fails; nobody looks at the result of system.
SafmFails ==
    /\ status = "running" /\ left # <<>> /\ Head(left).op = "safm"
    /\ left' = Tail(left)
    /\ UNCHANGED <<source, old, disk, status, runs, built>>

\* A file is not there, or cannot be opened for writing.
CannotOpen ==
    /\ status = "running" /\ left # <<>> /\ Head(left).op \in {"abort", "write"}
    /\ status' = "aborted" /\ left' = <<>>
    /\ UNCHANGED <<source, old, disk, runs, built>>

Finish ==
    /\ status = "running" /\ left = <<>>
    /\ status' = "done"
    /\ UNCHANGED <<source, old, disk, left, runs, built>>

Crash ==
    /\ status = "running"
    /\ status' = "crashed" /\ left' = <<>>
    /\ UNCHANGED <<source, old, disk, runs, built>>

RunAgain ==
    /\ status # "running" /\ runs < MaxRuns
    /\ status' = "running" /\ left' = Writes /\ runs' = runs + 1
    /\ UNCHANGED <<source, old, disk, built>>

Next == Step \/ SafmFails \/ CannotOpen \/ Finish \/ Crash \/ RunAgain
Spec == Init /\ [][Next]_vars

(***************************************************************************)
(* Properties                                                              *)
(***************************************************************************)
Initrd(d) == Bytes(d, <<"BOOT", "initrd.saf">>)

\* Whatever was interrupted or failed before, a run that ends has put every file
\* of the system over what the partition had at the start and has kept everything
\* else.  It says that FoxOS is installed even if safm failed: then the ramdisk
\* is what the partition had at the start; but once safm of any run has done its
\* work, the ramdisk holds exactly the modules that are on the partition.
DoneInstalls ==
    status = "done" =>
      /\ Merged(source, old, disk, { w.path \o <<w.name>> : w \in Range(Writes) })
      /\ IF built THEN /\ Extracts(Initrd(disk)[1])
                       /\ parsenode(Initrd(disk)[1], 0) = Dir("", At(disk, Modules))
                  ELSE Initrd(disk) = Initrd(old)
=============================================================================
