------------------------------ MODULE FileCopy ------------------------------
(***************************************************************************)
(* cp -r copies a directory into another one, du adds up its files.        *)
(***************************************************************************)
EXTENDS FileTree
LOCAL INSTANCE SequencesExt

\* Both look at entry 0 before they ask whether there is one.  For du that is a
\* file it cannot open and does not count; for cp it is the end.  So is a file
\* where the destination has a directory, and a directory where it has a file.
Copied(end, entries) == [end |-> end, entries |-> entries]

RECURSIVE recursive_dir_copy(_, _)
RECURSIVE CopyEntries(_, _)
CopyEntries(src, dest) ==
    IF src = <<>> THEN Copied("done", dest)
    ELSE LET e == Head(src)
             made == Touch(dest, [e EXCEPT !.entries = <<>>])
             i == IndexOf(made, e.name)
             sub == recursive_dir_copy(e.entries, made[i].entries)
             step == CASE (made[i].type = "dir") # (e.type = "dir") -> Copied("abort", dest)
                       [] e.type = "dir" -> Copied(sub.end, [made EXCEPT ![i].entries = sub.entries])
                       [] OTHER -> Copied("done", WriteFile(dest, e.name, e.bytes))
         IN  IF step.end = "done" THEN CopyEntries(Tail(src), step.entries) ELSE step
recursive_dir_copy_from_one(src, dest) ==
    IF src = <<>> THEN Copied("abort", dest) ELSE CopyEntries(Tail(src), dest)
recursive_dir_copy(src, dest) ==
    IF src = <<>> THEN Copied("abort", dest) ELSE CopyEntries(src, dest)

RECURSIVE folder_size(_)
folder_size(entries) ==
    IF entries = <<>> THEN 0
    ELSE LET e == Head(entries)
         IN  (IF e.type = "dir" THEN folder_size(e.entries) ELSE Len(e.bytes))
             + folder_size(Tail(entries))

Clash(src, dest) ==
    \E p \in Paths(src), q \in Paths(dest) : p[1] = q[1] /\ (p[2] = "dir") # (q[2] = "dir")

\* cp -r copies every file below the source, in its order, and keeps what else
\* the destination has; it stops exactly if there is an empty directory, or a
\* file in the place of a directory, and has then damaged nothing.  du counts
\* every byte, empty directories or not.
CopyExact(src, dest) ==
    LET copy == recursive_dir_copy(src, dest)
    IN  /\ copy.end = "done" <=> ~HasEmptyDir(src) /\ ~Clash(src, dest)
        /\ copy.end = "done" => Merged(src, dest, copy.entries, { p[1] : p \in Paths(src) })
        /\ copy.end = "done" /\ dest = <<>> => copy.entries = src
        /\ \A p \in Paths(copy.entries) :
             \/ p \in Paths(dest) \/ p[2] = "dir"
             \/ p[3] = Overwrite(Bytes(dest, p[1]), Bytes(src, p[1]))
        /\ folder_size(src) =
             FoldLeft(LAMBDA n, p : n + Len(p[3]), 0, SetToSeq(Paths(src)))
=============================================================================
