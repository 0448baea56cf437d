------------------------------ MODULE FileTree ------------------------------
(***************************************************************************)
(* Directories as the file tools see them: the sequence of entries that    *)
(* dir_at hands out one by one.  A file has bytes, a directory entries, and *)
(* a device neither.  The file system is not part of the repository.       *)
(***************************************************************************)
EXTENDS Integers, Sequences
LOCAL INSTANCE SequencesExt

File(name, bytes) == [type |-> "file", name |-> name, bytes |-> bytes, entries |-> <<>>]
Dir(name, entries) == [type |-> "dir", name |-> name, bytes |-> <<>>, entries |-> entries]
Device(name) == [type |-> "device", name |-> name, bytes |-> <<>>, entries |-> <<>>]

\* Opening with "w" or "wb" keeps what the file has: writing replaces its
\* beginning.
Overwrite(old, new) == new \o SubSeq(old, Len(new) + 1, Len(old))

IndexOf(entries, name) ==
    IF \E i \in 1 .. Len(entries) : entries[i].name = name
    THEN CHOOSE i \in 1 .. Len(entries) : entries[i].name = name
    ELSE Len(entries) + 1

\* What a path leads to.
RECURSIVE At(_, _)
At(entries, path) ==
    IF path = <<>> THEN entries
    ELSE IF IndexOf(entries, Head(path)) > Len(entries) THEN <<>>
    ELSE At(entries[IndexOf(entries, Head(path))].entries, Tail(path))
Found(entries, path) ==
    IF path = <<>> THEN {Dir("", entries)}
    ELSE { e \in Range(At(entries, Front(path))) : e.name = Last(path) }
Exists(entries, path) == Found(entries, path) # {}
IsFile(entries, path) == \E e \in Found(entries, path) : e.type = "file"
IsDir(entries, path) == \E e \in Found(entries, path) : e.type = "dir"

\* touch and mkdir add an entry behind the others if there is none.
Touch(entries, new) ==
    IF IndexOf(entries, new.name) > Len(entries) THEN Append(entries, new) ELSE entries
WriteFile(entries, name, bytes) ==
    LET made == Touch(entries, File(name, <<>>))
    IN  [made EXCEPT ![IndexOf(made, name)].bytes = Overwrite(@, bytes)]

\* The files and directories under some entries, by path.
RECURSIVE Paths(_)
Paths(entries) ==
    UNION { {<< <<e.name>>, e.type, e.bytes >>}
              \cup { << <<e.name>> \o p[1], p[2], p[3] >> : p \in Paths(e.entries) }
          : e \in Range(entries) }

RECURSIVE HasType(_, _)
HasType(type, entries) ==
    \E e \in Range(entries) : e.type = type \/ HasType(type, e.entries)

RECURSIVE HasEmptyDir(_)
HasEmptyDir(entries) ==
    entries = <<>> \/ \E e \in Range(entries) : e.type = "dir" /\ HasEmptyDir(e.entries)

Bytes(entries, path) ==
    LET found == { p \in Paths(entries) : p[1] = path /\ p[2] = "file" }
    IN  IF found = {} THEN <<>> ELSE (CHOOSE p \in found : TRUE)[3]

\* Every file of "src" is written over the one in "old"; what is not written is
\* as it was.
Merged(src, old, new, written) ==
    /\ \A p \in Paths(src) : p[2] = "file" =>
         << p[1], "file", Overwrite(Bytes(old, p[1]), p[3]) >> \in Paths(new)
    /\ \A p \in Paths(old) : p \in Paths(new) \/ p[1] \in written
=============================================================================
