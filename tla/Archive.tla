------------------------------ MODULE Archive ------------------------------
(***************************************************************************)
(* saf_make writes a directory into one archive file, saf_extract writes it *)
(* back and the scanner of "file" counts it.  An archive is its size and,  *)
(* by offset, what lies there: a node (header and fields), or the bytes of  *)
(* a file.                                                                 *)
(*                                                                         *)
(* saf_make reads every directory many times, one entry per call: to       *)
(* estimate the size, to count the children, to write the nodes.  A world  *)
(* says what the directory is before and after its one change, and how     *)
(* many calls of the file system come before that.  A state s of saf_make   *)
(* is how it "end"s ("done" if not yet otherwise), the number of calls made *)
(* ("time"), the result "n" of childcnt, the "offsets" of a nodelist_t, and *)
(* curr_offset ("size"), alloc_size and the contents ("at") of adata.      *)
(***************************************************************************)
EXTENDS FileTree, FiniteSets, TLC
LOCAL INSTANCE SequencesExt

HeaderSize == 280           \* sizeof(saf_node_hdr_t)
FileNodeSize == 296         \* sizeof(saf_node_file_t)
FolderNodeSize == 288       \* sizeof(saf_node_folder_t), without children
OffsetSize == 8

\* saf_node_file_t and saf_node_folder_t in one record; "magic" is whether the
\* magic number is still there.
Node(name, folder, len, children, addr, size) ==
    [magic |-> TRUE, name |-> name, folder |-> folder, len |-> len,
     children |-> children, addr |-> addr, size |-> size]

World(before, after, when) == [before |-> before, after |-> after, when |-> when]
Tree(w, s) == IF s.time < w.when THEN w.before ELSE w.after

(***************************************************************************)
(* saf_make: its calls of the file system, each of them one tick.          *)
(***************************************************************************)
Going(s) == s.end = "done"
Tick(s) == [s EXCEPT !.time = @ + 1]
End(s, how) == IF Going(s) THEN [s EXCEPT !.end = how] ELSE s

NoEntry == [type |-> "none", name |-> "", bytes |-> <<>>, entries |-> <<>>]
dir_at(w, s, path, idx) ==
    LET entries == At(Tree(w, s), path) IN IF idx < Len(entries) THEN entries[idx + 1] ELSE NoEntry
resolve(w, s, path) == IF Going(s) /\ Exists(Tree(w, s), path) THEN Tick(s) ELSE End(s, "panic")

\* fopen and the size at its end; what it reads is what the file is then.
OpenFile(w, s, path) ==
    IF IsFile(Tree(w, s), path) THEN [bytes |-> Bytes(Tree(w, s), path), s |-> Tick(s)]
                                ELSE [bytes |-> <<>>, s |-> End(s, "panic")]

RECURSIVE CountFrom(_, _, _, _)
CountFrom(w, s, path, cnt) ==
    IF dir_at(w, s, path, cnt).type = "none" THEN [Tick(s) EXCEPT !.n = cnt]
                                             ELSE CountFrom(w, Tick(s), path, cnt + 1)
childcnt(w, s, path) ==
    LET found == resolve(w, s, path) IN IF Going(found) THEN CountFrom(w, found, path, 0) ELSE found

FolderExtent(n) == FolderNodeSize + n * OffsetSize

NodeSizeWithoutChildren(isDir, n) == IF isDir THEN FolderNodeSize ELSE FileNodeSize
NodeSize(isDir, n) == IF isDir THEN FolderExtent(n) ELSE FileNodeSize

\* A device keeps both loops at the same entry for ever.
Endless(s) == End(s, "endless")

AddSize(s, size) == [s EXCEPT !.size = @ + size]
SizeOfFolder(counted) == AddSize(counted, NodeSize(TRUE, counted.n))
SizeOfFile(file) == AddSize(file.s, NodeSize(FALSE, 0) + Len(file.bytes))

RECURSIVE SizeFrom(_, _, _, _)
RECURSIVE calculate_size(_, _, _)
calculate_size(w, s, path) == SizeFrom(w, resolve(w, childcnt(w, s, path), path), path, 0)
SizeFrom(w, s, path, idx) ==
    LET ent == dir_at(w, s, path, idx)
        sub == Append(path, ent.name)
    IN  CASE ~Going(s) -> s
          [] Going(s) /\ ent.type = "none" -> Tick(s)
          [] Going(s) /\ ent.type = "device" -> Endless(s)
          [] Going(s) /\ ent.type = "dir" ->
                SizeFrom(w, calculate_size(w, SizeOfFolder(childcnt(w, Tick(s), sub)), sub), path, idx + 1)
          [] Going(s) /\ ent.type = "file" ->
                SizeFrom(w, SizeOfFile(OpenFile(w, Tick(s), sub)), path, idx + 1)

inc_offset(s, d) ==
    LET grown == [s EXCEPT !.size = @ + d]
    IN  IF grown.size > s.alloc THEN End(grown, "panic") ELSE grown

Store(s, at, what) == IF ~Going(s) \/ what = <<>> THEN s ELSE [s EXCEPT !.at = (at :> what) @@ @]

\* The header is cleared and filled before inc_offset looks at the room.
PutHeader(s) == IF s.size + HeaderSize > s.alloc THEN End(s, "overrun") ELSE s

\* The offsets of more children than the node was made for are written over the
\* header behind the node, which is that of its first child.
PutFolder(s, here, name, len) ==
    LET node == Node(name, TRUE, len, s.offsets, 0, 0)
        put == Store(s, here, node)
    IN  IF ~Going(s) \/ FolderExtent(Len(s.offsets)) <= len THEN put
        ELSE [put EXCEPT !.at[here + len].magic = FALSE]

\* The contents of a file follow its node at "at".
PutFile(s, file, at, name, len) ==
    Store(Store(inc_offset(file.s, Len(file.bytes)), s.size, file.bytes), at,
          Node(name, FALSE, len, <<>>, s.size, Len(file.bytes)))

\* The entries from idx on; the list was given the room of the first count.
RECURSIVE NodesFrom(_, _, _, _, _)
RECURSIVE make_node(_, _, _)
make_node(w, s, path) ==
    LET counted == childcnt(w, s, path)
    IN  NodesFrom(w, [resolve(w, counted, path) EXCEPT !.offsets = <<>>], path, 0, counted.n)
\* The node of an entry, once its header is written, and what belongs to it.
Fill(w, s, sub, ent, at, len) ==
    CASE ~Going(s) -> s
      [] Going(s) /\ ent.type = "dir" -> PutFolder(make_node(w, s, sub), at, ent.name, len)
      [] Going(s) /\ ent.type = "file" -> PutFile(s, OpenFile(w, s, sub), at, ent.name, len)
Extend(w, s, sub, ent, at) ==
    LET len == NodeSize(ent.type = "dir", s.n) IN Fill(w, inc_offset(s, len), sub, ent, at, len)
Add(w, s, sub, ent, at) ==
    Extend(w, IF ent.type = "dir" /\ Going(s) THEN childcnt(w, s, sub) ELSE s, sub, ent, at)
NodesFrom(w, s, path, idx, room) ==
    LET ent == dir_at(w, s, path, idx)
        headed == IF Len(s.offsets) = room THEN End(s, "overrun") ELSE PutHeader(Tick(s))
    IN  CASE ~Going(s) -> s
          [] Going(s) /\ ent.type = "none" -> Tick(s)
          [] Going(s) /\ ent.type = "device" -> Endless(s)
          [] Going(s) /\ ent.type \in {"dir", "file"} ->
                NodesFrom(w, [Add(w, headed, Append(path, ent.name), ent, s.size)
                                 EXCEPT !.offsets = Append(s.offsets, s.size)],
                          path, idx + 1, room)

\* main: the estimate, and the archive made with it.
Allocate(counted) == [counted EXCEPT !.alloc = counted.size + NodeSize(TRUE, counted.n), !.size = 0]
Estimate(w) ==
    LET start == [end |-> "done", time |-> 0, n |-> 0, offsets |-> <<>>,
                  size |-> 0, alloc |-> 0, at |-> <<>>]
    IN  Allocate(childcnt(w, calculate_size(w, start, <<>>), <<>>))
PutRoot(w, counted) ==
    LET len == NodeSize(TRUE, counted.n)
    IN  IF Going(counted) THEN PutFolder(make_node(w, inc_offset(counted, len), <<>>), 0, "", len)
        ELSE counted
Make(w) == PutRoot(w, childcnt(w, Estimate(w), <<>>))

(***************************************************************************)
(* saf_extract, and the scanner                                            *)
(***************************************************************************)
RECURSIVE parsenode(_, _)
parsenode(image, offset) ==
    LET node == image.at[offset]
    IN  IF node.folder
        THEN Dir(node.name, [i \in DOMAIN node.children |-> parsenode(image, node.children[i])])
        ELSE File(node.name, IF node.size = 0 THEN <<>>
                             ELSE SubSeq(image.at[node.addr], 1, node.size))

RECURSIVE get_saf_files_and_dirs(_, _)
get_saf_files_and_dirs(image, offset) ==
    LET node == image.at[offset]
        sub(i) == get_saf_files_and_dirs(image, node.children[i])
        Sum(part(_)) == FoldLeft(LAMBDA sum, i : sum + part(i), 0,
                                 [i \in DOMAIN node.children |-> i])
    IN  IF node.folder
        THEN [files |-> Sum(LAMBDA i : sub(i).files), dirs |-> 1 + Sum(LAMBDA i : sub(i).dirs)]
        ELSE [files |-> 1, dirs |-> 0]

\* saf_extract stops at the first node without its magic number.
RECURSIVE Offsets(_, _)
Offsets(image, offset) ==
    {offset} \cup UNION { Offsets(image, c) : c \in Range(image.at[offset].children) }
Extracts(image) == \A n \in Offsets(image, 0) : image.at[n].magic

(***************************************************************************)
(* Properties                                                              *)
(***************************************************************************)
CountOf(type, entries) == Cardinality({ p \in Paths(entries) : p[2] = type })
DirPaths(entries) == {<<>>} \cup { p[1] : p \in { q \in Paths(entries) : q[2] = "dir" } }

\* Something is there that was not, or is larger than it was.
Grew(w) ==
    \/ \E p \in DirPaths(w.after) :
          p \notin DirPaths(w.before) \/ Len(At(w.after, p)) > Len(At(w.before, p))
    \/ \E p \in Paths(w.after) :
          p[2] # "dir" /\ ~\E q \in Paths(w.before) :
                              q[1] = p[1] /\ q[2] = p[2] /\ Len(q[3]) >= Len(p[3])

\* An entry stands further back in its directory than before (or further on, the
\* other way round): the loops may find it twice (or miss it).
MovedBack(before, after) ==
    \E p \in DirPaths(before) \cap DirPaths(after) :
        \E i \in DOMAIN At(before, p), j \in DOMAIN At(after, p) :
            i < j /\ At(before, p)[i].name = At(after, p)[j].name

Unchanged(w) == w.before = w.after
BetweenEstimateAndNodes(w) == w.when = Estimate(World(w.before, w.before, 0)).time

\* The bytes a piece of the archive takes: a node, or the contents of a file.
Extent(piece, isNode) ==
    IF ~isNode THEN Len(piece)
    ELSE IF piece.folder THEN FolderExtent(Len(piece.children)) ELSE FileNodeSize

\* The pieces of an archive that is written lie side by side within the size the
\* file gets.  It holds only what was in the directory before or after, each
\* once if no entry moved back, and all that was there before and after if none
\* moved on.  If nothing changed, or it changed between the estimate and the
\* nodes, it holds just what the directory is then.
HoldsTheDirectory(w, image) ==
    LET nodes == Offsets(image, 0)
        held == parsenode(image, 0).entries
        counted == get_saf_files_and_dirs(image, 0)
    IN  /\ \A m, n \in DOMAIN image.at : m < n => m + Extent(image.at[m], m \in nodes) <= n
        /\ \A n \in DOMAIN image.at : n + Extent(image.at[n], n \in nodes) <= image.size
        /\ MovedBack(w.before, w.after) \/
             counted = [files |-> CountOf("file", held), dirs |-> 1 + CountOf("dir", held)]
        /\ Paths(held) \subseteq Paths(w.before) \cup Paths(w.after)
        /\ MovedBack(w.after, w.before) \/
             Paths(w.before) \cap Paths(w.after) \subseteq Paths(held)
        /\ Unchanged(w) \/ BetweenEstimateAndNodes(w) => held = w.after

\* Whenever the directory changes: what saf_make writes holds the directory and
\* can be extracted, unless something in it grew or moved; only then does saf_make write
\* outside its block, or the children of a node over the next one.  It runs for
\* ever only on a device.  If nothing changes, it comes to its end, and the
\* estimate was exact.
IsExact(w, image) ==
    /\ image.end = "done" /\ Extracts(image) => HoldsTheDirectory(w, image)
    /\ image.end = "overrun" \/ (image.end = "done" /\ ~Extracts(image)) =>
         Grew(w) \/ MovedBack(w.before, w.after) \/ MovedBack(w.after, w.before)
    /\ image.end = "endless" => HasType("device", w.before) \/ HasType("device", w.after)
    /\ Unchanged(w) /\ ~HasType("device", w.before) =>
         image.end = "done" /\ image.size = image.alloc
ArchiveExact(w) == IsExact(w, Make(w))
=============================================================================
