------------------------------ MODULE Database ------------------------------
(***************************************************************************)
(* foxdb: each run loads a database file, carries out one command on it    *)
(* and, if the command returns a database, writes that back.  Nothing      *)
(* keeps another run from doing the same in between.  The database itself  *)
(* is libfoxdb, which is not part of the repository.                       *)
(***************************************************************************)
EXTENDS Integers, Sequences
LOCAL INSTANCE Functions
LOCAL INSTANCE TLC

CONSTANTS
    Runs,       \* runs of foxdb, each with one command: numbered as they start
    Commands,   \* commands: records with a name and a key
    Databases   \* what the file may hold at first: functions from keys to values

VARIABLES
    first, file,    \* the file before the first run, and now
    replaces,       \* whether libfoxdb replaces a key that is inserted again
    at, cmd, db,    \* where each run is, its command, its database in memory
    since,          \* history: how many runs had saved when it loaded
    saved,          \* history: the runs in the order in which they saved
    work,           \* history: what each set of runs would have made of the first
                    \* database, one after the other in the order they saved
    spoilt          \* an undefined database was read or written: the model ends

foxdbVars == <<first, file, replaces, at, cmd, db, since, saved, work, spoilt>>

\* A value remembers who wrote it, and a text also who appended to it.
Value(type, r) == [type |-> type, by |-> <<r>>]
TypeOf(name) == IF name = "new_str" THEN "str" ELSE "other"

foxdb_new == [k \in {} |-> 0]
File(is, d) == [is |-> is, db |-> d]
Absent == File("absent", foxdb_new)
Empty == File("empty", foxdb_new)
Torn == File("torn", foxdb_new)
Holds(d) == File("db", d)

foxdb_insert(d, k, v) == IF k \in DOMAIN d /\ ~replaces THEN d ELSE (k :> v) @@ d
foxdb_remove(d, k) == Restrict(d, DOMAIN d \ {k})
foxdb_update(d, k, v) == [d EXCEPT ![k] = v]

\* get and keys return no database, nor does a command with the wrong number of
\* arguments or one that does not exist; help returns the one it was given.
Returns(c) == c.name \in {"help", "remove", "new_str", "new_int", "new_bool", "append"}
CanAppend(c, d) == c.key \in DOMAIN d /\ d[c.key].type = "str"
exec(c, r, d) ==
    CASE c.name = "remove" -> foxdb_remove(d, c.key)
      [] c.name \in {"new_str", "new_int", "new_bool"} ->
           foxdb_insert(d, c.key, Value(TypeOf(c.name), r))
      [] c.name = "append" /\ CanAppend(c, d) ->
           foxdb_update(d, c.key, [d[c.key] EXCEPT !.by = Append(@, r)])
      [] OTHER -> d

Go(r, to) == at' = [at EXCEPT ![r] = to]

FoxdbInit ==
    /\ first \in {Absent} \cup { Holds(d) : d \in Databases } /\ file = first /\ replaces \in BOOLEAN
    /\ at = [r \in Runs |-> "start"]
    /\ cmd = [r \in Runs |-> <<>>] /\ db = [r \in Runs |-> foxdb_new]
    /\ since = [r \in Runs |-> 0] /\ saved = <<>> /\ spoilt = FALSE
    /\ work = [runs \in SUBSET Runs |-> first.db]

\* A file that was never written, or is being written, is not a database.
Load(r) ==
    /\ at[r] = "start" /\ \A q \in Runs : q < r => at[q] # "start"
    /\ \E c \in Commands : cmd' = [cmd EXCEPT ![r] = c]
    /\ since' = [since EXCEPT ![r] = Len(saved)]
    /\ CASE file = Absent -> Go(r, "create") /\ UNCHANGED <<db, spoilt>>
         [] file \in {Empty, Torn} -> spoilt' = TRUE /\ UNCHANGED <<at, db>>
         [] OTHER -> db' = [db EXCEPT ![r] = file.db] /\ Go(r, "exec") /\ UNCHANGED spoilt
    /\ UNCHANGED <<first, file, replaces, saved, work>>

\* Mutant: the file is emptied whoever has made it.
CreateAnew(r) ==
    /\ at[r] = "create" /\ Go(r, "exec") /\ file' = Empty
    /\ UNCHANGED <<first, replaces, cmd, db, since, saved, work, spoilt>>

Create(r) ==
    /\ at[r] = "create" /\ Go(r, "exec")
    /\ file' = IF file = Absent THEN Empty ELSE file
    /\ UNCHANGED <<first, replaces, cmd, db, since, saved, work, spoilt>>

\* append reads through the null pointer it gets for a key without a text: a
\* fault, or a database that is undefined.
Execute(r) ==
    LET c == cmd[r]
        null == c.name = "append" /\ ~CanAppend(c, db[r])
    IN  /\ at[r] = "exec"
        /\ \/ null /\ Go(r, "ended") /\ UNCHANGED spoilt
           \/ null /\ Go(r, "save") /\ spoilt' = TRUE
           \/ ~null /\ Go(r, IF Returns(c) THEN "save" ELSE "ended") /\ UNCHANGED spoilt
        /\ db' = [db EXCEPT ![r] = exec(c, r, @)]
        /\ UNCHANGED <<first, file, replaces, cmd, since, saved, work>>

Save(r) ==
    /\ at[r] = "save" /\ Go(r, "write")
    /\ file' = Torn /\ spoilt' = (file = Torn)
    /\ UNCHANGED <<first, replaces, cmd, db, since, saved, work>>

Saved(r) ==
    /\ at[r] = "write" /\ Go(r, "ended")
    /\ file' = Holds(db[r]) /\ saved' = Append(saved, r)
    /\ work' = [runs \in SUBSET Runs |->
                   IF r \in runs THEN exec(cmd[r], r, work[runs]) ELSE work[runs]]
    /\ UNCHANGED <<first, replaces, cmd, db, since, spoilt>>

Kill(r) ==
    /\ at[r] \notin {"start", "ended"} /\ Go(r, "ended")
    /\ spoilt' = (at[r] = "write")
    /\ UNCHANGED <<first, file, replaces, cmd, db, since, saved, work>>

FoxdbNext ==
    /\ ~spoilt
    /\ \E r \in Runs : Load(r) \/ Create(r) \/ Execute(r) \/ Save(r) \/ Saved(r) \/ Kill(r)
FoxdbSpec == FoxdbInit /\ [][FoxdbNext]_foxdbVars

(***************************************************************************)
(* Properties                                                              *)
(***************************************************************************)
\* A run is overtaken by one that loaded before it saved and saves after it.
Overtaken(i) == \E j \in i + 1 .. Len(saved) : since[saved[j]] < i

\* What is in the file is the work of some runs, one after the other, and of
\* all that were not overtaken: help overtakes like any other command, one that
\* only reads does not, and a run that is killed before it writes leaves no
\* trace but an empty file where there was none.
LostOnlyIfOvertaken ==
    \/ spoilt
    \/ file = Torn /\ \E r \in Runs : at[r] = "write"
    \/ file \in {Absent, Empty} /\ saved = <<>> /\ first = Absent
    \/ \E runs \in SUBSET Runs :
          /\ { saved[i] : i \in { i \in DOMAIN saved : ~Overtaken(i) } } \subseteq runs
          /\ file = Holds(work[runs])
=============================================================================
