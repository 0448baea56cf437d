-------------------------- MODULE ProcessesProofs --------------------------
(***************************************************************************)
(* What several programs at once do to one thing: the database file of     *)
(* foxdb, and the console of the desktop.                                  *)
(***************************************************************************)
EXTENDS Database, Console, SequenceTheorems, TLAPS

(***************************************************************************)
(* Runs of foxdb on one file: what is lost, and why nothing else.  The     *)
(* databases themselves do not matter, nor what libfoxdb does to them: a   *)
(* run that has loaded holds the work of a set of runs, which no later     *)
(* save changes any more.                                                  *)
(***************************************************************************)
Places == {"start", "create", "exec", "save", "write", "ended"}
Before(n) == { saved[i] : i \in 1 .. n }
Kept(n) == { saved[i] : i \in { i \in 1 .. n : ~Overtaken(i) } }
Did(r, S) == exec(cmd[r], r, work[S])

\* S is what run r has seen when it loaded: runs that had saved, and all of
\* them that nobody overtook.
Basis(r, S) == S \subseteq Before(since[r]) /\ Kept(since[r]) \subseteq S

FoxdbTypes ==
    /\ at \in [Runs -> Places] /\ since \in [Runs -> Nat] /\ saved \in Seq(Runs)
    /\ cmd = [r \in Runs |-> cmd[r]] /\ db = [r \in Runs |-> db[r]] /\ DOMAIN work = SUBSET Runs
    /\ work[{}] = first.db

SavedOnce ==
    /\ \A i \in 1 .. Len(saved) : at[saved[i]] = "ended"
    /\ \A i, j \in 1 .. Len(saved) : saved[i] = saved[j] => i = j
    /\ \A r \in Runs : since[r] <= Len(saved)

\* The work of a set of runs is the work of those of them that have saved.
WorkOfSaved == \A S \in SUBSET Runs : work[S] = work[S \cap Before(Len(saved))]

LoadedAt(r) ==
    /\ at[r] = "start" => db[r] = foxdb_new
    /\ at[r] \in {"create", "exec"} => \E S \in SUBSET Runs : Basis(r, S) /\ db[r] = work[S]
    /\ at[r] \in {"save", "write"} => \E S \in SUBSET Runs : Basis(r, S) /\ db[r] = Did(r, S)

OneWriter ==
    /\ \A r \in Runs : at[r] = "write" => file = Torn
    /\ \A q, r \in Runs : at[q] = "write" /\ at[r] = "write" => q = r

FileIs ==
    \/ file = Torn /\ \E r \in Runs : at[r] = "write"
    \/ file \in {Absent, Empty} /\ saved = <<>> /\ first = Absent
    \/ \E S \in SUBSET Runs : Kept(Len(saved)) \subseteq S /\ file = Holds(work[S])

Sound == FoxdbTypes /\ SavedOnce /\ WorkOfSaved /\ (\A r \in Runs : LoadedAt(r)) /\ OneWriter /\ FileIs
DInv == spoilt \/ Sound

(***************************************************************************)
(* Lemmas                                                                  *)
(***************************************************************************)
LEMMA KeptIs == ASSUME saved \in Seq(Runs)
    PROVE Kept(Len(saved)) = { saved[i] : i \in { i \in DOMAIN saved : ~Overtaken(i) } }
<1>1. DOMAIN saved = 1 .. Len(saved)
  BY LenProperties
<1> QED BY <1>1 DEF Kept

LEMMA DidSame ==
    ASSUME NEW r, NEW S, cmd'[r] = cmd[r], work'[S] = work[S], replaces' = replaces
    PROVE  Did(r, S)' = Did(r, S)
BY DEF Did, exec, foxdb_insert, foxdb_remove, foxdb_update, CanAppend, Value, TypeOf

\* A further save, or a load, overtakes more runs and frees none.
LEMMA OvertakenStays ==
    ASSUME saved \in Seq(Runs), NEW r \in Runs, saved' \in {saved, Append(saved, r)},
           \A i \in 1 .. Len(saved) : since'[saved[i]] = since[saved[i]]
    PROVE  /\ saved' \in Seq(Runs) /\ Len(saved') \in Nat /\ Len(saved) <= Len(saved')
           /\ \A i \in 1 .. Len(saved) : saved'[i] = saved[i] /\ (Overtaken(i) => Overtaken(i)')
<1>1. /\ saved' \in Seq(Runs) /\ Len(saved) \in Nat /\ Len(saved') \in Nat /\ Len(saved) <= Len(saved')
      /\ \A i \in 1 .. Len(saved) : saved'[i] = saved[i]
  <2>1. CASE saved' = saved
    BY <2>1, LenProperties
  <2>2. CASE saved' = Append(saved, r)
    BY <2>2, LenProperties, AppendProperties
  <2> QED BY <2>1, <2>2
<1>2. ASSUME NEW i \in 1 .. Len(saved), Overtaken(i) PROVE Overtaken(i)'
  <2>1. PICK j \in i + 1 .. Len(saved) : since[saved[j]] < i
    BY <1>2 DEF Overtaken
  <2>2. j \in i + 1 .. Len(saved') /\ j \in 1 .. Len(saved)
    BY <1>1
  <2>3. since'[saved'[j]] < i
    BY <1>1, <2>1, <2>2
  <2> QED BY <2>2, <2>3 DEF Overtaken
<1> QED BY <1>1, <1>2

LEMMA KeptStays ==
    ASSUME saved \in Seq(Runs), NEW r \in Runs, saved' \in {saved, Append(saved, r)},
           \A i \in 1 .. Len(saved) : since'[saved[i]] = since[saved[i]],
           NEW n \in Nat, n <= Len(saved)
    PROVE  Before(n)' = Before(n) /\ Kept(n)' \subseteq Kept(n)
<1>1. Len(saved) \in Nat /\ 1 .. n \subseteq 1 .. Len(saved)
  BY LenProperties
<1>2. \A i \in 1 .. n : saved'[i] = saved[i] /\ (Overtaken(i) => Overtaken(i)')
  BY <1>1, OvertakenStays
<1>3. Before(n)' = Before(n)
  BY <1>2 DEF Before
<1>4. Kept(n)' = { saved'[i] : i \in { i \in 1 .. n : ~Overtaken(i)' } }
  BY DEF Kept
<1>5. Kept(n)' \subseteq Kept(n)
  <2> SUFFICES ASSUME NEW x \in Kept(n)' PROVE x \in Kept(n)
    OBVIOUS
  <2>1. PICK i \in 1 .. n : x = saved'[i] /\ ~Overtaken(i)'
    BY <1>4
  <2>2. x = saved[i] /\ ~Overtaken(i)
    BY <1>2, <2>1
  <2> QED BY <2>2 DEF Kept
<1> QED BY <1>3, <1>5

\* What a run has loaded stays what it was while others go on.
LEMMA OthersStay ==
    ASSUME Sound, NEW r \in Runs, saved' \in {saved, Append(saved, r)}, replaces' = replaces,
           \A i \in 1 .. Len(saved) : since'[saved[i]] = since[saved[i]],
           \A S \in SUBSET Runs : r \notin S \/ saved' = saved => work'[S] = work[S],
           at[r] # "ended",
           NEW q \in Runs, at'[q] = at[q], cmd'[q] = cmd[q], db'[q] = db[q], since'[q] = since[q]
    PROVE  LoadedAt(q)'
<1>1. /\ saved \in Seq(Runs) /\ since[q] \in Nat /\ since[q] <= Len(saved) /\ LoadedAt(q)
  BY DEF Sound, FoxdbTypes, SavedOnce
<1>2. ASSUME NEW S \in SUBSET Runs, Basis(q, S) PROVE Basis(q, S)' /\ work'[S] = work[S]
  <2>1. Before(since[q])' = Before(since[q]) /\ Kept(since[q])' \subseteq Kept(since[q])
    <3> DEFINE n == since[q]
    <3> HIDE DEF n
    <3>1. Before(n)' = Before(n) /\ Kept(n)' \subseteq Kept(n)
      BY <1>1, KeptStays DEF n
    <3> QED BY <3>1 DEF n, Before, Kept
  <2>2. r \notin S
    <3>1. r \notin Before(since[q])
      BY <1>1, LenProperties DEF Sound, SavedOnce, Before
    <3> QED BY <1>2, <3>1 DEF Basis
  <2>3. Basis(q, S)'
    BY <1>2, <2>1 DEF Basis
  <2> QED BY <2>2, <2>3
<1>3. ASSUME NEW S \in SUBSET Runs, Basis(q, S) PROVE Did(q, S)' = Did(q, S)
  BY <1>2, <1>3, DidSame
<1>4. at[q] = "start" => db'[q] = foxdb_new'
  BY <1>1 DEF LoadedAt, foxdb_new
<1>5. at[q] \in {"create", "exec"} => \E S \in SUBSET Runs : Basis(q, S)' /\ db'[q] = work'[S]
  BY <1>1, <1>2 DEF LoadedAt
<1>6. at[q] \in {"save", "write"} => \E S \in SUBSET Runs : Basis(q, S)' /\ db'[q] = Did(q, S)'
  BY <1>1, <1>2, <1>3 DEF LoadedAt
<1> QED BY <1>4, <1>5, <1>6 DEF LoadedAt

\* Nothing saved: the file and the history of saves stay what they are.
LEMMA QuietFile ==
    ASSUME Sound, saved' = saved, since \in [Runs -> Nat], work' = work, first' = first,
           \A i \in 1 .. Len(saved) : since'[saved[i]] = since[saved[i]],
           NEW r \in Runs
    PROVE  /\ Kept(Len(saved))' = Kept(Len(saved)) /\ Before(Len(saved))' = Before(Len(saved))
           /\ WorkOfSaved'
           /\ \A S \in SUBSET Runs : Kept(Len(saved)) \subseteq S /\ file' = Holds(work[S]) => FileIs'
<1>1. saved \in Seq(Runs) /\ Len(saved) \in Nat
  BY LenProperties DEF Sound, FoxdbTypes
<1>3. \A i \in 1 .. Len(saved) : Overtaken(i)' = Overtaken(i)
  <2> TAKE i \in 1 .. Len(saved)
  <2>1. \A j \in i + 1 .. Len(saved) : since'[saved'[j]] = since[saved[j]]
    BY <1>1
  <2> QED BY <2>1 DEF Overtaken
<1>4. Kept(Len(saved))' = Kept(Len(saved))
  BY <1>3 DEF Kept
<1>5. Before(Len(saved))' = Before(Len(saved))
  BY DEF Before
<1>6. WorkOfSaved'
  BY <1>5 DEF Sound, WorkOfSaved
<1>7. ASSUME NEW S \in SUBSET Runs, Kept(Len(saved)) \subseteq S, file' = Holds(work[S])
      PROVE  FileIs'
  BY <1>4, <1>7 DEF FileIs, Holds, File
<1> QED BY <1>4, <1>5, <1>6, <1>7
\* Every step but the last of a save changes only its own run, and the file.
LEMMA QuietStep ==
    ASSUME Sound, NEW r \in Runs, at[r] # "ended", UNCHANGED <<saved, work, first, replaces>>,
           NEW place \in Places, at' = [at EXCEPT ![r] = place],
           NEW c, cmd' = [cmd EXCEPT ![r] = c], NEW d, db' = [db EXCEPT ![r] = d],
           NEW n \in {since[r], Len(saved)}, since' = [since EXCEPT ![r] = n],
           LoadedAt(r)'
    PROVE  /\ FoxdbTypes' /\ SavedOnce' /\ WorkOfSaved' /\ (\A q \in Runs : LoadedAt(q)')
           /\ \A i \in 1 .. Len(saved) : since'[saved[i]] = since[saved[i]]
<1>1. FoxdbTypes /\ SavedOnce /\ Len(saved) \in Nat
  BY LenProperties DEF Sound, FoxdbTypes
<1>2. FoxdbTypes'
  BY <1>1 DEF FoxdbTypes
<1>3. \A i \in 1 .. Len(saved) : saved[i] \in Runs /\ saved[i] # r
  BY <1>1, ElementOfSeq DEF FoxdbTypes, SavedOnce
<1>4. \A i \in 1 .. Len(saved) : since'[saved[i]] = since[saved[i]] /\ at'[saved[i]] = at[saved[i]]
  BY <1>1, <1>3 DEF FoxdbTypes
<1>5. SavedOnce'
  <2>1. \A q \in Runs : since'[q] <= Len(saved)
    BY <1>1 DEF FoxdbTypes, SavedOnce
  <2> QED BY <1>1, <1>4, <2>1 DEF SavedOnce
<1>6. WorkOfSaved'
  BY <1>1, <1>4, QuietFile DEF FoxdbTypes
<1>7. ASSUME NEW q \in Runs, q # r PROVE LoadedAt(q)'
  <2>1. at'[q] = at[q] /\ cmd'[q] = cmd[q] /\ db'[q] = db[q] /\ since'[q] = since[q]
    BY <1>1, <1>7 DEF FoxdbTypes
  <2>2. saved' \in {saved, Append(saved, r)} /\ \A S \in SUBSET Runs : work'[S] = work[S]
    OBVIOUS
  <2> QED BY <1>4, <2>1, <2>2, OthersStay
<1> QED BY <1>2, <1>4, <1>5, <1>6, <1>7

LEMMA FileStays ==
    ASSUME Sound, UNCHANGED <<file, saved, work, first>>,
           \A i \in 1 .. Len(saved) : since'[saved[i]] = since[saved[i]],
           NEW r \in Runs, NEW place, at' = [at EXCEPT ![r] = place], at[r] # "write",
           place # "write"
    PROVE  FileIs' /\ OneWriter'
<1>1. FoxdbTypes /\ OneWriter /\ FileIs
  BY DEF Sound
<1>2. \A q \in Runs : at'[q] = "write" <=> at[q] = "write"
  BY <1>1 DEF FoxdbTypes
<1>3. OneWriter'
  BY <1>1, <1>2 DEF OneWriter, Torn, File, foxdb_new
<1>4. CASE file = Torn /\ \E q \in Runs : at[q] = "write"
  BY <1>2, <1>3, <1>4 DEF FileIs, Torn, File, foxdb_new
<1>5. CASE file \in {Absent, Empty} /\ saved = <<>> /\ first = Absent
  BY <1>3, <1>5 DEF FileIs, Absent, Empty, File, foxdb_new
<1>6. CASE \E S \in SUBSET Runs : Kept(Len(saved)) \subseteq S /\ file = Holds(work[S])
  <2>1. since \in [Runs -> Nat]
    BY <1>1 DEF FoxdbTypes
  <2> QED BY <1>3, <1>6, <2>1, QuietFile
<1> QED BY <1>1, <1>3, <1>4, <1>5, <1>6 DEF FileIs

LEMMA FilesDiffer ==
    ASSUME NEW d
    PROVE  /\ Holds(d) \notin {Absent, Empty, Torn} /\ Absent \notin {Empty, Torn}
           /\ Holds(d).db = d /\ Absent.db = foxdb_new
BY DEF Holds, Absent, Empty, Torn, File

(***************************************************************************)
(* The steps                                                               *)
(***************************************************************************)
LEMMA LoadStep == ASSUME Sound, NEW r \in Runs, Load(r) PROVE DInv'
<1>1. FoxdbTypes /\ LoadedAt(r) /\ FileIs /\ Len(saved) \in Nat
  BY LenProperties DEF Sound, FoxdbTypes
<1>2. PICK c \in Commands : cmd' = [cmd EXCEPT ![r] = c]
  BY DEF Load
<1>3. /\ since' = [since EXCEPT ![r] = Len(saved)] /\ since'[r] = Len(saved)
      /\ UNCHANGED <<file, saved, work, first, replaces>> /\ at[r] = "start"
  BY <1>1 DEF Load, FoxdbTypes
<1>4. \A i \in 1 .. Len(saved) : since'[saved[i]] = since[saved[i]]
  BY <1>1, <1>3, ElementOfSeq DEF Sound, FoxdbTypes, SavedOnce
<1>5. Before(Len(saved))' = Before(Len(saved)) /\ Kept(Len(saved))' = Kept(Len(saved))
  BY <1>1, <1>3, <1>4, QuietFile DEF FoxdbTypes
<1>6. ASSUME NEW S \in SUBSET Runs, Kept(Len(saved)) \subseteq S
      PROVE  \E T \in SUBSET Runs : Basis(r, T)' /\ work'[T] = work[S]
  <2>1. PICK T \in SUBSET Runs : T = S \cap Before(Len(saved))
    OBVIOUS
  <2>2. Kept(Len(saved)) \subseteq Before(Len(saved))
    BY DEF Kept, Before
  <2>3. Before(since[r])' = Before(Len(saved)) /\ Kept(since[r])' = Kept(Len(saved))
    BY <1>3, <1>5 DEF Before, Kept
  <2>4. Basis(r, T)'
    BY <1>6, <2>1, <2>2, <2>3 DEF Basis
  <2>5. work[T] = work[S]
    BY <2>1 DEF Sound, WorkOfSaved
  <2> QED BY <1>3, <2>4, <2>5
<1>7. CASE file = Absent
  <2>1. at' = [at EXCEPT ![r] = "create"] /\ at'[r] = "create" /\ db' = [db EXCEPT ![r] = db[r]]
    <3>1. at' = [at EXCEPT ![r] = "create"] /\ db' = db
      BY <1>7, FilesDiffer DEF Load, Go
    <3>2. at'[r] = "create"
      BY <1>1, <3>1 DEF FoxdbTypes
    <3>3. db = [db EXCEPT ![r] = db[r]]
      BY <1>1 DEF FoxdbTypes
    <3> QED BY <3>1, <3>2, <3>3
  <2>2. saved = <<>> /\ first = Absent
    BY <1>1, <1>7, FilesDiffer DEF FileIs
  <2>3. db'[r] = foxdb_new /\ work[{}] = foxdb_new
    BY <1>1, <1>3, <2>1, <2>2, FilesDiffer DEF LoadedAt, FoxdbTypes
  <2>4. Kept(Len(saved)) \subseteq {}
    BY <2>2 DEF Kept
  <2>5. \E T \in SUBSET Runs : Basis(r, T)' /\ work'[T] = work[{}]
    BY <1>6, <2>4
  <2>6. LoadedAt(r)'
    BY <2>1, <2>3, <2>5 DEF LoadedAt
  <2>7. "create" \in Places
    BY DEF Places
  <2>8. FoxdbTypes' /\ SavedOnce' /\ WorkOfSaved' /\ (\A q \in Runs : LoadedAt(q)')
    BY <1>2, <1>3, <2>1, <2>6, <2>7, QuietStep
  <2>9. FileIs' /\ OneWriter'
    BY <1>3, <1>4, <2>1, FileStays
  <2> QED BY <2>8, <2>9 DEF DInv, Sound
<1>8. CASE file \in {Empty, Torn}
  <2>1. spoilt'
    BY <1>8, FilesDiffer DEF Load, Empty, Absent, Torn, File
  <2> QED BY <2>1 DEF DInv
<1>9. CASE file \notin {Absent, Empty, Torn}
  <2>1. /\ at' = [at EXCEPT ![r] = "exec"] /\ at'[r] = "exec"
        /\ db' = [db EXCEPT ![r] = file.db] /\ db'[r] = file.db
    BY <1>1, <1>9 DEF Load, Go, FoxdbTypes
  <2>2. PICK S \in SUBSET Runs : Kept(Len(saved)) \subseteq S /\ file = Holds(work[S])
    BY <1>1, <1>9 DEF FileIs
  <2>3. \E T \in SUBSET Runs : Basis(r, T)' /\ db'[r] = work'[T]
    BY <1>6, <2>1, <2>2, FilesDiffer
  <2>4. LoadedAt(r)'
    BY <2>1, <2>3 DEF LoadedAt
  <2>5. "exec" \in Places
    BY DEF Places
  <2>6. FoxdbTypes' /\ SavedOnce' /\ WorkOfSaved' /\ (\A q \in Runs : LoadedAt(q)')
    BY <1>2, <1>3, <2>1, <2>4, <2>5, QuietStep
  <2>7. FileIs' /\ OneWriter'
    BY <1>3, <1>4, <2>1, FileStays
  <2> QED BY <2>6, <2>7 DEF DInv, Sound
<1> QED BY <1>7, <1>8, <1>9
\* What the run that moves has loaded stays what it was, too.
LEMMA BasisStays ==
    ASSUME Sound, NEW r \in Runs, UNCHANGED <<since, saved>>, NEW S \in SUBSET Runs, Basis(r, S)
    PROVE  Basis(r, S)'
<1>1. since[r] \in Nat /\ since[r] <= Len(saved) /\ saved \in Seq(Runs)
  BY DEF Sound, FoxdbTypes, SavedOnce
<1>2. Before(since[r])' = Before(since[r]) /\ Kept(since[r])' \subseteq Kept(since[r])
  <2> DEFINE n == since[r]
  <2> HIDE DEF n
  <2>1. Before(n)' = Before(n) /\ Kept(n)' \subseteq Kept(n)
    BY <1>1, KeptStays DEF n
  <2> QED BY <2>1 DEF n, Before, Kept
<1> QED BY <1>2 DEF Basis

LEMMA CreateStep == ASSUME Sound, NEW r \in Runs, Create(r) PROVE DInv'
<1>1. /\ FoxdbTypes /\ LoadedAt(r) /\ FileIs /\ OneWriter /\ saved \in Seq(Runs)
      /\ \A i \in 1 .. Len(saved) : since'[saved[i]] = since[saved[i]]
  BY DEF Sound, FoxdbTypes, Create
<1>2. /\ at' = [at EXCEPT ![r] = "exec"] /\ at'[r] = "exec" /\ at[r] = "create"
      /\ UNCHANGED <<first, replaces, cmd, db, since, saved, work>>
  BY <1>1 DEF Create, Go, FoxdbTypes
<1>3. /\ cmd' = [cmd EXCEPT ![r] = cmd[r]] /\ db' = [db EXCEPT ![r] = db[r]]
      /\ since' = [since EXCEPT ![r] = since[r]]
  BY <1>1, <1>2 DEF FoxdbTypes
<1>4. LoadedAt(r)'
  <2>1. PICK S \in SUBSET Runs : Basis(r, S) /\ db[r] = work[S]
    BY <1>1, <1>2 DEF LoadedAt
  <2>2. Basis(r, S)'
    BY <1>2, <2>1, BasisStays
  <2> QED BY <1>2, <2>1, <2>2 DEF LoadedAt
<1>5. FoxdbTypes' /\ SavedOnce' /\ WorkOfSaved' /\ (\A q \in Runs : LoadedAt(q)')
  <2>1. "exec" \in Places
    BY DEF Places
  <2> QED BY <1>2, <1>3, <1>4, <2>1, QuietStep
<1>6. CASE file = Absent
  <2>1. file' = Empty /\ saved = <<>> /\ first = Absent
    BY <1>1, <1>6, FilesDiffer DEF Create, FileIs
  <2>2. FileIs'
    BY <1>2, <2>1 DEF FileIs, Absent, Empty, File, foxdb_new
  <2>3. OneWriter'
    BY <1>1, <1>2, <1>6, FilesDiffer DEF OneWriter, FoxdbTypes
  <2> QED BY <1>5, <2>2, <2>3 DEF DInv, Sound
<1>7. CASE file # Absent
  <2>1. file' = file
    BY <1>7 DEF Create
  <2>2. FileIs' /\ OneWriter'
    BY <1>1, <1>2, <2>1, FileStays
  <2> QED BY <1>5, <2>2 DEF DInv, Sound
<1> QED BY <1>6, <1>7

LEMMA ExecuteStep == ASSUME Sound, NEW r \in Runs, Execute(r) PROVE DInv'
<1> DEFINE null == cmd[r].name = "append" /\ ~CanAppend(cmd[r], db[r])
<1>1. CASE spoilt'
  BY <1>1 DEF DInv
<1>2. CASE ~spoilt'
  <2>1. /\ FoxdbTypes /\ LoadedAt(r) /\ OneWriter /\ saved \in Seq(Runs) /\ at[r] = "exec"
        /\ UNCHANGED <<first, file, replaces, cmd, since, saved, work>>
        /\ \A i \in 1 .. Len(saved) : since'[saved[i]] = since[saved[i]]
    BY DEF Sound, FoxdbTypes, Execute
  <2>2. PICK place \in {"save", "ended"} : at' = [at EXCEPT ![r] = place]
    BY <1>2 DEF Execute, Go
  <2>3. at'[r] = place
    BY <2>1, <2>2 DEF FoxdbTypes
  <2>4. PICK d : d = exec(cmd[r], r, db[r])
    OBVIOUS
  <2>5. db' = [db EXCEPT ![r] = d] /\ db'[r] = d
    BY <2>1, <2>4 DEF Execute, FoxdbTypes
  <2>6. /\ cmd' = [cmd EXCEPT ![r] = cmd[r]] /\ since' = [since EXCEPT ![r] = since[r]]
    BY <2>1 DEF FoxdbTypes
  <2>7. LoadedAt(r)'
    <3>1. PICK S \in SUBSET Runs : Basis(r, S) /\ db[r] = work[S]
      BY <2>1 DEF LoadedAt
    <3>2. Basis(r, S)'
      BY <2>1, <3>1, BasisStays
    <3>3. d = Did(r, S)
      BY <2>4, <3>1 DEF Did
    <3>4. Did(r, S)' = Did(r, S)
      BY <2>1, DidSame
    <3> QED BY <2>3, <2>5, <3>2, <3>3, <3>4 DEF LoadedAt
  <2>8. FoxdbTypes' /\ SavedOnce' /\ WorkOfSaved' /\ (\A q \in Runs : LoadedAt(q)')
    <3>1. place \in Places
      BY DEF Places
    <3> QED BY <2>1, <2>2, <2>5, <2>6, <2>7, <3>1, QuietStep
  <2>9. FileIs' /\ OneWriter'
    BY <2>1, <2>2, FileStays
  <2> QED BY <2>8, <2>9 DEF DInv, Sound
<1> QED BY <1>1, <1>2

LEMMA SaveStep == ASSUME Sound, NEW r \in Runs, Save(r) PROVE DInv'
<1>1. CASE file = Torn
  BY <1>1 DEF Save, DInv
<1>2. CASE file # Torn
  <2>1. /\ FoxdbTypes /\ LoadedAt(r) /\ OneWriter /\ at[r] = "save" /\ at' = [at EXCEPT ![r] = "write"]
        /\ file' = Torn /\ UNCHANGED <<first, replaces, cmd, db, since, saved, work>>
    BY DEF Sound, Save, Go
  <2>2. at'[r] = "write" /\ \A q \in Runs : q # r => at'[q] # "write"
    BY <1>2, <2>1 DEF FoxdbTypes, OneWriter
  <2>3. /\ cmd' = [cmd EXCEPT ![r] = cmd[r]] /\ since' = [since EXCEPT ![r] = since[r]]
        /\ db' = [db EXCEPT ![r] = db[r]]
    BY <2>1 DEF FoxdbTypes
  <2>4. LoadedAt(r)'
    <3>1. PICK S \in SUBSET Runs : Basis(r, S) /\ db[r] = Did(r, S)
      BY <2>1 DEF LoadedAt
    <3>2. Basis(r, S)'
      BY <2>1, <3>1, BasisStays
    <3>3. Did(r, S)' = Did(r, S)
      BY <2>1, DidSame
    <3> QED BY <2>1, <2>2, <3>1, <3>2, <3>3 DEF LoadedAt
  <2>5. FoxdbTypes' /\ SavedOnce' /\ WorkOfSaved' /\ (\A q \in Runs : LoadedAt(q)')
    <3>1. "write" \in Places
      BY DEF Places
    <3> QED BY <2>1, <2>3, <2>4, <3>1, QuietStep
  <2>6. OneWriter' /\ FileIs'
    BY <2>1, <2>2 DEF OneWriter, FileIs, Torn, File, foxdb_new
  <2> QED BY <2>5, <2>6 DEF DInv, Sound
<1> QED BY <1>1, <1>2

LEMMA KillStep == ASSUME Sound, NEW r \in Runs, Kill(r) PROVE DInv'
<1>1. CASE at[r] = "write"
  BY <1>1 DEF Kill, DInv
<1>2. CASE at[r] # "write"
  <2>1. /\ FoxdbTypes /\ at[r] # "ended" /\ at' = [at EXCEPT ![r] = "ended"] /\ at'[r] = "ended"
        /\ UNCHANGED <<first, file, replaces, cmd, db, since, saved, work>>
        /\ \A i \in 1 .. Len(saved) : since'[saved[i]] = since[saved[i]]
    BY DEF Sound, FoxdbTypes, Kill, Go
  <2>2. /\ cmd' = [cmd EXCEPT ![r] = cmd[r]] /\ since' = [since EXCEPT ![r] = since[r]]
        /\ db' = [db EXCEPT ![r] = db[r]]
    BY <2>1 DEF FoxdbTypes
  <2>3. LoadedAt(r)'
    BY <2>1 DEF LoadedAt
  <2>4. FoxdbTypes' /\ SavedOnce' /\ WorkOfSaved' /\ (\A q \in Runs : LoadedAt(q)')
    <3>1. "ended" \in Places
      BY DEF Places
    <3> QED BY <2>1, <2>2, <2>3, <3>1, QuietStep
  <2>5. FileIs' /\ OneWriter'
    BY <1>2, <2>1, FileStays
  <2> QED BY <2>4, <2>5 DEF DInv, Sound
<1> QED BY <1>1, <1>2

\* The save of r adds its command to the work of every set that has r in it.
LEMMA SavedStep == ASSUME Sound, NEW r \in Runs, Saved(r) PROVE DInv'
<1> DEFINE n == Len(saved)
<1>1. /\ FoxdbTypes /\ SavedOnce /\ WorkOfSaved /\ LoadedAt(r) /\ OneWriter /\ saved \in Seq(Runs) /\ n \in Nat
      /\ at[r] = "write" /\ at' = [at EXCEPT ![r] = "ended"] /\ at'[r] = "ended"
      /\ UNCHANGED <<first, replaces, cmd, db, since, spoilt>>
      /\ file' = Holds(db[r]) /\ saved' = Append(saved, r)
  BY LenProperties DEF Sound, FoxdbTypes, Saved, Go
<1>2. \A S \in SUBSET Runs : work'[S] = IF r \in S THEN Did(r, S) ELSE work[S]
  BY DEF Saved, Did
<1>3. \A i \in 1 .. n : saved[i] \in Runs /\ saved[i] # r
  BY <1>1, ElementOfSeq DEF SavedOnce
<1>4. /\ saved' \in Seq(Runs) /\ Len(saved') = n + 1 /\ saved'[n + 1] = r
      /\ \A i \in 1 .. n : saved'[i] = saved[i]
  BY <1>1, AppendProperties
<1>5. FoxdbTypes'
  <2>1. DOMAIN work' = SUBSET Runs
    BY DEF Saved
  <2>2. work'[{}] = first'.db
    BY <1>1, <1>2 DEF FoxdbTypes
  <2>3. "ended" \in Places
    BY DEF Places
  <2> QED BY <1>1, <1>4, <2>1, <2>2, <2>3 DEF FoxdbTypes
<1>6. SavedOnce'
  <2>1. \A i \in 1 .. n + 1 : at'[saved'[i]] = "ended"
    BY <1>1, <1>3, <1>4 DEF SavedOnce, FoxdbTypes
  <2>2. \A i, j \in 1 .. n + 1 : saved'[i] = saved'[j] => i = j
    BY <1>1, <1>3, <1>4 DEF SavedOnce
  <2>3. \A q \in Runs : since'[q] <= n + 1
    BY <1>1 DEF SavedOnce, FoxdbTypes
  <2> QED BY <1>4, <2>1, <2>2, <2>3 DEF SavedOnce
<1>7. r \notin Before(n) /\ Before(Len(saved))' = Before(n) \cup {r}
  BY <1>1, <1>3, <1>4 DEF Before
<1>8. ASSUME NEW S \in SUBSET Runs, NEW T \in SUBSET Runs, S \cap Before(n) = T \cap Before(n)
      PROVE  work[S] = work[T] /\ Did(r, S) = Did(r, T)
  BY <1>1, <1>8 DEF WorkOfSaved, Did
<1>9. WorkOfSaved'
  <2>1. ASSUME NEW S \in SUBSET Runs PROVE work'[S] = work'[S \cap (Before(n) \cup {r})]
    <3>1. PICK T \in SUBSET Runs : T = S \cap (Before(n) \cup {r})
      OBVIOUS
    <3>2. S \cap Before(n) = T \cap Before(n) /\ (r \in S <=> r \in T)
      BY <3>1
    <3>3. work[S] = work[T] /\ Did(r, S) = Did(r, T)
      BY <1>8, <3>2
    <3>4. work'[S] = work'[T]
      BY <1>2, <3>2, <3>3
    <3> QED BY <3>1, <3>4
  <2> QED BY <1>7, <2>1 DEF WorkOfSaved
<1>10. \A i \in 1 .. n : since'[saved[i]] = since[saved[i]]
  BY <1>1
<1>11. PICK S \in SUBSET Runs : Basis(r, S) /\ db[r] = Did(r, S)
  BY <1>1 DEF LoadedAt
<1>12. FileIs'
  <2>1. PICK T \in SUBSET Runs : T = S \cup {r}
    OBVIOUS
  <2>2. work'[T] = db[r]
    <3>1. S \cap Before(n) = T \cap Before(n) /\ r \in T
      BY <1>7, <2>1
    <3> QED BY <1>2, <1>8, <1>11, <3>1
  <2>3. Kept(Len(saved))' \subseteq T
    <3> SUFFICES ASSUME NEW i \in 1 .. n + 1, ~Overtaken(i)' PROVE saved'[i] \in T
      BY <1>4 DEF Kept
    <3>1. CASE i = n + 1
      BY <1>4, <2>1, <3>1
    <3>2. CASE i # n + 1
      <4>1. i \in 1 .. n /\ saved'[i] = saved[i] /\ ~Overtaken(i)
        BY <1>1, <1>4, <1>10, <3>2, OvertakenStays
      <4>2. i <= since[r]
        <5> SUFFICES ASSUME since[r] < i PROVE Overtaken(i)'
          BY <1>1 DEF FoxdbTypes
        <5>1. n + 1 \in i + 1 .. Len(saved') /\ since'[saved'[n + 1]] < i
          BY <1>1, <1>4, <4>1
        <5> QED BY <5>1 DEF Overtaken
      <4>3. since[r] \in Nat /\ i \in 1 .. since[r]
        BY <1>1, <4>1, <4>2 DEF FoxdbTypes
      <4>4. saved[i] \in Kept(since[r])
        BY <4>1, <4>3 DEF Kept
      <4> QED BY <1>11, <2>1, <4>1, <4>4 DEF Basis
    <3> QED BY <3>1, <3>2
  <2>4. file' = Holds(work'[T])
    BY <1>1, <2>2
  <2> QED BY <2>3, <2>4 DEF FileIs, Holds, File
<1>13. OneWriter'
  <2>1. \A q \in Runs : at'[q] # "write"
    BY <1>1 DEF OneWriter, FoxdbTypes
  <2> QED BY <2>1 DEF OneWriter
<1>14. ASSUME NEW q \in Runs PROVE LoadedAt(q)'
  <2>1. CASE q = r
    BY <1>1, <2>1 DEF LoadedAt
  <2>2. CASE q # r
    <3>1. at'[q] = at[q] /\ cmd'[q] = cmd[q] /\ db'[q] = db[q] /\ since'[q] = since[q]
      BY <1>1, <2>2 DEF FoxdbTypes
    <3>2. /\ saved' \in {saved, Append(saved, r)} /\ at[r] # "ended" /\ saved' # saved
          /\ \A T \in SUBSET Runs : r \notin T \/ saved' = saved => work'[T] = work[T]
      BY <1>1, <1>2, <1>4
    <3> QED BY <1>1, <1>10, <3>1, <3>2, OthersStay
  <2> QED BY <2>1, <2>2
<1> QED BY <1>5, <1>6, <1>9, <1>12, <1>13, <1>14 DEF DInv, Sound

(***************************************************************************)
(* The theorem                                                             *)
(***************************************************************************)
LEMMA InitSound == FoxdbInit => DInv
<1> SUFFICES ASSUME FoxdbInit PROVE Sound
  BY DEF DInv
<1>1. saved = <<>> /\ Len(saved) = 0 /\ file = first
  BY DEF FoxdbInit
<1>2. FoxdbTypes
  BY <1>1 DEF FoxdbInit, FoxdbTypes, Places
<1>3. SavedOnce
  BY <1>1 DEF FoxdbInit, SavedOnce
<1>4. WorkOfSaved
  BY DEF FoxdbInit, WorkOfSaved
<1>5. \A r \in Runs : LoadedAt(r)
  BY DEF FoxdbInit, LoadedAt
<1>6. OneWriter
  BY DEF FoxdbInit, OneWriter
<1>7. FileIs
  <2>1. CASE first = Absent
    BY <1>1, <2>1 DEF FileIs
  <2>2. CASE first \in { Holds(d) : d \in Databases }
    <3>1. PICK d : first = Holds(d)
      BY <2>2
    <3>2. file = Holds(work[{}]) /\ Kept(Len(saved)) \subseteq {}
      BY <1>1, <1>2, <3>1, FilesDiffer DEF FoxdbTypes, Kept
    <3> QED BY <3>2 DEF FileIs
  <2> QED BY <2>1, <2>2 DEF FoxdbInit
<1> QED BY <1>2, <1>3, <1>4, <1>5, <1>6, <1>7 DEF Sound

LEMMA NextSound == DInv /\ [FoxdbNext]_foxdbVars => DInv'
<1> SUFFICES ASSUME DInv, [FoxdbNext]_foxdbVars PROVE DInv'
  OBVIOUS
<1>1. CASE UNCHANGED foxdbVars
  <2>1. CASE spoilt
    BY <1>1, <2>1 DEF foxdbVars, DInv
  <2>2. CASE Sound
    <3>1. UNCHANGED <<first, file, replaces, at, cmd, db, since, saved, work>>
      BY <1>1 DEF foxdbVars
    <3>2. FoxdbTypes' /\ SavedOnce' /\ WorkOfSaved'
      <4>1. FoxdbTypes'
        BY <2>2, <3>1 DEF Sound, FoxdbTypes
      <4>2. SavedOnce'
        BY <2>2, <3>1 DEF Sound, SavedOnce
      <4>3. WorkOfSaved'
        BY <2>2, <3>1 DEF Sound, WorkOfSaved, Before
      <4> QED BY <4>1, <4>2, <4>3
    <3>3. OneWriter'
      BY <2>2, <3>1 DEF Sound, OneWriter, Torn, File, foxdb_new
    <3>4. ASSUME NEW r \in Runs PROVE LoadedAt(r)'
      <4>1. \A S \in SUBSET Runs : Basis(r, S) => Basis(r, S)'
        BY <2>2, <3>1, BasisStays
      <4>2. \A S \in SUBSET Runs : Did(r, S)' = Did(r, S)
        BY <3>1, DidSame
      <4> QED BY <2>2, <3>1, <4>1, <4>2 DEF Sound, LoadedAt, foxdb_new
    <3>5. FileIs'
      BY <2>2, <3>1 DEF Sound, FileIs, Kept, Overtaken, Absent, Empty, Torn, Holds, File, foxdb_new
    <3> QED BY <3>2, <3>3, <3>4, <3>5 DEF DInv, Sound
  <2> QED BY <2>1, <2>2 DEF DInv
<1>2. CASE FoxdbNext
  <2>1. Sound
    BY <1>2 DEF FoxdbNext, DInv
  <2>2. PICK r \in Runs : Load(r) \/ Create(r) \/ Execute(r) \/ Save(r) \/ Saved(r) \/ Kill(r)
    BY <1>2 DEF FoxdbNext
  <2> QED BY <2>1, <2>2, LoadStep, CreateStep, ExecuteStep, SaveStep, SavedStep, KillStep
<1> QED BY <1>1, <1>2

\* foxdb, main.c: however runs interleave, and wherever they are killed, the
\* file holds the work of some of them one after the other, and of all that
\* nobody overtook, for any runs, commands and databases.
THEOREM OnlyOvertakenLost == FoxdbSpec => []LostOnlyIfOvertaken
<1>1. DInv => LostOnlyIfOvertaken
  <2> SUFFICES ASSUME Sound PROVE LostOnlyIfOvertaken
    BY DEF DInv, LostOnlyIfOvertaken
  <2>1. FileIs /\ saved \in Seq(Runs)
    BY DEF Sound, FoxdbTypes
  <2> QED BY <2>1, KeptIs DEF FileIs, LostOnlyIfOvertaken
<1> QED BY <1>1, InitSound, NextSound, PTL DEF FoxdbSpec

(***************************************************************************)
(* The console of the desktop, as long as tasks interrupt each other only  *)
(* between two characters: while a task is within one, the console lags    *)
(* behind the paper by what the task has still to do, and by nothing else. *)
(***************************************************************************)
Cells == Chars \cup {Blank, " "}
Lines == [1 .. Columns -> Cells]
Cell(r, k) == r * Columns + k
AllRows == 0 .. Rows - 1
AllColumns == 0 .. Columns - 1
Steps == {"next", "erase", "colum", "row", "scroll"}

ConsoleTypes ==
    /\ step \in [Printers -> Steps] /\ ~overrun
    /\ row \in Nat /\ colum \in AllColumns
    /\ DOMAIN background_console = 0 .. Columns * Rows - 1
    /\ paper \in [rows : Seq(Lines) \ {<<>>}, col : AllColumns]

Alone == \A p, q \in Printers : step[p] # "next" /\ step[q] # "next" => p = q

\* The console shows n rows of the paper, with the cursor in the last one.
Shows(n) == \A r \in AllRows, k \in AllColumns : background_console[Cell(r, k)] = Shown(n, r)[k + 1]
InLast(n) == row = n - 1 - Top(n)

\* The paper has a new row which the console does not show yet.
Pending == paper.col = 0 /\ Len(paper.rows) > 1 /\ paper.rows[Len(paper.rows)] = EmptyRow

WhenDone(n) == Shows(n) /\ InLast(n) /\ colum = paper.col
WhenErasing(n) ==
    /\ InLast(n) /\ colum = paper.col /\ paper.rows[n][colum + 1] = " "
    /\ \A r \in AllRows, k \in AllColumns :
          r # row \/ k # colum => background_console[Cell(r, k)] = Shown(n, r)[k + 1]
WhenInRow(n) == colum + 1 < Columns /\ paper.col = colum + 1 /\ Shows(n) /\ InLast(n)
WhenAtEnd(n) == colum + 1 = Columns /\ Pending /\ Shows(n - 1) /\ InLast(n - 1)
WhenInNewRow(n) == colum = 0 /\ Pending /\ Shows(n - 1) /\ InLast(n - 1)
WhenBelow(n) == colum = 0 /\ Pending /\ Shows(n - 1) /\ row = Rows /\ n - 1 >= Rows

Lags(n) ==
    /\ (\A p \in Printers : step[p] = "next") => WhenDone(n)
    /\ \A p \in Printers :
          /\ step[p] = "erase" => WhenErasing(n)
          /\ step[p] = "colum" => WhenInRow(n) \/ WhenAtEnd(n)
          /\ step[p] = "row" => WhenInNewRow(n)
          /\ step[p] = "scroll" => WhenBelow(n)

Fine == ConsoleTypes /\ Alone /\ \E n \in Nat : n = Len(paper.rows) /\ Lags(n)
CInv == mixed \/ Fine

(***************************************************************************)
(* Cells of the block                                                      *)
(***************************************************************************)
LEMMA Sizes == Columns \in Nat /\ Rows \in Nat /\ Columns > 0 /\ Rows > 0
BY ConsoleAssumption

LEMMA Grows ==
    ASSUME NEW a \in Int, NEW b \in Int, a <= b
    PROVE  a * Columns \in Int /\ b * Columns \in Int /\ a * Columns <= b * Columns
<1>1. b * Columns = a * Columns + (b - a) * Columns
  BY Sizes
<1>2. (b - a) * Columns >= 0
  BY Sizes
<1> QED BY <1>1, <1>2, Sizes

LEMMA CellIn ==
    ASSUME NEW r \in AllRows, NEW k \in AllColumns
    PROVE  /\ Cell(r, k) \in 0 .. Columns * Rows - 1
           /\ Cell(r, k) + Columns = Cell(r + 1, k)
           /\ Cell(r, k) + Columns \in 0 .. Columns * Rows - 1 <=> r + 1 \in AllRows
<1>1. r \in Int /\ k \in Int /\ 0 <= r /\ r <= Rows - 1 /\ 0 <= k /\ k < Columns
  BY Sizes DEF AllRows, AllColumns
<1>2. r * Columns \in Int /\ 0 * Columns <= r * Columns /\ (r + 1) * Columns <= Rows * Columns
  BY <1>1, Sizes, Grows
<1>3. (r + 1) * Columns = r * Columns + Columns /\ Rows * Columns = Columns * Rows
  BY <1>1, Sizes
<1>4. r + 1 \in AllRows => (r + 2) * Columns <= Rows * Columns
  BY <1>1, Sizes, Grows DEF AllRows
<1>5. (r + 2) * Columns = r * Columns + Columns + Columns
  BY <1>1, Sizes
<1>6. r + 1 \notin AllRows => (r + 1) * Columns = Rows * Columns
  BY <1>1, Sizes DEF AllRows
<1> QED BY <1>1, <1>2, <1>3, <1>4, <1>5, <1>6, Sizes DEF Cell

LEMMA CellUnique ==
    ASSUME NEW r \in AllRows, NEW k \in AllColumns, NEW s \in AllRows, NEW j \in AllColumns,
           Cell(r, k) = Cell(s, j)
    PROVE  r = s /\ k = j
<1>1. /\ r \in Int /\ s \in Int /\ k \in Int /\ j \in Int
      /\ 0 <= k /\ k < Columns /\ 0 <= j /\ j < Columns
  BY Sizes DEF AllRows, AllColumns
<1>2. r * Columns \in Int /\ s * Columns \in Int
  BY <1>1, Grows
<1>3. ~(r < s)
  <2> SUFFICES ASSUME r + 1 <= s PROVE FALSE
    BY <1>1
  <2>1. (r + 1) * Columns <= s * Columns
    BY <1>1, Grows
  <2>2. (r + 1) * Columns = r * Columns + Columns
    BY <1>1, Sizes
  <2> QED BY <1>1, <1>2, <2>1, <2>2, Sizes DEF Cell
<1>4. ~(s < r)
  <2> SUFFICES ASSUME s + 1 <= r PROVE FALSE
    BY <1>1
  <2>1. (s + 1) * Columns <= r * Columns
    BY <1>1, Grows
  <2>2. (s + 1) * Columns = s * Columns + Columns
    BY <1>1, Sizes
  <2> QED BY <1>1, <1>2, <2>1, <2>2, Sizes DEF Cell
<1>5. r = s
  BY <1>1, <1>3, <1>4
<1> QED BY <1>1, <1>2, <1>5, Sizes DEF Cell

\* Writing a cell in the block changes that cell and no other one.
LEMMA WriteCell ==
    ASSUME DOMAIN background_console = 0 .. Columns * Rows - 1,
           NEW s \in AllRows, NEW j \in AllColumns, NEW c, Write(Cell(s, j), c)
    PROVE  /\ DOMAIN background_console' = 0 .. Columns * Rows - 1 /\ ~overrun'
           /\ background_console'[Cell(s, j)] = c
           /\ \A r \in AllRows, k \in AllColumns :
                 r # s \/ k # j => background_console'[Cell(r, k)] = background_console[Cell(r, k)]
<1>1. Cell(s, j) \in DOMAIN background_console
  BY CellIn
<1>2. background_console' = [background_console EXCEPT ![Cell(s, j)] = c] /\ ~overrun'
  BY <1>1 DEF Write
<1>3. \A r \in AllRows, k \in AllColumns : Cell(r, k) \in DOMAIN background_console
  BY CellIn
<1>4. \A r \in AllRows, k \in AllColumns : r # s \/ k # j => Cell(r, k) # Cell(s, j)
  BY CellUnique
<1> QED BY <1>1, <1>2, <1>3, <1>4

LEMMA TopFacts ==
    ASSUME NEW n \in Nat, n > 0
    PROVE  Top(n) \in Nat /\ n - 1 - Top(n) \in AllRows
BY Sizes DEF Top, AllRows

LEMMA TopNext ==
    ASSUME NEW n \in Nat, n > 1
    PROVE  /\ n - 1 < Rows => Top(n) = Top(n - 1) /\ n - 2 - Top(n - 1) + 1 = n - 1 - Top(n)
           /\ n - 1 >= Rows => Top(n) = Top(n - 1) + 1 /\ n - 2 - Top(n - 1) + 1 = Rows
                               /\ n - 1 - Top(n) = Rows - 1
           /\ n - 2 - Top(n - 1) + 1 >= Rows => n - 1 >= Rows
BY Sizes DEF Top

(***************************************************************************)
(* What the paper shows                                                    *)
(***************************************************************************)
LEMMA PaperFacts ==
    ASSUME ConsoleTypes
    PROVE  /\ paper.rows \in Seq(Lines) /\ Len(paper.rows) \in Nat /\ Len(paper.rows) > 0
           /\ \A i \in 1 .. Len(paper.rows) : paper.rows[i] \in Lines
           /\ paper.col \in AllColumns /\ EmptyRow \in Lines
<1>1. paper.rows \in Seq(Lines) /\ paper.rows # <<>> /\ paper.col \in AllColumns
  BY DEF ConsoleTypes
<1>2. Len(paper.rows) \in Nat /\ Len(paper.rows) > 0
  BY <1>1, LenProperties, EmptySeq
<1>3. \A i \in 1 .. Len(paper.rows) : paper.rows[i] \in Lines
  BY <1>1, ElementOfSeq
<1> QED BY <1>1, <1>2, <1>3 DEF EmptyRow, Lines, Cells

LEMMA ShownRow ==
    ASSUME NEW n \in Nat, n > 0, NEW r \in AllRows, Top(n) + r < n
    PROVE  Top(n) + r + 1 \in 1 .. n /\ Shown(n, r) = paper.rows[Top(n) + r + 1]
BY TopFacts, Sizes DEF Shown, AllRows

LEMMA ShownSame ==
    ASSUME NEW n \in Nat, n > 0, \A i \in 1 .. n : paper'.rows[i] = paper.rows[i], NEW r \in AllRows
    PROVE  Shown(n, r)' = Shown(n, r)
<1>1. CASE Top(n) + r < n
  BY <1>1, ShownRow DEF Shown, Top
<1>2. CASE ~(Top(n) + r < n)
  BY <1>2 DEF Shown, Top, EmptyRow, Blank
<1> QED BY <1>1, <1>2

LEMMA ShowsSame ==
    ASSUME NEW n \in Nat, n > 0, Shows(n), background_console' = background_console,
           \A i \in 1 .. n : paper'.rows[i] = paper.rows[i]
    PROVE  Shows(n)'
BY ShownSame DEF Shows, Cell, AllRows, AllColumns

Put(n, j, c) == [paper.rows EXCEPT ![n] = [paper.rows[n] EXCEPT ![j + 1] = c]]
Puts(n, j, c) == \A i \in 1 .. n : paper'.rows[i] = Put(n, j, c)[i]

\* Writing into the last row of the paper changes one place of what is shown.
LEMMA ShownPut ==
    ASSUME ConsoleTypes, NEW n \in Nat, n = Len(paper.rows), NEW j \in AllColumns, NEW c,
           Puts(n, j, c), NEW r \in AllRows, NEW k \in AllColumns
    PROVE  Shown(n, r)'[k + 1] = IF r = n - 1 - Top(n) /\ k = j THEN c ELSE Shown(n, r)[k + 1]
<1>1. n > 0 /\ paper.rows \in Seq(Lines) /\ paper.rows[n] \in Lines /\ DOMAIN paper.rows = 1 .. n
  BY PaperFacts, LenProperties
<1>2. Top(n) \in Nat /\ r \in Nat /\ Top(n)' = Top(n)
  BY <1>1, TopFacts, Sizes DEF AllRows, Top
<1>3. j + 1 \in 1 .. Columns /\ k + 1 \in 1 .. Columns /\ (k + 1 = j + 1 <=> k = j)
  BY Sizes DEF AllColumns
<1>4. CASE Top(n) + r < n
  <2>1. Top(n) + r + 1 \in 1 .. n /\ Shown(n, r) = paper.rows[Top(n) + r + 1]
    BY <1>1, <1>4, ShownRow
  <2>2. Shown(n, r)' = paper'.rows[Top(n) + r + 1]
    BY <1>2, <1>4 DEF Shown
  <2>3. CASE r = n - 1 - Top(n)
    <3>1. Top(n) + r + 1 = n
      BY <1>2, <2>3
    <3>2. Shown(n, r)' = [paper.rows[n] EXCEPT ![j + 1] = c]
      BY <1>1, <2>1, <2>2, <3>1 DEF Put, Puts
    <3>3. Shown(n, r) = paper.rows[n]
      BY <2>1, <3>1
    <3>4. DOMAIN paper.rows[n] = 1 .. Columns
      BY <1>1 DEF Lines
    <3>5. [paper.rows[n] EXCEPT ![j + 1] = c][k + 1] = IF k = j THEN c ELSE paper.rows[n][k + 1]
      BY <1>3, <3>4
    <3> QED BY <2>3, <3>2, <3>3, <3>5
  <2>4. CASE r # n - 1 - Top(n)
    <3>1. Top(n) + r + 1 # n
      BY <1>2, <2>4
    <3>2. Shown(n, r)' = Shown(n, r)
      BY <1>1, <2>1, <2>2, <3>1 DEF Put, Puts
    <3> QED BY <2>4, <3>2
  <2> QED BY <2>3, <2>4
<1>5. CASE ~(Top(n) + r < n)
  <2>1. Shown(n, r)' = Shown(n, r)
    BY <1>2, <1>5 DEF Shown, EmptyRow, Blank
  <2>2. r # n - 1 - Top(n)
    BY <1>2, <1>5
  <2> QED BY <2>1, <2>2
<1> QED BY <1>4, <1>5

LEMMA PutFacts ==
    ASSUME ConsoleTypes, NEW n \in Nat, n = Len(paper.rows), NEW j \in AllColumns, NEW c \in Cells
    PROVE  /\ Put(n, j, c) \in Seq(Lines) /\ Len(Put(n, j, c)) = n /\ Put(n, j, c) # <<>>
           /\ Put(n, j, c)[n][j + 1] = c
<1>1. n \in 1 .. Len(paper.rows) /\ paper.rows \in Seq(Lines) /\ paper.rows[n] \in Lines
  BY PaperFacts
<1>2. j + 1 \in 1 .. Columns
  BY Sizes DEF AllColumns
<1>3. PICK line : line = [paper.rows[n] EXCEPT ![j + 1] = c]
  OBVIOUS
<1>4. line \in Lines /\ line[j + 1] = c
  BY <1>1, <1>2, <1>3 DEF Lines
<1>5. Put(n, j, c) = [paper.rows EXCEPT ![n] = line]
  BY <1>3 DEF Put
<1>6. Put(n, j, c) \in Seq(Lines) /\ Len(Put(n, j, c)) = n /\ Put(n, j, c)[n] = line
  BY <1>1, <1>4, <1>5, ExceptSeq
<1>7. Put(n, j, c) # <<>>
  BY <1>1, <1>6, EmptySeq
<1> QED BY <1>4, <1>6, <1>7

LEMMA OrdinaryChars == Newline # Back /\ \A c \in Chars : c # Newline /\ c # Back
BY ConsoleAssumption DEF Newline, Back

(***************************************************************************)
(* One task at a time                                                      *)
(***************************************************************************)
LEMMA OneMoves ==
    ASSUME step \in [Printers -> Steps], NEW p \in Printers, \A q \in Printers : q # p => step[q] = "next",
           NEW s \in Steps, Then(p, s), NEW n \in Nat,
           \/ s = "next" /\ WhenDone(n)'
           \/ s = "erase" /\ WhenErasing(n)'
           \/ s = "colum" /\ (WhenInRow(n)' \/ WhenAtEnd(n)')
           \/ s = "row" /\ WhenInNewRow(n)'
           \/ s = "scroll" /\ WhenBelow(n)'
    PROVE  step' \in [Printers -> Steps] /\ Alone' /\ Lags(n)'
<1>1. /\ step' \in [Printers -> Steps] /\ step'[p] = s
      /\ \A q \in Printers : q # p => step'[q] = "next"
  BY DEF Then
<1>2. Alone'
  BY <1>1 DEF Alone
<1>3. Lags(n)'
  BY <1>1 DEF Lags
<1> QED BY <1>1, <1>2, <1>3

LEMMA Others ==
    ASSUME Fine, NEW p \in Printers, step[p] # "next"
    PROVE  \A q \in Printers : q # p => step[q] = "next"
BY DEF Fine, Alone

\* A character that is not begun within another one finds all of them done.
LEMMA BeginAlone ==
    ASSUME Fine, NEW p \in Printers, NEW c, Begin(p, c), ~mixed'
    PROVE  /\ \A q \in Printers : step[q] = "next"
           /\ \E n \in Nat : n = Len(paper.rows) /\ WhenDone(n)
           /\ paper' = OnPaper(c) /\ row' = row
BY DEF Begin, Fine, Lags
(***************************************************************************)
(* The steps                                                               *)
(***************************************************************************)
LEMMA NewlineStep == ASSUME Fine, NEW p \in Printers, PrintNewline(p), ~mixed' PROVE Fine'
<1>1. ConsoleTypes /\ Begin(p, Newline) /\ UNCHANGED <<background_console, overrun>> /\ colum' = 0
  BY DEF Fine, PrintNewline
<1>2. PICK n \in Nat : n = Len(paper.rows) /\ WhenDone(n)
  BY <1>1, BeginAlone
<1>3. /\ \A q \in Printers : step[q] = "next"
      /\ row' = row /\ paper' = [rows |-> Append(paper.rows, EmptyRow), col |-> 0]
  <2>1. paper' = OnPaper(Newline)
    BY <1>1, BeginAlone
  <2>2. paper' = [rows |-> Append(paper.rows, EmptyRow), col |-> 0]
    BY <2>1, OrdinaryChars DEF OnPaper
  <2> QED BY <1>1, <2>2, BeginAlone
<1>4. /\ n > 0 /\ paper'.rows \in Seq(Lines) /\ Len(paper'.rows) = n + 1
      /\ \A i \in 1 .. n : paper'.rows[i] = paper.rows[i]
      /\ paper'.rows[n + 1] = EmptyRow /\ paper'.rows # <<>>
  BY <1>1, <1>2, <1>3, PaperFacts, AppendProperties, EmptySeq
<1>5. 0 \in AllColumns
  BY Sizes DEF AllColumns
<1>6. WhenInNewRow(n + 1)'
  <2>1. Shows(n)'
    BY <1>1, <1>2, <1>4, ShowsSame DEF WhenDone
  <2>2. Pending'
    BY <1>2, <1>3, <1>4 DEF Pending, EmptyRow, Blank
  <2>3. InLast(n)'
    BY <1>2, <1>3 DEF WhenDone, InLast, Top
  <2>4. (n + 1) - 1 = n
    BY <1>2
  <2> QED BY <1>1, <2>1, <2>2, <2>3, <2>4 DEF WhenInNewRow
<1>7. step \in [Printers -> Steps] /\ Then(p, "row") /\ "row" \in Steps /\ n + 1 \in Nat
  BY <1>1 DEF ConsoleTypes, PrintNewline, Steps
<1>8. step' \in [Printers -> Steps] /\ Alone' /\ Lags(n + 1)'
  BY <1>3, <1>6, <1>7, OneMoves
<1>9. ConsoleTypes'
  BY <1>1, <1>3, <1>4, <1>5, <1>8 DEF ConsoleTypes
<1> QED BY <1>4, <1>7, <1>8, <1>9 DEF Fine

LEMMA BackStep == ASSUME Fine, NEW p \in Printers, PrintBack(p), ~mixed' PROVE Fine'
<1>1. /\ ConsoleTypes /\ Begin(p, Back) /\ UNCHANGED <<background_console, overrun>>
      /\ colum' = IF colum > 0 THEN colum - 1 ELSE colum
  BY DEF Fine, PrintBack
<1>2. PICK n \in Nat : n = Len(paper.rows) /\ WhenDone(n)
  BY <1>1, BeginAlone
<1>3. PICK j \in AllColumns : colum' = j /\ j = IF colum > 0 THEN colum - 1 ELSE colum
  <2>1. (IF colum > 0 THEN colum - 1 ELSE colum) \in AllColumns
    BY <1>1, Sizes DEF ConsoleTypes, AllColumns
  <2> QED BY <1>1, <2>1
<1>4. PICK put : put = Put(n, j, " ")
  OBVIOUS
<1>5. /\ \A q \in Printers : step[q] = "next"
      /\ row' = row /\ paper' = [rows |-> put, col |-> j]
  <2>1. paper' = OnPaper(Back) /\ colum = paper.col
    BY <1>1, <1>2, BeginAlone DEF WhenDone
  <2>2. paper' = [rows |-> put, col |-> j]
    BY <1>2, <1>3, <1>4, <2>1, OrdinaryChars DEF OnPaper, Put
  <2> QED BY <1>1, <2>2, BeginAlone
<1>6. n > 0
  BY <1>1, <1>2, PaperFacts
<1>7. put \in Seq(Lines) /\ Len(put) = n /\ put # <<>> /\ put[n][j + 1] = " "
  <2>1. PICK c \in Cells : c = " "
    BY DEF Cells
  <2> QED BY <1>1, <1>2, <1>4, <2>1, PutFacts
<1>8. WhenErasing(n)'
  <2>1. InLast(n)' /\ row = n - 1 - Top(n)
    BY <1>2, <1>5 DEF WhenDone, InLast, Top
  <2>2. ASSUME NEW r \in AllRows, NEW k \in AllColumns, r # row \/ k # j
        PROVE  background_console'[Cell(r, k)] = Shown(n, r)'[k + 1]
    <3>1. Shown(n, r)'[k + 1] = Shown(n, r)[k + 1]
      <4>1. PICK c \in Cells : c = " "
        BY DEF Cells
      <4>2. Puts(n, j, c)
        BY <1>4, <1>5, <4>1 DEF Puts
      <4>3. Shown(n, r)'[k + 1] = IF r = n - 1 - Top(n) /\ k = j THEN c ELSE Shown(n, r)[k + 1]
        BY <1>1, <1>2, <4>2, ShownPut
      <4> QED BY <2>1, <2>2, <4>3
    <3> QED BY <1>1, <1>2, <3>1 DEF WhenDone, Shows
  <2>3. colum' = paper'.col /\ paper'.rows[n][colum' + 1] = " "
    BY <1>3, <1>5, <1>7
  <2> QED BY <1>3, <1>5, <2>1, <2>2, <2>3 DEF WhenErasing, AllRows, AllColumns, Cell
<1>9. step \in [Printers -> Steps] /\ Then(p, "erase") /\ "erase" \in Steps
  BY <1>1 DEF ConsoleTypes, PrintBack, Steps
<1>10. step' \in [Printers -> Steps] /\ Alone' /\ Lags(n)'
  BY <1>5, <1>8, <1>9, OneMoves
<1>11. ConsoleTypes'
  BY <1>1, <1>3, <1>5, <1>7, <1>10 DEF ConsoleTypes, AllColumns
<1> QED BY <1>5, <1>7, <1>10, <1>11 DEF Fine

LEMMA EraseStep == ASSUME Fine, NEW p \in Printers, Erase(p) PROVE Fine'
<1>1. /\ ConsoleTypes /\ step[p] = "erase" /\ Then(p, "next") /\ Write(Cell(row, colum), " ")
      /\ UNCHANGED <<colum, row, paper>>
  BY DEF Fine, Erase, Cell
<1>2. PICK n \in Nat : n = Len(paper.rows) /\ WhenErasing(n)
  BY <1>1 DEF Fine, Lags
<1>3. n > 0 /\ row \in AllRows /\ colum \in AllColumns /\ row = n - 1 - Top(n)
  BY <1>1, <1>2, PaperFacts, TopFacts DEF ConsoleTypes, WhenErasing, InLast
<1>4. /\ DOMAIN background_console' = 0 .. Columns * Rows - 1 /\ ~overrun'
      /\ background_console'[Cell(row, colum)] = " "
      /\ \A r \in AllRows, k \in AllColumns :
            r # row \/ k # colum => background_console'[Cell(r, k)] = background_console[Cell(r, k)]
  <2>1. DOMAIN background_console = 0 .. Columns * Rows - 1
    BY <1>1 DEF ConsoleTypes
  <2> QED BY <1>1, <1>3, <2>1, WriteCell
<1>5. WhenDone(n)'
  <2>1. ASSUME NEW r \in AllRows, NEW k \in AllColumns
        PROVE  background_console'[Cell(r, k)] = Shown(n, r)[k + 1]
    <3>1. CASE r = row /\ k = colum
      <4>1. Top(n) \in Nat /\ Top(n) + r < n /\ Top(n) + r + 1 = n
        BY <1>2, <1>3, <3>1, TopFacts
      <4>2. Shown(n, r) = paper.rows[n]
        BY <1>2, <1>3, <4>1, ShownRow
      <4> QED BY <1>2, <1>4, <3>1, <4>2 DEF WhenErasing
    <3>2. CASE r # row \/ k # colum
      BY <1>2, <1>4, <3>2 DEF WhenErasing
    <3> QED BY <3>1, <3>2
  <2>2. \A r \in AllRows : Shown(n, r)' = Shown(n, r)
    BY <1>1, <1>2, <1>3, ShownSame
  <2>3. Shows(n)'
    BY <2>1, <2>2 DEF Shows, AllRows, AllColumns, Cell
  <2> QED BY <1>1, <1>2, <2>3 DEF WhenDone, WhenErasing, InLast, Top
<1>6. step \in [Printers -> Steps] /\ "next" \in Steps /\ \A q \in Printers : q # p => step[q] = "next"
  BY <1>1, Others DEF ConsoleTypes, Steps
<1>7. step' \in [Printers -> Steps] /\ Alone' /\ Lags(n)'
  BY <1>1, <1>5, <1>6, OneMoves
<1>8. ConsoleTypes'
  BY <1>1, <1>4, <1>7 DEF ConsoleTypes
<1> QED BY <1>1, <1>2, <1>7, <1>8 DEF Fine
LEMMA CharStep == ASSUME Fine, NEW p \in Printers, NEW c \in Chars, PrintChar(p, c), ~mixed' PROVE Fine'
<1>1. ConsoleTypes /\ Begin(p, c) /\ Then(p, "colum") /\ colum' = colum
  BY DEF Fine, PrintChar
<1>2. PICK n \in Nat : n = Len(paper.rows) /\ WhenDone(n)
  BY <1>1, BeginAlone
<1>3. PICK j \in AllColumns : colum = j
  BY <1>1 DEF ConsoleTypes
<1>4. PICK put : put = Put(n, j, c)
  OBVIOUS
<1>5. /\ \A q \in Printers : step[q] = "next"
      /\ row' = row /\ paper.col = j
      /\ paper' = IF j + 1 < Columns THEN [rows |-> put, col |-> j + 1]
                                     ELSE [rows |-> Append(put, EmptyRow), col |-> 0]
  <2>1. paper' = OnPaper(c) /\ paper.col = j
    BY <1>1, <1>2, <1>3, BeginAlone DEF WhenDone
  <2>2. paper' = IF j + 1 < Columns THEN [rows |-> put, col |-> j + 1]
                                     ELSE [rows |-> Append(put, EmptyRow), col |-> 0]
    BY <1>2, <1>4, <2>1, OrdinaryChars DEF OnPaper, Put
  <2> QED BY <1>1, <2>1, <2>2, BeginAlone
<1>6. n > 0 /\ row \in AllRows /\ row = n - 1 - Top(n) /\ EmptyRow \in Lines
  BY <1>1, <1>2, PaperFacts, TopFacts DEF WhenDone, InLast
<1>7. put \in Seq(Lines) /\ Len(put) = n /\ put # <<>>
  <2>1. ConsoleTypes /\ n = Len(paper.rows) /\ c \in Cells
    BY <1>1, <1>2 DEF WhenDone, Cells
  <2> QED BY <1>4, <2>1, PutFacts, Zenon
<1>8. /\ DOMAIN background_console' = 0 .. Columns * Rows - 1 /\ ~overrun'
      /\ background_console'[Cell(row, j)] = c
      /\ \A r \in AllRows, k \in AllColumns :
            r # row \/ k # j => background_console'[Cell(r, k)] = background_console[Cell(r, k)]
  <2>1. DOMAIN background_console = 0 .. Columns * Rows - 1
    BY <1>1 DEF ConsoleTypes
  <2>2. colum + row * Columns = Cell(row, j)
    BY <1>3, <1>6, Sizes DEF Cell, AllRows, AllColumns
  <2>3. Write(Cell(row, j), c)
    BY <2>2 DEF PrintChar
  <2> QED BY <1>6, <2>1, <2>3, WriteCell
<1>9. /\ paper'.rows \in Seq(Lines) /\ paper'.rows # <<>> /\ paper'.col \in AllColumns
      /\ \A i \in 1 .. n : paper'.rows[i] = put[i]
  <2>1. CASE j + 1 < Columns
    BY <1>5, <1>7, <2>1, Sizes DEF AllColumns
  <2>2. CASE ~(j + 1 < Columns)
    BY <1>5, <1>6, <1>7, <2>2, AppendProperties, EmptySeq, Sizes DEF AllColumns
  <2> QED BY <2>1, <2>2
<1>10. Shows(n)' /\ InLast(n)'
  <2>1. Puts(n, j, c)
    BY <1>4, <1>9 DEF Puts
  <2>2. ASSUME NEW r \in AllRows, NEW k \in AllColumns
        PROVE  background_console'[Cell(r, k)] = Shown(n, r)'[k + 1]
    <3>1. Shown(n, r)'[k + 1] = IF r = n - 1 - Top(n) /\ k = j THEN c ELSE Shown(n, r)[k + 1]
      BY <1>1, <1>2, <2>1, ShownPut
    <3>2. background_console[Cell(r, k)] = Shown(n, r)[k + 1]
      BY <1>2 DEF WhenDone, Shows
    <3> QED BY <1>6, <1>8, <3>1, <3>2
  <2> QED BY <1>5, <1>6, <2>2 DEF Shows, InLast, Top, AllRows, AllColumns, Cell
<1>11. step \in [Printers -> Steps] /\ "colum" \in Steps
  BY <1>1 DEF ConsoleTypes, Steps
<1>12. \E m \in Nat : m = Len(paper'.rows) /\ step' \in [Printers -> Steps] /\ Alone' /\ Lags(m)'
  <2>1. CASE j + 1 < Columns
    <3>1. WhenInRow(n)'
      BY <1>1, <1>3, <1>5, <1>10, <2>1 DEF WhenInRow
    <3>2. n = Len(paper'.rows)
      BY <1>5, <1>7, <2>1
    <3> QED BY <1>1, <1>5, <1>11, <3>1, <3>2, OneMoves
  <2>2. CASE ~(j + 1 < Columns)
    <3>1. j + 1 = Columns
      BY <2>2, Sizes DEF AllColumns
    <3>2. Len(paper'.rows) = n + 1 /\ paper'.rows[n + 1] = EmptyRow /\ paper'.col = 0
      BY <1>5, <1>6, <1>7, <2>2, AppendProperties
    <3>3. Pending'
      BY <1>6, <3>2 DEF Pending, EmptyRow, Blank
    <3>4. (n + 1) - 1 = n /\ n + 1 \in Nat
      OBVIOUS
    <3>5. WhenAtEnd(n + 1)'
      BY <1>1, <1>3, <1>10, <3>1, <3>3, <3>4 DEF WhenAtEnd
    <3> QED BY <1>1, <1>5, <1>11, <3>2, <3>4, <3>5, OneMoves
  <2> QED BY <2>1, <2>2
<1>13. ConsoleTypes'
  <2>1. row' \in Nat /\ colum' \in AllColumns
    BY <1>1, <1>5 DEF ConsoleTypes
  <2>2. paper' \in [rows : Seq(Lines) \ {<<>>}, col : AllColumns]
    <3>1. paper' = [rows |-> paper'.rows, col |-> paper'.col]
      BY <1>5
    <3> QED BY <1>9, <3>1
  <2> QED BY <1>8, <1>12, <2>1, <2>2 DEF ConsoleTypes, AllColumns, Lines, Cells, Blank, Steps
<1> QED BY <1>12, <1>13 DEF Fine
LEMMA ColumStep == ASSUME Fine, NEW p \in Printers, NextColum(p) PROVE Fine'
<1>1. /\ ConsoleTypes /\ step[p] = "colum" /\ UNCHANGED <<background_console, row, paper, overrun>>
      /\ step \in [Printers -> Steps] /\ {"next", "row"} \subseteq Steps
      /\ \A q \in Printers : q # p => step[q] = "next"
  BY Others DEF Fine, ConsoleTypes, NextColum, Steps
<1>2. PICK n \in Nat : n = Len(paper.rows) /\ (WhenInRow(n) \/ WhenAtEnd(n))
  BY <1>1 DEF Fine, Lags
<1>3. /\ \E m \in Nat : m = Len(paper'.rows) /\ step' \in [Printers -> Steps] /\ Alone' /\ Lags(m)'
      /\ colum' \in AllColumns
  <2>1. CASE WhenInRow(n)
    <3>1. Then(p, "next") /\ colum' = colum + 1 /\ colum' \in AllColumns
      BY <1>1, <2>1, Sizes DEF NextColum, WhenInRow, ConsoleTypes, AllColumns
    <3>2. n > 0
      BY <1>1, <1>2, PaperFacts
    <3>3. Shows(n)'
      BY <1>1, <2>1, <3>2, ShowsSame DEF WhenInRow
    <3>4. WhenDone(n)'
      BY <1>1, <2>1, <3>1, <3>3 DEF WhenDone, WhenInRow, InLast, Top
    <3> QED BY <1>1, <1>2, <3>1, <3>4, OneMoves
  <2>2. CASE WhenAtEnd(n)
    <3>1. Then(p, "row") /\ colum' = 0 /\ colum' \in AllColumns
      BY <1>1, <2>2, Sizes DEF NextColum, WhenAtEnd, ConsoleTypes, AllColumns
    <3>2. n - 1 \in Nat /\ n - 1 > 0
      BY <1>2, <2>2 DEF WhenAtEnd, Pending
    <3>3. \A i \in 1 .. n - 1 : paper'.rows[i] = paper.rows[i]
      BY <1>1
    <3>4. Shows(n - 1)'
      BY <1>1, <2>2, <3>2, <3>3, ShowsSame DEF WhenAtEnd
    <3>5. WhenInNewRow(n)'
      BY <1>1, <2>2, <3>1, <3>4 DEF WhenInNewRow, WhenAtEnd, InLast, Top, Pending, EmptyRow, Blank
    <3> QED BY <1>1, <1>2, <3>1, <3>5, OneMoves
  <2> QED BY <1>2, <2>1, <2>2
<1>4. ConsoleTypes'
  BY <1>1, <1>3 DEF ConsoleTypes
<1> QED BY <1>3, <1>4 DEF Fine

LEMMA RowStep == ASSUME Fine, NEW p \in Printers, NextRow(p) PROVE Fine'
<1>1. /\ ConsoleTypes /\ step[p] = "row" /\ UNCHANGED <<background_console, colum, paper, overrun>>
      /\ step \in [Printers -> Steps] /\ {"next", "scroll"} \subseteq Steps /\ row' = row + 1
      /\ \A q \in Printers : q # p => step[q] = "next"
  BY Others DEF Fine, ConsoleTypes, NextRow, Steps
<1>2. PICK n \in Nat : n = Len(paper.rows) /\ WhenInNewRow(n)
  BY <1>1 DEF Fine, Lags
<1>3. n > 1 /\ n - 1 \in Nat /\ n - 1 > 0 /\ row = n - 2 - Top(n - 1)
  BY <1>2 DEF WhenInNewRow, Pending, InLast
<1>4. Shows(n - 1)'
  <2>1. \A i \in 1 .. n - 1 : paper'.rows[i] = paper.rows[i]
    BY <1>1
  <2> QED BY <1>1, <1>2, <1>3, <2>1, ShowsSame DEF WhenInNewRow
<1>5. Pending' /\ paper'.rows[n] = EmptyRow /\ colum' = 0 /\ paper'.col = 0
  BY <1>1, <1>2 DEF WhenInNewRow, Pending, EmptyRow, Blank
<1>6. \E m \in Nat : m = Len(paper'.rows) /\ step' \in [Printers -> Steps] /\ Alone' /\ Lags(m)'
  <2>1. CASE row + 1 >= Rows
    <3>1. Then(p, "scroll")
      BY <2>1 DEF NextRow
    <3>2. n - 1 >= Rows /\ row' = Rows
      BY <1>1, <1>3, <2>1, TopNext
    <3>3. WhenBelow(n)'
      BY <1>4, <1>5, <3>2 DEF WhenBelow
    <3> QED BY <1>1, <1>2, <3>1, <3>3, OneMoves
  <2>2. CASE ~(row + 1 >= Rows)
    <3>1. Then(p, "next")
      BY <2>2 DEF NextRow
    <3>2. n - 1 < Rows /\ Top(n) = Top(n - 1) /\ row' = n - 1 - Top(n)
      BY <1>1, <1>3, <2>2, TopNext, Sizes
    <3>3. ASSUME NEW r \in AllRows PROVE Shown(n, r)' = Shown(n - 1, r)'
      <4>1. Top(n) \in Nat /\ r \in Nat
        BY <1>3, TopFacts, Sizes DEF AllRows
      <4>2. Top(n)' = Top(n) /\ Top(n - 1)' = Top(n) /\ EmptyRow' = EmptyRow
        BY <3>2 DEF Top, EmptyRow, Blank
      <4>3. CASE Top(n) + r < n - 1
        BY <1>3, <4>1, <4>2, <4>3 DEF Shown
      <4>4. CASE Top(n) + r = n - 1
        BY <1>3, <1>5, <4>1, <4>2, <4>4 DEF Shown
      <4>5. CASE Top(n) + r > n - 1
        BY <1>3, <4>1, <4>2, <4>5 DEF Shown
      <4> QED BY <1>3, <4>1, <4>3, <4>4, <4>5
    <3>4. Shows(n)'
      BY <1>4, <3>3 DEF Shows, AllRows, AllColumns, Cell
    <3>5. WhenDone(n)'
      BY <1>5, <3>2, <3>4 DEF WhenDone, InLast, Top
    <3> QED BY <1>1, <1>2, <3>1, <3>5, OneMoves
  <2> QED BY <2>1, <2>2
<1>7. ConsoleTypes'
  BY <1>1, <1>6 DEF ConsoleTypes
<1> QED BY <1>6, <1>7 DEF Fine

LEMMA ScrollStep == ASSUME Fine, NEW p \in Printers, scroll_bg_console(p) PROVE Fine'
<1>1. /\ ConsoleTypes /\ step[p] = "scroll" /\ UNCHANGED <<colum, paper, overrun>> /\ Then(p, "next")
      /\ step \in [Printers -> Steps] /\ "next" \in Steps /\ row' = row - 1
      /\ \A q \in Printers : q # p => step[q] = "next"
  BY Others DEF Fine, ConsoleTypes, scroll_bg_console, Steps
<1>2. PICK n \in Nat : n = Len(paper.rows) /\ WhenBelow(n)
  BY <1>1 DEF Fine, Lags
<1>3. /\ n > 1 /\ n - 1 \in Nat /\ n - 1 > 0 /\ n - 1 >= Rows /\ row' = Rows - 1
      /\ Top(n) = Top(n - 1) + 1 /\ n - 1 - Top(n) = Rows - 1 /\ Top(n) \in Nat
      /\ paper.rows[n] = EmptyRow /\ colum = 0 /\ paper.col = 0 /\ Shows(n - 1)
  <2>1. /\ n > 1 /\ n - 1 >= Rows /\ row = Rows /\ paper.rows[n] = EmptyRow
        /\ colum = 0 /\ paper.col = 0 /\ Shows(n - 1)
    BY <1>2 DEF WhenBelow, Pending
  <2>2. Top(n) = Top(n - 1) + 1 /\ n - 1 - Top(n) = Rows - 1
    BY <2>1, TopNext
  <2>3. Top(n) \in Nat
    BY <2>1, TopFacts
  <2> QED BY <1>1, <2>1, <2>2, <2>3
<1>4. /\ DOMAIN background_console' = 0 .. Columns * Rows - 1
      /\ \A i \in 0 .. Columns * Rows - 1 :
            background_console'[i] = IF i + Columns \in 0 .. Columns * Rows - 1
                                     THEN background_console[i + Columns] ELSE Blank
  BY <1>1 DEF scroll_bg_console, ConsoleTypes
<1>5. ASSUME NEW r \in AllRows, NEW k \in AllColumns
      PROVE  background_console'[Cell(r, k)] = Shown(n, r)[k + 1]
  <2>1. r \in Nat /\ k \in Nat /\ Top(n) + r < n /\ Top(n) + r + 1 \in 1 .. n
    BY <1>3, Sizes DEF AllRows, AllColumns
  <2>2. Shown(n, r) = paper.rows[Top(n) + r + 1]
    BY <1>3, <2>1, ShownRow
  <2>3. CASE r + 1 \in AllRows
    <3>1. background_console'[Cell(r, k)] = background_console[Cell(r + 1, k)]
      BY <1>4, <2>3, CellIn
    <3>2. background_console[Cell(r + 1, k)] = Shown(n - 1, r + 1)[k + 1]
      BY <1>3, <2>3 DEF Shows
    <3>3. Top(n - 1) + (r + 1) < n - 1
      BY <1>3, <2>1, <2>3, Sizes, TopFacts DEF AllRows
    <3>4. Shown(n - 1, r + 1) = paper.rows[Top(n - 1) + (r + 1) + 1]
      BY <1>3, <2>3, <3>3, ShownRow
    <3>5. Top(n - 1) + (r + 1) + 1 = Top(n) + r + 1
      BY <1>3, <2>1, TopFacts
    <3> QED BY <2>2, <3>1, <3>2, <3>4, <3>5
  <2>4. CASE r + 1 \notin AllRows
    <3>1. background_console'[Cell(r, k)] = Blank
      BY <1>4, <2>4, CellIn
    <3>2. Top(n) + r + 1 = n
      BY <1>3, <2>1, <2>4, Sizes DEF AllRows
    <3>3. EmptyRow[k + 1] = Blank
      BY <2>1, Sizes DEF EmptyRow, AllColumns
    <3> QED BY <1>3, <2>2, <3>1, <3>2, <3>3
  <2> QED BY <2>3, <2>4
<1>6. WhenDone(n)'
  <2>1. \A r \in AllRows : Shown(n, r)' = Shown(n, r)
    BY <1>1, <1>2, <1>3, ShownSame
  <2>2. Shows(n)'
    BY <1>5, <2>1 DEF Shows, AllRows, AllColumns, Cell
  <2> QED BY <1>1, <1>3, <2>2 DEF WhenDone, InLast, Top
<1>7. step' \in [Printers -> Steps] /\ Alone' /\ Lags(n)'
  BY <1>1, <1>6, OneMoves
<1>8. ConsoleTypes'
  <2>1. row' \in Nat
    BY <1>3, Sizes
  <2> QED BY <1>1, <1>4, <1>7, <2>1 DEF ConsoleTypes
<1> QED BY <1>1, <1>2, <1>7, <1>8 DEF Fine

(***************************************************************************)
(* The theorem                                                             *)
(***************************************************************************)
LEMMA InitFine == ConsoleInit => CInv
<1> SUFFICES ASSUME ConsoleInit PROVE Fine
  BY DEF CInv
<1>1. /\ paper = [rows |-> <<EmptyRow>>, col |-> 0] /\ row = 0 /\ colum = 0
      /\ step = [q \in Printers |-> "next"] /\ ~overrun
      /\ background_console = [i \in 0 .. Columns * Rows - 1 |-> Blank]
  BY DEF ConsoleInit
<1>2. EmptyRow \in Lines /\ <<EmptyRow>> \in Seq(Lines) /\ Len(<<EmptyRow>>) = 1 /\ <<EmptyRow>> # <<>>
  BY DEF EmptyRow, Lines, Cells
<1>3. ConsoleTypes
  BY <1>1, <1>2, Sizes DEF ConsoleTypes, Steps, AllColumns
<1>4. Alone
  BY <1>1 DEF Alone
<1>5. WhenDone(1)
  <2>1. Top(1) = 0
    BY Sizes DEF Top
  <2>2. ASSUME NEW r \in AllRows, NEW k \in AllColumns
        PROVE  background_console[Cell(r, k)] = Shown(1, r)[k + 1]
    <3>1. Shown(1, r) = EmptyRow
      BY <1>1, <2>1, Sizes DEF Shown, AllRows
    <3>2. EmptyRow[k + 1] = Blank
      BY Sizes DEF EmptyRow, AllColumns
    <3> QED BY <1>1, <3>1, <3>2, CellIn
  <2>3. Shows(1)
    BY <2>2 DEF Shows
  <2>4. InLast(1) /\ colum = paper.col
    BY <1>1, <2>1 DEF InLast
  <2> QED BY <2>3, <2>4 DEF WhenDone
<1>6. Lags(1)
  BY <1>1, <1>5 DEF Lags
<1> QED BY <1>1, <1>2, <1>3, <1>4, <1>6 DEF Fine

LEMMA NextFine == CInv /\ [ConsoleNext]_consoleVars => CInv'
<1> SUFFICES ASSUME CInv, [ConsoleNext]_consoleVars PROVE CInv'
  OBVIOUS
<1>1. CASE UNCHANGED consoleVars
  <2>1. CASE mixed
    BY <1>1, <2>1 DEF consoleVars, CInv
  <2>2. CASE Fine
    <3>1. UNCHANGED <<background_console, colum, row, step, paper, overrun>>
      BY <1>1 DEF consoleVars
    <3>2. ConsoleTypes' /\ Alone'
      BY <2>2, <3>1 DEF Fine, ConsoleTypes, Alone
    <3>3. PICK n \in Nat : n = Len(paper.rows) /\ Lags(n)
      BY <2>2 DEF Fine
    <3>4. ASSUME NEW m, NEW r PROVE Shown(m, r)' = Shown(m, r)
      BY <3>1 DEF Shown, Top, EmptyRow, Blank
    <3>5. ASSUME NEW m PROVE (Shows(m)' <=> Shows(m)) /\ (InLast(m)' <=> InLast(m)) /\ (Pending' <=> Pending)
      <4>1. Shows(m)' <=> Shows(m)
        BY <3>1, <3>4 DEF Shows, Cell, AllRows, AllColumns
      <4>2. InLast(m)' <=> InLast(m)
        BY <3>1 DEF InLast, Top
      <4>3. Pending' <=> Pending
        BY <3>1 DEF Pending, EmptyRow, Blank
      <4> QED BY <4>1, <4>2, <4>3
    <3>6. WhenErasing(n) => WhenErasing(n)'
      BY <3>1, <3>4, <3>5 DEF WhenErasing, Cell, AllRows, AllColumns
    <3>7. /\ WhenDone(n) => WhenDone(n)'
          /\ WhenInRow(n) => WhenInRow(n)'
          /\ WhenAtEnd(n) => WhenAtEnd(n)'
          /\ WhenInNewRow(n) => WhenInNewRow(n)'
          /\ WhenBelow(n) => WhenBelow(n)'
      BY <3>1, <3>5 DEF WhenDone, WhenInRow, WhenAtEnd, WhenInNewRow, WhenBelow
    <3>8. Lags(n)'
      BY <3>1, <3>3, <3>6, <3>7 DEF Lags
    <3> QED BY <3>1, <3>2, <3>3, <3>8 DEF CInv, Fine
  <2> QED BY <2>1, <2>2 DEF CInv
<1>2. CASE ConsoleNext
  <2> SUFFICES ASSUME ~mixed' PROVE Fine'
    BY DEF CInv
  <2>1. ~mixed
    BY <1>2 DEF ConsoleNext, PrintNewline, PrintBack, PrintChar, Begin, Erase, NextColum, NextRow,
                scroll_bg_console
  <2>2. Fine
    BY <2>1 DEF CInv
  <2>3. PICK p \in Printers :
           \/ PrintNewline(p) \/ PrintBack(p) \/ Erase(p) \/ NextColum(p) \/ NextRow(p)
           \/ scroll_bg_console(p) \/ \E c \in Chars : PrintChar(p, c)
    BY <1>2 DEF ConsoleNext
  <2> QED BY <2>2, <2>3, NewlineStep, BackStep, EraseStep, CharStep, ColumStep, RowStep, ScrollStep
<1> QED BY <1>1, <1>2

\* terminal_renderer.cpp: as long as no task begins a character within another
\* one, print_bg_console stays in its block and the console shows the last rows
\* of all that was printed, for consoles of any size and any number of tasks.
THEOREM ConsoleStaysExact == ConsoleSpec => []ConsoleExact
<1>1. CInv => ConsoleExact
  <2> SUFFICES ASSUME Fine PROVE ConsoleExact
    BY DEF CInv, ConsoleExact
  <2>1. PICK n \in Nat : n = Len(paper.rows) /\ Lags(n)
    BY DEF Fine
  <2> QED BY <2>1 DEF Fine, ConsoleTypes, Lags, WhenDone, Shows, InLast, Cell, AllRows, AllColumns, ConsoleExact
<1> QED BY <1>1, InitFine, NextFine, PTL DEF ConsoleSpec
=============================================================================
