-------------------------- MODULE ShellTextProofs --------------------------
(***************************************************************************)
(* The proofs about what the shell reads, for texts of any length.  Each   *)
(* operator goes over its text with a recursive function.  That there is   *)
(* such a function, and what it is, needs an induction on the text: a set  *)
(* of numbers that has 0 and with each number the next one has them all.   *)
(***************************************************************************)
EXTENDS ShellText, FiniteSetTheorems, SequenceTheorems, WellFoundedInduction, TLAPS

(***************************************************************************)
(* Induction and recursion                                                 *)
(***************************************************************************)
LEMMA MinOfNat ==
    ASSUME NEW S \in SUBSET Nat, S # {}
    PROVE  Min(S) \in S /\ \A i \in S : Min(S) <= i
<1> DEFINE Ranges == { 0 .. i : i \in S }
<1>1. Ranges \subseteq FiniteSubsetsOf(Nat) /\ Ranges # {}
  <2>1. \A i \in S : 0 .. i \in SUBSET Nat /\ IsFiniteSet(0 .. i)
    BY FS_Interval
  <2> QED BY <2>1 DEF FiniteSubsetsOf
<1>2. PICK t \in Ranges : \A u \in Ranges : <<u, t>> \notin StrictSubsetOrdering(Nat)
  BY <1>1, WFMin, FS_StrictSubsetOrderingWellFounded
<1>3. PICK m \in S : t = 0 .. m
  BY <1>2
<1>4. ASSUME NEW i \in S, i < m PROVE FALSE
  <2>1. 0 .. i \in Ranges
    OBVIOUS
  <2>2. 0 .. i \subseteq t /\ m \in t /\ m \notin 0 .. i /\ t \in SUBSET Nat
    BY <1>3, <1>4
  <2>3. <<0 .. i, t>> \in StrictSubsetOrdering(Nat)
    BY <2>2 DEF StrictSubsetOrdering
  <2> QED BY <1>2, <2>1, <2>3
<1>5. \A i \in S : m <= i
  BY <1>4
<1> QED BY <1>5 DEF Min

(* A bounded set of numbers has a largest one.                             *)
LEMMA MaxOfBounded ==
    ASSUME NEW S \in SUBSET Nat, S # {}, NEW n \in Nat, \A i \in S : i <= n
    PROVE  Max(S) \in S /\ \A i \in S : Max(S) >= i
<1> DEFINE Rest == { n - i : i \in S }
<1>1. Rest \in SUBSET Nat /\ Rest # {}
  <2>1. \A i \in S : n - i \in Nat
    OBVIOUS
  <2>2. PICK i \in S : TRUE
    OBVIOUS
  <2>3. n - i \in Rest
    OBVIOUS
  <2>4. \A j \in Rest : j \in Nat
    BY <2>1
  <2> HIDE DEF Rest
  <2> QED BY <2>3, <2>4
<1>2. Min(Rest) \in Rest /\ \A j \in Rest : Min(Rest) <= j
  BY <1>1, MinOfNat
<1>3. PICK m \in S : Min(Rest) = n - m
  BY <1>2
<1>4. \A i \in S : m >= i
  <2> HIDE DEF Rest
  <2> SUFFICES ASSUME NEW i \in S PROVE m >= i
    OBVIOUS
  <2>1. n - i \in Rest
    BY DEF Rest
  <2> QED BY <1>2, <1>3, <2>1
<1> QED BY <1>4 DEF Max

(* The numbers up to n are reached one after the other.                    *)
LEMMA Reached ==
    ASSUME NEW n \in Nat, NEW S, 0 \in S, \A i \in 0 .. n - 1 : i \in S => i + 1 \in S
    PROVE  0 .. n \subseteq S
<1> DEFINE Missing == (0 .. n) \ S
<1> SUFFICES ASSUME Missing # {} PROVE FALSE
  OBVIOUS
<1>1. Missing \in SUBSET Nat
  OBVIOUS
<1>2. PICK m \in Missing : \A i \in Missing : m <= i
  BY <1>1, MinOfNat
<1>3. m \in 1 .. n /\ m - 1 \in 0 .. n - 1
  BY <1>2
<1>4. m - 1 \in S
  BY <1>2, <1>3
<1>5. (m - 1) + 1 \in S
  BY <1>3, <1>4
<1> QED BY <1>2, <1>3, <1>5

(* A step that depends on the value before it and on the position.         *)
Follows(g, n, first, Step) ==
    g[0] = first /\ \A i \in 1 .. n : g[i] = Step[<<g[i - 1], i>>]

(* There is a function that follows any step from any first value.         *)
LEMMA Recursion ==
    ASSUME NEW T, NEW first \in T, NEW n \in Nat, NEW Step \in [T \X (1 .. n) -> T]
    PROVE  \E g \in [0 .. n -> T] : Follows(g, n, first, Step)
<1> DEFINE Good(g, k) == g[0] = first /\ \A i \in 1 .. k : g[i] = Step[<<g[i - 1], i>>]
           S == { k \in 0 .. n : \E g \in [0 .. k -> T] : Good(g, k) }
<1>1. 0 \in S
  <2> DEFINE g == [i \in 0 .. 0 |-> first]
  <2>1. g \in [0 .. 0 -> T] /\ Good(g, 0)
    OBVIOUS
  <2> HIDE DEF g
  <2> QED BY <2>1
<1>2. ASSUME NEW k \in 0 .. n - 1, k \in S PROVE k + 1 \in S
  <2>1. PICK g \in [0 .. k -> T] : Good(g, k)
    BY <1>2
  <2> DEFINE h == [i \in 0 .. k + 1 |-> IF i <= k THEN g[i] ELSE Step[<<g[k], k + 1>>]]
  <2>2. k + 1 \in 1 .. n /\ g[k] \in T
    OBVIOUS
  <2>3. Step[<<g[k], k + 1>>] \in T
    BY <2>2
  <2>4. h \in [0 .. k + 1 -> T]
    BY <2>3
  <2>5. h[0] = first
    BY <2>1
  <2>6. ASSUME NEW i \in 1 .. k + 1 PROVE h[i] = Step[<<h[i - 1], i>>]
    <3>1. CASE i <= k
      <4>1. i \in 1 .. k /\ h[i] = g[i] /\ h[i - 1] = g[i - 1]
        BY <3>1
      <4> QED BY <2>1, <4>1
    <3>2. CASE i = k + 1
      <4>1. h[i] = Step[<<g[k], k + 1>>] /\ h[i - 1] = g[k]
        BY <3>2
      <4> QED BY <3>2, <4>1
    <3> QED BY <3>1, <3>2
  <2> HIDE DEF h
  <2>7. Good(h, k + 1)
    BY <2>5, <2>6
  <2> QED BY <2>4, <2>7
<1> HIDE DEF S
<1>3. n \in S
  BY <1>1, <1>2, Reached
<1> QED BY <1>3 DEF S, Follows

(* What is defined by such a recursion.                                    *)
LEMMA IsRecursion ==
    ASSUME NEW n \in Nat, NEW T, NEW Step \in [T \X (1 .. n) -> T], NEW f,
           DOMAIN f = 0 .. n, f = [i \in 0 .. n |-> f[i]], f[0] \in T,
           \A i \in 1 .. n : f[i - 1] \in T => f[i] = Step[<<f[i - 1], i>>]
    PROVE  f \in [0 .. n -> T] /\ \A i \in 1 .. n : f[i] = Step[<<f[i - 1], i>>]
<1> DEFINE S == { i \in 0 .. n : f[i] \in T }
<1>1. 0 \in S
  OBVIOUS
<1>2. ASSUME NEW i \in 0 .. n - 1, i \in S PROVE i + 1 \in S
  <2>1. i + 1 \in 1 .. n /\ (i + 1) - 1 = i
    OBVIOUS
  <2>2. f[i + 1] = Step[<<f[i], i + 1>>]
    BY <1>2, <2>1
  <2>3. <<f[i], i + 1>> \in T \X (1 .. n)
    BY <1>2, <2>1
  <2> QED BY <1>2, <2>1, <2>2, <2>3
<1>3. 0 .. n \subseteq S
  <2> HIDE DEF S
  <2> QED BY <1>1, <1>2, Reached
<1>4. \A i \in 0 .. n : f[i] \in T
  BY <1>3
<1>5. f \in [0 .. n -> T]
  BY <1>4
<1>6. \A i \in 1 .. n : i - 1 \in 0 .. n
  OBVIOUS
<1> QED BY <1>4, <1>5, <1>6

(***************************************************************************)
(* The recursive functions of the model                                    *)
(***************************************************************************)
PieceStep(text, cuts, before, i) ==
    IF i \in cuts THEN Append(before, <<>>)
    ELSE Append(Front(before), Append(Last(before), text[i]))
SomePieces(X) == Seq(Seq(X)) \ {<<>>}

(* One character more leaves a non-empty list of pieces.                   *)
LEMMA PieceStepTyped ==
    ASSUME NEW X, NEW text \in Seq(X), NEW cuts, NEW before \in SomePieces(X),
           NEW i \in 1 .. Len(text)
    PROVE  PieceStep(text, cuts, before, i) \in SomePieces(X)
<1>1. text[i] \in X
  OBVIOUS
<1>2. Len(before) \in Nat \ {0} /\ before \in Seq(Seq(X)) /\ <<>> \in Seq(X)
  BY EmptySeq DEF SomePieces
<1>3. Last(before) \in Seq(X)
  BY <1>2 DEF Last
<1>4. Front(before) \in Seq(Seq(X))
  BY <1>2 DEF Front
<1>5. Append(Last(before), text[i]) \in Seq(X)
  BY <1>1, <1>3
<1>6. ASSUME NEW pieces \in Seq(Seq(X)), NEW piece \in Seq(X)
      PROVE  Append(pieces, piece) \in SomePieces(X)
  <2> DEFINE Z == Seq(X)
  <2> HIDE DEF Z
  <2>1. Append(pieces, piece) \in Seq(Z) \ {<<>>}
    BY <1>6, AppendProperties DEF Z
  <2> QED BY <2>1 DEF SomePieces, Z
<1> QED BY <1>2, <1>4, <1>5, <1>6 DEF PieceStep

(* Pieces goes over the text one character at a time.                      *)
LEMMA PiecesAre ==
    ASSUME NEW X, NEW text \in Seq(X), NEW cuts \in SUBSET (1 .. Len(text))
    PROVE  \E g \in [0 .. Len(text) -> SomePieces(X)] :
              /\ Pieces(text, cuts) = g[Len(text)] /\ g[0] = << <<>> >>
              /\ \A i \in 1 .. Len(text) : g[i] = PieceStep(text, cuts, g[i - 1], i)
<1> DEFINE n == Len(text)
           T == SomePieces(X)
           one == << <<>> >>
           Step == [p \in T \X (1 .. n) |-> PieceStep(text, cuts, p[1], p[2])]
           Body(h, i) == CASE i = 0 -> << <<>> >>
                           [] i \in cuts -> Append(h[i - 1], <<>>)
                           [] OTHER -> Append(Front(h[i - 1]), Append(Last(h[i - 1]), text[i]))
           P(h) == h = [i \in 0 .. Len(text) |-> Body(h, i)]
           f == CHOOSE h : P(h)
<1>1. n \in Nat /\ one \in T
  BY EmptySeq DEF SomePieces
<1>2. Step \in [T \X (1 .. n) -> T]
  BY PieceStepTyped
<1>3. \A before \in T, i \in 1 .. n : Step[<<before, i>>] = PieceStep(text, cuts, before, i)
  OBVIOUS
<1>4. \A h : Body(h, 0) = one
  BY <1>1
<1>5. ASSUME NEW h, NEW i \in 1 .. n PROVE Body(h, i) = PieceStep(text, cuts, h[i - 1], i)
  BY <1>1 DEF PieceStep
<1> HIDE DEF n, T, one, Step, Body
<1>6. PICK g \in [0 .. n -> T] : Follows(g, n, one, Step)
  BY <1>1, <1>2, Recursion, Zenon
<1>7. P(g)
  <2>1. ASSUME NEW i \in 0 .. n PROVE g[i] = Body(g, i)
    <3>1. CASE i = 0
      BY <1>4, <1>6, <3>1 DEF Follows
    <3>2. CASE i \in 1 .. n
      <4>1. i - 1 \in 0 .. n
        BY <1>1, <3>2
      <4>2. g[i] = PieceStep(text, cuts, g[i - 1], i)
        BY <1>3, <1>6, <3>2, <4>1 DEF Follows
      <4> QED BY <1>5, <3>2, <4>2
    <3> QED BY <1>1, <3>1, <3>2
  <2> QED BY <2>1 DEF n
<1> HIDE DEF P
<1>8. P(f)
  BY <1>7, Zenon
<1>9. Pieces(text, cuts) = f[n]
  BY Zenon DEF Pieces, P, n, Body
<1> HIDE DEF f
<1>10. DOMAIN f = 0 .. n /\ f = [i \in 0 .. n |-> f[i]] /\ \A i \in 0 .. n : f[i] = Body(f, i)
  BY <1>8 DEF P, n
<1>11. f[0] = one /\ \A i \in 1 .. n : f[i] = PieceStep(text, cuts, f[i - 1], i)
  BY <1>1, <1>4, <1>5, <1>10
<1>12. f \in [0 .. n -> T]
  <2>1. \A i \in 1 .. n : f[i - 1] \in T => f[i] = Step[<<f[i - 1], i>>]
    BY <1>3, <1>11
  <2> QED BY <1>1, <1>2, <1>10, <1>11, <2>1, IsRecursion
<1> QED BY <1>9, <1>11, <1>12 DEF n, T, one

(***************************************************************************)
(* tab_complete: candidates begin with the word, and end within the array  *)
(* their name comes in.                                                    *)
(***************************************************************************)
CandidateChars == NameChars \cup {"/"}
AddedChars == CandidateChars \cup {" "}
TypedChars == AddedChars \cup Keys
Offered(command) ==
    { name \in Seq(CandidateChars) : /\ Len(command) < MAX_DIR_NAME_LENGTH
                                     /\ Len(name) <= MAX_DIR_NAME_LENGTH /\ IsPrefix(command, name) }
Slash(dir, i) == IF dir[i].isDir THEN <<"/">> ELSE <<>>
Named(dir, i) == dir[i].name \o Slash(dir, i)
CandidateStep(dir, command, before, i) ==
    IF IsPrefix(command, dir[i].name) THEN Append(before, Named(dir, i)) ELSE before

(* What a part of a sequence is: its length and its elements.              *)
LEMMA PartOf ==
    ASSUME NEW X, NEW s \in Seq(X), NEW a \in Nat \ {0}, NEW b \in Int, b <= Len(s)
    PROVE  /\ SubSeq(s, a, b) \in Seq(X)
           /\ Len(SubSeq(s, a, b)) = IF a <= b THEN b - a + 1 ELSE 0
           /\ \A i \in 1 .. b - a + 1 : SubSeq(s, a, b)[i] = s[a + i - 1]
<1>1. Len(s) \in Nat /\ \A i \in 1 .. Len(s) : s[i] \in X
  BY ElementOfSeq
<1>2. \A i \in a .. b : s[i] \in X
  BY <1>1
<1> QED BY <1>2, SubSeqProperties

(* A prefix, element by element.                                           *)
LEMMA PrefixIs ==
    ASSUME NEW X, NEW s \in Seq(X), NEW t \in Seq(X)
    PROVE  IsPrefix(s, t) <=> Len(s) <= Len(t) /\ \A i \in 1 .. Len(s) : s[i] = t[i]
<1> DEFINE n == Len(s)
<1>1. n \in Nat /\ Len(t) \in Nat
  BY LenProperties
<1>2. SubSeq(s, 1, n) = s
  BY SubSeqFull
<1>3. CASE n <= Len(t)
  <2> HIDE DEF n
  <2>1. /\ SubSeq(t, 1, n) \in Seq(X) /\ Len(SubSeq(t, 1, n)) = IF 1 <= n THEN (n - 1) + 1 ELSE 0
        /\ \A i \in 1 .. (n - 1) + 1 : SubSeq(t, 1, n)[i] = t[(1 + i) - 1]
    BY <1>1, <1>3, PartOf
  <2>2. Len(SubSeq(t, 1, n)) = n /\ \A i \in 1 .. n : SubSeq(t, 1, n)[i] = t[i]
    BY <1>1, <2>1
  <2>3. s = SubSeq(t, 1, n) <=> \A i \in 1 .. n : s[i] = t[i]
    <3>1. ASSUME s = SubSeq(t, 1, n), NEW i \in 1 .. n PROVE s[i] = t[i]
      BY <2>2, <3>1
    <3>2. ASSUME \A i \in 1 .. n : s[i] = t[i] PROVE s = SubSeq(t, 1, n)
      <4>1. Len(s) = Len(SubSeq(t, 1, n)) /\ \A i \in 1 .. Len(s) : s[i] = SubSeq(t, 1, n)[i]
        BY <2>2, <3>2 DEF n
      <4> QED BY <2>1, <4>1, SeqEqual
    <3> QED BY <3>1, <3>2
  <2> QED BY <1>2, <1>3, <2>3, Zenon DEF IsPrefix, n
<1>4. CASE ~(n <= Len(t))
  BY <1>4 DEF IsPrefix
<1> QED BY <1>3, <1>4

(* A prefix stays one when the sequence grows behind it.                   *)
LEMMA PrefixOfLonger ==
    ASSUME NEW X, NEW s \in Seq(X), NEW t \in Seq(X), NEW u \in Seq(X), IsPrefix(s, t)
    PROVE  IsPrefix(s, t \o u)
<1>1. Len(s) <= Len(t) /\ SubSeq(s, 1, Len(s)) = SubSeq(t, 1, Len(s))
  BY DEF IsPrefix
<1>2. Len(t \o u) = Len(t) + Len(u) /\ Len(s) \in Nat /\ Len(t) \in Nat /\ Len(u) \in Nat
  OBVIOUS
<1>3. SubSeq(t \o u, 1, Len(s)) = SubSeq(t, 1, Len(s))
  <2>1. CASE Len(s) = 0
    BY <2>1, SubSeqEmpty
  <2>2. CASE Len(s) # 0
    <3>1. 1 \in 1 .. Len(t) /\ Len(s) \in 1 .. Len(t)
      BY <1>1, <1>2, <2>2
    <3> QED BY <3>1, SubSeqOfConcat1
  <2> QED BY <2>1, <2>2
<1> QED BY <1>1, <1>2, <1>3 DEF IsPrefix

(* The name of an entry with its slash, as a directory lists it.           *)
LEMMA NamedIs ==
    ASSUME NEW dir, IsDirectory(dir), NEW i \in 1 .. Len(dir)
    PROVE  /\ dir[i].name \in Seq(NameChars) /\ Len(dir[i].name) < MAX_DIR_NAME_LENGTH
           /\ dir[i].name \in Seq(CandidateChars) /\ Slash(dir, i) \in Seq(CandidateChars)
           /\ Named(dir, i) \in Seq(CandidateChars) /\ Len(Named(dir, i)) <= MAX_DIR_NAME_LENGTH
           /\ Len(Slash(dir, i)) \in 0 .. 1 /\ Len(Named(dir, i)) = Len(dir[i].name) + Len(Slash(dir, i))
           /\ \A k \in 1 .. Len(dir[i].name) : Named(dir, i)[k] = dir[i].name[k]
           /\ Len(Slash(dir, i)) = 1 => Named(dir, i)[Len(dir[i].name) + 1] = "/"
<1> DEFINE name == dir[i].name
           slash == Slash(dir, i)
<1>1. name \in Seq(NameChars) /\ Len(name) < MAX_DIR_NAME_LENGTH
  <2>1. dir \in Seq([name : Seq(NameChars), isDir : BOOLEAN]) /\ i \in DOMAIN dir
    BY DEF IsDirectory
  <2>2. dir[i] \in [name : Seq(NameChars), isDir : BOOLEAN]
    <3> DEFINE E == [name : Seq(NameChars), isDir : BOOLEAN]
    <3> HIDE DEF E
    <3>1. dir \in Seq(E)
      BY <2>1 DEF E
    <3>2. dir[i] \in E
      BY <3>1, ElementOfSeq
    <3> QED BY <3>2 DEF E
  <2> QED BY <2>1, <2>2 DEF IsDirectory
<1>2. name \in Seq(CandidateChars)
  BY <1>1, SeqMonotonic DEF CandidateChars
<1>3. slash \in Seq(CandidateChars) /\ Len(slash) \in 0 .. 1 /\ (Len(slash) = 1 => slash[1] = "/")
  <2>1. <<"/">> \in Seq(CandidateChars) /\ Len(<<"/">>) = 1 /\ <<"/">>[1] = "/"
    BY DEF CandidateChars
  <2>2. <<>> \in Seq(CandidateChars) /\ Len(<<>>) = 0
    BY EmptySeq
  <2> QED BY <2>1, <2>2 DEF Slash
<1>4. Named(dir, i) = name \o slash
  BY DEF Named
<1> HIDE DEF name, slash
<1>5. /\ Len(name \o slash) = Len(name) + Len(slash) /\ name \o slash \in Seq(CandidateChars)
      /\ \A k \in 1 .. Len(name) + Len(slash) :
            (name \o slash)[k] = IF k <= Len(name) THEN name[k] ELSE slash[k - Len(name)]
  BY <1>2, <1>3, ConcatProperties
<1>6. Len(name) \in Nat
  BY <1>1
<1>7. Len(name \o slash) <= MAX_DIR_NAME_LENGTH
  <2>1. \A l \in Nat, k \in 0 .. 1 : l < MAX_DIR_NAME_LENGTH => l + k <= MAX_DIR_NAME_LENGTH
    BY LineAssumption
  <2> QED BY <1>1, <1>3, <1>5, <1>6, <2>1
<1>8. \A k \in 1 .. Len(name) : (name \o slash)[k] = name[k]
  <2>1. \A k \in 1 .. Len(name) : k \in 1 .. Len(name) + Len(slash) /\ k <= Len(name)
    BY <1>3, <1>6
  <2> QED BY <1>5, <2>1
<1>9. ASSUME Len(slash) = 1 PROVE (name \o slash)[Len(name) + 1] = "/"
  <2> DEFINE k == Len(name) + 1
  <2>1. k \in 1 .. Len(name) + Len(slash) /\ ~(k <= Len(name)) /\ k - Len(name) = 1
    BY <1>6, <1>9
  <2> HIDE DEF k
  <2>2. (name \o slash)[k] = slash[1]
    BY <1>5, <2>1
  <2> QED BY <1>3, <1>9, <2>2 DEF k
<1> QED BY <1>1, <1>2, <1>3, <1>4, <1>5, <1>7, <1>8, <1>9, Zenon DEF name, slash

(* One entry more leaves a list of names that begin with the command.      *)
LEMMA CandidateStepTyped ==
    ASSUME NEW dir, IsDirectory(dir), NEW command \in Seq(TypedChars),
           NEW before \in Seq(Offered(command)), NEW i \in 1 .. Len(dir)
    PROVE  CandidateStep(dir, command, before, i) \in Seq(Offered(command))
<1> DEFINE name == dir[i].name
           slash == Slash(dir, i)
<1>1. /\ name \in Seq(CandidateChars) /\ slash \in Seq(CandidateChars)
      /\ Named(dir, i) \in Seq(CandidateChars) /\ Len(Named(dir, i)) <= MAX_DIR_NAME_LENGTH
      /\ Len(name) < MAX_DIR_NAME_LENGTH
  BY NamedIs
<1> HIDE DEF name, slash
<1>2. CASE IsPrefix(command, dir[i].name)
  <2>1. name \in Seq(TypedChars) /\ slash \in Seq(TypedChars)
    <3>1. CandidateChars \subseteq TypedChars
      BY DEF TypedChars, AddedChars
    <3> QED BY <1>1, <3>1, SeqMonotonic
  <2>2. IsPrefix(command, Named(dir, i))
    BY <1>2, <2>1, PrefixOfLonger DEF name, slash, Named
  <2>3. Len(command) < MAX_DIR_NAME_LENGTH
    <3>1. Len(command) <= Len(name) /\ Len(command) \in Nat /\ Len(name) \in Nat
      BY <1>2, <2>1, LenProperties DEF IsPrefix, name
    <3> QED BY <1>1, <3>1, LineAssumption
  <2>4. Named(dir, i) \in Offered(command)
    BY <1>1, <2>2, <2>3 DEF Offered
  <2>5. Append(before, Named(dir, i)) \in Seq(Offered(command))
    BY <2>4, AppendProperties
  <2> QED BY <1>2, <2>5 DEF CandidateStep
<1>3. CASE ~IsPrefix(command, dir[i].name)
  BY <1>3 DEF CandidateStep
<1> QED BY <1>2, <1>3

(* Candidates goes over the directory one entry at a time.                 *)
LEMMA CandidatesAre ==
    ASSUME NEW dir, IsDirectory(dir), NEW command \in Seq(TypedChars)
    PROVE  \E g \in [0 .. Len(dir) -> Seq(Offered(command))] :
              /\ Candidates(dir, command) = g[Len(dir)] /\ g[0] = <<>>
              /\ \A i \in 1 .. Len(dir) : g[i] = CandidateStep(dir, command, g[i - 1], i)
<1> DEFINE n == Len(dir)
           T == Seq(Offered(command))
           none == <<>>
           Step == [p \in T \X (1 .. n) |-> CandidateStep(dir, command, p[1], p[2])]
           Body(h, i) ==
              CASE i = 0 -> <<>>
                [] i > 0 /\ IsPrefix(command, dir[i].name) ->
                      Append(h[i - 1], dir[i].name \o (IF dir[i].isDir THEN <<"/">> ELSE <<>>))
                [] OTHER -> h[i - 1]
           P(h) == h = [i \in 0 .. Len(dir) |-> Body(h, i)]
           f == CHOOSE h : P(h)
<1>1. n \in Nat /\ none \in T
  BY EmptySeq DEF IsDirectory
<1>2. Step \in [T \X (1 .. n) -> T]
  BY CandidateStepTyped
<1>3. \A before \in T, i \in 1 .. n : Step[<<before, i>>] = CandidateStep(dir, command, before, i)
  OBVIOUS
<1>4. \A h : Body(h, 0) = none
  OBVIOUS
<1>5. ASSUME NEW h, NEW i \in 1 .. n PROVE Body(h, i) = CandidateStep(dir, command, h[i - 1], i)
  BY <1>1 DEF CandidateStep, Named, Slash
<1> HIDE DEF n, T, none, Step, Body
<1>6. PICK g \in [0 .. n -> T] : Follows(g, n, none, Step)
  BY <1>1, <1>2, Recursion, Zenon
<1>7. P(g)
  <2>1. ASSUME NEW i \in 0 .. n PROVE g[i] = Body(g, i)
    <3>1. CASE i = 0
      BY <1>4, <1>6, <3>1 DEF Follows
    <3>2. CASE i \in 1 .. n
      <4>1. i - 1 \in 0 .. n
        BY <1>1, <3>2
      <4>2. g[i] = CandidateStep(dir, command, g[i - 1], i)
        BY <1>3, <1>6, <3>2, <4>1 DEF Follows
      <4> QED BY <1>5, <3>2, <4>2
    <3> QED BY <1>1, <3>1, <3>2
  <2> QED BY <2>1 DEF n
<1> HIDE DEF P
<1>8. P(f)
  BY <1>7, Zenon
<1>9. Candidates(dir, command) = f[n]
  BY Zenon DEF Candidates, P, n, Body
<1> HIDE DEF f
<1>10. DOMAIN f = 0 .. n /\ f = [i \in 0 .. n |-> f[i]] /\ \A i \in 0 .. n : f[i] = Body(f, i)
  BY <1>8 DEF P, n
<1>11. f[0] = none /\ \A i \in 1 .. n : f[i] = CandidateStep(dir, command, f[i - 1], i)
  BY <1>1, <1>4, <1>5, <1>10
<1>12. f \in [0 .. n -> T]
  <2>1. \A i \in 1 .. n : f[i - 1] \in T => f[i] = Step[<<f[i - 1], i>>]
    BY <1>3, <1>11
  <2> QED BY <1>1, <1>2, <1>10, <1>11, <2>1, IsRecursion
<1> QED BY <1>9, <1>11, <1>12 DEF T, n, none

(* Every candidate fits in its array and begins with the command.          *)
LEMMA CandidatesOffered ==
    ASSUME NEW dir, IsDirectory(dir), NEW command \in Seq(TypedChars)
    PROVE  Candidates(dir, command) \in Seq(Offered(command))
<1>1. Len(dir) \in 0 .. Len(dir)
  BY DEF IsDirectory
<1> QED BY <1>1, CandidatesAre

(* No two candidates are the same.                                         *)
LEMMA NamedDiffer ==
    ASSUME NEW dir, IsDirectory(dir), NEW i \in 1 .. Len(dir), NEW j \in 1 .. Len(dir),
           Named(dir, i) = Named(dir, j)
    PROVE  i = j
<1> DEFINE a == dir[i].name
           b == dir[j].name
<1>1. "/" \notin NameChars
  BY TextAssumption
<1>2. /\ a \in Seq(NameChars) /\ Len(Slash(dir, i)) \in 0 .. 1
      /\ Len(Named(dir, i)) = Len(a) + Len(Slash(dir, i))
      /\ \A k \in 1 .. Len(a) : Named(dir, i)[k] = a[k]
      /\ Len(Slash(dir, i)) = 1 => Named(dir, i)[Len(a) + 1] = "/"
  BY NamedIs
<1>3. /\ b \in Seq(NameChars) /\ Len(Slash(dir, j)) \in 0 .. 1
      /\ Len(Named(dir, j)) = Len(b) + Len(Slash(dir, j))
      /\ \A k \in 1 .. Len(b) : Named(dir, j)[k] = b[k]
      /\ Len(Slash(dir, j)) = 1 => Named(dir, j)[Len(b) + 1] = "/"
  BY NamedIs
<1>4. a = b => i = j
  <2>1. DOMAIN dir = 1 .. Len(dir)
    BY LenProperties DEF IsDirectory
  <2> QED BY <2>1 DEF IsDirectory
<1> HIDE DEF a, b
<1>5. Len(a) \in Nat /\ Len(b) \in Nat
  BY <1>2, <1>3, LenProperties
<1>6. \A k \in 1 .. Len(a) : a[k] \in NameChars
  BY <1>2, ElementOfSeq
<1>7. \A k \in 1 .. Len(b) : b[k] \in NameChars
  BY <1>3, ElementOfSeq
<1> DEFINE p == Len(Slash(dir, i))
           q == Len(Slash(dir, j))
<1>11. p \in 0 .. 1 /\ q \in 0 .. 1 /\ Len(a) + p = Len(b) + q
  BY <1>2, <1>3
<1>12. \A m \in Nat, l \in Nat : \A x, y \in 0 .. 1 :
          m + x = l + y /\ m < l => l = m + 1 /\ x = 1 /\ l \in 1 .. l
  OBVIOUS
<1> HIDE DEF p, q
<1>8. CASE Len(a) = Len(b)
  <2>1. \A k \in 1 .. Len(a) : a[k] = b[k]
    BY <1>2, <1>3, <1>8
  <2> QED BY <1>2, <1>3, <1>4, <1>8, <2>1, SeqEqual
<1>9. CASE Len(a) < Len(b)
  <2>1. Len(b) = Len(a) + 1 /\ p = 1 /\ Len(b) \in 1 .. Len(b)
    BY <1>5, <1>9, <1>11, <1>12
  <2>2. b[Len(b)] = "/"
    BY <1>2, <1>3, <2>1 DEF p
  <2> QED BY <1>1, <1>7, <2>1, <2>2
<1>10. CASE Len(b) < Len(a)
  <2>1. Len(a) = Len(b) + 1 /\ q = 1 /\ Len(a) \in 1 .. Len(a)
    BY <1>5, <1>10, <1>11, <1>12
  <2>2. a[Len(a)] = "/"
    BY <1>2, <1>3, <2>1 DEF q
  <2> QED BY <1>1, <1>6, <2>1, <2>2
<1> QED BY <1>5, <1>8, <1>9, <1>10

(* No candidate is listed twice, because no name is in a directory twice.  *)
LEMMA CandidatesDiffer ==
    ASSUME NEW dir, IsDirectory(dir), NEW command \in Seq(TypedChars),
           NEW k \in DOMAIN Candidates(dir, command), NEW m \in DOMAIN Candidates(dir, command),
           Candidates(dir, command)[k] = Candidates(dir, command)[m]
    PROVE  k = m
<1> DEFINE n == Len(dir)
           T == Seq(Offered(command))
           Good(list, i) ==
              /\ \A p \in 1 .. Len(list) : \E j \in 1 .. i : list[p] = Named(dir, j)
              /\ \A p, q \in 1 .. Len(list) : list[p] = list[q] => p = q
<1>1. n \in Nat
  BY DEF IsDirectory
<1>2. PICK g \in [0 .. n -> T] : /\ Candidates(dir, command) = g[n] /\ g[0] = <<>>
                                 /\ \A i \in 1 .. n : g[i] = CandidateStep(dir, command, g[i - 1], i)
  BY CandidatesAre
<1>3. \A i, j \in 1 .. n : Named(dir, i) = Named(dir, j) => i = j
  BY NamedDiffer
<1> HIDE DEF n, T
<1> DEFINE S == { i \in 0 .. n : Good(g[i], i) }
<1>4. 0 \in S
  <2>1. Len(g[0]) = 0
    BY <1>2, EmptySeq
  <2> QED BY <1>1, <2>1
<1>5. ASSUME NEW i \in 0 .. n - 1, i \in S PROVE i + 1 \in S
  <2>1. i + 1 \in 1 .. n /\ (i + 1) - 1 = i /\ i + 1 \in 0 .. n /\ i \in 0 .. n /\ 1 .. i \subseteq 1 .. i + 1
    BY <1>1
  <2> DEFINE old == g[i]
             new == g[i + 1]
             named == Named(dir, i + 1)
  <2>2. new = IF IsPrefix(command, dir[i + 1].name) THEN Append(old, named) ELSE old
    BY <1>2, <2>1 DEF CandidateStep
  <2>3. old \in T /\ Len(old) \in Nat
    BY <2>1, LenProperties DEF T
  <2>4. Good(old, i)
    BY <1>5
  <2>5. \A j \in 1 .. i : Named(dir, j) # named
    <3>1. \A j \in 1 .. i : j \in 1 .. n /\ j # i + 1
      BY <1>1
    <3> QED BY <1>3, <2>1, <3>1
  <2> HIDE DEF old, new, named
  <2>6. CASE new = old
    <3>1. Good(new, i + 1)
      BY <2>1, <2>4, <2>6
    <3> QED BY <2>1, <3>1 DEF new
  <2>7. CASE new = Append(old, named)
    <3> DEFINE l == Len(old)
    <3>1. Len(new) = l + 1 /\ new[l + 1] = named /\ \A p \in 1 .. l : new[p] = old[p]
      BY <2>3, <2>7, AppendProperties DEF T
    <3>2. ASSUME NEW p \in 1 .. l + 1 PROVE p \in 1 .. l \/ p = l + 1
      BY <2>3
    <3> HIDE DEF l
    <3>3. \A p \in 1 .. l : \E j \in 1 .. i : new[p] = Named(dir, j)
      BY <2>4, <3>1 DEF l
    <3>4. \A p \in 1 .. l + 1 : \E j \in 1 .. i + 1 : new[p] = Named(dir, j)
      <4>1. i + 1 \in 1 .. i + 1
        BY <1>1
      <4> QED BY <2>1, <3>1, <3>2, <3>3, <4>1 DEF named
    <3>5. \A p \in 1 .. l : new[p] # named
      BY <2>5, <3>3
    <3>6. \A p, q \in 1 .. l + 1 : new[p] = new[q] => p = q
      <4>1. \A p, q \in 1 .. l : new[p] = new[q] => p = q
        BY <2>4, <3>1 DEF l
      <4> QED BY <3>1, <3>2, <3>5, <4>1
    <3>7. Good(new, i + 1)
      BY <3>1, <3>4, <3>6
    <3> QED BY <2>1, <3>7 DEF new
  <2> QED BY <2>2, <2>6, <2>7
<1> HIDE DEF S
<1>6. n \in S
  <2>1. 0 .. n \subseteq S
    BY <1>1, <1>4, <1>5, Reached
  <2> QED BY <1>1, <2>1
<1>7. DOMAIN g[n] = 1 .. Len(g[n])
  <2>1. g[n] \in T
    BY <1>1
  <2> QED BY <2>1, LenProperties DEF T
<1>8. \A p, q \in 1 .. Len(g[n]) : g[n][p] = g[n][q] => p = q
  BY <1>6 DEF S
<1>9. k \in DOMAIN g[n] /\ m \in DOMAIN g[n] /\ g[n][k] = g[n][m]
  BY <1>2
<1> QED BY <1>7, <1>8, <1>9

(* How far the characters of the candidates are copied.                    *)
SameAt(names, i) == \A k \in DOMAIN names : CharAt(names[k], i) = CharAt(names[1], i)
Limit(extra_size) == IF extra_size < MAX_DIR_NAME_LENGTH THEN extra_size ELSE MAX_DIR_NAME_LENGTH

(* The copying loop stops at the first place where the names differ, or at *)
(* its limit.                                                              *)
LEMMA CopiedIs ==
    ASSUME NEW names, names # <<>>, NEW start \in Nat, NEW extra_size \in Nat
    PROVE  /\ Copied(names, start, extra_size) \in 0 .. MAX_DIR_NAME_LENGTH
           /\ \A i \in start + 1 .. start + Copied(names, start, extra_size) :
                 i <= Limit(extra_size) /\ SameAt(names, i)
           /\ ~(/\ start + Copied(names, start, extra_size) + 1 <= Limit(extra_size)
                /\ SameAt(names, start + Copied(names, start, extra_size) + 1))
<1> DEFINE Same(i) == SameAt(names, i)
           limit == Limit(extra_size)
           Some(n) == \A i \in start + 1 .. start + n : i <= limit /\ Same(i)
           More(n) == start + n + 1 <= limit /\ Same(start + n + 1)
           S == { n \in 0 .. MAX_DIR_NAME_LENGTH : Some(n) }
<1>1. MAX_DIR_NAME_LENGTH \in Nat /\ limit \in Nat /\ limit <= MAX_DIR_NAME_LENGTH
  BY LineAssumption DEF Limit
<1> HIDE DEF Same, limit
<1>2. 0 \in S
  BY <1>1
<1>3. S \in SUBSET Nat /\ \A n \in S : n <= MAX_DIR_NAME_LENGTH
  BY <1>1
<1>4. PICK m \in S : \A n \in S : m >= n
  <2> HIDE DEF S
  <2> QED BY <1>1, <1>2, <1>3, MaxOfBounded
<1>5. ~More(m)
  <2> SUFFICES ASSUME More(m) PROVE FALSE
    OBVIOUS
  <2>1. m + 1 \in 0 .. MAX_DIR_NAME_LENGTH
    BY <1>1
  <2>2. Some(m + 1)
    <3> SUFFICES ASSUME NEW i \in start + 1 .. start + (m + 1) PROVE i <= limit /\ Same(i)
      OBVIOUS
    <3>1. i \in start + 1 .. start + m \/ i = start + m + 1
      BY <1>1
    <3> QED BY <3>1
  <2>3. m + 1 \in S
    BY <2>1, <2>2
  <2> QED BY <1>4, <2>3
<1>6. Some(m) /\ m \in 0 .. MAX_DIR_NAME_LENGTH
  OBVIOUS
<1> DEFINE n == CHOOSE n \in 0 .. MAX_DIR_NAME_LENGTH : Some(n) /\ ~More(n)
<1>7. Copied(names, start, extra_size) = n
  BY DEF Copied, Same, SameAt, limit, Limit
<1> HIDE DEF Some, More
<1>8. n \in 0 .. MAX_DIR_NAME_LENGTH /\ Some(n) /\ ~More(n)
  BY <1>5, <1>6
<1> QED BY <1>7, <1>8 DEF Some, More, Same, limit

(* What is taken fits in the room there is, and is part of the candidates. *)
LEMMA TakenFits ==
    ASSUME NEW names \in Seq(Seq(CandidateChars)), NEW start \in Nat, NEW extra_size \in Nat,
           Copied(names, start, extra_size) > 0
    PROVE  /\ Taken(names, start, Copied(names, start, extra_size)) \in Seq(CandidateChars)
           /\ Len(Taken(names, start, Copied(names, start, extra_size))) <= extra_size
<1> DEFINE n == Copied(names, start, extra_size)
<1>1. names # <<>>
  BY DEF Copied
<1>2. n \in 0 .. MAX_DIR_NAME_LENGTH /\ \A i \in start + 1 .. start + n : i <= Limit(extra_size)
  BY <1>1, CopiedIs
<1> HIDE DEF n
<1>3. names[1] \in Seq(CandidateChars) /\ Len(names[1]) \in Nat
  <2>1. names[1] \in Seq(CandidateChars)
    BY <1>1, EmptySeq, ElementOfSeq
  <2> QED BY <2>1
<1>4. start + n <= extra_size
  <2>1. n \in Nat /\ n > 0
    BY <1>2, LineAssumption DEF n
  <2>2. start + n \in start + 1 .. start + n
    BY <2>1
  <2>3. start + n <= Limit(extra_size)
    BY <1>2, <2>2
  <2> QED BY <2>1, <2>3, LineAssumption DEF Limit
<1> DEFINE end == IF start + n < Len(names[1]) THEN start + n ELSE Len(names[1])
<1>5. end \in Nat /\ end <= Len(names[1]) /\ end <= extra_size
  BY <1>2, <1>3, <1>4, LineAssumption
<1>6. Taken(names, start, n) = SubSeq(names[1], start + 1, end)
  BY DEF Taken
<1> HIDE DEF end
<1>7. \A i \in start + 1 .. end : names[1][i] \in CandidateChars
  BY <1>3, <1>5
<1>8. SubSeq(names[1], start + 1, end) \in Seq(CandidateChars)
  BY <1>5, <1>7, SubSeqProperties
<1>9. Len(SubSeq(names[1], start + 1, end)) = IF start + 1 <= end THEN end - start ELSE 0
  BY <1>5, <1>7, SubSeqProperties
<1> QED BY <1>5, <1>6, <1>8, <1>9 DEF n

(* Taking .elf away leaves no more than there was.                         *)
LEMMA WithoutElfFits ==
    ASSUME NEW extra \in Seq(CandidateChars)
    PROVE  /\ WithoutElf(extra) \in Seq(AddedChars)
           /\ Len(WithoutElf(extra)) \in Nat /\ Len(WithoutElf(extra)) <= Len(extra)
<1>1. extra \in Seq(AddedChars) /\ Len(extra) \in Nat
  <2>1. CandidateChars \subseteq AddedChars
    BY DEF AddedChars
  <2> QED BY <2>1, SeqMonotonic
<1>2. CASE IsSuffix(Elf, extra)
  <2>1. Len(Reverse(Elf)) <= Len(Reverse(extra))
    BY <1>2 DEF IsSuffix, IsPrefix
  <2>2. Len(Reverse(Elf)) = 4
    <3>1. Len(Elf) = 4
      BY DEF Elf
    <3>2. Reverse(Elf) = [i \in 1 .. 4 |-> Elf[(4 - i) + 1]]
      BY <3>1 DEF Reverse
    <3> QED BY <3>2
  <2>3. Len(Reverse(extra)) = Len(extra)
    BY <1>1 DEF Reverse
  <2>4. Len(extra) >= 4
    BY <2>1, <2>2, <2>3
  <2> DEFINE kept == Len(extra) - 4
             front == SubSeq(extra, 1, kept)
  <2>5. front \in Seq(AddedChars) /\ Len(front) = Len(extra) - 4
    <3>1. kept \in Nat /\ kept <= Len(extra)
      BY <1>1, <2>4
    <3> HIDE DEF kept
    <3>2. front \in Seq(AddedChars) /\ Len(front) = IF 1 <= kept THEN (kept - 1) + 1 ELSE 0
      BY <1>1, <3>1, PartOf
    <3>3. Len(front) = kept
      BY <3>1, <3>2
    <3> QED BY <3>2, <3>3 DEF kept
  <2>6. <<" ">> \in Seq(AddedChars) /\ Len(<<" ">>) = 1
    BY DEF AddedChars
  <2> DEFINE end == <<" ">>
  <2> HIDE DEF front, end
  <2>7. front \o end \in Seq(AddedChars) /\ Len(front \o end) = Len(front) + Len(end)
    BY <2>5, <2>6, ConcatProperties DEF end
  <2>8. WithoutElf(extra) = front \o end
    BY <1>2 DEF WithoutElf, front, end
  <2>9. Len(end) = 1
    BY <2>6 DEF end
  <2> QED BY <1>1, <2>4, <2>5, <2>7, <2>8, <2>9
<1>3. CASE ~IsSuffix(Elf, extra)
  BY <1>1, <1>3 DEF WithoutElf
<1> QED BY <1>2, <1>3

Fits(extra, extra_size) ==
    extra = Undefined \/ (extra \in Seq(AddedChars) /\ Len(extra) \in Nat /\ Len(extra) <= extra_size)

(* What tab_complete returns fits in the room it was given.                *)
LEMMA CompletionFits ==
    ASSUME NEW command \in Seq(TypedChars), NEW cwd, IsDirectory(cwd), NEW path, IsDirectory(path),
           NEW extra_size \in Nat
    PROVE  Fits(tab_complete(command, cwd, path, extra_size), extra_size)
<1> DEFINE first == Candidates(cwd, command)
           second == Candidates(path, command)
           start == Len(command)
           n1 == Copied(first, start, extra_size)
           n2 == Copied(second, start, extra_size)
           extra == tab_complete(command, cwd, path, extra_size)
<1>1. first \in Seq(Seq(CandidateChars)) /\ second \in Seq(Seq(CandidateChars)) /\ start \in Nat
  <2>1. Offered(command) \subseteq Seq(CandidateChars)
    BY DEF Offered
  <2> QED BY <2>1, CandidatesOffered, SeqMonotonic
<1>2. extra = CASE n1 > 0 -> Taken(first, start, n1)
                [] n1 = 0 /\ n2 > 0 -> WithoutElf(Taken(second, start, n2))
                [] n1 = 0 /\ n2 = 0 /\ first # <<>> /\ second = <<>> -> Undefined
                [] OTHER -> <<>>
  BY DEF tab_complete
<1> HIDE DEF first, second, start, extra
<1>3. CASE n1 > 0
  <2>1. extra \in Seq(CandidateChars) /\ Len(extra) <= extra_size
    BY <1>1, <1>2, <1>3, TakenFits
  <2>2. CandidateChars \subseteq AddedChars
    BY DEF AddedChars
  <2>3. extra \in Seq(AddedChars) /\ Len(extra) \in Nat
    BY <2>1, <2>2, SeqMonotonic, LenProperties
  <2> QED BY <2>1, <2>3 DEF Fits, extra
<1>4. CASE ~(n1 > 0) /\ n1 = 0 /\ n2 > 0
  <2> DEFINE taken == Taken(second, start, n2)
  <2>1. taken \in Seq(CandidateChars) /\ Len(taken) <= extra_size
    BY <1>1, <1>4, TakenFits
  <2>2. extra = WithoutElf(taken)
    BY <1>2, <1>4
  <2> HIDE DEF taken
  <2>3. extra \in Seq(AddedChars) /\ Len(extra) \in Nat /\ Len(extra) <= Len(taken) /\ Len(taken) \in Nat
    BY <2>1, <2>2, WithoutElfFits, LenProperties
  <2> QED BY <2>1, <2>3 DEF Fits, extra
<1>5. CASE ~(n1 > 0) /\ ~(n1 = 0 /\ n2 > 0)
  <2> HIDE DEF n1, n2
  <2>1. extra = Undefined \/ extra = <<>>
    BY <1>2, <1>5
  <2>2. Fits(<<>>, extra_size)
    BY EmptySeq DEF Fits
  <2>3. Fits(Undefined, extra_size)
    BY DEF Fits
  <2> QED BY <2>1, <2>2, <2>3, Zenon DEF extra
<1> QED BY <1>3, <1>4, <1>5

(* The longest common prefix is the part of the first one that they share. *)
LEMMA CommonIs ==
    ASSUME NEW X, NEW names \in Seq(Seq(X)), names # <<>>
    PROVE  \E l \in 0 .. Len(names[1]) :
              /\ LongestCommonPrefix({ names[k] : k \in DOMAIN names }) = SubSeq(names[1], 1, l)
              /\ \A k \in DOMAIN names : IsPrefix(SubSeq(names[1], 1, l), names[k])
              /\ \A m \in 0 .. Len(names[1]) :
                    (\A k \in DOMAIN names : IsPrefix(SubSeq(names[1], 1, m), names[k])) => m <= l
<1> DEFINE S == { names[k] : k \in DOMAIN names }
           n == Len(names[1])
           Part(l) == SubSeq(names[1], 1, l)
           Common(l) == \A k \in DOMAIN names : IsPrefix(Part(l), names[k])
           L == { l \in 0 .. n : Common(l) }
<1>1. DOMAIN names = 1 .. Len(names) /\ 1 \in DOMAIN names /\ \A k \in DOMAIN names : names[k] \in Seq(X)
  BY EmptySeq, LenProperties, ElementOfSeq
<1>2. n \in Nat
  BY <1>1, LenProperties
<1>3. \A l \in 0 .. n : Part(l) \in Seq(X) /\ Len(Part(l)) = l
  <2> SUFFICES ASSUME NEW l \in 0 .. n PROVE Part(l) \in Seq(X) /\ Len(Part(l)) = l
    OBVIOUS
  <2>1. l \in Int /\ l <= n
    BY <1>2
  <2>2. Part(l) \in Seq(X) /\ Len(Part(l)) = IF 1 <= l THEN (l - 1) + 1 ELSE 0
    BY <1>1, <2>1, PartOf
  <2> HIDE DEF Part
  <2> QED BY <1>2, <2>2
<1>4. \A l \in 0 .. n : \A k \in DOMAIN names :
         IsPrefix(Part(l), names[k]) <=> l <= Len(names[k]) /\ \A i \in 1 .. l : Part(l)[i] = names[k][i]
  <2> HIDE DEF Part
  <2> QED BY <1>1, <1>3, PrefixIs
<1>5. Part(n) = names[1]
  BY <1>1, SubSeqFull
<1> HIDE DEF n, Part
<1>6. ASSUME NEW s PROVE s \in CommonPrefixes(S) <=> \E l \in L : s = Part(l)
  <2>1. ASSUME s \in CommonPrefixes(S) PROVE \E l \in L : s = Part(l)
    <3>1. PICK t \in S : s \in Prefixes(t)
      BY <2>1 DEF CommonPrefixes
    <3>2. \A u \in S : IsPrefix(s, u)
      BY <2>1 DEF CommonPrefixes
    <3>3. PICK k \in DOMAIN names : t = names[k]
      BY <3>1
    <3>4. PICK l \in 0 .. Len(t) : s = SubSeq(t, 1, l)
      BY <3>1 DEF Prefixes
    <3>5. s \in Seq(X) /\ Len(s) = l /\ l \in Nat
      <4>1. t \in Seq(X) /\ Len(t) \in Nat
        BY <1>1, <3>3, LenProperties
      <4>2. l \in Int /\ l <= Len(t)
        BY <4>1
      <4>3. s \in Seq(X) /\ Len(s) = IF 1 <= l THEN (l - 1) + 1 ELSE 0
        BY <3>4, <4>1, <4>2, PartOf
      <4> QED BY <4>1, <4>3
    <3>6. IsPrefix(s, names[1])
      BY <1>1, <3>2
    <3>7. l \in 0 .. n /\ s = Part(l)
      <4>1. l <= n /\ s = SubSeq(names[1], 1, l) /\ s = SubSeq(s, 1, l)
        <5>1. SubSeq(s, 1, l) = s
          BY <3>5, SubSeqFull
        <5> QED BY <3>5, <3>6, <5>1 DEF IsPrefix, n
      <4> QED BY <1>2, <3>5, <4>1 DEF Part
    <3>8. Common(l)
      BY <3>2, <3>7
    <3> QED BY <3>7, <3>8
  <2>2. ASSUME NEW l \in L, s = Part(l) PROVE s \in CommonPrefixes(S)
    <3>1. \A u \in S : IsPrefix(s, u)
      BY <2>2
    <3>2. s \in Prefixes(names[1])
      BY <2>2 DEF Prefixes, Part, n
    <3>3. names[1] \in S
      BY <1>1
    <3> HIDE DEF S, L
    <3> QED BY <3>1, <3>2, <3>3 DEF CommonPrefixes
  <2> QED BY <2>1, <2>2
<1>7. PICK l \in L : \A m \in L : l >= m
  <2>1. L \in SUBSET Nat /\ \A m \in L : m <= n
    BY <1>2
  <2>2. 0 \in L
    <3>1. \A k \in DOMAIN names : Len(names[k]) \in Nat
      BY <1>1, LenProperties
    <3>2. Common(0)
      BY <1>2, <1>4, <3>1
    <3> QED BY <1>2, <3>2
  <2> HIDE DEF L
  <2> QED BY <1>2, <2>1, <2>2, MaxOfBounded
<1> DEFINE P(s) == s \in CommonPrefixes(S) /\ \A other \in CommonPrefixes(S) : Len(other) <= Len(s)
           longest == CHOOSE s \in CommonPrefixes(S) :
                         \A other \in CommonPrefixes(S) : Len(other) <= Len(s)
<1>8. LongestCommonPrefix(S) = longest
  BY DEF LongestCommonPrefix
<1>9. L \subseteq 0 .. n
  OBVIOUS
<1>10. \A m \in 0 .. n : Common(m) => m \in L
  OBVIOUS
<1>11. \A m \in L : Common(m)
  OBVIOUS
<1> HIDE DEF S, L
<1>12. P(Part(l))
  <2>1. Part(l) \in CommonPrefixes(S)
    BY <1>6
  <2>2. ASSUME NEW other \in CommonPrefixes(S) PROVE Len(other) <= Len(Part(l))
    <3>1. PICK m \in L : other = Part(m)
      BY <1>6
    <3>2. Len(other) = m /\ Len(Part(l)) = l /\ m \in Nat /\ l \in Nat
      BY <1>2, <1>3, <1>9, <3>1
    <3> QED BY <1>7, <3>2
  <2> QED BY <2>1, <2>2
<1>13. P(longest)
  BY <1>12
<1> HIDE DEF longest
<1>14. PICK m \in L : longest = Part(m)
  BY <1>6, <1>13
<1>15. m = l
  <2>1. Len(Part(l)) <= Len(longest)
    BY <1>12, <1>13
  <2>2. Len(Part(l)) = l /\ Len(longest) = m /\ m \in Nat /\ l \in Nat /\ l >= m
    BY <1>2, <1>3, <1>7, <1>9, <1>14
  <2> QED BY <2>1, <2>2
<1>16. \A i \in 0 .. n : Common(i) => i <= l
  BY <1>2, <1>7, <1>9, <1>10
<1>17. l \in 0 .. n /\ Common(l) /\ LongestCommonPrefix(S) = Part(l)
  BY <1>8, <1>9, <1>11, <1>14, <1>15
<1> HIDE DEF longest, L
<1> QED BY <1>16, <1>17 DEF S, n, Part

(***************************************************************************)
(* tab_complete: what is added is what is expected                         *)
(***************************************************************************)
Shared(names) == LongestCommonPrefix({ names[i] : i \in DOMAIN names })
Room(command, extra_size) == IF extra_size > Len(command) THEN extra_size - Len(command) ELSE 0
Offer(names, command, extra_size) ==
    IF names = <<>> THEN <<>>
    ELSE LET rest == SubSeq(Shared(names), Len(command) + 1, Len(Shared(names)))
         IN  SubSeq(rest, 1, IF Len(rest) < Room(command, extra_size) THEN Len(rest)
                             ELSE Room(command, extra_size))
Complete(names, command, extra_size) == Len(names) = 1 /\ Room(command, extra_size) > 0

\* What the candidates are to tab_complete: a name of each begins with command.
Offers(names, command) ==
    /\ names \in Seq(Offered(command))
    /\ \A k, m \in DOMAIN names : names[k] = names[m] => k = m

(* A part that ends before it begins is empty.                             *)
LEMMA EmptyPart ==
    ASSUME NEW X, NEW s \in Seq(X), NEW a \in Nat \ {0}, NEW b \in Int, b < a
    PROVE  SubSeq(s, a, b) = <<>>
OBVIOUS

(* The offer is a prefix all candidates share, none longer is, cut to the  *)
(* room.                                                                   *)
LEMMA OfferIs ==
    ASSUME NEW names, NEW command \in Seq(TypedChars), Offers(names, command), names # <<>>,
           NEW extra_size \in Nat
    PROVE  \E l \in Nat :
              /\ Len(command) <= l /\ l <= Len(names[1])
              /\ Offer(names, command, extra_size) =
                    SubSeq(names[1], Len(command) + 1,
                           IF l < Len(command) + Room(command, extra_size) THEN l
                           ELSE Len(command) + Room(command, extra_size))
              /\ \A k \in DOMAIN names : IsPrefix(SubSeq(names[1], 1, l), names[k])
              /\ \A m \in 0 .. Len(names[1]) :
                    (\A k \in DOMAIN names : IsPrefix(SubSeq(names[1], 1, m), names[k])) => m <= l
<1> DEFINE C == CandidateChars
           start == Len(command)
           room == Room(command, extra_size)
           n == Len(names[1])
<1>1. names \in Seq(Seq(C))
  <2>1. Offered(command) \subseteq Seq(C)
    BY DEF Offered
  <2> QED BY <2>1, SeqMonotonic DEF Offers
<1>2. PICK l \in 0 .. n :
          /\ Shared(names) = SubSeq(names[1], 1, l)
          /\ \A k \in DOMAIN names : IsPrefix(SubSeq(names[1], 1, l), names[k])
          /\ \A m \in 0 .. n : (\A k \in DOMAIN names : IsPrefix(SubSeq(names[1], 1, m), names[k])) => m <= l
  BY <1>1, CommonIs DEF Shared
<1>3. DOMAIN names = 1 .. Len(names) /\ 1 \in DOMAIN names /\ \A k \in DOMAIN names : names[k] \in Seq(C)
  BY <1>1, EmptySeq, LenProperties, ElementOfSeq
<1>4. n \in Nat /\ start \in Nat /\ room \in Nat
  BY <1>3, LenProperties DEF Room
<1>5. \A k \in DOMAIN names : IsPrefix(command, names[k])
  <2>1. \A k \in DOMAIN names : names[k] \in Offered(command)
    BY <1>3, ElementOfSeq DEF Offers
  <2> QED BY <2>1 DEF Offered
<1>6. start \in 0 .. n /\ SubSeq(names[1], 1, start) = command
  <2>1. SubSeq(command, 1, start) = command
    BY SubSeqFull
  <2> QED BY <1>3, <1>4, <1>5, <2>1 DEF IsPrefix
<1>7. start <= l
  BY <1>2, <1>5, <1>6
<1> DEFINE shared == SubSeq(names[1], 1, l)
           rest == SubSeq(shared, start + 1, l)
           k == IF l - start < room THEN l - start ELSE room
           e == IF l < start + room THEN l ELSE start + room
<1>8. l \in Nat /\ l <= n
  BY <1>2, <1>4
<1> HIDE DEF n
<1>9. names[1] \in Seq(C) /\ Len(names[1]) = n
  BY <1>3 DEF n
<1>10. shared \in Seq(C) /\ Len(shared) = l /\ \A i \in 1 .. l : shared[i] = names[1][i]
  <2>1. /\ shared \in Seq(C) /\ Len(shared) = IF 1 <= l THEN (l - 1) + 1 ELSE 0
        /\ \A i \in 1 .. (l - 1) + 1 : shared[i] = names[1][(1 + i) - 1]
    BY <1>8, <1>9, PartOf
  <2> HIDE DEF shared
  <2> QED BY <1>8, <2>1
<1> HIDE DEF shared, start, room, C
<1>11. rest \in Seq(C) /\ Len(rest) = l - start /\ \A i \in 1 .. l - start : rest[i] = names[1][start + i]
  <2> DEFINE a == start + 1
  <2>1. a \in Nat \ {0} /\ l \in Int /\ l <= Len(shared) /\ (a <= l => (l - a) + 1 = l - start) /\ (~(a <= l) => l - start = 0)
    BY <1>4, <1>7, <1>8, <1>10
  <2> HIDE DEF a
  <2>2. /\ SubSeq(shared, a, l) \in Seq(C) /\ Len(SubSeq(shared, a, l)) = IF a <= l THEN (l - a) + 1 ELSE 0
        /\ \A i \in 1 .. (l - a) + 1 : SubSeq(shared, a, l)[i] = shared[(a + i) - 1]
    BY <1>10, <2>1, PartOf
  <2>3. ASSUME NEW i \in 1 .. l - start
        PROVE  i \in 1 .. (l - a) + 1 /\ (a + i) - 1 = start + i /\ start + i \in 1 .. l
    BY <1>4, <1>7, <1>8 DEF a
  <2>4. \A i \in 1 .. l - start : SubSeq(shared, a, l)[i] = names[1][start + i]
    BY <1>10, <2>2, <2>3
  <2> QED BY <2>1, <2>2, <2>4 DEF a
<1>12. Offer(names, command, extra_size) = SubSeq(rest, 1, k)
  <2>1. Shared(names) = shared /\ Len(shared) = l
    BY <1>2, <1>10 DEF shared
  <2>2. Offer(names, command, extra_size) =
            SubSeq(rest, 1, IF Len(rest) < room THEN Len(rest) ELSE room)
    BY <2>1 DEF Offer, start, room
  <2> HIDE DEF rest
  <2> QED BY <1>11, <2>2
<1>13. SubSeq(rest, 1, k) = SubSeq(names[1], start + 1, e)
  <2> HIDE DEF rest
  <2>1. k \in Nat /\ k <= l - start /\ k <= Len(rest)
    BY <1>4, <1>7, <1>8, <1>11
  <2>2. e = start + k /\ e \in Nat /\ e <= Len(names[1])
    BY <1>4, <1>7, <1>8, <1>9
  <2> HIDE DEF k, e
  <2>3. SubSeq(rest, 1, k) \in Seq(C) /\ Len(SubSeq(rest, 1, k)) = k
        /\ \A i \in 1 .. k : SubSeq(rest, 1, k)[i] = rest[i]
    <3>1. /\ SubSeq(rest, 1, k) \in Seq(C) /\ Len(SubSeq(rest, 1, k)) = IF 1 <= k THEN (k - 1) + 1 ELSE 0
          /\ \A i \in 1 .. (k - 1) + 1 : SubSeq(rest, 1, k)[i] = rest[(1 + i) - 1]
      BY <1>11, <2>1, PartOf
    <3> QED BY <2>1, <3>1
  <2> DEFINE a == start + 1
             part == SubSeq(names[1], a, e)
  <2>4. part \in Seq(C) /\ Len(part) = k /\ \A i \in 1 .. k : part[i] = names[1][start + i]
    <3>1. a \in Nat \ {0} /\ (a <= e => (e - a) + 1 = k) /\ (~(a <= e) => k = 0)
      BY <1>4, <2>1, <2>2
    <3>2. \A i \in 1 .. k : (a + i) - 1 = start + i /\ i \in 1 .. (e - a) + 1
      BY <1>4, <2>1, <2>2
    <3> HIDE DEF a
    <3>3. /\ SubSeq(names[1], a, e) \in Seq(C) /\ Len(SubSeq(names[1], a, e)) = IF a <= e THEN (e - a) + 1 ELSE 0
          /\ \A i \in 1 .. (e - a) + 1 : SubSeq(names[1], a, e)[i] = names[1][(a + i) - 1]
      BY <1>9, <2>2, <3>1, PartOf
    <3> QED BY <3>1, <3>2, <3>3
  <2> HIDE DEF part
  <2>5. \A i \in 1 .. k : i \in 1 .. l - start
    BY <1>4, <1>8, <2>1
  <2>6. \A i \in 1 .. k : SubSeq(rest, 1, k)[i] = part[i]
    BY <1>11, <2>3, <2>4, <2>5
  <2>7. SubSeq(rest, 1, k) = part
    BY <2>3, <2>4, <2>6, SeqEqual
  <2> QED BY <2>7 DEF part
<1> HIDE DEF rest, k
<1> QED BY <1>2, <1>7, <1>8, <1>12, <1>13 DEF n, start, room


(* Where the characters of the candidates are the same, Nuls included.     *)
LEMMA SameIs ==
    ASSUME NEW names, NEW command \in Seq(TypedChars), Offers(names, command), names # <<>>
    PROVE  /\ \A l \in 0 .. Len(names[1]) :
                 (\A k \in DOMAIN names : IsPrefix(SubSeq(names[1], 1, l), names[k]))
                    <=> (\A k \in DOMAIN names : l <= Len(names[k]) /\ \A i \in 1 .. l : names[k][i] = names[1][i])
           /\ \A k \in DOMAIN names : /\ names[k] \in Seq(CandidateChars) /\ Len(names[k]) \in Nat
                                      /\ Len(command) <= Len(names[k]) /\ Len(names[k]) <= MAX_DIR_NAME_LENGTH
                                      /\ \A i \in 1 .. Len(command) : names[k][i] = command[i]
                                      /\ \A i \in 1 .. Len(names[k]) : names[k][i] # Nul
           /\ Len(command) < MAX_DIR_NAME_LENGTH /\ 1 \in DOMAIN names /\ DOMAIN names = 1 .. Len(names)
<1>1. DOMAIN names = 1 .. Len(names) /\ 1 \in DOMAIN names /\ \A k \in DOMAIN names : names[k] \in Offered(command)
  BY EmptySeq, LenProperties, ElementOfSeq DEF Offers
<1>2. Nul \notin CandidateChars
  BY TextAssumption DEF CandidateChars, Nul
<1>3. ASSUME NEW k \in DOMAIN names
      PROVE  /\ names[k] \in Seq(CandidateChars) /\ Len(names[k]) \in Nat
             /\ Len(command) <= Len(names[k]) /\ Len(names[k]) <= MAX_DIR_NAME_LENGTH
             /\ \A i \in 1 .. Len(command) : names[k][i] = command[i]
             /\ \A i \in 1 .. Len(names[k]) : names[k][i] # Nul
             /\ Len(command) < MAX_DIR_NAME_LENGTH
  <2> DEFINE name == names[k]
  <2>1. name \in Seq(CandidateChars) /\ Len(name) <= MAX_DIR_NAME_LENGTH /\ IsPrefix(command, name)
        /\ Len(command) < MAX_DIR_NAME_LENGTH
    BY <1>1 DEF Offered
  <2> HIDE DEF name
  <2>2. Len(name) \in Nat /\ \A i \in 1 .. Len(name) : name[i] # Nul
    BY <1>2, <2>1, LenProperties, ElementOfSeq
  <2>3. Len(command) <= Len(name) /\ \A i \in 1 .. Len(command) : command[i] = name[i]
    <3>1. CandidateChars \subseteq TypedChars
      BY DEF TypedChars, AddedChars
    <3>2. name \in Seq(TypedChars)
      BY <2>1, <3>1, SeqMonotonic
    <3> QED BY <2>1, <3>2, PrefixIs
  <2> QED BY <2>1, <2>2, <2>3 DEF name
<1>4. ASSUME NEW l \in 0 .. Len(names[1]), NEW k \in DOMAIN names
      PROVE  IsPrefix(SubSeq(names[1], 1, l), names[k])
                <=> l <= Len(names[k]) /\ \A i \in 1 .. l : names[k][i] = names[1][i]
  <2> DEFINE name == names[1]
             part == SubSeq(name, 1, l)
  <2>1. name \in Seq(CandidateChars) /\ Len(name) \in Nat
    BY <1>1, <1>3
  <2>2. l \in Nat /\ l <= Len(name)
    BY <2>1
  <2> HIDE DEF name
  <2>3. /\ part \in Seq(CandidateChars) /\ Len(part) = IF 1 <= l THEN (l - 1) + 1 ELSE 0
        /\ \A i \in 1 .. (l - 1) + 1 : part[i] = name[(1 + i) - 1]
    BY <2>1, <2>2, PartOf
  <2> HIDE DEF part
  <2>4. part \in Seq(CandidateChars) /\ Len(part) = l /\ \A i \in 1 .. l : part[i] = name[i]
    BY <2>2, <2>3
  <2>5. IsPrefix(part, names[k]) <=> Len(part) <= Len(names[k]) /\ \A i \in 1 .. Len(part) : part[i] = names[k][i]
    <3> DEFINE other == names[k]
    <3>1. other \in Seq(CandidateChars)
      BY <1>3
    <3> HIDE DEF other
    <3>2. IsPrefix(part, other) <=> Len(part) <= Len(other) /\ \A i \in 1 .. Len(part) : part[i] = other[i]
      BY <2>4, <3>1, PrefixIs
    <3> QED BY <3>2 DEF other
  <2>6. IsPrefix(part, names[k]) <=> l <= Len(names[k]) /\ \A i \in 1 .. l : names[k][i] = name[i]
    BY <2>4, <2>5
  <2> QED BY <2>6 DEF part, name
<1>5. \A l \in 0 .. Len(names[1]) :
         (\A k \in DOMAIN names : IsPrefix(SubSeq(names[1], 1, l), names[k]))
            <=> (\A k \in DOMAIN names : l <= Len(names[k]) /\ \A i \in 1 .. l : names[k][i] = names[1][i])
  BY <1>4
<1> QED BY <1>1, <1>3, <1>5

(* What the loop copies is the offer, and it copies something exactly if   *)
(* there is one.                                                           *)
LEMMA TakenIsOffer ==
    ASSUME NEW names, NEW command \in Seq(TypedChars), Offers(names, command), NEW extra_size \in Nat
    PROVE  /\ Copied(names, Len(command), extra_size) \in Nat
           /\ Copied(names, Len(command), extra_size) > 0
                 <=> Offer(names, command, extra_size) # <<>> \/ Complete(names, command, extra_size)
           /\ Copied(names, Len(command), extra_size) > 0
                 => Taken(names, Len(command), Copied(names, Len(command), extra_size))
                       = Offer(names, command, extra_size)
<1> DEFINE start == Len(command)
           room == Room(command, extra_size)
           n == Copied(names, start, extra_size)
           offer == Offer(names, command, extra_size)
           length == Len(names[1])
<1>1. CASE names = <<>>
  <2>1. n = 0
    BY <1>1 DEF Copied
  <2>2. offer = <<>>
    BY <1>1 DEF Offer
  <2>3. ~Complete(names, command, extra_size)
    BY <1>1 DEF Complete
  <2> QED BY <2>1, <2>2, <2>3
<1>2. CASE names # <<>>
  <2>1. /\ \A l \in 0 .. length :
              (\A k \in DOMAIN names : IsPrefix(SubSeq(names[1], 1, l), names[k]))
                 <=> (\A k \in DOMAIN names : l <= Len(names[k]) /\ \A i \in 1 .. l : names[k][i] = names[1][i])
        /\ \A k \in DOMAIN names : /\ names[k] \in Seq(CandidateChars) /\ Len(names[k]) \in Nat
                                   /\ start <= Len(names[k]) /\ Len(names[k]) <= MAX_DIR_NAME_LENGTH
                                   /\ \A i \in 1 .. start : names[k][i] = command[i]
                                   /\ \A i \in 1 .. Len(names[k]) : names[k][i] # Nul
        /\ start < MAX_DIR_NAME_LENGTH /\ 1 \in DOMAIN names /\ DOMAIN names = 1 .. Len(names)
    BY <1>2, SameIs
  <2>2. PICK l \in Nat :
          /\ start <= l /\ l <= length
          /\ offer = SubSeq(names[1], start + 1, IF l < start + room THEN l ELSE start + room)
          /\ \A k \in DOMAIN names : IsPrefix(SubSeq(names[1], 1, l), names[k])
          /\ \A m \in 0 .. length :
                (\A k \in DOMAIN names : IsPrefix(SubSeq(names[1], 1, m), names[k])) => m <= l
    BY <1>2, OfferIs
  <2>3. start \in Nat /\ length \in Nat /\ names[1] \in Seq(CandidateChars) /\ length <= MAX_DIR_NAME_LENGTH
    BY <2>1, LenProperties
  <2>4. /\ n \in 0 .. MAX_DIR_NAME_LENGTH
        /\ \A i \in start + 1 .. start + n : i <= Limit(extra_size) /\ SameAt(names, i)
        /\ ~(start + n + 1 <= Limit(extra_size) /\ SameAt(names, start + n + 1))
    BY <1>2, <2>3, CopiedIs
  <2>5. n \in Nat /\ MAX_DIR_NAME_LENGTH \in Nat /\ Limit(extra_size) <= extra_size /\ Limit(extra_size) \in Nat
        /\ \A i \in Nat : i <= extra_size /\ i <= MAX_DIR_NAME_LENGTH => i <= Limit(extra_size)
    BY <2>4, LineAssumption DEF Limit
  <2>6. /\ extra_size <= start => room = 0
        /\ extra_size > start => room > 0 /\ start + room = extra_size
    BY <2>3 DEF Room
  <2>7. l \in 0 .. length
    BY <2>2, <2>3
  <2>8. \A k \in DOMAIN names : l <= Len(names[k]) /\ \A i \in 1 .. l : names[k][i] = names[1][i]
    BY <2>1, <2>2, <2>7
  <2>9. ASSUME NEW i \in 1 .. l PROVE SameAt(names, i)
    <3>1. ASSUME NEW k \in DOMAIN names PROVE CharAt(names[k], i) = names[1][i]
      <4>1. i <= Len(names[k]) /\ names[k][i] = names[1][i]
        BY <2>1, <2>8
      <4> QED BY <4>1 DEF CharAt
    <3> QED BY <2>1, <3>1 DEF SameAt
  <2> HIDE DEF n, offer, length, room
  <2>10. ASSUME NEW m \in Nat, start <= m, m <= length, \A i \in start + 1 .. m : SameAt(names, i)
         PROVE  m <= l
    <3>1. ASSUME NEW k \in DOMAIN names, NEW i \in 1 .. m
          PROVE  i <= Len(names[k]) /\ names[k][i] = names[1][i]
      <4>1. CASE i \in 1 .. start
        <5>1. i <= Len(names[k])
          BY <2>1, <2>3, <4>1
        <5> QED BY <2>1, <4>1, <5>1
      <4>2. CASE i \in start + 1 .. m
        <5>1. CharAt(names[k], i) = CharAt(names[1], i)
          BY <2>10, <4>2 DEF SameAt
        <5>2. i \in 1 .. length
          BY <2>3, <2>10
        <5>6. \A j \in 1 .. Len(names[1]) : names[1][j] # Nul
          BY <2>1, Zenon
        <5>7. i <= length
          BY <2>3, <5>2
        <5>5. i <= Len(names[1]) /\ names[1][i] # Nul
          BY <5>2, <5>6, <5>7, Zenon DEF length
        <5>3. CharAt(names[1], i) = names[1][i] /\ names[1][i] # Nul
          BY <5>5, Zenon DEF CharAt
        <5>4. i <= Len(names[k])
          BY <5>1, <5>3 DEF CharAt
        <5> QED BY <5>1, <5>3, <5>4 DEF CharAt
      <4> QED BY <2>3, <4>1, <4>2
    <3>2. \A k \in DOMAIN names : m <= Len(names[k])
      <4>1. CASE m = start
        BY <2>1, <4>1
      <4>2. CASE m # start
        <5>1. m \in 1 .. m
          BY <2>3, <2>10, <4>2
        <5> QED BY <3>1, <5>1
      <4> QED BY <4>1, <4>2
    <3>3. m \in 0 .. length
      BY <2>3, <2>10
    <3>4. \A k \in DOMAIN names : IsPrefix(SubSeq(names[1], 1, m), names[k])
      BY <2>1, <3>1, <3>2, <3>3
    <3> QED BY <2>2, <3>3, <3>4
  <2> DEFINE e == IF l < start + room THEN l ELSE start + room
             end == IF start + n < length THEN start + n ELSE length
  <2>11. CASE extra_size <= start
    <3>1. n = 0
      <4> SUFFICES ASSUME n # 0 PROVE FALSE
        OBVIOUS
      <4>1. start + 1 \in start + 1 .. start + n
        BY <2>3, <2>5
      <4>2. start + 1 <= Limit(extra_size)
        BY <2>4, <4>1
      <4> QED BY <2>3, <2>5, <2>11, <4>2
    <3>2. e = start
      BY <2>2, <2>3, <2>6, <2>11
    <3>3. offer = <<>>
      <4>1. start + 1 \in Nat \ {0} /\ start \in Int /\ start < start + 1
        BY <2>3
      <4>2. offer = SubSeq(names[1], start + 1, start)
        BY <2>2, <3>2
      <4> HIDE DEF start
      <4> QED BY <2>3, <4>1, <4>2, EmptyPart
    <3>4. ~Complete(names, command, extra_size)
      BY <2>6, <2>11 DEF Complete, room
    <3> QED BY <3>1, <3>3, <3>4 DEF n, offer
  <2>12. CASE extra_size > start
    <3>1. start + n <= extra_size
      <4>1. CASE n = 0
        BY <2>3, <2>12, <4>1
      <4>2. CASE n # 0
        <5>1. start + n \in start + 1 .. start + n
          BY <2>3, <2>5, <4>2
        <5>2. start + n <= Limit(extra_size)
          BY <2>4, <5>1
        <5> QED BY <2>3, <2>5, <5>2
      <4> QED BY <4>1, <4>2
    <3>2. end \in Nat /\ start <= end /\ end <= length /\ end <= start + n /\ end <= extra_size
      BY <2>2, <2>3, <2>5, <3>1
    <3>3. end <= l
      <4>1. \A i \in start + 1 .. end : i \in start + 1 .. start + n
        BY <2>3, <2>5, <3>2
      <4>2. \A i \in start + 1 .. end : SameAt(names, i)
        BY <2>4, <4>1
      <4> HIDE DEF end
      <4> QED BY <2>10, <3>2, <4>2
    <3>4. ASSUME end < l, end < extra_size PROVE FALSE
      <4>1. end = start + n
        BY <2>2, <2>3, <2>5, <3>4
      <4>2. start + n + 1 \in 1 .. l /\ start + n + 1 <= extra_size /\ start + n + 1 <= MAX_DIR_NAME_LENGTH
        BY <2>2, <2>3, <2>5, <3>4, <4>1
      <4>3. start + n + 1 <= Limit(extra_size)
        BY <2>5, <4>2
      <4> QED BY <2>4, <2>9, <4>2, <4>3
    <3>5. end = e
      BY <2>3, <2>6, <2>12, <3>2, <3>3, <3>4
    <3>6. Taken(names, start, n) = offer
      <4>1. Taken(names, start, n) = SubSeq(names[1], start + 1, end)
        BY DEF Taken, length
      <4>2. offer = SubSeq(names[1], start + 1, e)
        BY <2>2
      <4> QED BY <3>5, <4>1, <4>2
    <3>7. Len(offer) = end - start
      <4> DEFINE a == start + 1
      <4>1. a \in Nat \ {0} /\ (a <= end => (end - a) + 1 = end - start) /\ (~(a <= end) => end - start = 0)
        BY <2>3, <3>2
      <4>2. offer = SubSeq(names[1], a, end) /\ end <= Len(names[1]) /\ end \in Int
        <5>1. end <= Len(names[1]) /\ end \in Int
          BY <3>2 DEF length
        <5> HIDE DEF e, end
        <5>2. offer = SubSeq(names[1], a, e)
          BY <2>2 DEF e
        <5> QED BY <3>5, <5>1, <5>2
      <4> HIDE DEF a, end
      <4>3. Len(offer) = IF a <= end THEN (end - a) + 1 ELSE 0
        BY <2>3, <4>1, <4>2, PartOf
      <4> QED BY <4>1, <4>3
    <3>8. ASSUME n > 0, offer = <<>> PROVE Complete(names, command, extra_size)
      <4>1. end = start /\ length = start
        <5>1. end - start = 0
          BY <3>7, <3>8, EmptySeq
        <5> QED BY <2>3, <2>5, <3>2, <3>8, <5>1
      <4>2. SameAt(names, start + 1)
        <5>1. start + 1 \in start + 1 .. start + n
          BY <2>3, <2>5, <3>8
        <5> QED BY <2>4, <5>1
      <4>3. ASSUME NEW k \in DOMAIN names PROVE names[k] = names[1]
        <5>1. CharAt(names[1], start + 1) = Nul
          <6>1. ~(start + 1 <= length)
            BY <2>3, <4>1
          <6> QED BY <6>1 DEF CharAt, length
        <5>2. CharAt(names[k], start + 1) = Nul
          BY <4>2, <5>1 DEF SameAt
        <5>3. ~(start + 1 <= Len(names[k]))
          <6> SUFFICES ASSUME start + 1 <= Len(names[k]) PROVE FALSE
            OBVIOUS
          <6>1. start + 1 \in 1 .. Len(names[k])
            BY <2>1, <2>3
          <6>2. CharAt(names[k], start + 1) # Nul
            BY <2>1, <6>1 DEF CharAt
          <6> QED BY <5>2, <6>2
        <5>4. Len(names[k]) = start /\ Len(names[1]) = start
          BY <2>1, <2>3, <4>1, <5>3 DEF length
        <5>5. \A i \in 1 .. Len(names[k]) : names[k][i] = names[1][i]
          BY <2>1, <5>4
        <5> QED BY <2>1, <5>4, <5>5, SeqEqual
      <4>4. \A k \in DOMAIN names : k = 1
        BY <2>1, <4>3 DEF Offers
      <4>5. Len(names) = 1
        <5>1. Len(names) \in Nat
          BY LenProperties DEF Offers
        <5> QED BY <2>1, <4>4, <5>1
      <4> QED BY <2>6, <2>12, <4>5 DEF Complete, room
    <3>9. ASSUME n = 0 PROVE offer = <<>> /\ ~Complete(names, command, extra_size)
      <4>1. Len(offer) = 0
        <5>1. start <= length
          BY <2>2, <2>3
        <5>2. end = start
          BY <2>3, <3>9, <5>1
        <5> QED BY <2>3, <3>7, <5>2
      <4>2. offer \in Seq(CandidateChars)
        <5> DEFINE a == start + 1
        <5>1. a \in Nat \ {0} /\ end <= Len(names[1]) /\ end \in Int
          BY <2>3, <3>2 DEF length
        <5> HIDE DEF a, end
        <5>2. SubSeq(names[1], a, end) \in Seq(CandidateChars)
          BY <2>3, <5>1, PartOf
        <5> QED BY <2>2, <3>5, <5>2 DEF a
      <4>3. offer = <<>>
        BY <4>1, <4>2, EmptySeq
      <4>4. ASSUME Len(names) = 1 PROVE FALSE
        <5>1. \A k \in DOMAIN names : k = 1
          BY <2>1, <4>4
        <5>2. SameAt(names, start + 1)
          BY <5>1 DEF SameAt
        <5>3. start + 1 <= Limit(extra_size)
          BY <2>1, <2>3, <2>5, <2>12
        <5>4. start + n + 1 = start + 1
          BY <2>3, <3>9
        <5> QED BY <2>4, <5>2, <5>3, <5>4
      <4> QED BY <4>3, <4>4 DEF Complete
    <3> QED BY <2>5, <3>6, <3>8, <3>9 DEF n, offer
  <2> QED BY <2>3, <2>11, <2>12
<1> QED BY <1>1, <1>2

(* tab_complete does what is expected of it.                               *)
LEMMA CompletionIsCommon ==
    ASSUME NEW command \in Seq(TypedChars), NEW cwd, IsDirectory(cwd), NEW path, IsDirectory(path),
           NEW extra_size \in Nat
    PROVE  CompletesCommon(command, cwd, path, extra_size)
<1> DEFINE first == Candidates(cwd, command)
           second == Candidates(path, command)
           start == Len(command)
           n1 == Copied(first, start, extra_size)
           n2 == Copied(second, start, extra_size)
           extra == tab_complete(command, cwd, path, extra_size)
           offer1 == Offer(first, command, extra_size)
           offer2 == Offer(second, command, extra_size)
           complete1 == Complete(first, command, extra_size)
           complete2 == Complete(second, command, extra_size)
           neither == IF first # <<>> /\ second = <<>> THEN Undefined ELSE <<>>
<1>1. Offers(first, command) /\ Offers(second, command)
  BY CandidatesOffered, CandidatesDiffer DEF Offers
<1>2. extra = CASE n1 > 0 -> Taken(first, start, n1)
                [] n1 = 0 /\ n2 > 0 -> WithoutElf(Taken(second, start, n2))
                [] n1 = 0 /\ n2 = 0 /\ first # <<>> /\ second = <<>> -> Undefined
                [] OTHER -> <<>>
  BY DEF tab_complete
<1>3. CompletesCommon(command, cwd, path, extra_size) <=>
         CASE offer1 # <<>> \/ complete1 -> extra = offer1
           [] offer1 = <<>> /\ ~complete1 /\ (offer2 # <<>> \/ complete2) -> extra = WithoutElf(offer2)
           [] OTHER -> extra = neither
  BY DEF CompletesCommon, Offer, Complete, Room, Shared
<1> HIDE DEF first, second, extra, offer1, offer2, complete1, complete2, neither
<1>4. n1 \in Nat /\ (n1 > 0 <=> offer1 # <<>> \/ complete1) /\ (n1 > 0 => Taken(first, start, n1) = offer1)
  BY <1>1, TakenIsOffer DEF offer1, complete1
<1>5. n2 \in Nat /\ (n2 > 0 <=> offer2 # <<>> \/ complete2) /\ (n2 > 0 => Taken(second, start, n2) = offer2)
  BY <1>1, TakenIsOffer DEF offer2, complete2
<1> HIDE DEF n1, n2, start
<1>6. CASE n1 > 0
  <2>1. extra = offer1
    BY <1>2, <1>4, <1>6
  <2> QED BY <1>3, <1>4, <1>6, <2>1
<1>7. CASE n1 = 0 /\ n2 > 0
  <2>1. extra = WithoutElf(offer2)
    BY <1>2, <1>5, <1>7
  <2>2. offer1 = <<>> /\ ~complete1 /\ (offer2 # <<>> \/ complete2)
    BY <1>4, <1>5, <1>7
  <2> QED BY <1>3, <2>1, <2>2
<1>8. CASE n1 = 0 /\ n2 = 0
  <2>1. extra = neither
    BY <1>2, <1>8 DEF neither
  <2>2. offer1 = <<>> /\ ~complete1 /\ offer2 = <<>> /\ ~complete2
    BY <1>4, <1>5, <1>8
  <2> QED BY <1>3, <2>1, <2>2
<1> QED BY <1>4, <1>5, <1>6, <1>7, <1>8

(***************************************************************************)
(* The line editor                                                         *)
(***************************************************************************)
Trims(line, text) ==
    \/ text = <<>> /\ \A i \in 1 .. Len(line) : line[i] = " "
    \/ \E a, b \in 1 .. Len(line) :
          /\ a <= b /\ line[a] # " " /\ line[b] # " " /\ text = SubSeq(line, a, b)
          /\ \A i \in 1 .. Len(line) : line[i] # " " => a <= i /\ i <= b

Text(line) == { i \in DOMAIN line : line[i] # " " }
Trimmed(line) ==
    IF Text(line) = {} THEN <<>>
    ELSE SubSeq(line, CHOOSE i \in Text(line) : \A j \in Text(line) : i <= j,
                      CHOOSE i \in Text(line) : \A j \in Text(line) : j <= i)

(* Trimmed is the text without the blanks around it.                       *)
LEMMA TrimmedIs ==
    ASSUME NEW X, NEW line \in Seq(X)
    PROVE  Trims(line, Trimmed(line)) /\ Trimmed(line) \in Seq(X)
<1> DEFINE S == Text(line)
<1>1. Len(line) \in Nat /\ DOMAIN line = 1 .. Len(line)
  BY LenProperties
<1>2. \A i : i \in S <=> i \in 1 .. Len(line) /\ line[i] # " "
  BY <1>1 DEF Text
<1> HIDE DEF S
<1>3. CASE S = {}
  <2>1. Trimmed(line) = <<>>
    BY <1>3 DEF Trimmed, S
  <2>2. Trims(line, <<>>)
    BY <1>2, <1>3 DEF Trims
  <2> QED BY <2>1, <2>2, EmptySeq
<1>4. CASE S # {}
  <2> DEFINE a == CHOOSE i \in S : \A j \in S : i <= j
             b == CHOOSE i \in S : \A j \in S : j <= i
  <2>1. S \in SUBSET Nat /\ \A i \in S : i <= Len(line)
    <3>1. \A i \in 1 .. Len(line) : i \in Nat /\ i <= Len(line)
      BY <1>1
    <3> HIDE DEF a, b
    <3> QED BY <1>2, <3>1, Zenon
  <2>2. a \in S /\ \A j \in S : a <= j
    BY <1>4, <2>1, MinOfNat
  <2>3. b \in S /\ \A j \in S : j <= b
    <3>1. PICK m \in S : \A j \in S : m >= j
      BY <1>1, <1>4, <2>1, MaxOfBounded
    <3>2. \A j \in S : j <= m
      BY <2>1, <3>1
    <3> QED BY <3>2
  <2>4. Trimmed(line) = SubSeq(line, a, b)
    BY <1>4 DEF Trimmed, S
  <2> HIDE DEF a, b
  <2>5. a \in 1 .. Len(line) /\ b \in 1 .. Len(line) /\ line[a] # " " /\ line[b] # " "
    BY <1>2, <2>2, <2>3
  <2>6. \A i \in 1 .. Len(line) : line[i] # " " => a <= i /\ i <= b
    BY <1>2, <2>2, <2>3
  <2>7. Trims(line, SubSeq(line, a, b))
    <3>1. a <= b
      BY <2>2, <2>3
    <3> QED BY <2>5, <2>6, <3>1 DEF Trims
  <2>8. SubSeq(line, a, b) \in Seq(X)
    <3>1. \A i \in 1 .. Len(line) : i \in Nat \ {0} /\ i \in Int /\ i <= Len(line)
      BY <1>1
    <3> QED BY <2>5, <3>1, PartOf
  <2> QED BY <2>4, <2>7, <2>8
<1> QED BY <1>3, <1>4

(* process_line takes the blanks around a line away.                       *)
LEMMA ProcessLineIs ==
    ASSUME NEW X, NEW line \in Seq(X)
    PROVE  Trims(line, process_line(line, FALSE)) /\ process_line(line, FALSE) \in Seq(X)
<1>1. process_line(line, FALSE) = Trimmed(line)
  BY DEF process_line, Trimmed, Text
<1> QED BY <1>1, TrimmedIs

(* The last word of a line is made of its characters.                      *)
LEMMA LastWordTyped ==
    ASSUME NEW X, NEW line \in Seq(X)
    PROVE  LastWord(line) \in Seq(X)
<1> DEFINE text == process_line(line, FALSE)
           cuts == { i \in DOMAIN text : text[i] = " " }
           words == argv_split_all(text)
           I == { i \in 1 .. Len(words) : words[i] # <<>> }
           at == IF I # {} THEN Max(I) ELSE 0
<1>1. text \in Seq(X)
  BY ProcessLineIs
<1> HIDE DEF text
<1>2. words \in Seq(Seq(X))
  <2>1. cuts \in SUBSET (1 .. Len(text)) /\ Len(text) \in 0 .. Len(text)
    <3>1. DOMAIN text = 1 .. Len(text) /\ Len(text) \in Nat
      BY <1>1, LenProperties
    <3>2. cuts \subseteq DOMAIN text
      BY Zenon
    <3> HIDE DEF cuts
    <3> QED BY <3>1, <3>2
  <2>2. words = Pieces(text, cuts)
    BY DEF argv_split_all
  <2> HIDE DEF cuts
  <2>3. words \in SomePieces(X)
    BY <1>1, <2>1, <2>2, PiecesAre
  <2> QED BY <2>3 DEF SomePieces
<1>3. LastWord(line) = IF at = 0 THEN <<>> ELSE words[at]
  BY DEF LastWord, SelectLastInSeq, text
<1> HIDE DEF words
<1>4. at \in 0 .. Len(words)
  <2>1. Len(words) \in Nat /\ I \in SUBSET Nat /\ \A i \in I : i <= Len(words)
    BY <1>2
  <2>2. I # {} => Max(I) \in I
    BY <2>1, MaxOfBounded
  <2> QED BY <2>1, <2>2
<1> HIDE DEF at
<1>5. Len(words) \in Nat
  BY <1>2
<1>6. CASE at = 0
  BY <1>3, <1>6, EmptySeq
<1>7. CASE at \in 1 .. Len(words)
  BY <1>2, <1>3, <1>7, ElementOfSeq
<1> QED BY <1>4, <1>5, <1>6, <1>7

(* DropLast leaves no more than there was.                                 *)
LEMMA DropLastIs ==
    ASSUME NEW X, NEW s \in Seq(X)
    PROVE  DropLast(s) \in Seq(X) /\ Len(DropLast(s)) \in Nat /\ Len(DropLast(s)) <= Len(s)
<1>1. Len(s) \in Nat
  BY LenProperties
<1>2. CASE s = <<>>
  BY <1>1, <1>2 DEF DropLast
<1>3. CASE s # <<>>
  <2>1. DropLast(s) = SubSeq(s, 1, Len(s) - 1)
    BY <1>3 DEF DropLast, Front
  <2> DEFINE b == Len(s) - 1
  <2>2. b \in Nat /\ b <= Len(s)
    BY <1>1, <1>3, EmptySeq
  <2> HIDE DEF b
  <2>3. SubSeq(s, 1, b) \in Seq(X) /\ Len(SubSeq(s, 1, b)) = IF 1 <= b THEN (b - 1) + 1 ELSE 0
    BY <2>2, PartOf
  <2>4. Len(SubSeq(s, 1, b)) = b
    BY <2>2, <2>3
  <2> QED BY <2>1, <2>2, <2>3, <2>4 DEF b
<1> QED BY <1>2, <1>3

(* The last character of a text put behind another one is the last of      *)
(* both.                                                                   *)
LEMMA DropLastBehind ==
    ASSUME NEW X, NEW s \in Seq(X), NEW u \in Seq(X), u # <<>>
    PROVE  DropLast(s \o u) = s \o DropLast(u)
<1> DEFINE m == Len(s)
           n == Len(u)
           w == s \o u
           v == DropLast(u)
<1>1. m \in Nat /\ n \in Nat /\ n > 0
  BY EmptySeq
<1>2. w \in Seq(X) /\ Len(w) = m + n
      /\ \A i \in 1 .. m + n : w[i] = IF i <= m THEN s[i] ELSE u[i - m]
  BY ConcatProperties
<1>3. v = SubSeq(u, 1, n - 1)
  BY DEF DropLast, Front
<1> HIDE DEF m, n, w, v
<1>4. v \in Seq(X) /\ Len(v) = n - 1 /\ \A i \in 1 .. n - 1 : v[i] = u[i]
  <2>1. n - 1 \in Nat /\ n - 1 <= n /\ n = Len(u)
    BY <1>1 DEF n
  <2> DEFINE k == n - 1
  <2> HIDE DEF k
  <2>2. k \in Nat /\ k <= Len(u)
    BY <2>1 DEF k
  <2>3. /\ SubSeq(u, 1, k) \in Seq(X) /\ Len(SubSeq(u, 1, k)) = IF 1 <= k THEN (k - 1) + 1 ELSE 0
        /\ \A i \in 1 .. (k - 1) + 1 : SubSeq(u, 1, k)[i] = u[(1 + i) - 1]
    BY <2>2, PartOf
  <2>4. Len(SubSeq(u, 1, k)) = k /\ \A i \in 1 .. k : SubSeq(u, 1, k)[i] = u[i]
    BY <2>2, <2>3
  <2> QED BY <1>3, <2>3, <2>4 DEF k
<1>5. s \o v \in Seq(X) /\ Len(s \o v) = m + (n - 1)
      /\ \A i \in 1 .. m + (n - 1) : (s \o v)[i] = IF i <= m THEN s[i] ELSE v[i - m]
  BY <1>4, ConcatProperties DEF m
<1> DEFINE k == (m + n) - 1
<1>6. k \in Nat /\ k <= Len(w) /\ w # <<>>
  BY <1>1, <1>2, EmptySeq
<1>7. DropLast(w) = SubSeq(w, 1, k)
  BY <1>2, <1>6 DEF DropLast, Front
<1>8. SubSeq(w, 1, k) \in Seq(X) /\ Len(SubSeq(w, 1, k)) = k
      /\ \A i \in 1 .. k : SubSeq(w, 1, k)[i] = w[i]
  <2> HIDE DEF k
  <2>1. /\ SubSeq(w, 1, k) \in Seq(X) /\ Len(SubSeq(w, 1, k)) = IF 1 <= k THEN (k - 1) + 1 ELSE 0
        /\ \A i \in 1 .. (k - 1) + 1 : SubSeq(w, 1, k)[i] = w[(1 + i) - 1]
    BY <1>2, <1>6, PartOf
  <2> QED BY <1>6, <2>1
<1>9. ASSUME NEW i \in 1 .. k PROVE SubSeq(w, 1, k)[i] = (s \o v)[i]
  <2>1. i \in 1 .. m + n /\ i \in 1 .. m + (n - 1) /\ (i > m => i - m \in 1 .. n - 1)
    BY <1>1
  <2>2. SubSeq(w, 1, k)[i] = IF i <= m THEN s[i] ELSE u[i - m]
    BY <1>2, <1>8, <2>1
  <2>3. (s \o v)[i] = IF i <= m THEN s[i] ELSE v[i - m]
    BY <1>5, <2>1
  <2>4. CASE i <= m
    BY <2>2, <2>3, <2>4
  <2>5. CASE ~(i <= m)
    BY <1>1, <1>4, <2>1, <2>2, <2>3, <2>5
  <2> QED BY <2>4, <2>5
<1>10. k = m + (n - 1)
  BY <1>1
<1> HIDE DEF k
<1>11. SubSeq(w, 1, k) = s \o v
  BY <1>5, <1>8, <1>9, <1>10, SeqEqual
<1> QED BY <1>7, <1>11 DEF w, v

(* The states of the editor, and what a key does to them.                  *)
EditorLine(buffer, screen, kept, submitted, state) ==
    [buffer |-> buffer, screen |-> screen, kept |-> kept, submitted |-> submitted, state |-> state]
EditorStates ==
    [buffer : Seq(TypedChars), screen : Seq(TypedChars), kept : Seq(TypedChars),
     submitted : Seq(Seq(TypedChars)), state : {"reading", "ended", "undefined"}]
Holds(s) == s \in EditorStates /\ Len(s.buffer) <= MAX_BUFFER_SIZE
OnScreen(s) == s.buffer = s.kept \o s.screen
Hands(s, t) == t.submitted # s.submitted => Last(t.submitted) = s.kept \o s.screen
Right(s, key, t) ==
    /\ Holds(t)
    /\ OnScreen(s) /\ ~Slip(s, key) /\ t.state # "undefined" =>
          s.state # "undefined" /\ OnScreen(t) /\ Hands(s, t) /\ (key = "end" => t.state = "ended")

(* A record of texts whose buffer fits is a state of the editor.           *)
LEMMA EditorState ==
    ASSUME NEW b \in Seq(TypedChars), NEW c \in Seq(TypedChars), NEW k \in Seq(TypedChars),
           NEW l \in Seq(Seq(TypedChars)), NEW state \in {"reading", "ended", "undefined"},
           Len(b) <= MAX_BUFFER_SIZE
    PROVE  Holds(EditorLine(b, c, k, l, state))
BY DEF Holds, EditorStates, EditorLine

(* The fields of a state, and the state from its fields.                   *)
LEMMA Fields ==
    ASSUME NEW s, Holds(s)
    PROVE  /\ s.buffer \in Seq(TypedChars) /\ s.screen \in Seq(TypedChars)
           /\ s.kept \in Seq(TypedChars) /\ s.submitted \in Seq(Seq(TypedChars))
           /\ s.state \in {"reading", "ended", "undefined"}
           /\ Len(s.buffer) \in Nat /\ Len(s.buffer) <= MAX_BUFFER_SIZE
           /\ s = EditorLine(s.buffer, s.screen, s.kept, s.submitted, s.state)
BY LenProperties DEF Holds, EditorStates, EditorLine

(* The updates the keys make, as records of their fields.                  *)
LEMMA EditorUpdates ==
    ASSUME NEW s, Holds(s), NEW x, NEW y
    PROVE  /\ [s EXCEPT !.state = x] = EditorLine(s.buffer, s.screen, s.kept, s.submitted, x)
           /\ [s EXCEPT !.submitted = x] = EditorLine(s.buffer, s.screen, s.kept, x, s.state)
           /\ [s EXCEPT !.screen = x] = EditorLine(s.buffer, x, s.kept, s.submitted, s.state)
           /\ [s EXCEPT !.buffer = x, !.screen = y]
                = EditorLine(x, y, s.kept, s.submitted, s.state)
           /\ [s EXCEPT !.kept = x] = EditorLine(s.buffer, s.screen, x, s.submitted, s.state)
<1> DEFINE b == s.buffer
           c == s.screen
           k == s.kept
           l == s.submitted
           e == s.state
<1>1. s = EditorLine(b, c, k, l, e)
  BY Fields
<1> HIDE DEF b, c, k, l, e
<1>2. [s EXCEPT !.buffer = x, !.screen = y] = [[s EXCEPT !.buffer = x] EXCEPT !.screen = y]
  OBVIOUS
<1>3. /\ [s EXCEPT !.state = x] = EditorLine(b, c, k, l, x)
      /\ [s EXCEPT !.submitted = x] = EditorLine(b, c, k, x, e)
      /\ [s EXCEPT !.screen = x] = EditorLine(b, x, k, l, e)
      /\ [s EXCEPT !.kept = x] = EditorLine(b, c, x, l, e)
      /\ [s EXCEPT !.buffer = x] = EditorLine(x, c, k, l, e)
  BY <1>1 DEF EditorLine
<1>4. [EditorLine(x, c, k, l, e) EXCEPT !.screen = y] = EditorLine(x, y, k, l, e)
  BY DEF EditorLine
<1>5. [s EXCEPT !.buffer = x, !.screen = y] = EditorLine(x, y, k, l, e)
  BY <1>2, <1>3, <1>4
<1> QED BY <1>3, <1>5 DEF b, c, k, l, e

(* The two updates most keys make.                                         *)
LEMMA StateUpdate ==
    ASSUME NEW s, Holds(s), NEW x
    PROVE  [s EXCEPT !.state = x] = EditorLine(s.buffer, s.screen, s.kept, s.submitted, x)
<1> DEFINE b == s.buffer
           c == s.screen
           k == s.kept
           l == s.submitted
           e == s.state
<1>1. s = EditorLine(b, c, k, l, e)
  BY Fields
<1> HIDE DEF b, c, k, l, e
<1>2. [s EXCEPT !.state = x] = EditorLine(b, c, k, l, x)
  BY <1>1 DEF EditorLine
<1> QED BY <1>2 DEF b, c, k, l

LEMMA TextUpdate ==
    ASSUME NEW s, Holds(s), NEW x, NEW y
    PROVE  [s EXCEPT !.buffer = x, !.screen = y] = EditorLine(x, y, s.kept, s.submitted, s.state)
<1> DEFINE b == s.buffer
           c == s.screen
           k == s.kept
           l == s.submitted
           e == s.state
<1>1. s = EditorLine(b, c, k, l, e)
  BY Fields
<1> HIDE DEF b, c, k, l, e
<1>2. [s EXCEPT !.buffer = x] = EditorLine(x, c, k, l, e)
  BY <1>1 DEF EditorLine
<1>3. [EditorLine(x, c, k, l, e) EXCEPT !.screen = y] = EditorLine(x, y, k, l, e)
  BY DEF EditorLine
<1>4. [s EXCEPT !.buffer = x, !.screen = y] = [[s EXCEPT !.buffer = x] EXCEPT !.screen = y]
  OBVIOUS
<1>5. [s EXCEPT !.buffer = x, !.screen = y] = EditorLine(x, y, k, l, e)
  BY <1>2, <1>3, <1>4
<1> QED BY <1>5 DEF k, l, e

(* The fields of a record put together.                                    *)
LEMMA EditorFields ==
    ASSUME NEW b, NEW c, NEW k, NEW l, NEW e, NEW s, s = EditorLine(b, c, k, l, e)
    PROVE  s.buffer = b /\ s.screen = c /\ s.kept = k /\ s.submitted = l /\ s.state = e
BY DEF EditorLine

(* A backspace takes the same character from buffer and screen, without a  *)
(* slip.                                                                   *)
LEMMA BackspaceRight ==
    ASSUME NEW s, Holds(s), s.state = "reading"
    PROVE  Right(s, "back", Backspace(s))
<1> DEFINE t == Backspace(s)
           c == IF s.buffer = <<>> THEN s.screen ELSE DropLast(s.screen)
<1>1. t = EditorLine(DropLast(s.buffer), c, s.kept, s.submitted, s.state)
  <2> DEFINE b == DropLast(s.buffer)
  <2>1. t = [s EXCEPT !.buffer = b, !.screen = c]
    BY DEF Backspace
  <2> HIDE DEF b, c, t
  <2>2. t = EditorLine(b, c, s.kept, s.submitted, s.state)
    BY <2>1, TextUpdate
  <2> QED BY <2>2 DEF b
<1>2. Holds(t)
  <2>1. DropLast(s.buffer) \in Seq(TypedChars) /\ Len(DropLast(s.buffer)) <= MAX_BUFFER_SIZE
    BY Fields, DropLastIs, LineAssumption
  <2>2. c \in Seq(TypedChars)
    BY Fields, DropLastIs
  <2> HIDE DEF t, c
  <2> QED BY <1>1, <2>1, <2>2, Fields, EditorState
<1>3. ASSUME OnScreen(s), ~Slip(s, "back") PROVE OnScreen(t)
  <2>1. s.screen # <<>> \/ s.kept = <<>>
    BY <1>3 DEF Slip
  <2>2. s.kept \in Seq(TypedChars) /\ s.screen \in Seq(TypedChars) /\ s.buffer \in Seq(TypedChars)
    BY Fields
  <2>3. t.buffer = DropLast(s.buffer) /\ t.screen = c /\ t.kept = s.kept
    BY <1>1, EditorFields
  <2> HIDE DEF t
  <2>4. CASE s.screen = <<>>
    <3>1. s.kept = <<>> /\ s.buffer = <<>>
      BY <1>3, <2>1, <2>2, <2>4, ConcatEmptySeq DEF OnScreen
    <3>2. t.buffer = <<>> /\ t.screen = <<>> /\ t.kept = <<>>
      BY <2>3, <2>4, <3>1 DEF DropLast
    <3> QED BY <3>2, EmptySeq, ConcatEmptySeq DEF OnScreen
  <2>5. CASE s.screen # <<>>
    <3>1. DropLast(s.kept \o s.screen) = s.kept \o DropLast(s.screen)
      BY <2>2, <2>5, DropLastBehind
    <3>2. s.buffer # <<>>
      BY <1>3, <2>2, <2>5, ConcatEqualIffEmpty DEF OnScreen
    <3>3. c = DropLast(s.screen)
      BY <3>2
    <3> QED BY <1>3, <2>3, <3>1, <3>3 DEF OnScreen
  <2> QED BY <2>4, <2>5
<1>4. t.submitted = s.submitted /\ t.state = s.state
  BY <1>1, EditorFields
<1> HIDE DEF t
<1> QED BY <1>2, <1>3, <1>4 DEF Right, Hands, t

(* A tab puts the completion into both, or is undefined.                   *)
LEMMA TabRight ==
    ASSUME NEW s, Holds(s), s.state = "reading",
           NEW cwd, IsDirectory(cwd), NEW path, IsDirectory(path)
    PROVE  Right(s, "tab", Tab(s, cwd, path))
<1> DEFINE t == Tab(s, cwd, path)
           room == MAX_BUFFER_SIZE - Len(s.buffer)
           extra == tab_complete(LastWord(s.buffer), cwd, path, room)
           quiet == s.buffer = <<>> \/ is_quote_open(s.buffer)
<1>1. room \in Nat /\ Len(s.buffer) \in Nat
  BY Fields, LineAssumption
<1>2. Fits(extra, room)
  <2>1. LastWord(s.buffer) \in Seq(TypedChars)
    BY Fields, LastWordTyped
  <2> HIDE DEF room
  <2> QED BY <1>1, <2>1, CompletionFits
<1>3. t = CASE quiet -> s
            [] s.buffer # <<>> /\ ~is_quote_open(s.buffer) /\ extra = Undefined ->
                  [s EXCEPT !.state = "undefined"]
            [] OTHER -> [s EXCEPT !.buffer = @ \o extra, !.screen = @ \o extra]
  BY DEF Tab
<1> HIDE DEF t, extra, room
<1>4. CASE quiet
  <2>1. t = s
    BY <1>3, <1>4
  <2> QED BY <2>1 DEF Right, Hands, t
<1>5. CASE ~quiet /\ extra = Undefined
  <2>1. t = [s EXCEPT !.state = "undefined"]
    BY <1>3, <1>5
  <2>2. t = EditorLine(s.buffer, s.screen, s.kept, s.submitted, "undefined")
    <3> DEFINE e == "undefined"
    <3>1. t = [s EXCEPT !.state = e]
      BY <2>1
    <3> HIDE DEF e, t
    <3>2. t = EditorLine(s.buffer, s.screen, s.kept, s.submitted, e)
      BY <3>1, StateUpdate
    <3> QED BY <3>2 DEF e
  <2>3. Holds(t)
    BY <2>2, Fields, EditorState
  <2>4. t.state = "undefined"
    BY <2>2, EditorFields
  <2> QED BY <2>3, <2>4 DEF Right, t
<1>6. CASE ~quiet /\ extra # Undefined
  <2>1. t = [s EXCEPT !.buffer = @ \o extra, !.screen = @ \o extra]
    BY <1>3, <1>6
  <2>2. t = EditorLine(s.buffer \o extra, s.screen \o extra, s.kept, s.submitted, s.state)
    <3> DEFINE b == s.buffer \o extra
               c == s.screen \o extra
    <3>1. t = [s EXCEPT !.buffer = b, !.screen = c]
      BY <2>1
    <3> HIDE DEF b, c
    <3>2. t = EditorLine(b, c, s.kept, s.submitted, s.state)
      BY <3>1, EditorUpdates
    <3> QED BY <3>2 DEF b, c
  <2>3. extra \in Seq(TypedChars) /\ Len(extra) \in Nat /\ Len(extra) <= room
    <3>1. AddedChars \subseteq TypedChars
      BY DEF TypedChars
    <3> QED BY <1>2, <1>6, <3>1, SeqMonotonic DEF Fits
  <2>4. s.buffer \in Seq(TypedChars) /\ s.screen \in Seq(TypedChars) /\ s.kept \in Seq(TypedChars)
    BY Fields
  <2>5. s.buffer \o extra \in Seq(TypedChars) /\ s.screen \o extra \in Seq(TypedChars)
        /\ Len(s.buffer \o extra) = Len(s.buffer) + Len(extra)
    BY <2>3, <2>4, ConcatProperties
  <2>6. Len(s.buffer \o extra) <= MAX_BUFFER_SIZE
    BY <1>1, <2>3, <2>5, LineAssumption DEF room
  <2>7. Holds(t)
    BY <2>2, <2>5, <2>6, Fields, EditorState
  <2>8. t.buffer = s.buffer \o extra /\ t.screen = s.screen \o extra /\ t.kept = s.kept
        /\ t.submitted = s.submitted /\ t.state = s.state
    <3> DEFINE b == s.buffer \o extra
               c == s.screen \o extra
    <3> HIDE DEF b, c
    <3>1. t = EditorLine(b, c, s.kept, s.submitted, s.state)
      BY <2>2 DEF b, c
    <3>2. t.buffer = b /\ t.screen = c /\ t.kept = s.kept /\ t.submitted = s.submitted
          /\ t.state = s.state
      BY <3>1, EditorFields
    <3> QED BY <3>2 DEF b, c
  <2>9. (s.kept \o s.screen) \o extra = s.kept \o (s.screen \o extra)
    <3> DEFINE k == s.kept
               c == s.screen
    <3> HIDE DEF k, c
    <3>1. k \in Seq(TypedChars) /\ c \in Seq(TypedChars)
      BY <2>4 DEF k, c
    <3>2. (k \o c) \o extra = k \o (c \o extra)
      BY <2>3, <3>1, ConcatAssociative
    <3> QED BY <3>2 DEF k, c
  <2>10. OnScreen(s) => OnScreen(t)
    BY <2>8, <2>9 DEF OnScreen
  <2> QED BY <2>7, <2>8, <2>10 DEF Right, Hands, t
<1> QED BY <1>4, <1>5, <1>6

(* A new prompt is an empty line.                                          *)
LEMMA PromptIs ==
    ASSUME NEW s, Holds(s)
    PROVE  /\ Holds(Prompt(s)) /\ OnScreen(Prompt(s))
           /\ Prompt(s).submitted = s.submitted /\ Prompt(s).state = s.state
<1> DEFINE none == <<>>
           t == Prompt(s)
<1>1. none \in Seq(TypedChars) /\ Len(none) = 0 /\ none \o none = none
  BY EmptySeq, ConcatEmptySeq
<1>2. t = [s EXCEPT !.buffer = none, !.screen = none, !.kept = none]
  BY DEF Prompt
<1> HIDE DEF none, t
<1>3. t = EditorLine(none, none, none, s.submitted, s.state)
  <2> DEFINE u == [s EXCEPT !.buffer = none, !.screen = none]
  <2>1. u = EditorLine(none, none, s.kept, s.submitted, s.state)
    BY EditorUpdates
  <2>2. t = [u EXCEPT !.kept = none]
    BY <1>2
  <2> HIDE DEF u
  <2> QED BY <2>1, <2>2 DEF EditorLine
<1>4. Len(none) <= MAX_BUFFER_SIZE
  BY <1>1, LineAssumption
<1>5. Holds(t)
  BY <1>1, <1>3, <1>4, Fields, EditorState
<1>6. t.buffer = none /\ t.kept = none /\ t.screen = none
      /\ t.submitted = s.submitted /\ t.state = s.state
  BY <1>3, EditorFields
<1>7. OnScreen(t)
  BY <1>1, <1>6 DEF OnScreen
<1> QED BY <1>5, <1>6, <1>7 DEF t

(* A newline hands over what is on the screen, or goes on behind a quote>  *)
(* prompt.                                                                 *)
LEMMA EnterRight ==
    ASSUME NEW s, Holds(s), s.state = "reading"
    PROVE  Right(s, "enter", Enter(s))
<1> DEFINE t == Enter(s)
           u == [s EXCEPT !.submitted = Append(@, s.buffer)]
<1>1. t = CASE s.buffer = <<>> -> Prompt(s)
            [] s.buffer # <<>> /\ is_quote_open(s.buffer) -> [s EXCEPT !.kept = s.buffer, !.screen = <<>>]
            [] OTHER -> Prompt(u)
  BY DEF Enter
<1> HIDE DEF t
<1>2. CASE s.buffer = <<>>
  <2>1. t = Prompt(s)
    BY <1>1, <1>2
  <2>2. Holds(t) /\ OnScreen(t) /\ t.submitted = s.submitted
    BY <2>1, PromptIs
  <2> QED BY <2>2 DEF Right, Hands, t
<1>3. CASE s.buffer # <<>> /\ is_quote_open(s.buffer)
  <2>1. t = [s EXCEPT !.kept = s.buffer, !.screen = <<>>]
    BY <1>1, <1>3
  <2>2. t = EditorLine(s.buffer, <<>>, s.buffer, s.submitted, s.state)
    <3> DEFINE none == <<>>
               b == s.buffer
    <3>1. t = [s EXCEPT !.kept = b, !.screen = none]
      BY <2>1
    <3> HIDE DEF none, b
    <3> DEFINE v == [s EXCEPT !.kept = b]
    <3>2. v = EditorLine(s.buffer, s.screen, b, s.submitted, s.state)
      BY EditorUpdates
    <3>3. t = [v EXCEPT !.screen = none]
      BY <3>1
    <3> HIDE DEF v
    <3>4. t = EditorLine(s.buffer, none, b, s.submitted, s.state)
      BY <3>2, <3>3 DEF EditorLine
    <3> QED BY <3>4 DEF none, b
  <2>3. Holds(t)
    BY <2>2, EmptySeq, Fields, EditorState
  <2>4. t.buffer = s.buffer /\ t.kept = s.buffer /\ t.screen = <<>> /\ t.submitted = s.submitted
    BY <2>2, EditorFields
  <2>5. OnScreen(t)
    BY <2>4, Fields, ConcatEmptySeq DEF OnScreen
  <2> QED BY <2>3, <2>4, <2>5 DEF Right, Hands, t
<1>4. CASE s.buffer # <<>> /\ ~is_quote_open(s.buffer)
  <2>1. t = Prompt(u)
    BY <1>1, <1>4
  <2>2. u = EditorLine(s.buffer, s.screen, s.kept, Append(s.submitted, s.buffer), s.state)
    BY EditorUpdates
  <2> DEFINE Lines == Seq(TypedChars)
  <2> HIDE DEF Lines, u
  <2>3. s.submitted \in Seq(Lines) /\ s.buffer \in Lines
    BY Fields DEF Lines
  <2>4. Append(s.submitted, s.buffer) \in Seq(Lines)
        /\ Append(s.submitted, s.buffer)[Len(Append(s.submitted, s.buffer))] = s.buffer
    BY <2>3, AppendProperties
  <2>5. Holds(u)
    BY <2>2, <2>4, Fields, EditorState DEF Lines
  <2>6. Holds(t) /\ OnScreen(t) /\ t.submitted = Append(s.submitted, s.buffer)
    <3> DEFINE l == Append(s.submitted, s.buffer)
    <3> HIDE DEF l
    <3>1. u = EditorLine(s.buffer, s.screen, s.kept, l, s.state)
      BY <2>2 DEF l
    <3>2. u.submitted = l
      BY <3>1, EditorFields
    <3> QED BY <2>1, <2>5, <3>2, PromptIs DEF l
  <2>7. Last(t.submitted) = s.buffer
    BY <2>4, <2>6 DEF Last
  <2> QED BY <2>6, <2>7 DEF Right, Hands, OnScreen, t
<1> QED BY <1>2, <1>3, <1>4

(* Any other key goes into both if there is room; escape and the end of    *)
(* input end the line.                                                     *)
LEMMA OtherRight ==
    ASSUME NEW s, Holds(s), s.state = "reading",
           NEW key \in Keys, key \notin {"back", "tab", "enter"}
    PROVE  Right(s, key, Other(s, key))
<1> DEFINE t == Other(s, key)
           room == Len(s.buffer) < MAX_BUFFER_SIZE
           full == Len(s.buffer) >= MAX_BUFFER_SIZE
           c == DropLast(s.screen)
           erased == [s EXCEPT !.screen = c]
           ended == [s EXCEPT !.state = "ended"]
           b2 == Append(s.buffer, key)
           c2 == Append(s.screen, key)
           typed == [s EXCEPT !.buffer = b2, !.screen = c2]
<1>1. t = CASE full -> IF key \in Controls THEN erased ELSE s
            [] room /\ key = "end" -> ended
            [] room /\ key = "esc" -> Prompt(s)
            [] OTHER -> typed
  BY DEF Other
<1>2. Len(s.buffer) \in Nat /\ MAX_BUFFER_SIZE \in Nat
  BY Fields, LineAssumption
<1>3. full <=> ~room
  BY <1>2
<1>4. s.buffer \in Seq(TypedChars) /\ s.screen \in Seq(TypedChars) /\ s.kept \in Seq(TypedChars)
      /\ key \in TypedChars
  BY Fields DEF TypedChars
<1>5. CASE full /\ key \in {"esc", "end"}
  <2>1. key \in Controls
    BY <1>5 DEF Controls
  <2> HIDE DEF full, room, erased, ended, typed, t
  <2>2. t = erased
    BY <1>1, <1>3, <1>5, <2>1
  <2>3. c \in Seq(TypedChars)
    BY <1>4, DropLastIs
  <2> HIDE DEF c
  <2>4. t = EditorLine(s.buffer, c, s.kept, s.submitted, s.state)
    BY <2>2, EditorUpdates DEF erased
  <2>5. Holds(t)
    BY <2>3, <2>4, Fields, EditorState
  <2>6. Slip(s, key)
    BY <1>5 DEF Slip, full
  <2> QED BY <2>5, <2>6 DEF Right, t
<1>6. CASE full /\ key \notin {"esc", "end"}
  <2>1. key \notin Controls
    BY <1>6 DEF Controls
  <2> HIDE DEF full, room, erased, ended, typed, t
  <2>2. t = s
    BY <1>1, <1>3, <1>6, <2>1
  <2> QED BY <1>6, <2>2 DEF Right, Hands, t
<1>7. CASE room /\ key = "end"
  <2> HIDE DEF full, room, erased, ended, typed, t
  <2>1. t = ended
    BY <1>1, <1>3, <1>7
  <2>2. t = EditorLine(s.buffer, s.screen, s.kept, s.submitted, "ended")
    <3> DEFINE e == "ended"
    <3>1. t = [s EXCEPT !.state = e]
      BY <2>1 DEF ended
    <3> HIDE DEF e
    <3>2. t = EditorLine(s.buffer, s.screen, s.kept, s.submitted, e)
      BY <3>1, StateUpdate
    <3> QED BY <3>2 DEF e
  <2>3. Holds(t)
    BY <2>2, Fields, EditorState
  <2>4. t.buffer = s.buffer /\ t.screen = s.screen /\ t.kept = s.kept /\ t.submitted = s.submitted
        /\ t.state = "ended"
    BY <2>2, EditorFields
  <2> QED BY <2>3, <2>4 DEF Right, Hands, OnScreen, t
<1>8. CASE room /\ key = "esc"
  <2> HIDE DEF full, room, erased, ended, typed, t
  <2>1. t = Prompt(s)
    BY <1>1, <1>3, <1>8
  <2>2. Holds(t) /\ OnScreen(t) /\ t.submitted = s.submitted /\ t.state = s.state
    BY <2>1, PromptIs
  <2> QED BY <1>8, <2>2 DEF Right, Hands, t
<1>9. CASE room /\ key \notin {"end", "esc"}
  <2>1. b2 \in Seq(TypedChars) /\ c2 \in Seq(TypedChars) /\ Len(b2) = Len(s.buffer) + 1
    BY <1>4, AppendProperties
  <2>2. Len(b2) <= MAX_BUFFER_SIZE
    BY <1>2, <1>9, <2>1
  <2>3. b2 = s.buffer \o <<key>> /\ c2 = s.screen \o <<key>>
    BY <1>4, AppendIsConcat
  <2> HIDE DEF full, room, erased, ended, typed, t, b2, c2
  <2>4. t = typed
    BY <1>1, <1>3, <1>9
  <2>5. t = EditorLine(b2, c2, s.kept, s.submitted, s.state)
    BY <2>4, EditorUpdates DEF typed
  <2>6. Holds(t)
    BY <2>1, <2>2, <2>5, Fields, EditorState
  <2>7. t.buffer = b2 /\ t.screen = c2 /\ t.kept = s.kept /\ t.submitted = s.submitted
        /\ t.state = s.state
    BY <2>5, EditorFields
  <2>8. OnScreen(s) => OnScreen(t)
    <3> DEFINE k == s.kept
               d == s.screen
               last == <<key>>
    <3>1. last \in Seq(TypedChars) /\ k \in Seq(TypedChars) /\ d \in Seq(TypedChars)
      BY <1>4
    <3> HIDE DEF k, d, last
    <3>2. (k \o d) \o last = k \o (d \o last)
      BY <3>1, ConcatAssociative
    <3> QED BY <2>3, <2>7, <3>2 DEF OnScreen, k, d, last
  <2> QED BY <1>9, <2>6, <2>7, <2>8 DEF Right, Hands, t
<1> HIDE DEF full, room, t
<1> QED BY <1>3, <1>5, <1>6, <1>7, <1>8, <1>9

(* Every key is right.                                                     *)
LEMMA PressRight ==
    ASSUME NEW s, Holds(s), NEW key \in Keys,
           NEW cwd, IsDirectory(cwd), NEW path, IsDirectory(path)
    PROVE  Right(s, key, Press(s, key, cwd, path))
<1> DEFINE t == Press(s, key, cwd, path)
<1>1. CASE s.state # "reading"
  <2>1. t = s
    BY <1>1 DEF Press
  <2>2. s.state \in {"ended", "undefined"}
    BY <1>1, Fields
  <2> HIDE DEF t
  <2> QED BY <2>1, <2>2 DEF Right, Hands, t
<1>2. CASE s.state = "reading" /\ key = "back"
  <2>1. t = Backspace(s)
    BY <1>2 DEF Press
  <2> QED BY <1>2, <2>1, BackspaceRight
<1>3. CASE s.state = "reading" /\ key = "tab"
  <2>1. t = Tab(s, cwd, path)
    BY <1>3 DEF Press
  <2> QED BY <1>3, <2>1, TabRight
<1>4. CASE s.state = "reading" /\ key = "enter"
  <2>1. t = Enter(s)
    BY <1>4 DEF Press
  <2> QED BY <1>4, <2>1, EnterRight
<1>5. CASE s.state = "reading" /\ key \notin {"back", "tab", "enter"}
  <2>1. t = Other(s, key)
    BY <1>5 DEF Press
  <2> QED BY <1>5, <2>1, OtherRight
<1> QED BY <1>1, <1>2, <1>3, <1>4, <1>5

HoldingStates == { s \in EditorStates : Holds(s) }

(* Typed goes over the keys one at a time, through states whose buffer     *)
(* fits.                                                                   *)
LEMMA TypedIs ==
    ASSUME NEW keys \in Seq(Keys), NEW cwd, IsDirectory(cwd), NEW path, IsDirectory(path)
    PROVE  /\ Typed(keys, cwd, path)[0] = EmptyLine
           /\ \A i \in 0 .. Len(keys) : Holds(Typed(keys, cwd, path)[i])
           /\ \A i \in 1 .. Len(keys) : Typed(keys, cwd, path)[i]
                 = Press(Typed(keys, cwd, path)[i - 1], keys[i], cwd, path)
<1> DEFINE n == Len(keys)
           T == HoldingStates
           Step == [p \in T \X (1 .. n) |-> Press(p[1], keys[p[2]], cwd, path)]
           Body(h, i) == IF i = 0 THEN EmptyLine ELSE Press(h[i - 1], keys[i], cwd, path)
           P(h) == h = [i \in 0 .. Len(keys) |-> Body(h, i)]
           f == CHOOSE h : P(h)
<1>1. n \in Nat /\ EmptyLine \in T
  <2> DEFINE none == <<>>
  <2>1. none \in Seq(TypedChars) /\ Len(none) = 0 /\ none \in Seq(Seq(TypedChars))
    BY EmptySeq
  <2>2. EmptyLine = EditorLine(none, none, none, none, "reading")
    BY DEF EmptyLine, EditorLine
  <2> HIDE DEF none
  <2>3. Len(none) <= MAX_BUFFER_SIZE
    BY <2>1, LineAssumption
  <2>4. Holds(EmptyLine)
    BY <2>1, <2>2, <2>3, EditorState
  <2> QED BY <2>4 DEF HoldingStates, Holds
<1>2. \A i \in 1 .. n : keys[i] \in Keys
  BY ElementOfSeq
<1>3. Step \in [T \X (1 .. n) -> T]
  <2>1. ASSUME NEW s \in T, NEW i \in 1 .. n PROVE Press(s, keys[i], cwd, path) \in T
    <3>1. Holds(Press(s, keys[i], cwd, path))
      BY <1>2, PressRight DEF HoldingStates, Right
    <3> QED BY <3>1 DEF HoldingStates, Holds
  <2> HIDE DEF T, n
  <2> QED BY <2>1
<1>4. \A s \in T, i \in 1 .. n : Step[<<s, i>>] = Press(s, keys[i], cwd, path)
  <2> HIDE DEF T, n
  <2> QED OBVIOUS
<1>5. \A h : Body(h, 0) = EmptyLine
  OBVIOUS
<1>6. ASSUME NEW h, NEW i \in 1 .. n PROVE Body(h, i) = Press(h[i - 1], keys[i], cwd, path)
  BY <1>1
<1> HIDE DEF n, T, Step, Body
<1>7. PICK g \in [0 .. n -> T] : Follows(g, n, EmptyLine, Step)
  BY <1>1, <1>3, Recursion, Zenon
<1>8. P(g)
  <2>1. ASSUME NEW i \in 0 .. n PROVE g[i] = Body(g, i)
    <3>1. CASE i = 0
      BY <1>5, <1>7, <3>1 DEF Follows
    <3>2. CASE i \in 1 .. n
      <4>1. i - 1 \in 0 .. n
        BY <1>1, <3>2
      <4>2. g[i] = Press(g[i - 1], keys[i], cwd, path)
        BY <1>4, <1>7, <3>2, <4>1 DEF Follows
      <4> QED BY <1>6, <3>2, <4>2
    <3> QED BY <1>1, <3>1, <3>2
  <2> QED BY <2>1 DEF n
<1> HIDE DEF P
<1>9. P(f)
  BY <1>8, Zenon
<1>10. Typed(keys, cwd, path) = f
  BY Zenon DEF Typed, P, Body
<1> HIDE DEF f
<1>11. DOMAIN f = 0 .. n /\ f = [i \in 0 .. n |-> f[i]] /\ \A i \in 0 .. n : f[i] = Body(f, i)
  BY <1>9 DEF P, n
<1>12. f[0] = EmptyLine /\ \A i \in 1 .. n : f[i] = Press(f[i - 1], keys[i], cwd, path)
  BY <1>1, <1>5, <1>6, <1>11
<1>13. f \in [0 .. n -> T]
  <2>1. \A i \in 1 .. n : f[i - 1] \in T => f[i] = Step[<<f[i - 1], i>>]
    BY <1>4, <1>12
  <2> QED BY <1>1, <1>3, <1>11, <1>12, <2>1, IsRecursion
<1>14. \A i \in 0 .. n : Holds(f[i])
  BY <1>13 DEF T, HoldingStates
<1> QED BY <1>10, <1>12, <1>14 DEF n

(* The prompt does what is expected of it.                                 *)
LEMMA EditorShows ==
    ASSUME NEW keys \in Seq(Keys), NEW cwd, IsDirectory(cwd), NEW path, IsDirectory(path)
    PROVE  ShowsWhatItTakes(keys, cwd, path)
<1> DEFINE n == Len(keys)
           state == Typed(keys, cwd, path)
           careful == \A i \in DOMAIN keys : ~Slip(state[i - 1], keys[i])
           S == { i \in 0 .. n : careful /\ state[i].state # "undefined" => OnScreen(state[i]) }
<1>1. n \in Nat /\ DOMAIN keys = 1 .. n /\ \A i \in 1 .. n : keys[i] \in Keys
  BY LenProperties, ElementOfSeq
<1>2. state[0] = EmptyLine /\ \A i \in 0 .. n : Holds(state[i])
  BY TypedIs
<1>3. \A i \in 1 .. n : state[i] = Press(state[i - 1], keys[i], cwd, path)
  BY TypedIs
<1> HIDE DEF n, state
<1>4. ASSUME NEW i \in 1 .. n PROVE Right(state[i - 1], keys[i], state[i])
  <2>1. i - 1 \in 0 .. n
    BY <1>1
  <2>2. Holds(state[i - 1])
    BY <1>2, <2>1
  <2> QED BY <1>1, <1>3, <2>2, PressRight
<1>5. ASSUME NEW i \in 1 .. n, careful PROVE ~Slip(state[i - 1], keys[i])
  BY <1>1, <1>5
<1> HIDE DEF careful
<1>6. 0 \in S
  <2>1. OnScreen(EmptyLine)
    BY EmptySeq, ConcatEmptySeq DEF OnScreen, EmptyLine
  <2> QED BY <1>1, <1>2, <2>1
<1>7. ASSUME NEW i \in 0 .. n - 1, i \in S PROVE i + 1 \in S
  <2>1. i + 1 \in 1 .. n /\ (i + 1) - 1 = i /\ i + 1 \in 0 .. n
    BY <1>1
  <2>2. Right(state[i], keys[i + 1], state[i + 1]) /\ (careful => ~Slip(state[i], keys[i + 1]))
    BY <1>4, <1>5, <2>1
  <2>3. careful /\ state[i].state # "undefined" => OnScreen(state[i])
    BY <1>7
  <2>4. ASSUME careful, state[i + 1].state # "undefined" PROVE OnScreen(state[i + 1])
    <3>1. CASE state[i].state = "undefined"
      <4>1. state[i + 1] = state[i]
        BY <1>3, <2>1, <3>1 DEF Press
      <4> QED BY <2>4, <3>1, <4>1
    <3>2. CASE state[i].state # "undefined"
      BY <2>2, <2>3, <2>4, <3>2 DEF Right
    <3> QED BY <3>1, <3>2
  <2> QED BY <2>1, <2>4
<1> HIDE DEF S
<1>8. 0 .. n \subseteq S
  BY <1>1, <1>6, <1>7, Reached
<1>9. ASSUME NEW i \in 1 .. n
      PROVE  /\ Len(state[i].buffer) <= MAX_BUFFER_SIZE
             /\ careful /\ state[i].state # "undefined" =>
                  /\ state[i].buffer = state[i].kept \o state[i].screen
                  /\ keys[i] = "end" => state[i].state = "ended"
                  /\ state[i].submitted # state[i - 1].submitted =>
                        Last(state[i].submitted) = state[i - 1].kept \o state[i - 1].screen
  <2>1. i - 1 \in 0 .. n /\ i \in 0 .. n
    BY <1>1
  <2>2. Right(state[i - 1], keys[i], state[i])
    BY <1>4
  <2>3. careful /\ state[i].state # "undefined" => OnScreen(state[i])
    BY <1>8, <2>1 DEF S
  <2>4. careful /\ state[i - 1].state # "undefined" => OnScreen(state[i - 1])
    BY <1>8, <2>1 DEF S
  <2>5. Len(state[i].buffer) <= MAX_BUFFER_SIZE
    BY <2>2 DEF Right, Holds
  <2>6. ASSUME careful, state[i].state # "undefined"
        PROVE  Hands(state[i - 1], state[i]) /\ (keys[i] = "end" => state[i].state = "ended")
    <3>1. ~Slip(state[i - 1], keys[i])
      BY <1>5, <2>6
    <3>2. CASE state[i - 1].state = "undefined"
      <4>1. state[i] = state[i - 1]
        BY <1>3, <3>2 DEF Press
      <4> QED BY <2>6, <3>2, <4>1
    <3>3. CASE state[i - 1].state # "undefined"
      BY <2>2, <2>4, <2>6, <3>1, <3>3 DEF Right
    <3> QED BY <3>2, <3>3
  <2> QED BY <2>3, <2>5, <2>6 DEF OnScreen, Hands
<1> QED BY <1>1, <1>9 DEF ShowsWhatItTakes, IsShown, state, careful

(***************************************************************************)
(* The scanners: their flags at a character are those of the text before   *)
(* it.                                                                     *)
(***************************************************************************)
FlagSet == [open : Quotes \cup {""}, special : BOOLEAN]
NoFlags == [open |-> "", special |-> FALSE]
After(text, forgets) == Flags(text, Len(text) + 1, forgets)

(* A character takes flags to flags.                                       *)
LEMMA ScanTyped ==
    ASSUME NEW s \in FlagSet, NEW c, NEW forgets
    PROVE  Scan(s, c, forgets) \in FlagSet
<1>1. [s EXCEPT !.special = TRUE] \in FlagSet /\ [s EXCEPT !.special = FALSE] \in FlagSet
  BY DEF FlagSet
<1>2. ASSUME c \in Quotes PROVE [s EXCEPT !.open = IF @ = c THEN "" ELSE c] \in FlagSet
  BY <1>2 DEF FlagSet
<1>3. CASE c = "\\"
  BY <1>1, <1>3 DEF Scan, Quotes
<1>4. CASE c # "\\" /\ c \in Quotes
  BY <1>1, <1>2, <1>4 DEF Scan
<1>5. CASE c # "\\" /\ c \notin Quotes
  BY <1>1, <1>5 DEF Scan
<1> QED BY <1>3, <1>4, <1>5

ScansTo(g, line, n, forgets) ==
    /\ Flags(line, n + 1, forgets) = g[n] /\ g[0] = NoFlags
    /\ \A i \in 1 .. n : g[i] = Scan(g[i - 1], line[i], forgets)

(* Flags goes over the line one character at a time.                       *)
LEMMA FlagsAre ==
    ASSUME NEW line, NEW n \in Nat, NEW forgets
    PROVE  \E g \in [0 .. n -> FlagSet] : ScansTo(g, line, n, forgets)
<1> DEFINE to == n + 1
           Step == [p \in FlagSet \X (1 .. n) |-> Scan(p[1], line[p[2]], forgets)]
           Body(h, i) == IF i = 0 THEN [open |-> "", special |-> FALSE]
                         ELSE Scan(h[i - 1], line[i], forgets)
           P(h) == h = [i \in 0 .. to - 1 |-> Body(h, i)]
           f == CHOOSE h : P(h)
<1>1. n \in Nat /\ to - 1 = n /\ NoFlags \in FlagSet
  BY DEF NoFlags, FlagSet
<1>2. Step \in [FlagSet \X (1 .. n) -> FlagSet]
  BY ScanTyped
<1>3. \A before \in FlagSet, i \in 1 .. n : Step[<<before, i>>] = Scan(before, line[i], forgets)
  OBVIOUS
<1>4. \A h : Body(h, 0) = NoFlags
  BY DEF NoFlags
<1>5. ASSUME NEW h, NEW i \in 1 .. n PROVE Body(h, i) = Scan(h[i - 1], line[i], forgets)
  <2>1. i # 0
    OBVIOUS
  <2> QED BY <2>1, Zenon
<1> HIDE DEF to, Step, Body
<1>6. PICK g \in [0 .. n -> FlagSet] : Follows(g, n, NoFlags, Step)
  BY <1>1, <1>2, Recursion, Zenon
<1>7. P(g)
  <2>1. ASSUME NEW i \in 0 .. n PROVE g[i] = Body(g, i)
    <3>1. CASE i = 0
      BY <1>4, <1>6, <3>1 DEF Follows
    <3>2. CASE i \in 1 .. n
      <4>1. i - 1 \in 0 .. n
        BY <1>1, <3>2
      <4>2. g[i] = Scan(g[i - 1], line[i], forgets)
        BY <1>3, <1>6, <3>2, <4>1 DEF Follows
      <4> QED BY <1>5, <3>2, <4>2
    <3> QED BY <1>1, <3>1, <3>2
  <2> QED BY <1>1, <2>1
<1> HIDE DEF P
<1>8. P(f)
  BY <1>7, Zenon
<1>9. Flags(line, to, forgets) = f[to - 1]
  BY Zenon DEF Flags, P, Body
<1> HIDE DEF f
<1>10. DOMAIN f = 0 .. n /\ f = [i \in 0 .. n |-> f[i]] /\ \A i \in 0 .. n : f[i] = Body(f, i)
  BY <1>1, <1>8 DEF P
<1>11. f[0] = NoFlags /\ \A i \in 1 .. n : f[i] = Scan(f[i - 1], line[i], forgets)
  <2>1. 0 \in 0 .. n /\ \A i \in 1 .. n : i \in 0 .. n
    OBVIOUS
  <2>2. \A i \in 0 .. n : f[i] = Body(f, i)
    BY <1>10
  <2> QED BY <1>4, <1>5, <2>1, <2>2, Zenon
<1>12. f \in [0 .. n -> FlagSet]
  <2>1. \A i \in 1 .. n : f[i - 1] \in FlagSet => f[i] = Step[<<f[i - 1], i>>]
    BY <1>3, <1>11
  <2>2. DOMAIN f = 0 .. n /\ f = [i \in 0 .. n |-> f[i]] /\ f[0] \in FlagSet
    BY <1>1, <1>10, <1>11
  <2> HIDE DEF Step
  <2> QED BY <1>2, <2>1, <2>2, IsRecursion
<1>13. ScansTo(f, line, n, forgets)
  BY <1>1, <1>9, <1>11 DEF ScansTo, to
<1> QED BY <1>12, <1>13, Zenon

(* The flags at a character depend on the characters before it only.       *)
LEMMA FlagsSame ==
    ASSUME NEW a, NEW b, NEW m \in Nat, NEW forgets, \A i \in 1 .. m : a[i] = b[i]
    PROVE  Flags(a, m + 1, forgets) = Flags(b, m + 1, forgets)
<1>2. PICK g \in [0 .. m -> FlagSet] : ScansTo(g, a, m, forgets)
  BY FlagsAre, Zenon
<1>3. PICK h \in [0 .. m -> FlagSet] : ScansTo(h, b, m, forgets)
  BY FlagsAre, Zenon
<1> DEFINE S == { i \in 0 .. m : g[i] = h[i] }
<1>4. 0 \in S
  BY <1>2, <1>3 DEF ScansTo
<1>5. ASSUME NEW i \in 0 .. m - 1, i \in S PROVE i + 1 \in S
  <2>1. i + 1 \in 1 .. m /\ (i + 1) - 1 = i /\ i + 1 \in 0 .. m
    OBVIOUS
  <2>2. g[i] = h[i]
    BY <1>5
  <2>3. g[i + 1] = h[i + 1]
    BY <1>2, <1>3, <2>1, <2>2 DEF ScansTo
  <2> QED BY <2>1, <2>3
<1> HIDE DEF S
<1>6. 0 .. m \subseteq S
  BY <1>4, <1>5, Reached
<1>7. g[m] = h[m]
  BY <1>6 DEF S
<1> QED BY <1>2, <1>3, <1>7 DEF ScansTo

(* The flags at a character come from those at the one before it.          *)
LEMMA FlagsNext ==
    ASSUME NEW line, NEW m \in Nat, NEW forgets
    PROVE  /\ Flags(line, m + 1, forgets) \in FlagSet /\ Flags(line, 0 + 1, forgets) = NoFlags
           /\ Flags(line, (m + 1) + 1, forgets) = Scan(Flags(line, m + 1, forgets), line[m + 1], forgets)
<1>1. Flags(line, 0 + 1, forgets) = NoFlags
  <2> DEFINE n == 0
  <2>1. n \in Nat
    OBVIOUS
  <2> HIDE DEF n
  <2>2. PICK g \in [0 .. n -> FlagSet] : ScansTo(g, line, n, forgets)
    BY <2>1, FlagsAre, Zenon
  <2> QED BY <2>2 DEF n, ScansTo
<1>2. PICK h \in [0 .. m -> FlagSet] : ScansTo(h, line, m, forgets)
  BY FlagsAre, Zenon
<1> DEFINE n == m + 1
<1>3. n \in Nat /\ n \in 1 .. n /\ n - 1 = m /\ m \in 0 .. m
  OBVIOUS
<1>4. PICK g \in [0 .. n -> FlagSet] : ScansTo(g, line, n, forgets)
  <2> HIDE DEF n
  <2> QED BY <1>3, FlagsAre, Zenon
<1> DEFINE S == { k \in 0 .. m : g[k] = h[k] }
<1>5. 0 \in S
  BY <1>2, <1>4 DEF ScansTo
<1>6. ASSUME NEW k \in 0 .. m - 1, k \in S PROVE k + 1 \in S
  <2>1. k + 1 \in 1 .. m /\ (k + 1) - 1 = k /\ k + 1 \in 0 .. m /\ k + 1 \in 1 .. n
    OBVIOUS
  <2>2. g[k] = h[k]
    BY <1>6
  <2>3. g[k + 1] = h[k + 1]
    BY <1>2, <1>4, <2>1, <2>2 DEF ScansTo
  <2> QED BY <2>1, <2>3
<1> HIDE DEF S
<1>7. 0 .. m \subseteq S
  BY <1>5, <1>6, Reached
<1>8. g[m] = h[m]
  BY <1>3, <1>7 DEF S
<1> HIDE DEF n
<1>9. g[n] = Scan(h[m], line[n], forgets)
  BY <1>3, <1>4, <1>8 DEF ScansTo
<1>10. h[m] \in FlagSet
  BY <1>3
<1> QED BY <1>1, <1>2, <1>4, <1>9, <1>10 DEF n, ScansTo

(* The flags at a character are those behind the text before it.           *)
LEMMA AfterPart ==
    ASSUME NEW X, NEW line \in Seq(X), NEW m \in 0 .. Len(line), NEW forgets
    PROVE  After(SubSeq(line, 1, m), forgets) = Flags(line, m + 1, forgets)
<1> DEFINE part == SubSeq(line, 1, m)
<1>1. m \in Nat /\ m <= Len(line)
  BY LenProperties
<1>2. /\ part \in Seq(X) /\ Len(part) = IF 1 <= m THEN (m - 1) + 1 ELSE 0
      /\ \A i \in 1 .. (m - 1) + 1 : part[i] = line[(1 + i) - 1]
  BY <1>1, PartOf
<1> HIDE DEF part
<1>3. Len(part) = m /\ \A i \in 1 .. m : part[i] = line[i]
  BY <1>1, <1>2
<1>4. Flags(part, m + 1, forgets) = Flags(line, m + 1, forgets)
  BY <1>1, <1>3, FlagsSame
<1> QED BY <1>3, <1>4 DEF After, part

(***************************************************************************)
(* The pieces of a text lie between its cuts.                              *)
(***************************************************************************)
LEMMA PartGrows ==
    ASSUME NEW X, NEW s \in Seq(X), NEW b \in 0 .. Len(s) - 1, NEW a \in 1 .. b + 1
    PROVE  /\ Append(SubSeq(s, a, b), s[b + 1]) = SubSeq(s, a, b + 1)
           /\ SubSeq(s, a, b) \o <<s[b + 1]>> = SubSeq(s, a, b + 1)
<1> DEFINE n == b + 1
<1>1. Len(s) \in Nat /\ n \in 1 .. Len(s) /\ n \in a .. Len(s) /\ a \in 1 .. Len(s) /\ n - 1 = b
      /\ b \in Int /\ b <= Len(s) /\ a \in Nat \ {0}
  BY LenProperties
<1> HIDE DEF n
<1>2. SubSeq(s, a, n) = SubSeq(s, a, n - 1) \o <<s[n]>>
  BY <1>1, SubSeqRecursiveSecond
<1>3. SubSeq(s, a, b) \in Seq(X)
  BY <1>1, PartOf
<1>4. s[n] \in X
  BY <1>1, ElementOfSeq
<1>5. Append(SubSeq(s, a, b), s[n]) = SubSeq(s, a, b) \o <<s[n]>>
  BY <1>3, <1>4, AppendIsConcat
<1> QED BY <1>1, <1>2, <1>5, Zenon DEF n

(* What Append makes, element by element.                                  *)
LEMMA Appended ==
    ASSUME NEW Z, NEW s \in Seq(Z), NEW e \in Z, NEW t, t = Append(s, e)
    PROVE  /\ t \in Seq(Z) /\ Len(t) = Len(s) + 1 /\ t[Len(s) + 1] = e
           /\ \A k \in 1 .. Len(s) : t[k] = s[k]
BY AppendProperties

CutAt(text, cuts, pieces, b, n) ==
    /\ b[0] = 0 /\ b[Len(pieces)] = n + 1
    /\ \A k \in 1 .. Len(pieces) : /\ b[k - 1] < b[k]
                                   /\ pieces[k] = SubSeq(text, b[k - 1] + 1, b[k] - 1)
                                   /\ \A c \in cuts : ~(b[k - 1] < c /\ c < b[k])
    /\ \A k \in 1 .. Len(pieces) - 1 : b[k] \in cuts

(* One character more keeps the pieces cut at the places given.            *)
LEMMA CutStep ==
    ASSUME NEW X, NEW text \in Seq(X), NEW cuts \in SUBSET (1 .. Len(text)),
           NEW p \in SomePieces(X), NEW i \in 0 .. Len(text) - 1,
           NEW b \in [0 .. Len(p) -> Nat], CutAt(text, cuts, p, b, i),
           NEW q, q = PieceStep(text, cuts, p, i + 1)
    PROVE  \E d \in [0 .. Len(q) -> Nat] : CutAt(text, cuts, q, d, i + 1)
<1> DEFINE L == Len(p)
           j == i + 1
           Z == Seq(X)
           none == <<>>
<1>1. L \in Nat \ {0} /\ p \in Seq(Z) /\ Len(text) \in Nat /\ none \in Z /\ p # <<>>
  <2>1. p \in Seq(Z) /\ p # <<>>
    BY DEF SomePieces
  <2> QED BY <2>1, EmptySeq, LenProperties
<1>2. j \in 1 .. Len(text) /\ j \in Nat /\ text[j] \in X
  BY <1>1, ElementOfSeq
<1>3. /\ b[0] = 0 /\ b[L] = j /\ (\A k \in 0 .. L : b[k] \in Nat)
      /\ \A k \in 1 .. L : b[k - 1] < b[k] /\ (\A c \in cuts : ~(b[k - 1] < c /\ c < b[k]))
      /\ \A k \in 1 .. L - 1 : b[k] \in cuts
  BY DEF CutAt
<1>4. \A k \in 1 .. L : p[k] = SubSeq(text, b[k - 1] + 1, b[k] - 1)
  BY DEF CutAt
<1>5. \A c \in cuts : c \in Nat
  OBVIOUS
<1>6. CASE j \in cuts
  <2> DEFINE d == [k \in 0 .. L + 1 |-> IF k <= L THEN b[k] ELSE j + 1]
             M == L + 1
  <2>1. q = Append(p, none)
    BY <1>6 DEF PieceStep
  <2> HIDE DEF none, L, Z
  <2>2. q \in Seq(Z) /\ Len(q) = M /\ q[M] = none /\ \A k \in 1 .. L : q[k] = p[k]
    <3>0. p \in Seq(Z) /\ none \in Z
      BY <1>1
    <3>1. /\ q \in Seq(Z) /\ Len(q) = Len(p) + 1 /\ q[Len(p) + 1] = none
          /\ \A k \in 1 .. Len(p) : q[k] = p[k]
      BY <2>1, <3>0, Appended
    <3> QED BY <3>1 DEF L
  <2>3. d \in [0 .. M -> Nat] /\ d[M] = j + 1 /\ \A k \in 0 .. L : d[k] = b[k]
    BY <1>1, <1>2, <1>3
  <2>4. SubSeq(text, j + 1, (j + 1) - 1) = none
    <3>1. j + 1 \in Int /\ (j + 1) - 1 \in Int /\ (j + 1) - 1 < j + 1
      BY <1>2
    <3> QED BY <3>1, SubSeqEmpty DEF none
  <2> HIDE DEF d
  <2>5. \A k \in 1 .. M : (k \in 1 .. L /\ k - 1 \in 0 .. L /\ k \in 0 .. L) \/ (k = M /\ k - 1 = L /\ L \in 0 .. L)
    BY <1>1
  <2>6. d[0] = 0 /\ 0 \in 0 .. L
    BY <1>1, <1>3, <2>3
  <2>7. \A k \in 1 .. M : d[k - 1] < d[k] /\ (\A c \in cuts : ~(d[k - 1] < c /\ c < d[k]))
    <3> SUFFICES ASSUME NEW k \in 1 .. M
                 PROVE  d[k - 1] < d[k] /\ (\A c \in cuts : ~(d[k - 1] < c /\ c < d[k]))
      OBVIOUS
    <3>1. CASE k \in 1 .. L
      <4>1. d[k - 1] = b[k - 1] /\ d[k] = b[k]
        BY <2>3, <2>5, <3>1, <1>1
      <4> QED BY <1>3, <3>1, <4>1
    <3>2. CASE k = M
      <4>1. d[k - 1] = j /\ d[k] = j + 1
        BY <1>3, <2>3, <2>5, <3>2, <1>1
      <4> QED BY <1>2, <1>5, <4>1
    <3> QED BY <2>5, <3>1, <3>2
  <2>8. \A k \in 1 .. M : q[k] = SubSeq(text, d[k - 1] + 1, d[k] - 1)
    <3> SUFFICES ASSUME NEW k \in 1 .. M PROVE q[k] = SubSeq(text, d[k - 1] + 1, d[k] - 1)
      OBVIOUS
    <3>1. CASE k \in 1 .. L
      <4>0. k - 1 \in 0 .. L /\ k \in 0 .. L
        BY <1>1, <3>1
      <4>1. d[k - 1] = b[k - 1] /\ d[k] = b[k] /\ q[k] = p[k]
        BY <2>2, <2>3, <3>1, <4>0, Zenon
      <4>2. p[k] = SubSeq(text, b[k - 1] + 1, b[k] - 1)
        BY <1>4, <3>1
      <4> QED BY <4>1, <4>2, Zenon
    <3>2. CASE k = M
      <4>1. d[k - 1] = j /\ d[k] = j + 1
        BY <1>3, <2>3, <2>5, <3>2, <1>1
      <4> QED BY <2>2, <2>4, <3>2, <4>1
    <3> QED BY <2>5, <3>1, <3>2
  <2>9. \A k \in 1 .. M - 1 : d[k] \in cuts
    <3> SUFFICES ASSUME NEW k \in 1 .. M - 1 PROVE d[k] \in cuts
      OBVIOUS
    <3>1. k \in 0 .. L /\ (k \in 1 .. L - 1 \/ k = L)
      BY <1>1
    <3>2. d[k] = b[k]
      BY <2>3, <3>1
    <3> QED BY <1>3, <1>6, <3>1, <3>2
  <2>10. CutAt(text, cuts, q, d, j)
    BY <2>2, <2>3, <2>6, <2>7, <2>8, <2>9 DEF CutAt
  <2>11. d \in [0 .. Len(q) -> Nat]
    BY <2>2, <2>3
  <2> QED BY <2>10, <2>11
<1>7. CASE j \notin cuts
  <2> DEFINE d == [k \in 0 .. L |-> IF k < L THEN b[k] ELSE j + 1]
             front == Front(p)
             last == Append(Last(p), text[j])
  <2>1. q = Append(front, last)
    BY <1>7 DEF PieceStep
  <2>2. front \in Seq(Z) /\ Len(front) = L - 1 /\ \A k \in 1 .. L - 1 : front[k] = p[k]
    <3> DEFINE m == L - 1
    <3>1. m \in Nat /\ m <= Len(p) /\ front = SubSeq(p, 1, m)
      BY <1>1 DEF Front
    <3> HIDE DEF m, Z, L, front
    <3>2. /\ front \in Seq(Z) /\ Len(front) = IF 1 <= m THEN (m - 1) + 1 ELSE 0
          /\ \A k \in 1 .. (m - 1) + 1 : front[k] = p[(1 + k) - 1]
      BY <1>1, <3>1, PartOf
    <3>3. Len(front) = m /\ \A k \in 1 .. m : front[k] = p[k]
      BY <3>1, <3>2
    <3> QED BY <3>2, <3>3 DEF m
  <2>3. L - 1 \in 0 .. L /\ L \in 1 .. L /\ b[L - 1] < j /\ b[L - 1] \in Nat
    <3>1. L - 1 \in 0 .. L /\ L \in 1 .. L
      BY <1>1
    <3> QED BY <1>3, <3>1
  <2>4. last = SubSeq(text, b[L - 1] + 1, j) /\ last \in Z
    <3> DEFINE a == b[L - 1] + 1
    <3>1. Last(p) = SubSeq(text, a, i)
      <4>1. b[L] - 1 = i
        BY <1>2, <1>3
      <4> QED BY <1>4, <2>3, <4>1 DEF Last
    <3>2. a \in 1 .. i + 1 /\ a \in Nat \ {0} /\ j \in Int /\ j <= Len(text)
      BY <1>1, <1>2, <2>3
    <3> HIDE DEF a
    <3>3. Append(SubSeq(text, a, i), text[i + 1]) = SubSeq(text, a, i + 1)
      BY <3>2, PartGrows
    <3>4. SubSeq(text, a, j) \in Seq(X)
      BY <3>2, PartOf
    <3> QED BY <3>1, <3>3, <3>4 DEF a
  <2> HIDE DEF front, last, L, Z
  <2>5. q \in Seq(Z) /\ Len(q) = L /\ q[L] = last /\ \A k \in 1 .. L - 1 : q[k] = p[k]
    <3>1. q \in Seq(Z) /\ Len(q) = Len(front) + 1 /\ q[Len(front) + 1] = last
          /\ \A k \in 1 .. Len(front) : q[k] = front[k]
      <4>1. front \in Seq(Z) /\ last \in Z
        BY <2>2, <2>4
      <4> DEFINE r == Append(front, last)
      <4>2. r \in Seq(Z) /\ Len(r) = Len(front) + 1 /\ r[Len(front) + 1] = last
        BY <4>1, AppendProperties
      <4>3. \A k \in 1 .. Len(front) : r[k] = front[k]
        BY <4>1, AppendProperties
      <4> QED BY <2>1, <4>2, <4>3, Zenon
    <3>2. Len(front) + 1 = L
      BY <1>1, <2>2
    <3> QED BY <2>2, <3>1, <3>2
  <2>6. d \in [0 .. L -> Nat] /\ d[L] = j + 1 /\ \A k \in 0 .. L - 1 : d[k] = b[k]
    BY <1>1, <1>2, <1>3
  <2> HIDE DEF d
  <2>7. \A k \in 1 .. L : (k \in 1 .. L - 1 /\ k - 1 \in 0 .. L - 1 /\ k \in 0 .. L - 1)
                          \/ (k = L /\ k - 1 = L - 1 /\ L - 1 \in 0 .. L - 1)
    BY <1>1
  <2>8. d[0] = 0
    BY <1>1, <1>3, <2>6
  <2>9. \A k \in 1 .. L : d[k - 1] < d[k] /\ (\A c \in cuts : ~(d[k - 1] < c /\ c < d[k]))
    <3> SUFFICES ASSUME NEW k \in 1 .. L
                 PROVE  d[k - 1] < d[k] /\ (\A c \in cuts : ~(d[k - 1] < c /\ c < d[k]))
      OBVIOUS
    <3>1. CASE k \in 1 .. L - 1
      <4>1. d[k - 1] = b[k - 1] /\ d[k] = b[k]
        BY <1>1, <2>6, <2>7, <3>1
      <4> QED BY <1>3, <4>1
    <3>2. CASE k = L
      <4>1. d[k - 1] = b[L - 1] /\ d[k] = j + 1
        BY <2>6, <2>7, <3>2, <1>1
      <4>2. \A c \in cuts : ~(b[L - 1] < c /\ c < j)
        BY <1>3, <2>3
      <4>3. b[L - 1] < j + 1
        BY <1>2, <2>3
      <4>4. ASSUME NEW c \in cuts PROVE ~(b[L - 1] < c /\ c < j + 1)
        <5>1. ~(b[L - 1] < c /\ c < j) /\ c # j
          BY <1>7, <4>2
        <5> QED BY <1>2, <1>5, <5>1
      <4> QED BY <4>1, <4>3, <4>4, Zenon
    <3> QED BY <2>7, <3>1, <3>2
  <2>10. \A k \in 1 .. L : q[k] = SubSeq(text, d[k - 1] + 1, d[k] - 1)
    <3> SUFFICES ASSUME NEW k \in 1 .. L PROVE q[k] = SubSeq(text, d[k - 1] + 1, d[k] - 1)
      OBVIOUS
    <3>1. CASE k \in 1 .. L - 1
      <4>0. k - 1 \in 0 .. L - 1 /\ k \in 0 .. L - 1
        BY <1>1, <3>1
      <4>1. d[k - 1] = b[k - 1] /\ d[k] = b[k] /\ q[k] = p[k]
        BY <2>5, <2>6, <3>1, <4>0, Zenon
      <4>2. k \in 1 .. L
        OBVIOUS
      <4>3. p[k] = SubSeq(text, b[k - 1] + 1, b[k] - 1)
        BY <1>4, <4>2, Zenon
      <4> QED BY <4>1, <4>3, Zenon
    <3>2. CASE k = L
      <4>1. d[k - 1] = b[L - 1] /\ d[k] = j + 1 /\ (j + 1) - 1 = j
        BY <1>2, <2>6, <2>7, <3>2, <1>1
      <4> QED BY <2>4, <2>5, <3>2, <4>1
    <3> QED BY <2>7, <3>1, <3>2
  <2>11. \A k \in 1 .. L - 1 : d[k] \in cuts
    <3>1. \A k \in 1 .. L - 1 : k \in 0 .. L - 1
      OBVIOUS
    <3> QED BY <1>3, <2>6, <3>1
  <2>12. CutAt(text, cuts, q, d, j)
    BY <2>5, <2>6, <2>8, <2>9, <2>10, <2>11 DEF CutAt
  <2>13. d \in [0 .. Len(q) -> Nat]
    BY <2>5, <2>6
  <2> QED BY <2>12, <2>13
<1> QED BY <1>6, <1>7

(* Pieces cuts a text at exactly the places given.                         *)
LEMMA PiecesCut ==
    ASSUME NEW X, NEW text \in Seq(X), NEW cuts \in SUBSET (1 .. Len(text))
    PROVE  /\ Pieces(text, cuts) \in SomePieces(X)
           /\ \E b \in [0 .. Len(Pieces(text, cuts)) -> Nat] :
                 CutAt(text, cuts, Pieces(text, cuts), b, Len(text))
<1> DEFINE n == Len(text)
           pieces == Pieces(text, cuts)
<1>1. n \in Nat
  BY LenProperties
<1>2. PICK g \in [0 .. n -> SomePieces(X)] :
              /\ pieces = g[n] /\ g[0] = << <<>> >>
              /\ \A i \in 1 .. n : g[i] = PieceStep(text, cuts, g[i - 1], i)
  BY PiecesAre
<1> HIDE DEF n, pieces
<1> DEFINE Cut(p, i) == \E b \in [0 .. Len(p) -> Nat] : CutAt(text, cuts, p, b, i)
           S == { i \in 0 .. n : Cut(g[i], i) }
<1>3. 0 \in S
  <2> DEFINE b == [k \in 0 .. 1 |-> k]
             none == <<>>
             one == <<none>>
  <2>1. b[0] = 0 /\ b[1] = 1 /\ b \in [0 .. 1 -> Nat] /\ Len(one) = 1 /\ one[1] = none
    OBVIOUS
  <2>2. SubSeq(text, 0 + 1, 1 - 1) = none
    BY SubSeqEmpty
  <2>3. g[0] = one
    BY <1>2
  <2> HIDE DEF b, one
  <2>4. \A c \in cuts : ~(0 < c /\ c < 1)
    BY <1>1 DEF n
  <2>5. CutAt(text, cuts, one, b, 0)
    <3>1. ASSUME NEW k \in 1 .. Len(one)
          PROVE  /\ b[k - 1] < b[k] /\ one[k] = SubSeq(text, b[k - 1] + 1, b[k] - 1)
                 /\ \A c \in cuts : ~(b[k - 1] < c /\ c < b[k])
      <4>1. k = 1 /\ k - 1 = 0
        BY <2>1
      <4>2. 0 < 1
        OBVIOUS
      <4> QED BY <2>1, <2>2, <2>4, <4>1, <4>2, Zenon
    <3>2. 1 .. Len(one) - 1 = {} /\ b[Len(one)] = 0 + 1
      BY <2>1
    <3> QED BY <2>1, <3>1, <3>2 DEF CutAt
  <2>6. Cut(one, 0)
    BY <2>1, <2>5
  <2> QED BY <1>1, <2>3, <2>6
<1>4. ASSUME NEW i \in 0 .. n - 1, i \in S PROVE i + 1 \in S
  <2>1. i + 1 \in 1 .. n /\ (i + 1) - 1 = i /\ i \in 0 .. n /\ i + 1 \in 0 .. n
    BY <1>1
  <2> DEFINE p == g[i]
             q == g[i + 1]
  <2>2. p \in SomePieces(X) /\ q = PieceStep(text, cuts, p, i + 1)
    BY <1>2, <2>1
  <2>3. PICK b \in [0 .. Len(p) -> Nat] : CutAt(text, cuts, p, b, i)
    BY <1>4
  <2> HIDE DEF p, q
  <2>4. Cut(q, i + 1)
    BY <2>2, <2>3, CutStep DEF n
  <2> QED BY <2>1, <2>4 DEF q
<1> HIDE DEF S
<1>5. 0 .. n \subseteq S
  BY <1>1, <1>3, <1>4, Reached
<1>6. n \in 0 .. n
  BY <1>1
<1>7. Cut(g[n], n)
  BY <1>5, <1>6 DEF S
<1> QED BY <1>2, <1>6, <1>7 DEF n, pieces

(* Pieces are joined to the text they come from.                           *)
LEMMA JoinedIs ==
    ASSUME NEW X, NEW pieces \in Seq(Seq(X)), NEW separator \in X
    PROVE  /\ 1 <= Len(pieces) => Joined(pieces, separator)[1] = pieces[1]
           /\ \A i \in 2 .. Len(pieces) :
                 Joined(pieces, separator)[i] =
                    Joined(pieces, separator)[i - 1] \o <<separator>> \o pieces[i]
<1> DEFINE n == Len(pieces)
           T == Seq(X)
           one == <<separator>>
           Step == [p \in T \X (1 .. n) |-> IF p[2] = 1 THEN pieces[1] ELSE p[1] \o one \o pieces[p[2]]]
           Body(h, i) == IF i = 1 THEN pieces[1] ELSE h[i - 1] \o <<separator>> \o pieces[i]
           P(h) == h = [i \in 1 .. Len(pieces) |-> Body(h, i)]
           f == CHOOSE h : P(h)
           none == <<>>
<1>1. n \in Nat /\ none \in T /\ one \in T /\ \A i \in 1 .. n : pieces[i] \in T
  <2>1. \A i \in 1 .. n : pieces[i] \in T
    <3> HIDE DEF T
    <3>1. pieces \in Seq(T)
      BY DEF T
    <3> QED BY <3>1, ElementOfSeq
  <2> QED BY <2>1, EmptySeq
<1>2. Step \in [T \X (1 .. n) -> T]
  <2> HIDE DEF one
  <2>1. \A s \in T, t \in T : s \o t \in T
    BY ConcatProperties
  <2> HIDE DEF T, n
  <2> QED BY <1>1, <2>1
<1>3. \A before \in T, i \in 1 .. n : Step[<<before, i>>] = IF i = 1 THEN pieces[1] ELSE before \o one \o pieces[i]
  OBVIOUS
<1> HIDE DEF n, T, Step, none
<1>4. PICK g \in [0 .. n -> T] : Follows(g, n, none, Step)
  BY <1>1, <1>2, Recursion, Zenon
<1> DEFINE h == [i \in 1 .. n |-> g[i]]
<1>5. \A i \in 1 .. n : h[i] = Body(h, i)
  <2> SUFFICES ASSUME NEW i \in 1 .. n PROVE h[i] = Body(h, i)
    OBVIOUS
  <2>1. g[i] = Step[<<g[i - 1], i>>] /\ i - 1 \in 0 .. n /\ h[i] = g[i]
    BY <1>1, <1>4 DEF Follows
  <2>2. g[i - 1] \in T
    BY <2>1
  <2>3. g[i] = IF i = 1 THEN pieces[1] ELSE g[i - 1] \o one \o pieces[i]
    BY <1>3, <2>1, <2>2
  <2>4. CASE i = 1
    BY <2>1, <2>3, <2>4
  <2>5. CASE i # 1
    <3>1. i - 1 \in 1 .. n
      BY <1>1, <2>5
    <3>2. h[i - 1] = g[i - 1]
      BY <3>1
    <3> HIDE DEF h
    <3> QED BY <2>1, <2>3, <2>5, <3>2
  <2> QED BY <2>4, <2>5
<1> HIDE DEF Body
<1>6. P(h)
  <2>1. h = [i \in 1 .. n |-> h[i]]
    OBVIOUS
  <2> HIDE DEF h
  <2> QED BY <1>5, <2>1 DEF n
<1> HIDE DEF P, h
<1>7. P(f)
  BY <1>6, Zenon
<1>8. Joined(pieces, separator) = f
  BY Zenon DEF Joined, P, Body
<1> HIDE DEF f
<1>9. \A i \in 1 .. n : f[i] = Body(f, i)
  <2>1. f = [i \in 1 .. n |-> Body(f, i)]
    BY <1>7 DEF P, n
  <2> QED BY <2>1
<1>10. 1 <= n => f[1] = pieces[1]
  <2>1. 1 <= n => 1 \in 1 .. n
    BY <1>1
  <2>2. Body(f, 1) = pieces[1]
    BY DEF Body
  <2> QED BY <1>9, <2>1, <2>2
<1>11. ASSUME NEW i \in 2 .. n PROVE f[i] = f[i - 1] \o <<separator>> \o pieces[i]
  <2>1. i \in 1 .. n /\ i # 1
    BY <1>1
  <2>2. Body(f, i) = f[i - 1] \o <<separator>> \o pieces[i]
    BY <2>1 DEF Body
  <2> QED BY <1>9, <2>1, <2>2
<1> QED BY <1>8, <1>10, <1>11 DEF n

JoinsAt(text, pieces, b, separator) ==
    \A k \in 1 .. Len(pieces) : Joined(pieces, separator)[k] = SubSeq(text, 1, b[k] - 1)

(* Pieces cut at a separator and joined with it are the text again.        *)
LEMMA JoinedAtCuts ==
    ASSUME NEW X, NEW text \in Seq(X), NEW cuts \in SUBSET (1 .. Len(text)), NEW separator \in X,
           \A c \in cuts : text[c] = separator,
           NEW pieces \in SomePieces(X), NEW b \in [0 .. Len(pieces) -> Nat],
           CutAt(text, cuts, pieces, b, Len(text))
    PROVE  JoinsAt(text, pieces, b, separator)
<1> DEFINE n == Len(pieces)
           J == Joined(pieces, separator)
           S == { k \in 0 .. n : k = 0 \/ J[k] = SubSeq(text, 1, b[k] - 1) }
<1>1. n \in Nat \ {0} /\ Len(text) \in Nat /\ pieces \in Seq(Seq(X))
  <2> DEFINE Z == Seq(X)
  <2>1. pieces \in Seq(Z) /\ pieces # <<>>
    BY DEF SomePieces
  <2> HIDE DEF Z
  <2>2. n \in Nat \ {0}
    BY <2>1, EmptySeq, LenProperties
  <2> QED BY <2>1, <2>2, LenProperties DEF Z
<1>2. /\ 1 <= n => J[1] = pieces[1]
      /\ \A i \in 2 .. n : J[i] = J[i - 1] \o <<separator>> \o pieces[i]
  BY <1>1, JoinedIs
<1>3. /\ b[0] = 0 /\ \A k \in 0 .. n : b[k] \in Nat
      /\ \A k \in 1 .. n - 1 : b[k] \in cuts
  BY DEF CutAt
<1>4. b[n] = Len(text) + 1 /\ \A k \in 1 .. n : b[k - 1] < b[k]
  BY DEF CutAt
<1>5. \A k \in 1 .. n : pieces[k] = SubSeq(text, b[k - 1] + 1, b[k] - 1)
  BY DEF CutAt
<1> HIDE DEF n, J
<1>6. ASSUME NEW k \in 0 .. n - 1, k \in S PROVE k + 1 \in S
  <2>1. k + 1 \in 0 .. n /\ k + 1 \in 1 .. n /\ (k + 1) - 1 = k /\ k \in 0 .. n
    BY <1>1
  <2>2. CASE k = 0
    <3>1. J[1] = pieces[1] /\ 1 \in 1 .. n /\ 1 - 1 = 0 /\ 0 + 1 = 1
      BY <1>1, <1>2
    <3>2. J[1] = SubSeq(text, 1, b[1] - 1)
      BY <1>3, <1>5, <3>1
    <3> QED BY <2>1, <2>2, <3>2
  <2>3. CASE k # 0
    <3> DEFINE c == b[k]
               d == b[k + 1]
    <3>1. k + 1 \in 2 .. n /\ k \in 1 .. n - 1
      BY <1>1, <2>3
    <3>2. c \in cuts /\ c \in 1 .. Len(text) /\ text[c] = separator
      BY <1>3, <3>1
    <3>3. d \in Nat /\ c < d /\ d <= Len(text) + 1
      <4>1. d \in Nat /\ c < d
        BY <1>3, <1>4, <2>1
      <4>2. CASE k + 1 = n
        <5>1. d = Len(text) + 1
          BY <1>4, <4>2, Zenon
        <5> HIDE DEF c, d
        <5> QED BY <4>1, <5>1
      <4>3. CASE k + 1 # n
        <5>1. k + 1 \in 1 .. n - 1
          BY <1>1, <2>1, <4>3
        <5>2. d \in cuts
          BY <1>3, <5>1
        <5>3. d \in 1 .. Len(text)
          BY <5>2
        <5> QED BY <1>1, <4>1, <5>3
      <4> QED BY <4>2, <4>3
    <3>4. J[k + 1] = J[k] \o <<separator>> \o pieces[k + 1]
      BY <1>2, <2>1, <3>1
    <3>5. J[k] = SubSeq(text, 1, c - 1) /\ pieces[k + 1] = SubSeq(text, c + 1, d - 1)
      <4>1. J[k] = SubSeq(text, 1, c - 1)
        BY <1>6, <2>3
      <4> QED BY <1>5, <2>1, <4>1
    <3> HIDE DEF c, d
    <3>6. SubSeq(text, 1, c - 1) \o <<separator>> = SubSeq(text, 1, c)
      <4> DEFINE m == c - 1
      <4>1. m \in 0 .. Len(text) - 1 /\ 1 \in 1 .. m + 1 /\ m + 1 = c
        BY <1>1, <3>2
      <4> HIDE DEF m
      <4>2. SubSeq(text, 1, m) \o <<text[m + 1]>> = SubSeq(text, 1, m + 1)
        BY <4>1, PartGrows
      <4> QED BY <3>2, <4>1, <4>2 DEF m
    <3>7. SubSeq(text, 1, c) \o SubSeq(text, c + 1, d - 1) = SubSeq(text, 1, d - 1)
      <4> DEFINE m == d - 1
      <4>1. 1 \in 1 .. Len(text) + 1 /\ c \in 1 - 1 .. Len(text) /\ m \in c .. Len(text)
        BY <1>1, <3>2, <3>3
      <4> HIDE DEF m
      <4>2. SubSeq(text, 1, c) \o SubSeq(text, c + 1, m) = SubSeq(text, 1, m)
        BY <4>1, ConcatAdjacentSubSeq
      <4> QED BY <4>2 DEF m
    <3>8. J[k + 1] = SubSeq(text, 1, d - 1)
      BY <3>4, <3>5, <3>6, <3>7, Zenon
    <3> QED BY <2>1, <3>8 DEF d
  <2> QED BY <2>2, <2>3
<1>7. 0 \in S
  BY <1>1
<1> HIDE DEF S
<1>8. 0 .. n \subseteq S
  BY <1>1, <1>6, <1>7, Reached
<1>9. \A k \in 1 .. n : k \in 0 .. n /\ k # 0
  BY <1>1
<1> QED BY <1>8, <1>9 DEF S, n, J, JoinsAt

(***************************************************************************)
(* get_command_type and is_quote_open, where every backslash stands before *)
(* a quote.                                                                *)
(***************************************************************************)
Known(line) == \A i \in DOMAIN line : line[i] = "\\" => i < Len(line) /\ line[i + 1] \in Quotes

(* A backslash makes the next character special.                           *)
LEMMA ScanBackslash ==
    ASSUME NEW s, NEW forgets
    PROVE  Scan(s, "\\", forgets) = [s EXCEPT !.special = TRUE]
BY DEF Scan, Quotes

(* The two scanners differ only in whether an ordinary character ends a    *)
(* backslash.                                                              *)
LEMMA ScanKnown ==
    ASSUME NEW s \in FlagSet, NEW c, NEW forgets
    PROVE  /\ c = "\\" => Scan(s, c, forgets) = [s EXCEPT !.special = TRUE]
           /\ c \in Quotes => /\ Scan(s, c, forgets) = Scan(s, c, FALSE)
                              /\ Scan(s, c, forgets).special = FALSE
           /\ c # "\\" /\ c \notin Quotes /\ s.special = FALSE => Scan(s, c, forgets) = s
<1>1. c = "\\" => c \notin Quotes
  BY DEF Quotes
<1>2. ASSUME c = "\\" PROVE Scan(s, c, forgets) = [s EXCEPT !.special = TRUE]
  BY <1>1, <1>2 DEF Scan
<1>3. ASSUME c \in Quotes PROVE /\ Scan(s, c, forgets) = Scan(s, c, FALSE)
                                /\ Scan(s, c, forgets).special = FALSE
  <2> DEFINE stays == [s EXCEPT !.special = FALSE]
             turns == [s EXCEPT !.open = IF @ = c THEN "" ELSE c]
  <2>1. \A f : Scan(s, c, f) = IF s.special \/ s.open \notin {"", c} THEN stays ELSE turns
    BY <1>1, <1>3 DEF Scan
  <2>2. stays.special = FALSE /\ turns.special = s.special /\ s.special \in BOOLEAN
    BY DEF FlagSet
  <2> HIDE DEF stays, turns
  <2>3. CASE s.special \/ s.open \notin {"", c}
    BY <2>1, <2>2, <2>3
  <2>4. CASE ~(s.special \/ s.open \notin {"", c})
    BY <2>1, <2>2, <2>4
  <2> QED BY <2>3, <2>4
<1>4. ASSUME c # "\\", c \notin Quotes, s.special = FALSE PROVE Scan(s, c, forgets) = s
  <2>1. [s EXCEPT !.special = FALSE] = s
    BY <1>4 DEF FlagSet
  <2> QED BY <1>4, <2>1 DEF Scan
<1> QED BY <1>2, <1>3, <1>4

(* Where every backslash stands before a quote, the two scanners have the  *)
(* same flags.                                                             *)
LEMMA FlagsKnown ==
    ASSUME NEW X, NEW line \in Seq(X), Known(line)
    PROVE  \A m \in 0 .. Len(line) :
              /\ Flags(line, m + 1, TRUE) = Flags(line, m + 1, FALSE)
              /\ Flags(line, m + 1, FALSE).special => m > 0 /\ line[m] = "\\"
<1> DEFINE n == Len(line)
           Same(m) == Flags(line, m + 1, TRUE) = Flags(line, m + 1, FALSE)
           Behind(m) == Flags(line, m + 1, FALSE).special => m > 0 /\ line[m] = "\\"
           S == { m \in 0 .. n : Same(m) /\ Behind(m) }
<1>1. n \in Nat /\ DOMAIN line = 1 .. n
  BY LenProperties
<1>2. 0 \in S
  <2>1. Flags(line, 0 + 1, TRUE) = NoFlags /\ Flags(line, 0 + 1, FALSE) = NoFlags
    BY FlagsNext
  <2>2. NoFlags.special = FALSE
    BY DEF NoFlags
  <2>3. Same(0)
    BY <2>1, Zenon
  <2>4. Behind(0)
    BY <2>1, <2>2, Zenon
  <2> HIDE DEF Same, Behind
  <2> QED BY <1>1, <2>3, <2>4
<1>3. ASSUME NEW m \in 0 .. n - 1, m \in S PROVE m + 1 \in S
  <2> DEFINE s == Flags(line, m + 1, FALSE)
             c == line[m + 1]
  <2>1. m \in Nat /\ m + 1 \in 0 .. n /\ m + 1 \in 1 .. n /\ m + 1 > 0 /\ (m > 0 => m \in 1 .. n /\ m < n)
    BY <1>1
  <2>2. s \in FlagSet /\ Flags(line, (m + 1) + 1, FALSE) = Scan(s, c, FALSE)
    BY <2>1, FlagsNext
  <2>3. Flags(line, (m + 1) + 1, TRUE) = Scan(s, c, TRUE)
    <3>1. Flags(line, (m + 1) + 1, TRUE) = Scan(Flags(line, m + 1, TRUE), c, TRUE)
      BY <2>1, FlagsNext
    <3>2. Flags(line, m + 1, TRUE) = s
      BY <1>3
    <3> QED BY <3>1, <3>2
  <2>4. s.special \in BOOLEAN /\ (s.special => m > 0 /\ line[m] = "\\")
    BY <1>3, <2>2 DEF FlagSet
  <2>5. s.special => c \in Quotes
    <3>1. ASSUME s.special PROVE c \in Quotes
      <4>1. m \in DOMAIN line /\ line[m] = "\\"
        BY <1>1, <2>1, <2>4, <3>1
      <4> QED BY <4>1 DEF Known
    <3> QED BY <3>1
  <2> HIDE DEF s
  <2>6. Scan(s, c, TRUE) = Scan(s, c, FALSE) /\ (Scan(s, c, FALSE).special => c = "\\")
    <3>1. CASE c = "\\"
      <4>1. Scan(s, c, TRUE) = [s EXCEPT !.special = TRUE]
        BY <3>1, ScanBackslash
      <4>2. Scan(s, c, FALSE) = [s EXCEPT !.special = TRUE]
        BY <3>1, ScanBackslash
      <4> QED BY <3>1, <4>1, <4>2, Zenon
    <3>2. CASE c \in Quotes
      BY <2>2, <3>2, ScanKnown
    <3>3. CASE c # "\\" /\ c \notin Quotes
      <4>1. s.special = FALSE
        BY <2>4, <2>5, <3>3
      <4>2. Scan(s, c, TRUE) = s
        BY <2>2, <3>3, <4>1, ScanKnown
      <4>3. Scan(s, c, FALSE) = s
        BY <2>2, <3>3, <4>1, ScanKnown
      <4> QED BY <4>1, <4>2, <4>3, Zenon
    <3> QED BY <3>1, <3>2, <3>3
  <2>7. Same(m + 1)
    BY <2>2, <2>3, <2>6
  <2>8. Behind(m + 1)
    BY <2>1, <2>2, <2>6
  <2> HIDE DEF Same, Behind
  <2> QED BY <2>1, <2>7, <2>8
<1> HIDE DEF S
<1>4. 0 .. n \subseteq S
  BY <1>1, <1>2, <1>3, Reached
<1> QED BY <1>4 DEF S, n

(* Where get_command_type cuts.                                            *)
Free(line) == { i \in DOMAIN line : line[i] \in Operators /\ Flags(line, i, TRUE) = NoFlags }
End(found) == found.token_pos - (IF found.type = "PIPE_FILE_APPEND" THEN 1 ELSE 0)

(* get_command_type finds the first operator that is free of quotes, or    *)
(* none.                                                                   *)
LEMMA TypeIs ==
    ASSUME NEW X, NEW line \in Seq(X)
    PROVE  LET found == get_command_type(line) IN
           /\ Free(line) = {} => found.type = "NORMAL"
           /\ Free(line) # {} => /\ found.type # "NORMAL" /\ End(found) \in Free(line)
                                 /\ \A i \in Free(line) : End(found) <= i
                                 /\ found.token_pos \in End(found) .. Len(line)
                                 /\ line[found.token_pos] \in Operators
<1> DEFINE found == get_command_type(line)
           free(i) == Flags(line, i, TRUE) = [open |-> "", special |-> FALSE]
           marks == [i \in DOMAIN line |-> line[i] \in Operators /\ free(i)]
           I == { i \in 1 .. Len(marks) : marks[i] }
           at == IF I # {} THEN Min(I) ELSE 0
           double == at # 0 /\ line[at] = ">" /\ at < Len(line) /\ line[at + 1] = ">"
<1>1. Len(line) \in Nat /\ DOMAIN line = 1 .. Len(line)
  BY LenProperties
<1>2. I = Free(line)
  <2>1. Len(marks) = Len(line)
    BY <1>1
  <2>2. \A i : i \in I <=> i \in 1 .. Len(line) /\ line[i] \in Operators /\ free(i)
    BY <1>1, <2>1
  <2>3. \A i : i \in Free(line) <=> i \in 1 .. Len(line) /\ line[i] \in Operators /\ free(i)
    BY <1>1 DEF Free, NoFlags
  <2> HIDE DEF I
  <2> QED BY <2>2, <2>3
<1>3. found = CASE at = 0 -> [type |-> "NORMAL", token_pos |-> 0]
                [] double -> [type |-> "PIPE_FILE_APPEND", token_pos |-> at + 1]
                [] OTHER -> [type |-> CASE line[at] = "|" -> "PIPE_PROC" [] line[at] = ">" -> "PIPE_FILE"
                                        [] OTHER -> "AND_RUN",
                             token_pos |-> at]
  BY DEF get_command_type, SelectInSeq
<1>4. \A i \in Free(line) : i \in 1 .. Len(line) /\ line[i] \in Operators
  BY <1>1 DEF Free
<1>5. at = IF Free(line) # {} THEN Min(Free(line)) ELSE 0
  BY <1>2
<1> HIDE DEF found, marks, I, at
<1>6. CASE Free(line) = {}
  <2>1. at = 0
    BY <1>5, <1>6
  <2>2. found = [type |-> "NORMAL", token_pos |-> 0]
    BY <1>3, <2>1
  <2> QED BY <1>6, <2>2 DEF found
<1>7. CASE Free(line) # {}
  <2>1. Free(line) \in SUBSET Nat
    BY <1>1, <1>4
  <2>2. at \in Free(line) /\ \A i \in Free(line) : at <= i
    BY <1>5, <1>7, <2>1, MinOfNat
  <2>3. at \in 1 .. Len(line) /\ line[at] \in Operators /\ at # 0
    BY <1>4, <2>2, <1>1
  <2>4. CASE double
    <3>1. found = [type |-> "PIPE_FILE_APPEND", token_pos |-> at + 1]
      BY <1>3, <2>3, <2>4
    <3>2. found.type = "PIPE_FILE_APPEND" /\ found.token_pos = at + 1
      BY <3>1
    <3>3. End(found) = at
      BY <1>1, <2>3, <3>2 DEF End
    <3>4. at + 1 \in at .. Len(line)
      BY <1>1, <2>3, <2>4
    <3>5. line[at + 1] \in Operators
      BY <2>4 DEF Operators
    <3> QED BY <1>7, <2>2, <3>2, <3>3, <3>4, <3>5 DEF found
  <2>5. CASE ~double
    <3> DEFINE type == CASE line[at] = "|" -> "PIPE_PROC" [] line[at] = ">" -> "PIPE_FILE"
                          [] OTHER -> "AND_RUN"
    <3>1. found = [type |-> type, token_pos |-> at]
      BY <1>3, <2>3, <2>5
    <3>2. type # "NORMAL" /\ type # "PIPE_FILE_APPEND"
      BY <2>3 DEF Operators
    <3> HIDE DEF type
    <3>3. found.type = type /\ found.token_pos = at
      BY <3>1
    <3>4. End(found) = at
      BY <1>1, <2>3, <3>2, <3>3 DEF End
    <3>5. at \in at .. Len(line)
      BY <1>1, <2>3
    <3> QED BY <1>7, <2>2, <2>3, <3>2, <3>3, <3>4, <3>5 DEF found
  <2> QED BY <2>4, <2>5
<1> QED BY <1>6, <1>7 DEF found

Outside(line) == { i \in DOMAIN line : line[i] \in Operators /\ ~is_quote_open(SubSeq(line, 1, i - 1)) }

(* Where every backslash stands before a quote, these are the operators    *)
(* outside of quotes.                                                      *)
LEMMA FreeIsOutside ==
    ASSUME NEW X, NEW line \in Seq(X), Known(line)
    PROVE  Free(line) = Outside(line)
<1>1. Len(line) \in Nat /\ DOMAIN line = 1 .. Len(line)
  BY LenProperties
<1>2. ASSUME NEW i \in DOMAIN line, line[i] \in Operators
      PROVE  Flags(line, i, TRUE) = NoFlags <=> ~is_quote_open(SubSeq(line, 1, i - 1))
  <2> DEFINE m == i - 1
             s == Flags(line, m + 1, FALSE)
  <2>1. m \in Nat /\ m \in 0 .. Len(line) /\ m + 1 = i /\ (m > 0 => m \in DOMAIN line)
    BY <1>1
  <2>2. After(SubSeq(line, 1, m), FALSE) = s
    BY <2>1, AfterPart
  <2>3. s \in FlagSet
    BY <2>1, FlagsNext
  <2>4. Flags(line, m + 1, TRUE) = s /\ (s.special => m > 0 /\ line[m] = "\\")
    BY <2>1, FlagsKnown
  <2> HIDE DEF m, s
  <2>5. ~s.special
    <3> SUFFICES ASSUME s.special PROVE FALSE
      OBVIOUS
    <3>1. line[m + 1] \in Quotes
      BY <2>1, <2>4 DEF Known
    <3> QED BY <1>2, <2>1, <3>1 DEF Quotes, Operators
  <2>6. s = NoFlags <=> s.open = ""
    <3>1. s = [open |-> s.open, special |-> s.special] /\ s.special = FALSE
      BY <2>3, <2>5 DEF FlagSet
    <3>2. NoFlags.open = ""
      BY DEF NoFlags
    <3> QED BY <3>1, <3>2, Zenon DEF NoFlags
  <2>7. is_quote_open(SubSeq(line, 1, m)) <=> s.open # ""
    BY <2>2 DEF is_quote_open, After
  <2> QED BY <2>1, <2>4, <2>6, <2>7 DEF m
<1> QED BY <1>2 DEF Free, Outside

(***************************************************************************)
(* argv_split cuts no word inside quotes.                                  *)
(***************************************************************************)
Blanks(line) == { i \in DOMAIN line : line[i] = " " /\ Flags(line, i, FALSE).open = "" }

(* Without a backslash no character is taken for special.                  *)
LEMMA NoSpecial ==
    ASSUME NEW X, NEW line \in Seq(X), \A i \in DOMAIN line : line[i] # "\\"
    PROVE  \A m \in 0 .. Len(line) : Flags(line, m + 1, FALSE).special = FALSE
<1>1. Known(line) /\ DOMAIN line = 1 .. Len(line) /\ Len(line) \in Nat
  BY LenProperties DEF Known
<1>2. ASSUME NEW m \in 0 .. Len(line) PROVE Flags(line, m + 1, FALSE).special = FALSE
  <2> DEFINE s == Flags(line, m + 1, FALSE)
  <2>1. m \in Nat /\ (m > 0 => m \in DOMAIN line)
    BY <1>1
  <2>2. s.special => m > 0 /\ line[m] = "\\"
    BY <1>1, FlagsKnown
  <2>3. s \in FlagSet
    BY <2>1, FlagsNext
  <2> HIDE DEF s
  <2>4. s.special \in BOOLEAN /\ ~s.special
    BY <2>1, <2>2, <2>3 DEF FlagSet
  <2>5. s.special = FALSE
    BY <2>4, Zenon
  <2> QED BY <2>5 DEF s
<1> QED BY <1>2

(* A piece that begins outside of quotes has the flags of the line at its  *)
(* end.                                                                    *)
LEMMA FlagsOfPiece ==
    ASSUME NEW X, NEW line \in Seq(X), NEW s \in Nat, NEW e \in Nat, s < e, e <= Len(line) + 1,
           Flags(line, s + 1, FALSE) = NoFlags
    PROVE  After(SubSeq(line, s + 1, e - 1), FALSE) = Flags(line, e, FALSE)
<1> DEFINE a == s + 1
           b == e - 1
           l == b - s
           piece == SubSeq(line, a, b)
           S == { m \in 0 .. l : Flags(piece, m + 1, FALSE) = Flags(line, s + m + 1, FALSE) }
<1>1. Len(line) \in Nat
  BY LenProperties
<1>2. /\ a \in Nat \ {0} /\ b \in Nat /\ b \in Int /\ b <= Len(line) /\ l \in Nat
      /\ (a <= b => (b - a) + 1 = l) /\ (~(a <= b) => l = 0)
      /\ s + l + 1 = e /\ \A i \in 1 .. l : i \in 1 .. (b - a) + 1 /\ (a + i) - 1 = s + i
  BY <1>1
<1> HIDE DEF a, b, l
<1>3. Len(piece) = l /\ \A i \in 1 .. l : piece[i] = line[s + i]
  <2>1. /\ Len(piece) = IF a <= b THEN (b - a) + 1 ELSE 0
        /\ \A i \in 1 .. (b - a) + 1 : piece[i] = line[(a + i) - 1]
    BY <1>2, PartOf
  <2> HIDE DEF piece
  <2> QED BY <1>2, <2>1
<1> HIDE DEF piece
<1>4. 0 \in S
  <2>1. Flags(piece, 0 + 1, FALSE) = NoFlags
    BY FlagsNext
  <2>2. s + 0 + 1 = s + 1
    OBVIOUS
  <2>3. 0 \in 0 .. l
    BY <1>2
  <2> QED BY <2>1, <2>2, <2>3
<1>5. ASSUME NEW m \in 0 .. l - 1, m \in S PROVE m + 1 \in S
  <2>1. m \in Nat /\ s + m \in Nat /\ m + 1 \in 1 .. l /\ m + 1 \in 0 .. l /\ s + (m + 1) = (s + m) + 1
    BY <1>2
  <2>2. Flags(piece, (m + 1) + 1, FALSE) = Scan(Flags(piece, m + 1, FALSE), piece[m + 1], FALSE)
    BY <2>1, FlagsNext
  <2>3. Flags(line, ((s + m) + 1) + 1, FALSE) = Scan(Flags(line, (s + m) + 1, FALSE), line[(s + m) + 1], FALSE)
    BY <2>1, FlagsNext
  <2>4. piece[m + 1] = line[(s + m) + 1]
    BY <1>3, <2>1
  <2>5. Flags(piece, m + 1, FALSE) = Flags(line, (s + m) + 1, FALSE)
    BY <1>5
  <2>6. Flags(piece, (m + 1) + 1, FALSE) = Flags(line, (s + (m + 1)) + 1, FALSE)
    BY <2>1, <2>2, <2>3, <2>4, <2>5, Zenon
  <2> QED BY <2>1, <2>6
<1> HIDE DEF S
<1>6. 0 .. l \subseteq S
  BY <1>2, <1>4, <1>5, Reached
<1>7. l \in 0 .. l
  BY <1>2
<1>8. Flags(piece, l + 1, FALSE) = Flags(line, s + l + 1, FALSE)
  BY <1>6, <1>7 DEF S
<1> QED BY <1>2, <1>3, <1>8 DEF After, piece, a, b

(* In a line whose quotes are closed each word has its quotes closed.      *)
LEMMA WordsClosed ==
    ASSUME NEW X, NEW line \in Seq(X), \A i \in DOMAIN line : line[i] # "\\", ~is_quote_open(line),
           NEW pieces, Len(pieces) \in Nat, NEW b \in [0 .. Len(pieces) -> Nat],
           CutAt(line, Blanks(line), pieces, b, Len(line))
    PROVE  \A k \in 1 .. Len(pieces) : ~is_quote_open(pieces[k])
<1> DEFINE n == Len(line)
           M == Len(pieces)
<1>1. n \in Nat /\ DOMAIN line = 1 .. n /\ M \in Nat
  BY LenProperties
<1>2. \A m \in 0 .. n : Flags(line, m + 1, FALSE).special = FALSE
  BY NoSpecial
<1>3. /\ b[0] = 0 /\ b[M] = n + 1
      /\ \A k \in 1 .. M : b[k - 1] < b[k] /\ pieces[k] = SubSeq(line, b[k - 1] + 1, b[k] - 1)
      /\ \A k \in 1 .. M - 1 : b[k] \in Blanks(line)
  BY DEF CutAt
<1>4. \A c \in Blanks(line) : c \in 1 .. n /\ line[c] = " " /\ Flags(line, c, FALSE).open = ""
  BY <1>1 DEF Blanks
<1>5. \A k \in 0 .. M : b[k] \in Nat
  OBVIOUS
<1> HIDE DEF M, n
<1>6. ASSUME NEW c \in Blanks(line) PROVE Flags(line, c + 1, FALSE) = NoFlags
  <2> DEFINE m == c - 1
             s == Flags(line, m + 1, FALSE)
  <2>1. m \in Nat /\ m \in 0 .. n /\ m + 1 = c
    <3>1. c \in 1 .. n
      BY <1>4
    <3> QED BY <1>1, <3>1
  <2>2. s.special = FALSE /\ s.open = ""
    BY <1>2, <1>4, <2>1
  <2>3. s \in FlagSet /\ Flags(line, (m + 1) + 1, FALSE) = Scan(s, line[m + 1], FALSE)
    BY <2>1, FlagsNext
  <2> HIDE DEF s
  <2>4. s = NoFlags
    <3>1. s = [open |-> s.open, special |-> s.special]
      BY <2>3 DEF FlagSet
    <3> QED BY <2>2, <3>1, Zenon DEF NoFlags
  <2>5. line[m + 1] = " "
    BY <1>4, <2>1
  <2>6. Scan(s, " ", FALSE) = s
    BY DEF Scan, Quotes
  <2> HIDE DEF m
  <2>7. Flags(line, (m + 1) + 1, FALSE) = NoFlags
    BY <2>3, <2>4, <2>5, <2>6
  <2> QED BY <2>1, <2>7
<1>7. ASSUME NEW k \in 1 .. M PROVE ~is_quote_open(pieces[k])
  <2> DEFINE s == b[k - 1]
             e == b[k]
  <2>1. k \in 0 .. M /\ k - 1 \in 0 .. M /\ (k = 1 \/ k - 1 \in 1 .. M - 1) /\ (k = M \/ k \in 1 .. M - 1)
    BY <1>1
  <2>2. s \in Nat /\ e \in Nat /\ s < e /\ pieces[k] = SubSeq(line, s + 1, e - 1)
    BY <1>3, <1>5, <2>1
  <2>3. Flags(line, s + 1, FALSE) = NoFlags
    <3>1. CASE k = 1
      <4>1. s = 0
        BY <1>3, <3>1
      <4>2. Flags(line, 0 + 1, FALSE) = NoFlags
        BY FlagsNext
      <4> QED BY <4>1, <4>2
    <3>2. CASE k - 1 \in 1 .. M - 1
      BY <1>3, <1>6, <3>2
    <3> QED BY <2>1, <3>1, <3>2
  <2>4. e <= n + 1 /\ Flags(line, e, FALSE).open = ""
    <3>1. CASE k = M
      <4>1. e = n + 1
        BY <1>3, <3>1
      <4>2. Flags(line, n + 1, FALSE).open = ""
        BY DEF is_quote_open, n
      <4>3. Flags(line, e, FALSE).open = ""
        BY <4>1, <4>2, Zenon
      <4> HIDE DEF e
      <4>4. e <= n + 1
        BY <1>1, <4>1
      <4> QED BY <4>3, <4>4
    <3>2. CASE k \in 1 .. M - 1
      <4>1. e \in Blanks(line)
        BY <1>3, <3>2
      <4> HIDE DEF e
      <4>2. e \in 1 .. n /\ Flags(line, e, FALSE).open = ""
        BY <1>4, <4>1
      <4>3. e <= n + 1
        <5>1. e \in 1 .. n
          BY <4>2
        <5> QED BY <1>1, <5>1
      <4> QED BY <4>2, <4>3
    <3> QED BY <2>1, <3>1, <3>2
  <2> HIDE DEF s, e
  <2>5. After(SubSeq(line, s + 1, e - 1), FALSE) = Flags(line, e, FALSE)
    BY <2>2, <2>3, <2>4, FlagsOfPiece DEF n
  <2> QED BY <2>2, <2>4, <2>5 DEF is_quote_open, After
<1> QED BY <1>7 DEF M

Padded(u, v) ==
    /\ Len(u) <= Len(v) /\ \A i \in 1 .. Len(u) : u[i] = v[i]
    /\ \A i \in Len(u) + 1 .. Len(v) : v[i] = " "

(* Parts with the same elements are the same.                              *)
LEMMA PartsSame ==
    ASSUME NEW X, NEW s \in Seq(X), NEW t \in Seq(X), NEW a \in Nat \ {0}, NEW b \in Int,
           b <= Len(s), b <= Len(t), \A i \in 1 .. (b - a) + 1 : s[(a + i) - 1] = t[(a + i) - 1]
    PROVE  SubSeq(s, a, b) = SubSeq(t, a, b)
<1> DEFINE u == SubSeq(s, a, b)
           v == SubSeq(t, a, b)
           l == (b - a) + 1
<1>1. u \in Seq(X) /\ Len(u) = (IF a <= b THEN l ELSE 0) /\ \A i \in 1 .. l : u[i] = s[(a + i) - 1]
  BY PartOf
<1>2. v \in Seq(X) /\ Len(v) = (IF a <= b THEN l ELSE 0) /\ \A i \in 1 .. l : v[i] = t[(a + i) - 1]
  BY PartOf
<1>3. l \in Int /\ (a <= b <=> l > 0)
  OBVIOUS
<1>7. \A i \in 1 .. l : s[(a + i) - 1] = t[(a + i) - 1]
  BY Zenon
<1> HIDE DEF u, v, l
<1>4. Len(u) = Len(v) /\ \A i \in 1 .. Len(u) : i \in 1 .. l
  BY <1>1, <1>2, <1>3
<1>5. \A i \in 1 .. Len(u) : u[i] = v[i]
  BY <1>1, <1>2, <1>7, <1>4, Zenon
<1>6. u = v
  BY <1>1, <1>2, <1>4, <1>5, SeqEqual
<1> QED BY <1>6 DEF u, v

(* Blanks behind a text make no difference once it is trimmed.             *)
LEMMA TrimSame ==
    ASSUME NEW X, NEW u \in Seq(X), NEW v \in Seq(X), Padded(u, v)
    PROVE  Trimmed(u) = Trimmed(v)
<1> DEFINE m == Len(u)
           n == Len(v)
           S == Text(u)
           T == Text(v)
           To(line, W) == IF W = {} THEN <<>>
                          ELSE SubSeq(line, CHOOSE i \in W : \A j \in W : i <= j,
                                            CHOOSE i \in W : \A j \in W : j <= i)
           a == CHOOSE i \in S : \A j \in S : i <= j
           b == CHOOSE i \in S : \A j \in S : j <= i
<1>1. m \in Nat /\ n \in Nat /\ m <= n
  BY LenProperties DEF Padded
<1>2. S = { i \in 1 .. m : u[i] # " " } /\ T = { i \in 1 .. n : v[i] # " " }
  BY LenProperties DEF Text
<1>3. (\A i \in 1 .. m : u[i] = v[i]) /\ \A i \in m + 1 .. n : v[i] = " "
  BY DEF Padded
<1>4. Trimmed(u) = To(u, S) /\ Trimmed(v) = To(v, T)
  BY Zenon DEF Trimmed
<1>5. m <= Len(u) /\ m <= Len(v)
  BY <1>1
<1> HIDE DEF S, T, m, n
<1>6. S = T
  <2>1. \A i : i \in 1 .. n <=> i \in 1 .. m \/ i \in m + 1 .. n
    BY <1>1
  <2>2. \A i \in S : i \in T
    BY <1>2, <1>3, <2>1
  <2>3. \A i \in T : i \in S
    BY <1>2, <1>3, <2>1
  <2> QED BY <2>2, <2>3
<1>7. S \in SUBSET Nat /\ \A i \in S : i \in 1 .. m
  <2>1. \A i \in 1 .. m : i \in Nat
    BY <1>1
  <2>2. \A i \in S : i \in 1 .. m
    BY <1>2
  <2> QED BY <2>1, <2>2
<1>8. ASSUME S # {} PROVE SubSeq(u, a, b) = SubSeq(v, a, b)
  <2>1. a \in S
    BY <1>7, <1>8, MinOfNat DEF Min
  <2>2. b \in S
    <3>1. \A i \in S : i <= m
      BY <1>1, <1>7
    <3>2. PICK top \in S : \A j \in S : top >= j
      BY <1>1, <1>7, <1>8, <3>1, MaxOfBounded
    <3>3. \A j \in S : j <= top
      BY <1>7, <3>2
    <3> QED BY <3>3
  <2>3. a \in 1 .. m /\ b \in 1 .. m
    BY <1>7, <2>1, <2>2
  <2> HIDE DEF a, b
  <2>4. a \in Nat \ {0} /\ b \in Int /\ b <= Len(u) /\ b <= Len(v)
        /\ \A i \in 1 .. (b - a) + 1 : (a + i) - 1 \in 1 .. m
    <3>1. a \in Nat \ {0} /\ b \in Int /\ b <= m /\ \A i \in 1 .. (b - a) + 1 : (a + i) - 1 \in 1 .. m
      BY <1>1, <2>3
    <3>2. Len(u) \in Nat /\ Len(v) \in Nat
      BY LenProperties
    <3> QED BY <1>1, <1>5, <3>1, <3>2
  <2>5. \A i \in 1 .. (b - a) + 1 : u[(a + i) - 1] = v[(a + i) - 1]
    BY <1>3, <2>4
  <2>6. a \in Nat \ {0} /\ b \in Int /\ b <= Len(u) /\ b <= Len(v) /\ b - a = b - a
    BY <2>4
  <2> QED BY <2>5, <2>6, PartsSame
<1>9. To(u, S) = To(v, S)
  <2>1. CASE S = {}
    BY <2>1
  <2>2. CASE S # {}
    <3>1. To(u, S) = SubSeq(u, a, b) /\ To(v, S) = SubSeq(v, a, b)
      BY <2>2
    <3> QED BY <1>8, <2>2, <3>1, Zenon
  <2> QED BY <2>1, <2>2
<1> HIDE DEF To
<1> QED BY <1>4, <1>6, <1>9, Zenon

(* The smallest element is Min.                                            *)
LEMMA FirstIs ==
    ASSUME NEW S \in SUBSET Nat, NEW e \in S, \A i \in S : e <= i
    PROVE  Min(S) = e
<1>1. Min(S) \in S /\ Min(S) <= e
  BY MinOfNat
<1>2. e <= Min(S) /\ Min(S) \in Nat /\ e \in Nat
  BY <1>1
<1> QED BY <1>1, <1>2

(* The text in cells goes up to their first Nul.                           *)
LEMMA TextOfIs ==
    ASSUME NEW Z, NEW c \in Seq(Z), NEW e \in 1 .. Len(c), c[e] = Nul, \A i \in 1 .. e - 1 : c[i] # Nul
    PROVE  TextOf(c) = SubSeq(c, 1, e - 1)
<1> DEFINE I == { i \in 1 .. Len(c) : c[i] = Nul }
           n == Len(c)
<1>1. n \in Nat
  BY LenProperties
<1>2. \A i \in 1 .. n : i \in Nat /\ (~(e <= i) => i \in 1 .. e - 1)
  BY <1>1
<1>3. I \in SUBSET Nat /\ e \in I
  BY <1>2
<1>4. \A i \in I : e <= i
  BY <1>2
<1>5. TextOf(c) = SubSeq(c, 1, (IF I # {} THEN Min(I) ELSE 0) - 1)
  BY Zenon DEF TextOf, SelectInSeq
<1> HIDE DEF I
<1>6. Min(I) = e /\ I # {}
  BY <1>3, <1>4, FirstIs
<1> QED BY <1>5, <1>6

Nuls(k) == [i \in 1 .. k |-> Nul]

(* A text and Nuls put over all cells.                                     *)
LEMMA FilledIs ==
    ASSUME NEW Z, Nul \in Z, NEW text \in Seq(Z), NEW k \in Nat, NEW cells \in Seq(Z), Len(cells) = Len(text) + k,
           NEW filled, filled = PutOver(cells, text \o Nuls(k))
    PROVE  /\ filled \in Seq(Z) /\ Len(filled) = Len(text) + k
           /\ \A i \in 1 .. Len(text) : filled[i] = text[i]
           /\ \A i \in Len(text) + 1 .. Len(text) + k : filled[i] = Nul
<1> DEFINE m == Len(text)
           nuls == Nuls(k)
           over == text \o nuls
           n == m + k
           rest == SubSeq(cells, Len(over) + 1, Len(cells))
<1>1. m \in Nat /\ n \in Nat
  BY LenProperties
<1>2. nuls \in Seq(Z) /\ Len(nuls) = k /\ \A i \in 1 .. k : nuls[i] = Nul
  <2>1. nuls \in [1 .. k -> Z]
    BY DEF Nuls
  <2>2. nuls \in Seq(Z)
    BY <2>1, SeqDef
  <2>3. DOMAIN nuls = 1 .. k /\ \A i \in 1 .. k : nuls[i] = Nul
    BY DEF Nuls
  <2>4. Len(nuls) = k
    BY <2>2, <2>3, LenProperties
  <2> QED BY <2>2, <2>3, <2>4
<1> HIDE DEF nuls
<1>3. /\ over \in Seq(Z) /\ Len(over) = m + k
      /\ \A i \in 1 .. m + k : over[i] = IF i <= m THEN text[i] ELSE nuls[i - m]
  BY <1>2, ConcatProperties
<1> HIDE DEF over
<1>4. rest = SubSeq(cells, n + 1, n)
  BY <1>3
<1> HIDE DEF m, n, rest
<1>5. rest \in Seq(Z) /\ Len(rest) = 0
  <2>1. n + 1 \in Nat \ {0} /\ n \in Int /\ ~(n + 1 <= n) /\ n <= Len(cells)
    BY <1>1 DEF m, n
  <2> DEFINE a == n + 1
  <2> HIDE DEF a
  <2>2. a \in Nat \ {0} /\ n \in Int /\ ~(a <= n) /\ n <= Len(cells)
    BY <2>1 DEF a
  <2>3. SubSeq(cells, a, n) \in Seq(Z) /\ Len(SubSeq(cells, a, n)) = IF a <= n THEN n - a + 1 ELSE 0
    BY <2>2, PartOf
  <2> QED BY <1>4, <2>2, <2>3 DEF a
<1>6. rest = <<>>
  BY <1>5, EmptySeq
<1>7. filled = over
  <2>1. filled = over \o rest
    BY DEF PutOver, over, rest, nuls, m, n
  <2> QED BY <1>3, <1>6, <2>1, ConcatEmptySeq
<1>8. \A i \in 1 .. m : over[i] = text[i]
  <2>1. \A i \in 1 .. m : i \in 1 .. m + k /\ i <= m
    BY <1>1
  <2> QED BY <1>3, <2>1
<1>9. \A i \in m + 1 .. m + k : over[i] = Nul
  <2>1. \A i \in m + 1 .. m + k : i \in 1 .. m + k /\ ~(i <= m) /\ i - m \in 1 .. k
    BY <1>1
  <2> QED BY <1>2, <1>3, <2>1
<1> QED BY <1>3, <1>7, <1>8, <1>9 DEF m

(***************************************************************************)
(* main.c cuts a line that does not begin with a blank where it found the  *)
(* operator.                                                               *)
(***************************************************************************)
Cells(line) ==
    LET text == process_line(line, FALSE)
        blanks == SelectInSeq(line, LAMBDA c : c # " ") - 1
    IN  PutOver(Append(line, Nul), text \o Nuls(Len(line) - blanks - Len(text) + 1))

(* cut in terms of the cells of the line.                                  *)
LEMMA CutIs ==
    ASSUME NEW line
    PROVE  LET op == get_command_type(line) IN
           cut(line) = [current_command |-> TextOf([Cells(line) EXCEPT ![End(op)] = Nul]),
                        next_command |-> Trimmed(TextOf(SubSeq(Cells(line), op.token_pos + 1, Len(Cells(line)))))]
<1>1. \A u : process_line(u, FALSE) = Trimmed(u)
  BY DEF process_line, Trimmed, Text
<1> DEFINE op == get_command_type(line)
           c == Cells(line)
           e == End(op)
           part == SubSeq(c, op.token_pos + 1, Len(c))
<1>2. cut(line) = [current_command |-> TextOf([c EXCEPT ![e] = Nul]),
                   next_command |-> process_line(TextOf(part), FALSE)]
  BY Zenon DEF cut, Cells, Nuls, End
<1> HIDE DEF op, c, e, part
<1>3. cut(line) = [current_command |-> TextOf([c EXCEPT ![e] = Nul]), next_command |-> Trimmed(TextOf(part))]
  BY <1>1, <1>2
<1> QED BY <1>3, Zenon DEF op, c, e, part

\* What is left of the line in its cells: all up to its last character that is
\* no blank, at b.
Laid(line, cells, b) ==
    /\ b \in 1 .. Len(line) /\ line[b] # " " /\ \A i \in b + 1 .. Len(line) : line[i] = " "
    /\ Len(cells) = Len(line) + 1 /\ \A i \in 1 .. b : cells[i] = line[i]
    /\ \A i \in b + 1 .. Len(line) + 1 : cells[i] = Nul

\* A line that does not begin with a blank.
Begun(line) == line # <<>> /\ Head(line) # " "

(* The cells hold the line without the blanks behind it, then Nuls.        *)
LEMMA CellsAre ==
    ASSUME NEW X, NEW line \in Seq(X), Begun(line)
    PROVE  Cells(line) \in Seq(X \cup {Nul}) /\ \E b \in Nat : Laid(line, Cells(line), b)
<1> DEFINE n == Len(line)
           Z == X \cup {Nul}
           text == process_line(line, FALSE)
           I == { i \in 1 .. n : line[i] # " " }
           first == IF I # {} THEN Min(I) ELSE 0
           cells == Append(line, Nul)
<1>1. n \in Nat /\ n > 0
  <2>1. line # <<>>
    BY DEF Begun
  <2> QED BY <2>1, EmptySeq
<1>2. line[1] # " "
  <2>1. line # <<>> /\ Head(line) # " "
    BY DEF Begun
  <2>2. Head(line) = line[1]
    OBVIOUS
  <2> QED BY <2>1, <2>2
<1>3. first = 1
  <2>4. 1 \in 1 .. n /\ \A i \in 1 .. n : i \in Nat /\ 1 <= i
    <3> HIDE DEF n
    <3> QED BY <1>1
  <2>5. \A i : i \in I <=> i \in 1 .. n /\ line[i] # " "
    BY Zenon
  <2> HIDE DEF I, n
  <2>1. 1 \in I /\ I \in SUBSET Nat
    BY <1>2, <2>4, <2>5, Zenon
  <2>2. \A i \in I : 1 <= i
    BY <2>4, <2>5, Zenon
  <2>3. Min(I) = 1 /\ I # {}
    BY <2>1, <2>2, FirstIs
  <2> QED BY <2>3
<1>4. Cells(line) = PutOver(cells, text \o Nuls(n - (first - 1) - Len(text) + 1))
  BY Zenon DEF Cells, SelectInSeq
<1> HIDE DEF first, I
<1>5. Trims(line, text)
  BY ProcessLineIs
<1> HIDE DEF text
<1>6. PICK a, b \in 1 .. n : /\ a <= b /\ line[b] # " " /\ text = SubSeq(line, a, b)
                             /\ \A i \in 1 .. n : line[i] # " " => a <= i /\ i <= b
  <2>2. 1 \in 1 .. n
    <3> HIDE DEF n
    <3> QED BY <1>1
  <2>1. ~ \A i \in 1 .. n : line[i] = " "
    BY <1>2, <2>2, Zenon
  <2> QED BY <1>5, <2>1 DEF Trims
<1> HIDE DEF n
<1>7. a = 1 /\ b \in Nat /\ b <= n
  <2>1. 1 \in 1 .. n
    BY <1>1
  <2>2. a <= 1
    BY <1>2, <1>6, <2>1
  <2> QED BY <1>1, <2>2
<1>8. line \in Seq(Z) /\ Nul \in Z
  BY SeqMonotonic
<1> HIDE DEF Z
<1>9. text \in Seq(Z) /\ Len(text) = b /\ \A i \in 1 .. b : text[i] = line[i]
  <2> DEFINE one == 1
  <2>5. one \in Nat \ {0} /\ b \in Int /\ b <= n /\ one <= b
    BY <1>1, <1>7
  <2>1. one \in Nat \ {0} /\ b \in Int /\ b <= Len(line) /\ one <= b
    BY <2>5 DEF n
  <2>2. one = 1 /\ text = SubSeq(line, one, b)
    BY <1>6, <1>7
  <2> HIDE DEF one
  <2>3. /\ SubSeq(line, one, b) \in Seq(Z) /\ Len(SubSeq(line, one, b)) = IF one <= b THEN b - one + 1 ELSE 0
        /\ \A i \in 1 .. b - one + 1 : SubSeq(line, one, b)[i] = line[one + i - 1]
    BY <1>8, <2>1, PartOf
  <2>4. b - one + 1 = b /\ \A i \in 1 .. b : one + i - 1 = i
    BY <1>7, <2>2
  <2> QED BY <2>1, <2>2, <2>3, <2>4
<1> DEFINE k == n - b + 1
<1>10. k \in Nat /\ b + k = n + 1 /\ n - (1 - 1) - b + 1 = k
  BY <1>1, <1>7
<1>11. Cells(line) = PutOver(cells, text \o Nuls(k))
  <2>1. n - (first - 1) - Len(text) + 1 = k
    BY <1>3, <1>9, <1>10
  <2> HIDE DEF k
  <2> QED BY <1>4, <2>1
<1>12. cells \in Seq(Z) /\ Len(cells) = n + 1
  BY <1>8, AppendProperties DEF n
<1> HIDE DEF cells, k
<1>13. /\ Cells(line) \in Seq(Z) /\ Len(Cells(line)) = b + k
       /\ \A i \in 1 .. b : Cells(line)[i] = text[i]
       /\ \A i \in b + 1 .. b + k : Cells(line)[i] = Nul
  <2>1. Len(cells) = Len(text) + k
    BY <1>9, <1>10, <1>12
  <2>3. Nul \in Z /\ text \in Seq(Z) /\ k \in Nat /\ cells \in Seq(Z)
    BY <1>8, <1>9, <1>10, <1>12
  <2> DEFINE filled == Cells(line)
  <2> HIDE DEF filled
  <2>2. /\ filled \in Seq(Z) /\ Len(filled) = Len(text) + k
        /\ \A i \in 1 .. Len(text) : filled[i] = text[i]
        /\ \A i \in Len(text) + 1 .. Len(text) + k : filled[i] = Nul
    <3>1. filled = PutOver(cells, text \o Nuls(k))
      BY <1>11 DEF filled
    <3> QED BY <2>1, <2>3, <3>1, FilledIs
  <2>4. Len(text) = b
    BY <1>9
  <2> QED BY <2>2, <2>4, Zenon DEF filled
<1>14. \A i \in b + 1 .. n : line[i] = " "
  <2>1. \A i \in b + 1 .. n : i \in 1 .. n /\ ~(i <= b)
    BY <1>1, <1>7
  <2> QED BY <1>6, <2>1
<1>15. Laid(line, Cells(line), b)
  <2>1. b \in 1 .. n /\ line[b] # " "
    BY <1>6
  <2>2. \A i \in 1 .. b : Cells(line)[i] = line[i]
    BY <1>9, <1>13
  <2>3. Len(Cells(line)) = n + 1 /\ \A i \in b + 1 .. n + 1 : Cells(line)[i] = Nul
    BY <1>10, <1>13
  <2> QED BY <1>14, <2>1, <2>2, <2>3 DEF Laid, n
<1> QED BY <1>7, <1>13, <1>15 DEF Z

EndAt(cells, e) == [cells EXCEPT ![e] = Nul]

(* A Nul put at the operator leaves the command before it.                 *)
LEMMA CurrentIs ==
    ASSUME NEW X, Nul \notin X, NEW line \in Seq(X), NEW cells \in Seq(X \cup {Nul}),
           NEW b \in Nat, Laid(line, cells, b), NEW e \in 1 .. b
    PROVE  TextOf(EndAt(cells, e)) = SubSeq(line, 1, e - 1)
<1> DEFINE Z == X \cup {Nul}
           n == Len(line)
           c == EndAt(cells, e)
           d == e - 1
           one == 1
<1>1. n \in Nat /\ b \in 1 .. n /\ Len(cells) = n + 1 /\ \A i \in 1 .. b : cells[i] = line[i]
  BY LenProperties DEF Laid
<1>2. cells \in Seq(Z) /\ line \in Seq(Z) /\ Nul \in Z
  BY SeqMonotonic
<1>3. \A i \in 1 .. n : line[i] \in X
  BY ElementOfSeq DEF n
<1>4. \A x \in X : x # Nul
  OBVIOUS
<1> HIDE DEF Z, n
<1>5. e \in 1 .. n + 1 /\ d \in Nat /\ d \in Int /\ d <= n /\ \A i \in 1 .. d : i \in 1 .. n + 1 /\ i # e /\ i \in 1 .. b /\ i \in 1 .. n
  BY <1>1
<1>6. DOMAIN cells = 1 .. n + 1
  BY <1>1, <1>2, LenProperties
<1>7. /\ DOMAIN c = 1 .. n + 1 /\ c \in Seq(Z) /\ c[e] = Nul
      /\ \A i \in 1 .. n + 1 : i # e => c[i] = cells[i]
  <2>1. cells \in [1 .. n + 1 -> Z]
    BY <1>2, <1>6, LenProperties, ElementOfSeq
  <2>2. c \in [1 .. n + 1 -> Z]
    BY <1>2, <2>1 DEF EndAt
  <2>3. c \in Seq(Z)
    <3>1. n + 1 \in Nat
      BY <1>1
    <3> QED BY <2>2, <3>1, SeqDef
  <2>4. c[e] = Nul /\ \A i \in 1 .. n + 1 : i # e => c[i] = cells[i]
    BY <1>5, <1>6 DEF EndAt
  <2> QED BY <2>2, <2>3, <2>4
<1> HIDE DEF c
<1>8. Len(c) = n + 1
  <2>1. n + 1 \in Nat
    BY <1>1
  <2> QED BY <1>7, <2>1, LenProperties
<1>9. \A i \in 1 .. d : c[i] = line[i] /\ c[i] # Nul
  <2>1. \A i \in 1 .. d : c[i] = line[i] /\ line[i] \in X
    BY <1>1, <1>3, <1>5, <1>7
  <2> QED BY <1>4, <2>1, Zenon
<1>10. TextOf(c) = SubSeq(c, 1, d)
  <2>1. e \in 1 .. Len(c)
    BY <1>5, <1>8
  <2> QED BY <1>7, <1>9, <2>1, TextOfIs
<1>11. SubSeq(c, one, d) = SubSeq(line, one, d)
  <2>1. one \in Nat \ {0} /\ d <= Len(c) /\ d <= Len(line) /\ d - one + 1 = d /\ \A i \in 1 .. d : (one + i) - 1 = i
    BY <1>1, <1>5, <1>8 DEF n
  <2> HIDE DEF one, d
  <2>2. \A i \in 1 .. (d - one) + 1 : c[(one + i) - 1] = line[(one + i) - 1]
    BY <1>9, <2>1
  <2> QED BY <1>2, <1>5, <1>7, <2>1, <2>2, PartsSame
<1> QED BY <1>10, <1>11 DEF c

(* Behind the operator stands the rest of the line.                        *)
LEMMA NextIs ==
    ASSUME NEW X, Nul \notin X, NEW line \in Seq(X), NEW cells \in Seq(X \cup {Nul}),
           NEW b \in Nat, Laid(line, cells, b), NEW t \in 1 .. b
    PROVE  Trimmed(TextOf(SubSeq(cells, t + 1, Len(cells)))) = Trimmed(SubSeq(line, t + 1, Len(line)))
<1> DEFINE Z == X \cup {Nul}
           n == Len(line)
           a == t + 1
           w == SubSeq(cells, a, n + 1)
           e == (b - t) + 1
           u == SubSeq(w, 1, b - t)
           v == SubSeq(line, a, n)
<1>1. /\ n \in Nat /\ b \in 1 .. n /\ Len(cells) = n + 1
      /\ (\A i \in 1 .. b : cells[i] = line[i]) /\ (\A i \in b + 1 .. n + 1 : cells[i] = Nul)
  BY LenProperties DEF Laid
<1>15. \A i \in b + 1 .. n : line[i] = " "
  BY DEF Laid
<1>2. cells \in Seq(Z) /\ line \in Seq(Z) /\ Nul \in Z
  BY SeqMonotonic
<1>3. \A i \in 1 .. n : line[i] \in X
  BY ElementOfSeq DEF n
<1>4. \A x \in X : x # Nul
  OBVIOUS
<1> HIDE DEF Z, n
<1>5. /\ a \in Nat \ {0} /\ n + 1 \in Int /\ n + 1 <= Len(cells) /\ a <= n + 1 /\ n \in Int
      /\ ((n + 1) - a) + 1 = (n + 1) - t /\ e \in 1 .. (n + 1) - t /\ e \in Nat \ {0} /\ e - 1 = b - t
      /\ b - t \in Nat /\ (a + e) - 1 = b + 1
  BY <1>1
<1>6. \A i \in 1 .. (n + 1) - t : (a + i) - 1 = t + i
  BY <1>1
<1> HIDE DEF a
<1>7. w \in Seq(Z) /\ Len(w) = (n + 1) - t /\ \A i \in 1 .. (n + 1) - t : w[i] = cells[t + i]
  <2>1. w \in Seq(Z) /\ Len(w) = (IF a <= n + 1 THEN ((n + 1) - a) + 1 ELSE 0)
        /\ \A i \in 1 .. ((n + 1) - a) + 1 : w[i] = cells[(a + i) - 1]
    BY <1>2, <1>5, PartOf
  <2> HIDE DEF w
  <2> QED BY <1>5, <1>6, <2>1
<1> HIDE DEF w, e
<1>8. w[e] = Nul /\ \A i \in 1 .. b - t : w[i] = line[t + i] /\ w[i] # Nul
  <2>1. t + e = b + 1 /\ e \in 1 .. (n + 1) - t /\ b + 1 \in b + 1 .. n + 1
    BY <1>1, <1>5 DEF e
  <2>2. w[e] = Nul
    BY <1>1, <1>7, <2>1
  <2>3. \A i \in 1 .. b - t : i \in 1 .. (n + 1) - t /\ t + i \in 1 .. b /\ t + i \in 1 .. n
    BY <1>1
  <2>4. \A i \in 1 .. b - t : w[i] = line[t + i] /\ line[t + i] \in X
    BY <1>1, <1>3, <1>7, <2>3
  <2> QED BY <1>4, <2>2, <2>4, Zenon
<1>9. TextOf(w) = u
  <2>1. e \in 1 .. Len(w) /\ w[e] = Nul /\ \A i \in 1 .. e - 1 : w[i] # Nul
    BY <1>5, <1>7, <1>8
  <2>2. TextOf(w) = SubSeq(w, 1, e - 1)
    BY <1>7, <2>1, TextOfIs
  <2> QED BY <1>5, <2>2
<1> DEFINE l == b - t
           one == 1
<1>10. u \in Seq(Z) /\ Len(u) = l /\ \A i \in 1 .. l : u[i] = line[t + i]
  <2>1. one \in Nat \ {0} /\ l \in Int /\ l <= Len(w) /\ (l - one) + 1 = l /\ (~(one <= l) => l = 0)
        /\ \A i \in 1 .. l : (one + i) - 1 = i
    BY <1>1, <1>5, <1>7
  <2>2. u = SubSeq(w, one, l) /\ \A i \in 1 .. l : w[i] = line[t + i]
    BY <1>8
  <2> HIDE DEF one, l, u
  <2>3. SubSeq(w, one, l) \in Seq(Z) /\ Len(SubSeq(w, one, l)) = (IF one <= l THEN (l - one) + 1 ELSE 0)
        /\ \A i \in 1 .. (l - one) + 1 : SubSeq(w, one, l)[i] = w[(one + i) - 1]
    BY <1>7, <2>1, PartOf
  <2> QED BY <2>1, <2>2, <2>3
<1>11. v \in Seq(Z) /\ Len(v) = n - t /\ \A i \in 1 .. n - t : v[i] = line[t + i]
  <2>1. n <= Len(line)
    BY <1>1 DEF n
  <2>2. v \in Seq(Z) /\ Len(v) = (IF a <= n THEN (n - a) + 1 ELSE 0)
        /\ \A i \in 1 .. (n - a) + 1 : v[i] = line[(a + i) - 1]
    BY <1>2, <1>5, <2>1, PartOf
  <2> HIDE DEF v
  <2>3. (n - a) + 1 = n - t /\ (~(a <= n) => n - t = 0) /\ \A i \in 1 .. n - t : (a + i) - 1 = t + i
    BY <1>1 DEF a
  <2> QED BY <2>2, <2>3
<1> HIDE DEF u, v, l
<1>12. Padded(u, v)
  <2>1. Len(u) <= Len(v) /\ \A i \in 1 .. l : i \in 1 .. n - t
    BY <1>1, <1>10, <1>11 DEF l
  <2>2. \A i \in 1 .. Len(u) : u[i] = v[i]
    BY <1>10, <1>11, <2>1
  <2>3. \A i \in l + 1 .. n - t : i \in 1 .. n - t /\ t + i \in b + 1 .. n
    BY <1>1 DEF l
  <2>4. \A i \in l + 1 .. n - t : v[i] = " "
    <3>1. \A i \in 1 .. n - t : v[i] = line[t + i]
      BY <1>11
    <3> QED BY <1>15, <2>3, <3>1, Zenon
  <2> QED BY <1>10, <1>11, <2>1, <2>2, <2>4 DEF Padded
<1>13. Trimmed(u) = Trimmed(v)
  BY <1>10, <1>11, <1>12, TrimSame
<1>14. w = SubSeq(cells, t + 1, Len(cells)) /\ v = SubSeq(line, t + 1, Len(line))
  BY <1>1 DEF w, v, a, n
<1> QED BY <1>9, <1>13, <1>14

CutsExactly(line) ==
    LET found == get_command_type(line) IN
    cut(line) = [current_command |-> SubSeq(line, 1, End(found) - 1),
                 next_command |-> process_line(SubSeq(line, found.token_pos + 1, Len(line)), FALSE)]

(* command_received cuts a line exactly at its operator.                   *)
LEMMA CutExact ==
    ASSUME NEW X, Nul \notin X, NEW line \in Seq(X), Begun(line), get_command_type(line).type # "NORMAL"
    PROVE  CutsExactly(line)
<1> DEFINE found == get_command_type(line)
           n == Len(line)
           e == End(found)
           t == found.token_pos
<1>1. /\ e \in Free(line) /\ t \in e .. n /\ line[t] \in Operators
  BY TypeIs
<1>2. e \in 1 .. n
  BY <1>1, LenProperties DEF Free
<1>3. line[t] # " "
  BY <1>1 DEF Operators
<1> HIDE DEF e, t, n
<1>4. PICK b \in Nat : Laid(line, Cells(line), b)
  BY CellsAre
<1>5. b \in 1 .. n /\ n \in Nat
  BY <1>4, LenProperties DEF Laid, n
<1>6. e \in Nat /\ t \in Nat /\ 1 <= e /\ e <= t /\ t <= n
  <2>1. e \in 1 .. n /\ t \in e .. n
    BY <1>1, <1>2
  <2> QED BY <1>5, <2>1
<1>7. t <= b
  <2>1. SUFFICES ASSUME ~(t <= b) PROVE FALSE
    OBVIOUS
  <2>2. t \in b + 1 .. n
    BY <1>5, <1>6, <2>1
  <2>3. line[t] = " "
    BY <1>4, <2>2 DEF Laid, n
  <2> QED BY <1>3, <2>3
<1>8. e \in 1 .. b /\ t \in 1 .. b
  BY <1>5, <1>6, <1>7
<1>9. Cells(line) \in Seq(X \cup {Nul})
  BY CellsAre
<1>10. TextOf(EndAt(Cells(line), e)) = SubSeq(line, 1, e - 1)
  BY <1>4, <1>8, <1>9, CurrentIs
<1>11. Trimmed(TextOf(SubSeq(Cells(line), t + 1, Len(Cells(line))))) = Trimmed(SubSeq(line, t + 1, n))
  BY <1>4, <1>8, <1>9, NextIs DEF n
<1>12. cut(line) = [current_command |-> TextOf(EndAt(Cells(line), e)),
                    next_command |-> Trimmed(TextOf(SubSeq(Cells(line), t + 1, Len(Cells(line)))))]
  <2>1. LET op == get_command_type(line) IN
        cut(line) = [current_command |-> TextOf([Cells(line) EXCEPT ![End(op)] = Nul]),
                     next_command |-> Trimmed(TextOf(SubSeq(Cells(line), op.token_pos + 1, Len(Cells(line)))))]
    BY CutIs, Zenon
  <2> QED BY <2>1, Zenon DEF EndAt, e, t
<1>13. process_line(SubSeq(line, t + 1, n), FALSE) = Trimmed(SubSeq(line, t + 1, n))
  BY DEF process_line, Trimmed, Text
<1>14. cut(line) = [current_command |-> SubSeq(line, 1, e - 1),
                    next_command |-> process_line(SubSeq(line, t + 1, n), FALSE)]
  BY <1>10, <1>11, <1>12, <1>13, Zenon
<1> QED BY <1>14, Zenon DEF CutsExactly, e, t, n

FindsOutside(line) ==
    LET found == get_command_type(line) IN
    \/ Outside(line) = {} /\ found.type = "NORMAL"
    \/ /\ Outside(line) # {}
       /\ End(found) = CHOOSE i \in Outside(line) : \A j \in Outside(line) : i <= j

(* The operator found is the first one outside of quotes.                  *)
LEMMA FirstOutside ==
    ASSUME NEW X, NEW line \in Seq(X), Known(line)
    PROVE  FindsOutside(line)
<1> DEFINE found == get_command_type(line)
           S == Free(line)
           e == End(found)
<1>1. S = Outside(line)
  BY FreeIsOutside
<1>2. CASE S = {}
  <2>1. found.type = "NORMAL"
    BY <1>2, TypeIs
  <2> QED BY <1>1, <1>2, <2>1 DEF FindsOutside
<1>3. CASE S # {}
  <2>1. e \in S /\ \A i \in S : e <= i
    BY <1>3, TypeIs
  <2>2. S \in SUBSET Nat
    <3>1. \A i \in 1 .. Len(line) : i \in Nat
      BY LenProperties
    <3> QED BY <3>1, LenProperties DEF Free
  <2> HIDE DEF e, S
  <2>3. Min(S) = e
    BY <2>1, <2>2, FirstIs
  <2>4. e = CHOOSE i \in S : \A j \in S : i <= j
    BY <2>3 DEF Min
  <2>5. e = CHOOSE i \in Outside(line) : \A j \in Outside(line) : i <= j
    BY <1>1, <2>4 DEF S
  <2> QED BY <1>1, <1>3, <2>5 DEF FindsOutside, e, S
<1> QED BY <1>2, <1>3

WordsRejoin(line) ==
    LET words == argv_split(line)
        joined == Joined(words, " ")
    IN  /\ joined[Len(words)] = line
        /\ \A i \in 1 .. Len(words) - 1 : ~is_quote_open(joined[i])
        /\ ~is_quote_open(line) /\ (\A i \in DOMAIN line : line[i] # "\\")
                => \A i \in DOMAIN words : ~is_quote_open(words[i])

(* The words put together are the line, and none was cut inside quotes.    *)
LEMMA SplitRejoins ==
    ASSUME NEW X, NEW line \in Seq(X)
    PROVE  WordsRejoin(line)
<1> DEFINE words == argv_split(line)
           n == Len(line)
           M == Len(words)
           blank == " "
           Z == X \cup {blank}
           joined == Joined(words, blank)
           cuts == Blanks(line)
<1>1. n \in Nat /\ DOMAIN line = 1 .. n /\ n \in 0 .. n /\ line \in Seq(Z) /\ blank \in Z
  <2>1. n \in Nat /\ DOMAIN line = 1 .. n /\ line \in Seq(Z)
    BY LenProperties, SeqMonotonic
  <2>2. n \in 0 .. n
    <3> HIDE DEF n, Z
    <3> QED BY <2>1
  <2> QED BY <2>1, <2>2
<1>2. cuts \in SUBSET (1 .. n) /\ \A c \in cuts : line[c] = blank /\ Flags(line, c, FALSE).open = ""
  BY <1>1 DEF Blanks
<1>3. words = Pieces(line, cuts)
  BY DEF argv_split, Blanks
<1> HIDE DEF cuts, words, blank, Z
<1>4. words \in SomePieces(Z) /\ \E b \in [0 .. M -> Nat] : CutAt(line, cuts, words, b, n)
  BY <1>1, <1>2, <1>3, PiecesCut
<1>5. PICK b \in [0 .. M -> Nat] : CutAt(line, cuts, words, b, n)
  BY <1>4
<1>6. \A k \in 1 .. M : joined[k] = SubSeq(line, 1, b[k] - 1)
  <2>1. /\ line \in Seq(Z) /\ cuts \in SUBSET (1 .. Len(line)) /\ blank \in Z
        /\ \A c \in cuts : line[c] = blank
    BY <1>1, <1>2
  <2>2. words \in SomePieces(Z) /\ b \in [0 .. Len(words) -> Nat] /\ CutAt(line, cuts, words, b, Len(line))
    BY <1>4, <1>5
  <2>3. JoinsAt(line, words, b, blank)
    BY <2>1, <2>2, JoinedAtCuts
  <2> QED BY <2>3, Zenon DEF JoinsAt
<1>7. M \in Nat \ {0} /\ DOMAIN words = 1 .. M
  <2>1. words \in Seq(Seq(Z)) /\ words # <<>>
    BY <1>4 DEF SomePieces
  <2> DEFINE Y == Seq(Z)
  <2> HIDE DEF Y
  <2>2. words \in Seq(Y) /\ words # <<>>
    BY <2>1 DEF Y
  <2> QED BY <2>2, EmptySeq, LenProperties
<1>8. b[M] = n + 1 /\ \A k \in 1 .. M - 1 : b[k] \in cuts
  BY <1>5 DEF CutAt
<1> HIDE DEF M, joined
<1>9. joined[M] = line
  <2>1. M \in 1 .. M /\ (n + 1) - 1 = n
    BY <1>1, <1>7
  <2>2. joined[M] = SubSeq(line, 1, n)
    BY <1>6, <1>8, <2>1
  <2> QED BY <2>2, SubSeqFull DEF n
<1>10. ASSUME NEW k \in 1 .. M - 1 PROVE ~is_quote_open(joined[k])
  <2> DEFINE c == b[k]
             m == c - 1
  <2>1. k \in 1 .. M
    BY <1>7
  <2>2. c \in cuts
    BY <1>8
  <2>3. joined[k] = SubSeq(line, 1, m)
    BY <1>6, <2>1
  <2> HIDE DEF c
  <2>4. m \in 0 .. n /\ m + 1 = c
    <3>1. c \in 1 .. n
      BY <1>2, <2>2
    <3> QED BY <1>1, <3>1
  <2> HIDE DEF m
  <2>5. After(SubSeq(line, 1, m), FALSE) = Flags(line, c, FALSE)
    BY <2>4, AfterPart DEF n
  <2>6. Flags(line, c, FALSE).open = ""
    BY <1>2, <2>2
  <2>7. ~is_quote_open(SubSeq(line, 1, m))
    BY <2>5, <2>6 DEF After, is_quote_open
  <2> QED BY <2>3, <2>7
<1>11. ASSUME ~is_quote_open(line), \A i \in DOMAIN line : line[i] # "\\"
       PROVE  \A k \in 1 .. M : ~is_quote_open(words[k])
  <2>1. CutAt(line, Blanks(line), words, b, Len(line)) /\ Len(words) \in Nat /\ b \in [0 .. Len(words) -> Nat]
    BY <1>5, <1>7 DEF cuts, n, M
  <2>2. \A k \in 1 .. Len(words) : ~is_quote_open(words[k])
    BY <1>11, <2>1, WordsClosed
  <2> QED BY <2>2 DEF M
<1>12. \A i \in DOMAIN words : i \in 1 .. M
  BY <1>7
<1> QED BY <1>9, <1>10, <1>11, <1>12, Zenon DEF WordsRejoin, words, joined, M, blank

(* The scanners do what is expected of them.                               *)
LEMMA LineAgrees ==
    ASSUME NEW X, Nul \notin X, NEW line \in Seq(X)
    PROVE  ScannersAgree(line)
<1>1. Begun(line) /\ get_command_type(line).type # "NORMAL" => CutsExactly(line)
  BY CutExact
<1>2. Known(line) => FindsOutside(line)
  BY FirstOutside
<1>3. WordsRejoin(line)
  BY SplitRejoins
<1> QED BY <1>1, <1>2, <1>3, Zenon
        DEF ScannersAgree, Begun, CutsExactly, End, Known, FindsOutside, Outside, WordsRejoin

(***************************************************************************)
(* Scripts: what process_line keeps of a line, and the cells of            *)
(* current_line.                                                           *)
(***************************************************************************)
Kept(line) ==
    LET hash == SelectInSeq(line, LAMBDA c : c = "#")
    IN  IF hash = 0 THEN line ELSE SubSeq(line, 1, hash - 1)
Uncommented(line) == \A i \in DOMAIN line : line[i] # "#"

(* process_line of a script line: the comment goes, then the blanks.       *)
LEMMA KeptIs ==
    ASSUME NEW X, NEW line \in Seq(X)
    PROVE  /\ process_line(line, TRUE) = Trimmed(Kept(line)) /\ Kept(line) \in Seq(X)
           /\ process_line(line, TRUE) \in Seq(X)
           /\ Uncommented(line) => Kept(line) = line
           /\ line = <<>> \/ Head(line) = "#" => process_line(line, TRUE) = <<>>
<1> DEFINE I == { i \in 1 .. Len(line) : line[i] = "#" }
           hash == IF I # {} THEN Min(I) ELSE 0
<1>1. Len(line) \in Nat /\ DOMAIN line = 1 .. Len(line)
  BY LenProperties
<1>2. process_line(line, TRUE) = Trimmed(Kept(line))
  <2> DEFINE at == SelectInSeq(line, LAMBDA c : c = "#")
             hashed == IF TRUE THEN at ELSE 0
             kept == IF hashed = 0 THEN line ELSE SubSeq(line, 1, hashed - 1)
  <2>1. process_line(line, TRUE) = Trimmed(kept)
    BY Zenon DEF process_line, Trimmed, Text
  <2>2. hashed = at
    BY Zenon
  <2> HIDE DEF at, hashed
  <2>3. kept = IF at = 0 THEN line ELSE SubSeq(line, 1, at - 1)
    BY <2>2, Zenon
  <2>4. Kept(line) = IF at = 0 THEN line ELSE SubSeq(line, 1, at - 1)
    BY Zenon DEF Kept, at
  <2> QED BY <2>1, <2>3, <2>4, Zenon
<1>3. Kept(line) = IF hash = 0 THEN line ELSE SubSeq(line, 1, hash - 1)
  BY Zenon DEF Kept, SelectInSeq
<1>4. \A i : i \in I <=> i \in 1 .. Len(line) /\ line[i] = "#"
  OBVIOUS
<1> HIDE DEF I
<1>5. I \in SUBSET Nat /\ I \subseteq 1 .. Len(line)
  <2>1. \A i \in 1 .. Len(line) : i \in Nat
    BY <1>1
  <2> QED BY <1>4, <2>1, Zenon
<1>6. hash = 0 \/ hash \in 1 .. Len(line)
  <2>1. I # {} => Min(I) \in I
    BY <1>5, MinOfNat
  <2> QED BY <1>5, <2>1
<1>7. Kept(line) \in Seq(X)
  <2>1. CASE hash = 0
    BY <1>3, <2>1
  <2>2. CASE hash \in 1 .. Len(line)
    <3> DEFINE b == hash - 1
               one == 1
    <3> HIDE DEF hash
    <3>1. b \in Int /\ b <= Len(line) /\ one \in Nat \ {0} /\ hash # 0
      BY <1>1, <2>2
    <3>2. Kept(line) = SubSeq(line, one, b)
      BY <1>3, <3>1
    <3> HIDE DEF b, one
    <3> QED BY <3>1, <3>2, PartOf
  <2> QED BY <1>6, <2>1, <2>2
<1>8. Uncommented(line) => Kept(line) = line
  <2>1. Uncommented(line) => I = {}
    BY <1>1, <1>4 DEF Uncommented
  <2> QED BY <1>3, <2>1
<1>9. Trimmed(<<>>) = <<>>
  BY DEF Trimmed, Text
<1>10. line = <<>> => process_line(line, TRUE) = <<>>
  <2> SUFFICES ASSUME line = <<>> PROVE Kept(line) = line
    BY <1>2, <1>9
  <2>1. Uncommented(line)
    BY DEF Uncommented
  <2> QED BY <1>8, <2>1
<1>11. line # <<>> /\ Head(line) = "#" => process_line(line, TRUE) = <<>>
  <2> SUFFICES ASSUME line # <<>> /\ Head(line) = "#" PROVE Kept(line) = <<>>
    BY <1>2, <1>9
  <2>1. line[1] = "#"
    OBVIOUS
  <2>2. 1 \in 1 .. Len(line)
    <3>1. Len(line) > 0
      BY EmptySeq
    <3> DEFINE n == Len(line)
    <3> HIDE DEF n
    <3>2. n \in Nat /\ n > 0
      BY <1>1, <3>1 DEF n
    <3>3. 1 \in 1 .. n
      BY <3>2
    <3> QED BY <3>3 DEF n
  <2>3. 1 \in I /\ \A i \in I : 1 <= i
    <3>1. \A i \in 1 .. Len(line) : 1 <= i
      BY <1>1
    <3> QED BY <1>4, <1>5, <2>1, <2>2, <3>1
  <2>4. hash = 1
    <3>1. Min(I) = 1
      BY <1>5, <2>3, FirstIs
    <3> QED BY <2>3, <3>1
  <2> HIDE DEF hash
  <2>5. Kept(line) = SubSeq(line, 1, 0)
    BY <1>3, <2>4
  <2> DEFINE none == SubSeq(line, 1, 0)
  <2>6. none \in Seq(X) /\ Len(none) = 0
    <3> DEFINE one == 1
               nil == 0
    <3>1. one \in Nat \ {0} /\ nil \in Int /\ nil <= Len(line) /\ ~(one <= nil)
      BY <1>1
    <3> HIDE DEF one, nil
    <3>2. SubSeq(line, one, nil) \in Seq(X) /\ Len(SubSeq(line, one, nil)) = IF one <= nil THEN nil - one + 1 ELSE 0
      BY <3>1, PartOf
    <3>3. Len(SubSeq(line, one, nil)) = 0
      BY <3>1, <3>2
    <3> QED BY <3>2, <3>3 DEF one, nil
  <2> HIDE DEF none
  <2>7. none = <<>>
    BY <2>6, EmptySeq
  <2> QED BY <2>5, <2>7 DEF none
<1>12. process_line(line, TRUE) \in Seq(X)
  BY <1>2, <1>7, TrimmedIs
<1> QED BY <1>2, <1>7, <1>8, <1>10, <1>11, <1>12

(* The text in cells is made of what is in them.                           *)
LEMMA TextTyped ==
    ASSUME NEW Z, NEW cells \in Seq(Z)
    PROVE  TextOf(cells) \in Seq(Z)
<1> DEFINE I == { i \in 1 .. Len(cells) : cells[i] = Nul }
           end == IF I # {} THEN Min(I) ELSE 0
           n == Len(cells)
           b == end - 1
           one == 1
<1>1. n \in Nat /\ I \in SUBSET Nat /\ I \subseteq 1 .. n
  <2>1. n \in Nat /\ \A i \in 1 .. n : i \in Nat
    BY LenProperties
  <2> QED BY <2>1
<1>2. TextOf(cells) = SubSeq(cells, one, b)
  BY Zenon DEF TextOf, SelectInSeq
<1> HIDE DEF I, n
<1>3. end \in 0 .. n
  <2>1. I # {} => Min(I) \in 1 .. n
    BY <1>1, MinOfNat
  <2>2. 0 \in 0 .. n /\ \A i \in 1 .. n : i \in 0 .. n
    BY <1>1
  <2> QED BY <2>1, <2>2
<1> HIDE DEF end
<1>4. one \in Nat \ {0} /\ b \in Int /\ b <= n
  BY <1>1, <1>3
<1> HIDE DEF one, b
<1>5. b <= Len(cells)
  BY <1>4 DEF n
<1> QED BY <1>2, <1>4, <1>5, PartOf

Covers(over, cells, text) ==
    /\ Len(over) = Len(cells)
    /\ \A i \in 1 .. Len(cells) : over[i] = IF i <= Len(text) THEN text[i] ELSE cells[i]

(* A text put over cells covers the first ones and leaves the others.      *)
LEMMA PutOverIs ==
    ASSUME NEW Z, NEW cells \in Seq(Z), NEW text \in Seq(Z), NEW over, over = PutOver(cells, text)
    PROVE  over \in Seq(Z) /\ (Len(text) <= Len(cells) => Covers(over, cells, text))
<1> DEFINE m == Len(text)
           n == Len(cells)
           a == m + 1
           rest == SubSeq(cells, a, n)
<1>1. m \in Nat /\ n \in Nat
  BY LenProperties
<1>2. over = text \o rest
  BY DEF PutOver
<1> HIDE DEF m
<1>3. n \in Int /\ n <= Len(cells) /\ a \in Nat \ {0}
  BY <1>1
<1> HIDE DEF a
<1>4. rest \in Seq(Z) /\ Len(rest) = (IF a <= n THEN n - a + 1 ELSE 0)
      /\ \A i \in 1 .. n - a + 1 : rest[i] = cells[a + i - 1]
  BY <1>3, PartOf
<1> HIDE DEF rest, n
<1>5. /\ over \in Seq(Z) /\ Len(over) = m + Len(rest)
      /\ \A i \in 1 .. m + Len(rest) : over[i] = IF i <= m THEN text[i] ELSE rest[i - m]
  BY <1>2, <1>4, ConcatProperties DEF m
<1>6. ASSUME m <= n
      PROVE  Len(over) = n /\ \A i \in 1 .. n : over[i] = IF i <= m THEN text[i] ELSE cells[i]
  <2>1. Len(rest) = n - m /\ n - a + 1 = n - m /\ m + (n - m) = n
    BY <1>1, <1>4, <1>6 DEF a
  <2>2. \A i \in 1 .. n : ~(i <= m) => i - m \in 1 .. n - a + 1 /\ a + (i - m) - 1 = i
    BY <1>1, <1>6 DEF a
  <2>3. \A i \in 1 .. n : ~(i <= m) => rest[i - m] = cells[i]
    BY <1>4, <2>2
  <2>4. Len(over) = n /\ \A i \in 1 .. n : over[i] = IF i <= m THEN text[i] ELSE rest[i - m]
    BY <1>5, <2>1
  <2> QED BY <2>3, <2>4
<1> QED BY <1>5, <1>6 DEF m, n, Covers

(***************************************************************************)
(* A round of run_script.                                                  *)
(***************************************************************************)
Rounds(Z) == [script_idx : Nat \ {0}, commands : Seq(Seq(Z)), current_line : Seq(Z)]
AddCommand(commands, line) ==
    IF process_line(line, TRUE) = <<>> THEN commands ELSE Append(commands, process_line(line, TRUE))
\* What RunLine leaves in the cells of current_line.
Skipped(line) == line = <<>> \/ Head(line) = "#"
Emptied(cells) == [i \in DOMAIN cells |-> Nul]
Left(cells) ==
    IF Skipped(TextOf(cells)) THEN cells
    ELSE IF process_line(TextOf(cells), TRUE) = <<>> THEN PutOver(cells, <<Nul>>) ELSE Emptied(cells)
Fades(cells) == \A i \in DOMAIN cells : cells[i] \in {Nul, " "}

(* A command more is still a list of commands.                             *)
LEMMA AddTyped ==
    ASSUME NEW Z, NEW commands \in Seq(Seq(Z)), NEW line \in Seq(Z)
    PROVE  AddCommand(commands, line) \in Seq(Seq(Z))
<1> DEFINE Y == Seq(Z)
           c == process_line(line, TRUE)
<1>1. c \in Y
  BY KeptIs
<1>2. commands \in Seq(Y)
  OBVIOUS
<1> HIDE DEF Y, c
<1>3. Append(commands, c) \in Seq(Y)
  BY <1>1, <1>2, AppendProperties
<1> QED BY <1>2, <1>3 DEF AddCommand, c, Y

(* Emptied cells are all Nul.                                              *)
LEMMA EmptiedIs ==
    ASSUME NEW Z, Nul \in Z, NEW cells \in Seq(Z)
    PROVE  /\ Emptied(cells) \in Seq(Z) /\ Len(Emptied(cells)) = Len(cells)
           /\ \A i \in 1 .. Len(cells) : Emptied(cells)[i] = Nul
<1>1. Len(cells) \in Nat /\ DOMAIN cells = 1 .. Len(cells)
  BY LenProperties
<1>2. Emptied(cells) \in [1 .. Len(cells) -> Z] /\ \A i \in 1 .. Len(cells) : Emptied(cells)[i] = Nul
  BY <1>1 DEF Emptied
<1>3. Emptied(cells) \in Seq(Z)
  BY <1>1, <1>2, SeqDef
<1>4. DOMAIN Emptied(cells) = 1 .. Len(cells)
  BY <1>2
<1> QED BY <1>1, <1>2, <1>3, <1>4, LenProperties

Fading(cells) ==
    /\ Skipped(TextOf(cells)) => Fades(cells)
    /\ process_line(TextOf(cells), TRUE) = <<>> => Fades(cells)

(* What a round leaves in the cells, which keep their last Nul.            *)
LEMMA LeftIs ==
    ASSUME NEW Z, Nul \in Z, NEW n \in Nat, NEW cells \in Seq(Z), Len(cells) = n + 1, cells[n + 1] = Nul
    PROVE  /\ Left(cells) \in Seq(Z) /\ Len(Left(cells)) = n + 1 /\ Left(cells)[n + 1] = Nul
           /\ Fading(cells) => Fades(Left(cells))
<1> DEFINE one == <<Nul>>
           over == PutOver(cells, one)
<1>1. one \in Seq(Z) /\ Len(one) = 1 /\ one[1] = Nul
  OBVIOUS
<1> HIDE DEF one
<1>2. /\ over \in Seq(Z) /\ Len(over) = n + 1
      /\ \A i \in 1 .. n + 1 : over[i] = Nul \/ over[i] = cells[i]
  <2>5. over = PutOver(cells, one)
    OBVIOUS
  <2> HIDE DEF over
  <2>1. over \in Seq(Z) /\ (Len(one) <= Len(cells) => Covers(over, cells, one))
    BY <1>1, <2>5, PutOverIs
  <2>2. Len(one) <= Len(cells)
    BY <1>1
  <2>3. Len(over) = n + 1 /\ \A i \in 1 .. n + 1 : over[i] = IF i <= 1 THEN one[i] ELSE cells[i]
    BY <1>1, <2>1, <2>2 DEF Covers
  <2>4. \A i \in 1 .. n + 1 : i <= 1 => i = 1
    OBVIOUS
  <2> QED BY <1>1, <2>1, <2>3, <2>4
<1> DEFINE none == Emptied(cells)
<1>3. none \in Seq(Z) /\ Len(none) = n + 1 /\ \A i \in 1 .. n + 1 : none[i] = Nul
  BY EmptiedIs
<1>4. n + 1 \in 1 .. n + 1
  OBVIOUS
<1> HIDE DEF over, none
<1>5. DOMAIN cells = 1 .. n + 1 /\ DOMAIN over = 1 .. n + 1 /\ DOMAIN none = 1 .. n + 1
  BY <1>2, <1>3, LenProperties
<1>6. Fades(none) /\ (Fades(cells) => Fades(over))
  BY <1>2, <1>3, <1>5, Zenon DEF Fades
<1>7. over[n + 1] = Nul /\ none[n + 1] = Nul
  BY <1>2, <1>3, <1>4
<1>8. CASE Skipped(TextOf(cells))
  <2>1. Left(cells) = cells
    BY <1>8 DEF Left
  <2> QED BY <1>8, <2>1, Zenon DEF Fading
<1>9. CASE ~Skipped(TextOf(cells)) /\ process_line(TextOf(cells), TRUE) = <<>>
  <2>1. Left(cells) = over
    BY <1>9, Zenon DEF Left, over, one
  <2> QED BY <1>2, <1>6, <1>7, <1>9, <2>1, Zenon DEF Fading
<1>10. CASE ~Skipped(TextOf(cells)) /\ process_line(TextOf(cells), TRUE) # <<>>
  <2>1. Left(cells) = none
    BY <1>10, Zenon DEF Left, none
  <2> QED BY <1>3, <1>6, <1>7, <2>1, Zenon
<1> QED BY <1>8, <1>9, <1>10, Zenon

(* A round adds the command of its line, if there is one.                  *)
LEMMA RunLineIs ==
    ASSUME NEW Z, Nul \in Z, NEW s \in Rounds(Z)
    PROVE  /\ RunLine(s) \in Rounds(Z) /\ RunLine(s).script_idx = s.script_idx
           /\ RunLine(s).commands = AddCommand(s.commands, TextOf(s.current_line))
           /\ RunLine(s).current_line = Left(s.current_line)
<1> DEFINE cells == s.current_line
           line == TextOf(cells)
           command == process_line(line, TRUE)
           over == PutOver(cells, <<Nul>>)
           none == Emptied(cells)
           added == Append(s.commands, command)
<1>1. cells \in Seq(Z) /\ s.commands \in Seq(Seq(Z)) /\ s.script_idx \in Nat \ {0}
      /\ s = [script_idx |-> s.script_idx, commands |-> s.commands, current_line |-> cells]
  BY DEF Rounds
<1>2. line \in Seq(Z)
  BY <1>1, TextTyped
<1>3. RunLine(s) = CASE line = <<>> \/ Head(line) = "#" -> s
                     [] line # <<>> /\ Head(line) # "#" /\ command = <<>> -> [s EXCEPT !.current_line = over]
                     [] OTHER -> [s EXCEPT !.commands = added, !.current_line = none]
  BY Zenon DEF RunLine, Emptied
<1>4. over \in Seq(Z) /\ none \in Seq(Z)
  <2> DEFINE one == <<Nul>>
  <2>1. one \in Seq(Z)
    OBVIOUS
  <2> HIDE DEF one
  <2>2. PutOver(cells, one) \in Seq(Z)
    BY <1>1, <2>1, PutOverIs
  <2>3. none \in Seq(Z)
    BY <1>1, EmptiedIs
  <2> QED BY <2>2, <2>3 DEF one
<1>5. AddCommand(s.commands, line) \in Seq(Seq(Z))
  BY <1>1, <1>2, AddTyped
<1>6. Skipped(line) => command = <<>>
  BY <1>2, KeptIs DEF Skipped
<1> HIDE DEF cells, line, command, over, none, added
<1>7. CASE Skipped(line)
  <2>1. RunLine(s) = s
    BY <1>3, <1>7 DEF Skipped
  <2>2. AddCommand(s.commands, line) = s.commands
    BY <1>6, <1>7 DEF AddCommand, command
  <2>3. Left(cells) = cells
    BY <1>7 DEF Left, line
  <2> QED BY <2>1, <2>2, <2>3 DEF cells, line
<1>8. CASE ~Skipped(line) /\ command = <<>>
  <2>1. RunLine(s) = [s EXCEPT !.current_line = over]
    BY <1>3, <1>8 DEF Skipped
  <2>2. AddCommand(s.commands, line) = s.commands
    BY <1>8 DEF AddCommand, command
  <2>3. Left(cells) = over
    BY <1>8, Zenon DEF Left, line, command, over
  <2>4. RunLine(s) = [script_idx |-> s.script_idx, commands |-> s.commands, current_line |-> over]
    BY <1>1, <2>1
  <2>5. /\ RunLine(s).script_idx = s.script_idx /\ RunLine(s).commands = s.commands
        /\ RunLine(s).current_line = over /\ RunLine(s) \in Rounds(Z)
    BY <1>1, <1>4, <2>4 DEF Rounds
  <2> QED BY <2>2, <2>3, <2>5 DEF cells, line
<1>9. CASE ~Skipped(line) /\ command # <<>>
  <2>1. RunLine(s) = [s EXCEPT !.commands = added, !.current_line = none]
    BY <1>3, <1>9 DEF Skipped
  <2>2. AddCommand(s.commands, line) = added
    BY <1>9 DEF AddCommand, command, added
  <2>3. Left(cells) = none
    BY <1>9, Zenon DEF Left, line, command, none
  <2>4. RunLine(s) = [script_idx |-> s.script_idx, commands |-> added, current_line |-> none]
    BY <1>1, <2>1
  <2>5. /\ RunLine(s).script_idx = s.script_idx /\ RunLine(s).commands = added
        /\ RunLine(s).current_line = none /\ RunLine(s) \in Rounds(Z)
    BY <1>1, <1>4, <1>5, <2>2, <2>4 DEF Rounds
  <2> QED BY <2>2, <2>3, <2>5 DEF cells, line
<1> QED BY <1>7, <1>8, <1>9

Newlines(text) == { i \in DOMAIN text : text[i] = "\n" }
ReadInto(cells, part, newline) == PutOver(cells, IF newline = 0 THEN part ELSE Append(part, Nul))

(* The next newline, if there is one.                                      *)
LEMMA NewlineIs ==
    ASSUME NEW X, NEW text \in Seq(X), NEW from \in Nat \ {0}
    PROVE  LET later == { i \in Newlines(text) : from <= i } IN
           /\ NextNewline(text, from) \in {0} \cup later
           /\ later # {} => /\ NextNewline(text, from) \in later
                            /\ \A i \in later : NextNewline(text, from) <= i
<1> DEFINE later == { i \in Newlines(text) : from <= i }
           I == { i \in from .. Len(text) : text[i] = "\n" }
<1>1. Len(text) \in Nat /\ DOMAIN text = 1 .. Len(text)
  BY LenProperties
<1>2. NextNewline(text, from) = IF I # {} THEN Min(I) ELSE 0
  BY Zenon DEF NextNewline, SelectInSubSeq
<1>3. \A i : i \in from .. Len(text) <=> i \in 1 .. Len(text) /\ from <= i
  BY <1>1
<1>4. I = later
  BY <1>1, <1>3 DEF Newlines
<1>5. later \in SUBSET Nat
  <2>1. \A i \in 1 .. Len(text) : i \in Nat
    BY <1>1
  <2> QED BY <1>1, <2>1, Zenon DEF Newlines
<1> HIDE DEF I, later
<1>6. later # {} => Min(later) \in later /\ \A i \in later : Min(later) <= i
  BY <1>5, MinOfNat
<1>7. CASE later = {}
  BY <1>2, <1>4, <1>7, Zenon DEF later
<1>8. CASE later # {}
  <2>1. NextNewline(text, from) = Min(later)
    BY <1>2, <1>4, <1>8, Zenon
  <2> QED BY <1>6, <1>8, <2>1, Zenon DEF later
<1> QED BY <1>7, <1>8

(* A line read, field by field.                                            *)
LEMMA ReadLineIs ==
    ASSUME NEW Z, NEW s \in Rounds(Z), NEW text
    PROVE  LET newline == NextNewline(text, s.script_idx) IN
           ReadLine(text, s) =
              [script_idx |-> IF newline = 0 THEN Len(text) + 1 ELSE newline + 1, commands |-> s.commands,
               current_line |-> ReadInto(s.current_line, ReadPart(text, s.script_idx, newline), newline)]
<1> DEFINE newline == NextNewline(text, s.script_idx)
           idx == IF newline = 0 THEN Len(text) + 1 ELSE newline + 1
           cells == ReadInto(s.current_line, ReadPart(text, s.script_idx, newline), newline)
<1>1. s = [script_idx |-> s.script_idx, commands |-> s.commands, current_line |-> s.current_line]
  BY DEF Rounds
<1>2. ReadLine(text, s) = [s EXCEPT !.current_line = cells, !.script_idx = idx]
  BY Zenon DEF ReadLine, ReadInto
<1> HIDE DEF idx, cells
<1>3. ReadLine(text, s) = [script_idx |-> idx, commands |-> s.commands, current_line |-> cells]
  BY <1>1, <1>2
<1> QED BY <1>3, Zenon DEF idx, cells

(* A line read leaves a state of the loop.                                 *)
LEMMA ReadTyped ==
    ASSUME NEW X, NEW text \in Seq(X), NEW s \in Rounds(X \cup {Nul})
    PROVE  ReadLine(text, s) \in Rounds(X \cup {Nul})
<1> DEFINE Z == X \cup {Nul}
           from == s.script_idx
           newline == NextNewline(text, from)
           idx == IF newline = 0 THEN Len(text) + 1 ELSE newline + 1
           part == ReadPart(text, from, newline)
           cells == ReadInto(s.current_line, part, newline)
           to == IF newline = 0 THEN Len(text) ELSE newline - 1
<1>1. from \in Nat \ {0} /\ s.commands \in Seq(Seq(Z)) /\ s.current_line \in Seq(Z)
  BY DEF Rounds
<1>2. text \in Seq(Z) /\ Nul \in Z /\ Len(text) \in Nat /\ DOMAIN text = 1 .. Len(text)
  BY SeqMonotonic, LenProperties
<1> HIDE DEF from, Z
<1>3. newline = 0 \/ newline \in 1 .. Len(text)
  <2>1. newline \in {0} \cup { i \in Newlines(text) : from <= i }
    BY <1>1, NewlineIs
  <2> QED BY <1>2, <2>1 DEF Newlines
<1>4. part = SubSeq(text, from, to)
  BY DEF ReadPart
<1> HIDE DEF newline, part
<1>5. idx \in Nat \ {0} /\ to \in Int /\ to <= Len(text)
  BY <1>2, <1>3
<1> HIDE DEF idx, to
<1>6. part \in Seq(Z)
  BY <1>1, <1>2, <1>4, <1>5, PartOf
<1>7. Append(part, Nul) \in Seq(Z)
  BY <1>2, <1>6, AppendProperties
<1>8. cells \in Seq(Z)
  <2> DEFINE w == IF newline = 0 THEN part ELSE Append(part, Nul)
  <2>1. w \in Seq(Z) /\ cells = PutOver(s.current_line, w)
    BY <1>6, <1>7 DEF ReadInto
  <2> HIDE DEF w, cells
  <2> QED BY <1>1, <2>1, PutOverIs
<1>9. ReadLine(text, s) = [script_idx |-> idx, commands |-> s.commands, current_line |-> cells]
  BY ReadLineIs, Zenon DEF Z, from, newline, idx, part, cells
<1> HIDE DEF cells
<1> QED BY <1>1, <1>5, <1>8, <1>9 DEF Rounds, Z

Start(text) == [script_idx |-> 1, commands |-> <<>>, current_line |-> Nuls(LINE_SIZE)]
Round(text, before, i) ==
    IF Stays(text, before, i) THEN before ELSE RunLine(ReadLine(text, before))
RunOf(text, last) == [commands |-> last.commands, overrun |-> Overruns(text, last.script_idx)]
RunsIn(g, text) ==
    /\ run_script(text) = RunOf(text, g[Len(text) + 1]) /\ g[0] = Start(text)
    /\ \A i \in 1 .. Len(text) + 1 : g[i] = Round(text, g[i - 1], i)

(* A sequence of Nuls.                                                     *)
LEMMA NulsIs ==
    ASSUME NEW Z, Nul \in Z, NEW k \in Nat
    PROVE  Nuls(k) \in Seq(Z) /\ Len(Nuls(k)) = k /\ \A i \in 1 .. k : Nuls(k)[i] = Nul
<1>1. Nuls(k) \in [1 .. k -> Z] /\ DOMAIN Nuls(k) = 1 .. k /\ \A i \in 1 .. k : Nuls(k)[i] = Nul
  BY DEF Nuls
<1>2. Nuls(k) \in Seq(Z)
  BY <1>1, SeqDef
<1> QED BY <1>1, <1>2, LenProperties

(* run_script goes through the rounds of its loop one at a time.           *)
LEMMA RoundsAre ==
    ASSUME NEW X, NEW text \in Seq(X)
    PROVE  \E g \in [0 .. Len(text) + 1 -> Rounds(X \cup {Nul})] : RunsIn(g, text)
<1> DEFINE Z == X \cup {Nul}
           T == Rounds(Z)
           n == Len(text) + 1
           first == Start(text)
           Step == [p \in T \X (1 .. n) |-> Round(text, p[1], p[2])]
           start == [script_idx |-> 1, commands |-> <<>>,
                     current_line |-> [i \in 1 .. LINE_SIZE |-> Nul]]
           Body(h, i) == IF i = 0 THEN start
                         ELSE IF Stays(text, h[i - 1], i) THEN h[i - 1]
                         ELSE RunLine(ReadLine(text, h[i - 1]))
           P(h) == h = [i \in 0 .. Len(text) + 1 |-> Body(h, i)]
           f == CHOOSE h : P(h)
<1>1. n \in Nat
  BY LenProperties
<1>2. first \in T
  <2> DEFINE cells == Nuls(LINE_SIZE)
             Y == Seq(Z)
             none == <<>>
  <2>1. cells \in Seq(Z)
    BY ScriptAssumption, NulsIs
  <2>2. none \in Seq(Y)
    BY EmptySeq
  <2>3. first = [script_idx |-> 1, commands |-> none, current_line |-> cells]
    BY DEF Start
  <2> HIDE DEF cells, Y, none
  <2>4. first \in [script_idx : Nat \ {0}, commands : Seq(Y), current_line : Seq(Z)]
    BY <2>1, <2>2, <2>3
  <2> QED BY <2>4 DEF Rounds, Y
<1>3. ASSUME NEW s \in T, NEW i \in 1 .. n PROVE Round(text, s, i) \in T
  <2> DEFINE r == ReadLine(text, s)
  <2>1. r \in T
    BY ReadTyped
  <2> HIDE DEF r
  <2>2. RunLine(r) \in T
    BY <2>1, RunLineIs
  <2> HIDE DEF T
  <2> QED BY <2>2 DEF Round, r
<1>4. Step \in [T \X (1 .. n) -> T]
  <2> HIDE DEF T, n
  <2> QED BY <1>3
<1>5. \A s \in T, i \in 1 .. n : Step[<<s, i>>] = Round(text, s, i)
  <2> HIDE DEF T, n
  <2> QED OBVIOUS
<1>6. start = first
  BY Zenon DEF Start, Nuls
<1> HIDE DEF start
<1>7. \A h : Body(h, 0) = first
  BY <1>6
<1>8. ASSUME NEW h, NEW i \in 1 .. n PROVE Body(h, i) = Round(text, h[i - 1], i)
  <2>1. i # 0
    BY <1>1
  <2> DEFINE before == h[i - 1]
  <2>2. Body(h, i) = IF Stays(text, before, i) THEN before ELSE RunLine(ReadLine(text, before))
    BY <2>1, Zenon
  <2> QED BY <2>2, Zenon DEF Round
<1> HIDE DEF n, T, Step, Body, first
<1>9. PICK g \in [0 .. n -> T] : Follows(g, n, first, Step)
  BY <1>1, <1>2, <1>4, Recursion, Zenon
<1>10. P(g)
  <2>1. ASSUME NEW i \in 0 .. n PROVE g[i] = Body(g, i)
    <3>1. CASE i = 0
      BY <1>7, <1>9, <3>1 DEF Follows
    <3>2. CASE i \in 1 .. n
      <4>1. i - 1 \in 0 .. n
        BY <1>1, <3>2
      <4>2. g[i] = Round(text, g[i - 1], i)
        BY <1>5, <1>9, <3>2, <4>1 DEF Follows
      <4> QED BY <1>8, <3>2, <4>2
    <3> QED BY <1>1, <3>1, <3>2
  <2> QED BY <2>1 DEF n
<1> HIDE DEF P
<1>11. P(f)
  BY <1>10, Zenon
<1>12. run_script(text) = RunOf(text, f[n])
  BY Zenon DEF run_script, RunOf, P, Body, n, start
<1> HIDE DEF f
<1>13. DOMAIN f = 0 .. n /\ f = [i \in 0 .. n |-> f[i]] /\ \A i \in 0 .. n : f[i] = Body(f, i)
  BY <1>11 DEF P, n
<1>14. f[0] = first /\ \A i \in 1 .. n : f[i] = Round(text, f[i - 1], i)
  BY <1>1, <1>7, <1>8, <1>13
<1>15. f \in [0 .. n -> T]
  <2>1. \A i \in 1 .. n : f[i - 1] \in T => f[i] = Step[<<f[i - 1], i>>]
    BY <1>5, <1>14
  <2> QED BY <1>1, <1>2, <1>4, <1>13, <1>14, <2>1, IsRecursion
<1>16. RunsIn(f, text)
  BY <1>12, <1>14 DEF RunsIn, n, first
<1> QED BY <1>15, <1>16 DEF T, n, Z

Expected(lines) ==
    LET expected[i \in 0 .. Len(lines)] ==
            CASE i = 0 -> <<>>
              [] i > 0 /\ process_line(lines[i], TRUE) # <<>> ->
                    Append(expected[i - 1], process_line(lines[i], TRUE))
              [] OTHER -> expected[i - 1]
    IN  expected
Terminated(text) == text # <<>> /\ Last(text) = "\n"
Commented(text) == \E i \in DOMAIN text : text[i] = "#"

(* What is expected of run_script, in the names used here.                 *)
LEMMA RunsMeans ==
    ASSUME NEW text, LET lines == Pieces(text, Newlines(text)) IN
                     Terminated(text) \/ ~Commented(text) =>
                        run_script(text) = [commands |-> Expected(lines)[Fitting(lines)],
                                            overrun |-> Fitting(lines) < Len(lines)]
    PROVE  RunsItsLines(text)
BY Zenon DEF RunsItsLines, Terminated, Commented, Expected, Newlines

(* The commands expected, one line at a time.                              *)
LEMMA ExpectedAre ==
    ASSUME NEW X, NEW lines \in Seq(Seq(X))
    PROVE  /\ Expected(lines)[0] = <<>>
           /\ \A i \in 1 .. Len(lines) : Expected(lines)[i] = AddCommand(Expected(lines)[i - 1], lines[i])
<1> DEFINE n == Len(lines)
           Y == Seq(X)
           T == Seq(Y)
           none == <<>>
           Step == [p \in T \X (1 .. n) |-> AddCommand(p[1], lines[p[2]])]
           Body(h, i) == CASE i = 0 -> <<>>
                           [] i > 0 /\ process_line(lines[i], TRUE) # <<>> ->
                                 Append(h[i - 1], process_line(lines[i], TRUE))
                           [] OTHER -> h[i - 1]
           P(h) == h = [i \in 0 .. Len(lines) |-> Body(h, i)]
           f == CHOOSE h : P(h)
<1>1. n \in Nat /\ none \in T /\ \A i \in 1 .. n : lines[i] \in Y
  <2> HIDE DEF Y
  <2>1. lines \in Seq(Y)
    BY DEF Y
  <2> QED BY <2>1, EmptySeq, ElementOfSeq, LenProperties
<1>2. ASSUME NEW s \in T, NEW i \in 1 .. n PROVE AddCommand(s, lines[i]) \in T
  BY <1>1, AddTyped
<1>3. Step \in [T \X (1 .. n) -> T]
  <2> HIDE DEF T, n
  <2> QED BY <1>2
<1>4. \A s \in T, i \in 1 .. n : Step[<<s, i>>] = AddCommand(s, lines[i])
  <2> HIDE DEF T, n
  <2> QED OBVIOUS
<1>5. \A h : Body(h, 0) = none
  OBVIOUS
<1>6. ASSUME NEW h, NEW i \in 1 .. n PROVE Body(h, i) = AddCommand(h[i - 1], lines[i])
  <2>1. i # 0 /\ i > 0
    BY <1>1
  <2> DEFINE before == h[i - 1]
             c == process_line(lines[i], TRUE)
             added == Append(before, c)
  <2>2. Body(h, i) = CASE i = 0 -> none [] i > 0 /\ c # none -> added [] OTHER -> before
    BY Zenon
  <2>3. AddCommand(before, lines[i]) = IF c = none THEN before ELSE added
    BY Zenon DEF AddCommand
  <2> HIDE DEF Body, before, c, added, none
  <2>4. Body(h, i) = IF c = none THEN before ELSE added
    BY <2>1, <2>2
  <2> QED BY <2>3, <2>4 DEF before
<1> HIDE DEF n, T, Step, Body, none
<1>7. PICK g \in [0 .. n -> T] : Follows(g, n, none, Step)
  BY <1>1, <1>3, Recursion, Zenon
<1>8. P(g)
  <2>1. ASSUME NEW i \in 0 .. n PROVE g[i] = Body(g, i)
    <3>1. CASE i = 0
      BY <1>5, <1>7, <3>1 DEF Follows
    <3>2. CASE i \in 1 .. n
      <4>1. i - 1 \in 0 .. n
        BY <1>1, <3>2
      <4>2. g[i] = AddCommand(g[i - 1], lines[i])
        BY <1>4, <1>7, <3>2, <4>1 DEF Follows
      <4> QED BY <1>6, <3>2, <4>2
    <3> QED BY <1>1, <3>1, <3>2
  <2> QED BY <2>1 DEF n
<1> HIDE DEF P
<1>9. P(f)
  BY <1>8, Zenon
<1>10. Expected(lines) = f
  BY Zenon DEF Expected, P, Body
<1> HIDE DEF f
<1>11. \A i \in 0 .. n : f[i] = Body(f, i)
  BY <1>9 DEF P, n
<1>12. f[0] = none /\ \A i \in 1 .. n : f[i] = AddCommand(f[i - 1], lines[i])
  BY <1>1, <1>5, <1>6, <1>11
<1> QED BY <1>10, <1>12 DEF n, none

Held(cells, n) == Len(cells) = n + 1 /\ cells[n + 1] = Nul
Mixed(over, cells, part, n) ==
    \A i \in 1 .. n + 1 : (i <= Len(part) /\ over[i] = part[i]) \/ over[i] = Nul \/ over[i] = cells[i]

(* What the cells hold when a line is read over them, to its newline or to *)
(* the end of the file.                                                    *)
Over(cells, part) == PutOver(cells, Append(part, Nul))

(* A line put over the cells with its Nul is what is read from them.       *)
LEMMA LineRead ==
    ASSUME NEW X, Nul \notin X, NEW n \in Nat, NEW cells \in Seq(X \cup {Nul}), Held(cells, n),
           NEW part \in Seq(X), Len(part) <= n
    PROVE  /\ Over(cells, part) \in Seq(X \cup {Nul}) /\ Held(Over(cells, part), n)
           /\ TextOf(Over(cells, part)) = part /\ Mixed(Over(cells, part), cells, part, n)
<1> DEFINE Z == X \cup {Nul}
           m == Len(part)
           w == Append(part, Nul)
           over == Over(cells, part)
<1>1. m \in Nat /\ m <= n /\ cells \in Seq(Z) /\ part \in Seq(Z) /\ Nul \in Z
  BY SeqMonotonic, LenProperties
<1>2. \A i \in 1 .. m : part[i] \in X
  BY ElementOfSeq
<1>3. \A x \in X : x # Nul
  OBVIOUS
<1> HIDE DEF Z
<1>4. w \in Seq(Z) /\ Len(w) = m + 1 /\ w[m + 1] = Nul /\ \A i \in 1 .. m : w[i] = part[i]
  BY <1>1, AppendProperties DEF m
<1> HIDE DEF m, w, over
<1>5. over \in Seq(Z) /\ Covers(over, cells, w)
  <2>1. Len(w) <= Len(cells)
    BY <1>1, <1>4 DEF Held
  <2>2. over = PutOver(cells, w)
    BY DEF over, Over, w
  <2> QED BY <1>1, <1>4, <2>1, <2>2, PutOverIs
<1>6. Len(over) = n + 1 /\ \A i \in 1 .. n + 1 : over[i] = IF i <= m + 1 THEN w[i] ELSE cells[i]
  BY <1>4, <1>5 DEF Covers, Held
<1>7. over[m + 1] = Nul /\ over[n + 1] = Nul /\ \A i \in 1 .. m : over[i] = part[i]
  <2>1. m + 1 \in 1 .. n + 1 /\ n + 1 \in 1 .. n + 1 /\ \A i \in 1 .. m : i \in 1 .. n + 1 /\ i <= m + 1
    BY <1>1
  <2>2. cells[n + 1] = Nul
    BY DEF Held
  <2>3. over[m + 1] = Nul /\ \A i \in 1 .. m : over[i] = part[i]
    BY <1>1, <1>4, <1>6, <2>1
  <2>4. over[n + 1] = Nul
    <3>1. CASE m = n
      BY <2>3, <3>1
    <3>2. CASE m # n
      <4>1. ~(n + 1 <= m + 1)
        BY <1>1, <3>2
      <4> QED BY <1>6, <2>1, <2>2, <4>1
    <3> QED BY <3>1, <3>2
  <2> QED BY <2>3, <2>4
<1>8. \A i \in 1 .. n + 1 : (i <= m /\ over[i] = part[i]) \/ over[i] = Nul \/ over[i] = cells[i]
  <2>1. \A i \in 1 .. n + 1 : i \in 1 .. m \/ i = m + 1 \/ ~(i <= m + 1)
    BY <1>1
  <2>2. \A i \in 1 .. m : i <= m
    BY <1>1
  <2> QED BY <1>6, <1>7, <2>1, <2>2
<1>9. TextOf(over) = part
  <2> DEFINE e == m + 1
             one == 1
  <2>1. e \in 1 .. Len(over) /\ e - 1 = m /\ \A i \in 1 .. m : over[i] # Nul
    <3>1. \A i \in 1 .. m : over[i] # Nul
      BY <1>2, <1>3, <1>7, Zenon
    <3> QED BY <1>1, <1>6, <3>1
  <2>2. TextOf(over) = SubSeq(over, one, m)
    <3>1. over[e] = Nul
      BY <1>7
    <3> HIDE DEF e
    <3>2. TextOf(over) = SubSeq(over, 1, e - 1)
      BY <1>5, <2>1, <3>1, TextOfIs
    <3> QED BY <2>1, <3>2
  <2>3. one \in Nat \ {0} /\ m \in Int /\ m <= Len(over) /\ m <= Len(part) /\ (m - one) + 1 = m
        /\ \A i \in 1 .. m : (one + i) - 1 = i
    <3>1. m <= Len(part)
      BY <1>1 DEF m
    <3> QED BY <1>1, <1>6, <3>1
  <2>4. one = 1
    OBVIOUS
  <2> HIDE DEF one
  <2>5. SubSeq(over, one, m) = SubSeq(part, one, m)
    <3>1. \A i \in 1 .. (m - one) + 1 : over[(one + i) - 1] = part[(one + i) - 1]
      BY <1>7, <2>3
    <3> QED BY <1>1, <1>5, <2>3, <3>1, PartsSame
  <2>6. SubSeq(part, 1, m) = part
    BY SubSeqFull DEF m
  <2> QED BY <2>2, <2>4, <2>5, <2>6
<1>10. Held(over, n)
  BY <1>6, <1>7 DEF Held
<1> QED BY <1>5, <1>8, <1>9, <1>10 DEF Z, m, Mixed, over

(* One put over blank cells without a Nul is followed by blanks only.      *)
LEMMA LastRead ==
    ASSUME NEW X, Nul \notin X, NEW n \in Nat, NEW cells \in Seq(X \cup {Nul}), Held(cells, n), Fades(cells),
           NEW part \in Seq(X), Len(part) <= n
    PROVE  /\ PutOver(cells, part) \in Seq(X \cup {Nul})
           /\ Trimmed(TextOf(PutOver(cells, part))) = Trimmed(part)
           /\ Uncommented(part) => Uncommented(TextOf(PutOver(cells, part)))
<1> DEFINE Z == X \cup {Nul}
           m == Len(part)
           over == PutOver(cells, part)
           N == { i \in 1 .. n + 1 : over[i] = Nul }
           e == Min(N)
           d == e - 1
           one == 1
           v == SubSeq(over, one, d)
<1>1. m \in Nat /\ m <= n /\ cells \in Seq(Z) /\ part \in Seq(Z) /\ Nul \in Z
  BY SeqMonotonic, LenProperties
<1>2. \A i \in 1 .. m : part[i] \in X
  BY ElementOfSeq
<1>3. \A x \in X : x # Nul
  OBVIOUS
<1> HIDE DEF Z, m, over
<1>4. over \in Seq(Z) /\ Covers(over, cells, part)
  <2>1. Len(part) <= Len(cells)
    BY <1>1 DEF Held, m
  <2>2. over = PutOver(cells, part)
    BY DEF over
  <2> QED BY <1>1, <2>1, <2>2, PutOverIs
<1>5. Len(over) = n + 1 /\ \A i \in 1 .. n + 1 : over[i] = IF i <= m THEN part[i] ELSE cells[i]
  BY <1>4 DEF Covers, Held, m
<1>6. over[n + 1] = Nul /\ \A i \in 1 .. m : over[i] = part[i]
  <2>1. n + 1 \in 1 .. n + 1 /\ ~(n + 1 <= m) /\ \A i \in 1 .. m : i \in 1 .. n + 1 /\ i <= m
    BY <1>1
  <2>2. cells[n + 1] = Nul
    BY DEF Held
  <2> QED BY <1>5, <2>1, <2>2
<1>7. N \in SUBSET Nat /\ n + 1 \in N
  <2>1. n + 1 \in 1 .. n + 1 /\ \A i \in 1 .. n + 1 : i \in Nat
    BY <1>1
  <2> QED BY <1>6, <2>1
<1>8. e \in N /\ \A i \in N : e <= i
  <2> HIDE DEF N
  <2> QED BY <1>7, MinOfNat
<1>9. e \in 1 .. n + 1 /\ over[e] = Nul
  BY <1>8
<1>10. \A i \in 1 .. n + 1 : i < e => over[i] # Nul
  <2> SUFFICES ASSUME NEW i \in 1 .. n + 1, i < e, over[i] = Nul PROVE FALSE
    OBVIOUS
  <2>1. i \in N
    OBVIOUS
  <2>2. e <= i
    BY <1>8, <2>1
  <2> HIDE DEF e, N
  <2> QED BY <1>9, <2>2
<1> HIDE DEF e, N
<1>11. d \in Nat /\ d <= n /\ e \in Nat
  BY <1>9
<1>12. m <= d
  <2> SUFFICES ASSUME ~(m <= d) PROVE FALSE
    OBVIOUS
  <2>1. e \in 1 .. m
    BY <1>1, <1>9, <1>11
  <2>2. over[e] = part[e] /\ part[e] \in X
    BY <1>2, <1>6, <2>1
  <2> QED BY <1>3, <1>9, <2>2
<1>13. TextOf(over) = v
  <2>1. e \in 1 .. Len(over) /\ \A i \in 1 .. e - 1 : over[i] # Nul
    <3>1. \A i \in 1 .. e - 1 : i \in 1 .. n + 1 /\ i < e
      BY <1>9
    <3> QED BY <1>5, <1>9, <1>10, <3>1
  <2>2. TextOf(over) = SubSeq(over, 1, e - 1)
    BY <1>4, <1>9, <2>1, TextOfIs
  <2> QED BY <2>2
<1>14. v \in Seq(Z) /\ Len(v) = d /\ \A i \in 1 .. d : v[i] = over[i]
  <2>1. one \in Nat \ {0} /\ d \in Int /\ d <= Len(over) /\ d - one + 1 = d /\ (~(one <= d) => d = 0)
        /\ \A i \in 1 .. d : one + i - 1 = i
    BY <1>5, <1>11
  <2> HIDE DEF one, d
  <2>2. /\ v \in Seq(Z) /\ Len(v) = (IF one <= d THEN d - one + 1 ELSE 0)
        /\ \A i \in 1 .. d - one + 1 : v[i] = over[one + i - 1]
    BY <1>4, <2>1, PartOf
  <2> HIDE DEF v
  <2> QED BY <2>1, <2>2
<1> HIDE DEF v, d
<1>15. \A i \in 1 .. m : v[i] = part[i]
  <2>1. \A i \in 1 .. m : i \in 1 .. d
    BY <1>1, <1>11, <1>12
  <2> QED BY <1>6, <1>14, <2>1
<1>16. \A i \in m + 1 .. d : v[i] = " "
  <2>1. \A i \in m + 1 .. d : i \in 1 .. d /\ i \in 1 .. n + 1 /\ ~(i <= m) /\ i < e
    BY <1>1, <1>11 DEF d
  <2>2. \A i \in m + 1 .. d : v[i] = cells[i] /\ over[i] # Nul /\ over[i] = cells[i]
    BY <1>5, <1>10, <1>14, <2>1
  <2>3. \A i \in 1 .. n + 1 : cells[i] \in {Nul, " "}
    BY <1>1, LenProperties DEF Fades, Held
  <2>4. \A i \in m + 1 .. d : cells[i] \in {Nul, " "} /\ cells[i] # Nul
    BY <2>1, <2>2, <2>3, Zenon
  <2>5. \A i \in m + 1 .. d : cells[i] = " "
    BY <2>4
  <2> QED BY <2>2, <2>5
<1>17. Padded(part, v)
  BY <1>12, <1>14, <1>15, <1>16 DEF Padded, m
<1>18. Trimmed(part) = Trimmed(v)
  BY <1>1, <1>14, <1>17, TrimSame
<1>19. ASSUME Uncommented(part) PROVE Uncommented(v)
  <2>1. DOMAIN v = 1 .. d /\ DOMAIN part = 1 .. m
    BY <1>1, <1>14, LenProperties DEF m
  <2>2. \A i \in 1 .. d : i \in 1 .. m \/ i \in m + 1 .. d
    BY <1>1, <1>11
  <2>3. \A i \in 1 .. d : v[i] # "#"
    <3>1. \A i \in 1 .. m : v[i] # "#"
      BY <1>15, <1>19, <2>1, Zenon DEF Uncommented
    <3>2. " " # "#"
      OBVIOUS
    <3>3. \A i \in m + 1 .. d : v[i] # "#"
      BY <1>16, <3>2, Zenon
    <3> QED BY <2>2, <3>1, <3>3, Zenon
  <2> QED BY <2>1, <2>3, Zenon DEF Uncommented
<1> QED BY <1>4, <1>13, <1>18, <1>19 DEF Z, over

(* A line without a comment of which nothing is left was blank.            *)
LEMMA BlankWhenEmpty ==
    ASSUME NEW X, NEW line \in Seq(X), Uncommented(line), process_line(line, TRUE) = <<>>
    PROVE  \A i \in 1 .. Len(line) : line[i] = " "
<1>1. Trimmed(line) = <<>>
  BY KeptIs
<1>2. Trims(line, Trimmed(line))
  BY TrimmedIs
<1>3. ASSUME NEW a \in 1 .. Len(line), NEW b \in 1 .. Len(line), a <= b, SubSeq(line, a, b) = <<>>
      PROVE  FALSE
  <2> DEFINE part == SubSeq(line, a, b)
  <2>1. a \in Nat \ {0} /\ b \in Int /\ b <= Len(line)
    BY LenProperties
  <2>2. Len(part) = b - a + 1
    BY <1>3, <2>1, PartOf
  <2>3. Len(<<>>) = 0
    OBVIOUS
  <2> HIDE DEF part
  <2>4. b - a + 1 > 0
    BY <1>3, <2>1
  <2>5. part = <<>>
    BY <1>3 DEF part
  <2> QED BY <2>2, <2>3, <2>4, <2>5
<1> QED BY <1>1, <1>2, <1>3 DEF Trims

\* No newline between a and e.
Between(text, a, e) == \A c \in Newlines(text) : ~(a < c /\ c < e)

(* The line that begins behind "at" ends at the next newline or the end.   *)
LEMMA PartIs ==
    ASSUME NEW X, NEW text \in Seq(X), NEW at \in Nat, NEW e \in Nat, at < e, Between(text, at, e),
           e \in Newlines(text) \/ e = Len(text) + 1
    PROVE  ReadPart(text, at + 1, NextNewline(text, at + 1)) = SubSeq(text, at + 1, e - 1)
<1> DEFINE n == Len(text)
           from == at + 1
           later == { i \in Newlines(text) : from <= i }
           found == NextNewline(text, from)
<1>1. n \in Nat /\ DOMAIN text = 1 .. n /\ from \in Nat \ {0}
  BY LenProperties
<1>2. found \in {0} \cup later /\ (later # {} => found \in later /\ \A i \in later : found <= i)
  BY <1>1, NewlineIs
<1>3. \A i \in later : i \in Newlines(text) /\ i \in 1 .. n /\ i \in Nat /\ from <= i
  BY <1>1 DEF Newlines
<1>4. \A i \in later : ~(i < e)
  <2>1. \A i \in later : at < i
    BY <1>3
  <2> QED BY <1>3, <2>1 DEF Between
<1>5. e \in Newlines(text) => e \in later
  BY <1>1
<1> HIDE DEF found, later, n
<1>6. CASE e \in Newlines(text)
  <2>1. found \in later /\ found <= e
    BY <1>2, <1>5, <1>6
  <2>2. found = e
    BY <1>3, <1>4, <2>1
  <2>3. e # 0
    OBVIOUS
  <2>4. ReadPart(text, from, found) = SubSeq(text, from, e - 1)
    BY <2>2, <2>3, Zenon DEF ReadPart
  <2> QED BY <2>4 DEF found
<1>7. CASE e = n + 1
  <2>1. later = {}
    BY <1>1, <1>3, <1>4, <1>7
  <2>2. found = 0
    BY <1>2, <2>1
  <2>3. e - 1 = n
    BY <1>1, <1>7
  <2>4. ReadPart(text, from, found) = SubSeq(text, from, n)
    BY <2>2, Zenon DEF ReadPart, n
  <2> QED BY <2>3, <2>4 DEF found
<1> QED BY <1>6, <1>7 DEF n

(* It overruns the array if it is as long.                                 *)
LEMMA OverrunIs ==
    ASSUME NEW X, NEW text \in Seq(X), NEW at \in Nat, NEW e \in Nat, at < e, Between(text, at, e),
           e \in Newlines(text) \/ e = Len(text) + 1
    PROVE  Overruns(text, at + 1) <=> Len(SubSeq(text, at + 1, e - 1)) >= LINE_SIZE
BY PartIs, Zenon DEF Overruns

(* Behind the end of the file there is nothing to overrun it.              *)
LEMMA EndFits ==
    ASSUME NEW X, NEW text \in Seq(X), NEW from \in Nat, from > Len(text)
    PROVE  ~Overruns(text, from)
<1> DEFINE n == Len(text)
           later == { i \in Newlines(text) : from <= i }
           found == NextNewline(text, from)
           part == SubSeq(text, from, n)
<1>1. n \in Nat /\ DOMAIN text = 1 .. n /\ from \in Nat \ {0} /\ ~(from <= n) /\ n \in Int /\ n <= Len(text)
  BY LenProperties
<1>2. later = {}
  BY <1>1 DEF Newlines
<1>3. found \in {0} \cup later
  BY <1>1, NewlineIs
<1> HIDE DEF found, later
<1>4. found = 0
  BY <1>2, <1>3
<1>5. ReadPart(text, from, found) = part
  BY <1>4, Zenon DEF ReadPart
<1> HIDE DEF n
<1>6. Len(part) = 0
  BY <1>1, PartOf
<1>7. Len(ReadPart(text, from, found)) = 0
  BY <1>5, <1>6
<1>8. ~(0 >= LINE_SIZE)
  BY ScriptAssumption
<1> QED BY <1>7, <1>8, Zenon DEF Overruns, found

(* A round that reads up to a newline runs the line before it.             *)
LEMMA CutRound ==
    ASSUME NEW X, Nul \notin X, NEW text \in Seq(X), NEW s \in Rounds(X \cup {Nul}), NEW a \in Nat,
           NEW e \in Newlines(text), a < e, Between(text, a, e), s.script_idx = a + 1,
           NEW k \in Nat, Held(s.current_line, k), Len(SubSeq(text, a + 1, e - 1)) <= k
    PROVE  LET r == RunLine(ReadLine(text, s)) IN
           /\ r.script_idx = e + 1 /\ Held(r.current_line, k)
           /\ r.commands = AddCommand(s.commands, SubSeq(text, a + 1, e - 1))
           /\ ~Commented(text) /\ Fades(s.current_line) => Fades(r.current_line)
<1> DEFINE Z == X \cup {Nul}
           n == Len(text)
           from == a + 1
           d == e - 1
           part == SubSeq(text, from, d)
           cells == s.current_line
           over == Over(cells, part)
           q == ReadLine(text, s)
           r == RunLine(q)
<1>1. n \in Nat /\ e \in 1 .. n /\ e \in Nat /\ DOMAIN text = 1 .. n
  <2>1. n \in Nat /\ DOMAIN text = 1 .. n
    BY LenProperties
  <2> QED BY <2>1 DEF Newlines
<1>2. cells \in Seq(Z) /\ Nul \in Z /\ Held(cells, k)
  BY DEF Rounds
<1> HIDE DEF n
<1>3. from \in Nat \ {0} /\ d \in Int /\ d <= n /\ d - from + 1 = d - a /\ (~(from <= d) => d - a = 0)
      /\ d - a \in Nat /\ \A i \in 1 .. d - a : from + i - 1 = a + i /\ a + i \in 1 .. n
  BY <1>1
<1>4. NextNewline(text, s.script_idx) = e
  <2> DEFINE later == { i \in Newlines(text) : from <= i }
             found == NextNewline(text, from)
  <2>1. e \in later
    BY <1>1
  <2>2. found \in later /\ found <= e
    BY <1>3, <2>1, NewlineIs
  <2> HIDE DEF found
  <2>3. found \in Newlines(text) /\ from <= found
    BY <2>2
  <2>4. found \in Nat
    <3>1. found \in 1 .. n
      BY <1>1, <2>3 DEF Newlines
    <3> QED BY <1>1, <3>1
  <2>5. ~(a < found /\ found < e)
    BY <2>3 DEF Between
  <2> HIDE DEF later
  <2>6. found = e
    BY <1>1, <2>2, <2>3, <2>4, <2>5
  <2> QED BY <2>6 DEF found
<1>5. part \in Seq(X) /\ Len(part) = d - a /\ \A i \in 1 .. d - a : part[i] = text[a + i]
  <2>1. d <= Len(text)
    BY <1>3 DEF n
  <2> HIDE DEF from, d
  <2>2. part \in Seq(X) /\ Len(part) = (IF from <= d THEN d - from + 1 ELSE 0)
        /\ \A i \in 1 .. d - from + 1 : part[i] = text[from + i - 1]
    BY <1>3, <2>1, PartOf
  <2> HIDE DEF part
  <2> QED BY <1>3, <2>2
<1>6. q = [script_idx |-> e + 1, commands |-> s.commands, current_line |-> over]
  <2>1. e # 0
    BY <1>1
  <2>2. ReadPart(text, s.script_idx, e) = part
    BY <2>1 DEF ReadPart
  <2>3. ReadInto(cells, part, e) = over
    BY <2>1, Zenon DEF ReadInto, over, Over
  <2>4. q = [script_idx |-> IF e = 0 THEN Len(text) + 1 ELSE e + 1, commands |-> s.commands,
             current_line |-> ReadInto(cells, ReadPart(text, s.script_idx, e), e)]
    BY <1>4, ReadLineIs, Zenon
  <2> HIDE DEF part, over, q
  <2> QED BY <2>1, <2>2, <2>3, <2>4
<1>15. Len(part) <= k
  OBVIOUS
<1> HIDE DEF part
<1>7. over \in Seq(Z) /\ Held(over, k) /\ TextOf(over) = part /\ Mixed(over, cells, part, k)
  <2>1. Len(part) <= k /\ k \in Nat
    BY <1>15
  <2>2. Nul \notin X /\ cells \in Seq(X \cup {Nul}) /\ Held(cells, k) /\ part \in Seq(X)
    BY <1>2, <1>5
  <2> HIDE DEF Z, q, r, d, from, over, cells
  <2>3. /\ Over(cells, part) \in Seq(X \cup {Nul}) /\ Held(Over(cells, part), k)
        /\ TextOf(Over(cells, part)) = part /\ Mixed(Over(cells, part), cells, part, k)
    BY <2>1, <2>2, LineRead
  <2> QED BY <2>3 DEF Z, over
<1>8. q \in Rounds(Z)
  BY ReadTyped
<1>9. q.script_idx = e + 1 /\ q.commands = s.commands /\ q.current_line = over
  <2> HIDE DEF over, q
  <2> QED BY <1>6
<1> HIDE DEF over, q, Z, cells
<1>10. /\ r.script_idx = q.script_idx /\ r.commands = AddCommand(q.commands, TextOf(q.current_line))
       /\ r.current_line = Left(q.current_line)
  BY <1>2, <1>8, RunLineIs
<1> HIDE DEF r
<1>11. r.script_idx = e + 1 /\ r.commands = AddCommand(s.commands, part) /\ r.current_line = Left(over)
  BY <1>7, <1>9, <1>10
<1>12. Len(Left(over)) = k + 1 /\ Left(over)[k + 1] = Nul /\ (Fading(over) => Fades(Left(over)))
  <2>1. over \in Seq(Z) /\ k \in Nat /\ Nul \in Z /\ Len(over) = k + 1 /\ over[k + 1] = Nul
    BY <1>2, <1>7 DEF Held
  <2> QED BY <2>1, LeftIs
<1>13. ASSUME ~Commented(text), Fades(cells) PROVE Fades(Left(over))
  <2>1. Uncommented(part)
    <3>1. DOMAIN part = 1 .. d - a
      BY <1>5, LenProperties
    <3>2. \A i \in 1 .. n : text[i] # "#"
      BY <1>1, <1>13 DEF Commented
    <3>3. \A i \in 1 .. d - a : a + i \in 1 .. n
      BY <1>3
    <3> QED BY <1>5, <3>1, <3>2, <3>3, Zenon DEF Uncommented
  <2>2. process_line(part, TRUE) = <<>> => Fades(over)
    <3> SUFFICES ASSUME process_line(part, TRUE) = <<>> PROVE Fades(over)
      OBVIOUS
    <3>1. \A i \in 1 .. Len(part) : part[i] = " "
      BY <1>5, <2>1, BlankWhenEmpty
    <3>2. DOMAIN over = 1 .. k + 1 /\ DOMAIN cells = 1 .. k + 1
      BY <1>2, <1>7, LenProperties DEF Held
    <3>3. \A i \in 1 .. k + 1 : i <= Len(part) => i \in 1 .. Len(part)
      BY <1>1, <1>3, <1>5
    <3>4. \A i \in 1 .. k + 1 : over[i] = " " \/ over[i] = Nul \/ over[i] = cells[i]
      BY <1>7, <3>1, <3>3, Zenon DEF Mixed
    <3>5. \A i \in 1 .. k + 1 : cells[i] \in {Nul, " "}
      BY <1>13, <3>2, Zenon DEF Fades
    <3>6. \A i \in 1 .. k + 1 : over[i] \in {Nul, " "}
      BY <3>4, <3>5
    <3> QED BY <3>2, <3>6, Zenon DEF Fades
  <2>3. Skipped(part) => process_line(part, TRUE) = <<>>
    BY <1>5, KeptIs DEF Skipped
  <2>4. Fading(over)
    BY <1>7, <2>2, <2>3, Zenon DEF Fading
  <2> QED BY <1>12, <2>4
<1>14. Held(Left(over), k)
  BY <1>12 DEF Held
<1> QED BY <1>11, <1>13, <1>14 DEF r, q, part, from, d, n, cells

(* A round that reads up to the end of the file runs the last line.        *)
LEMMA EndRound ==
    ASSUME NEW X, Nul \notin X, NEW text \in Seq(X), NEW s \in Rounds(X \cup {Nul}), NEW a \in 0 .. Len(text),
           Between(text, a, Len(text) + 1), s.script_idx = a + 1,
           NEW k \in Nat, Held(s.current_line, k), Len(SubSeq(text, a + 1, Len(text))) <= k,
           Fades(s.current_line), ~Commented(text)
    PROVE  LET r == RunLine(ReadLine(text, s)) IN
           /\ r.script_idx = Len(text) + 1
           /\ r.commands = AddCommand(s.commands, SubSeq(text, a + 1, Len(text)))
<1> DEFINE Z == X \cup {Nul}
           n == Len(text)
           from == a + 1
           part == SubSeq(text, from, n)
           cells == s.current_line
           over == PutOver(cells, part)
           q == ReadLine(text, s)
           r == RunLine(q)
<1>1. n \in Nat /\ DOMAIN text = 1 .. n
  BY LenProperties
<1>2. cells \in Seq(Z) /\ Nul \in Z /\ Held(cells, k)
  BY DEF Rounds
<1> HIDE DEF n
<1>3. from \in Nat \ {0} /\ a \in Nat /\ n \in Int /\ n - from + 1 = n - a /\ (~(from <= n) => n - a = 0)
      /\ n - a \in Nat /\ n - a <= n /\ \A i \in 1 .. n - a : from + i - 1 = a + i /\ a + i \in 1 .. n
  <2>1. a \in 0 .. n
    BY DEF n
  <2> QED BY <1>1, <2>1
<1>4. NextNewline(text, s.script_idx) = 0
  <2> DEFINE later == { i \in Newlines(text) : from <= i }
             found == NextNewline(text, from)
  <2>1. found \in {0} \cup later
    BY <1>3, NewlineIs
  <2>2. \A i \in later : i \in 1 .. n /\ a < i /\ i < n + 1
    BY <1>1, <1>3 DEF Newlines
  <2>3. later = {}
    BY <2>2 DEF Between, n
  <2> HIDE DEF found, later
  <2>4. found = 0
    BY <2>1, <2>3
  <2> QED BY <2>4 DEF found
<1>5. part \in Seq(X) /\ Len(part) = n - a /\ \A i \in 1 .. n - a : part[i] = text[a + i]
  <2>1. n <= Len(text)
    BY <1>1 DEF n
  <2> HIDE DEF from
  <2>2. part \in Seq(X) /\ Len(part) = (IF from <= n THEN n - from + 1 ELSE 0)
        /\ \A i \in 1 .. n - from + 1 : part[i] = text[from + i - 1]
    BY <1>3, <2>1, PartOf
  <2> HIDE DEF part
  <2> QED BY <1>3, <2>2
<1>6. q = [script_idx |-> n + 1, commands |-> s.commands, current_line |-> over]
  <2> DEFINE nil == 0
  <2>1. NextNewline(text, s.script_idx) = nil /\ nil = 0
    BY <1>4
  <2> HIDE DEF nil
  <2>2. ReadPart(text, s.script_idx, nil) = part
    BY <2>1 DEF ReadPart, n
  <2>3. ReadInto(cells, part, nil) = over
    BY <2>1, Zenon DEF ReadInto, over
  <2>4. q = [script_idx |-> IF nil = 0 THEN n + 1 ELSE nil + 1, commands |-> s.commands,
             current_line |-> ReadInto(cells, ReadPart(text, s.script_idx, nil), nil)]
    BY <2>1, ReadLineIs, Zenon DEF n
  <2> HIDE DEF part, over, q
  <2> QED BY <2>1, <2>2, <2>3, <2>4
<1>14. Len(part) <= k
  BY DEF n
<1> HIDE DEF part
<1>7. Uncommented(part)
  <2>1. DOMAIN part = 1 .. n - a
    BY <1>5, LenProperties
  <2>2. \A i \in 1 .. n : text[i] # "#"
    BY <1>1 DEF Commented
  <2>3. \A i \in 1 .. n - a : a + i \in 1 .. n
    BY <1>3
  <2> QED BY <1>5, <2>1, <2>2, <2>3, Zenon DEF Uncommented
<1>8. over \in Seq(Z) /\ Trimmed(TextOf(over)) = Trimmed(part) /\ Uncommented(TextOf(over))
  <2>1. Len(part) <= k /\ k \in Nat
    BY <1>14
  <2>2. Nul \notin X /\ cells \in Seq(X \cup {Nul}) /\ Held(cells, k) /\ Fades(cells) /\ part \in Seq(X)
    BY <1>2, <1>5
  <2> HIDE DEF Z, q, r, from, over, cells
  <2>3. /\ PutOver(cells, part) \in Seq(X \cup {Nul})
        /\ Trimmed(TextOf(PutOver(cells, part))) = Trimmed(part)
        /\ Uncommented(part) => Uncommented(TextOf(PutOver(cells, part)))
    BY <2>1, <2>2, LastRead
  <2> QED BY <1>7, <2>3 DEF Z, over
<1>9. q \in Rounds(Z)
  BY ReadTyped
<1>10. q.script_idx = n + 1 /\ q.commands = s.commands /\ q.current_line = over
  <2> HIDE DEF over, q
  <2> QED BY <1>6
<1> HIDE DEF over, q, Z, cells
<1>11. r.script_idx = q.script_idx /\ r.commands = AddCommand(q.commands, TextOf(q.current_line))
  BY <1>2, <1>9, RunLineIs
<1> HIDE DEF r
<1>12. process_line(TextOf(over), TRUE) = process_line(part, TRUE)
  <2> DEFINE u == TextOf(over)
  <2>1. u \in Seq(Z)
    BY <1>8, TextTyped
  <2>2. process_line(u, TRUE) = Trimmed(Kept(u)) /\ (Uncommented(u) => Kept(u) = u)
    BY <2>1, KeptIs
  <2>3. process_line(part, TRUE) = Trimmed(Kept(part)) /\ (Uncommented(part) => Kept(part) = part)
    BY <1>5, KeptIs
  <2> HIDE DEF u
  <2>4. Trimmed(u) = Trimmed(part) /\ Uncommented(u)
    BY <1>8 DEF u
  <2>5. process_line(u, TRUE) = process_line(part, TRUE)
    BY <1>7, <2>2, <2>3, <2>4, Zenon
  <2> QED BY <2>5 DEF u
<1>13. AddCommand(s.commands, TextOf(over)) = AddCommand(s.commands, part)
  BY <1>12, Zenon DEF AddCommand
<1> QED BY <1>10, <1>11, <1>13 DEF r, q, part, from, n

\* After a line that ends at a newline.
ReadUp(r, text, at) ==
    /\ r.script_idx = at + 1 /\ Held(r.current_line, LINE_SIZE - 1)
    /\ ~Commented(text) => Fades(r.current_line)

(* At the start nothing was read or run.                                   *)
LEMMA StartIs ==
    ASSUME NEW X, NEW text \in Seq(X)
    PROVE  ReadUp(Start(text), text, 0) /\ Start(text).commands = <<>>
<1> DEFINE Z == X \cup {Nul}
           k == LINE_SIZE
           cells == Nuls(k)
           none == <<>>
<1>1. k \in Nat /\ k \in 1 .. k /\ Nul \in Z /\ (k - 1) + 1 = k
  BY ScriptAssumption
<1>2. Start(text) = [script_idx |-> 1, commands |-> none, current_line |-> cells]
  BY DEF Start
<1> HIDE DEF Z
<1>3. cells \in Seq(Z) /\ Len(cells) = k /\ \A i \in 1 .. k : cells[i] = Nul
  BY <1>1, NulsIs
<1>4. DOMAIN cells = 1 .. k
  BY <1>1, <1>3, LenProperties
<1> HIDE DEF cells, none
<1>5. Held(cells, k - 1)
  BY <1>1, <1>3 DEF Held
<1>6. Fades(cells)
  BY <1>3, <1>4, Zenon DEF Fades
<1>7. Start(text).script_idx = 0 + 1 /\ Start(text).commands = none /\ Start(text).current_line = cells
  BY <1>2
<1> QED BY <1>5, <1>6, <1>7 DEF ReadUp, none

(* An empty last line adds no command.                                     *)
LEMMA AddNothing ==
    ASSUME NEW commands, NEW X, NEW text \in Seq(X)
    PROVE  AddCommand(commands, SubSeq(text, Len(text) + 1, Len(text))) = commands
<1> DEFINE n == Len(text)
           a == n + 1
           part == SubSeq(text, a, n)
<1>1. n \in Int /\ a \in Nat \ {0} /\ ~(a <= n) /\ n <= Len(text)
  BY LenProperties
<1> HIDE DEF n, a
<1>2. part \in Seq(X) /\ Len(part) = IF a <= n THEN n - a + 1 ELSE 0
  BY <1>1, PartOf
<1> HIDE DEF part
<1>3. part = <<>>
  BY <1>1, <1>2, EmptySeq
<1>4. process_line(part, TRUE) = <<>>
  BY <1>2, <1>3, KeptIs
<1>5. AddCommand(commands, part) = commands
  BY <1>4, Zenon DEF AddCommand
<1> QED BY <1>5 DEF part, a, n

\* The round that reads a line, from "at" to its end.
ReadsTo(r, s, text, at, e) ==
    /\ e \in Newlines(text) \/ e = Len(text) + 1
       => r.commands = AddCommand(s.commands, SubSeq(text, at + 1, e - 1))
    /\ e \in Newlines(text) => ReadUp(r, text, e)
    /\ e = Len(text) + 1 => r.script_idx > Len(text)

(* A round reads up to the next newline or the end, and runs what is       *)
(* between.                                                                *)
LEMMA NextRound ==
    ASSUME NEW X, Nul \notin X, NEW text \in Seq(X), Terminated(text) \/ ~Commented(text),
           NEW s \in Rounds(X \cup {Nul}), NEW i \in Nat \ {0}, NEW at \in Nat, ReadUp(s, text, at),
           ~Overruns(text, at + 1),
           NEW e \in Nat, at < e, Between(text, at, e), (i > 1 /\ at \in Newlines(text)) \/ (i = 1 /\ at = 0)
    PROVE  /\ Round(text, s, i) \in Rounds(X \cup {Nul})
           /\ ReadsTo(Round(text, s, i), s, text, at, e)
<1> DEFINE n == Len(text)
           q == ReadLine(text, s)
           r == RunLine(q)
           t == Round(text, s, i)
<1>1. n \in Nat /\ DOMAIN text = 1 .. n
  BY LenProperties
<1>2. s.script_idx = at + 1 /\ Held(s.current_line, LINE_SIZE - 1) /\ (~Commented(text) => Fades(s.current_line))
  BY DEF ReadUp
<1>3. t = IF i > 1 /\ at + 1 > n THEN s ELSE r
  BY <1>2, Zenon DEF Round, Stays, n, q, r
<1>4. r \in Rounds(X \cup {Nul})
  <2>1. q \in Rounds(X \cup {Nul})
    BY ReadTyped
  <2> HIDE DEF q
  <2>2. Nul \in X \cup {Nul}
    OBVIOUS
  <2> QED BY <2>1, <2>2, RunLineIs
<1>5. t \in Rounds(X \cup {Nul})
  BY <1>3, <1>4
<1>6. \A c \in Newlines(text) : c \in 1 .. n
  BY <1>1 DEF Newlines
<1> HIDE DEF n, t
<1>7. at \in 0 .. n
  <2>1. CASE at \in Newlines(text)
    <3>1. at \in 1 .. n
      BY <1>6, <2>1
    <3> QED BY <1>1, <3>1
  <2>2. CASE at = 0
    BY <1>1, <2>2
  <2> QED BY <2>1, <2>2
<1>10. ASSUME e \in Newlines(text) \/ e = n + 1
       PROVE  LINE_SIZE - 1 \in Nat /\ Len(SubSeq(text, at + 1, e - 1)) <= LINE_SIZE - 1
  <2> DEFINE part == SubSeq(text, at + 1, e - 1)
             from == at + 1
             d == e - 1
  <2>1. ~(Len(part) >= LINE_SIZE)
    BY <1>10, OverrunIs DEF n
  <2>2. from \in Nat \ {0} /\ d \in Int /\ d <= Len(text)
    BY <1>1, <1>6, <1>10 DEF n
  <2> HIDE DEF from, d
  <2>3. Len(SubSeq(text, from, d)) \in Int
    <3>1. Len(SubSeq(text, from, d)) = IF from <= d THEN d - from + 1 ELSE 0
      BY <2>2, PartOf
    <3> QED BY <2>2, <3>1
  <2>4. Len(part) \in Int
    BY <2>3 DEF from, d
  <2> HIDE DEF part
  <2> QED BY <2>1, <2>4, ScriptAssumption DEF part
<1>8. ASSUME e \in Newlines(text)
      PROVE  ReadUp(t, text, e) /\ t.commands = AddCommand(s.commands, SubSeq(text, at + 1, e - 1))
  <2>1. e \in 1 .. n
    BY <1>6, <1>8
  <2>2. ~(at + 1 > n)
    BY <1>1, <2>1
  <2>3. t = r
    BY <1>3, <2>2
  <2>4. /\ r.script_idx = e + 1 /\ Held(r.current_line, LINE_SIZE - 1)
        /\ r.commands = AddCommand(s.commands, SubSeq(text, at + 1, e - 1))
        /\ ~Commented(text) /\ Fades(s.current_line) => Fades(r.current_line)
    BY <1>2, <1>8, <1>10, CutRound DEF n
  <2> HIDE DEF r
  <2>5. ReadUp(r, text, e)
    BY <1>2, <2>4, Zenon DEF ReadUp
  <2> QED BY <2>3, <2>4, <2>5
<1>9. ASSUME e = n + 1
      PROVE  t.script_idx > n /\ t.commands = AddCommand(s.commands, SubSeq(text, at + 1, e - 1))
  <2>1. SubSeq(text, at + 1, e - 1) = SubSeq(text, at + 1, n)
    <3>1. e - 1 = n
      BY <1>1, <1>9
    <3> QED BY <3>1
  <2>2. CASE i > 1 /\ at + 1 > n
    <3>1. t = s /\ at = n
      BY <1>1, <1>3, <1>7, <2>2
    <3>2. AddCommand(s.commands, SubSeq(text, n + 1, n)) = s.commands
      BY AddNothing DEF n
    <3>3. t.script_idx > n
      BY <1>2, <2>2, <3>1
    <3> QED BY <2>1, <3>1, <3>2, <3>3
  <2>3. CASE ~(i > 1 /\ at + 1 > n)
    <3>1. t = r
      BY <1>3, <2>3
    <3>2. ~Terminated(text)
      <4> SUFFICES ASSUME Terminated(text) PROVE FALSE
        OBVIOUS
      <4>1. n > 0
        <5>1. n # 0
          BY EmptySeq DEF Terminated, n
        <5> QED BY <1>1, <5>1
      <4>2. text[n] = "\n"
        BY DEF Terminated, Last, n
      <4>3. n \in 1 .. n
        BY <1>1, <4>1
      <4>4. n \in Newlines(text)
        BY <1>1, <4>2, <4>3 DEF Newlines
      <4>5. ~(at < n /\ n < e)
        BY <4>4 DEF Between
      <4>6. at = n
        BY <1>1, <1>7, <1>9, <4>5
      <4>7. i > 1 /\ at + 1 > n
        BY <1>1, <4>1, <4>6
      <4> QED BY <2>3, <4>7
    <3>3. Between(text, at, n + 1)
      BY <1>9
    <3>4. /\ r.script_idx = n + 1
          /\ r.commands = AddCommand(s.commands, SubSeq(text, at + 1, n))
      <4>1. LINE_SIZE - 1 \in Nat /\ Len(SubSeq(text, at + 1, Len(text))) <= LINE_SIZE - 1
        BY <1>9, <1>10, <2>1 DEF n
      <4>2. ~Commented(text)
        BY <3>2
      <4> QED BY <1>2, <1>7, <3>3, <4>1, <4>2, EndRound DEF n
    <3> HIDE DEF r
    <3>5. r.script_idx > n
      BY <1>1, <3>4
    <3> QED BY <2>1, <3>1, <3>4, <3>5
  <2> QED BY <2>2, <2>3
<1> QED BY <1>5, <1>8, <1>9 DEF t, n, ReadsTo

(* The lines before the first that is too long.                            *)
LEMMA FittingIs ==
    ASSUME NEW X, NEW lines \in Seq(Seq(X))
    PROVE  /\ Fitting(lines) \in 0 .. Len(lines)
           /\ \A j \in 1 .. Fitting(lines) : ~(Len(lines[j]) >= LINE_SIZE)
           /\ Fitting(lines) < Len(lines) => Len(lines[Fitting(lines) + 1]) >= LINE_SIZE
<1> DEFINE M == Len(lines)
           Long == { j \in 1 .. M : Len(lines[j]) >= LINE_SIZE }
           P(i) == /\ \A j \in 1 .. i : Len(lines[j]) < LINE_SIZE
                   /\ i < M => Len(lines[i + 1]) >= LINE_SIZE
<1>1. M \in Nat /\ \A j \in 1 .. M : Len(lines[j]) \in Nat
  <2> DEFINE Y == Seq(X)
  <2>1. lines \in Seq(Y)
    OBVIOUS
  <2>2. \A y \in Y : Len(y) \in Nat
    BY LenProperties
  <2> HIDE DEF Y
  <2> QED BY <2>1, <2>2, ElementOfSeq, LenProperties
<1>2. LINE_SIZE \in Int
  BY ScriptAssumption
<1>3. Fitting(lines) = CHOOSE i \in 0 .. M : P(i)
  BY DEF Fitting
<1> HIDE DEF M
<1>4. \E i \in 0 .. M : P(i)
  <2>1. CASE Long = {}
    <3>1. M \in 0 .. M /\ ~(M < M)
      BY <1>1
    <3>2. \A j \in 1 .. M : Len(lines[j]) < LINE_SIZE
      BY <1>1, <1>2, <2>1
    <3> QED BY <3>1, <3>2
  <2>2. CASE Long # {}
    <3> DEFINE f == Min(Long)
    <3>1. Long \in SUBSET Nat
      BY <1>1
    <3>2. f \in Long /\ \A j \in Long : f <= j
      <4> HIDE DEF Long
      <4> QED BY <2>2, <3>1, MinOfNat
    <3> HIDE DEF f
    <3>3. f \in 1 .. M /\ Len(lines[f]) >= LINE_SIZE
      BY <3>2
    <3>4. f - 1 \in 0 .. M /\ (f - 1) + 1 = f
      BY <1>1, <3>3
    <3>5. \A j \in 1 .. f - 1 : j \in 1 .. M /\ ~(f <= j)
      BY <1>1, <3>3
    <3>6. \A j \in 1 .. f - 1 : j \notin Long
      BY <3>2, <3>5
    <3>7. \A j \in 1 .. f - 1 : Len(lines[j]) < LINE_SIZE
      BY <1>1, <1>2, <3>5, <3>6
    <3> QED BY <3>3, <3>4, <3>7
  <2> QED BY <2>1, <2>2
<1> HIDE DEF P
<1>5. Fitting(lines) \in 0 .. M /\ P(Fitting(lines))
  BY <1>3, <1>4, Zenon
<1> DEFINE F == Fitting(lines)
<1> HIDE DEF F
<1>6. F \in 0 .. M /\ P(F)
  BY <1>5 DEF F
<1>7. \A j \in 1 .. F : ~(Len(lines[j]) >= LINE_SIZE)
  <2>1. \A j \in 1 .. F : j \in 1 .. M
    BY <1>1, <1>6
  <2>2. \A j \in 1 .. F : Len(lines[j]) < LINE_SIZE
    BY <1>6 DEF P
  <2> QED BY <1>1, <1>2, <2>1, <2>2
<1> QED BY <1>6, <1>7 DEF F, M, P

(* The commands run are the ones expected.                                 *)
LEMMA ScriptRuns ==
    ASSUME NEW X, Nul \notin X, NEW text \in Seq(X), Terminated(text) \/ ~Commented(text)
    PROVE  LET lines == Pieces(text, Newlines(text)) IN
           run_script(text) = [commands |-> Expected(lines)[Fitting(lines)],
                               overrun |-> Fitting(lines) < Len(lines)]
<1> DEFINE n == Len(text)
           T == Rounds(X \cup {Nul})
           lines == Pieces(text, Newlines(text))
           M == Len(lines)
           F == Fitting(lines)
           E == Expected(lines)
<1>1. n \in Nat /\ Newlines(text) \in SUBSET (1 .. n)
  BY LenProperties DEF Newlines
<1>2. lines \in SomePieces(X) /\ \E b \in [0 .. M -> Nat] : CutAt(text, Newlines(text), lines, b, n)
  BY <1>1, PiecesCut
<1> HIDE DEF lines
<1>3. PICK b \in [0 .. M -> Nat] : CutAt(text, Newlines(text), lines, b, n)
  BY <1>2
<1>4. M \in Nat \ {0} /\ lines \in Seq(Seq(X))
  <2> DEFINE Y == Seq(X)
  <2>1. lines \in Seq(Y) /\ lines # <<>>
    BY <1>2 DEF SomePieces
  <2> HIDE DEF Y
  <2>2. M \in Nat \ {0}
    BY <2>1, EmptySeq, LenProperties
  <2> QED BY <2>1, <2>2 DEF Y
<1>5. PICK g \in [0 .. n + 1 -> T] : RunsIn(g, text)
  BY RoundsAre
<1>6. E[0] = <<>> /\ \A i \in 1 .. M : E[i] = AddCommand(E[i - 1], lines[i])
  BY <1>4, ExpectedAre
<1>7. /\ b[0] = 0 /\ b[M] = n + 1 /\ \A k \in 1 .. M - 1 : b[k] \in Newlines(text)
      /\ \A k \in 1 .. M : b[k - 1] < b[k]
  BY <1>3 DEF CutAt
<1>8. \A k \in 1 .. M : lines[k] = SubSeq(text, b[k - 1] + 1, b[k] - 1) /\ Between(text, b[k - 1], b[k])
  BY <1>3, Zenon DEF CutAt, Between
<1>9. \A k \in 0 .. M : b[k] \in Nat
  OBVIOUS
<1>10. run_script(text) = RunOf(text, g[n + 1]) /\ g[0] = Start(text)
       /\ \A i \in 1 .. n + 1 : g[i] = Round(text, g[i - 1], i)
  BY <1>5 DEF RunsIn
<1>11. \A i \in 0 .. n + 1 : g[i] \in T
  OBVIOUS
<1>23. /\ F \in 0 .. M /\ \A k \in 1 .. F : ~(Len(lines[k]) >= LINE_SIZE)
       /\ F < M => Len(lines[F + 1]) >= LINE_SIZE
  BY <1>4, FittingIs
<1>29. F \in 0 .. M
  BY <1>23, Zenon
<1> HIDE DEF M, E, n, T, F
<1>28. F \in Nat /\ F <= M
  BY <1>4, <1>29
<1>12. M <= n + 1
  <2> DEFINE S == { k \in 0 .. M : k <= b[k] }
  <2>1. 0 \in S
    BY <1>4, <1>7
  <2>2. ASSUME NEW k \in 0 .. M - 1, k \in S PROVE k + 1 \in S
    <3>1. k \in 0 .. M /\ k + 1 \in 0 .. M /\ k + 1 \in 1 .. M /\ (k + 1) - 1 = k
      BY <1>4
    <3> DEFINE c == b[k]
               d == b[k + 1]
    <3>2. c < d /\ c \in Nat /\ d \in Nat /\ k <= c
      BY <1>7, <1>9, <2>2, <3>1
    <3> HIDE DEF c, d
    <3>3. k + 1 <= d
      BY <3>1, <3>2
    <3> QED BY <3>1, <3>3 DEF d
  <2> HIDE DEF S
  <2>3. 0 .. M \subseteq S
    BY <1>4, <2>1, <2>2, Reached
  <2>4. M \in 0 .. M
    BY <1>4
  <2>5. M <= b[M]
    BY <2>3, <2>4 DEF S
  <2> QED BY <1>7, <2>5
<1> DEFINE Upto(k) == /\ k < M => ReadUp(g[k], text, b[k])
                      /\ k = M => g[k].script_idx > n
                      /\ g[k].commands = E[k]
           S == { k \in 0 .. F : Upto(k) }
<1>13. 0 \in S
  <2>1. 0 < M /\ 0 # M /\ 0 \in 0 .. F
    BY <1>4, <1>23
  <2>2. ReadUp(Start(text), text, 0) /\ Start(text).commands = <<>>
    BY StartIs
  <2>3. ReadUp(g[0], text, b[0]) /\ g[0].commands = E[0]
    BY <1>6, <1>7, <1>10, <2>2, Zenon
  <2>4. Upto(0)
    BY <2>1, <2>3
  <2> QED BY <2>1, <2>4
<1>14. ASSUME NEW k \in 0 .. F - 1, k \in S PROVE k + 1 \in S
  <2> DEFINE i == k + 1
             at == b[k]
             e == b[i]
  <2>1. /\ k \in 0 .. M /\ i \in 0 .. M /\ i \in 1 .. M /\ i - 1 = k /\ k < M /\ i \in Nat \ {0}
        /\ k \in 0 .. n + 1 /\ i \in 1 .. n + 1 /\ (k = 0 \/ (k \in 1 .. M - 1 /\ i > 1))
        /\ (i = M \/ i \in 1 .. M - 1) /\ (i < M => i \in 1 .. M - 1) /\ i \in 0 .. F /\ i \in 1 .. F
    BY <1>1, <1>4, <1>12, <1>23
  <2>2. ReadUp(g[k], text, at) /\ g[k].commands = E[k] /\ g[k] \in T
    BY <1>11, <1>14, <2>1
  <2>3. at \in Nat /\ e \in Nat /\ at < e /\ Between(text, at, e) /\ lines[i] = SubSeq(text, at + 1, e - 1)
    BY <1>7, <1>8, <1>9, <2>1
  <2>4. (i > 1 /\ at \in Newlines(text)) \/ (i = 1 /\ at = 0)
    <3>1. CASE k = 0
      BY <1>7, <3>1
    <3>2. CASE k \in 1 .. M - 1 /\ i > 1
      BY <1>7, <3>2
    <3> QED BY <2>1, <3>1, <3>2
  <2>5. g[i] = Round(text, g[k], i) /\ E[i] = AddCommand(E[k], lines[i])
    BY <1>6, <1>10, <2>1
  <2>6. i \in 1 .. M - 1 => e \in Newlines(text)
    BY <1>7
  <2>7. i = M => e = Len(text) + 1
    BY <1>7 DEF n
  <2>14. ~(Len(lines[i]) >= LINE_SIZE)
    BY <1>23, <2>1
  <2> HIDE DEF i, at, e
  <2>15. ~Overruns(text, at + 1)
    <3>1. e \in Newlines(text) \/ e = Len(text) + 1
      BY <2>1, <2>6, <2>7
    <3>2. Overruns(text, at + 1) <=> Len(SubSeq(text, at + 1, e - 1)) >= LINE_SIZE
      BY <2>3, <3>1, OverrunIs
    <3>3. ~(Len(SubSeq(text, at + 1, e - 1)) >= LINE_SIZE)
      BY <2>3, <2>14, Zenon
    <3> QED BY <3>2, <3>3, Zenon
  <2> DEFINE s == g[k]
  <2>8. ReadUp(s, text, at) /\ s \in Rounds(X \cup {Nul}) /\ g[i] = Round(text, s, i)
    BY <2>2, <2>5 DEF T
  <2> HIDE DEF s
  <2>9. ReadsTo(Round(text, s, i), s, text, at, e)
    <3> HIDE DEF Upto, S
    <3>1. /\ s \in Rounds(X \cup {Nul}) /\ i \in Nat \ {0} /\ at \in Nat /\ ReadUp(s, text, at) /\ e \in Nat
          /\ at < e /\ Between(text, at, e) /\ ((i > 1 /\ at \in Newlines(text)) \/ (i = 1 /\ at = 0))
      BY <2>1, <2>3, <2>4, <2>8
    <3> QED BY <2>15, <3>1, NextRound
  <2>10. g[i].commands = E[i]
    <3>1. g[i].commands = AddCommand(s.commands, lines[i])
      BY <2>1, <2>3, <2>6, <2>7, <2>8, <2>9 DEF ReadsTo
    <3> QED BY <2>2, <2>5, <3>1 DEF s
  <2>11. i < M => ReadUp(g[i], text, e)
    BY <2>1, <2>6, <2>8, <2>9 DEF ReadsTo
  <2>12. i = M => g[i].script_idx > n
    BY <2>7, <2>8, <2>9 DEF n, ReadsTo
  <2>13. Upto(i)
    BY <2>10, <2>11, <2>12 DEF e
  <2> HIDE DEF Upto
  <2> QED BY <2>1, <2>13 DEF i
<1> HIDE DEF S
<1>15. 0 .. F \subseteq S
  BY <1>13, <1>14, <1>28, Reached
<1>16. /\ F < M => ReadUp(g[F], text, b[F])
       /\ F = M => g[F].script_idx > n
       /\ g[F].commands = E[F]
  <2>1. F \in 0 .. F
    BY <1>23
  <2> QED BY <1>15, <2>1 DEF S
<1> HIDE DEF Upto
<1>24. F \in 0 .. n + 1 /\ (F < M \/ F = M) /\ ~(F < M /\ F = M) /\ F \in Nat
  <2>1. M \in Int /\ n \in Int
    BY <1>1, <1>4
  <2> QED BY <1>12, <1>28, <2>1
<1>25. F < M => Overruns(text, g[F].script_idx)
  <2> SUFFICES ASSUME F < M PROVE Overruns(text, g[F].script_idx)
    OBVIOUS
  <2> DEFINE i == F + 1
             at == b[F]
             e == b[i]
  <2>1. F \in 0 .. M /\ i \in 0 .. M /\ i \in 1 .. M /\ i - 1 = F /\ (i = M \/ i \in 1 .. M - 1)
    BY <1>4, <1>23
  <2>2. g[F].script_idx = at + 1
    BY <1>16 DEF ReadUp
  <2>3. at \in Nat /\ e \in Nat /\ at < e /\ Between(text, at, e) /\ lines[i] = SubSeq(text, at + 1, e - 1)
    BY <1>7, <1>8, <1>9, <2>1
  <2>4. e \in Newlines(text) \/ e = Len(text) + 1
    BY <1>7, <2>1 DEF n
  <2>5. Len(lines[i]) >= LINE_SIZE
    BY <1>23
  <2> HIDE DEF i, at, e
  <2>6. Overruns(text, at + 1) <=> Len(SubSeq(text, at + 1, e - 1)) >= LINE_SIZE
    BY <2>3, <2>4, OverrunIs
  <2>7. Len(SubSeq(text, at + 1, e - 1)) >= LINE_SIZE
    BY <2>3, <2>5, Zenon
  <2> QED BY <2>2, <2>6, <2>7, Zenon
<1>26. F = M => ~Overruns(text, g[F].script_idx)
  <2> SUFFICES ASSUME F = M PROVE ~Overruns(text, g[F].script_idx)
    OBVIOUS
  <2> DEFINE from == g[F].script_idx
  <2>1. from \in Nat
    BY <1>11, <1>24 DEF T, Rounds
  <2>2. from > Len(text)
    BY <1>16 DEF n
  <2> HIDE DEF from
  <2>3. ~Overruns(text, from)
    BY <2>1, <2>2, EndFits
  <2> QED BY <2>3 DEF from
<1>27. ASSUME NEW i \in 1 .. n + 1, i > F PROVE Stays(text, g[F], i)
  <2>1. CASE F < M
    BY <1>25, <2>1, Zenon DEF Stays
  <2>2. CASE F = M
    <3>1. i > 1 /\ g[F].script_idx > Len(text)
      BY <1>1, <1>4, <1>16, <1>27, <2>2 DEF n
    <3> QED BY <3>1, Zenon DEF Stays
  <2> QED BY <1>24, <2>1, <2>2
<1> DEFINE l == (n + 1) - F
           R == { j \in 0 .. l : g[F + j] = g[F] }
<1>17. l \in Nat /\ F + l = n + 1 /\ l \in 0 .. l
  BY <1>1, <1>24
<1>18. 0 \in R
  <2>1. F + 0 = F /\ 0 \in 0 .. l
    BY <1>17, <1>24
  <2> QED BY <2>1
<1>19. ASSUME NEW j \in 0 .. l - 1, j \in R PROVE j + 1 \in R
  <2>1. j + 1 \in 0 .. l /\ F + (j + 1) \in 1 .. n + 1 /\ F + (j + 1) > F /\ (F + (j + 1)) - 1 = F + j
    BY <1>1, <1>17, <1>24
  <2> DEFINE i == F + (j + 1)
  <2> HIDE DEF l
  <2>2. g[F + j] = g[F]
    BY <1>19
  <2>3. g[i] = Round(text, g[i - 1], i)
    BY <1>10, <2>1
  <2>4. i - 1 = F + j /\ i > F /\ i \in 1 .. n + 1
    BY <2>1
  <2> HIDE DEF i
  <2>5. g[i] = Round(text, g[F], i)
    BY <2>2, <2>3, <2>4
  <2>6. Stays(text, g[F], i)
    BY <1>27, <2>4
  <2>7. g[i] = g[F]
    BY <2>5, <2>6, Zenon DEF Round
  <2> QED BY <2>1, <2>7 DEF i
<1> HIDE DEF R
<1>20. l \in R
  BY <1>17, <1>18, <1>19, Reached
<1>21. g[n + 1] = g[F]
  BY <1>17, <1>20 DEF R
<1>22. run_script(text) = [commands |-> E[F], overrun |-> F < M]
  <2>1. run_script(text) = [commands |-> E[F], overrun |-> Overruns(text, g[F].script_idx)]
    BY <1>10, <1>16, <1>21, Zenon DEF RunOf
  <2>2. Overruns(text, g[F].script_idx) = (F < M)
    <3> DEFINE x == g[F].script_idx
    <3>1. Overruns(text, x) <=> F < M
      BY <1>24, <1>25, <1>26
    <3>2. Overruns(text, x) \in BOOLEAN /\ (F < M) \in BOOLEAN
      BY DEF Overruns
    <3> HIDE DEF x
    <3>3. Overruns(text, x) = (F < M)
      BY <3>1, <3>2
    <3> QED BY <3>3 DEF x
  <2> QED BY <2>1, <2>2, Zenon
<1> QED BY <1>22 DEF E, M, F, lines

(***************************************************************************)
(* What is typed and read                                                  *)
(***************************************************************************)
TextTypes ==
    /\ kind \in {"start", "line", "script", "keys", "completion"}
    /\ kind = "start" => input = <<>>
    /\ kind = "line" => input \in Seq(LineChars)
    /\ kind = "script" => input \in Seq(ScriptChars)
    /\ kind = "keys" => input \in Seq(Keys)
    /\ kind = "completion" => \E command \in Words, cwd, path \in Listings, extra_size \in ExtraSizes :
                                 input = <<command, cwd, path, extra_size>>

(* An input that grows keeps its kind.                                     *)
LEMMA Adds ==
    ASSUME NEW as, NEW chars, NEW n, AddTo(as, chars, n), kind = "start" => input = <<>>,
           kind = as => input \in Seq(chars)
    PROVE  kind' = as /\ input' \in Seq(chars)
<1>1. input \in Seq(chars)
  BY EmptySeq DEF AddTo
<1>2. PICK c \in chars : input' = Append(input, c)
  BY DEF AddTo
<1> QED BY <1>1, <1>2, AppendProperties DEF AddTo

(* Inputs are made of their characters.                                    *)
LEMMA TextTypesStay == TextSpec => []TextTypes
<1>1. TextInit => TextTypes
  BY DEF TextInit, TextTypes
<1>2. TextTypes /\ [TextNext]_textVars => TextTypes'
  <2> SUFFICES ASSUME TextTypes, [TextNext]_textVars PROVE TextTypes'
    OBVIOUS
  <2>1. CASE GrowLine
    <3>1. kind' = "line" /\ input' \in Seq(LineChars)
      BY <2>1, Adds DEF GrowLine, TextTypes
    <3> QED BY <3>1 DEF TextTypes
  <2>2. CASE GrowScript
    <3>1. kind' = "script" /\ input' \in Seq(ScriptChars)
      BY <2>2, Adds DEF GrowScript, TextTypes
    <3> QED BY <3>1 DEF TextTypes
  <2>3. CASE PressKey
    <3>1. kind' = "keys" /\ input' \in Seq(Keys)
      BY <2>3, Adds DEF PressKey, TextTypes
    <3> QED BY <3>1 DEF TextTypes
  <2>4. CASE ChooseCompletion
    BY <2>4 DEF ChooseCompletion, TextTypes
  <2>5. CASE UNCHANGED textVars
    BY <2>5 DEF textVars, TextTypes
  <2> QED BY <2>1, <2>2, <2>3, <2>4, <2>5 DEF TextNext
<1> QED BY <1>1, <1>2, PTL DEF TextSpec

(* EditorShowsWhatItTakes: what Enter hands over is what the user saw, the *)
(* buffer of main.c is never overrun, and the end of the input ends the    *)
(* shell, for keys of any number without a slip.                           *)
THEOREM EditorStaysHonest == TextSpec => []EditorShowsWhatItTakes
<1>1. TextTypes => EditorShowsWhatItTakes
  <2>1. IsDirectory(Cwd) /\ IsDirectory(Path)
    BY TextAssumption
  <2> QED BY <2>1, EditorShows DEF TextTypes, EditorShowsWhatItTakes
<1> QED BY <1>1, TextTypesStay, PTL

(* TabCompletesCommon: what tab_complete adds is all that the candidates   *)
(* of one directory share and that fits, whatever is in the directories.   *)
THEOREM CompletionAddsCommon == TextSpec => []TabCompletesCommon
<1>1. TextTypes => TabCompletesCommon
  <2> SUFFICES ASSUME TextTypes, kind = "completion"
               PROVE  CompletesCommon(input[1], input[2], input[3], input[4])
    BY DEF TabCompletesCommon
  <2>1. PICK command \in Words, cwd \in Listings, path \in Listings, extra_size \in ExtraSizes :
           input = <<command, cwd, path, extra_size>>
    BY DEF TextTypes
  <2>2. IsDirectory(cwd) /\ IsDirectory(path) /\ extra_size \in Nat
    BY TextAssumption
  <2>3. command \in Seq(TypedChars)
    <3>1. NameChars \cup {"/"} \subseteq TypedChars
      BY DEF TypedChars, AddedChars, CandidateChars
    <3>2. command \in Seq(NameChars \cup {"/"})
      BY TextAssumption
    <3> QED BY <3>1, <3>2, SeqMonotonic
  <2>4. CompletesCommon(command, cwd, path, extra_size)
    BY <2>2, <2>3, CompletionIsCommon
  <2>5. input[1] = command /\ input[2] = cwd /\ input[3] = path /\ input[4] = extra_size
    BY <2>1
  <2> QED BY <2>4, <2>5
<1> QED BY <1>1, TextTypesStay, PTL

(* LineScannersAgree: whatever the line, get_command_type cuts at the      *)
(* first operator that is_quote_open takes to be outside quotes, if every  *)
(* backslash stands before a quote, main.c cuts exactly there, and the     *)
(* words of argv_split are the line again, none cut inside quotes.         *)
THEOREM ScannersStayTogether == TextSpec => []LineScannersAgree
<1>1. TextTypes => LineScannersAgree
  <2> SUFFICES ASSUME TextTypes, kind = "line" PROVE ScannersAgree(input)
    BY DEF LineScannersAgree
  <2>1. input \in Seq(LineChars) /\ Nul \notin LineChars
    BY TextAssumption DEF TextTypes
  <2> QED BY <2>1, LineAgrees
<1> QED BY <1>1, TextTypesStay, PTL

(* ScriptRunsItsLines: whatever the script, run_script runs each of its    *)
(* lines once and in order, without comments and the blanks around it, up  *)
(* to the first line that does not fit in its array, which it overruns     *)
(* there and only there; if the last line ends with a newline or there is  *)
(* no comment.                                                             *)
THEOREM ScriptsRunInOrder == TextSpec => []ScriptRunsItsLines
<1>1. TextTypes => ScriptRunsItsLines
  <2> SUFFICES ASSUME TextTypes, kind = "script" PROVE RunsItsLines(input)
    BY DEF ScriptRunsItsLines
  <2>1. input \in Seq(ScriptChars) /\ Nul \notin ScriptChars
    BY TextAssumption DEF TextTypes
  <2> DEFINE lines == Pieces(input, Newlines(input))
  <2>2. Terminated(input) \/ ~Commented(input) =>
           run_script(input) = [commands |-> Expected(lines)[Fitting(lines)],
                                overrun |-> Fitting(lines) < Len(lines)]
    BY <2>1, ScriptRuns
  <2> QED BY <2>2, RunsMeans
<1> QED BY <1>1, TextTypesStay, PTL
=============================================================================
