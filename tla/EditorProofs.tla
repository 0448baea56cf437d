---------------------------- MODULE EditorProofs ----------------------------
(***************************************************************************)
(* The proofs about foxe.  A key that types or erases is spread over       *)
(* several steps with arrow keys between them; what stays true throughout  *)
(* is said of the text that is seen, in which a character that is half     *)
(* inserted or half erased is left out.  The counters of the status line   *)
(* are unsigned, so all that is said of them holds modulo their width.     *)
(***************************************************************************)
EXTENDS Editor, FiniteSetTheorems, FunctionTheorems, SequenceTheorems, WellFoundedInduction, TLAPS

(***************************************************************************)
(* Arithmetic of the unsigned counters                                     *)
(***************************************************************************)
LEMMA ModRange == ASSUME NEW a \in Int, NEW w \in Nat \ {0} PROVE a % w \in 0 .. w - 1
OBVIOUS

LEMMA SmallMultiple ==
    ASSUME NEW w \in Nat \ {0}, NEW t \in Int, w * t < w, w * t > 0 - w
    PROVE  t = 0
<1>1. CASE t >= 1
  <2>1. w * t = w + w * (t - 1)
    OBVIOUS
  <2>2. w * (t - 1) >= 0
    BY <1>1
  <2> QED BY <2>1, <2>2
<1>2. CASE t <= 0 - 1
  <2>1. w * t = w * (t + 1) - w
    OBVIOUS
  <2>2. w * (t + 1) <= 0
    BY <1>2
  <2> QED BY <2>1, <2>2
<1> QED BY <1>1, <1>2

LEMMA DivMod ==
    ASSUME NEW a \in Int, NEW w \in Nat \ {0}
    PROVE  a \div w \in Int /\ a % w \in Int /\ a = w * (a \div w) + (a % w)
OBVIOUS

LEMMA ModUnique ==
    ASSUME NEW w \in Nat \ {0}, NEW q \in Int, NEW r \in 0 .. w - 1
    PROVE  (w * q + r) % w = r
<1> DEFINE a == w * q + r
<1>1. a \in Int /\ a \div w \in Int /\ a % w \in 0 .. w - 1 /\ a = w * (a \div w) + (a % w)
  BY DivMod, ModRange
<1>2. w * (a \div w - q) = r - (a % w)
  BY <1>1
<1>3. a \div w - q = 0
  BY <1>1, <1>2, SmallMultiple
<1> QED BY <1>1, <1>2, <1>3

LEMMA ModAdd ==
    ASSUME NEW a \in Int, NEW k \in Int, NEW w \in Nat \ {0}
    PROVE  ((a % w) + k) % w = (a + k) % w
<1> DEFINE b == (a % w) + k
           q == (b \div w) + (a \div w)
<1>1. a % w \in Int /\ a \div w \in Int /\ a = w * (a \div w) + (a % w)
  BY DivMod
<1>2. b \in Int
  BY <1>1
<1> HIDE DEF b
<1>3. b \div w \in Int /\ b % w \in 0 .. w - 1 /\ b = w * (b \div w) + (b % w)
  BY <1>2, DivMod, ModRange
<1>4. a + k = w * q + (b % w) /\ q \in Int
  BY <1>1, <1>2, <1>3 DEF b
<1> QED BY <1>3, <1>4, ModUnique DEF b

(***************************************************************************)
(* The first and the last of a bounded set of positions                    *)
(***************************************************************************)
LEMMA MinOfNat ==
    ASSUME NEW S \in SUBSET Nat, S # {}
    PROVE  Min(S) \in S /\ \A i \in S : Min(S) <= i
<1> DEFINE T == { 0 .. i : i \in S }
<1>1. T \subseteq FiniteSubsetsOf(Nat) /\ T # {}
  <2>1. \A i \in S : 0 .. i \in SUBSET Nat /\ IsFiniteSet(0 .. i)
    BY FS_Interval
  <2> QED BY <2>1 DEF FiniteSubsetsOf
<1>2. PICK t \in T : \A u \in T : <<u, t>> \notin StrictSubsetOrdering(Nat)
  BY <1>1, WFMin, FS_StrictSubsetOrderingWellFounded
<1>3. PICK m \in S : t = 0 .. m
  BY <1>2
<1>4. \A i \in S : m <= i
  <2> SUFFICES ASSUME NEW i \in S, i < m PROVE FALSE
    OBVIOUS
  <2>1. 0 .. i \in T
    OBVIOUS
  <2>2. 0 .. i \subseteq t /\ m \in t /\ m \notin 0 .. i /\ t \in SUBSET Nat
    BY <1>3
  <2>3. <<0 .. i, t>> \in StrictSubsetOrdering(Nat)
    BY <2>2 DEF StrictSubsetOrdering
  <2> QED BY <1>2, <2>1, <2>3
<1> QED BY <1>4 DEF Min

LEMMA MaxOfBounded ==
    ASSUME NEW S \in SUBSET Nat, S # {}, NEW n \in Nat, \A i \in S : i <= n
    PROVE  Max(S) \in S /\ \A i \in S : Max(S) >= i
<1> DEFINE T == { n - i : i \in S }
<1>1. T \in SUBSET Nat /\ T # {}
  <2>1. \A i \in S : n - i \in Nat
    OBVIOUS
  <2>2. PICK i \in S : TRUE
    OBVIOUS
  <2>3. n - i \in T
    OBVIOUS
  <2>4. \A j \in T : j \in Nat
    BY <2>1
  <2> HIDE DEF T
  <2> QED BY <2>3, <2>4
<1>2. Min(T) \in T /\ \A j \in T : Min(T) <= j
  BY <1>1, MinOfNat
<1>3. PICK m \in S : Min(T) = n - m
  BY <1>2
<1>4. \A i \in S : m >= i
  <2> HIDE DEF T
  <2> SUFFICES ASSUME NEW i \in S PROVE m >= i
    OBVIOUS
  <2>1. n - i \in T
    BY DEF T
  <2> QED BY <1>2, <1>3, <2>1
<1> QED BY <1>4 DEF Max

(***************************************************************************)
(* Counting newlines                                                       *)
(***************************************************************************)
LEMMA CountNat ==
    ASSUME NEW s \in Seq(Chars)
    PROVE  /\ NewlinesIn(s) \in Nat
           /\ IsFiniteSet({ i \in DOMAIN s : s[i] = Newline })
<1>1. DOMAIN s = 1 .. Len(s) /\ Len(s) \in Nat
  BY LenProperties
<1>2. IsFiniteSet(1 .. Len(s))
  BY <1>1, FS_Interval
<1>3. IsFiniteSet({ i \in DOMAIN s : s[i] = Newline })
  BY <1>1, <1>2, FS_Subset
<1> QED BY <1>3, FS_CardinalityType DEF NewlinesIn, Quantify

LEMMA CountEmpty == NewlinesIn(<<>>) = 0
<1>1. { i \in DOMAIN <<>> : <<>>[i] = Newline } = {}
  OBVIOUS
<1> QED BY <1>1, FS_EmptySet DEF NewlinesIn, Quantify

LEMMA CountOne ==
    ASSUME NEW c \in Chars
    PROVE  NewlinesIn(<<c>>) = IF c = Newline THEN 1 ELSE 0
<1>1. CASE c = Newline
  <2>1. { i \in DOMAIN <<c>> : <<c>>[i] = Newline } = {1}
    BY <1>1
  <2> QED BY <1>1, <2>1, FS_Singleton DEF NewlinesIn, Quantify
<1>2. CASE c # Newline
  <2>1. { i \in DOMAIN <<c>> : <<c>>[i] = Newline } = {}
    BY <1>2
  <2> QED BY <1>2, <2>1, FS_EmptySet DEF NewlinesIn, Quantify
<1> QED BY <1>1, <1>2

LEMMA CountConcat ==
    ASSUME NEW s \in Seq(Chars), NEW t \in Seq(Chars)
    PROVE  NewlinesIn(s \o t) = NewlinesIn(s) + NewlinesIn(t)
<1> DEFINE In(x) == { i \in DOMAIN x : x[i] = Newline }
           Moved == { Len(s) + j : j \in In(t) }
           shift == [j \in In(t) |-> Len(s) + j]
<1>1. /\ s \o t \in Seq(Chars) /\ Len(s) \in Nat /\ Len(t) \in Nat
      /\ DOMAIN s = 1 .. Len(s) /\ DOMAIN t = 1 .. Len(t)
      /\ DOMAIN (s \o t) = 1 .. Len(s) + Len(t)
      /\ \A i \in 1 .. Len(s) + Len(t) : (s \o t)[i] = IF i <= Len(s) THEN s[i] ELSE t[i - Len(s)]
  BY LenProperties, ConcatProperties
<1>2. IsFiniteSet(In(s)) /\ IsFiniteSet(In(t))
  BY CountNat
<1>3. In(s \o t) = In(s) \cup Moved
  <2>1. \A i \in In(s \o t) : i \in In(s) \cup Moved
    <3> SUFFICES ASSUME NEW i \in In(s \o t), i \notin In(s) PROVE i \in Moved
      OBVIOUS
    <3>1. i > Len(s) /\ i - Len(s) \in In(t)
      BY <1>1
    <3> QED BY <3>1, <1>1
  <2>2. In(s) \subseteq In(s \o t)
    BY <1>1
  <2>3. Moved \subseteq In(s \o t)
    BY <1>1
  <2> QED BY <2>1, <2>2, <2>3
<1>4. In(s) \cap Moved = {}
  BY <1>1
<1>5. IsFiniteSet(Moved) /\ Cardinality(Moved) = Cardinality(In(t))
  <2>1. shift \in Bijection(In(t), Moved)
    <3>1. shift \in [In(t) -> Moved]
      OBVIOUS
    <3>2. \A a, b \in In(t) : shift[a] = shift[b] => a = b
      BY <1>1
    <3>3. \A m \in Moved : \E j \in In(t) : shift[j] = m
      OBVIOUS
    <3> QED BY <3>1, <3>2, <3>3 DEF Bijection, Injection, Surjection, IsInjective
  <2> QED BY <2>1, <1>2, FS_Bijection DEF ExistsBijection
<1>6. Cardinality(In(s \o t)) = Cardinality(In(s)) + Cardinality(In(t)) - Cardinality({})
  <2> HIDE DEF In, Moved
  <2> QED BY <1>2, <1>3, <1>4, <1>5, FS_Union
<1>7. Cardinality(In(s)) \in Nat /\ Cardinality(In(t)) \in Nat
  BY <1>2, FS_CardinalityType
<1>8. Cardinality(In(s \o t)) = Cardinality(In(s)) + Cardinality(In(t))
  <2> HIDE DEF In
  <2> QED BY <1>6, <1>7, FS_EmptySet
<1> QED BY <1>8 DEF NewlinesIn, Quantify

(***************************************************************************)
(* Pieces of a text                                                        *)
(***************************************************************************)
LEMMA PieceFacts ==
    ASSUME NEW s \in Seq(Chars), NEW a \in 1 .. Len(s) + 1, NEW b \in 0 .. Len(s)
    PROVE  /\ SubSeq(s, a, b) \in Seq(Chars)
           /\ Len(SubSeq(s, a, b)) = IF a <= b THEN b - a + 1 ELSE 0
           /\ \A i \in 1 .. b - a + 1 : SubSeq(s, a, b)[i] = s[a + i - 1]
<1>1. Len(s) \in Nat /\ \A i \in a .. b : s[i] \in Chars
  BY LenProperties, ElementOfSeq
<1> QED BY <1>1, SubSeqProperties

LEMMA FrontFacts ==
    ASSUME NEW s \in Seq(Chars)
    PROVE  /\ Front(s) \in Seq(Chars)
           /\ Len(Front(s)) = IF s = <<>> THEN 0 ELSE Len(s) - 1
           /\ s # <<>> => Len(s) \in Nat \ {0}
           /\ \A i \in 1 .. Len(s) - 1 : Front(s)[i] = s[i]
<1>1. Len(s) \in Nat /\ (s # <<>> => Len(s) # 0)
  BY LenProperties, EmptySeq
<1>2. CASE s = <<>>
  <2>1. Front(s) = <<>>
    BY <1>2, SubSeqEmpty, EmptySeq DEF Front
  <2> QED BY <1>2, <2>1, EmptySeq
<1>3. CASE s # <<>>
  <2>1. 1 \in 1 .. Len(s) + 1 /\ Len(s) - 1 \in 0 .. Len(s) /\ Len(s) \in Nat \ {0}
    BY <1>1, <1>3
  <2> DEFINE n == Len(s) - 1
  <2>2. n \in 0 .. Len(s) /\ n >= 0 /\ n \in Int /\ n - 1 + 1 = n
    BY <2>1
  <2> HIDE DEF n
  <2>3. /\ SubSeq(s, 1, n) \in Seq(Chars) /\ Len(SubSeq(s, 1, n)) = IF 1 <= n THEN n - 1 + 1 ELSE 0
        /\ \A i \in 1 .. n - 1 + 1 : SubSeq(s, 1, n)[i] = s[1 + i - 1]
    BY <2>1, <2>2, PieceFacts
  <2>4. Len(SubSeq(s, 1, n)) = n /\ \A i \in 1 .. n : SubSeq(s, 1, n)[i] = s[i]
    BY <2>2, <2>3
  <2> QED BY <1>3, <2>1, <2>3, <2>4 DEF Front, n
<1> QED BY <1>2, <1>3

\* The two calls of memmove keep the length.
LEMMA ShiftFacts ==
    ASSUME text \in Seq(Chars), cursor \in Nat, Shift
    PROVE  /\ text' \in Seq(Chars) /\ Len(text') = Len(text)
           /\ \A i \in 1 .. Len(text) : text'[i] = IF i <= cursor + 1 THEN text[i] ELSE text[i - 1]
<1> DEFINE Moved(i) == IF i <= cursor + 1 THEN text[i] ELSE text[i - 1]
<1>1. Len(text) \in Nat /\ DOMAIN text = 1 .. Len(text)
  BY LenProperties
<1>2. \A i \in 1 .. Len(text) : Moved(i) \in Chars
  <2> SUFFICES ASSUME NEW i \in 1 .. Len(text) PROVE Moved(i) \in Chars
    OBVIOUS
  <2>1. text[i] \in Chars
    BY <1>1, ElementOfSeq
  <2>2. i > cursor + 1 => text[i - 1] \in Chars
    <3>1. i > cursor + 1 => i - 1 \in 1 .. Len(text)
      BY <1>1
    <3> QED BY <3>1, ElementOfSeq
  <2> QED BY <1>1, <2>1, <2>2
<1>3. text' = [i \in 1 .. Len(text) |-> Moved(i)]
  BY <1>1 DEF Shift
<1> HIDE DEF Moved
<1>4. text' \in Seq(Chars) /\ Len(text') = Len(text) /\ \A i \in 1 .. Len(text) : text'[i] = Moved(i)
  BY <1>1, <1>2, <1>3, IsASeq
<1> QED BY <1>4 DEF Moved

LEMMA UnshiftFacts ==
    ASSUME text \in Seq(Chars), cursor \in Nat, cursor # 0, Unshift
    PROVE  /\ text' \in Seq(Chars) /\ Len(text') = Len(text)
           /\ \A i \in 1 .. Len(text) :
                text'[i] = IF i < cursor \/ i = Len(text) THEN text[i] ELSE text[i + 1]
<1> DEFINE Moved(i) == IF i < cursor \/ i = Len(text) THEN text[i] ELSE text[i + 1]
<1>1. Len(text) \in Nat /\ DOMAIN text = 1 .. Len(text)
  BY LenProperties
<1>2. \A i \in 1 .. Len(text) : Moved(i) \in Chars
  <2> SUFFICES ASSUME NEW i \in 1 .. Len(text) PROVE Moved(i) \in Chars
    OBVIOUS
  <2>1. text[i] \in Chars
    BY <1>1, ElementOfSeq
  <2>2. i # Len(text) => text[i + 1] \in Chars
    <3>1. i \in Int /\ i >= 1 /\ i <= Len(text) /\ Len(text) \in Int
      BY <1>1
    <3>2. i < Len(text) => i + 1 \in 1 .. Len(text)
      BY <3>1
    <3>3. i < Len(text) \/ i = Len(text)
      BY <3>1
    <3> QED BY <3>2, <3>3, ElementOfSeq
  <2> QED BY <2>1, <2>2
<1>3. text' = [i \in 1 .. Len(text) |-> Moved(i)]
  BY <1>1 DEF Unshift
<1> HIDE DEF Moved
<1>4. text' \in Seq(Chars) /\ Len(text') = Len(text) /\ \A i \in 1 .. Len(text) : text'[i] = Moved(i)
  BY <1>1, <1>2, <1>3, IsASeq
<1> QED BY <1>4 DEF Moved

(***************************************************************************)
(* Where the cursor goes                                                   *)
(***************************************************************************)
LEMMA LineStartFacts ==
    ASSUME NEW s, cursor \in Nat
    PROVE  /\ LineStart(s) \in 0 .. cursor
           /\ LineStart(s) # 0 => s[LineStart(s)] = Newline
           /\ \A i \in LineStart(s) + 1 .. cursor : s[i] # Newline
<1> DEFINE S == {0} \cup { i \in 1 .. cursor : s[i] = Newline }
<1>1. Max(S) \in S /\ \A i \in S : Max(S) >= i
  <2>1. S \in SUBSET Nat /\ S # {} /\ \A i \in S : i <= cursor
    OBVIOUS
  <2> HIDE DEF S
  <2> QED BY <2>1, MaxOfBounded
<1>2. LineStart(s) = Max(S)
  BY DEF LineStart
<1> QED BY <1>1, <1>2

LEMMA NextLineFacts ==
    ASSUME text \in Seq(Chars), cursor \in Nat, cursor < Len(text)
    PROVE  /\ NextLine \in cursor + 1 .. Len(text)
           /\ \A i \in cursor + 1 .. NextLine - 1 : text[i] # Newline
           /\ text[NextLine] = Newline \/ NextLine = Len(text)
<1> DEFINE S == {Len(text)} \cup { i \in cursor + 1 .. Len(text) : text[i] = Newline }
<1>0. Len(text) \in Nat
  BY LenProperties
<1>1. Min(S) \in S /\ \A i \in S : Min(S) <= i
  <2>1. S \in SUBSET Nat /\ S # {}
    BY <1>0
  <2> HIDE DEF S
  <2> QED BY <2>1, MinOfNat
<1>2. NextLine = Min(S)
  BY DEF NextLine
<1>3. NextLine \in S /\ \A i \in S : NextLine <= i
  <2> HIDE DEF S
  <2> QED BY <1>1, <1>2
<1> QED BY <1>0, <1>3

LEMMA StopsFacts ==
    ASSUME text \in Seq(Chars), NEW from \in 0 .. Len(text)
    PROVE  Stops(from) \subseteq from .. Len(text)
<1> DEFINE S == { i \in from .. Len(text) - 2 : text[i + 2] = Newline }
<1>0. Len(text) \in Nat
  BY LenProperties
<1>1. S # {} => Min(S) \in S
  <2>1. S \in SUBSET Nat
    BY <1>0
  <2> HIDE DEF S
  <2> QED BY <2>1, MinOfNat
<1>2. Stops(from) = IF S # {} THEN {Min(S)} ELSE { i \in {Len(text) - 1, Len(text)} : i >= from }
  BY DEF Stops
<1>3. CASE S = {}
  BY <1>0, <1>2, <1>3
<1>4. CASE S # {}
  <2>1. Min(S) \in S /\ Stops(from) = {Min(S)}
    BY <1>1, <1>2, <1>4
  <2>2. \A i \in S : i \in from .. Len(text)
    BY <1>0
  <2> HIDE DEF S
  <2> QED BY <2>1, <2>2
<1> QED BY <1>3, <1>4

LEMMA UpFacts ==
    ASSUME NEW s, Types, move_up(s)
    PROVE  cursor' \in 0 .. cursor /\ line' \in 0 .. Word - 1
<1>1. CASE line = 0 \/ cursor = 0
  BY <1>1 DEF move_up, Types
<1>2. CASE ~(line = 0 \/ cursor = 0)
  <2> DEFINE S == {0, LineStart(s) - 1}
  <2>1. LineStart(s) \in 0 .. cursor
    BY LineStartFacts DEF Types
  <2>2. cursor' = Max(S) /\ line' = (line - 1) % Word
    BY <1>2 DEF move_up, MoveTo
  <2>3. Max(S) = IF LineStart(s) = 0 THEN 0 ELSE LineStart(s) - 1
    BY <2>1 DEF Max
  <2>4. cursor' \in 0 .. cursor
    BY <2>1, <2>2, <2>3 DEF Types
  <2>5. line - 1 \in Int
    BY EditorAssumption DEF Types, EditorAssumption
  <2> QED BY <2>2, <2>4, <2>5, ModRange, EditorAssumption DEF EditorAssumption
<1> QED BY <1>1, <1>2

LEMMA MoveFacts ==
    ASSUME Types, cursor <= Len(text) + 1, AnyMove
    PROVE  /\ cursor' \in Nat
           /\ cursor' <= cursor \/ cursor' <= Len(text)
           /\ line' \in 0 .. Word - 1
<1>0. /\ text \in Seq(Chars) /\ Len(text) \in Nat /\ cursor \in Nat
      /\ line \in 0 .. Word - 1 /\ Word \in Nat \ {0}
      /\ line \in Int /\ line + 1 \in Int /\ line - 1 \in Int
  BY LenProperties, EditorAssumption DEF Types, EditorAssumption
<1>1. CASE move_down
  <2>1. CASE line >= (lines - 1) % Word \/ cursor >= Len(text)
    BY <1>0, <1>1, <2>1 DEF move_down
  <2>2. CASE ~(line >= (lines - 1) % Word \/ cursor >= Len(text))
    <3>1. cursor' = NextLine /\ line' = (line + 1) % Word
      BY <1>1, <2>2 DEF move_down, MoveTo
    <3>2. NextLine \in cursor + 1 .. Len(text)
      BY <1>0, <2>2, NextLineFacts
    <3> QED BY <1>0, <3>1, <3>2, ModRange
  <2> QED BY <2>1, <2>2
<1>2. CASE move_right
  <2>1. CASE cursor >= Len(text)
    BY <1>0, <1>2, <2>1 DEF move_right
  <2>2. CASE ~(cursor >= Len(text))
    <3>1. /\ cursor' = cursor + 1
          /\ line' = (line + 1) % Word \/ line' = line % Word
      BY <1>2, <2>2 DEF move_right, MoveTo
    <3>2. (line + 1) % Word \in 0 .. Word - 1 /\ line % Word \in 0 .. Word - 1
      BY <1>0, ModRange
    <3> QED BY <1>0, <2>2, <3>1, <3>2
  <2> QED BY <2>1, <2>2
<1>3. ASSUME NEW seen, move_up(seen) PROVE cursor' \in 0 .. cursor /\ line' \in 0 .. Word - 1
  BY <1>3, UpFacts
<1>4. ASSUME NEW seen, move_left(seen) PROVE cursor' \in 0 .. cursor /\ line' \in 0 .. Word - 1
  <2>1. CASE cursor = 0
    BY <1>0, <1>4, <2>1 DEF move_left
  <2>2. CASE cursor # 0
    <3>1. /\ cursor' = cursor - 1
          /\ line' = (line - 1) % Word \/ line' = line % Word
      BY <1>4, <2>2 DEF move_left, MoveTo
    <3>2. (line - 1) % Word \in 0 .. Word - 1 /\ line % Word \in 0 .. Word - 1
      BY <1>0, ModRange
    <3> QED BY <1>0, <2>2, <3>1, <3>2
  <2> QED BY <2>1, <2>2
<1> QED BY <1>0, <1>1, <1>2, <1>3, <1>4 DEF AnyMove

LEMMA ClipFacts ==
    ASSUME Types, NEW end \in LineStart(text) .. Len(text), cursor <= Len(text)
    PROVE  /\ Clip(end) \in [set : BOOLEAN, chars : Seq(Chars), freed : BOOLEAN]
           /\ Clip(end).set
           /\ Clip(end).chars = SubSeq(text, LineStart(text) + 1, IF end < Len(text) THEN end + 1 ELSE end)
           /\ Len(Clip(end).chars) = (IF end < Len(text) THEN end + 1 ELSE end) - LineStart(text)
           /\ Clip(end).chars # <<>> => ~Clip(end).freed
<1> DEFINE last == IF end < Len(text) THEN end + 1 ELSE end
           chars == SubSeq(text, LineStart(text) + 1, last)
<1>0. text \in Seq(Chars) /\ Len(text) \in Nat /\ cursor \in Nat /\ clip.freed \in BOOLEAN
  BY LenProperties DEF Types
<1>1. LineStart(text) \in 0 .. cursor
  BY <1>0, LineStartFacts
<1>2. last \in 0 .. Len(text) /\ LineStart(text) + 1 \in 1 .. Len(text) + 1 /\ last >= LineStart(text)
  BY <1>0, <1>1
<1>3. chars \in Seq(Chars) /\ Len(chars) = last - LineStart(text)
  <2> HIDE DEF last
  <2> QED BY <1>0, <1>1, <1>2, PieceFacts
<1>4. Clip(end) = [set |-> TRUE, chars |-> chars, freed |-> clip.freed /\ chars = <<>>]
  BY DEF Clip
<1> HIDE DEF chars
<1>5. /\ Clip(end) \in [set : BOOLEAN, chars : Seq(Chars), freed : BOOLEAN]
      /\ Clip(end).set /\ Clip(end).chars = chars
      /\ Clip(end).chars # <<>> => ~Clip(end).freed
  <2> DEFINE freed == clip.freed /\ chars = <<>>
  <2>1. freed \in BOOLEAN /\ (chars # <<>> => ~freed) /\ chars \in Seq(Chars)
    BY <1>0, <1>3
  <2>2. Clip(end) = [set |-> TRUE, chars |-> chars, freed |-> freed]
    BY <1>4
  <2> HIDE DEF freed
  <2> QED BY <2>1, <2>2
<1> QED BY <1>3, <1>5 DEF chars

(***************************************************************************)
(* The inductive invariant of safety: while the program runs the cursor is *)
(* in the text, or one behind it while a character is erased; for a        *)
(* careful user the steps of a key find the room their memmove and store   *)
(* need, and what was copied is neither empty nor freed.                   *)
(***************************************************************************)
InText == status # "undefined" => cursor <= Len(text) + (IF pc = "retreat" THEN 1 ELSE 0)
CarefulPlace ==
    careful =>
        /\ status # "undefined"
        /\ clip.set => clip.chars # <<>> /\ ~clip.freed
        /\ pc \in {"shift", "store", "advance"} => cursor < Len(text)
        /\ pc \in {"unshift", "shrink", "retreat"} => cursor > 0
SafeInv == Types /\ InText /\ CarefulPlace

\* The block holds the text, and is as long as the text while a character
\* is inserted: the memmove of Shift reaches one byte behind it.
BlockInv ==
    /\ block \in Nat /\ Len(text) <= block
    /\ pc \in {"shift", "store", "advance"} => block = Len(text)
    /\ pc \in {"unshift", "shrink"} => text # <<>>

LEMMA SafeInit == Init => SafeInv
<1> SUFFICES ASSUME Init PROVE SafeInv
  OBVIOUS
<1>1. text \in Seq(Chars) /\ Len(text) \in Nat /\ NewlinesIn(text) \in Nat
  BY LenProperties, CountNat, EditorAssumption DEF Init, EditorAssumption
<1>2. NewlinesIn(text) % Word \in 0 .. Word - 1 /\ (NewlinesIn(text) + 1) % Word \in 0 .. Word - 1
  <2>1. NewlinesIn(text) \in Int /\ NewlinesIn(text) + 1 \in Int
    BY <1>1
  <2> QED BY <2>1, ModRange, EditorAssumption DEF EditorAssumption
<1>3. Types
  BY <1>1, <1>2, EmptySeq, EditorAssumption DEF Init, Types, EditorAssumption, NoClip
<1>4. InText /\ CarefulPlace
  BY <1>1 DEF Init, InText, CarefulPlace, NoClip
<1> QED BY <1>3, <1>4 DEF SafeInv

LEMMA KeyFacts ==
    ASSUME SafeInv, NEW mode, Key(mode)
    PROVE  /\ status = "running" /\ pc = "getchar" /\ insert = mode
           /\ keys' \in 0 .. MaxKeys /\ keys < MaxKeys /\ keys' = keys + 1
           /\ cursor \in 0 .. Len(text)
           /\ text \in Seq(Chars) /\ Len(text) \in Nat /\ Word \in Nat \ {0}
<1>1. text \in Seq(Chars) /\ Len(text) \in Nat /\ Word \in Nat \ {0} /\ MaxKeys \in Nat /\ cursor \in Nat
  BY LenProperties, EditorAssumption DEF SafeInv, Types, EditorAssumption
<1>2. status = "running" /\ pc = "getchar" /\ insert = mode /\ keys < MaxKeys /\ keys' = keys + 1
  BY DEF Key, Running
<1> QED BY <1>1, <1>2 DEF SafeInv, Types, InText

LEMMA SafeMoves == SafeInv /\ (arrow_keys_sighandler \/ MoveKey) => SafeInv'
<1> SUFFICES ASSUME SafeInv, arrow_keys_sighandler \/ MoveKey PROVE SafeInv'
  OBVIOUS
<1>0. /\ text \in Seq(Chars) /\ Len(text) \in Nat /\ cursor \in Nat /\ line \in Int /\ lines \in Int
      /\ Word \in Nat \ {0}
  BY LenProperties, EditorAssumption DEF SafeInv, Types, EditorAssumption
<1>1. status # "undefined" /\ cursor <= Len(text) + 1
  BY <1>0 DEF SafeInv, InText, arrow_keys_sighandler, MoveKey, Key, Running
<1>2. CASE arrow_keys_sighandler
  <2>1. cursor' \in Nat /\ (cursor' <= cursor \/ cursor' <= Len(text)) /\ line' \in 0 .. Word - 1
    BY <1>0, <1>1, <1>2, MoveFacts DEF arrow_keys_sighandler, SafeInv
  <2>2. Types'
    <3>1. careful' \in BOOLEAN
      BY <1>2 DEF arrow_keys_sighandler, Same
    <3>2. keys' \in 0 .. MaxKeys
      BY <1>2, EditorAssumption DEF arrow_keys_sighandler, SafeInv, Types, EditorAssumption
    <3> QED BY <1>2, <2>1, <3>1, <3>2 DEF arrow_keys_sighandler, SafeInv, Types
  <2>3. InText'
    BY <1>0, <1>1, <1>2, <2>1 DEF arrow_keys_sighandler, SafeInv, InText
  <2>4. CarefulPlace'
    BY <1>2 DEF arrow_keys_sighandler, SafeInv, CarefulPlace, Same
  <2> QED BY <2>2, <2>3, <2>4 DEF SafeInv
<1>3. CASE MoveKey
  <2>0. pc = "getchar" /\ cursor <= Len(text)
    BY <1>0, <1>1, <1>3 DEF MoveKey, Key, SafeInv, InText
  <2>1. cursor' \in 0 .. Len(text) /\ line' \in 0 .. Word - 1
    <3>1. CASE AnyMove
      BY <1>0, <1>1, <2>0, <3>1, MoveFacts DEF SafeInv
    <3>2. CASE MoveTo(0, 0)
      BY <1>0, <3>2, ModRange DEF MoveTo
    <3>3. CASE MoveTo(Len(text), lines - 1)
      <4>1. lines - 1 \in Int
        BY <1>0
      <4> QED BY <1>0, <3>3, <4>1, ModRange DEF MoveTo
    <3>4. CASE MoveTo(LineStart(text), line)
      BY <1>0, <2>0, <3>4, ModRange, LineStartFacts DEF MoveTo
    <3> QED BY <1>3, <3>1, <3>2, <3>3, <3>4 DEF MoveKey
  <2>2. Types'
    <3>1. keys' \in 0 .. MaxKeys
      BY <1>3, KeyFacts DEF MoveKey, SafeInv
    <3> QED BY <1>0, <1>3, <2>1, <3>1 DEF MoveKey, SafeInv, Types
  <2>3. InText'
    BY <1>0, <1>3, <2>1 DEF MoveKey, SafeInv, InText
  <2>4. CarefulPlace'
    BY <1>3, <2>0 DEF MoveKey, SafeInv, CarefulPlace
  <2> QED BY <2>2, <2>3, <2>4 DEF SafeInv
<1> QED BY <1>2, <1>3

LEMMA SafeClips == SafeInv /\ (EndOfLine \/ CopyLine \/ CutLine \/ Paste) => SafeInv'
<1> SUFFICES ASSUME SafeInv, EndOfLine \/ CopyLine \/ CutLine \/ Paste PROVE SafeInv'
  OBVIOUS
<1>0. /\ status = "running" /\ pc = "getchar" /\ keys' \in 0 .. MaxKeys
      /\ cursor \in 0 .. Len(text) /\ text \in Seq(Chars) /\ Len(text) \in Nat
  BY KeyFacts DEF EndOfLine, CopyLine, CutLine, Paste
<1>1. LineStart(text) \in 0 .. cursor
  BY <1>0, LineStartFacts
<1>2. careful' \in BOOLEAN
  BY DEF EndOfLine, CopyLine, CutLine, Paste, Same
<1>3. CASE EndOfLine
  <2>1. cursor' \in 0 .. Len(text)
    BY <1>0, <1>3, StopsFacts DEF EndOfLine
  <2>2. Types'
    BY <1>0, <1>2, <1>3, <2>1 DEF EndOfLine, counters, SafeInv, Types
  <2>3. InText'
    BY <1>0, <1>3, <2>1 DEF EndOfLine, InText
  <2>4. careful' => careful
    BY <1>3 DEF EndOfLine, Same
  <2>5. CarefulPlace'
    BY <1>0, <1>3, <2>4 DEF EndOfLine, SafeInv, CarefulPlace
  <2> QED BY <2>2, <2>3, <2>5 DEF SafeInv
<1>4. CASE CopyLine
  <2>1. PICK end \in Stops(LineStart(text)) :
          /\ clip' = Clip(end) /\ cursor' = end
          /\ Same(~Crosses(LineStart(text), end) /\ clip'.chars # <<>>)
    BY <1>4 DEF CopyLine
  <2>2. end \in LineStart(text) .. Len(text)
    BY <1>0, <1>1, StopsFacts
  <2>3. /\ Clip(end) \in [set : BOOLEAN, chars : Seq(Chars), freed : BOOLEAN]
        /\ Clip(end).chars # <<>> => ~Clip(end).freed
    BY <1>0, <2>2, ClipFacts DEF SafeInv
  <2>4. Types'
    BY <1>0, <1>1, <1>2, <1>4, <2>1, <2>2, <2>3 DEF CopyLine, counters, SafeInv, Types
  <2>5. InText'
    BY <1>0, <1>1, <1>4, <2>1, <2>2 DEF CopyLine, InText
  <2>6. careful' => careful /\ clip'.chars # <<>>
    BY <2>1 DEF Same
  <2>7. CarefulPlace'
    BY <1>0, <1>4, <2>1, <2>3, <2>6 DEF CopyLine, SafeInv, CarefulPlace
  <2> QED BY <2>4, <2>5, <2>7 DEF SafeInv
<1>5. CASE CutLine
  <2> DEFINE to(e) == e - Len(Clip(e).chars)
  <2>1. PICK end \in Stops(LineStart(text)) :
          /\ clip' = Clip(end)
          /\ Same(end = Len(text) /\ ~Crosses(LineStart(text), end) /\ clip'.chars # <<>>)
          /\ IF to(end) < 0 THEN status' = "undefined" /\ UNCHANGED <<text, cursor>>
             ELSE /\ text' = Before(text, to(end)) \o SubSeq(text, end + 1, Len(text))
                  /\ cursor' = to(end)
                  /\ UNCHANGED status
    BY <1>5 DEF CutLine
  <2>2. end \in LineStart(text) .. Len(text)
    BY <1>0, <1>1, StopsFacts
  <2>3. /\ Clip(end) \in [set : BOOLEAN, chars : Seq(Chars), freed : BOOLEAN]
        /\ Clip(end).chars # <<>> => ~Clip(end).freed
        /\ Len(Clip(end).chars) = (IF end < Len(text) THEN end + 1 ELSE end) - LineStart(text)
    BY <1>0, <2>2, ClipFacts DEF SafeInv
  <2>4. UNCHANGED <<counters, insert, file, pc, held>>
    BY <1>5 DEF CutLine
  <2>5. CASE to(end) < 0
    <3>1. status' = "undefined" /\ text' = text /\ cursor' = cursor
      BY <2>1, <2>5
    <3>2. end # Len(text)
      BY <1>0, <1>1, <2>2, <2>3, <2>5
    <3>3. ~careful'
      BY <2>1, <3>2 DEF Same
    <3>4. Types'
      BY <1>0, <1>2, <2>1, <2>3, <2>4, <3>1 DEF counters, SafeInv, Types
    <3> QED BY <3>1, <3>3, <3>4 DEF SafeInv, InText, CarefulPlace
  <2>6. CASE to(end) >= 0
    <3>1. to(end) \in 0 .. end /\ to(end) <= Len(text)
      BY <1>0, <1>1, <2>2, <2>3, <2>6
    <3>2. /\ cursor' = to(end) /\ status' = status
          /\ text' = Before(text, to(end)) \o SubSeq(text, end + 1, Len(text))
      <4>1. ~(to(end) < 0)
        BY <3>1
      <4> HIDE DEF to
      <4> QED BY <2>1, <4>1
    <3> HIDE DEF to
    <3>3. /\ Before(text, to(end)) \in Seq(Chars) /\ Len(Before(text, to(end))) = to(end)
          /\ SubSeq(text, end + 1, Len(text)) \in Seq(Chars)
          /\ Len(SubSeq(text, end + 1, Len(text))) \in Nat
      BY <1>0, <1>1, <2>2, <3>1, PieceFacts DEF Before
    <3>4. text' \in Seq(Chars) /\ Len(text') = to(end) + Len(SubSeq(text, end + 1, Len(text)))
      BY <3>2, <3>3, ConcatProperties
    <3>5. cursor' \in Nat /\ cursor' <= Len(text')
      BY <3>1, <3>2, <3>3, <3>4
    <3>6. Types'
      BY <1>0, <1>2, <2>1, <2>3, <2>4, <3>2, <3>4, <3>5 DEF counters, SafeInv, Types
    <3>7. InText'
      BY <1>0, <2>4, <3>5 DEF InText
    <3>8. careful' => careful /\ clip'.chars # <<>>
      BY <2>1 DEF Same
    <3>9. CarefulPlace'
      BY <1>0, <2>1, <2>3, <2>4, <3>2, <3>8 DEF SafeInv, CarefulPlace
    <3> QED BY <3>6, <3>7, <3>9 DEF SafeInv
  <2> QED BY <1>0, <1>1, <2>2, <2>3, <2>5, <2>6
<1>6. CASE Paste
  <2>1. PICK byte \in Chars :
          text' = Before(text, cursor) \o clip.chars
                    \o (IF cursor = Len(text) THEN <<>>
                        ELSE Append(SubSeq(text, cursor + 2, Len(text)), byte))
    BY <1>6 DEF Paste
  <2> DEFINE rest == IF cursor = Len(text) THEN <<>>
                     ELSE Append(SubSeq(text, cursor + 2, Len(text)), byte)
  <2>2. rest \in Seq(Chars) /\ Len(rest) \in Nat
    <3>1. CASE cursor = Len(text)
      BY <3>1, EmptySeq
    <3>2. CASE cursor # Len(text)
      <4>1. SubSeq(text, cursor + 2, Len(text)) \in Seq(Chars)
        BY <1>0, <3>2, PieceFacts
      <4>2. rest = Append(SubSeq(text, cursor + 2, Len(text)), byte)
        BY <3>2
      <4>3. rest \in Seq(Chars)
        BY <4>1, <4>2, AppendProperties
      <4> HIDE DEF rest
      <4> QED BY <4>3, LenProperties
    <3> QED BY <3>1, <3>2
  <2> HIDE DEF rest
  <2>3. /\ Before(text, cursor) \in Seq(Chars) /\ Len(Before(text, cursor)) = cursor
        /\ clip.chars \in Seq(Chars) /\ Len(clip.chars) \in Nat /\ clip.freed \in BOOLEAN
    BY <1>0, PieceFacts, LenProperties DEF Before, SafeInv, Types
  <2>4. /\ Before(text, cursor) \o clip.chars \in Seq(Chars)
        /\ Len(Before(text, cursor) \o clip.chars) = cursor + Len(clip.chars)
    <3>1. /\ Before(text, cursor) \o clip.chars \in Seq(Chars)
          /\ Len(Before(text, cursor) \o clip.chars) = Len(Before(text, cursor)) + Len(clip.chars)
      <4>1. Before(text, cursor) \in Seq(Chars) /\ clip.chars \in Seq(Chars)
        BY <2>3
      <4> QED BY <4>1, ConcatProperties, Zenon
    <3> QED BY <2>3, <3>1
  <2>5. text' \in Seq(Chars) /\ Len(text') = cursor + Len(clip.chars) + Len(rest)
    <3> DEFINE front == Before(text, cursor) \o clip.chars
    <3>1. text' = front \o rest
      BY <2>1 DEF rest
    <3> HIDE DEF front
    <3>2. front \in Seq(Chars) /\ Len(front) = cursor + Len(clip.chars)
      BY <2>4 DEF front
    <3>3. front \o rest \in Seq(Chars) /\ Len(front \o rest) = Len(front) + Len(rest)
      BY <2>2, <3>2, ConcatProperties, Zenon
    <3> QED BY <3>1, <3>2, <3>3, Zenon
  <2>6. cursor' \in Nat /\ cursor' <= Len(text')
    <3>1. cursor' = cursor + Len(clip.chars)
      BY <1>6 DEF Paste
    <3>2. cursor \in Nat
      BY <1>0
    <3> QED BY <2>2, <2>3, <2>5, <3>1, <3>2
  <2>7. /\ clip' \in [set : BOOLEAN, chars : Seq(Chars), freed : BOOLEAN] /\ ~clip'.set
    BY <1>6, EmptySeq DEF Paste, NoClip
  <2>8. status' \in {"running", "undefined"} /\ (careful' => status' = status)
    BY <1>0, <1>6 DEF Paste, Same, SafeInv, CarefulPlace
  <2>9. Types'
    BY <1>0, <1>2, <1>6, <2>5, <2>6, <2>7, <2>8 DEF Paste, counters, SafeInv, Types
  <2>10. InText' /\ CarefulPlace'
    <3>1. pc' = "getchar"
      BY <1>0, <1>6 DEF Paste
    <3>2. InText'
      BY <2>6, <3>1 DEF InText
    <3>3. careful' => careful
      BY <1>6 DEF Paste, Same
    <3>4. careful' => status' # "undefined"
      BY <1>0, <2>8
    <3>5. CarefulPlace'
      BY <2>7, <3>1, <3>4 DEF CarefulPlace
    <3> QED BY <3>2, <3>5
  <2> QED BY <2>9, <2>10 DEF SafeInv
<1> QED BY <1>3, <1>4, <1>5, <1>6

\* A cut shortens the text, and a paste makes it as long as its new block.
LEMMA CutLength ==
    ASSUME SafeInv, CutLine
    PROVE  Len(text') \in Nat /\ Len(text') <= Len(text)
<1>0. cursor \in 0 .. Len(text) /\ text \in Seq(Chars) /\ Len(text) \in Nat
  BY KeyFacts DEF CutLine
<1>1. LineStart(text) \in 0 .. cursor
  BY <1>0, LineStartFacts
<1> DEFINE to(e) == e - Len(Clip(e).chars)
<1>2. PICK end \in Stops(LineStart(text)) :
        IF to(end) < 0 THEN UNCHANGED text
        ELSE text' = Before(text, to(end)) \o SubSeq(text, end + 1, Len(text))
  BY DEF CutLine
<1>3. end \in LineStart(text) .. Len(text)
  BY <1>0, <1>1, StopsFacts
<1>4. Len(Clip(end).chars) = (IF end < Len(text) THEN end + 1 ELSE end) - LineStart(text)
  BY <1>0, <1>3, ClipFacts DEF SafeInv
<1>5. to(end) \in Int /\ to(end) <= end
  BY <1>0, <1>1, <1>3, <1>4
<1> HIDE DEF to
<1>6. CASE to(end) < 0
  BY <1>0, <1>2, <1>6
<1>7. CASE ~(to(end) < 0)
  <2>1. to(end) \in 0 .. Len(text) /\ end + 1 \in 1 .. Len(text) + 1
    BY <1>0, <1>1, <1>3, <1>5, <1>7
  <2>2. /\ Before(text, to(end)) \in Seq(Chars) /\ Len(Before(text, to(end))) = to(end)
        /\ SubSeq(text, end + 1, Len(text)) \in Seq(Chars)
        /\ Len(SubSeq(text, end + 1, Len(text))) = Len(text) - end
    BY <1>0, <1>3, <2>1, PieceFacts DEF Before
  <2>3. text' = Before(text, to(end)) \o SubSeq(text, end + 1, Len(text))
    BY <1>2, <1>7
  <2>4. Len(text') = to(end) + (Len(text) - end)
    BY <2>2, <2>3, ConcatProperties
  <2> QED BY <1>0, <1>3, <1>5, <2>1, <2>4
<1> QED BY <1>6, <1>7

LEMMA PasteLength ==
    ASSUME SafeInv, Paste
    PROVE  /\ Len(text') \in Nat /\ Len(text') = Len(text) + Len(clip.chars)
           /\ Len(clip.chars) \in Nat
<1>0. cursor \in 0 .. Len(text) /\ text \in Seq(Chars) /\ Len(text) \in Nat
  BY KeyFacts DEF Paste
<1>1. clip.chars \in Seq(Chars) /\ Len(clip.chars) \in Nat
  BY LenProperties DEF SafeInv, Types
<1>2. PICK byte \in Chars :
        text' = Before(text, cursor) \o clip.chars
                  \o (IF cursor = Len(text) THEN <<>>
                      ELSE Append(SubSeq(text, cursor + 2, Len(text)), byte))
  BY DEF Paste
<1> DEFINE rest == IF cursor = Len(text) THEN <<>>
                   ELSE Append(SubSeq(text, cursor + 2, Len(text)), byte)
           front == Before(text, cursor) \o clip.chars
<1>3. rest \in Seq(Chars) /\ Len(rest) = Len(text) - cursor
  <2>1. CASE cursor = Len(text)
    BY <1>0, <2>1, EmptySeq
  <2>2. CASE cursor # Len(text)
    <3>1. /\ SubSeq(text, cursor + 2, Len(text)) \in Seq(Chars)
          /\ Len(SubSeq(text, cursor + 2, Len(text))) = Len(text) - cursor - 1
      BY <1>0, <2>2, PieceFacts
    <3>2. rest = Append(SubSeq(text, cursor + 2, Len(text)), byte)
      BY <2>2
    <3> HIDE DEF rest
    <3> QED BY <1>0, <3>1, <3>2, AppendProperties
  <2> QED BY <2>1, <2>2
<1>4. front \in Seq(Chars) /\ Len(front) = cursor + Len(clip.chars)
  <2>1. Before(text, cursor) \in Seq(Chars) /\ Len(Before(text, cursor)) = cursor
    BY <1>0, PieceFacts DEF Before
  <2>2. clip.chars \in Seq(Chars)
    BY <1>1
  <2>3. front \in Seq(Chars) /\ Len(front) = Len(Before(text, cursor)) + Len(clip.chars)
    BY <2>1, <2>2, ConcatProperties, Zenon
  <2> QED BY <2>1, <2>3
<1>5. text' = front \o rest
  BY <1>2
<1> HIDE DEF front, rest
<1>6. Len(text') = Len(front) + Len(rest)
  BY <1>3, <1>4, <1>5, ConcatProperties
<1> QED BY <1>0, <1>1, <1>3, <1>4, <1>6

LEMMA SafeFile ==
    SafeInv /\ (\/ AskReplace \/ AskDiscard \/ Save \/ ToggleMode \/ Quit
                \/ \E c \in Chars : Replace(c)
                \/ \E yes \in BOOLEAN : Discard(yes)) => SafeInv'
<1> SUFFICES ASSUME SafeInv PROVE
        /\ AskReplace \/ AskDiscard \/ Save \/ ToggleMode \/ Quit => SafeInv'
        /\ \A c \in Chars : Replace(c) => SafeInv'
        /\ \A yes \in BOOLEAN : Discard(yes) => SafeInv'
  OBVIOUS
<1>0. /\ text \in Seq(Chars) /\ Len(text) \in Nat /\ file \in Seq(Chars) /\ Len(file) \in Nat
      /\ cursor \in Nat
  BY LenProperties DEF SafeInv, Types
<1>1. ASSUME AskReplace \/ AskDiscard PROVE SafeInv'
  <2>1. keys' \in 0 .. MaxKeys /\ pc = "getchar"
    BY <1>1, KeyFacts DEF AskReplace, AskDiscard, Ask
  <2>2. pc' \in {"replace", "discard"} /\ UNCHANGED <<text, cursor, counters, insert, clip, file, status, held, careful>>
    BY <1>1 DEF AskReplace, AskDiscard, Ask
  <2>3. Types'
    BY <2>1, <2>2 DEF counters, SafeInv, Types
  <2>4. InText' /\ CarefulPlace'
    BY <2>1, <2>2 DEF SafeInv, InText, CarefulPlace
  <2> QED BY <2>3, <2>4 DEF SafeInv
<1>2. ASSUME Save PROVE SafeInv'
  <2>1. keys' \in 0 .. MaxKeys
    BY <1>2, KeyFacts DEF Save
  <2>2. file' \in Seq(Chars)
    <3>1. CASE Len(text) + 1 <= Len(file) + 1
      <4>1. SubSeq(file, Len(text) + 1, Len(file)) \in Seq(Chars)
        BY <1>0, <3>1, PieceFacts
      <4> QED BY <1>0, <1>2, <4>1, ConcatProperties DEF Save, Overwrite
    <3>2. CASE Len(text) + 1 > Len(file) + 1
      <4>1. SubSeq(file, Len(text) + 1, Len(file)) = <<>>
        BY <1>0, <3>2, SubSeqEmpty
      <4> QED BY <1>0, <1>2, <4>1, EmptySeq, ConcatProperties DEF Save, Overwrite
    <3> QED BY <1>0, <3>1, <3>2
  <2>3. UNCHANGED <<text, cursor, counters, insert, clip, status, pc, held, careful>>
    BY <1>2 DEF Save
  <2>4. Types'
    BY <2>1, <2>2, <2>3 DEF counters, SafeInv, Types
  <2>5. InText' /\ CarefulPlace'
    BY <2>3 DEF SafeInv, InText, CarefulPlace
  <2> QED BY <2>4, <2>5 DEF SafeInv
<1>3. ASSUME ToggleMode \/ Quit PROVE SafeInv'
  <2>1. keys' \in 0 .. MaxKeys /\ status = "running"
    BY <1>3, KeyFacts DEF ToggleMode, Quit
  <2>2. /\ UNCHANGED <<text, cursor, counters, clip, file, pc, held, careful>>
        /\ insert' \in BOOLEAN /\ status' \in {"running", "ended"}
    BY <1>3, <2>1 DEF ToggleMode, Quit, SafeInv, Types
  <2>3. Types'
    BY <2>1, <2>2 DEF counters, SafeInv, Types
  <2>4. InText' /\ CarefulPlace'
    BY <2>1, <2>2 DEF SafeInv, InText, CarefulPlace
  <2> QED BY <2>3, <2>4 DEF SafeInv
<1>4. ASSUME NEW c \in Chars, Replace(c) PROVE SafeInv'
  <2>0. /\ status = "running" /\ pc = "replace" /\ pc' = "getchar" /\ cursor <= Len(text)
        /\ UNCHANGED <<cursor, counters, insert, clip, file, held, keys>>
    BY <1>0, <1>4 DEF Replace, Running, SafeInv, InText
  <2>1. /\ text' \in Seq(Chars) /\ Len(text') = Len(text) /\ status' \in {"running", "undefined"}
        /\ careful' \in BOOLEAN /\ (careful' => careful /\ status' = status)
    <3>1. CASE c = Newline
      BY <1>0, <1>4, <2>0, <3>1 DEF Replace, SafeInv, Types
    <3>2. CASE c # Newline /\ cursor >= Len(text)
      <4>1. /\ text' = text /\ Same(cursor < block)
            /\ status' = (IF cursor < block THEN status ELSE "undefined")
        BY <1>4, <3>2 DEF Replace
      <4>2. careful' \in BOOLEAN /\ (careful' => careful /\ cursor < block)
        BY <4>1 DEF Same
      <4> QED BY <1>0, <2>0, <4>1, <4>2
    <3>3. CASE c # Newline /\ cursor < Len(text)
      <4>1. text' = [text EXCEPT ![cursor + 1] = c] /\ Same(text[cursor + 1] # Newline) /\ status' = status
        BY <1>0, <1>4, <3>3 DEF Replace
      <4>2. cursor + 1 \in 1 .. Len(text)
        BY <1>0, <3>3
      <4>3. text' \in Seq(Chars) /\ Len(text') = Len(text)
        BY <1>0, <4>1, <4>2, ExceptSeq
      <4>4. careful' \in BOOLEAN /\ (careful' => careful)
        BY <4>1 DEF Same
      <4> QED BY <2>0, <4>1, <4>3, <4>4
    <3> QED BY <1>0, <3>1, <3>2, <3>3
  <2>2. Types'
    BY <2>0, <2>1 DEF counters, SafeInv, Types
  <2>3. InText' /\ CarefulPlace'
    BY <1>0, <2>0, <2>1 DEF SafeInv, InText, CarefulPlace
  <2> QED BY <2>2, <2>3 DEF SafeInv
<1>5. ASSUME NEW yes \in BOOLEAN, Discard(yes) PROVE SafeInv'
  <2>0. /\ status = "running" /\ pc = "discard" /\ pc' = "getchar" /\ cursor <= Len(text)
        /\ UNCHANGED <<counters, insert, clip, file, status, held, keys>>
    BY <1>0, <1>5 DEF Discard, Running, SafeInv, InText
  <2>1. /\ text' \in Seq(Chars) /\ cursor' \in 0 .. Len(text')
        /\ careful' \in BOOLEAN /\ (careful' => careful)
    <3>1. CASE ~yes
      BY <1>0, <1>5, <2>0, <3>1 DEF Discard, SafeInv, Types
    <3>2. CASE yes
      <4>1. text' = file /\ cursor' = Len(file)
        BY <1>5, <3>2 DEF Discard
      <4>2. careful' \in BOOLEAN /\ (careful' => careful)
        BY <1>5, <3>2 DEF Discard, Same
      <4> QED BY <1>0, <4>1, <4>2
    <3> QED BY <3>1, <3>2
  <2>2. Types'
    BY <2>0, <2>1 DEF counters, SafeInv, Types
  <2>3. InText'
    BY <2>0, <2>1 DEF InText
  <2>4. CarefulPlace'
    BY <2>0, <2>1 DEF SafeInv, CarefulPlace
  <2> QED BY <2>2, <2>3, <2>4 DEF SafeInv
<1> QED BY <1>1, <1>2, <1>3, <1>4, <1>5

LEMMA SafeInterrupted == SafeInv /\ InterruptedKey => SafeInv'
<1> SUFFICES ASSUME SafeInv, InterruptedKey PROVE SafeInv'
  OBVIOUS
<1>1. keys' \in 0 .. MaxKeys
  BY KeyFacts DEF InterruptedKey
<1>2. /\ UNCHANGED <<text, cursor, counters, insert, clip, file, pc, held>>
      /\ status' = "undefined" /\ careful' = FALSE
  BY DEF InterruptedKey
<1>3. Types'
  BY <1>1, <1>2 DEF counters, SafeInv, Types
<1> QED BY <1>2, <1>3 DEF SafeInv, InText, CarefulPlace

LEMMA SafeTyping ==
    SafeInv /\ BlockInv /\ (Grow \/ Shift \/ Store \/ Advance \/ \E c \in Chars : Type(c)) => SafeInv'
<1> SUFFICES ASSUME SafeInv, BlockInv PROVE
        /\ Grow \/ Shift \/ Store \/ Advance => SafeInv'
        /\ \A c \in Chars : Type(c) => SafeInv'
  OBVIOUS
<1>0. text \in Seq(Chars) /\ Len(text) \in Nat /\ cursor \in Nat /\ held \in Chars
  BY LenProperties DEF SafeInv, Types
<1>1. ASSUME Grow PROVE SafeInv'
  <2>1. /\ status = "running" /\ pc = "grow" /\ pc' = "shift" /\ cursor <= Len(text)
        /\ UNCHANGED <<cursor, counters, insert, clip, file, status, held, careful, keys>>
    BY <1>1 DEF Grow, Step, Running, SafeInv, InText
  <2>2. text' \in Seq(Chars) /\ Len(text') = Len(text) + 1
    BY <1>0, <1>1, AppendProperties DEF Grow
  <2>3. Types'
    BY <2>1, <2>2 DEF counters, SafeInv, Types
  <2>4. InText' /\ CarefulPlace'
    BY <1>0, <2>1, <2>2 DEF SafeInv, InText, CarefulPlace
  <2> QED BY <2>3, <2>4 DEF SafeInv
<1>2. ASSUME Shift PROVE SafeInv'
  <2>1. /\ pc = "shift" /\ pc' = "store" /\ cursor <= Len(text)
        /\ UNCHANGED <<cursor, counters, insert, clip, file, held, careful, keys>>
        /\ status = "running" /\ status' \in {"running", "clobbered"}
    BY <1>0, <1>2 DEF Shift, Step, Running, BlockInv, SafeInv, InText
  <2>2. text' \in Seq(Chars) /\ Len(text') = Len(text)
    BY <1>0, <1>2, ShiftFacts
  <2>3. Types'
    BY <2>1, <2>2 DEF counters, SafeInv, Types
  <2>4. InText' /\ CarefulPlace'
    BY <1>0, <2>1, <2>2 DEF SafeInv, InText, CarefulPlace
  <2> QED BY <2>3, <2>4 DEF SafeInv
<1>3. ASSUME Store PROVE SafeInv'
  <2>1. /\ status = "running" /\ pc = "store" /\ pc' = "advance" /\ cursor <= Len(text)
        /\ UNCHANGED <<cursor, counters, insert, clip, file, held, careful, keys>>
    BY <1>3 DEF Store, Step, Running, SafeInv, InText
  <2>2. /\ text' \in Seq(Chars) /\ Len(text') = Len(text) /\ status' \in {"running", "undefined"}
        /\ cursor < Len(text) => status' = status
    <3>1. CASE cursor < Len(text)
      BY <1>0, <1>3, <2>1, <3>1, ExceptSeq DEF Store
    <3>2. CASE ~(cursor < Len(text))
      BY <1>0, <1>3, <3>2 DEF Store
    <3> QED BY <3>1, <3>2
  <2>3. Types'
    BY <2>1, <2>2 DEF counters, SafeInv, Types
  <2>4. InText' /\ CarefulPlace'
    BY <1>0, <2>1, <2>2 DEF SafeInv, InText, CarefulPlace
  <2> QED BY <2>3, <2>4 DEF SafeInv
<1>4. ASSUME Advance PROVE SafeInv'
  <2>1. /\ status = "running" /\ pc = "advance" /\ pc' = "getchar" /\ cursor <= Len(text)
        /\ UNCHANGED <<text, counters, insert, clip, file, held, careful, keys>>
    BY <1>4 DEF Advance, Step, Running, SafeInv, InText
  <2>2. /\ cursor' \in 0 .. Len(text) /\ status' \in {"running", "undefined"}
        /\ cursor < Len(text) => status' = status
    BY <1>0, <1>4, <2>1 DEF Advance
  <2>3. Types'
    BY <2>1, <2>2 DEF counters, SafeInv, Types
  <2>4. InText' /\ CarefulPlace'
    BY <1>0, <2>1, <2>2 DEF SafeInv, InText, CarefulPlace
  <2> QED BY <2>3, <2>4 DEF SafeInv
<1>5. ASSUME NEW c \in Chars, Type(c) PROVE SafeInv'
  <2>1. keys' \in 0 .. MaxKeys /\ pc = "getchar" /\ Word \in Nat \ {0}
    BY <1>5, KeyFacts DEF Type
  <2>2. /\ held' \in Chars /\ pc' = "grow"
        /\ UNCHANGED <<text, cursor, insert, clip, file, status, careful>>
    BY <1>5 DEF Type
  <2>3. line' \in 0 .. Word - 1 /\ lines' \in 0 .. Word - 1
    <3>1. line \in 0 .. Word - 1 /\ lines \in 0 .. Word - 1 /\ line + 1 \in Int /\ lines + 1 \in Int
      BY <2>1 DEF SafeInv, Types
    <3>2. (line + 1) % Word \in 0 .. Word - 1 /\ (lines + 1) % Word \in 0 .. Word - 1
      BY <2>1, <3>1, ModRange
    <3> QED BY <1>5, <3>1, <3>2 DEF Type, counters
  <2>4. Types'
    BY <2>1, <2>2, <2>3 DEF SafeInv, Types
  <2>5. InText' /\ CarefulPlace'
    BY <2>1, <2>2 DEF SafeInv, InText, CarefulPlace
  <2> QED BY <2>4, <2>5 DEF SafeInv
<1> QED BY <1>1, <1>2, <1>3, <1>4, <1>5

LEMMA SafeErasing == SafeInv /\ (Backspace \/ Unshift \/ Shrink \/ Retreat) => SafeInv'
<1> SUFFICES ASSUME SafeInv PROVE Backspace \/ Unshift \/ Shrink \/ Retreat => SafeInv'
  OBVIOUS
<1>0. /\ text \in Seq(Chars) /\ Len(text) \in Nat /\ cursor \in Nat /\ Word \in Nat \ {0}
      /\ line \in 0 .. Word - 1 /\ lines \in 0 .. Word - 1
      /\ line \in Int /\ line - 1 \in Int /\ lines \in Int /\ lines - 1 \in Int
  BY LenProperties, EditorAssumption DEF SafeInv, Types, EditorAssumption
<1>1. ASSUME Backspace PROVE SafeInv'
  <2>1. /\ keys' \in 0 .. MaxKeys /\ pc = "getchar" /\ status = "running" /\ cursor <= Len(text)
        /\ UNCHANGED <<text, cursor, lines, insert, clip, file>>
    <3>1. Key(TRUE) /\ UNCHANGED <<text, cursor, lines, insert, clip, file>>
      BY <1>1 DEF Backspace
    <3>2. keys' \in 0 .. MaxKeys /\ pc = "getchar" /\ status = "running" /\ cursor \in 0 .. Len(text)
      <4> HIDE DEF SafeInv
      <4> QED BY <3>1, KeyFacts
    <3> QED BY <1>0, <3>1, <3>2
  <2>2. CASE text = <<>>
    <3>1. UNCHANGED <<line, status, pc, held, careful>>
      BY <1>1, <2>2 DEF Backspace
    <3>2. Types'
      BY <2>1, <3>1 DEF SafeInv, Types
    <3>3. InText' /\ CarefulPlace'
      BY <2>1, <3>1 DEF SafeInv, InText, CarefulPlace
    <3> QED BY <3>2, <3>3 DEF SafeInv
  <2>3. CASE text # <<>> /\ cursor = 0
    <3>1. status' = "undefined" /\ careful' = FALSE /\ UNCHANGED <<line, pc, held>>
      BY <1>1, <2>3 DEF Backspace
    <3>2. Types'
      BY <2>1, <3>1 DEF SafeInv, Types
    <3> QED BY <3>1, <3>2 DEF SafeInv, InText, CarefulPlace
  <2>4. CASE text # <<>> /\ cursor # 0
    <3>1. /\ held' = text[cursor] /\ pc' = "unshift" /\ UNCHANGED <<status, careful>>
          /\ line' = (IF text[cursor] = Newline THEN line - 1 ELSE line) % Word
      BY <1>1, <2>4 DEF Backspace
    <3>2. text[cursor] \in Chars
      BY <1>0, <2>1, <2>4, ElementOfSeq
    <3>3. line' \in 0 .. Word - 1
      <4>1. (line - 1) % Word \in 0 .. Word - 1
        BY <1>0, ModRange
      <4>2. line % Word \in 0 .. Word - 1
        BY <1>0, ModRange
      <4> QED BY <3>1, <4>1, <4>2
    <3>4. Types'
      BY <2>1, <3>1, <3>2, <3>3 DEF SafeInv, Types
    <3>5. InText' /\ CarefulPlace'
      BY <1>0, <2>1, <2>4, <3>1 DEF SafeInv, InText, CarefulPlace
    <3> QED BY <3>4, <3>5 DEF SafeInv
  <2> QED BY <2>2, <2>3, <2>4
<1>2. ASSUME Unshift PROVE SafeInv'
  <2>1. /\ status = "running" /\ pc = "unshift" /\ pc' = "shrink" /\ cursor <= Len(text)
        /\ UNCHANGED <<cursor, counters, insert, clip, file, held, careful, keys>>
    BY <1>0, <1>2 DEF Unshift, Step, Running, SafeInv, InText
  <2>2. /\ text' \in Seq(Chars) /\ Len(text') = Len(text) /\ status' \in {"running", "undefined"}
        /\ cursor # 0 => status' = status
    <3>1. CASE cursor = 0
      BY <1>0, <1>2, <3>1 DEF Unshift
    <3>2. CASE cursor # 0
      <4>1. text' \in Seq(Chars) /\ Len(text') = Len(text)
        BY <1>0, <1>2, <3>2, UnshiftFacts
      <4>2. status' = status
        BY <1>2, <3>2 DEF Unshift
      <4> QED BY <2>1, <4>1, <4>2
    <3> QED BY <3>1, <3>2
  <2>3. Types'
    BY <2>1, <2>2 DEF counters, SafeInv, Types
  <2>4. InText' /\ CarefulPlace'
    BY <1>0, <2>1, <2>2 DEF SafeInv, InText, CarefulPlace
  <2> QED BY <2>3, <2>4 DEF SafeInv
<1>3. ASSUME Shrink PROVE SafeInv'
  <2>1. /\ status = "running" /\ pc = "shrink" /\ pc' = "retreat" /\ cursor <= Len(text)
        /\ UNCHANGED <<cursor, line, insert, clip, file, status, held, keys>>
    BY <1>0, <1>3 DEF Shrink, Step, Running, SafeInv, InText
  <2>2. text' \in Seq(Chars) /\ Len(text') = IF text = <<>> THEN 0 ELSE Len(text) - 1
    BY <1>0, <1>3, FrontFacts DEF Shrink
  <2>3. lines' \in 0 .. Word - 1 /\ careful' \in BOOLEAN /\ (careful' => careful)
    <3>1. PICK byte \in Chars :
            /\ lines' = (IF byte = Newline THEN lines - 1 ELSE lines) % Word
            /\ Same((byte = Newline) = (held = Newline))
      BY <1>3 DEF Shrink
    <3>2. lines % Word \in 0 .. Word - 1
      BY <1>0, ModRange
    <3>3. (lines - 1) % Word \in 0 .. Word - 1
      BY <1>0, ModRange
    <3>4. lines' \in 0 .. Word - 1
      BY <3>1, <3>2, <3>3
    <3> QED BY <3>1, <3>4 DEF Same
  <2>4. Types'
    BY <2>1, <2>2, <2>3 DEF SafeInv, Types
  <2>5. cursor' <= Len(text') + 1
    <3>1. text = <<>> => Len(text) = 0
      BY EmptySeq
    <3> QED BY <1>0, <2>1, <2>2, <3>1
  <2>6. InText' /\ CarefulPlace'
    BY <1>0, <2>1, <2>3, <2>5 DEF SafeInv, InText, CarefulPlace
  <2> QED BY <2>4, <2>6 DEF SafeInv
<1>4. ASSUME Retreat PROVE SafeInv'
  <2>1. /\ status = "running" /\ pc = "retreat" /\ pc' = "getchar" /\ cursor <= Len(text) + 1
        /\ UNCHANGED <<text, counters, insert, clip, file, held, careful, keys>>
    BY <1>0, <1>4 DEF Retreat, Step, Running, SafeInv, InText
  <2>2. /\ cursor' \in Nat /\ status' \in {"running", "undefined"}
        /\ cursor # 0 => status' = status /\ cursor' <= Len(text)
        /\ cursor = 0 => status' = "undefined"
    BY <1>0, <1>4, <2>1 DEF Retreat
  <2>3. Types'
    BY <2>1, <2>2 DEF counters, SafeInv, Types
  <2>4. InText' /\ CarefulPlace'
    BY <1>0, <2>1, <2>2 DEF SafeInv, InText, CarefulPlace
  <2> QED BY <2>3, <2>4 DEF SafeInv
<1> QED BY <1>1, <1>2, <1>3, <1>4

LEMMA SafeStep == SafeInv /\ BlockInv /\ [Next]_vars => SafeInv'
<1>1. SafeInv /\ UNCHANGED vars => SafeInv'
  BY DEF vars, SafeInv, Types, InText, CarefulPlace
<1> QED BY <1>1, SafeMoves, SafeClips, SafeFile, SafeInterrupted, SafeTyping, SafeErasing DEF Next

(***************************************************************************)
(* The block                                                               *)
(***************************************************************************)
LEMMA BlockInit == Init => BlockInv
<1>1. \A t \in Seq(Chars) : Len(t) \in Nat
  BY LenProperties
<1> QED BY <1>1, EditorAssumption DEF Init, BlockInv, EditorAssumption

\* The keys of the edit mode, and the file.
LEMMA BlockEdit ==
    ASSUME SafeInv, BlockInv,
           \/ EndOfLine \/ CopyLine \/ CutLine \/ Paste \/ InterruptedKey
           \/ AskReplace \/ AskDiscard \/ Save \/ ToggleMode \/ Quit
           \/ \E c \in Chars : Replace(c)
           \/ \E yes \in BOOLEAN : Discard(yes)
    PROVE  BlockInv'
<1>0. /\ text \in Seq(Chars) /\ Len(text) \in Nat /\ file \in Seq(Chars) /\ Len(file) \in Nat
      /\ cursor \in Nat
  BY LenProperties DEF SafeInv, Types
<1>1. CASE \/ EndOfLine \/ CopyLine \/ InterruptedKey
           \/ AskReplace \/ AskDiscard \/ Save \/ ToggleMode \/ Quit
  <2>1. UNCHANGED <<text, block>> /\ pc' \in {pc, "replace", "discard"}
    BY <1>1 DEF EndOfLine, CopyLine, InterruptedKey, AskReplace, AskDiscard, Ask, Save, ToggleMode, Quit
  <2> QED BY <2>1 DEF BlockInv
<1>2. CASE CutLine
  <2>1. pc = "getchar" /\ pc' = "getchar" /\ block' = block
    BY <1>2 DEF CutLine, Key
  <2>2. Len(text') \in Nat /\ Len(text') <= Len(text)
    BY <1>0, <1>2, CutLength
  <2> QED BY <1>0, <2>1, <2>2 DEF BlockInv
<1>3. CASE Paste
  <2>1. pc' = "getchar" /\ block' = Len(text) + Len(clip.chars)
    BY <1>3 DEF Paste, Key
  <2>2. Len(text') \in Nat /\ Len(text') = Len(text) + Len(clip.chars) /\ Len(clip.chars) \in Nat
    BY <1>0, <1>3, PasteLength
  <2> QED BY <1>0, <2>1, <2>2 DEF BlockInv
<1>4. ASSUME NEW c \in Chars, Replace(c) PROVE BlockInv'
  <2>1. pc' = "getchar" /\ block' = block /\ Len(text') = Len(text)
    <3>1. CASE text' = text
      BY <1>4, <3>1 DEF Replace
    <3>2. CASE text' # text
      <4>1. text' = [text EXCEPT ![cursor + 1] = c] /\ cursor < Len(text)
        BY <1>0, <1>4, <3>2 DEF Replace
      <4>2. cursor + 1 \in 1 .. Len(text)
        BY <1>0, <4>1
      <4> QED BY <1>0, <1>4, <4>1, <4>2, ExceptSeq DEF Replace
    <3> QED BY <3>1, <3>2
  <2> QED BY <2>1 DEF BlockInv
<1>5. ASSUME NEW yes \in BOOLEAN, Discard(yes) PROVE BlockInv'
  <2>1. pc' = "getchar" /\ (UNCHANGED <<text, block>> \/ (text' = file /\ block' = Len(file)))
    BY <1>5 DEF Discard
  <2> QED BY <1>0, <2>1 DEF BlockInv
<1> QED BY <1>1, <1>2, <1>3, <1>4, <1>5

\* Typing, erasing and moving.
LEMMA BlockInsert ==
    ASSUME SafeInv, BlockInv,
           \/ arrow_keys_sighandler \/ MoveKey
           \/ Grow \/ Shift \/ Store \/ Advance \/ \E c \in Chars : Type(c)
           \/ Backspace \/ Unshift \/ Shrink \/ Retreat
    PROVE  BlockInv'
<1>0. text \in Seq(Chars) /\ Len(text) \in Nat /\ cursor \in Nat
  BY LenProperties DEF SafeInv, Types
<1>1. CASE arrow_keys_sighandler \/ MoveKey
  <2>1. UNCHANGED <<text, block, pc>>
    BY <1>1 DEF arrow_keys_sighandler, MoveKey
  <2> QED BY <2>1 DEF BlockInv
<1>2. CASE Grow
  BY <1>0, <1>2, AppendProperties DEF Grow, Step, BlockInv
<1>3. CASE Shift
  <2>1. pc = "shift" /\ pc' = "store" /\ block' = block
    BY <1>3 DEF Shift, Step
  <2> QED BY <1>0, <1>3, <2>1, ShiftFacts DEF BlockInv
<1>4. CASE Store
  <2>1. pc = "store" /\ pc' = "advance" /\ block' = block
    BY <1>4 DEF Store, Step
  <2>2. Len(text') = Len(text)
    <3>1. CASE cursor < Len(text)
      BY <1>0, <1>4, <3>1, ExceptSeq DEF Store
    <3>2. CASE ~(cursor < Len(text))
      BY <1>4, <3>2 DEF Store
    <3> QED BY <3>1, <3>2
  <2> QED BY <2>1, <2>2 DEF BlockInv
<1>5. CASE Advance \/ Retreat \/ Backspace \/ \E c \in Chars : Type(c)
  <2>1. UNCHANGED <<text, block>> /\ pc' \in {"getchar", "grow", "unshift"}
    BY <1>5 DEF Advance, Retreat, Backspace, Type, Step, Key
  <2>2. pc' = "unshift" => text # <<>>
    BY <1>5 DEF Advance, Retreat, Backspace, Type, Step, Key
  <2> QED BY <2>1, <2>2 DEF BlockInv
<1>6. CASE Unshift
  <2>1. pc = "unshift" /\ pc' = "shrink" /\ block' = block
    BY <1>6 DEF Unshift, Step
  <2>2. Len(text') = Len(text) /\ text' \in Seq(Chars)
    <3>1. CASE cursor = 0
      BY <1>0, <1>6, <3>1 DEF Unshift
    <3>2. CASE cursor # 0
      BY <1>0, <1>6, <3>2, UnshiftFacts
    <3> QED BY <3>1, <3>2
  <2>3. text # <<>>
    BY <2>1 DEF BlockInv
  <2>4. text' # <<>>
    BY <1>0, <2>2, <2>3, EmptySeq
  <2> QED BY <2>1, <2>2, <2>4 DEF BlockInv
<1>7. CASE Shrink
  <2>1. pc = "shrink" /\ pc' = "retreat" /\ block' = Len(text) - 1 /\ text' = Front(text)
    BY <1>7 DEF Shrink, Step
  <2>2. text # <<>>
    BY <2>1 DEF BlockInv
  <2>3. Len(text') = Len(text) - 1 /\ Len(text) \in Nat \ {0}
    BY <1>0, <2>1, <2>2, FrontFacts
  <2> QED BY <2>1, <2>3 DEF BlockInv
<1> QED BY <1>1, <1>2, <1>3, <1>4, <1>5, <1>6, <1>7

LEMMA BlockStep == SafeInv /\ BlockInv /\ [Next]_vars => BlockInv'
<1>1. BlockInv /\ UNCHANGED vars => BlockInv'
  BY DEF vars, BlockInv
<1> QED BY <1>1, BlockEdit, BlockInsert DEF Next

LEMMA AlwaysSafe == Spec => [](SafeInv /\ BlockInv)
BY SafeInit, SafeStep, BlockInit, BlockStep, PTL DEF Spec

\* The types of the editor's state: the text stays a text and the counters of
\* the status line stay in their width, whatever the user does (foxe).
THEOREM TypesStay == Spec => []TypeOK
<1>1. SafeInv /\ BlockInv => TypeOK
  BY DEF SafeInv, BlockInv, TypeOK
<1> QED BY <1>1, AlwaysSafe, PTL

\* The byte behind the block that every insertion writes is the only one a
\* careful user makes foxe write outside the text's block; nothing is freed
\* twice, and the cursor is in the text: by InText, CarefulPlace and BlockInv.
THEOREM NoOtherOverrunEver == Spec => []NoOtherOverrun
<1>1. SafeInv /\ BlockInv => NoOtherOverrun
  BY DEF SafeInv, InText, CarefulPlace, BlockInv, NoOtherOverrun
<1> QED BY <1>1, AlwaysSafe, PTL

(***************************************************************************)
(* A text without one of its characters                                    *)
(***************************************************************************)
Without(s, at) == Before(s, at) \o SubSeq(s, at + 2, Len(s))

LEMMA WithoutFacts ==
    ASSUME NEW s \in Seq(Chars), NEW at \in 0 .. Len(s) - 1
    PROVE  /\ Without(s, at) \in Seq(Chars)
           /\ Len(Without(s, at)) = Len(s) - 1
           /\ \A i \in 1 .. Len(s) - 1 : Without(s, at)[i] = IF i <= at THEN s[i] ELSE s[i + 1]
<1>0. Len(s) \in Nat /\ at + 2 \in 1 .. Len(s) + 1 /\ at \in 0 .. Len(s) /\ at \in Nat
  BY LenProperties
<1> DEFINE a == SubSeq(s, 1, at)
           b == SubSeq(s, at + 2, Len(s))
<1>1. a \in Seq(Chars) /\ Len(a) = at /\ \A i \in 1 .. at : a[i] = s[i]
  BY <1>0, PieceFacts
<1>2. /\ b \in Seq(Chars) /\ Len(b) = Len(s) - 1 - at
      /\ \A i \in 1 .. Len(s) - 1 - at : b[i] = s[at + 1 + i]
  BY <1>0, PieceFacts
<1>3. Without(s, at) = a \o b
  BY DEF Without, Before
<1> HIDE DEF a, b
<1>4. /\ a \o b \in Seq(Chars) /\ Len(a \o b) = Len(a) + Len(b)
      /\ \A i \in 1 .. Len(a) + Len(b) : (a \o b)[i] = IF i <= Len(a) THEN a[i] ELSE b[i - Len(a)]
  BY <1>1, <1>2, ConcatProperties
<1>5. Len(a \o b) = Len(s) - 1
  BY <1>0, <1>1, <1>2, <1>4
<1>6. ASSUME NEW i \in 1 .. Len(s) - 1 PROVE (a \o b)[i] = IF i <= at THEN s[i] ELSE s[i + 1]
  <2>1. i \in 1 .. Len(a) + Len(b)
    BY <1>0, <1>1, <1>2
  <2>2. CASE i <= at
    BY <1>1, <1>4, <2>1, <2>2
  <2>3. CASE i > at
    <3>1. (a \o b)[i] = b[i - at]
      BY <1>0, <1>1, <1>4, <2>1, <2>3
    <3>2. i - at \in 1 .. Len(s) - 1 - at
      BY <1>0, <2>3
    <3>3. b[i - at] = s[at + 1 + (i - at)] /\ at + 1 + (i - at) = i + 1
      BY <1>0, <1>2, <3>2
    <3>4. b[i - at] = s[i + 1]
      BY <3>3
    <3>5. ~(i <= at)
      BY <1>0, <2>3
    <3> QED BY <3>1, <3>4, <3>5
  <2>4. i <= at \/ i > at
    BY <1>0
  <2> QED BY <2>2, <2>3, <2>4
<1> QED BY <1>3, <1>4, <1>5, <1>6

\* A piece of a text, a character and the rest of the text make a text.
LEMMA PutBack ==
    ASSUME NEW s \in Seq(Chars), NEW at \in 0 .. Len(s) - 1
    PROVE  LET w == Without(s, at) IN
           s = (SubSeq(w, 1, at) \o <<s[at + 1]>>) \o SubSeq(w, at + 1, Len(w))
<1>0. Len(s) \in Nat /\ at \in Nat /\ at < Len(s) /\ at + 1 \in 1 .. Len(s)
  BY LenProperties
<1> DEFINE w == Without(s, at)
           a == SubSeq(w, 1, at)
           c == s[at + 1]
           b == SubSeq(w, at + 1, Len(w))
<1>1. /\ w \in Seq(Chars) /\ Len(w) = Len(s) - 1
      /\ \A i \in 1 .. Len(s) - 1 : w[i] = IF i <= at THEN s[i] ELSE s[i + 1]
  BY WithoutFacts
<1>2. c \in Chars
  BY <1>0, ElementOfSeq
<1> HIDE DEF w
<1>3. a \in Seq(Chars) /\ Len(a) = at /\ \A i \in 1 .. at : a[i] = w[i]
  <2>1. 1 \in 1 .. Len(w) + 1 /\ at \in 0 .. Len(w)
    BY <1>0, <1>1
  <2> QED BY <1>0, <1>1, <2>1, PieceFacts
<1>4. /\ b \in Seq(Chars) /\ Len(b) = Len(s) - 1 - at
      /\ \A i \in 1 .. Len(s) - 1 - at : b[i] = w[at + i]
  <2>1. at + 1 \in 1 .. Len(w) + 1 /\ Len(w) \in 0 .. Len(w)
    BY <1>0, <1>1
  <2> QED BY <1>0, <1>1, <2>1, PieceFacts
<1> HIDE DEF a, b, c
<1>5. /\ a \o <<c>> \in Seq(Chars) /\ Len(a \o <<c>>) = at + 1
      /\ \A i \in 1 .. at + 1 : (a \o <<c>>)[i] = IF i <= at THEN a[i] ELSE c
  <2>1. <<c>> \in Seq(Chars) /\ Len(<<c>>) = 1 /\ <<c>>[1] = c
    BY <1>2
  <2>2. /\ a \o <<c>> \in Seq(Chars) /\ Len(a \o <<c>>) = Len(a) + Len(<<c>>)
        /\ \A i \in 1 .. Len(a) + Len(<<c>>) :
             (a \o <<c>>)[i] = IF i <= Len(a) THEN a[i] ELSE <<c>>[i - Len(a)]
    BY <1>3, <2>1, ConcatProperties
  <2>3. \A i \in 1 .. at + 1 : ~(i <= at) => i - at = 1
    BY <1>0
  <2> QED BY <1>0, <1>3, <2>1, <2>2, <2>3
<1> DEFINE ac == a \o <<c>>
           t == ac \o b
<1> HIDE DEF ac
<1>6. /\ t \in Seq(Chars) /\ Len(t) = Len(ac) + Len(b)
      /\ \A i \in 1 .. Len(ac) + Len(b) : t[i] = IF i <= Len(ac) THEN ac[i] ELSE b[i - Len(ac)]
  BY <1>4, <1>5, ConcatProperties DEF ac
<1> HIDE DEF t
<1>7. Len(ac) = at + 1 /\ Len(t) = Len(s)
  <2>1. Len(ac) = at + 1
    BY <1>5 DEF ac
  <2>2. Len(t) = (at + 1) + (Len(s) - 1 - at)
    BY <1>4, <1>6, <2>1
  <2> QED BY <1>0, <2>1, <2>2
<1>8. ASSUME NEW i \in 1 .. Len(s) PROVE t[i] = s[i]
  <2>1. i \in 1 .. Len(ac) + Len(b)
    BY <1>0, <1>6, <1>7
  <2>2. CASE i <= at
    <3>1. t[i] = ac[i]
      BY <1>0, <1>6, <1>7, <2>1, <2>2
    <3>2. ac[i] = a[i]
      BY <1>0, <1>5, <2>2 DEF ac
    <3>3. a[i] = w[i] /\ w[i] = s[i]
      BY <1>0, <1>1, <1>3, <2>2
    <3> QED BY <3>1, <3>2, <3>3
  <2>3. CASE i = at + 1
    <3>1. t[i] = ac[i]
      BY <1>0, <1>6, <1>7, <2>1, <2>3
    <3>2. ac[i] = c
      BY <1>0, <1>5, <2>3, SMTT(30) DEF ac
    <3> QED BY <2>3, <3>1, <3>2 DEF c
  <2>4. CASE i > at + 1
    <3>1. t[i] = b[i - (at + 1)]
      BY <1>0, <1>6, <1>7, <2>1, <2>4
    <3>2. i - (at + 1) \in 1 .. Len(s) - 1 - at
      BY <1>0, <2>4
    <3>3. b[i - (at + 1)] = w[at + (i - (at + 1))] /\ at + (i - (at + 1)) = i - 1
      BY <1>0, <1>4, <3>2
    <3>4. i - 1 \in 1 .. Len(s) - 1 /\ ~(i - 1 <= at) /\ (i - 1) + 1 = i
      BY <1>0, <2>4
    <3>5. w[i - 1] = s[i]
      BY <1>1, <3>4
    <3> QED BY <3>1, <3>3, <3>5
  <2> QED BY <1>0, <2>2, <2>3, <2>4
<1>9. t = s
  BY <1>6, <1>7, <1>8, SeqEqual
<1> QED BY <1>9 DEF t, ac, a, b, c, w

(***************************************************************************)
(* What a careful user sees during the steps of a key                      *)
(***************************************************************************)
Plain == {"getchar", "replace", "discard", "grow", "unshift", "retreat"}

LEMMA SeenPlain == ASSUME pc \in Plain PROVE SeenText = text
BY DEF Plain, SeenText

LEMMA SeenWithout ==
    ASSUME pc \in {"store", "advance"} PROVE SeenText = Without(text, cursor)
BY DEF SeenText, Without

LEMMA SeenGrow == ASSUME SafeInv, Grow PROVE SeenText = text /\ SeenText' = text
<1>0. pc = "grow" /\ pc' = "shift" /\ text \in Seq(Chars) /\ Len(text) \in Nat
  BY LenProperties DEF Grow, Step, SafeInv, Types
<1>1. PICK byte \in Chars : text' = Append(text, byte)
  BY DEF Grow
<1>2. /\ text' \in Seq(Chars) /\ Len(text') = Len(text) + 1 /\ text' # <<>>
      /\ \A i \in 1 .. Len(text) : text'[i] = text[i]
  BY <1>0, <1>1, AppendProperties
<1>3. SeenText' = Front(text')
  BY <1>0 DEF SeenText
<1>4. /\ Front(text') \in Seq(Chars) /\ Len(Front(text')) = Len(text)
      /\ \A i \in 1 .. Len(text) : Front(text')[i] = text[i]
  <2>1. /\ Front(text') \in Seq(Chars) /\ Len(Front(text')) = Len(text') - 1
        /\ \A i \in 1 .. Len(text') - 1 : Front(text')[i] = text'[i]
    BY <1>2, FrontFacts
  <2>2. Len(text') - 1 = Len(text)
    BY <1>0, <1>2
  <2> QED BY <1>2, <2>1, <2>2
<1>5. Front(text') = text
  BY <1>0, <1>4, SeqEqual
<1> QED BY <1>0, <1>3, <1>5 DEF SeenText

LEMMA SeenShift == ASSUME SafeInv, careful, Shift PROVE SeenText' = SeenText
<1>0. /\ pc = "shift" /\ pc' = "store" /\ cursor' = cursor /\ cursor \in Nat
      /\ text \in Seq(Chars) /\ Len(text) \in Nat /\ cursor < Len(text)
  BY LenProperties DEF Shift, Step, SafeInv, Types, CarefulPlace
<1>1. /\ text' \in Seq(Chars) /\ Len(text') = Len(text)
      /\ \A i \in 1 .. Len(text) : text'[i] = IF i <= cursor + 1 THEN text[i] ELSE text[i - 1]
  BY <1>0, ShiftFacts
<1>2. SeenText' = Without(text', cursor) /\ SeenText = Front(text)
  BY <1>0 DEF SeenText, Without, Before
<1>3. /\ Without(text', cursor) \in Seq(Chars)
      /\ Len(Without(text', cursor)) = Len(text) - 1
      /\ \A i \in 1 .. Len(text) - 1 :
            Without(text', cursor)[i] = IF i <= cursor THEN text'[i] ELSE text'[i + 1]
  <2>1. cursor \in 0 .. Len(text') - 1
    BY <1>0, <1>1
  <2> QED BY <1>1, <2>1, WithoutFacts
<1>4. /\ Front(text) \in Seq(Chars) /\ Len(Front(text)) = Len(text) - 1
      /\ \A i \in 1 .. Len(text) - 1 : Front(text)[i] = text[i]
  <2>1. text # <<>>
    BY <1>0, EmptySeq
  <2> QED BY <1>0, <2>1, FrontFacts
<1>5. ASSUME NEW i \in 1 .. Len(text) - 1 PROVE Without(text', cursor)[i] = Front(text)[i]
  <2>1. CASE i <= cursor
    <3>1. Without(text', cursor)[i] = text'[i]
      BY <1>3, <2>1
    <3>2. text'[i] = text[i]
      BY <1>0, <1>1, <2>1
    <3> QED BY <1>4, <3>1, <3>2
  <2>2. CASE i > cursor
    <3>1. i + 1 \in 1 .. Len(text) /\ ~(i + 1 <= cursor + 1) /\ (i + 1) - 1 = i /\ ~(i <= cursor)
      BY <1>0, <2>2
    <3>2. Without(text', cursor)[i] = text'[i + 1]
      BY <1>3, <3>1
    <3>3. text'[i + 1] = text[i]
      BY <1>1, <3>1
    <3> QED BY <1>4, <3>2, <3>3
  <2>3. i <= cursor \/ i > cursor
    BY <1>0
  <2> QED BY <2>1, <2>2, <2>3
<1>6. Without(text', cursor) = Front(text)
  <2>1. Len(Without(text', cursor)) = Len(Front(text))
    BY <1>3, <1>4
  <2>2. \A i \in 1 .. Len(Without(text', cursor)) : Without(text', cursor)[i] = Front(text)[i]
    BY <1>3, <1>5
  <2> QED BY <1>3, <1>4, <2>1, <2>2, SeqEqual
<1> QED BY <1>2, <1>6

\* A character that is left out may be any other one.
LEMMA WithoutStored ==
    ASSUME NEW s \in Seq(Chars), NEW at \in 0 .. Len(s) - 1, NEW c \in Chars
    PROVE  LET t == [s EXCEPT ![at + 1] = c]
           IN  /\ t \in Seq(Chars) /\ Len(t) = Len(s) /\ t[at + 1] = c
               /\ Without(t, at) = Without(s, at)
<1>0. Len(s) \in Nat /\ at \in Nat /\ at + 1 \in 1 .. Len(s)
  BY LenProperties
<1> DEFINE t == [s EXCEPT ![at + 1] = c]
<1>3. /\ t \in Seq(Chars) /\ Len(t) = Len(s)
      /\ \A i \in 1 .. Len(s) : t[i] = IF i = at + 1 THEN c ELSE s[i]
  BY <1>0, ExceptSeq
<1> HIDE DEF t
<1>5. /\ Without(t, at) \in Seq(Chars) /\ Len(Without(t, at)) = Len(s) - 1
      /\ \A i \in 1 .. Len(s) - 1 : Without(t, at)[i] = IF i <= at THEN t[i] ELSE t[i + 1]
  BY <1>3, WithoutFacts
<1>6. /\ Without(s, at) \in Seq(Chars) /\ Len(Without(s, at)) = Len(s) - 1
      /\ \A i \in 1 .. Len(s) - 1 : Without(s, at)[i] = IF i <= at THEN s[i] ELSE s[i + 1]
  BY WithoutFacts
<1>7. ASSUME NEW i \in 1 .. Len(s) - 1 PROVE Without(t, at)[i] = Without(s, at)[i]
  <2>1. CASE i <= at
    <3>1. i \in 1 .. Len(s) /\ i # at + 1
      BY <1>0, <2>1
    <3> QED BY <1>3, <1>5, <1>6, <2>1, <3>1
  <2>2. CASE ~(i <= at)
    <3>1. i + 1 \in 1 .. Len(s) /\ i + 1 # at + 1
      BY <1>0, <2>2
    <3> QED BY <1>3, <1>5, <1>6, <2>2, <3>1
  <2> QED BY <2>1, <2>2
<1>8. Without(t, at) = Without(s, at)
  <2>1. Len(Without(t, at)) = Len(Without(s, at))
    BY <1>5, <1>6
  <2>2. \A i \in 1 .. Len(Without(t, at)) : Without(t, at)[i] = Without(s, at)[i]
    BY <1>5, <1>7
  <2> QED BY <1>5, <1>6, <2>1, <2>2, SeqEqual
<1>9. t[at + 1] = c
  BY <1>0, <1>3
<1> QED BY <1>3, <1>8, <1>9 DEF t

LEMMA SeenStore ==
    ASSUME SafeInv, careful, Store
    PROVE  SeenText' = SeenText /\ text'[cursor + 1] = held
<1>0. /\ pc = "store" /\ pc' = "advance" /\ cursor' = cursor /\ cursor \in Nat
      /\ text \in Seq(Chars) /\ Len(text) \in Nat /\ cursor < Len(text) /\ held \in Chars
  BY LenProperties DEF Store, Step, SafeInv, Types, CarefulPlace
<1>1. cursor \in 0 .. Len(text) - 1
  BY <1>0
<1>2. text' = [text EXCEPT ![cursor + 1] = held]
  BY <1>0 DEF Store
<1>3. Without(text', cursor) = Without(text, cursor) /\ text'[cursor + 1] = held
  <2>1. text \in Seq(Chars) /\ held \in Chars
    BY <1>0
  <2> DEFINE t == [text EXCEPT ![cursor + 1] = held]
  <2>2. t[cursor + 1] = held /\ Without(t, cursor) = Without(text, cursor)
    BY <1>1, <2>1, WithoutStored, Zenon
  <2> HIDE DEF t
  <2>3. text' = t
    BY <1>2 DEF t
  <2> QED BY <2>2, <2>3
<1>4. SeenText' = Without(text', cursor) /\ SeenText = Without(text, cursor)
  BY <1>0 DEF SeenText, Without, Before
<1> QED BY <1>3, <1>4

\* When the cursor passes the new character it appears.
LEMMA SeenAdvance ==
    ASSUME SafeInv, careful, Advance
    PROVE  /\ cursor \in 0 .. Len(text) - 1 /\ text[cursor + 1] \in Chars
           /\ SeenText = Without(text, cursor) /\ SeenText' = text /\ SeenCursor = cursor
           /\ SeenCursor' = cursor + 1 /\ cursor' = cursor + 1 /\ status' = status
<1>0. /\ pc = "advance" /\ pc' = "getchar" /\ cursor \in Nat
      /\ text \in Seq(Chars) /\ Len(text) \in Nat /\ cursor < Len(text)
  BY LenProperties DEF Advance, Step, SafeInv, Types, CarefulPlace
<1>1. cursor' = cursor + 1 /\ text' = text /\ status' = status
  BY <1>0 DEF Advance
<1>2. text[cursor + 1] \in Chars
  <2>1. cursor + 1 \in 1 .. Len(text)
    BY <1>0
  <2> QED BY <1>0, <2>1, ElementOfSeq
<1>3. SeenText = Without(text, cursor) /\ SeenText' = text /\ SeenCursor = cursor /\ SeenCursor' = cursor + 1
  BY <1>0, <1>1 DEF SeenText, SeenCursor, Without
<1> QED BY <1>0, <1>1, <1>2, <1>3

\* The first memmove of erasing takes the character before the cursor away.
LEMMA SeenUnshift ==
    ASSUME SafeInv, careful, Unshift
    PROVE  /\ cursor \in 1 .. Len(text) /\ status' = status
           /\ SeenText = text /\ SeenText' = Without(text, cursor - 1)
           /\ SeenCursor = cursor /\ SeenCursor' = cursor - 1
<1>0. /\ pc = "unshift" /\ pc' = "shrink" /\ cursor' = cursor /\ cursor \in Nat /\ cursor > 0
      /\ text \in Seq(Chars) /\ Len(text) \in Nat /\ status # "undefined" /\ cursor <= Len(text)
  BY LenProperties DEF Unshift, Step, SafeInv, Types, InText, CarefulPlace
<1>1. cursor \in 1 .. Len(text) /\ status' = status
  BY <1>0 DEF Unshift
<1>2. /\ text' \in Seq(Chars) /\ Len(text') = Len(text)
      /\ \A i \in 1 .. Len(text) :
           text'[i] = IF i < cursor \/ i = Len(text) THEN text[i] ELSE text[i + 1]
  BY <1>0, UnshiftFacts
<1>3. /\ SeenText = text /\ SeenText' = Front(text')
      /\ SeenCursor = cursor /\ SeenCursor' = cursor - 1
  BY <1>0 DEF SeenText, SeenCursor
<1>4. /\ Front(text') \in Seq(Chars) /\ Len(Front(text')) = Len(text) - 1
      /\ \A i \in 1 .. Len(text) - 1 : Front(text')[i] = text'[i]
  <2>1. text' # <<>>
    BY <1>0, <1>2, EmptySeq
  <2> QED BY <1>2, <2>1, FrontFacts
<1>5. /\ Without(text, cursor - 1) \in Seq(Chars) /\ Len(Without(text, cursor - 1)) = Len(text) - 1
      /\ \A i \in 1 .. Len(text) - 1 :
            Without(text, cursor - 1)[i] = IF i <= cursor - 1 THEN text[i] ELSE text[i + 1]
  <2>1. cursor - 1 \in 0 .. Len(text) - 1
    BY <1>0
  <2> QED BY <1>0, <2>1, WithoutFacts
<1>6. ASSUME NEW i \in 1 .. Len(text) - 1 PROVE Front(text')[i] = Without(text, cursor - 1)[i]
  <2>0. i \in 1 .. Len(text) /\ i # Len(text) /\ (i < cursor <=> i <= cursor - 1)
    BY <1>0
  <2>1. CASE i < cursor
    BY <1>2, <1>4, <1>5, <2>0, <2>1
  <2>2. CASE ~(i < cursor)
    BY <1>2, <1>4, <1>5, <2>0, <2>2
  <2> QED BY <2>1, <2>2
<1>7. Front(text') = Without(text, cursor - 1)
  <2>1. Len(Front(text')) = Len(Without(text, cursor - 1))
    BY <1>4, <1>5
  <2>2. \A i \in 1 .. Len(Front(text')) : Front(text')[i] = Without(text, cursor - 1)[i]
    BY <1>4, <1>6
  <2> QED BY <1>4, <1>5, <2>1, <2>2, SeqEqual
<1> QED BY <1>1, <1>3, <1>7

LEMMA SeenShrink ==
    ASSUME Shrink PROVE SeenText' = SeenText /\ SeenCursor' = SeenCursor /\ text' = SeenText
BY DEF Shrink, Step, SeenText, SeenCursor

LEMMA SeenRetreat ==
    ASSUME SafeInv, careful, Retreat
    PROVE  /\ SeenText' = SeenText /\ SeenCursor' = SeenCursor /\ SeenText = text
           /\ cursor > 0 /\ cursor' = cursor - 1 /\ status' = status
<1>0. pc = "retreat" /\ pc' = "getchar" /\ cursor \in Nat /\ cursor > 0
  BY DEF Retreat, Step, SafeInv, Types, CarefulPlace
<1>1. cursor' = cursor - 1 /\ text' = text /\ status' = status
  BY <1>0 DEF Retreat
<1> QED BY <1>0, <1>1 DEF SeenText, SeenCursor

(***************************************************************************)
(* The steps that are none of TextEditor, and those that are one.          *)
(***************************************************************************)
LEMMA Hidden ==
    ASSUME careful, careful', SeenText' = SeenText, SeenCursor' = SeenCursor,
           clip'.chars = clip.chars, file' = file
    PROVE  UNCHANGED A!vars
BY DEF A!vars

LEMMA IsMove ==
    ASSUME careful, careful', SeenText' = SeenText, SeenCursor' \in 0 .. Len(SeenText),
           clip'.chars = clip.chars, file' = file
    PROVE  A!Next
BY DEF A!Next, A!Edit, A!Move

LEMMA IsType ==
    ASSUME careful, careful', clip' = clip, file' = file, Advance, SafeInv
    PROVE  A!Next
<1>1. /\ cursor \in 0 .. Len(text) - 1 /\ text[cursor + 1] \in Chars
      /\ SeenText = Without(text, cursor) /\ SeenText' = text /\ SeenCursor = cursor
      /\ SeenCursor' = cursor + 1
  BY SeenAdvance
<1>2. text \in Seq(Chars)
  BY DEF SafeInv, Types
<1>3. text = (SubSeq(SeenText, 1, cursor) \o <<text[cursor + 1]>>) \o SubSeq(SeenText, cursor + 1, Len(SeenText))
  BY <1>1, <1>2, PutBack
<1>4. Len(<<text[cursor + 1]>>) = 1
  OBVIOUS
<1>5. A!Insert(<<text[cursor + 1]>>)
  BY <1>1, <1>3, <1>4 DEF A!Insert, A!Put
<1>6. A!Type
  BY <1>1, <1>5 DEF A!Type
<1> QED BY <1>6 DEF A!Next, A!Edit

LEMMA IsDelete ==
    ASSUME careful, careful', clip' = clip, file' = file, Unshift, SafeInv
    PROVE  A!Next
<1>1. /\ cursor \in 1 .. Len(text)
      /\ SeenText = text /\ SeenText' = Without(text, cursor - 1)
      /\ SeenCursor = cursor /\ SeenCursor' = cursor - 1
  BY SeenUnshift
<1>2. (cursor - 1) + 2 = cursor + 1 /\ cursor > 0
  BY <1>1
<1>3. SeenText' = SubSeq(text, 1, cursor - 1) \o SubSeq(text, cursor + 1, Len(text))
  BY <1>1, <1>2 DEF Without, Before
<1>4. A!Delete
  <2>1. A!Piece(0, cursor - 1) = SubSeq(text, 1, cursor - 1)
    BY <1>1 DEF A!Piece
  <2>2. A!Piece(cursor, Len(text)) = SubSeq(text, cursor + 1, Len(text))
    BY <1>1 DEF A!Piece
  <2>3. SeenText' = A!Piece(0, cursor - 1) \o A!Piece(cursor, Len(text))
    BY <1>3, <2>1, <2>2
  <2> QED BY <1>1, <1>2, <2>3 DEF A!Delete
<1> QED BY <1>4 DEF A!Next, A!Edit

Awaits == {"getchar", "replace", "discard"}

LEMMA Awaiting ==
    ASSUME SafeInv, careful, pc \in Awaits
    PROVE  SeenText = text /\ SeenCursor = cursor /\ cursor \in 0 .. Len(text)
<1>1. cursor \in Nat /\ text \in Seq(Chars) /\ Len(text) \in Nat /\ status # "undefined"
  BY LenProperties DEF SafeInv, Types, CarefulPlace
<1>2. cursor <= Len(text)
  BY <1>1 DEF SafeInv, InText, Awaits
<1> QED BY <1>1, <1>2 DEF Awaits, SeenText, SeenCursor

LEMMA AwaitingNext ==
    ASSUME SafeInv', careful', pc' \in Awaits
    PROVE  SeenText' = text' /\ SeenCursor' = cursor' /\ cursor' \in 0 .. Len(text')
<1>1. cursor' \in Nat /\ text' \in Seq(Chars) /\ Len(text') \in Nat /\ status' # "undefined"
  BY LenProperties DEF SafeInv, Types, CarefulPlace
<1>2. cursor' <= Len(text')
  BY <1>1 DEF SafeInv, InText, Awaits
<1> QED BY <1>1, <1>2 DEF Awaits, SeenText, SeenCursor

LEMMA AwaitingMoves ==
    ASSUME SafeInv, SafeInv', careful, careful', pc \in Awaits, pc' \in Awaits,
           text' = text, clip' = clip, file' = file
    PROVE  A!Next
BY Awaiting, AwaitingNext, IsMove

LEMMA IsPaste ==
    ASSUME careful, careful', Paste, SafeInv, SafeInv'
    PROVE  A!Next
<1>0. pc = "getchar" /\ pc' = "getchar" /\ clip.set
  BY DEF Paste, Key
<1>1. SeenText = text /\ SeenCursor = cursor /\ SeenText' = text' /\ SeenCursor' = cursor'
  BY <1>0, Awaiting, AwaitingNext DEF Awaits
<1>2. cursor = Len(text) /\ clip.chars # <<>>
  BY DEF Paste, Same
<1>3. text \in Seq(Chars) /\ Len(text) \in Nat /\ clip.chars \in Seq(Chars)
  BY LenProperties DEF SafeInv, Types
<1>4. text' = (SubSeq(text, 1, cursor) \o clip.chars) \o <<>>
  BY <1>2 DEF Paste, Before
<1>5. SubSeq(text, cursor + 1, Len(text)) = <<>>
  BY <1>2, <1>3, SubSeqEmpty
<1>6. /\ text' = (SubSeq(text, 1, cursor) \o clip.chars) \o SubSeq(text, cursor + 1, Len(text))
      /\ cursor' = cursor + Len(clip.chars) /\ file' = file /\ clip'.chars = <<>>
  BY <1>4, <1>5 DEF Paste, NoClip
<1>7. A!Insert(clip.chars)
  BY <1>1, <1>6 DEF A!Insert, A!Put
<1>8. A!Paste
  BY <1>2, <1>6, <1>7 DEF A!Paste
<1> QED BY <1>8 DEF A!Next, A!Edit

LEMMA IsCopy ==
    ASSUME careful, careful', CopyLine, SafeInv, SafeInv'
    PROVE  A!Next
<1>0. pc = "getchar" /\ pc' = "getchar" /\ text' = text /\ file' = file
  BY DEF CopyLine, Key
<1>1. /\ SeenText = text /\ SeenCursor = cursor /\ SeenText' = text /\ SeenCursor' = cursor'
      /\ cursor \in 0 .. Len(text) /\ cursor' \in 0 .. Len(text)
  BY <1>0, Awaiting, AwaitingNext DEF Awaits
<1>2. text \in Seq(Chars) /\ Len(text) \in Nat /\ LineStart(text) \in 0 .. cursor
  BY <1>1, LenProperties, LineStartFacts DEF SafeInv, Types
<1>3. PICK end \in Stops(LineStart(text)) : clip' = Clip(end) /\ cursor' = end
  BY DEF CopyLine
<1>4. end \in LineStart(text) .. Len(text)
  BY <1>1, <1>2, StopsFacts
<1> DEFINE from == LineStart(text)
           to == IF end < Len(text) THEN end + 1 ELSE end
<1>5. clip'.chars = SubSeq(text, from + 1, to)
  <2>1. Types /\ cursor <= Len(text)
    BY <1>1, <1>2 DEF SafeInv
  <2> QED BY <1>3, <1>4, <2>1, ClipFacts
<1>6. from \in 0 .. end /\ to \in end .. Len(text) /\ end \in 0 .. Len(text)
  BY <1>1, <1>2, <1>4
<1> HIDE DEF from, to
<1>7. clip'.chars = A!Piece(from, to)
  BY <1>1, <1>5 DEF A!Piece
<1>8. A!Copy
  <2>1. \E f \in 0 .. cursor', t \in cursor' .. Len(SeenText) : clip'.chars = A!Piece(f, t)
    BY <1>1, <1>3, <1>6, <1>7
  <2> QED BY <1>0, <1>1, <2>1 DEF A!Copy
<1> QED BY <1>8 DEF A!Next, A!Edit

\* What a careful user cuts is the rest of the text from the start of the line.
LEMMA CutFacts ==
    ASSUME careful, careful', CutLine, SafeInv, SafeInv'
    PROVE  /\ LineStart(text) \in 0 .. cursor /\ cursor' = LineStart(text)
           /\ text' = Before(text, LineStart(text))
           /\ clip'.chars = SubSeq(text, LineStart(text) + 1, Len(text))
<1>0. pc = "getchar" /\ pc' = "getchar" /\ file' = file
  BY DEF CutLine, Key
<1>1. /\ SeenText = text /\ SeenCursor = cursor /\ SeenText' = text' /\ SeenCursor' = cursor'
      /\ cursor \in 0 .. Len(text)
  BY <1>0, Awaiting, AwaitingNext DEF Awaits
<1>2. text \in Seq(Chars) /\ Len(text) \in Nat /\ LineStart(text) \in 0 .. cursor
  BY <1>1, LenProperties, LineStartFacts DEF SafeInv, Types
<1> DEFINE from == LineStart(text)
<1>3. /\ clip' = Clip(Len(text))
      /\ Len(text) - Len(Clip(Len(text)).chars) >= 0 =>
            /\ text' = Before(text, Len(text) - Len(Clip(Len(text)).chars)) \o SubSeq(text, Len(text) + 1, Len(text))
            /\ cursor' = Len(text) - Len(Clip(Len(text)).chars)
  <2>1. PICK end \in Stops(LineStart(text)) :
          /\ clip' = Clip(end)
          /\ Same(end = Len(text) /\ ~Crosses(LineStart(text), end) /\ clip'.chars # <<>>)
          /\ IF end - Len(Clip(end).chars) < 0 THEN status' = "undefined" /\ UNCHANGED <<text, cursor>>
             ELSE /\ text' = Before(text, end - Len(Clip(end).chars)) \o SubSeq(text, end + 1, Len(text))
                  /\ cursor' = end - Len(Clip(end).chars)
                  /\ UNCHANGED status
    BY DEF CutLine
  <2>2. end = Len(text)
    BY <2>1 DEF Same
  <2>3. ASSUME end - Len(Clip(end).chars) >= 0
        PROVE  /\ text' = Before(text, end - Len(Clip(end).chars)) \o SubSeq(text, end + 1, Len(text))
               /\ cursor' = end - Len(Clip(end).chars)
    <3>1. Len(Clip(end).chars) \in Int
      <4>1. end \in LineStart(text) .. Len(text)
        BY <1>1, <1>2, <2>2
      <4> QED BY <1>1, <1>2, <4>1, ClipFacts
    <3>2. ~(end - Len(Clip(end).chars) < 0)
      BY <1>2, <2>2, <2>3, <3>1
    <3> QED BY <2>1, <3>2
  <2> QED BY <2>1, <2>2, <2>3
<1>4. /\ Clip(Len(text)).chars = SubSeq(text, from + 1, Len(text))
      /\ Len(Clip(Len(text)).chars) = Len(text) - from
  <2>1. Types /\ cursor <= Len(text) /\ Len(text) \in LineStart(text) .. Len(text) /\ ~(Len(text) < Len(text))
    BY <1>1, <1>2 DEF SafeInv
  <2> HIDE DEF SafeInv
  <2> QED BY <2>1, ClipFacts
<1>5. Len(text) - Len(Clip(Len(text)).chars) = from
  BY <1>2, <1>4
<1>6. cursor' = from /\ text' = SubSeq(text, 1, from) \o SubSeq(text, Len(text) + 1, Len(text))
  <2>1. from >= 0
    BY <1>2
  <2>2. /\ cursor' = from
        /\ text' = Before(text, from) \o SubSeq(text, Len(text) + 1, Len(text))
    <3> HIDE DEF from
    <3> QED BY <1>3, <1>5, <2>1
  <2> QED BY <2>2 DEF Before
<1>7. SubSeq(text, Len(text) + 1, Len(text)) = <<>> /\ SubSeq(text, 1, from) \in Seq(Chars)
  <2>1. 1 \in 1 .. Len(text) + 1 /\ from \in 0 .. Len(text)
    BY <1>1, <1>2
  <2> QED BY <1>2, <2>1, SubSeqEmpty, PieceFacts
<1>8. text' = SubSeq(text, 1, from)
  BY <1>6, <1>7, ConcatEmptySeq
<1> QED BY <1>2, <1>3, <1>4, <1>6, <1>8 DEF Before

LEMMA IsCut ==
    ASSUME careful, careful', CutLine, SafeInv, SafeInv'
    PROVE  A!Next
<1>0. pc = "getchar" /\ pc' = "getchar" /\ file' = file
  BY DEF CutLine, Key
<1>1. /\ SeenText = text /\ SeenCursor = cursor /\ SeenText' = text' /\ SeenCursor' = cursor'
  BY <1>0, Awaiting, AwaitingNext DEF Awaits
<1> DEFINE from == LineStart(text)
<1>2. /\ from \in 0 .. cursor /\ cursor' = from
      /\ text' = Before(text, from) /\ clip'.chars = SubSeq(text, from + 1, Len(text))
  BY CutFacts
<1> HIDE DEF from
<1>3. A!Piece(0, from) = SubSeq(text, 1, from) /\ A!Piece(from, Len(text)) = SubSeq(text, from + 1, Len(text))
  <2>1. 0 + 1 = 1
    OBVIOUS
  <2> QED BY <1>1, <2>1 DEF A!Piece
<1>4. A!CutRest
  <2>1. text' = A!Piece(0, cursor') /\ clip'.chars = A!Piece(cursor', Len(text))
    BY <1>2, <1>3 DEF Before
  <2> QED BY <1>0, <1>1, <1>2, <2>1 DEF A!CutRest
<1> QED BY <1>4 DEF A!Next, A!Edit

LEMMA IsReplace ==
    ASSUME careful, careful', NEW c \in Chars, Replace(c), SafeInv, SafeInv'
    PROVE  A!Next \/ UNCHANGED A!vars
<1>0. pc = "replace" /\ pc' = "getchar" /\ file' = file /\ clip' = clip /\ cursor' = cursor
  BY DEF Replace
<1>1. /\ SeenText = text /\ SeenCursor = cursor /\ SeenText' = text' /\ SeenCursor' = cursor'
      /\ cursor \in 0 .. Len(text) /\ Len(text) \in Nat
  BY <1>0, Awaiting, AwaitingNext, LenProperties DEF Awaits, SafeInv, Types
<1>2. CASE text' = text
  BY <1>0, <1>1, <1>2, Hidden
<1>3. CASE text' # text
  <2>1. cursor < Len(text) /\ text' = [text EXCEPT ![cursor + 1] = c]
    BY <1>1, <1>3 DEF Replace
  <2>2. A!Replace
    BY <1>0, <1>1, <2>1 DEF A!Replace
  <2> QED BY <2>2 DEF A!Next, A!Edit
<1> QED BY <1>2, <1>3

LEMMA IsDiscard ==
    ASSUME careful, careful', NEW yes \in BOOLEAN, Discard(yes), SafeInv, SafeInv'
    PROVE  A!Next \/ UNCHANGED A!vars
<1>0. pc = "discard" /\ pc' = "getchar" /\ file' = file /\ clip' = clip
  BY DEF Discard
<1>1. SeenText = text /\ SeenCursor = cursor /\ SeenText' = text' /\ SeenCursor' = cursor'
  BY <1>0, Awaiting, AwaitingNext DEF Awaits
<1>2. CASE ~yes
  BY <1>0, <1>1, <1>2, Hidden DEF Discard
<1>3. CASE yes
  <2>1. text' = file /\ cursor' = Len(file)
    BY <1>3 DEF Discard
  <2>2. A!Discard
    BY <1>0, <1>1, <2>1 DEF A!Discard
  <2> QED BY <2>2 DEF A!Next, A!Edit
<1> QED BY <1>2, <1>3

LEMMA IsSave ==
    ASSUME careful, careful', Save, SafeInv, SafeInv'
    PROVE  A!Next
<1>0. /\ pc = "getchar" /\ pc' = "getchar" /\ clip' = clip /\ text' = text /\ cursor' = cursor
      /\ file' = text \o SubSeq(file, Len(text) + 1, Len(file))
  BY DEF Save, Key, Overwrite
<1>1. SeenText = text /\ SeenCursor = cursor /\ SeenText' = text /\ SeenCursor' = cursor
  BY <1>0, Awaiting, AwaitingNext DEF Awaits
<1>2. A!Save
  BY <1>0, <1>1 DEF A!Save
<1> QED BY <1>2 DEF A!Next, A!Edit

LEMMA CarefulBefore == [Next]_vars /\ careful' => careful /\ ~InterruptedKey
BY DEF Next, vars, InterruptedKey, arrow_keys_sighandler, MoveKey, EndOfLine, CopyLine, CutLine, Paste,
       AskReplace, AskDiscard, Ask, Save, ToggleMode, Quit, Replace, Type, Discard,
       Grow, Shift, Store, Advance, Backspace, Unshift, Shrink, Retreat, Same

LEMMA EditorStep ==
    ASSUME SafeInv, SafeInv', [Next]_vars
    PROVE  [A!Next]_A!vars
<1>1. CASE ~careful'
  BY <1>1 DEF A!Next
<1>2. CASE careful'
  <2>0. careful /\ ~InterruptedKey
    BY <1>2, CarefulBefore
  <2>1. CASE arrow_keys_sighandler
    <3>1. pc \in Awaits /\ pc' \in Awaits /\ text' = text /\ clip' = clip /\ file' = file
      BY <1>2, <2>1 DEF arrow_keys_sighandler, Same, Awaits
    <3> QED BY <1>2, <2>0, <3>1, AwaitingMoves
  <2>2. CASE MoveKey
    <3>1. pc \in Awaits /\ pc' \in Awaits /\ text' = text /\ clip' = clip /\ file' = file
      BY <2>2 DEF MoveKey, Key, Awaits
    <3> QED BY <1>2, <2>0, <3>1, AwaitingMoves
  <2>3. CASE EndOfLine
    <3>1. pc \in Awaits /\ pc' \in Awaits /\ text' = text /\ clip' = clip /\ file' = file
      BY <2>3 DEF EndOfLine, Key, Awaits
    <3> QED BY <1>2, <2>0, <3>1, AwaitingMoves
  <2>4. CASE CopyLine \/ CutLine \/ Paste \/ Save
    BY <1>2, <2>0, <2>4, IsCopy, IsCut, IsPaste, IsSave
  <2>5. CASE AskReplace \/ AskDiscard
    <3>1. pc \in Awaits /\ pc' \in Awaits /\ text' = text /\ clip' = clip /\ file' = file /\ cursor' = cursor
      BY <2>5 DEF AskReplace, AskDiscard, Ask, Key, Awaits
    <3> QED BY <1>2, <2>0, <3>1, AwaitingMoves
  <2>6. CASE ToggleMode \/ Quit
    <3>1. pc \in Awaits /\ pc' \in Awaits /\ text' = text /\ clip' = clip /\ file' = file /\ cursor' = cursor
      BY <2>6 DEF ToggleMode, Quit, Key, Awaits
    <3> QED BY <1>2, <2>0, <3>1, AwaitingMoves
  <2>7. ASSUME NEW c \in Chars, Replace(c) PROVE A!Next \/ UNCHANGED A!vars
    BY <1>2, <2>0, <2>7, IsReplace
  <2>8. ASSUME NEW yes \in BOOLEAN, Discard(yes) PROVE A!Next \/ UNCHANGED A!vars
    BY <1>2, <2>0, <2>8, IsDiscard
  <2>9. ASSUME NEW c \in Chars, Type(c) PROVE UNCHANGED A!vars
    <3>1. /\ pc = "getchar" /\ pc' = "grow" /\ text' = text /\ cursor' = cursor
          /\ clip' = clip /\ file' = file
      BY <2>9 DEF Type, Key
    <3> QED BY <1>2, <2>0, <3>1, Hidden DEF SeenText, SeenCursor
  <2>10. CASE Grow
    <3>1. pc = "grow" /\ pc' = "shift" /\ cursor' = cursor /\ clip' = clip /\ file' = file
      BY <2>10 DEF Grow, Step
    <3>2. SeenText' = SeenText /\ SeenCursor' = SeenCursor
      BY <2>10, <3>1, SeenGrow DEF SeenCursor
    <3> QED BY <1>2, <2>0, <3>1, <3>2, Hidden
  <2>11. CASE Shift
    <3>1. pc = "shift" /\ pc' = "store" /\ cursor' = cursor /\ clip' = clip /\ file' = file
      BY <2>11 DEF Shift, Step
    <3>2. SeenText' = SeenText /\ SeenCursor' = SeenCursor
      BY <2>0, <2>11, <3>1, SeenShift DEF SeenCursor
    <3> QED BY <1>2, <2>0, <3>1, <3>2, Hidden
  <2>12. CASE Store
    <3>1. pc = "store" /\ pc' = "advance" /\ cursor' = cursor /\ clip' = clip /\ file' = file
      BY <2>12 DEF Store, Step
    <3>2. SeenText' = SeenText /\ SeenCursor' = SeenCursor
      BY <2>0, <2>12, <3>1, SeenStore DEF SeenCursor
    <3> QED BY <1>2, <2>0, <3>1, <3>2, Hidden
  <2>13. CASE Advance
    BY <1>2, <2>0, <2>13, IsType DEF Advance
  <2>14. CASE Backspace
    <3>1. /\ pc = "getchar" /\ pc' \in {"getchar", "unshift"} /\ text' = text /\ cursor' = cursor
          /\ clip' = clip /\ file' = file
      BY <1>2, <2>14 DEF Backspace, Key
    <3>2. SeenText' = SeenText /\ SeenCursor' = SeenCursor
      BY <3>1 DEF SeenText, SeenCursor
    <3> QED BY <1>2, <2>0, <3>1, <3>2, Hidden
  <2>15. CASE Unshift
    BY <1>2, <2>0, <2>15, IsDelete DEF Unshift
  <2>16. CASE Shrink
    <3>1. clip' = clip /\ file' = file
      BY <2>16 DEF Shrink
    <3> QED BY <1>2, <2>0, <2>16, <3>1, SeenShrink, Hidden
  <2>17. CASE Retreat
    <3>1. clip' = clip /\ file' = file
      BY <2>17 DEF Retreat
    <3> QED BY <1>2, <2>0, <2>17, <3>1, SeenRetreat, Hidden
  <2>18. CASE UNCHANGED vars
    <3>1. SeenText' = SeenText /\ SeenCursor' = SeenCursor /\ clip' = clip /\ file' = file
      BY <2>18 DEF vars, SeenText, SeenCursor
    <3> QED BY <1>2, <2>0, <3>1, Hidden
  <2> QED BY <2>0, <2>1, <2>2, <2>3, <2>4, <2>5, <2>6, <2>7, <2>8, <2>9, <2>10, <2>11, <2>12,
             <2>13, <2>14, <2>15, <2>16, <2>17, <2>18 DEF Next
<1> QED BY <1>1, <1>2

LEMMA EditorInit == Init => A!Init
<1> SUFFICES ASSUME Init PROVE A!Init
  OBVIOUS
<1>1. careful /\ SeenText = text /\ SeenCursor = cursor
  BY DEF Init, SeenText, SeenCursor
<1> QED BY <1>1 DEF Init, A!Init, NoClip

\* For a careful user foxe is the text editor of TextEditor: what the steps of
\* a key do to input_buffer shows as one change, when memmove has taken the
\* erased character away or the cursor passes the new one.
THEOREM FoxeIsTextEditor == Spec => ImplementsTextEditor
<1>1. SafeInv /\ SafeInv' /\ [Next]_vars => [A!Next]_A!vars
  BY EditorStep
<1> QED BY <1>1, EditorInit, AlwaysSafe, PTL DEF Spec, ImplementsTextEditor, A!Spec

(***************************************************************************)
(* Lines of a text                                                         *)
(***************************************************************************)
IfNewline(c) == IF c = Newline THEN 1 ELSE 0

LEMMA CountTo ==
    ASSUME NEW s \in Seq(Chars), NEW b \in 0 .. Len(s), NEW a \in 0 .. b
    PROVE  /\ NewlinesIn(Before(s, b)) = NewlinesIn(Before(s, a)) + NewlinesIn(SubSeq(s, a + 1, b))
           /\ NewlinesIn(Before(s, a)) \in Nat /\ NewlinesIn(Before(s, b)) \in Nat
           /\ NewlinesIn(SubSeq(s, a + 1, b)) \in Nat
<1>0. Len(s) \in Nat
  BY LenProperties
<1>1. 1 \in 1 .. Len(s) + 1 /\ a \in 1 - 1 .. Len(s) /\ b \in a .. Len(s) /\ a \in 0 .. Len(s)
      /\ a + 1 \in 1 .. Len(s) + 1
  BY <1>0
<1>2. SubSeq(s, 1, a) \o SubSeq(s, a + 1, b) = SubSeq(s, 1, b)
  BY <1>1, ConcatAdjacentSubSeq
<1>3. SubSeq(s, 1, a) \in Seq(Chars) /\ SubSeq(s, a + 1, b) \in Seq(Chars) /\ SubSeq(s, 1, b) \in Seq(Chars)
  BY <1>1, PieceFacts
<1>4. NewlinesIn(SubSeq(s, 1, b)) = NewlinesIn(SubSeq(s, 1, a)) + NewlinesIn(SubSeq(s, a + 1, b))
  BY <1>2, <1>3, CountConcat
<1>5. /\ NewlinesIn(SubSeq(s, 1, a)) \in Nat /\ NewlinesIn(SubSeq(s, 1, b)) \in Nat
      /\ NewlinesIn(SubSeq(s, a + 1, b)) \in Nat
  BY <1>3, CountNat
<1> QED BY <1>4, <1>5 DEF Before

LEMMA CountEnds ==
    ASSUME NEW s \in Seq(Chars)
    PROVE  NewlinesIn(Before(s, 0)) = 0 /\ Before(s, Len(s)) = s
<1>1. Before(s, 0) = <<>>
  BY SubSeqEmpty DEF Before
<1> QED BY <1>1, CountEmpty, SubSeqFull DEF Before

LEMMA CountNone ==
    ASSUME NEW s \in Seq(Chars), NEW b \in 0 .. Len(s), NEW a \in 0 .. b,
           \A i \in a + 1 .. b : s[i] # Newline
    PROVE  NewlinesIn(Before(s, b)) = NewlinesIn(Before(s, a))
<1>0. Len(s) \in Nat /\ a + 1 \in 1 .. Len(s) + 1 /\ a \in Int /\ b \in Int
  BY LenProperties
<1> DEFINE t == SubSeq(s, a + 1, b)
<1>1. /\ t \in Seq(Chars) /\ Len(t) = b - a
      /\ \A i \in 1 .. b - a : t[i] = s[a + i]
  BY <1>0, PieceFacts
<1>2. \A i \in 1 .. b - a : a + i \in a + 1 .. b
  BY <1>0
<1>3. \A i \in 1 .. b - a : t[i] # Newline
  BY <1>1, <1>2
<1> HIDE DEF t
<1>4. DOMAIN t = 1 .. b - a
  BY <1>1, LenProperties
<1>5. { i \in DOMAIN t : t[i] = Newline } = {}
  BY <1>3, <1>4
<1>6. NewlinesIn(t) = 0
  BY <1>5, FS_EmptySet DEF NewlinesIn, Quantify
<1>7. /\ NewlinesIn(Before(s, b)) = NewlinesIn(Before(s, a)) + NewlinesIn(t)
      /\ NewlinesIn(Before(s, a)) \in Nat
  BY CountTo DEF t
<1> QED BY <1>6, <1>7

LEMMA CountStep ==
    ASSUME NEW s \in Seq(Chars), NEW b \in 1 .. Len(s)
    PROVE  /\ NewlinesIn(Before(s, b)) = NewlinesIn(Before(s, b - 1)) + IfNewline(s[b])
           /\ NewlinesIn(Before(s, b - 1)) \in Nat
<1>0. Len(s) \in Nat /\ b - 1 \in 0 .. b /\ b \in 0 .. Len(s) /\ (b - 1) + 1 = b /\ b \in b .. Len(s)
  BY LenProperties
<1>1. /\ NewlinesIn(Before(s, b)) = NewlinesIn(Before(s, b - 1)) + NewlinesIn(SubSeq(s, b, b))
      /\ NewlinesIn(Before(s, b - 1)) \in Nat
  <2> DEFINE a == b - 1
  <2>1. a \in 0 .. b /\ a + 1 = b
    BY <1>0
  <2> HIDE DEF a
  <2>2. /\ NewlinesIn(Before(s, b)) = NewlinesIn(Before(s, a)) + NewlinesIn(SubSeq(s, a + 1, b))
        /\ NewlinesIn(Before(s, a)) \in Nat
    BY <1>0, <2>1, CountTo
  <2> QED BY <2>1, <2>2 DEF a
<1>3. s[b] \in Chars
  BY ElementOfSeq
<1>2. SubSeq(s, b, b) = <<s[b]>>
  <2>1. SubSeq(s, b, b) = <<s[b]>> \o SubSeq(s, b + 1, b)
    BY <1>0, SubSeqRecursiveFirst
  <2>2. SubSeq(s, b + 1, b) = <<>> /\ <<s[b]>> \in Seq(Chars)
    BY <1>0, <1>3, SubSeqEmpty
  <2> QED BY <2>1, <2>2, ConcatEmptySeq
<1> QED BY <1>1, <1>2, <1>3, CountOne DEF IfNewline

LEMMA CountWithout ==
    ASSUME NEW s \in Seq(Chars), NEW at \in 0 .. Len(s) - 1
    PROVE  /\ NewlinesIn(s) = NewlinesIn(Without(s, at)) + IfNewline(s[at + 1])
           /\ NewlinesIn(Without(s, at)) \in Nat
           /\ Before(Without(s, at), at) = Before(s, at)
<1>0. Len(s) \in Nat /\ at \in Nat /\ at + 1 \in 1 .. Len(s) /\ at + 2 \in 1 .. Len(s) + 1 /\ at \in 0 .. Len(s)
  BY LenProperties
<1> DEFINE w == Without(s, at)
           a == SubSeq(s, 1, at)
           b == SubSeq(s, at + 2, Len(s))
<1>1. /\ w \in Seq(Chars) /\ Len(w) = Len(s) - 1
      /\ \A i \in 1 .. Len(s) - 1 : w[i] = IF i <= at THEN s[i] ELSE s[i + 1]
  BY WithoutFacts
<1>2. /\ a \in Seq(Chars) /\ b \in Seq(Chars) /\ Len(a) = at
      /\ \A i \in 1 .. at : a[i] = s[i]
  BY <1>0, PieceFacts
<1>3. NewlinesIn(w) = NewlinesIn(a) + NewlinesIn(b)
  <2>1. w = a \o b
    BY DEF Without, Before
  <2> HIDE DEF w, a, b
  <2> QED BY <1>2, <2>1, CountConcat
<1>4. NewlinesIn(a) \in Nat /\ NewlinesIn(b) \in Nat
  <2> HIDE DEF a, b
  <2> QED BY <1>2, CountNat
<1>5. NewlinesIn(s) = NewlinesIn(a) + IfNewline(s[at + 1]) + NewlinesIn(b)
  <2> DEFINE c == at + 1
  <2>1. c \in 1 .. Len(s) /\ c - 1 = at /\ c \in 0 .. Len(s) /\ c + 1 = at + 2 /\ c \in 0 .. Len(s)
        /\ Len(s) \in 0 .. Len(s) /\ c \in 0 .. Len(s)
    BY <1>0
  <2> HIDE DEF c
  <2>2. NewlinesIn(Before(s, c)) = NewlinesIn(Before(s, c - 1)) + IfNewline(s[c])
    BY <2>1, CountStep
  <2>3. NewlinesIn(Before(s, Len(s))) = NewlinesIn(Before(s, c)) + NewlinesIn(SubSeq(s, c + 1, Len(s)))
    BY <2>1, CountTo
  <2>4. Before(s, Len(s)) = s /\ Before(s, c - 1) = a
    BY <2>1, CountEnds DEF Before
  <2>5. SubSeq(s, c + 1, Len(s)) = b
    BY <2>1
  <2> HIDE DEF a, b
  <2> QED BY <2>2, <2>3, <2>4, <2>5 DEF c
<1>6. Before(w, at) = a
  <2>1. 1 \in 1 .. Len(w) + 1 /\ at \in 0 .. Len(w)
    BY <1>0, <1>1
  <2> HIDE DEF w
  <2>2. /\ Before(w, at) \in Seq(Chars) /\ Len(Before(w, at)) = at
        /\ \A i \in 1 .. at : Before(w, at)[i] = w[i]
    BY <1>0, <1>1, <2>1, PieceFacts DEF Before
  <2>3. \A i \in 1 .. at : w[i] = s[i]
    BY <1>0, <1>1
  <2> HIDE DEF a
  <2> QED BY <1>2, <2>2, <2>3, SeqEqual
<1>7. NewlinesIn(s) = NewlinesIn(w) + IfNewline(s[at + 1]) /\ NewlinesIn(w) \in Nat
  <2>1. IfNewline(s[at + 1]) \in Nat
    BY DEF IfNewline
  <2> HIDE DEF w, a, b
  <2> QED BY <1>3, <1>4, <1>5, <2>1
<1> QED BY <1>6, <1>7 DEF Before

(***************************************************************************)
(* The inductive invariant of the status line: "line" is the line of a     *)
(* place in what is seen, and "lines" the number of its lines, both with   *)
(* the lines the current key has counted already and not yet written.      *)
(***************************************************************************)
Exact(s, at, more, all) ==
    /\ line = (NewlinesIn(Before(s, at)) + more) % Word
    /\ lines = (NewlinesIn(s) + 1 + all) % Word
CountInv ==
    careful =>
        /\ pc \in Awaits => Exact(text, cursor, 0, 0)
        /\ pc \in {"grow", "shift", "store", "advance"} =>
              Exact(SeenText, cursor, IfNewline(held), IfNewline(held))
        /\ pc = "advance" => text[cursor + 1] = held
        /\ pc = "unshift" => held = text[cursor] /\ Exact(text, cursor - 1, 0, 0)
        /\ pc = "shrink" => Exact(SeenText, cursor - 1, 0, IfNewline(held))
        /\ pc = "retreat" => Exact(text, cursor - 1, 0, 0)

LEMMA CountInit == Init => CountInv
<1> SUFFICES ASSUME Init PROVE CountInv
  OBVIOUS
<1>1. text \in Seq(Chars) /\ NewlinesIn(text) \in Nat
  BY CountNat, EditorAssumption DEF Init, EditorAssumption
<1>2. Before(text, cursor) = text
  BY <1>1, CountEnds DEF Init
<1>3. Exact(text, cursor, 0, 0)
  BY <1>1, <1>2 DEF Init, Exact
<1> QED BY <1>3 DEF Init, CountInv

\* What a careful user's status line shows whenever a key is awaited, and the
\* numbers it is made of.
LEMMA AwaitingCount ==
    ASSUME SafeInv, careful, CountInv, pc \in Awaits
    PROVE  /\ text \in Seq(Chars) /\ Len(text) \in Nat /\ cursor \in 0 .. Len(text) /\ Word \in Nat \ {0}
           /\ NewlinesIn(text) \in Nat /\ NewlinesIn(Before(text, cursor)) \in Nat
           /\ line = NewlinesIn(Before(text, cursor)) % Word
           /\ lines = (NewlinesIn(text) + 1) % Word
<1>1. /\ text \in Seq(Chars) /\ Len(text) \in Nat /\ cursor \in 0 .. Len(text) /\ Word \in Nat \ {0}
  BY Awaiting, LenProperties, EditorAssumption DEF SafeInv, Types, EditorAssumption
<1>2. NewlinesIn(text) \in Nat /\ NewlinesIn(Before(text, cursor)) \in Nat
  <2>1. cursor \in 0 .. cursor
    BY <1>1
  <2>2. NewlinesIn(Before(text, cursor)) \in Nat
    BY <1>1, <2>1, CountTo
  <2> QED BY <1>1, <2>2, CountNat
<1>3. Exact(text, cursor, 0, 0)
  BY DEF CountInv
<1> QED BY <1>1, <1>2, <1>3 DEF Exact

\* The cursor stays in its line.
LEMMA SameLine ==
    ASSUME SafeInv, careful, CountInv, pc \in Awaits, text' = text, lines' = lines,
           NewlinesIn(Before(text, cursor')) = NewlinesIn(Before(text, cursor)),
           line' = line \/ line' = line % Word
    PROVE  Exact(text, cursor, 0, 0)'
<1>1. /\ Word \in Nat \ {0} /\ NewlinesIn(text) \in Nat /\ NewlinesIn(Before(text, cursor)) \in Nat
      /\ line = NewlinesIn(Before(text, cursor)) % Word
      /\ lines = (NewlinesIn(text) + 1) % Word
  BY AwaitingCount
<1>2. line % Word = line
  <2>1. ((NewlinesIn(Before(text, cursor)) % Word) + 0) % Word = (NewlinesIn(Before(text, cursor)) + 0) % Word
    <3>1. NewlinesIn(Before(text, cursor)) \in Int /\ 0 \in Int
      BY <1>1
    <3> QED BY <1>1, <3>1, ModAdd, Zenon
  <2>2. NewlinesIn(Before(text, cursor)) % Word \in Int
    BY <1>1, DivMod
  <2> QED BY <1>1, <2>1, <2>2
<1> QED BY <1>1, <1>2 DEF Exact

\* The cursor goes to another line.
LEMMA OtherLine ==
    ASSUME SafeInv, careful, CountInv, pc \in Awaits, text' = text, lines' = lines, NEW k \in Int,
           NewlinesIn(Before(text, cursor')) = NewlinesIn(Before(text, cursor)) + k,
           line' = (line + k) % Word
    PROVE  Exact(text, cursor, 0, 0)'
<1>1. /\ Word \in Nat \ {0} /\ NewlinesIn(text) \in Nat /\ NewlinesIn(Before(text, cursor)) \in Nat
      /\ line = NewlinesIn(Before(text, cursor)) % Word
      /\ lines = (NewlinesIn(text) + 1) % Word
  BY AwaitingCount
<1>2. line' = (NewlinesIn(Before(text, cursor)) + k) % Word
  BY <1>1, ModAdd
<1> QED BY <1>1, <1>2 DEF Exact

LEMMA CountDown ==
    ASSUME SafeInv, careful, CountInv, pc \in Awaits, text' = text, lines' = lines, move_down
    PROVE  Exact(text, cursor, 0, 0)'
<1>0. /\ text \in Seq(Chars) /\ Len(text) \in Nat /\ cursor \in 0 .. Len(text) /\ Word \in Nat \ {0}
      /\ NewlinesIn(text) \in Nat /\ NewlinesIn(Before(text, cursor)) \in Nat
      /\ line = NewlinesIn(Before(text, cursor)) % Word
      /\ lines = (NewlinesIn(text) + 1) % Word
  BY AwaitingCount
<1>1. CASE line >= (lines - 1) % Word \/ cursor >= Len(text)
  <2>1. cursor' = cursor /\ line' = line
    BY <1>1 DEF move_down
  <2> QED BY <2>1, SameLine
<1>2. CASE ~(line >= (lines - 1) % Word \/ cursor >= Len(text))
  <2>1. cursor' = NextLine /\ line' = (line + 1) % Word
    BY <1>2 DEF move_down, MoveTo
  <2>2. /\ NextLine \in cursor + 1 .. Len(text)
        /\ \A i \in cursor + 1 .. NextLine - 1 : text[i] # Newline
        /\ text[NextLine] = Newline \/ NextLine = Len(text)
    <3>1. cursor \in Nat /\ cursor < Len(text)
      BY <1>0, <1>2
    <3> QED BY <1>0, <3>1, NextLineFacts
  <2>3. text[NextLine] = Newline
    <3> SUFFICES ASSUME text[NextLine] # Newline PROVE FALSE
      OBVIOUS
    <3>1. \A i \in cursor + 1 .. Len(text) : text[i] # Newline
      BY <1>0, <2>2
    <3>2. NewlinesIn(text) = NewlinesIn(Before(text, cursor))
      <4>1. Len(text) \in 0 .. Len(text) /\ cursor \in 0 .. Len(text)
        BY <1>0
      <4>2. NewlinesIn(Before(text, Len(text))) = NewlinesIn(Before(text, cursor))
        BY <1>0, <3>1, <4>1, CountNone
      <4> QED BY <1>0, <4>2, CountEnds
    <3>3. (lines - 1) % Word = line
      <4>1. (((NewlinesIn(text) + 1) % Word) + (0 - 1)) % Word = ((NewlinesIn(text) + 1) + (0 - 1)) % Word
        <5>1. NewlinesIn(text) + 1 \in Int /\ 0 - 1 \in Int
          BY <1>0
        <5> QED BY <1>0, <5>1, ModAdd, Zenon
      <4>2. (NewlinesIn(text) + 1) % Word \in Int
        BY <1>0, DivMod
      <4>3. lines + (0 - 1) = lines - 1 /\ (NewlinesIn(text) + 1) + (0 - 1) = NewlinesIn(text)
        BY <1>0, <4>2
      <4>4. lines = (NewlinesIn(text) + 1) % Word /\ line = NewlinesIn(text) % Word
        BY <1>0, <3>2
      <4> QED BY <4>1, <4>3, <4>4, Zenon
    <3>4. line \in Int
      BY DEF SafeInv, Types
    <3> QED BY <1>2, <3>3, <3>4
  <2>4. NewlinesIn(Before(text, cursor')) = NewlinesIn(Before(text, cursor)) + 1
    <3>1. NextLine \in 1 .. Len(text) /\ NextLine - 1 \in 0 .. Len(text) /\ cursor \in 0 .. NextLine - 1
      BY <1>0, <2>2
    <3>2. NewlinesIn(Before(text, NextLine - 1)) = NewlinesIn(Before(text, cursor))
      BY <1>0, <2>2, <3>1, CountNone
    <3>3. NewlinesIn(Before(text, NextLine)) = NewlinesIn(Before(text, NextLine - 1)) + IfNewline(text[NextLine])
      BY <1>0, <3>1, CountStep
    <3> QED BY <2>1, <2>3, <3>2, <3>3 DEF IfNewline
  <2> QED BY <2>1, <2>4, OtherLine
<1> QED BY <1>1, <1>2

LEMMA CountUp ==
    ASSUME SafeInv, careful, CountInv, pc \in Awaits, text' = text, lines' = lines, move_up(text)
    PROVE  Exact(text, cursor, 0, 0)'
<1>0. /\ text \in Seq(Chars) /\ Len(text) \in Nat /\ cursor \in 0 .. Len(text) /\ Word \in Nat \ {0}
      /\ NewlinesIn(text) \in Nat /\ NewlinesIn(Before(text, cursor)) \in Nat
      /\ line = NewlinesIn(Before(text, cursor)) % Word
      /\ lines = (NewlinesIn(text) + 1) % Word
  BY AwaitingCount
<1>1. CASE line = 0 \/ cursor = 0
  <2>1. cursor' = cursor /\ line' = line
    BY <1>1 DEF move_up
  <2> QED BY <2>1, SameLine
<1>2. CASE ~(line = 0 \/ cursor = 0)
  <2> DEFINE start == LineStart(text)
  <2>1. /\ start \in 0 .. cursor /\ (start # 0 => text[start] = Newline)
        /\ \A i \in start + 1 .. cursor : text[i] # Newline
    BY <1>0, LineStartFacts
  <2>2. cursor' = Max({0, start - 1}) /\ line' = (line - 1) % Word
    BY <1>2 DEF move_up, MoveTo
  <2> HIDE DEF start
  <2>3. NewlinesIn(Before(text, cursor)) = NewlinesIn(Before(text, start))
    BY <1>0, <2>1, CountNone
  <2>4. start # 0
    <3> SUFFICES ASSUME start = 0 PROVE FALSE
      OBVIOUS
    <3>1. NewlinesIn(Before(text, cursor)) = 0
      BY <1>0, <2>3, CountEnds
    <3>2. 0 % Word = 0
      <4>1. 0 \in 0 .. Word - 1 /\ Word * 0 + 0 = 0 /\ 0 \in Int
        BY <1>0
      <4> QED BY <1>0, <4>1, ModUnique
    <3> QED BY <1>0, <1>2, <3>1, <3>2
  <2>5. Max({0, start - 1}) = start - 1
    BY <1>0, <2>1, <2>4 DEF Max
  <2>6. start \in 1 .. Len(text) /\ text[start] = Newline
    BY <1>0, <2>1, <2>4
  <2>7. /\ NewlinesIn(Before(text, start)) = NewlinesIn(Before(text, start - 1)) + 1
        /\ NewlinesIn(Before(text, start - 1)) \in Nat
    BY <1>0, <2>6, CountStep DEF IfNewline
  <2>8. NewlinesIn(Before(text, cursor')) = NewlinesIn(Before(text, cursor)) + (0 - 1)
    BY <2>2, <2>3, <2>5, <2>7
  <2>9. line' = (line + (0 - 1)) % Word
    <3>1. line \in Int
      BY DEF SafeInv, Types
    <3>2. line + (0 - 1) = line - 1
      BY <3>1
    <3> QED BY <2>2, <3>2
  <2> QED BY <2>8, <2>9, OtherLine
<1> QED BY <1>1, <1>2

LEMMA CountAside ==
    ASSUME SafeInv, careful, CountInv, pc \in Awaits, text' = text, lines' = lines,
           move_left(text) \/ move_right
    PROVE  Exact(text, cursor, 0, 0)'
<1>0. /\ text \in Seq(Chars) /\ Len(text) \in Nat /\ cursor \in 0 .. Len(text) /\ Word \in Nat \ {0}
      /\ NewlinesIn(text) \in Nat /\ NewlinesIn(Before(text, cursor)) \in Nat
      /\ line = NewlinesIn(Before(text, cursor)) % Word
      /\ lines = (NewlinesIn(text) + 1) % Word
  BY AwaitingCount
<1>1. CASE cursor' = cursor /\ line' = line
  BY <1>1, SameLine
<1>2. CASE move_left(text) /\ cursor # 0
  <2>1. cursor' = cursor - 1 /\ line' = (IF text[cursor] = Newline THEN line - 1 ELSE line) % Word
    BY <1>2 DEF move_left, MoveTo
  <2>2. /\ NewlinesIn(Before(text, cursor)) = NewlinesIn(Before(text, cursor - 1)) + IfNewline(text[cursor])
        /\ NewlinesIn(Before(text, cursor - 1)) \in Nat
    <3>1. cursor \in 1 .. Len(text)
      BY <1>0, <1>2
    <3> QED BY <1>0, <3>1, CountStep
  <2>3. CASE text[cursor] = Newline
    <3>1. NewlinesIn(Before(text, cursor')) = NewlinesIn(Before(text, cursor)) + (0 - 1)
      BY <2>1, <2>2, <2>3 DEF IfNewline
    <3>2. line \in Int
      BY DEF SafeInv, Types
    <3>3. line + (0 - 1) = line - 1
      BY <3>2
    <3>4. line' = (line + (0 - 1)) % Word
      BY <2>1, <2>3, <3>3
    <3> QED BY <3>1, <3>4, OtherLine
  <2>4. CASE text[cursor] # Newline
    <3>1. NewlinesIn(Before(text, cursor')) = NewlinesIn(Before(text, cursor)) /\ line' = line % Word
      BY <2>1, <2>2, <2>4 DEF IfNewline
    <3> QED BY <3>1, SameLine
  <2> QED BY <2>3, <2>4
<1>3. CASE move_right /\ cursor < Len(text)
  <2>1. cursor' = cursor + 1 /\ line' = (IF text[cursor + 1] = Newline THEN line + 1 ELSE line) % Word
    BY <1>0, <1>3 DEF move_right, MoveTo
  <2>2. NewlinesIn(Before(text, cursor + 1)) = NewlinesIn(Before(text, cursor)) + IfNewline(text[cursor + 1])
    <3> DEFINE b == cursor + 1
    <3>1. b \in 1 .. Len(text) /\ b - 1 = cursor
      BY <1>0, <1>3
    <3> HIDE DEF b
    <3>2. NewlinesIn(Before(text, b)) = NewlinesIn(Before(text, b - 1)) + IfNewline(text[b])
      BY <1>0, <3>1, CountStep
    <3> QED BY <3>1, <3>2 DEF b
  <2>3. CASE text[cursor + 1] = Newline
    <3>1. NewlinesIn(Before(text, cursor')) = NewlinesIn(Before(text, cursor)) + 1 /\ line' = (line + 1) % Word
      BY <2>1, <2>2, <2>3 DEF IfNewline
    <3> QED BY <3>1, OtherLine
  <2>4. CASE text[cursor + 1] # Newline
    <3>1. NewlinesIn(Before(text, cursor')) = NewlinesIn(Before(text, cursor)) /\ line' = line % Word
      BY <1>0, <2>1, <2>2, <2>4 DEF IfNewline
    <3> QED BY <3>1, SameLine
  <2> QED BY <2>3, <2>4
<1> QED BY <1>0, <1>1, <1>2, <1>3 DEF move_left, move_right

LEMMA CountMoves ==
    ASSUME SafeInv, SafeInv', careful, careful', CountInv, arrow_keys_sighandler \/ MoveKey
    PROVE  CountInv'
<1>0. /\ pc \in Awaits /\ pc' = pc /\ text' = text /\ lines' = lines
  BY DEF arrow_keys_sighandler, MoveKey, Key, Same, Awaits
<1>1. /\ text \in Seq(Chars) /\ Len(text) \in Nat /\ cursor \in 0 .. Len(text) /\ Word \in Nat \ {0}
      /\ NewlinesIn(text) \in Nat /\ NewlinesIn(Before(text, cursor)) \in Nat
      /\ line = NewlinesIn(Before(text, cursor)) % Word
      /\ lines = (NewlinesIn(text) + 1) % Word
  BY <1>0, AwaitingCount
<1>2. ASSUME AnyMove PROVE Exact(text, cursor, 0, 0)'
  <2>1. ~(cursor > Len(text))
    BY <1>1
  <2>2. move_down \/ move_right \/ move_up(text) \/ move_left(text)
    BY <1>2, <2>1 DEF AnyMove
  <2> QED BY <1>0, <2>2, CountDown, CountUp, CountAside
<1>3. ASSUME MoveTo(0, 0) PROVE Exact(text, cursor, 0, 0)'
  <2>1. NewlinesIn(Before(text, 0)) = 0
    BY <1>1, CountEnds
  <2>2. line' = (NewlinesIn(Before(text, cursor')) + 0) % Word
    BY <1>3, <2>1 DEF MoveTo
  <2> QED BY <1>0, <1>1, <2>2 DEF Exact
<1>4. ASSUME MoveTo(Len(text), lines - 1) PROVE Exact(text, cursor, 0, 0)'
  <2>1. Before(text, Len(text)) = text
    BY <1>1, CountEnds
  <2>2. (((NewlinesIn(text) + 1) % Word) + (0 - 1)) % Word = ((NewlinesIn(text) + 1) + (0 - 1)) % Word
    <3>1. NewlinesIn(text) + 1 \in Int /\ 0 - 1 \in Int
      BY <1>1
    <3> QED BY <1>1, <3>1, ModAdd, Zenon
  <2>3. (NewlinesIn(text) + 1) % Word \in Int
    BY <1>1, DivMod
  <2>4. (lines - 1) % Word = NewlinesIn(text) % Word
    <3>1. lines + (0 - 1) = lines - 1 /\ (NewlinesIn(text) + 1) + (0 - 1) = NewlinesIn(text)
      BY <1>1, <2>3
    <3>2. lines = (NewlinesIn(text) + 1) % Word
      BY <1>1
    <3> QED BY <2>2, <3>1, <3>2, Zenon
  <2>5. cursor' = Len(text) /\ line' = NewlinesIn(text) % Word
    BY <1>4, <2>4 DEF MoveTo
  <2> QED BY <1>0, <1>1, <2>1, <2>5 DEF Exact
<1>5. ASSUME MoveTo(LineStart(text), line) PROVE Exact(text, cursor, 0, 0)'
  <2>1. /\ LineStart(text) \in 0 .. cursor
        /\ \A i \in LineStart(text) + 1 .. cursor : text[i] # Newline
    BY <1>1, LineStartFacts
  <2>2. NewlinesIn(Before(text, cursor)) = NewlinesIn(Before(text, LineStart(text)))
    BY <1>1, <2>1, CountNone
  <2>3. cursor' = LineStart(text) /\ line' = line % Word
    BY <1>5 DEF MoveTo
  <2> QED BY <1>0, <2>2, <2>3, SameLine
<1>6. Exact(text, cursor, 0, 0)'
  BY <1>2, <1>3, <1>4, <1>5 DEF arrow_keys_sighandler, MoveKey
<1> QED BY <1>0, <1>6 DEF CountInv, Awaits

LEMMA CountClips ==
    ASSUME SafeInv, SafeInv', careful, careful', CountInv,
           EndOfLine \/ CopyLine \/ CutLine \/ Paste
    PROVE  CountInv'
<1>0. pc = "getchar" /\ pc' = "getchar" /\ pc \in Awaits /\ line' = line /\ lines' = lines
  BY DEF EndOfLine, CopyLine, CutLine, Paste, Key, Awaits, counters
<1>1. /\ text \in Seq(Chars) /\ Len(text) \in Nat /\ cursor \in 0 .. Len(text) /\ Word \in Nat \ {0}
      /\ NewlinesIn(text) \in Nat /\ NewlinesIn(Before(text, cursor)) \in Nat
      /\ line = NewlinesIn(Before(text, cursor)) % Word
      /\ lines = (NewlinesIn(text) + 1) % Word
  BY <1>0, AwaitingCount
<1>2. /\ LineStart(text) \in 0 .. cursor
      /\ NewlinesIn(Before(text, cursor)) = NewlinesIn(Before(text, LineStart(text)))
  <2>1. /\ LineStart(text) \in 0 .. cursor
        /\ \A i \in LineStart(text) + 1 .. cursor : text[i] # Newline
    BY <1>1, LineStartFacts
  <2> QED BY <1>1, <2>1, CountNone
<1>3. ASSUME NEW from \in 0 .. Len(text), NEW end \in Stops(from), ~Crosses(from, end)
      PROVE  /\ end \in from .. Len(text)
             /\ NewlinesIn(Before(text, end)) = NewlinesIn(Before(text, from))
  <2>1. end \in from .. Len(text)
    BY <1>1, StopsFacts
  <2>2. end \in 0 .. Len(text) /\ from \in 0 .. end
    BY <1>1, <2>1
  <2>3. /\ NewlinesIn(Before(text, end)) = NewlinesIn(Before(text, from)) + NewlinesIn(SubSeq(text, from + 1, end))
        /\ NewlinesIn(Before(text, from)) \in Nat /\ NewlinesIn(SubSeq(text, from + 1, end)) \in Nat
    BY <1>1, <2>2, CountTo
  <2>4. ~(NewlinesIn(SubSeq(text, from + 1, end)) > 0)
    BY <1>3 DEF Crosses
  <2> QED BY <2>1, <2>3, <2>4
<1>4. LineStart(text) \in 0 .. Len(text)
  BY <1>1, <1>2
<1>5. CASE EndOfLine
  <2>1. cursor' \in Stops(cursor) /\ ~Crosses(cursor, cursor') /\ text' = text
    BY <1>5 DEF EndOfLine, Same
  <2>2. NewlinesIn(Before(text, cursor')) = NewlinesIn(Before(text, cursor))
    BY <1>1, <1>3, <2>1
  <2>3. Exact(text, cursor, 0, 0)'
    BY <1>0, <2>1, <2>2, SameLine
  <2> QED BY <1>0, <2>3 DEF CountInv, Awaits
<1>6. CASE CopyLine
  <2>1. cursor' \in Stops(LineStart(text)) /\ ~Crosses(LineStart(text), cursor') /\ text' = text
    BY <1>6 DEF CopyLine, Same
  <2>2. NewlinesIn(Before(text, cursor')) = NewlinesIn(Before(text, cursor))
    BY <1>2, <1>3, <1>4, <2>1
  <2>3. Exact(text, cursor, 0, 0)'
    BY <1>0, <2>1, <2>2, SameLine
  <2> QED BY <1>0, <2>3 DEF CountInv, Awaits
<1>7. CASE CutLine
  <2>1. PICK end \in Stops(LineStart(text)) : end = Len(text) /\ ~Crosses(LineStart(text), end)
    BY <1>7 DEF CutLine, Same
  <2>2. NewlinesIn(text) = NewlinesIn(Before(text, cursor))
    <3>1. NewlinesIn(Before(text, Len(text))) = NewlinesIn(Before(text, LineStart(text)))
      BY <1>3, <1>4, <2>1
    <3> QED BY <1>1, <1>2, <3>1, CountEnds
  <2>3. text' = Before(text, LineStart(text)) /\ cursor' = LineStart(text)
    BY <1>7, CutFacts
  <2>4. NewlinesIn(text') = NewlinesIn(Before(text, cursor))
    BY <1>2, <2>3
  <2>5. Before(text', cursor') = text'
    <3>1. text' \in Seq(Chars) /\ Len(text') = cursor'
      <4>1. 1 \in 1 .. Len(text) + 1 /\ LineStart(text) \in 0 .. Len(text) /\ LineStart(text) \in Nat
        BY <1>1, <1>2
      <4> QED BY <1>1, <2>3, <4>1, PieceFacts DEF Before
    <3> QED BY <3>1, CountEnds
  <2>6. Exact(text, cursor, 0, 0)'
    BY <1>0, <1>1, <2>2, <2>4, <2>5 DEF Exact
  <2> QED BY <1>0, <2>6 DEF CountInv, Awaits
<1>8. CASE Paste
  <2>1. cursor = Len(text) /\ NewlinesIn(clip.chars) = 0 /\ clip.chars \in Seq(Chars)
    BY <1>8 DEF Paste, Same, SafeInv, Types
  <2>2. text' = (Before(text, cursor) \o clip.chars) \o <<>> /\ cursor' = cursor + Len(clip.chars)
    BY <1>8, <2>1 DEF Paste
  <2>3. Before(text, cursor) = text
    BY <1>1, <2>1, CountEnds
  <2>4. /\ text \o clip.chars \in Seq(Chars) /\ Len(text \o clip.chars) = Len(text) + Len(clip.chars)
    BY <1>1, <2>1, ConcatProperties
  <2>5. text' = text \o clip.chars
    BY <2>2, <2>3, <2>4, ConcatEmptySeq
  <2>6. NewlinesIn(text') = NewlinesIn(text)
    BY <1>1, <2>1, <2>5, CountConcat
  <2>7. Before(text', cursor') = text'
    <3>1. text' \in Seq(Chars) /\ Len(text') = cursor'
      BY <2>1, <2>2, <2>4, <2>5
    <3> QED BY <3>1, CountEnds
  <2>8. Exact(text, cursor, 0, 0)'
    BY <1>0, <1>1, <2>3, <2>6, <2>7 DEF Exact
  <2> QED BY <1>0, <2>8 DEF CountInv, Awaits
<1> QED BY <1>5, <1>6, <1>7, <1>8

LEMMA CountFile ==
    ASSUME SafeInv, SafeInv', careful, careful', CountInv,
           \/ AskReplace \/ AskDiscard \/ Save \/ ToggleMode \/ Quit
           \/ \E c \in Chars : Replace(c)
           \/ \E yes \in BOOLEAN : Discard(yes)
    PROVE  CountInv'
<1>0. pc \in Awaits /\ pc' \in Awaits /\ line' = line /\ lines' = lines
  BY DEF AskReplace, AskDiscard, Ask, Save, ToggleMode, Quit, Key, Replace, Discard, counters, Awaits
<1>1. /\ text \in Seq(Chars) /\ Len(text) \in Nat /\ cursor \in 0 .. Len(text) /\ Word \in Nat \ {0}
      /\ NewlinesIn(text) \in Nat /\ NewlinesIn(Before(text, cursor)) \in Nat
      /\ line = NewlinesIn(Before(text, cursor)) % Word
      /\ lines = (NewlinesIn(text) + 1) % Word
  BY <1>0, AwaitingCount
<1>2. CASE text' = text /\ cursor' = cursor
  <2>1. Exact(text, cursor, 0, 0)'
    BY <1>0, <1>1, <1>2 DEF Exact
  <2> QED BY <1>0, <2>1 DEF CountInv, Awaits
<1>3. ASSUME NEW c \in Chars, Replace(c), text' # text PROVE CountInv'
  <2>1. /\ c # Newline /\ cursor < Len(text) /\ text[cursor + 1] # Newline
        /\ text' = [text EXCEPT ![cursor + 1] = c] /\ cursor' = cursor
    <3>1. c # Newline /\ ~(cursor >= Len(text))
      BY <1>3 DEF Replace
    <3>2. text' = [text EXCEPT ![cursor + 1] = c] /\ Same(text[cursor + 1] # Newline) /\ cursor' = cursor
      BY <1>3, <3>1 DEF Replace
    <3>3. text[cursor + 1] # Newline
      BY <3>2 DEF Same
    <3>4. cursor < Len(text)
      BY <1>1, <3>1
    <3> QED BY <3>1, <3>2, <3>3, <3>4
  <2>2. cursor \in 0 .. Len(text) - 1
    BY <1>1, <2>1
  <2>3. /\ text' \in Seq(Chars) /\ Len(text') = Len(text) /\ text'[cursor + 1] = c
        /\ Without(text', cursor) = Without(text, cursor)
    <3>1. text \in Seq(Chars)
      BY <1>1
    <3> DEFINE t == [text EXCEPT ![cursor + 1] = c]
    <3>2. /\ t \in Seq(Chars) /\ Len(t) = Len(text) /\ t[cursor + 1] = c
          /\ Without(t, cursor) = Without(text, cursor)
      BY <2>2, <3>1, WithoutStored, Zenon
    <3> HIDE DEF t
    <3>3. text' = t
      BY <2>1 DEF t
    <3> QED BY <3>2, <3>3
  <2>4. /\ NewlinesIn(text) = NewlinesIn(Without(text, cursor)) + IfNewline(text[cursor + 1])
        /\ NewlinesIn(Without(text, cursor)) \in Nat
        /\ Before(Without(text, cursor), cursor) = Before(text, cursor)
    BY <1>1, <2>2, CountWithout
  <2>5. /\ NewlinesIn(text') = NewlinesIn(Without(text', cursor)) + IfNewline(text'[cursor + 1])
        /\ Before(Without(text', cursor), cursor) = Before(text', cursor)
    BY <2>2, <2>3, CountWithout
  <2>6. NewlinesIn(text') = NewlinesIn(text) /\ Before(text', cursor') = Before(text, cursor)
    BY <2>1, <2>3, <2>4, <2>5 DEF IfNewline
  <2>7. Exact(text, cursor, 0, 0)'
    BY <1>0, <1>1, <2>6 DEF Exact
  <2> QED BY <1>0, <2>7 DEF CountInv, Awaits
<1>4. ASSUME NEW yes \in BOOLEAN, Discard(yes), yes PROVE CountInv'
  <2>1. /\ text' = file /\ cursor' = Len(file)
        /\ line = NewlinesIn(file) % Word /\ lines = (NewlinesIn(file) + 1) % Word
    BY <1>4 DEF Discard, Same
  <2>2. file \in Seq(Chars) /\ NewlinesIn(file) \in Nat
    BY CountNat DEF SafeInv, Types
  <2>3. Before(file, Len(file)) = file
    BY <2>2, CountEnds
  <2>4. Exact(text, cursor, 0, 0)'
    BY <1>0, <2>1, <2>2, <2>3 DEF Exact
  <2> QED BY <1>0, <2>4 DEF CountInv, Awaits
<1>5. AskReplace \/ AskDiscard \/ Save \/ ToggleMode \/ Quit => text' = text /\ cursor' = cursor
  BY DEF AskReplace, AskDiscard, Ask, Save, ToggleMode, Quit
<1>6. ASSUME NEW c \in Chars, Replace(c) PROVE cursor' = cursor
  BY <1>6 DEF Replace
<1>7. ASSUME NEW yes \in BOOLEAN, Discard(yes), ~yes PROVE text' = text /\ cursor' = cursor
  BY <1>7 DEF Discard
<1> QED BY <1>2, <1>3, <1>4, <1>5, <1>6, <1>7

LEMMA CountTyping ==
    ASSUME SafeInv, SafeInv', careful, careful', CountInv,
           Grow \/ Shift \/ Store \/ Advance \/ \E c \in Chars : Type(c)
    PROVE  CountInv'
<1>1. ASSUME NEW c \in Chars, Type(c) PROVE CountInv'
  <2>0. pc = "getchar" /\ pc \in Awaits /\ pc' = "grow" /\ text' = text /\ cursor' = cursor /\ held' = c
    BY <1>1 DEF Type, Key, Awaits
  <2>1. /\ Word \in Nat \ {0}
        /\ NewlinesIn(text) \in Nat /\ NewlinesIn(Before(text, cursor)) \in Nat
        /\ line = NewlinesIn(Before(text, cursor)) % Word
        /\ lines = (NewlinesIn(text) + 1) % Word
    BY <2>0, AwaitingCount
  <2>2. SeenText' = text'
    BY <2>0 DEF SeenText
  <2>3. CASE c = Newline
    <3>1. line' = (line + 1) % Word /\ lines' = (lines + 1) % Word
      BY <1>1, <2>3 DEF Type
    <3>2. line' = (NewlinesIn(Before(text, cursor)) + 1) % Word
      <4>1. NewlinesIn(Before(text, cursor)) \in Int /\ 1 \in Int
        BY <2>1
      <4>2. ((NewlinesIn(Before(text, cursor)) % Word) + 1) % Word = (NewlinesIn(Before(text, cursor)) + 1) % Word
        BY <2>1, <4>1, ModAdd, Zenon
      <4> QED BY <2>1, <3>1, <4>2
    <3>3. lines' = (NewlinesIn(text) + 1 + 1) % Word
      <4>1. NewlinesIn(text) + 1 \in Int /\ 1 \in Int
        BY <2>1
      <4>2. (((NewlinesIn(text) + 1) % Word) + 1) % Word = (NewlinesIn(text) + 1 + 1) % Word
        BY <2>1, <4>1, ModAdd, Zenon
      <4> QED BY <2>1, <3>1, <4>2
    <3>4. /\ line' = (NewlinesIn(Before(text', cursor')) + IfNewline(held)') % Word
          /\ lines' = (NewlinesIn(text') + 1 + IfNewline(held)') % Word
      BY <2>0, <2>3, <3>2, <3>3 DEF IfNewline
    <3> QED BY <2>0, <2>2, <3>4 DEF CountInv, Awaits, Exact
  <2>4. CASE c # Newline
    <3>1. line' = line /\ lines' = lines
      BY <1>1, <2>4 DEF Type, counters
    <3>2. /\ line' = (NewlinesIn(Before(text', cursor')) + IfNewline(held)') % Word
          /\ lines' = (NewlinesIn(text') + 1 + IfNewline(held)') % Word
      BY <2>0, <2>1, <2>4, <3>1 DEF IfNewline
    <3> QED BY <2>0, <2>2, <3>2 DEF CountInv, Awaits, Exact
  <2> QED BY <2>3, <2>4
<1>2. CASE Grow
  <2>0. pc = "grow" /\ pc' = "shift" /\ cursor' = cursor /\ held' = held /\ line' = line /\ lines' = lines
    BY <1>2 DEF Grow, Step, counters
  <2>1. Exact(SeenText, cursor, IfNewline(held), IfNewline(held)) /\ SeenText' = SeenText
    BY <1>2, <2>0, SeenGrow DEF CountInv
  <2> QED BY <2>0, <2>1 DEF CountInv, Awaits, Exact, IfNewline
<1>3. CASE Shift
  <2>0. pc = "shift" /\ pc' = "store" /\ cursor' = cursor /\ held' = held /\ line' = line /\ lines' = lines
    BY <1>3 DEF Shift, Step, counters
  <2>1. Exact(SeenText, cursor, IfNewline(held), IfNewline(held)) /\ SeenText' = SeenText
    BY <1>3, <2>0, SeenShift DEF CountInv
  <2> QED BY <2>0, <2>1 DEF CountInv, Awaits, Exact, IfNewline
<1>4. CASE Store
  <2>0. pc = "store" /\ pc' = "advance" /\ cursor' = cursor /\ held' = held /\ line' = line /\ lines' = lines
    BY <1>4 DEF Store, Step, counters
  <2>1. /\ Exact(SeenText, cursor, IfNewline(held), IfNewline(held))
        /\ SeenText' = SeenText /\ text'[cursor + 1] = held
    BY <1>4, <2>0, SeenStore DEF CountInv
  <2> QED BY <2>0, <2>1 DEF CountInv, Awaits, Exact, IfNewline
<1>5. CASE Advance
  <2>0. pc = "advance" /\ pc' = "getchar" /\ line' = line /\ lines' = lines /\ text' = text
    BY <1>5 DEF Advance, Step, counters
  <2>1. /\ cursor \in 0 .. Len(text) - 1 /\ SeenText = Without(text, cursor) /\ cursor' = cursor + 1
    BY <1>5, SeenAdvance
  <2>2. text[cursor + 1] = held /\ Exact(SeenText, cursor, IfNewline(held), IfNewline(held))
    BY <2>0 DEF CountInv
  <2>3. text \in Seq(Chars) /\ Len(text) \in Nat
    BY LenProperties DEF SafeInv, Types
  <2>4. /\ NewlinesIn(text) = NewlinesIn(SeenText) + IfNewline(held) /\ NewlinesIn(SeenText) \in Nat
        /\ Before(SeenText, cursor) = Before(text, cursor)
    BY <2>1, <2>2, <2>3, CountWithout
  <2>5. NewlinesIn(Before(text, cursor + 1)) = NewlinesIn(Before(text, cursor)) + IfNewline(held)
    <3> DEFINE b == cursor + 1
    <3>1. b \in 1 .. Len(text) /\ b - 1 = cursor
      BY <2>1, <2>3
    <3> HIDE DEF b
    <3>2. NewlinesIn(Before(text, b)) = NewlinesIn(Before(text, b - 1)) + IfNewline(text[b])
      BY <2>3, <3>1, CountStep
    <3> QED BY <2>2, <3>1, <3>2 DEF b
  <2>6. IfNewline(held) \in Nat
    BY DEF IfNewline
  <2>7. line = NewlinesIn(Before(text, cursor + 1)) % Word
    BY <2>2, <2>4, <2>5 DEF Exact
  <2>8. lines = (NewlinesIn(text) + 1) % Word
    <3>1. NewlinesIn(SeenText) + 1 + IfNewline(held) = NewlinesIn(text) + 1
      BY <2>4, <2>6
    <3> QED BY <2>2, <3>1 DEF Exact
  <2>9. NewlinesIn(text) \in Nat /\ NewlinesIn(Before(text, cursor + 1)) \in Nat
    <3> DEFINE b == cursor + 1
    <3>1. b \in 0 .. Len(text) /\ b \in 0 .. b
      BY <2>1, <2>3
    <3> HIDE DEF b
    <3>2. NewlinesIn(Before(text, b)) \in Nat
      BY <2>3, <3>1, CountTo
    <3> QED BY <2>3, <3>2, CountNat DEF b
  <2>10. Exact(text, cursor, 0, 0)'
    BY <2>0, <2>1, <2>7, <2>8, <2>9 DEF Exact
  <2> QED BY <2>0, <2>10 DEF CountInv, Awaits
<1> QED BY <1>1, <1>2, <1>3, <1>4, <1>5

LEMMA CountErasing ==
    ASSUME SafeInv, SafeInv', careful, careful', CountInv,
           Backspace \/ Unshift \/ Shrink \/ Retreat
    PROVE  CountInv'
<1>0. text \in Seq(Chars) /\ Len(text) \in Nat /\ Word \in Nat \ {0}
  BY LenProperties, EditorAssumption DEF SafeInv, Types, EditorAssumption
<1>1. CASE Backspace
  <2>0. pc = "getchar" /\ pc \in Awaits /\ text' = text /\ cursor' = cursor /\ lines' = lines
    BY <1>1 DEF Backspace, Key, Awaits
  <2>1. /\ cursor \in 0 .. Len(text) /\ NewlinesIn(text) \in Nat
        /\ NewlinesIn(Before(text, cursor)) \in Nat
        /\ line = NewlinesIn(Before(text, cursor)) % Word
        /\ lines = (NewlinesIn(text) + 1) % Word
    BY <2>0, AwaitingCount
  <2>2. CASE text = <<>>
    <3>1. pc' = pc /\ line' = line
      BY <1>1, <2>2 DEF Backspace
    <3>2. Exact(text, cursor, 0, 0)'
      BY <2>0, <2>1, <3>1 DEF Exact
    <3> QED BY <2>0, <3>1, <3>2 DEF CountInv, Awaits
  <2>3. CASE text # <<>>
    <3>1. cursor # 0
      BY <1>1, <2>3 DEF Backspace
    <3>2. /\ pc' = "unshift" /\ held' = text[cursor]
          /\ line' = (IF text[cursor] = Newline THEN line - 1 ELSE line) % Word
      BY <1>1, <2>3, <3>1 DEF Backspace
    <3>3. /\ NewlinesIn(Before(text, cursor)) = NewlinesIn(Before(text, cursor - 1)) + IfNewline(text[cursor])
          /\ NewlinesIn(Before(text, cursor - 1)) \in Nat
      <4>1. cursor \in 1 .. Len(text)
        BY <2>1, <3>1
      <4> QED BY <1>0, <4>1, CountStep
    <3>4. line \in Int /\ line - IfNewline(text[cursor]) = line + (0 - IfNewline(text[cursor]))
      BY DEF SafeInv, Types, IfNewline
    <3>5. line' = (line + (0 - IfNewline(text[cursor]))) % Word
      BY <3>2, <3>4 DEF IfNewline
    <3>6. (line + (0 - IfNewline(text[cursor]))) % Word
            = (NewlinesIn(Before(text, cursor)) + (0 - IfNewline(text[cursor]))) % Word
      <4>1. NewlinesIn(Before(text, cursor)) \in Int /\ 0 - IfNewline(text[cursor]) \in Int
        BY <2>1 DEF IfNewline
      <4>2. ((NewlinesIn(Before(text, cursor)) % Word) + (0 - IfNewline(text[cursor]))) % Word
              = (NewlinesIn(Before(text, cursor)) + (0 - IfNewline(text[cursor]))) % Word
        BY <1>0, <4>1, ModAdd, Zenon
      <4> QED BY <2>1, <4>2
    <3>7. NewlinesIn(Before(text, cursor)) + (0 - IfNewline(text[cursor])) = NewlinesIn(Before(text, cursor - 1)) + 0
      BY <3>3 DEF IfNewline
    <3>8. Exact(text, cursor - 1, 0, 0)'
      BY <2>0, <2>1, <3>5, <3>6, <3>7 DEF Exact
    <3> QED BY <2>0, <3>2, <3>8 DEF CountInv, Awaits
  <2> QED BY <2>2, <2>3
<1>2. CASE Unshift
  <2>0. pc = "unshift" /\ pc' = "shrink" /\ line' = line /\ lines' = lines /\ cursor' = cursor /\ held' = held
    BY <1>2 DEF Unshift, Step, counters
  <2>1. cursor \in 1 .. Len(text) /\ SeenText' = Without(text, cursor - 1)
    BY <1>2, SeenUnshift
  <2>2. held = text[cursor] /\ Exact(text, cursor - 1, 0, 0)
    BY <2>0 DEF CountInv
  <2>3. /\ NewlinesIn(text) = NewlinesIn(SeenText') + IfNewline(held) /\ NewlinesIn(SeenText') \in Nat
        /\ Before(SeenText', cursor - 1) = Before(text, cursor - 1)
    <3> DEFINE at == cursor - 1
    <3>1. at \in 0 .. Len(text) - 1 /\ at + 1 = cursor
      BY <1>0, <2>1
    <3>2. SeenText' = Without(text, at)
      BY <2>1
    <3> HIDE DEF at
    <3>3. /\ NewlinesIn(text) = NewlinesIn(Without(text, at)) + IfNewline(text[at + 1])
          /\ NewlinesIn(Without(text, at)) \in Nat
          /\ Before(Without(text, at), at) = Before(text, at)
      BY <1>0, <3>1, CountWithout
    <3>4. held = text[at + 1]
      BY <2>2, <3>1
    <3>5. /\ NewlinesIn(text) = NewlinesIn(SeenText') + IfNewline(held) /\ NewlinesIn(SeenText') \in Nat
          /\ Before(SeenText', at) = Before(text, at)
      BY <3>2, <3>3, <3>4
    <3> QED BY <3>5 DEF at
  <2>4. NewlinesIn(text) + 1 + 0 = NewlinesIn(SeenText') + 1 + IfNewline(held)
    BY <2>3 DEF IfNewline
  <2>5. Exact(SeenText, cursor - 1, 0, IfNewline(held))'
    BY <2>0, <2>2, <2>3, <2>4 DEF Exact, IfNewline
  <2> QED BY <2>0, <2>5 DEF CountInv, Awaits
<1>3. CASE Shrink
  <2>0. pc = "shrink" /\ pc' = "retreat" /\ line' = line /\ cursor' = cursor /\ text' = SeenText
    BY <1>3, SeenShrink DEF Shrink, Step
  <2>1. Exact(SeenText, cursor - 1, 0, IfNewline(held))
    BY <2>0 DEF CountInv
  <2>2. PICK byte \in Chars :
          /\ lines' = (IF byte = Newline THEN lines - 1 ELSE lines) % Word
          /\ Same((byte = Newline) = (held = Newline))
    BY <1>3 DEF Shrink
  <2>3. byte = Newline <=> held = Newline
    BY <2>2 DEF Same
  <2>4. lines \in Int /\ lines' = (lines + (0 - IfNewline(held))) % Word
    <3>1. lines \in Int
      BY DEF SafeInv, Types
    <3>2. CASE held = Newline
      BY <2>2, <2>3, <3>1, <3>2 DEF IfNewline
    <3>3. CASE held # Newline
      BY <2>2, <2>3, <3>1, <3>3 DEF IfNewline
    <3> QED BY <3>1, <3>2, <3>3
  <2>5. NewlinesIn(SeenText) \in Nat
    <3>1. SeenText \in Seq(Chars)
      BY <2>0 DEF SafeInv, Types
    <3> QED BY <3>1, CountNat
  <2>6. lines' = (NewlinesIn(SeenText) + 1 + 0) % Word
    <3> DEFINE n == NewlinesIn(SeenText) + 1 + IfNewline(held)
               k == 0 - IfNewline(held)
    <3>1. n \in Int /\ k \in Int /\ n + k = NewlinesIn(SeenText) + 1 + 0
      BY <2>5 DEF IfNewline
    <3>2. lines = n % Word /\ lines' = (lines + k) % Word
      BY <2>1, <2>4 DEF Exact
    <3> HIDE DEF n, k
    <3>3. ((n % Word) + k) % Word = (n + k) % Word
      BY <1>0, <3>1, ModAdd, Zenon
    <3> QED BY <3>1, <3>2, <3>3
  <2>7. Exact(text, cursor - 1, 0, 0)'
    BY <2>0, <2>1, <2>6 DEF Exact
  <2> QED BY <2>0, <2>7 DEF CountInv, Awaits
<1>4. CASE Retreat
  <2>0. pc = "retreat" /\ pc' = "getchar" /\ line' = line /\ lines' = lines /\ text' = text /\ cursor' = cursor - 1
    BY <1>4, SeenRetreat DEF Retreat, Step, counters
  <2>1. Exact(text, cursor - 1, 0, 0)
    BY <2>0 DEF CountInv
  <2>2. Exact(text, cursor, 0, 0)'
    BY <2>0, <2>1 DEF Exact
  <2> QED BY <2>0, <2>2 DEF CountInv, Awaits
<1> QED BY <1>1, <1>2, <1>3, <1>4

LEMMA CountNext == SafeInv /\ SafeInv' /\ CountInv /\ [Next]_vars => CountInv'
<1> SUFFICES ASSUME SafeInv, SafeInv', CountInv, [Next]_vars, careful' PROVE CountInv'
  BY DEF CountInv
<1>1. careful /\ ~InterruptedKey
  BY CarefulBefore
<1>2. CASE UNCHANGED vars
  <2>1. SeenText' = SeenText
    BY <1>2 DEF vars, SeenText
  <2> QED BY <1>2, <2>1 DEF vars, CountInv, Exact
<1> QED BY <1>1, <1>2, CountMoves, CountClips, CountFile, CountTyping, CountErasing DEF Next

\* Whatever a careful user typed, erased, copied and moved, by keys and by
\* arrow keys, the status line tells the line of the cursor and the number of
\* lines: CountInv follows the counters through the steps of a key.
THEOREM StatusLineStaysExact == Spec => []StatusLineExact
<1>1. SafeInv /\ CountInv => StatusLineExact
  <2> SUFFICES ASSUME SafeInv, CountInv, careful, pc \in Awaits
               PROVE  /\ line = NewlinesIn(Before(text, cursor)) % Word
                      /\ lines = (NewlinesIn(text) + 1) % Word
    BY DEF StatusLineExact, Awaits
  <2> QED BY AwaitingCount
<1> QED BY <1>1, CountInit, CountNext, AlwaysSafe, PTL DEF Spec
=============================================================================
