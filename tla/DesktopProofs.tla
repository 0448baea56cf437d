--------------------------- MODULE DesktopProofs ---------------------------
(***************************************************************************)
(* The window list of FoxDE, for any number of programs and list nodes.    *)
(***************************************************************************)
EXTENDS Desktop, TLAPS

(* What is linked while there is no desktop, and what a handler between    *)
(* find and remove holds.                                                  *)
NoListWithoutDesktop == desk.pc \notin Open => list = <<>>
FindHolds ==
    \A c \in Clients, i \in 1 .. Len(list) :
        client[c] = "removing" /\ node[list[i]].win = c => found[c] = list[i]

(* During a walk whatever can be reached was registered in it; otherwise   *)
(* nothing remains of a node that is not in the list.                      *)
WalkHolds ==
    /\ \A i \in 1 .. Len(list) : node[list[i]].next = Nil
    /\ desk.pc \in {"drawn", "clicked"} => desk.walk # Nil
    /\ desk.pc \in Walking =>
          /\ desk.walk # Nil => node[desk.walk].win # Nil
          /\ \A a \in Nodes : node[a].win # Nil => node[a].win \in seen
          /\ \A a \in Nodes : node[a].next # Nil => node[node[a].next].win # Nil
    /\ desk.pc \notin Walking =>
          \A a \in Nodes : (\A i \in 1 .. Len(list) : list[i] # a) => node[a] = Blank

(* handled and what the click did go together.                             *)
ClickHolds ==
    /\ OneReceiver
    /\ desk.pc \in {"click", "clicked"} /\ ~desk.handled => got = {}
    /\ desk.pc \notin {"click", "clicked", "key"} => got = {}

(* A signal in the slot that is not being cleared was not sent.            *)
SlotHolds ==
    /\ KeysAtMostOnce
    /\ slot # "none" /\ desk.pc # "clear" => unsent = 1

IInv ==
    /\ TypeOK /\ ListedLive /\ NoListWithoutDesktop /\ FindHolds
    /\ WalkHolds /\ ClickHolds /\ SlotHolds

-----------------------------------------------------------------------------
LEMMA ListFacts ==
    ASSUME TypeOK
    PROVE  /\ Len(list) \in Nat
           /\ \A i \in 1 .. Len(list) : list[i] \in Nodes
           /\ Head1 \in Nodes \cup {Nil}
           /\ \A a \in Nodes : NextOf(a) \in Nodes \cup {Nil}
<1>1. list \in Seq(Nodes)
  BY DEF TypeOK
<1>2. Len(list) \in Nat /\ \A i \in 1 .. Len(list) : list[i] \in Nodes
  BY <1>1
<1>3. Head1 \in Nodes \cup {Nil}
  BY <1>1, <1>2 DEF Head1
<1>4. ASSUME NEW a \in Nodes PROVE NextOf(a) \in Nodes \cup {Nil}
  <2>1. CASE \E i \in 1 .. Len(list) : list[i] = a
    <3> DEFINE i == CHOOSE i \in 1 .. Len(list) : list[i] = a
    <3>1. i \in 1 .. Len(list)
      BY <2>1
    <3>2. NextOf(a) = IF i = Len(list) THEN Nil ELSE list[i + 1]
      BY <2>1 DEF NextOf
    <3> HIDE DEF i
    <3>3. QED
      BY <1>2, <3>1, <3>2
  <2>2. CASE ~ \E i \in 1 .. Len(list) : list[i] = a
    BY <2>2 DEF NextOf, TypeOK
  <2>3. QED
    BY <2>1, <2>2
<1>5. QED
  BY <1>2, <1>3, <1>4

(* A sequence without its i-th element.                                    *)
LEMMA Without ==
    ASSUME NEW S, NEW s \in Seq(S), NEW i \in 1 .. Len(s),
           \A j, k \in 1 .. Len(s) : s[j] = s[k] => j = k
    PROVE  LET t == SubSeq(s, 1, i - 1) \o SubSeq(s, i + 1, Len(s))
           IN  /\ t \in Seq(S) /\ Len(t) = Len(s) - 1
               /\ \A j \in 1 .. Len(t) : t[j] = IF j < i THEN s[j] ELSE s[j + 1]
               /\ \A j \in 1 .. Len(t) : t[j] # s[i]
               /\ \A j, k \in 1 .. Len(t) : t[j] = t[k] => j = k
<1> DEFINE l == SubSeq(s, 1, i - 1)
           r == SubSeq(s, i + 1, Len(s))
           t == l \o r
<1>1. l \in Seq(S) /\ Len(l) = i - 1 /\ \A j \in 1 .. i - 1 : l[j] = s[j]
  OBVIOUS
<1>2. r \in Seq(S) /\ Len(r) = Len(s) - i /\ \A j \in 1 .. Len(s) - i : r[j] = s[i + j]
  OBVIOUS
<1> HIDE DEF l, r
<1>3. t \in Seq(S) /\ Len(t) = Len(s) - 1
  BY <1>1, <1>2
<1>4. \A j \in 1 .. Len(t) : t[j] = IF j < i THEN s[j] ELSE s[j + 1]
  BY <1>1, <1>2, <1>3
<1> HIDE DEF t
<1>5. \A j \in 1 .. Len(t) : t[j] # s[i]
  BY <1>3, <1>4
<1>6. \A j, k \in 1 .. Len(t) : t[j] = t[k] => j = k
  BY <1>3, <1>4
<1>7. QED
  BY <1>3, <1>4, <1>5, <1>6 DEF t, l, r

(* What Remove leaves of the list.                                         *)
LEMMA Shorter ==
    ASSUME TypeOK, NEW i \in 1 .. Len(list),
           list' = SubSeq(list, 1, i - 1) \o SubSeq(list, i + 1, Len(list))
    PROVE  /\ list' \in Seq(Nodes) /\ Len(list') = Len(list) - 1
           /\ \A j \in 1 .. Len(list') : list'[j] = IF j < i THEN list[j] ELSE list[j + 1]
           /\ \A j \in 1 .. Len(list') : list'[j] # list[i]
           /\ \A j, k \in 1 .. Len(list') : list'[j] = list'[k] => j = k
<1>1. list \in Seq(Nodes) /\ \A j, k \in 1 .. Len(list) : list[j] = list[k] => j = k
  BY DEF TypeOK
<1>2. LET t == SubSeq(list, 1, i - 1) \o SubSeq(list, i + 1, Len(list))
      IN  /\ t \in Seq(Nodes) /\ Len(t) = Len(list) - 1
          /\ \A j \in 1 .. Len(t) : t[j] = IF j < i THEN list[j] ELSE list[j + 1]
          /\ \A j \in 1 .. Len(t) : t[j] # list[i]
          /\ \A j, k \in 1 .. Len(t) : t[j] = t[k] => j = k
  BY <1>1, Without, Zenon
<1>3. QED
  BY <1>2, Zenon

(* The first conjunct of TypeOK.                                           *)
DeskSet ==
    [pc : Open \cup {"off", "ipc", "over"}, walk : Nodes \cup {Nil}, at : Points,
     handled : BOOLEAN]

(* Every step keeps the types: the lists that Add and Remove make hold     *)
(* different nodes, and what a walk touches is the window of a client.     *)
LEMMA TypeStep == IInv /\ [Next]_vars => TypeOK'
<1> SUFFICES ASSUME IInv, [Next]_vars PROVE TypeOK'
  OBVIOUS
<1>1. TypeOK
  BY DEF IInv
<1>0. desk \in DeskSet
  BY <1>1 DEF TypeOK, DeskSet
<1>2. /\ Head1 \in Nodes \cup {Nil}
      /\ \A a \in Nodes : NextOf(a) \in Nodes \cup {Nil}
      /\ \A i \in 1 .. Len(list) : list[i] \in Nodes
  BY <1>1, ListFacts
<1>3. (desk.pc \in Walking /\ desk.walk # Nil) \/ desk.pc \in {"drawn", "clicked"} =>
         desk.walk \in Nodes /\ node[desk.walk].win \in Clients
  BY <1>1 DEF IInv, WalkHolds, TypeOK, Walking
<1>4. Forget \in [Nodes -> [win : Clients \cup {Nil}, armed : BOOLEAN, next : Nodes \cup {Nil}]]
  BY <1>1 DEF TypeOK, Forget, Blank
<1>5. slot # "none" /\ desk.pc # "clear" => unsent = 1
  BY DEF IInv, SlotHolds
<1>6. CASE Begin
  <2>1. desk' \in DeskSet
    BY <1>0, <1>6 DEF DeskSet, Begin, Open
  <2>2. QED
    BY <1>1, <1>6, <2>1 DEF DeskSet, TypeOK, Begin
<1>7. CASE InitWindows
  <2>1. desk' \in DeskSet
    BY <1>0, <1>7 DEF DeskSet, InitWindows, Open
  <2>2. QED
    BY <1>1, <1>7, <2>1 DEF DeskSet, TypeOK, InitWindows
<1>8. CASE Tick
  <2>1. desk' \in DeskSet
    BY <1>0, <1>2, <1>8 DEF DeskSet, Tick, Open, Registered
  <2>2. QED
    BY <1>1, <1>2, <1>8, <2>1 DEF DeskSet, TypeOK, Tick, Registered
<1>9. CASE Draw
  <2>1. desk' \in DeskSet
    BY <1>0, <1>9 DEF DeskSet, Draw, Open
  <2>2. node' \in [Nodes -> [win : Clients \cup {Nil}, armed : BOOLEAN, next : Nodes \cup {Nil}]]
    <3> DEFINE b == node[desk.walk].armed \/ window[node[desk.walk].win].exit_button
    <3>1. desk.walk \in Nodes
      BY <1>3, <1>9 DEF Draw, Walking
    <3>2. node' = [node EXCEPT ![desk.walk].armed = b]
      BY <1>9 DEF Draw
    <3>3. b \in BOOLEAN
      BY Zenon
    <3> HIDE DEF b
    <3>4. QED
      BY <1>1, <3>1, <3>2, <3>3 DEF TypeOK
  <2>3. QED
    BY <1>1, <1>9, <2>1, <2>2 DEF TypeOK, DeskSet, Draw
<1>10. CASE DrawNext
  <2>1. desk' \in DeskSet
    BY <1>0, <1>2, <1>3, <1>10 DEF DeskSet, DrawNext, Open
  <2>2. QED
    BY <1>1, <1>2, <1>3, <1>10, <2>1 DEF DeskSet, TypeOK, DrawNext
<1>11. CASE DrawDone
  <2>1. desk' \in DeskSet
    BY <1>0, <1>4, <1>11 DEF DeskSet, DrawDone, Open
  <2>2. QED
    BY <1>1, <1>4, <1>11, <2>1 DEF DeskSet, TypeOK, DrawDone
<1>12. CASE NoButton
  <2>1. desk' \in DeskSet
    BY <1>0, <1>12 DEF DeskSet, NoButton, Open
  <2>2. QED
    BY <1>1, <1>12, <2>1 DEF DeskSet, TypeOK, NoButton
<1>13. CASE ClickIcon
  <2>1. desk' \in DeskSet
    BY <1>0, <1>13 DEF DeskSet, ClickIcon, Open
  <2>2. QED
    BY <1>1, <1>13, <2>1 DEF DeskSet, TypeOK, ClickIcon
<1>14. CASE ClickElsewhere
  <2>1. desk' \in DeskSet
    BY <1>0, <1>2, <1>14 DEF DeskSet, ClickElsewhere, Open, Registered, Points
  <2>2. QED
    BY <1>1, <1>2, <1>14, <2>1 DEF DeskSet, TypeOK, ClickElsewhere, Registered, Points
<1>15. CASE Click
  <2>1. desk' \in DeskSet
    BY <1>0, <1>15 DEF DeskSet, Click, Open
  <2>2. /\ window' \in [Clients -> [exit_button : BOOLEAN, should_exit : BOOLEAN]]
        /\ got' \subseteq Clients \cup {"icon"}
    <3>1. node[desk.walk].win \in Clients
      BY <1>3, <1>15 DEF Click, Walking
    <3>2. \/ UNCHANGED <<window, got>>
          \/ /\ got' = got \cup {node[desk.walk].win}
             /\ \/ window' = window
                \/ window' = [window EXCEPT ![node[desk.walk].win] =
                                [exit_button |-> FALSE, should_exit |-> TRUE]]
      BY <1>15 DEF Click
    <3> DEFINE W == [exit_button : BOOLEAN, should_exit : BOOLEAN]
               r == [exit_button |-> FALSE, should_exit |-> TRUE]
    <3>3. r \in W
      OBVIOUS
    <3>4. window \in [Clients -> W] /\ got \subseteq Clients \cup {"icon"}
      BY <1>1 DEF TypeOK
    <3> HIDE DEF W, r
    <3>5. window' \in [Clients -> W]
      BY <3>1, <3>2, <3>3, <3>4 DEF r
    <3>6. QED
      BY <3>1, <3>2, <3>4, <3>5 DEF W
  <2>3. QED
    BY <1>1, <1>15, <2>1, <2>2 DEF TypeOK, DeskSet, Click
<1>16. CASE ClickNext
  <2>1. desk' \in DeskSet
    BY <1>0, <1>2, <1>3, <1>16 DEF DeskSet, ClickNext, Open
  <2>2. QED
    BY <1>1, <1>2, <1>3, <1>16, <2>1 DEF DeskSet, TypeOK, ClickNext
<1>17. CASE ClickDone
  <2>1. desk' \in DeskSet
    BY <1>0, <1>4, <1>17 DEF DeskSet, ClickDone, Open, Points
  <2>2. QED
    BY <1>1, <1>4, <1>17, <2>1 DEF DeskSet, TypeOK, ClickDone, Points
<1>18. CASE KeyLook
  <2>1. desk' \in DeskSet
    BY <1>0, <1>18 DEF DeskSet, KeyLook, Open
  <2>2. QED
    BY <1>1, <1>18, <2>1 DEF DeskSet, TypeOK, KeyLook
<1>19. CASE KeyDown
  <2>1. desk' \in DeskSet
    BY <1>0, <1>5, <1>19 DEF DeskSet, KeyDown, KeySend, Open
  <2>2. QED
    BY <1>1, <1>5, <1>19, <2>1 DEF DeskSet, TypeOK, KeyDown, KeySend
<1>20. CASE KeyUp
  <2>1. desk' \in DeskSet
    BY <1>0, <1>5, <1>20 DEF DeskSet, KeyUp, KeySend, Open
  <2>2. QED
    BY <1>1, <1>5, <1>20, <2>1 DEF DeskSet, TypeOK, KeyUp, KeySend
<1>21. CASE KeyClear
  <2>1. desk' \in DeskSet
    BY <1>0, <1>21 DEF DeskSet, KeyClear, Open
  <2>2. QED
    BY <1>1, <1>21, <2>1 DEF DeskSet, TypeOK, KeyClear
<1>22. CASE LeaveLoop
  <2>1. desk' \in DeskSet
    BY <1>0, <1>22 DEF DeskSet, LeaveLoop, Open
  <2>2. QED
    BY <1>1, <1>22, <2>1 DEF DeskSet, TypeOK, LeaveLoop
<1>23. CASE DestroyAllWindows
  <2>1. desk' \in DeskSet
    BY <1>0, <1>23 DEF DeskSet, DestroyAllWindows, Open
  <2>2. QED
    BY <1>1, <1>23, <2>1 DEF DeskSet, TypeOK, DestroyAllWindows, Blank
<1>24. CASE Over
  <2>1. desk' \in DeskSet
    BY <1>0, <1>24 DEF DeskSet, Over, Open
  <2>2. QED
    BY <1>1, <1>24, <2>1 DEF DeskSet, TypeOK, Over, Blank
<1>25. CASE TerminalExit
  BY <1>1, <1>25 DEF TypeOK, TerminalExit
<1>26. CASE \E kind \in {"down", "up"} : Signal(kind)
  BY <1>1, <1>26 DEF TypeOK, Signal
<1>27. ASSUME NEW c \in Clients, Register(c) PROVE TypeOK'
  BY <1>1, <1>27 DEF TypeOK, Register, Goes
<1>28. ASSUME NEW c \in Clients, Add(c) PROVE TypeOK'
  <2>1. CASE desk.pc \notin Open
    BY <1>1, <1>28, <2>1 DEF TypeOK, Add, Goes
  <2>2. CASE desk.pc \in Open
    <3>1. PICK a \in Nodes \ {list[i] : i \in 1 .. Len(list)} :
             /\ list' = Append(list, a)
             /\ node' = [node EXCEPT ![a] = [win |-> c, armed |-> FALSE, next |-> Nil]]
             /\ seen' = IF desk.pc \in Walking THEN seen \cup {c} ELSE seen
      BY <1>28, <2>2 DEF Add
    <3>2. list' \in Seq(Nodes) /\ \A i, j \in 1 .. Len(list') : list'[i] = list'[j] => i = j
      BY <1>1, <3>1 DEF TypeOK
    <3>3. node' \in [Nodes -> [win : Clients \cup {Nil}, armed : BOOLEAN, next : Nodes \cup {Nil}]]
      BY <1>1, <3>1 DEF TypeOK
    <3>4. seen' \subseteq Clients
      BY <1>1, <3>1 DEF TypeOK
    <3>5. QED
      BY <1>1, <1>28, <3>2, <3>3, <3>4 DEF TypeOK, Add, Goes
  <2>3. QED
    BY <2>1, <2>2
<1>29. ASSUME NEW c \in Clients, ShowExitButton(c) PROVE TypeOK'
  <2>1. window' \in [Clients -> [exit_button : BOOLEAN, should_exit : BOOLEAN]]
    <3>1. [window[c] EXCEPT !.exit_button = TRUE] \in [exit_button : BOOLEAN, should_exit : BOOLEAN]
      <4> DEFINE w == window[c]
      <4>1. w \in [exit_button : BOOLEAN, should_exit : BOOLEAN]
        BY <1>1 DEF TypeOK
      <4> HIDE DEF w
      <4>2. [w EXCEPT !.exit_button = TRUE] \in [exit_button : BOOLEAN, should_exit : BOOLEAN]
        BY <4>1
      <4>3. QED
        BY <4>2 DEF w
    <3>2. QED
      BY <1>1, <1>29, <3>1 DEF TypeOK, ShowExitButton
  <2>2. QED
    BY <1>1, <1>29, <2>1 DEF TypeOK, ShowExitButton, Goes
<1>30. ASSUME NEW c \in Clients, SeeExit(c) PROVE TypeOK'
  BY <1>1, <1>30 DEF TypeOK, SeeExit, Goes
<1>31. ASSUME NEW c \in Clients, Unregister(c) PROVE TypeOK'
  <2>1. found' \in [Clients -> Nodes \cup {Nil}]
    BY <1>1, <1>2, <1>31 DEF TypeOK, Unregister
  <2>2. QED
    BY <1>1, <1>31, <2>1 DEF TypeOK, Unregister, Goes
<1>32. ASSUME NEW c \in Clients, Remove(c) PROVE TypeOK'
  <2>1. CASE ~ \E i \in 1 .. Len(list) : list[i] = found[c]
    BY <1>1, <1>32, <2>1 DEF TypeOK, Remove, Goes
  <2>2. CASE \E i \in 1 .. Len(list) : list[i] = found[c]
    <3>1. PICK i \in 1 .. Len(list) :
             /\ list' = SubSeq(list, 1, i - 1) \o SubSeq(list, i + 1, Len(list))
             /\ node' = [node EXCEPT ![list[i]] =
                   IF desk.pc \in Walking THEN [@ EXCEPT !.next = NextOf(list[i])] ELSE Blank]
      BY <1>32, <2>2 DEF Remove
    <3>2. list' \in Seq(Nodes) /\ \A j, l \in 1 .. Len(list') : list'[j] = list'[l] => j = l
      BY <1>1, <3>1, Shorter
    <3>3. node' \in [Nodes -> [win : Clients \cup {Nil}, armed : BOOLEAN, next : Nodes \cup {Nil}]]
      <4>1. list[i] \in Nodes /\ NextOf(list[i]) \in Nodes \cup {Nil}
        BY <1>2
      <4>2. node \in [Nodes -> [win : Clients \cup {Nil}, armed : BOOLEAN, next : Nodes \cup {Nil}]]
        BY <1>1 DEF TypeOK
      <4>3. QED
        BY <3>1, <4>1, <4>2 DEF Blank
    <3>4. QED
      BY <1>1, <1>32, <3>2, <3>3 DEF TypeOK, Remove, Goes
  <2>3. QED
    BY <2>1, <2>2
<1>33. ASSUME NEW c \in Clients, Delete(c) PROVE TypeOK'
  BY <1>1, <1>33 DEF TypeOK, Delete, Goes
<1>34. CASE UNCHANGED vars
  BY <1>1, <1>34 DEF TypeOK, vars
<1>35. QED
  BY <1>6, <1>7, <1>8, <1>9, <1>10, <1>11, <1>12, <1>13, <1>14, <1>15, <1>16, <1>17,
     <1>18, <1>19, <1>20, <1>21, <1>22, <1>23, <1>24, <1>25, <1>26, <1>27, <1>28, <1>29,
     <1>30, <1>31, <1>32, <1>33, <1>34
     DEF Next, Desk, Client

(* Only a signal fills the slot, and only KeyClear leaves "clear".         *)
LEMMA SlotStep == IInv /\ [Next]_vars => SlotHolds'
<1> SUFFICES ASSUME IInv, [Next]_vars PROVE SlotHolds'
  OBVIOUS
<1>1. desk \in DeskSet /\ TypeOK
  BY DEF IInv, TypeOK, DeskSet
<1>2. SlotHolds
  BY DEF IInv
<1>3. CASE InitWindows
  BY <1>1, <1>2, <1>3 DEF SlotHolds, KeysAtMostOnce, DeskSet, InitWindows
<1>4. CASE Tick
  BY <1>1, <1>2, <1>4 DEF SlotHolds, KeysAtMostOnce, DeskSet, Tick
<1>5. CASE Draw
  BY <1>1, <1>2, <1>5 DEF SlotHolds, KeysAtMostOnce, DeskSet, Draw
<1>6. CASE DrawNext
  BY <1>1, <1>2, <1>6 DEF SlotHolds, KeysAtMostOnce, DeskSet, DrawNext
<1>7. CASE DrawDone
  BY <1>1, <1>2, <1>7 DEF SlotHolds, KeysAtMostOnce, DeskSet, DrawDone
<1>8. CASE NoButton
  BY <1>1, <1>2, <1>8 DEF SlotHolds, KeysAtMostOnce, DeskSet, NoButton
<1>9. CASE ClickIcon
  BY <1>1, <1>2, <1>9 DEF SlotHolds, KeysAtMostOnce, DeskSet, ClickIcon
<1>10. CASE ClickElsewhere
  BY <1>1, <1>2, <1>10 DEF SlotHolds, KeysAtMostOnce, DeskSet, ClickElsewhere
<1>11. CASE Click
  BY <1>1, <1>2, <1>11 DEF SlotHolds, KeysAtMostOnce, DeskSet, Click
<1>12. CASE ClickNext
  BY <1>1, <1>2, <1>12 DEF SlotHolds, KeysAtMostOnce, DeskSet, ClickNext
<1>13. CASE ClickDone
  BY <1>1, <1>2, <1>13 DEF SlotHolds, KeysAtMostOnce, DeskSet, ClickDone
<1>14. CASE KeyLook
  BY <1>1, <1>2, <1>14 DEF SlotHolds, KeysAtMostOnce, DeskSet, KeyLook
<1>15. CASE LeaveLoop
  BY <1>1, <1>2, <1>15 DEF SlotHolds, KeysAtMostOnce, DeskSet, LeaveLoop
<1>16. CASE DestroyAllWindows
  BY <1>1, <1>2, <1>16 DEF SlotHolds, KeysAtMostOnce, DeskSet, DestroyAllWindows
<1>17. CASE Over
  BY <1>1, <1>2, <1>17 DEF SlotHolds, KeysAtMostOnce, DeskSet, Over
<1>18. CASE KeyDown
  BY <1>1, <1>2, <1>18 DEF SlotHolds, KeysAtMostOnce, DeskSet, KeySend, KeyDown
<1>19. CASE KeyUp
  BY <1>1, <1>2, <1>19 DEF SlotHolds, KeysAtMostOnce, DeskSet, KeySend, KeyUp
<1>20. CASE Begin
  BY <1>1, <1>2, <1>20 DEF SlotHolds, KeysAtMostOnce, DeskSet, Begin
<1>21. CASE KeyClear
  BY <1>1, <1>2, <1>21 DEF SlotHolds, KeysAtMostOnce, DeskSet, KeyClear
<1>22. CASE TerminalExit
  BY <1>1, <1>2, <1>22 DEF SlotHolds, KeysAtMostOnce, DeskSet, TerminalExit
<1>23. CASE \E kind \in {"down", "up"} : Signal(kind)
  BY <1>2, <1>23 DEF SlotHolds, KeysAtMostOnce, Signal
<1>24. CASE \E c \in Clients : \/ Register(c) \/ Add(c) \/ ShowExitButton(c) \/ SeeExit(c)
                             \/ Unregister(c) \/ Remove(c) \/ Delete(c)
  BY <1>2, <1>24
     DEF SlotHolds, KeysAtMostOnce, Register, Add, ShowExitButton, SeeExit, Unregister,
         Remove, Delete
<1>25. CASE UNCHANGED vars
  BY <1>2, <1>25 DEF SlotHolds, KeysAtMostOnce, vars
<1>26. QED
  BY <1>3, <1>4, <1>5, <1>6, <1>7, <1>8, <1>9, <1>10, <1>11, <1>12, <1>13, <1>14, <1>15,
     <1>16, <1>17, <1>18, <1>19, <1>20, <1>21, <1>22, <1>23, <1>24, <1>25
     DEF Next, Desk, Client

(* Whoever gets the click also sets handled.                               *)
LEMMA ClickStep == IInv /\ [Next]_vars => ClickHolds'
<1> SUFFICES ASSUME IInv, [Next]_vars PROVE ClickHolds'
  OBVIOUS
<1>1. desk \in DeskSet /\ TypeOK
  BY DEF IInv, TypeOK, DeskSet
<1>2. ClickHolds
  BY DEF IInv
<1>3. CASE InitWindows
  BY <1>1, <1>2, <1>3 DEF ClickHolds, OneReceiver, DeskSet, InitWindows
<1>4. CASE Tick
  BY <1>1, <1>2, <1>4 DEF ClickHolds, OneReceiver, DeskSet, Tick
<1>5. CASE Draw
  BY <1>1, <1>2, <1>5 DEF ClickHolds, OneReceiver, DeskSet, Draw
<1>6. CASE DrawNext
  BY <1>1, <1>2, <1>6 DEF ClickHolds, OneReceiver, DeskSet, DrawNext
<1>7. CASE DrawDone
  BY <1>1, <1>2, <1>7 DEF ClickHolds, OneReceiver, DeskSet, DrawDone
<1>8. CASE NoButton
  BY <1>1, <1>2, <1>8 DEF ClickHolds, OneReceiver, DeskSet, NoButton
<1>9. CASE ClickIcon
  BY <1>1, <1>2, <1>9 DEF ClickHolds, OneReceiver, DeskSet, ClickIcon
<1>10. CASE ClickElsewhere
  BY <1>1, <1>2, <1>10 DEF ClickHolds, OneReceiver, DeskSet, ClickElsewhere
<1>11. CASE Click
  BY <1>1, <1>2, <1>11 DEF ClickHolds, OneReceiver, DeskSet, Click
<1>12. CASE ClickNext
  BY <1>1, <1>2, <1>12 DEF ClickHolds, OneReceiver, DeskSet, ClickNext
<1>13. CASE ClickDone
  BY <1>1, <1>2, <1>13 DEF ClickHolds, OneReceiver, DeskSet, ClickDone
<1>14. CASE KeyLook
  BY <1>1, <1>2, <1>14 DEF ClickHolds, OneReceiver, DeskSet, KeyLook
<1>15. CASE LeaveLoop
  BY <1>1, <1>2, <1>15 DEF ClickHolds, OneReceiver, DeskSet, LeaveLoop
<1>16. CASE DestroyAllWindows
  BY <1>1, <1>2, <1>16 DEF ClickHolds, OneReceiver, DeskSet, DestroyAllWindows
<1>17. CASE Over
  BY <1>1, <1>2, <1>17 DEF ClickHolds, OneReceiver, DeskSet, Over
<1>18. CASE KeyDown
  BY <1>1, <1>2, <1>18 DEF ClickHolds, OneReceiver, DeskSet, KeySend, KeyDown
<1>19. CASE KeyUp
  BY <1>1, <1>2, <1>19 DEF ClickHolds, OneReceiver, DeskSet, KeySend, KeyUp
<1>20. CASE Begin
  BY <1>1, <1>2, <1>20 DEF ClickHolds, OneReceiver, DeskSet, Begin
<1>21. CASE KeyClear
  BY <1>1, <1>2, <1>21 DEF ClickHolds, OneReceiver, DeskSet, KeyClear
<1>22. CASE TerminalExit
  BY <1>1, <1>2, <1>22 DEF ClickHolds, OneReceiver, DeskSet, TerminalExit
<1>23. CASE \E kind \in {"down", "up"} : Signal(kind)
  BY <1>2, <1>23 DEF ClickHolds, OneReceiver, Signal
<1>24. CASE \E c \in Clients : \/ Register(c) \/ Add(c) \/ ShowExitButton(c) \/ SeeExit(c)
                             \/ Unregister(c) \/ Remove(c) \/ Delete(c)
  BY <1>2, <1>24
     DEF ClickHolds, OneReceiver, Register, Add, ShowExitButton, SeeExit, Unregister,
         Remove, Delete
<1>25. CASE UNCHANGED vars
  BY <1>2, <1>25 DEF ClickHolds, OneReceiver, vars
<1>26. QED
  BY <1>3, <1>4, <1>5, <1>6, <1>7, <1>8, <1>9, <1>10, <1>11, <1>12, <1>13, <1>14, <1>15,
     <1>16, <1>17, <1>18, <1>19, <1>20, <1>21, <1>22, <1>23, <1>24, <1>25
     DEF Next, Desk, Client

(* A window is listed only between its Add and its Remove, which takes out *)
(* the node that find returned because nobody else removes it.             *)
LEMMA ListStep == IInv /\ [Next]_vars => (ListedLive /\ NoListWithoutDesktop /\ FindHolds)'
<1> SUFFICES ASSUME IInv, [Next]_vars PROVE (ListedLive /\ NoListWithoutDesktop /\ FindHolds)'
  OBVIOUS
<1>1. desk \in DeskSet /\ TypeOK
  BY DEF IInv, TypeOK, DeskSet
<1>2. ListedLive /\ NoListWithoutDesktop /\ FindHolds
  BY DEF IInv
<1>3. /\ Len(list) \in Nat
      /\ \A i \in 1 .. Len(list) : list[i] \in Nodes
  BY <1>1, ListFacts
<1>4. CASE InitWindows
  BY <1>1, <1>2, <1>4
     DEF ListedLive, NoListWithoutDesktop, FindHolds, Registered, InitWindows, DeskSet,
         Open
<1>5. CASE LeaveLoop
  BY <1>1, <1>2, <1>5
     DEF ListedLive, NoListWithoutDesktop, FindHolds, Registered, LeaveLoop, DeskSet,
         Open
<1>6. CASE Begin
  BY <1>1, <1>2, <1>6
     DEF ListedLive, NoListWithoutDesktop, FindHolds, Registered, Begin, DeskSet, Open
<1>7. CASE Over
  BY <1>1, <1>2, <1>7
     DEF ListedLive, NoListWithoutDesktop, FindHolds, Registered, Over, DeskSet, Open
<1>8. CASE DestroyAllWindows
  BY <1>1, <1>2, <1>8
     DEF ListedLive, NoListWithoutDesktop, FindHolds, Registered, DestroyAllWindows,
         DeskSet, Open
<1>9. CASE Tick
  <2>1. /\ list' = list /\ client' = client /\ found' = found
        /\ \A i \in 1 .. Len(list) : node'[list[i]].win = node[list[i]].win
        /\ desk.pc \in Open <=> desk'.pc \in Open
    BY <1>1, <1>3, <1>9 DEF Tick, DeskSet, Open
  <2>2. QED
    BY <1>2, <2>1 DEF ListedLive, NoListWithoutDesktop, FindHolds, Registered
<1>10. CASE DrawNext
  <2>1. /\ list' = list /\ client' = client /\ found' = found
        /\ \A i \in 1 .. Len(list) : node'[list[i]].win = node[list[i]].win
        /\ desk.pc \in Open <=> desk'.pc \in Open
    BY <1>1, <1>3, <1>10 DEF DrawNext, DeskSet, Open
  <2>2. QED
    BY <1>2, <2>1 DEF ListedLive, NoListWithoutDesktop, FindHolds, Registered
<1>11. CASE NoButton
  <2>1. /\ list' = list /\ client' = client /\ found' = found
        /\ \A i \in 1 .. Len(list) : node'[list[i]].win = node[list[i]].win
        /\ desk.pc \in Open <=> desk'.pc \in Open
    BY <1>1, <1>3, <1>11 DEF NoButton, DeskSet, Open
  <2>2. QED
    BY <1>2, <2>1 DEF ListedLive, NoListWithoutDesktop, FindHolds, Registered
<1>12. CASE ClickIcon
  <2>1. /\ list' = list /\ client' = client /\ found' = found
        /\ \A i \in 1 .. Len(list) : node'[list[i]].win = node[list[i]].win
        /\ desk.pc \in Open <=> desk'.pc \in Open
    BY <1>1, <1>3, <1>12 DEF ClickIcon, DeskSet, Open
  <2>2. QED
    BY <1>2, <2>1 DEF ListedLive, NoListWithoutDesktop, FindHolds, Registered
<1>13. CASE ClickElsewhere
  <2>1. /\ list' = list /\ client' = client /\ found' = found
        /\ \A i \in 1 .. Len(list) : node'[list[i]].win = node[list[i]].win
        /\ desk.pc \in Open <=> desk'.pc \in Open
    BY <1>1, <1>3, <1>13 DEF ClickElsewhere, DeskSet, Open
  <2>2. QED
    BY <1>2, <2>1 DEF ListedLive, NoListWithoutDesktop, FindHolds, Registered
<1>14. CASE Click
  <2>1. /\ list' = list /\ client' = client /\ found' = found
        /\ \A i \in 1 .. Len(list) : node'[list[i]].win = node[list[i]].win
        /\ desk.pc \in Open <=> desk'.pc \in Open
    BY <1>1, <1>3, <1>14 DEF Click, DeskSet, Open
  <2>2. QED
    BY <1>2, <2>1 DEF ListedLive, NoListWithoutDesktop, FindHolds, Registered
<1>15. CASE ClickNext
  <2>1. /\ list' = list /\ client' = client /\ found' = found
        /\ \A i \in 1 .. Len(list) : node'[list[i]].win = node[list[i]].win
        /\ desk.pc \in Open <=> desk'.pc \in Open
    BY <1>1, <1>3, <1>15 DEF ClickNext, DeskSet, Open
  <2>2. QED
    BY <1>2, <2>1 DEF ListedLive, NoListWithoutDesktop, FindHolds, Registered
<1>16. CASE KeyLook
  <2>1. /\ list' = list /\ client' = client /\ found' = found
        /\ \A i \in 1 .. Len(list) : node'[list[i]].win = node[list[i]].win
        /\ desk.pc \in Open <=> desk'.pc \in Open
    BY <1>1, <1>3, <1>16 DEF KeyLook, DeskSet, Open
  <2>2. QED
    BY <1>2, <2>1 DEF ListedLive, NoListWithoutDesktop, FindHolds, Registered
<1>17. CASE KeyClear
  <2>1. /\ list' = list /\ client' = client /\ found' = found
        /\ \A i \in 1 .. Len(list) : node'[list[i]].win = node[list[i]].win
        /\ desk.pc \in Open <=> desk'.pc \in Open
    BY <1>1, <1>3, <1>17 DEF KeyClear, DeskSet, Open
  <2>2. QED
    BY <1>2, <2>1 DEF ListedLive, NoListWithoutDesktop, FindHolds, Registered
<1>18. CASE DrawDone
  <2>1. /\ list' = list /\ client' = client /\ found' = found
        /\ \A i \in 1 .. Len(list) : node'[list[i]].win = node[list[i]].win
        /\ desk.pc \in Open <=> desk'.pc \in Open
    BY <1>1, <1>3, <1>18 DEF DrawDone, Forget, DeskSet, Open
  <2>2. QED
    BY <1>2, <2>1 DEF ListedLive, NoListWithoutDesktop, FindHolds, Registered
<1>19. CASE ClickDone
  <2>1. /\ list' = list /\ client' = client /\ found' = found
        /\ \A i \in 1 .. Len(list) : node'[list[i]].win = node[list[i]].win
        /\ desk.pc \in Open <=> desk'.pc \in Open
    BY <1>1, <1>3, <1>19 DEF ClickDone, Forget, DeskSet, Open
  <2>2. QED
    BY <1>2, <2>1 DEF ListedLive, NoListWithoutDesktop, FindHolds, Registered
<1>20. CASE KeyDown
  <2>1. /\ list' = list /\ client' = client /\ found' = found
        /\ \A i \in 1 .. Len(list) : node'[list[i]].win = node[list[i]].win
        /\ desk.pc \in Open <=> desk'.pc \in Open
    BY <1>1, <1>3, <1>20 DEF KeyDown, KeySend, DeskSet, Open
  <2>2. QED
    BY <1>2, <2>1 DEF ListedLive, NoListWithoutDesktop, FindHolds, Registered
<1>21. CASE KeyUp
  <2>1. /\ list' = list /\ client' = client /\ found' = found
        /\ \A i \in 1 .. Len(list) : node'[list[i]].win = node[list[i]].win
        /\ desk.pc \in Open <=> desk'.pc \in Open
    BY <1>1, <1>3, <1>21 DEF KeyUp, KeySend, DeskSet, Open
  <2>2. QED
    BY <1>2, <2>1 DEF ListedLive, NoListWithoutDesktop, FindHolds, Registered
<1>22. CASE Draw
  <2>1. /\ list' = list /\ client' = client /\ found' = found
        /\ desk.pc \in Open <=> desk'.pc \in Open
    BY <1>1, <1>22 DEF Draw, DeskSet, Open
  <2>2. \A a \in Nodes : node'[a].win = node[a].win
    BY <1>1, <1>22 DEF Draw, TypeOK
  <2>3. QED
    BY <1>2, <1>3, <2>1, <2>2 DEF ListedLive, NoListWithoutDesktop, FindHolds, Registered
<1>23. CASE TerminalExit \/ (\E kind \in {"down", "up"} : Signal(kind))
  BY <1>2, <1>23
     DEF ListedLive, NoListWithoutDesktop, FindHolds, Registered, TerminalExit, Signal
<1>24. ASSUME NEW c \in Clients, Register(c) PROVE (ListedLive /\ NoListWithoutDesktop /\ FindHolds)'
  BY <1>1, <1>2, <1>3, <1>24, SMTT(30)
     DEF ListedLive, NoListWithoutDesktop, FindHolds, Registered, Register, Goes, TypeOK
<1>25. ASSUME NEW c \in Clients, Add(c) PROVE (ListedLive /\ NoListWithoutDesktop /\ FindHolds)'
  <2>1. client[c] = "adding" /\ client' = [client EXCEPT ![c] = "shown"] /\ found' = found /\ desk' = desk
    BY <1>25 DEF Add, Goes
  <2>2. \A i \in 1 .. Len(list) : node[list[i]].win # c
    BY <1>2, <2>1 DEF ListedLive, Registered
  <2>3. CASE desk.pc \notin Open
    BY <1>1, <1>2, <1>3, <1>25, <2>1, <2>3
       DEF ListedLive, NoListWithoutDesktop, FindHolds, Registered, Add, TypeOK
  <2>4. CASE desk.pc \in Open
    <3>1. PICK a \in Nodes \ {list[i] : i \in 1 .. Len(list)} :
             /\ list' = Append(list, a)
             /\ node' = [node EXCEPT ![a] = [win |-> c, armed |-> FALSE, next |-> Nil]]
      BY <1>25, <2>4 DEF Add
    <3>2. /\ Len(list') = Len(list) + 1 /\ list'[Len(list) + 1] = a
          /\ \A i \in 1 .. Len(list) : list'[i] = list[i]
      BY <1>1, <1>3, <3>1 DEF TypeOK
    <3>3. /\ node'[a].win = c
          /\ \A i \in 1 .. Len(list) : node'[list[i]] = node[list[i]]
      BY <1>1, <1>3, <3>1 DEF TypeOK
    <3>4. /\ client'[c] = "shown"
          /\ \A d \in Clients \ {c} : client'[d] = client[d]
      BY <1>1, <2>1 DEF TypeOK
    <3>5. ListedLive'
      BY <1>2, <1>3, <2>2, <3>2, <3>3, <3>4, SMTT(30) DEF ListedLive, Registered
    <3>6. NoListWithoutDesktop' /\ FindHolds'
      BY <1>2, <1>3, <2>1, <2>4, <3>2, <3>3, <3>4 DEF NoListWithoutDesktop, FindHolds
    <3>7. QED
      BY <3>5, <3>6
  <2>5. QED
    BY <2>3, <2>4
<1>26. ASSUME NEW c \in Clients, ShowExitButton(c) PROVE (ListedLive /\ NoListWithoutDesktop /\ FindHolds)'
  BY <1>1, <1>2, <1>3, <1>26
     DEF ListedLive, NoListWithoutDesktop, FindHolds, Registered, ShowExitButton, Goes,
         TypeOK
<1>27. ASSUME NEW c \in Clients, SeeExit(c) PROVE (ListedLive /\ NoListWithoutDesktop /\ FindHolds)'
  BY <1>1, <1>2, <1>3, <1>27
     DEF ListedLive, NoListWithoutDesktop, FindHolds, Registered, SeeExit, Goes, TypeOK
<1>28. ASSUME NEW c \in Clients, Unregister(c) PROVE (ListedLive /\ NoListWithoutDesktop /\ FindHolds)'
  <2>1. client[c] = "leaving" /\ list' = list /\ node' = node /\ desk' = desk
    BY <1>28 DEF Unregister
  <2>2. CASE desk.pc \in Open /\ c \in Listed
    <3>1. PICK i \in 1 .. Len(list) : node[list[i]].win = c /\ found' = [found EXCEPT ![c] = list[i]]
      BY <1>28, <2>2 DEF Unregister
    <3>2. client' = [client EXCEPT ![c] = "removing"]
      BY <1>28, <2>2 DEF Unregister, Goes
    <3>3. /\ client'[c] = "removing" /\ found'[c] = list[i]
          /\ \A d \in Clients \ {c} : client'[d] = client[d] /\ found'[d] = found[d]
      BY <1>1, <3>1, <3>2 DEF TypeOK
    <3>4. ListedLive' /\ NoListWithoutDesktop'
      BY <1>2, <2>1, <3>3 DEF ListedLive, NoListWithoutDesktop, Registered
    <3>5. FindHolds'
      BY <1>2, <2>1, <3>1, <3>3 DEF ListedLive, FindHolds
    <3>6. QED
      BY <3>4, <3>5
  <2>3. CASE ~ (desk.pc \in Open /\ c \in Listed)
    <3>1. \A i \in 1 .. Len(list) : node[list[i]].win # c
      BY <1>2, <1>3, <2>3 DEF NoListWithoutDesktop, Listed
    <3>2. client' = [client EXCEPT ![c] = "deleting"] /\ found' = found
      BY <1>28, <2>3 DEF Unregister, Goes
    <3>3. QED
      BY <1>1, <1>2, <2>1, <3>1, <3>2
         DEF ListedLive, NoListWithoutDesktop, FindHolds, Registered, TypeOK
  <2>4. QED
    BY <2>2, <2>3
<1>29. ASSUME NEW c \in Clients, Remove(c) PROVE (ListedLive /\ NoListWithoutDesktop /\ FindHolds)'
  <2>1. /\ client[c] = "removing" /\ desk' = desk
        /\ client' = [client EXCEPT ![c] = "deleting"] /\ found' = [found EXCEPT ![c] = Nil]
    BY <1>29 DEF Remove, Goes
  <2>2. /\ client'[c] = "deleting"
        /\ \A d \in Clients \ {c} : client'[d] = client[d] /\ found'[d] = found[d]
    BY <1>1, <2>1 DEF TypeOK
  <2>3. CASE ~ \E i \in 1 .. Len(list) : list[i] = found[c]
    <3>1. list' = list /\ node' = node
      BY <1>29, <2>3 DEF Remove
    <3>2. \A i \in 1 .. Len(list) : node[list[i]].win # c
      BY <1>2, <2>1, <2>3 DEF FindHolds
    <3>3. QED
      BY <1>2, <2>1, <2>2, <3>1, <3>2
         DEF ListedLive, NoListWithoutDesktop, FindHolds, Registered
  <2>4. CASE \E i \in 1 .. Len(list) : list[i] = found[c]
    <3>1. PICK i \in 1 .. Len(list) :
             /\ list[i] = found[c]
             /\ list' = SubSeq(list, 1, i - 1) \o SubSeq(list, i + 1, Len(list))
             /\ node' = [node EXCEPT ![list[i]] =
                   IF desk.pc \in Walking THEN [@ EXCEPT !.next = NextOf(list[i])] ELSE Blank]
      BY <1>29, <2>4 DEF Remove
    <3>2. /\ Len(list') = Len(list) - 1
          /\ \A j \in 1 .. Len(list') : list'[j] = IF j < i THEN list[j] ELSE list[j + 1]
          /\ \A j \in 1 .. Len(list') : list'[j] # list[i]
          /\ \A j, l \in 1 .. Len(list') : list'[j] = list'[l] => j = l
      BY <1>1, <3>1, Shorter
    <3>3. \A j \in 1 .. Len(list') : \E l \in 1 .. Len(list) : list'[j] = list[l] /\ l # i
      BY <1>3, <3>2
    <3>4. \A a \in Nodes : a # list[i] => node'[a] = node[a]
      BY <1>1, <3>1 DEF TypeOK
    <3>5. ASSUME NEW j \in 1 .. Len(list')
          PROVE  node'[list'[j]] = node[list'[j]] /\ node[list'[j]].win # c
      <4>1. PICK l \in 1 .. Len(list) : list'[j] = list[l] /\ l # i
        BY <3>3
      <4>2. list'[j] \in Nodes /\ list'[j] # list[i]
        BY <1>3, <3>2, <4>1
      <4>3. node[list[l]].win # c
        BY <1>2, <2>1, <3>1, <4>1, <4>2 DEF FindHolds
      <4>4. QED
        BY <3>4, <4>1, <4>2, <4>3
    <3>6. \A j \in 1 .. Len(list') : node'[list'[j]].win \in Registered /\ node'[list'[j]].win # c
      BY <1>2, <3>3, <3>5 DEF ListedLive
    <3>7. Registered \ {c} \subseteq Registered'
      BY <2>2 DEF Registered
    <3>8. \A j, l \in 1 .. Len(list') : node'[list'[j]].win = node'[list'[l]].win => j = l
      <4>1. ASSUME NEW j \in 1 .. Len(list'), NEW l \in 1 .. Len(list'),
                   node'[list'[j]].win = node'[list'[l]].win
            PROVE  j = l
        <5>1. PICK k \in 1 .. Len(list) : list'[j] = list[k]
          BY <3>3
        <5>2. PICK m \in 1 .. Len(list) : list'[l] = list[m]
          BY <3>3
        <5>3. node[list[k]].win = node[list[m]].win
          BY <3>5, <4>1, <5>1, <5>2
        <5>4. QED
          BY <1>2, <3>2, <5>1, <5>2, <5>3 DEF ListedLive
      <4>2. QED
        BY <4>1
    <3>9. ListedLive'
      BY <3>6, <3>7, <3>8 DEF ListedLive
    <3>10. NoListWithoutDesktop'
      BY <1>2, <1>3, <2>1, <3>1 DEF NoListWithoutDesktop
    <3>11. FindHolds'
      <4>1. ASSUME NEW d \in Clients, NEW j \in 1 .. Len(list'),
                   client'[d] = "removing", node'[list'[j]].win = d
            PROVE  found'[d] = list'[j]
        <5>1. d # c /\ client[d] = "removing" /\ found'[d] = found[d]
          BY <2>2, <4>1
        <5>2. PICK l \in 1 .. Len(list) : list'[j] = list[l]
          BY <3>3
        <5>3. node[list[l]].win = d
          BY <3>5, <4>1, <5>2
        <5>4. QED
          BY <1>2, <5>1, <5>2, <5>3 DEF FindHolds
      <4>2. QED
        BY <4>1 DEF FindHolds
    <3>12. QED
      BY <3>9, <3>10, <3>11
  <2>5. QED
    BY <2>3, <2>4
<1>30. ASSUME NEW c \in Clients, Delete(c) PROVE (ListedLive /\ NoListWithoutDesktop /\ FindHolds)'
  BY <1>1, <1>2, <1>3, <1>30
     DEF ListedLive, NoListWithoutDesktop, FindHolds, Registered, Delete, Goes, TypeOK
<1>31. CASE UNCHANGED vars
  BY <1>2, <1>31 DEF ListedLive, NoListWithoutDesktop, FindHolds, Registered, vars
<1>32. QED
  BY <1>4, <1>5, <1>6, <1>7, <1>8, <1>9, <1>10, <1>11, <1>12, <1>13, <1>14, <1>15,
     <1>16, <1>17, <1>18, <1>19, <1>20, <1>21, <1>22, <1>23, <1>24, <1>25, <1>26, <1>27,
     <1>28, <1>29, <1>30, <1>31
     DEF Next, Desk, Client

(* A node taken out during a walk keeps its window and the way back into   *)
(* the list; between two walks nothing of it is left.                      *)
LEMMA WalkStep == IInv /\ [Next]_vars => WalkHolds'
<1> SUFFICES ASSUME IInv, [Next]_vars PROVE WalkHolds'
  OBVIOUS
<1>1. desk \in DeskSet /\ TypeOK
  BY DEF IInv, TypeOK, DeskSet
<1>2. ListedLive /\ WalkHolds
  BY DEF IInv
<1>3. /\ Len(list) \in Nat
      /\ \A i \in 1 .. Len(list) : list[i] \in Nodes
  BY <1>1, ListFacts
<1>4. \A i \in 1 .. Len(list) : node[list[i]].win \in Clients /\ node[list[i]].win # Nil
  BY <1>2, DesktopAssumption DEF ListedLive, Registered
<1>5. Head1 # Nil => node[Head1].win # Nil
  BY <1>1, <1>3, <1>4 DEF Head1, TypeOK
<1>6. ASSUME desk.pc \in Walking, NEW a \in Nodes, NextOf(a) # Nil PROVE node[NextOf(a)].win # Nil
  <2>1. CASE \E i \in 1 .. Len(list) : list[i] = a
    <3> DEFINE i == CHOOSE i \in 1 .. Len(list) : list[i] = a
    <3>1. i \in 1 .. Len(list)
      BY <2>1
    <3>2. NextOf(a) = IF i = Len(list) THEN Nil ELSE list[i + 1]
      BY <2>1 DEF NextOf
    <3> HIDE DEF i
    <3>3. QED
      BY <1>3, <1>4, <1>6, <3>1, <3>2
  <2>2. CASE ~ \E i \in 1 .. Len(list) : list[i] = a
    BY <1>2, <1>6, <2>2 DEF NextOf, WalkHolds
  <2>3. QED
    BY <2>1, <2>2
<1>7. CASE Begin
  BY <1>1, <1>2, <1>7 DEF WalkHolds, Walking, Begin, DeskSet
<1>8. CASE InitWindows
  BY <1>1, <1>2, <1>8 DEF WalkHolds, Walking, InitWindows, DeskSet
<1>9. CASE NoButton
  BY <1>1, <1>2, <1>9 DEF WalkHolds, Walking, NoButton, DeskSet
<1>10. CASE ClickIcon
  BY <1>1, <1>2, <1>10 DEF WalkHolds, Walking, ClickIcon, DeskSet
<1>11. CASE KeyLook
  BY <1>1, <1>2, <1>11 DEF WalkHolds, Walking, KeyLook, DeskSet
<1>12. CASE KeyClear
  BY <1>1, <1>2, <1>12 DEF WalkHolds, Walking, KeyClear, DeskSet
<1>13. CASE LeaveLoop
  BY <1>1, <1>2, <1>13 DEF WalkHolds, Walking, LeaveLoop, DeskSet
<1>14. CASE KeyDown
  BY <1>1, <1>2, <1>14 DEF WalkHolds, Walking, KeyDown, KeySend, DeskSet
<1>15. CASE KeyUp
  BY <1>1, <1>2, <1>15 DEF WalkHolds, Walking, KeyUp, KeySend, DeskSet
<1>16. CASE Tick
  <2>1. /\ list' = list /\ node' = node /\ desk.pc \notin Walking
        /\ desk'.pc = "draw" /\ desk'.walk = Head1 /\ seen' = Registered
    BY <1>1, <1>16 DEF Tick, DeskSet, Walking
  <2>2. \A a \in Nodes : node[a] = Blank \/ \E i \in 1 .. Len(list) : list[i] = a
    BY <1>2, <2>1 DEF WalkHolds
  <2>3. ASSUME NEW a \in Nodes PROVE (node[a].win # Nil => node[a].win \in Registered) /\ node[a].next = Nil
    BY <1>2, <2>2 DEF Blank, ListedLive, WalkHolds
  <2>4. QED
    BY <1>2, <1>5, <2>1, <2>3 DEF WalkHolds, Walking
<1>17. CASE ClickElsewhere
  <2>1. /\ list' = list /\ node' = node /\ desk.pc \notin Walking
        /\ desk'.pc = "click" /\ desk'.walk = Head1 /\ seen' = Registered
    BY <1>1, <1>17 DEF ClickElsewhere, DeskSet, Walking
  <2>2. \A a \in Nodes : node[a] = Blank \/ \E i \in 1 .. Len(list) : list[i] = a
    BY <1>2, <2>1 DEF WalkHolds
  <2>3. ASSUME NEW a \in Nodes PROVE (node[a].win # Nil => node[a].win \in Registered) /\ node[a].next = Nil
    BY <1>2, <2>2 DEF Blank, ListedLive, WalkHolds
  <2>4. QED
    BY <1>2, <1>5, <2>1, <2>3 DEF WalkHolds, Walking
<1>18. CASE Draw
  <2>1. /\ list' = list /\ seen' = seen /\ desk.pc \in Walking /\ desk.walk # Nil
        /\ desk'.pc = "drawn" /\ desk'.walk = desk.walk
    BY <1>1, <1>18 DEF Draw, DeskSet, Walking
  <2>2. \A a \in Nodes : node'[a].win = node[a].win /\ node'[a].next = node[a].next
    BY <1>1, <1>18 DEF Draw, TypeOK
  <2>3. desk.walk \in Nodes /\ \A a \in Nodes : node[a].next \in Nodes \cup {Nil}
    BY <1>1, <2>1 DEF TypeOK
  <2>4. QED
    BY <1>2, <1>3, <2>1, <2>2, <2>3 DEF WalkHolds, Walking
<1>19. CASE Click
  BY <1>1, <1>2, <1>19 DEF WalkHolds, Walking, Click, DeskSet
<1>20. CASE DrawNext
  <2>1. /\ list' = list /\ node' = node /\ seen' = seen /\ desk.pc = "drawn"
        /\ desk'.pc = "draw" /\ desk'.walk = NextOf(desk.walk)
    BY <1>1, <1>20 DEF DrawNext, DeskSet
  <2>2. desk.walk \in Nodes
    BY <1>1, <1>2, <2>1 DEF WalkHolds, DeskSet
  <2>3. desk'.walk # Nil => node[desk'.walk].win # Nil
    BY <1>6, <2>1, <2>2 DEF Walking
  <2>4. QED
    BY <1>2, <2>1, <2>3 DEF WalkHolds, Walking
<1>21. CASE ClickNext
  <2>1. /\ list' = list /\ node' = node /\ seen' = seen /\ desk.pc = "clicked"
        /\ desk'.pc = "click" /\ desk'.walk = NextOf(desk.walk)
    BY <1>1, <1>21 DEF ClickNext, DeskSet
  <2>2. desk.walk \in Nodes
    BY <1>1, <1>2, <2>1 DEF WalkHolds, DeskSet
  <2>3. desk'.walk # Nil => node[desk'.walk].win # Nil
    BY <1>6, <2>1, <2>2 DEF Walking
  <2>4. QED
    BY <1>2, <2>1, <2>3 DEF WalkHolds, Walking
<1>22. CASE DrawDone
  <2>1. list' = list /\ node' = Forget /\ desk'.pc = "mouse"
    BY <1>1, <1>22 DEF DrawDone, DeskSet
  <2>2. QED
    BY <1>2, <1>3, <2>1 DEF WalkHolds, Walking, Forget
<1>23. CASE ClickDone
  <2>1. list' = list /\ node' = Forget /\ desk'.pc = "key"
    BY <1>1, <1>23 DEF ClickDone, DeskSet
  <2>2. QED
    BY <1>2, <1>3, <2>1 DEF WalkHolds, Walking, Forget
<1>24. CASE DestroyAllWindows
  BY <1>1, <1>24 DEF WalkHolds, Walking, DestroyAllWindows, DeskSet
<1>25. CASE Over
  BY <1>1, <1>25 DEF WalkHolds, Walking, Over, DeskSet
<1>26. CASE TerminalExit \/ (\E kind \in {"down", "up"} : Signal(kind))
  BY <1>2, <1>26 DEF WalkHolds, TerminalExit, Signal
<1>27. ASSUME NEW c \in Clients, Add(c) PROVE WalkHolds'
  <2>1. CASE desk.pc \notin Open
    BY <1>2, <1>27, <2>1 DEF WalkHolds, Add
  <2>2. CASE desk.pc \in Open
    <3>1. PICK a \in Nodes \ {list[i] : i \in 1 .. Len(list)} :
             /\ list' = Append(list, a)
             /\ node' = [node EXCEPT ![a] = [win |-> c, armed |-> FALSE, next |-> Nil]]
             /\ seen' = IF desk.pc \in Walking THEN seen \cup {c} ELSE seen
      BY <1>27, <2>2 DEF Add
    <3>2. /\ Len(list') = Len(list) + 1 /\ list'[Len(list) + 1] = a
          /\ \A i \in 1 .. Len(list) : list'[i] = list[i]
      BY <1>1, <1>3, <3>1 DEF TypeOK
    <3>3. /\ node'[a].win = c /\ node'[a].next = Nil
          /\ \A b \in Nodes \ {a} : node'[b] = node[b]
      BY <1>1, <3>1 DEF TypeOK
    <3>4. desk' = desk /\ c # Nil
      BY <1>27, DesktopAssumption DEF Add
    <3>5. \A i \in 1 .. Len(list') : node'[list'[i]].next = Nil
      BY <1>2, <1>3, <3>1, <3>2, <3>3 DEF WalkHolds
    <3>6. ASSUME desk.pc \in Walking
          PROVE  /\ desk.walk # Nil => node'[desk.walk].win # Nil
                 /\ \A b \in Nodes : node'[b].win # Nil => node'[b].win \in seen'
                 /\ \A b \in Nodes : node'[b].next # Nil => node'[node'[b].next].win # Nil
      <4>1. \A b \in Nodes : node[b].win # Nil => node'[b].win # Nil
        BY <3>3, <3>4
      <4>2. (desk.walk # Nil => desk.walk \in Nodes) /\ \A b \in Nodes : node[b].next \in Nodes \cup {Nil}
        BY <1>1 DEF TypeOK
      <4>3. \A b \in Nodes : node'[b].next # Nil => node'[b].next = node[b].next
        BY <3>3
      <4>4. QED
        BY <1>2, <3>1, <3>3, <3>6, <4>1, <4>2, <4>3 DEF WalkHolds
    <3>7. ASSUME desk.pc \notin Walking, NEW b \in Nodes, \A i \in 1 .. Len(list') : list'[i] # b
          PROVE  node'[b] = Blank
      <4>1. b # a /\ \A i \in 1 .. Len(list) : list[i] # b
        BY <1>3, <3>2, <3>7
      <4>2. QED
        BY <1>2, <3>3, <3>7, <4>1 DEF WalkHolds
    <3>8. QED
      BY <1>2, <3>4, <3>5, <3>6, <3>7 DEF WalkHolds
  <2>3. QED
    BY <2>1, <2>2
<1>28. ASSUME NEW c \in Clients, Remove(c) PROVE WalkHolds'
  <2>1. CASE ~ \E i \in 1 .. Len(list) : list[i] = found[c]
    BY <1>2, <1>28, <2>1 DEF WalkHolds, Remove
  <2>2. CASE \E i \in 1 .. Len(list) : list[i] = found[c]
    <3>1. PICK i \in 1 .. Len(list) :
             /\ list' = SubSeq(list, 1, i - 1) \o SubSeq(list, i + 1, Len(list))
             /\ node' = [node EXCEPT ![list[i]] =
                   IF desk.pc \in Walking THEN [@ EXCEPT !.next = NextOf(list[i])] ELSE Blank]
      BY <1>28, <2>2 DEF Remove
    <3>2. /\ Len(list') = Len(list) - 1
          /\ \A j \in 1 .. Len(list') : list'[j] = IF j < i THEN list[j] ELSE list[j + 1]
          /\ \A j \in 1 .. Len(list') : list'[j] # list[i]
      BY <1>1, <3>1, Shorter
    <3>3. \A j \in 1 .. Len(list') : list'[j] \in Nodes /\ \E l \in 1 .. Len(list) : list'[j] = list[l]
      BY <1>3, <3>2
    <3>4. list[i] \in Nodes /\ desk' = desk /\ seen' = seen
      BY <1>3, <1>28 DEF Remove
    <3>5. \A b \in Nodes \ {list[i]} : node'[b] = node[b]
      BY <1>1, <3>1 DEF TypeOK
    <3>6. \A j \in 1 .. Len(list') : node'[list'[j]].next = Nil
      BY <1>2, <3>2, <3>3, <3>5 DEF WalkHolds
    <3>7. ASSUME desk.pc \in Walking
          PROVE  /\ desk.walk # Nil => node'[desk.walk].win # Nil
                 /\ \A b \in Nodes : node'[b].win # Nil => node'[b].win \in seen
                 /\ \A b \in Nodes : node'[b].next # Nil => node'[node'[b].next].win # Nil
      <4>1. node' = [node EXCEPT ![list[i]] = [@ EXCEPT !.next = NextOf(list[i])]]
        BY <3>1, <3>7
      <4>2. /\ node'[list[i]].win = node[list[i]].win
            /\ node'[list[i]].next = NextOf(list[i])
        BY <1>1, <3>4, <4>1 DEF TypeOK
      <4>3. \A b \in Nodes : node'[b].win = node[b].win
        BY <3>5, <4>2
      <4>4. /\ desk.walk # Nil => desk.walk \in Nodes
            /\ \A b \in Nodes : node[b].next \in Nodes \cup {Nil}
            /\ NextOf(list[i]) \in Nodes \cup {Nil}
        BY <1>1, <3>4, ListFacts DEF TypeOK
      <4>5. \A b \in Nodes : node'[b].next # Nil => node'[b].next \in Nodes /\ node[node'[b].next].win # Nil
        BY <1>2, <1>6, <3>4, <3>5, <3>7, <4>2, <4>4 DEF WalkHolds
      <4>6. QED
        BY <1>2, <3>7, <4>3, <4>4, <4>5 DEF WalkHolds
    <3>8. ASSUME desk.pc \notin Walking, NEW b \in Nodes, \A j \in 1 .. Len(list') : list'[j] # b
          PROVE  node'[b] = Blank
      <4>1. CASE b = list[i]
        BY <1>1, <3>1, <3>4, <3>8, <4>1 DEF TypeOK
      <4>2. CASE b # list[i]
        <5>1. ASSUME NEW l \in 1 .. Len(list) PROVE list[l] # b
          <6>1. CASE l < i
            BY <1>3, <3>2, <3>8, <6>1
          <6>2. CASE l > i
            <7>1. l - 1 \in 1 .. Len(list') /\ list'[l - 1] = list[l]
              BY <1>3, <3>2, <6>2
            <7>2. QED
              BY <3>8, <7>1
          <6>3. QED
            BY <4>2, <6>1, <6>2
        <5>2. QED
          BY <1>2, <3>5, <3>8, <4>2, <5>1 DEF WalkHolds
      <4>3. QED
        BY <4>1, <4>2
    <3>9. QED
      BY <1>2, <3>4, <3>6, <3>7, <3>8 DEF WalkHolds
  <2>3. QED
    BY <2>1, <2>2
<1>29. CASE \E c \in Clients : Register(c) \/ ShowExitButton(c) \/ SeeExit(c) \/ Unregister(c) \/ Delete(c)
  BY <1>2, <1>29 DEF WalkHolds, Register, ShowExitButton, SeeExit, Unregister, Delete
<1>30. CASE UNCHANGED vars
  BY <1>2, <1>30 DEF WalkHolds, vars
<1>31. QED
  BY <1>7, <1>8, <1>9, <1>10, <1>11, <1>12, <1>13, <1>14, <1>15, <1>16, <1>17, <1>18,
     <1>19, <1>20, <1>21, <1>22, <1>23, <1>24, <1>25, <1>26, <1>27, <1>28, <1>29, <1>30
     DEF Next, Desk, Client

-----------------------------------------------------------------------------
(* Nothing is listed, signalled or clicked before the first desktop.       *)
LEMMA Start == Init => IInv
<1> SUFFICES ASSUME Init PROVE IInv
  OBVIOUS
<1>1. TypeOK
  <2>1. desk \in [pc : Open \cup {"off", "ipc", "over"}, walk : Nodes \cup {Nil}, at : Points,
                  handled : BOOLEAN]
    BY DEF Init, Points
  <2>2. /\ node \in [Nodes -> [win : Clients \cup {Nil}, armed : BOOLEAN, next : Nodes \cup {Nil}]]
        /\ window \in [Clients -> [exit_button : BOOLEAN, should_exit : BOOLEAN]]
    BY DEF Init, Blank
  <2>3. QED
    BY <2>1, <2>2 DEF Init, TypeOK
<1>2. ListedLive /\ NoListWithoutDesktop /\ FindHolds
  BY DEF Init, ListedLive, NoListWithoutDesktop, FindHolds
<1>3. WalkHolds
  BY DEF Init, WalkHolds, Walking
<1>4. ClickHolds /\ SlotHolds
  BY DEF Init, ClickHolds, OneReceiver, SlotHolds, KeysAtMostOnce
<1>5. QED
  BY <1>1, <1>2, <1>3, <1>4 DEF IInv

(* IInv is inductive: desktop and clients keep it, whoever moves when.     *)
LEMMA Inductive == Spec => []IInv
<1>1. IInv /\ [Next]_vars => IInv'
  BY TypeStep, ListStep, WalkStep, ClickStep, SlotStep DEF IInv
<1>2. QED
  BY Start, <1>1, PTL DEF Spec

(* The types of the state, and that the list holds no node twice.          *)
THEOREM TypeCorrect == Spec => []TypeOK
<1>1. IInv => TypeOK
  BY DEF IInv
<1>2. QED
  BY Inductive, <1>1, PTL

(* For any number of programs: the window list holds only registered       *)
(* windows, each once (register_window, unregister_window).                *)
THEOREM OnlyLiveListed == Spec => []ListedLive
<1>1. IInv => ListedLive
  BY DEF IInv
<1>2. QED
  BY Inductive, <1>1, PTL

(* draw_windows and mouse_handle_windows reach no window that was gone     *)
(* when their walk began.                                                  *)
THEOREM WalksStayFresh == Spec => []TouchesRegistered
<1>1. IInv => TouchesRegistered
  BY DEF IInv, TypeOK, WalkHolds, TouchesRegistered
<1>2. QED
  BY Inductive, <1>1, PTL

(* A click has one receiver, although windows come and go during the walk  *)
(* (mouse_handle_windows and its handled).                                 *)
THEOREM ClicksOnce == Spec => []OneReceiver
<1>1. IInv => OneReceiver
  BY DEF IInv, ClickHolds
<1>2. QED
  BY Inductive, <1>1, PTL

(* A key event is sent once, although the signal handler races with the    *)
(* main loop (special_key_sighandler and cache_signum).                    *)
THEOREM KeysOnce == Spec => []KeysAtMostOnce
<1>1. IInv => KeysAtMostOnce
  BY DEF IInv, SlotHolds
<1>2. QED
  BY Inductive, <1>1, PTL
=============================================================================
