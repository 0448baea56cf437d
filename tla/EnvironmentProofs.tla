------------------------- MODULE EnvironmentProofs -------------------------
(***************************************************************************)
(* Where no name begins with another one, the array of the terminal is a   *)
(* map, for any names, values and number of variables.  The argument: no   *)
(* name occurs twice, so that the first string for a name is the only one, *)
(* and what export finds is what getenv reads.                             *)
(***************************************************************************)
EXTENDS Environment, FiniteSetTheorems, TLAPS

PrefixFree == \A n, m \in Names : <<n, m>> \in Begins => n = m

Unique == \A i, j \in 1 .. Len(envp) : envp[i].name = envp[j].name => i = j

IInv == TypeOK /\ Unique

value == [n \in Names |-> Getenv(n)]

(* getenv returns the only string for a name, or nothing.                  *)
LEMMA Found ==
    ASSUME Unique, NEW i \in 1 .. Len(envp), Len(envp) \in Nat
    PROVE  Getenv(envp[i].name) = envp[i].value
<1>1. First(envp[i].name) = {i}
  BY DEF Unique, First
<1>2. QED
  BY <1>1 DEF Getenv

LEMMA NotFound ==
    ASSUME NEW n, \A i \in 1 .. Len(envp) : envp[i].name # n
    PROVE  Getenv(n) = Unset
<1>1. First(n) = {}
  BY DEF First
<1>2. QED
  BY <1>1 DEF Getenv

(* Two arrays with the same strings for a name give it the same value.     *)
LEMMA SameValue ==
    ASSUME Unique, Unique', Len(envp) \in Nat, Len(envp') \in Nat, NEW m,
           \A i \in 1 .. Len(envp) :
              envp[i].name = m => i \in 1 .. Len(envp') /\ envp'[i] = envp[i],
           \A i \in 1 .. Len(envp') :
              envp'[i].name = m => i \in 1 .. Len(envp) /\ envp'[i] = envp[i]
    PROVE  Getenv(m)' = Getenv(m)
<1>1. CASE \E i \in 1 .. Len(envp) : envp[i].name = m
  <2>1. PICK i \in 1 .. Len(envp) : envp[i].name = m
    BY <1>1
  <2>2. i \in 1 .. Len(envp') /\ envp'[i] = envp[i]
    BY <2>1
  <2>3. Getenv(m) = envp[i].value
    BY <2>1, Found
  <2>4. First(m)' = {i}
    BY <2>1, <2>2 DEF Unique, First
  <2>5. Getenv(m)' = envp'[i].value
    BY <2>4 DEF Getenv
  <2>6. QED
    BY <2>2, <2>3, <2>5
<1>2. CASE \A i \in 1 .. Len(envp) : envp[i].name # m
  <2>1. First(m) = {} /\ First(m)' = {}
    BY <1>2 DEF First
  <2>2. QED
    BY <2>1 DEF Getenv
<1>3. QED
  BY <1>1, <1>2

(* One variable changes, the others keep their values.                     *)
LEMMA SetIsUpdate ==
    ASSUME PrefixFree, IInv, NEW n \in Names, NEW v \in Values, Set(n, v)
    PROVE  /\ envp' \in Seq(Entry) /\ Unique' /\ overrun' \in BOOLEAN
           /\ value' = [value EXCEPT ![n] = v]
<1>1. envp \in Seq(Entry) /\ Len(envp) \in Nat /\ Unique
      /\ \A i \in 1 .. Len(envp) : envp[i] \in Entry /\ envp[i].name \in Names
  <2>1. envp \in Seq(Entry) /\ Unique
    BY DEF IInv, TypeOK
  <2>2. Len(envp) \in Nat /\ \A i \in 1 .. Len(envp) : envp[i] \in Entry
    BY <2>1
  <2>3. \A e \in Entry : e.name \in Names
    BY DEF Entry
  <2>4. QED
    BY <2>1, <2>2, <2>3
<1> DEFINE new == [name |-> n, value |-> v]
<1>2. new \in Entry /\ new.name = n /\ new.value = v
  BY DEF Entry
<1> HIDE DEF new
<1>3. CASE Replace(n, v)
  <2>1. PICK i \in Matches(n) : envp' = [envp EXCEPT ![i] = new]
    BY <1>3 DEF Replace, new
  <2>2. i \in 1 .. Len(envp) /\ envp[i].name = n
    BY <1>1 DEF Matches, PrefixFree
  <2>3. /\ envp' \in Seq(Entry) /\ Len(envp') = Len(envp) /\ envp'[i] = new
        /\ \A j \in 1 .. Len(envp) : j # i => envp'[j] = envp[j]
    BY <1>1, <1>2, <2>1, <2>2
  <2>4. Unique'
    BY <1>1, <1>2, <2>2, <2>3 DEF Unique
  <2>5. First(n)' = {i}
    BY <1>2, <2>2, <2>3, <2>4 DEF First, Unique
  <2>6. Getenv(n)' = v
    BY <1>2, <2>3, <2>5 DEF Getenv
  <2>7. ASSUME NEW m \in Names, m # n PROVE Getenv(m)' = Getenv(m)
    BY <1>1, <1>2, <2>2, <2>3, <2>4, <2>7, SameValue
  <2>8. overrun' \in BOOLEAN
    BY <1>3 DEF Replace, IInv, TypeOK
  <2>9. QED
    BY <2>3, <2>4, <2>6, <2>7, <2>8 DEF value
<1>4. CASE Add(n, v)
  <2>1. \A i \in 1 .. Len(envp) : envp[i].name # n
    <3>1. ASSUME NEW i \in 1 .. Len(envp), envp[i].name = n PROVE FALSE
      <4>1. <<n, envp[i].name>> \in Begins
        BY <3>1, EnvAssumption
      <4>2. \A j \in 1 .. i - 1 : <<n, envp[j].name>> \notin Begins
        BY <1>1, <3>1 DEF PrefixFree, Unique
      <4>3. i \in Matches(n)
        BY <4>1, <4>2 DEF Matches
      <4>4. QED
        BY <1>4, <4>3 DEF Add
    <3>2. QED
      BY <3>1
  <2>2. envp' = Append(envp, new)
    BY <1>4 DEF Add, new
  <2>3. /\ envp' \in Seq(Entry) /\ Len(envp') = Len(envp) + 1 /\ envp'[Len(envp) + 1] = new
        /\ \A j \in 1 .. Len(envp) : envp'[j] = envp[j]
    BY <1>1, <1>2, <2>2
  <2>4. Unique'
    BY <1>1, <1>2, <2>1, <2>3 DEF Unique
  <2>5. First(n)' = {Len(envp) + 1}
    BY <1>1, <1>2, <2>1, <2>3 DEF First
  <2>6. Getenv(n)' = v
    BY <1>2, <2>3, <2>5 DEF Getenv
  <2>7. ASSUME NEW m \in Names, m # n PROVE Getenv(m)' = Getenv(m)
    BY <1>1, <1>2, <2>3, <2>4, <2>7, SameValue
  <2>8. overrun' \in BOOLEAN
    BY <1>4 DEF Add
  <2>9. QED
    BY <2>3, <2>4, <2>6, <2>7, <2>8 DEF value
<1>5. QED
  BY <1>3, <1>4 DEF Set

(* The environment a shell starts with is the map init gives it.           *)
LEMMA InitialMap == envp = Initial => envp \in Seq(Entry) /\ Unique /\ value = Given
<1> SUFFICES ASSUME envp = Initial PROVE envp \in Seq(Entry) /\ Unique /\ value = Given
  OBVIOUS
<1>1. envp \in Seq(Entry) /\ Len(envp) \in Nat /\ Unique
  BY EnvAssumption DEF Unique
<1>2. ASSUME NEW n \in Names PROVE Getenv(n) = Given[n]
  <2>1. CASE \E i \in 1 .. Len(envp) : envp[i].name = n
    <3> DEFINE i == CHOOSE k \in 1 .. Len(Initial) : Initial[k].name = n
    <3>1. i \in 1 .. Len(envp) /\ envp[i].name = n
      BY <2>1
    <3>2. Given[n] = envp[i].value
      BY <2>1 DEF Given
    <3> HIDE DEF i
    <3>3. QED
      BY <1>1, <3>1, <3>2, Found
  <2>2. CASE \A i \in 1 .. Len(envp) : envp[i].name # n
    BY <2>2, NotFound DEF Given
  <2>3. QED
    BY <2>1, <2>2
<1>3. value = Given
  BY <1>2 DEF value, Given
<1>4. QED
  BY <1>1, <1>3

LEMMA InitInv == Init => IInv /\ value = Given
<1> SUFFICES ASSUME Init PROVE IInv /\ value = Given
  OBVIOUS
<1>2. envp = Initial
  BY DEF Init
<1>3. envp \in Seq(Entry) /\ Unique /\ value = Given
  BY <1>2, InitialMap
<1>4. shell \in {"prompt", "gone"} /\ running \in 0 .. MaxNested /\ overrun \in BOOLEAN
  <2>1. 0 \in 0 .. MaxNested
    BY EnvAssumption
  <2>2. QED
    BY <2>1, Zenon DEF Init
<1>5. QED
  BY <1>3, <1>4 DEF IInv, TypeOK

(* Every step keeps the invariant and is a step of the map, or none.       *)
LEMMA StepMaps ==
    ASSUME PrefixFree, IInv, [Next]_vars
    PROVE  /\ IInv'
           /\ \/ \E n \in Names, v \in Values : value' = [value EXCEPT ![n] = v]
              \/ value' = Given
              \/ value' = value
<1> USE EnvAssumption
<1> DEFINE Rest == shell \in {"prompt", "gone"} /\ running \in 0 .. MaxNested
<1>1. Rest
  BY DEF IInv, TypeOK
<1>2. ASSUME NEW n \in Names, NEW v \in Values, Set(n, v), Rest'
      PROVE  IInv' /\ value' = [value EXCEPT ![n] = v]
  BY <1>2, SetIsUpdate DEF IInv, TypeOK
<1>3. ASSUME UNCHANGED envp, Rest', overrun' \in BOOLEAN
      PROVE  IInv' /\ value' = value
  <2>1. Unique' /\ envp' \in Seq(Entry)
    BY <1>3 DEF IInv, TypeOK, Unique
  <2>2. value' = value
    BY <1>3 DEF value, Getenv, First
  <2>3. QED
    BY <1>3, <2>1, <2>2 DEF IInv, TypeOK
<1>4. ASSUME NEW n \in Names, NEW v \in Values, Export(n, v)
      PROVE  IInv' /\ value' = [value EXCEPT ![n] = v]
  <2>1. Set(n, v) /\ Rest'
    BY <1>1, <1>4 DEF Export
  <2>2. QED
    BY <1>2, <2>1
<1>5. CASE Spawn
  <2>1. UNCHANGED envp /\ Rest' /\ overrun' \in BOOLEAN
    BY <1>1, <1>5 DEF Spawn, IInv, TypeOK
  <2>2. QED
    BY <1>3, <2>1
<1>6. ASSUME NEW code \in Values, Ended(code)
      PROVE  IInv' /\ value' = [value EXCEPT ![Status] = code]
  <2>1. Set(Status, code) /\ Rest'
    BY <1>1, <1>6 DEF Ended
  <2>2. QED
    BY <1>2, <2>1
<1>7. CASE Exit
  <2>1. UNCHANGED envp /\ Rest' /\ overrun' \in BOOLEAN
    BY <1>1, <1>7 DEF Exit, IInv, TypeOK
  <2>2. QED
    BY <1>3, <2>1
<1>8. CASE Respawn
  <2>1. envp' = Initial /\ Rest' /\ overrun' \in BOOLEAN
    BY <1>1, <1>8 DEF Respawn
  <2>2. envp' \in Seq(Entry) /\ Unique' /\ value' = Given
    <3>1. (envp = Initial => envp \in Seq(Entry) /\ Unique /\ value = Given)'
      BY InitialMap, PTL
    <3>2. (envp = Initial)'
      BY <2>1
    <3>3. Given' = Given
      BY DEF Given
    <3>4. QED
      BY <3>1, <3>2, <3>3
  <2>3. QED
    BY <2>1, <2>2 DEF IInv, TypeOK
<1>9. CASE UNCHANGED vars
  <2>1. UNCHANGED envp /\ Rest' /\ overrun' \in BOOLEAN
    BY <1>1, <1>9 DEF vars, IInv, TypeOK
  <2>2. QED
    BY <1>3, <2>1
<1>10. QED
  BY <1>4, <1>5, <1>6, <1>7, <1>8, <1>9 DEF Next

LEMMA InvHolds == ASSUME PrefixFree PROVE Spec => []IInv
<1>1. Init => IInv
  BY InitInv
<1>2. IInv /\ [Next]_vars => IInv'
  BY StepMaps
<1>3. QED
  BY <1>1, <1>2, PTL DEF Spec

(* The search of export and the search of getenv agree: every export, read *)
(* and end of a program is one update of the map that getenv shows.        *)
THEOREM IsMap == ASSUME PrefixFree PROVE Spec => ImplementsEnvMap
<1>1. Init => Map!Init
  BY InitInv DEF Map!Init, value
<1>2. IInv /\ [Next]_vars => [Map!Next]_value
  <2>1. SUFFICES ASSUME IInv, [Next]_vars PROVE [Map!Next]_value
    OBVIOUS
  <2>2. \/ \E n \in Names, v \in Values : value' = [value EXCEPT ![n] = v]
        \/ value' = Given
        \/ value' = value
    BY <2>1, StepMaps
  <2>3. QED
    BY <2>2 DEF Map!Next, Map!Export, Map!Renew, value
<1>3. QED
  BY <1>1, <1>2, InvHolds, PTL DEF Spec, Map!Spec, ImplementsEnvMap, value

-----------------------------------------------------------------------------
(* Distinct names take no more strings than there are names.               *)
LEMMA Bounded == IInv /\ IsFiniteSet(Names) => Len(envp) <= Cardinality(Names)
<1> SUFFICES ASSUME IInv, IsFiniteSet(Names) PROVE Len(envp) <= Cardinality(Names)
  OBVIOUS
<1>1. envp \in Seq(Entry) /\ Len(envp) \in Nat /\ Unique
  BY DEF IInv, TypeOK
<1>2. \A i \in 1 .. Len(envp) : envp[i].name \in Names
  <2>1. \A i \in 1 .. Len(envp) : envp[i] \in Entry
    BY <1>1
  <2>2. QED
    BY <2>1 DEF Entry
<1> DEFINE f == [i \in 1 .. Len(envp) |-> envp[i].name]
<1>3. f \in Injection(1 .. Len(envp), Names)
  BY <1>1, <1>2 DEF Unique, Injection, IsInjective
<1>4. Cardinality(1 .. Len(envp)) <= Cardinality(Names)
  BY <1>3, FS_Injection
<1>5. Cardinality(1 .. Len(envp)) = Len(envp)
  BY <1>1, FS_Interval, SMTT(30)
<1>6. QED
  BY <1>4, <1>5

(* However often variables are set, the array main allocated holds them if *)
(* it has room for every name and the NULL.                                *)
THEOREM NoOverrun == ASSUME PrefixFree, IsFiniteSet(Names) PROVE Spec => []RoomForAll
<1>1. Init => RoomForAll
  BY DEF Init, RoomForAll
<1>2. IInv /\ RoomForAll /\ IInv' /\ [Next]_vars => RoomForAll'
  <2> SUFFICES ASSUME IInv, RoomForAll, IInv', [Next]_vars, Cardinality(Names) < Capacity,
                      overrun'
               PROVE  FALSE
    BY DEF RoomForAll
  <2>1. PICK n \in Names, v \in Values : Add(n, v)
    BY EnvAssumption DEF RoomForAll, IInv, TypeOK, Next, Export, Spawn, Ended, Exit, Respawn, vars, Set, Replace
  <2>2. Len(envp) \in Nat /\ Len(envp') = Len(envp) + 1
    <3>1. envp \in Seq(Entry) /\ envp' = Append(envp, [name |-> n, value |-> v])
      BY <2>1 DEF Add, IInv, TypeOK
    <3>2. QED
      BY <3>1
  <2>3. Len(envp) + 1 >= Capacity
    BY <2>1 DEF RoomForAll, Add
  <2>4. Len(envp') <= Cardinality(Names)
    <3>1. (IInv /\ IsFiniteSet(Names) => Len(envp) <= Cardinality(Names))'
      BY Bounded, PTL
    <3>2. QED
      BY <3>1
  <2>5. Cardinality(Names) \in Nat /\ Capacity \in Nat
    BY EnvAssumption, FS_CardinalityType
  <2>6. QED
    BY <2>2, <2>3, <2>4, <2>5
<1>3. QED
  BY <1>1, <1>2, InvHolds, PTL DEF Spec

(* Types, whatever the names.                                              *)
THEOREM TypeCorrect == Spec => []TypeOK
<1> USE EnvAssumption
<1>1. Init => TypeOK
  <2>1. 0 \in 0 .. MaxNested /\ Initial \in Seq(Entry)
    OBVIOUS
  <2>2. QED
    BY <2>1, Zenon DEF Init, TypeOK
<1>2. TypeOK /\ [Next]_vars => TypeOK'
  <2> SUFFICES ASSUME TypeOK, [Next]_vars PROVE TypeOK'
    OBVIOUS
  <2>1. ASSUME NEW n \in Names, NEW v \in Values, Set(n, v)
        PROVE  envp' \in Seq(Entry) /\ overrun' \in BOOLEAN
    <3>1. [name |-> n, value |-> v] \in Entry /\ envp \in Seq(Entry)
      BY DEF Entry, TypeOK
    <3>2. CASE Replace(n, v)
      <4>1. PICK i \in 1 .. Len(envp) : envp' = [envp EXCEPT ![i] = [name |-> n, value |-> v]]
        BY <3>2 DEF Replace, Matches
      <4>2. envp' \in Seq(Entry)
        BY <3>1, <4>1
      <4>3. QED
        BY <3>2, <4>2 DEF Replace, TypeOK
    <3>3. CASE Add(n, v)
      <4>1. envp' \in Seq(Entry)
        BY <3>1, <3>3 DEF Add
      <4>2. QED
        BY <3>3, <4>1 DEF Add
    <3>4. QED
      BY <2>1, <3>2, <3>3 DEF Set
  <2>2. ASSUME NEW n \in Names, NEW v \in Values, Export(n, v) PROVE TypeOK'
    BY <2>1, <2>2 DEF Export, TypeOK
  <2>3. CASE Spawn
    BY <2>3 DEF Spawn, TypeOK
  <2>4. ASSUME NEW code \in Values, Ended(code) PROVE TypeOK'
    <3>1. Set(Status, code) /\ UNCHANGED shell /\ running' \in 0 .. MaxNested
      BY <2>4 DEF Ended, TypeOK
    <3>2. QED
      BY <2>1, <3>1 DEF TypeOK
  <2>5. CASE Exit \/ Respawn
    BY <2>5 DEF Exit, Respawn, TypeOK
  <2>6. CASE UNCHANGED vars
    BY <2>6 DEF vars, TypeOK
  <2>7. QED
    BY <2>2, <2>3, <2>4, <2>5, <2>6 DEF Next
<1>3. QED
  BY <1>1, <1>2, PTL DEF Spec
=============================================================================
