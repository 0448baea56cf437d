------------------------------- MODULE EnvMap -------------------------------
(***************************************************************************)
(* What export promises of the environment: a map from names to values, in *)
(* which one call gives one variable its value and leaves the others       *)
(* alone.  The shell starts with the variables init gives it.              *)
(***************************************************************************)
CONSTANTS Names, Values, Unset, Given

VARIABLE value

Init == value = Given

Export(n, v) == value' = [value EXCEPT ![n] = v]

(* A new shell was started.                                                *)
Renew == value' = Given

Next == Renew \/ \E n \in Names, v \in Values : Export(n, v)

Spec == Init /\ [][Next]_value
=============================================================================
