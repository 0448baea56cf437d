--------------------------- MODULE MCEnvironment ---------------------------
(* The variables of init's shell, the status and two of the user's.        *)
EXTENDS Environment

TwoGiven == <<[name |-> "PATH", value |-> "v"], [name |-> "ROOT_FS", value |-> "w"]>>

(* No name begins with another one; or PATH begins with PA.                *)
Apart == {<<n, n>> : n \in Names}
Overlapping == Apart \cup {<<"PA", "PATH">>}
=============================================================================
