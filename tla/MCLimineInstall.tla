-------------------------- MODULE MCLimineInstall --------------------------
(* Loader images with one half only, with equal halves, with one so large  *)
(* that going back to the first overruns the buffer, with one that fills   *)
(* the array and with one that is larger; one so large that its place      *)
(* wraps around; one whose first half has size 0 and one of which the      *)
(* sizes leave a sector only.                                              *)
EXTENDS LimineInstall, TLC

Images == ("one" :> 1) @@ ("even" :> 4) @@ ("odd" :> 5) @@ ("full" :> 9) @@ ("over" :> 11)
          @@ ("huge" :> 15) @@ ("swapped" :> 17) @@ ("cut" :> 19)
=============================================================================
