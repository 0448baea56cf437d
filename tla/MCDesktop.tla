----------------------------- MODULE MCDesktop -----------------------------
(* Two windows, and as many nodes: the node of a window that was closed is *)
(* the next one handed out.                                                *)
EXTENDS Desktop
=============================================================================
