----------------------------- MODULE MCEditor -----------------------------
(* A letter and the newline; files of up to three characters. *)
EXTENDS Editor
letter == "a"
newline == "nl"
MCChars == {letter, newline}
MCTexts == {<<>>, <<letter>>, <<letter, newline>>, <<letter, newline, letter>>, <<newline, letter, letter>>}
=============================================================================
