----------------------------- MODULE TextEditor -----------------------------
(***************************************************************************)
(* What an editor is expected to do: a text with a cursor between its      *)
(* characters, a piece of it to paste, and a file.  Once "lost" nothing is *)
(* promised any more.                                                      *)
(***************************************************************************)
EXTENDS Integers, Sequences

CONSTANTS Chars, Texts
VARIABLES text, cursor, clip, file, lost
vars == <<text, cursor, clip, file, lost>>

Put(s, at, new) == SubSeq(s, 1, at) \o new \o SubSeq(s, at + 1, Len(s))
Piece(from, to) == SubSeq(text, from + 1, to)

Init == text \in Texts /\ file = text /\ cursor = Len(text) /\ clip = <<>> /\ lost = FALSE

Insert(new) == text' = Put(text, cursor, new) /\ cursor' = cursor + Len(new) /\ UNCHANGED file
Type == \E c \in Chars : Insert(<<c>>) /\ UNCHANGED clip
Paste == clip # <<>> /\ Insert(clip) /\ clip' = <<>>
Delete == /\ cursor > 0 /\ cursor' = cursor - 1
          /\ text' = Piece(0, cursor - 1) \o Piece(cursor, Len(text))
          /\ UNCHANGED <<clip, file>>
Replace == /\ cursor < Len(text)
           /\ \E c \in Chars : text' = [text EXCEPT ![cursor + 1] = c]
           /\ UNCHANGED <<cursor, clip, file>>
Move == cursor' \in 0 .. Len(text) /\ UNCHANGED <<text, clip, file>>
\* The piece may end on either side of the cursor.
Copy == /\ cursor' \in 0 .. Len(text)
        /\ \E from \in 0 .. cursor', to \in cursor' .. Len(text) : clip' = Piece(from, to)
        /\ UNCHANGED <<text, file>>
\* From the start of a line to the end of the text.
CutRest == /\ cursor' \in 0 .. cursor
           /\ text' = Piece(0, cursor') /\ clip' = Piece(cursor', Len(text))
           /\ UNCHANGED file
Save == file' = text \o SubSeq(file, Len(text) + 1, Len(file)) /\ UNCHANGED <<text, cursor, clip>>
Discard == text' = file /\ cursor' = Len(file) /\ UNCHANGED <<clip, file>>

Edit == Type \/ Paste \/ Delete \/ Replace \/ Move \/ Copy \/ CutRest \/ Save \/ Discard
Next == \/ ~lost /\ ~lost' /\ Edit
        \/ lost'

Spec == Init /\ [][Next]_vars
=============================================================================
