---------------------------- MODULE MCFunctions ----------------------------
(***************************************************************************)
(* The programs that compute something from an input, over small inputs.   *)
(* "kind" says of which program "input" is an input.                       *)
(***************************************************************************)
EXTENDS ShellText, FiniteSets, TLC

Calc == INSTANCE Calculator WITH INT_MAX <- 127, INPUT_SIZE <- 18
Asm == INSTANCE AssemblerMeaning WITH MAX_OPERANDS <- 4
Tree == INSTANCE FileTree
Arch == INSTANCE Archive
Copy == INSTANCE FileCopy

(***************************************************************************)
(* Expressions of up to two operators on each side                         *)
(***************************************************************************)
CalcOps == Calc!Sums \cup Calc!Products
Leaves == { Calc!Leaf(<<"0", "x", "1", "c">>, 28), Calc!Leaf(<<"1", "0">>, 10),
            Calc!Leaf(<<"t", "e", "s", "t">>, 3), Calc!Leaf(<<"0">>, 0),
            Calc!Leaf(<<"1", "2", "8">>, 128) }
Small == Leaves \cup { Calc!Binary(op, a, b) : op \in CalcOps, a, b \in Leaves }

ChooseExpression == kind = "start" /\ kind' = "expression" /\ input' \in Small
GrowExpression ==
    /\ kind = "expression" /\ UNCHANGED kind
    /\ input.op # "leaf" /\ input.a.op = "leaf" /\ input.b.op = "leaf"
    /\ \E op \in CalcOps, e \in Small :
          input' \in {Calc!Binary(op, input, e), Calc!Binary(op, e, input)}

\* calc: an expression is refused or given its value, exactly where int holds
\* it and modulo the size of an int where it wraps around (lexer.c:41,
\* interpreter.c:38); only a text that main's array cannot hold goes wrong.
CalculatorNeverWrong == kind = "expression" => Calc!NeverWrong(input)

(***************************************************************************)
(* Programs: one mov of any two operands, or up to three other lines       *)
(***************************************************************************)
Numbers ==
    { Asm!NumberOf("0", <<0>>), Asm!NumberOf("0xff", <<255>>), Asm!NumberOf("256", <<0, 1>>),
      Asm!NumberOf("0xABcd", <<205, 171>>), Asm!NumberOf("0b10000000000000000", <<0, 0, 1>>),
      Asm!NumberOf("4294967295", <<255, 255, 255, 255>>),
      Asm!NumberOf("0x1234567890", <<144, 120, 86, 52, 18>>),
      Asm!NumberOf("18446744073709551615", <<255, 255, 255, 255, 255, 255, 255, 255>>) }
Operands == { o \in Asm!Registers \cup Asm!Addresses \cup Numbers : ~Asm!Unsupported(o) }
Quote == "\""
OtherLines ==
    { Asm!Says(<<"NOP">>, Asm!Plain("NOP")),
      Asm!Says(<<"\t", "nop", " ", ";", " ", "done", ",", " ", Quote>>, Asm!Plain("NOP")),
      Asm!Says(<<>>, Asm!Nothing),
      Asm!Says(<<" ", ";", " ", "it", "'", "s">>, Asm!Nothing),
      Asm!Says(<<"db", " ", Quote, "a", ",", " ", "b", ";", "c", Quote, ",", " ", "'", "d", "'", ",", " ", "256">>,
               Asm!Data(<<97, 44, 32, 98, 59, 99, 100, 0, 1>>)),
      Asm!Says(<<"db", " ", "'", Quote, "'">>, Asm!Data(<<34>>)),
      Asm!Says(<<"db">>, Asm!Rejected),
      Asm!Says(<<"db", " ", Quote, "abc">>, Asm!Rejected),
      Asm!Says(<<"db", " ", "1", ",", "2", " ", "3", " ", "4">>, Asm!Rejected),
      Asm!Says(<<"here:">>, Asm!Label("here")), Asm!Says(<<"there:">>, Asm!Label("there")),
      Asm!Says(<<"nop", ",", " ", ",", " ", "nop">>, Asm!Rejected),
      Asm!Says(<<"hop">>, Asm!Rejected),
      Asm!Says(<<"int", " ", "0x80">>, [op |-> "INT", value |-> Asm!Number(Asm!Wide(<<128>>))]),
      Asm!Says(<<"int", " ", "256">>, Asm!Rejected),
      Asm!Says(<<"syscall">>, Asm!Plain("SYSCALL")),
      Asm!Says(<<"mov", " ", "rax", " ", ",", " ", "[rbx]">>, Asm!Rejected),
      Asm!Says(<<"mov", " ", "rax", "\t", "[rbx]">>, Asm!Moved(Asm!Reg(0, 8), Asm!Mem(3, 8), 8)) }

ChooseMov ==
    /\ kind = "start" /\ kind' = "mov"
    /\ \E d, s \in Operands : input' = <<Asm!Mov(d, s)>>
AddLine ==
    /\ kind \in {"start", "program"} /\ kind' = "program"
    /\ Len(input) < 3 /\ \E line \in OtherLines : input' = Append(input, line)

\* foxasm: what is assembled does, decoded as a processor would, what was written.
AssemblerExact == kind \in {"mov", "program"} => Asm!AssemblesAsWritten(input)

(***************************************************************************)
(* Directories: of up to two entries for an archive, and what they become   *)
(* during some call of saf_make; a source and a destination for a copy.    *)
(***************************************************************************)
Files == { Tree!File(n, b) : n \in {"a", "b"}, b \in {<<>>, <<1, 2>>} }
Distinct(entries) == \A i, j \in DOMAIN entries : i # j => entries[i].name # entries[j].name
Folder == { t \in {<<>>} \cup { <<f>> : f \in Files } \cup { <<f, g>> : f, g \in Files } : Distinct(t) }
Entries == Files \cup { Tree!Dir(n, t) : n \in {"a", "d"}, t \in Folder } \cup {Tree!Device("v")}
             \cup { Tree!Dir("e", <<Tree!Dir("a", <<>>), Tree!File("b", <<1>>)>>) }
\* In an archive: a is a file or an empty directory, b a file, and d a
\* directory of what files there are.
InFolder(t) == \A f \in { t[i] : i \in DOMAIN t } : (f.name = "a") = (f.bytes = <<>>)
Packed == { Tree!File("b", <<>>), Tree!File("b", <<1, 2>>), Tree!Dir("a", <<>>) }
            \cup { e \in Entries : \/ e.name \in {"v", "e"}
                                   \/ e.name = "d" /\ InFolder(e.entries)
                                   \/ e.name = "a" /\ e.type = "file" /\ e.bytes = <<>> }

ChooseDirectory ==
    /\ kind = "start" /\ kind' = "archive"
    /\ \E e \in Packed, t \in {<<>>} \cup { <<f>> : f \in Packed } :
          LET entries == <<e>> \o t
          IN  Distinct(entries) /\ input' = Arch!World(entries, entries, 0)
\* What one call of another program makes of a directory: an entry appears, is
\* removed, replaced, or moved into a directory beside it.
Without(entries, j) == SubSeq(entries, 1, j - 1) \o SubSeq(entries, j + 1, Len(entries))
MovesInto(now, i, j) ==
    i # j /\ now[i].type = "dir" /\ Distinct(Append(now[i].entries, now[j]))
Changes(now) ==
    { Append(now, e) : e \in Packed } \cup { [now EXCEPT ![i] = e] : i \in DOMAIN now, e \in Packed }
      \cup { Without(now, j) : j \in DOMAIN now }
      \cup { Without([now EXCEPT ![p[1]].entries = Append(@, now[p[2]])], p[2]) :
                p \in { q \in (DOMAIN now) \X (DOMAIN now) : MovesInto(now, q[1], q[2]) } }
ChangeDirectory ==
    /\ kind = "archive" /\ input.when = 0 /\ UNCHANGED kind
    /\ LET now == input.before
       IN  \E next \in { t \in Changes(now) : Distinct(t) }, when \in 1 .. Arch!Make(input).time :
              input' = Arch!World(now, next, when)

Trees == { t \in {<<>>} \cup { <<e>> \o u : e \in { e \in Entries : e.type = "dir" /\ Len(e.entries) < 2 },
                                          u \in {<<>>} \cup { <<f>> : f \in Files } }
             \cup { <<Tree!Dir("e", <<Tree!Dir("a", <<>>), f>>)>> : f \in Files } : Distinct(t) }
ChooseCopy == kind = "start" /\ kind' = "copy" /\ \E src, dest \in Trees : input' = <<src, dest>>

\* safm and safe: what is packed is what is unpacked again, offsets and all.
ArchiveExact == kind = "archive" => Arch!ArchiveExact(input)
\* cp -r and du: what is copied and counted is what is there.
CopyExact == kind = "copy" => Copy!CopyExact(input[1], input[2])

(***************************************************************************)
(* The shell: lines, scripts, keys, and completions                        *)
(***************************************************************************)
MCLineChars == {"|", ">", "&", "\\", Quote, "'", " ", "x"}
MCScriptChars == {"a", "b", " ", "#", "\n"}
MCKeys == {"a", "c", Quote, "back", "tab", "enter", "esc", "end"}

ab == <<"a", "b">>
Candidate == { Entry(n, FALSE) : n \in {<<"a">>, ab, <<"b">>, <<"a">> \o Elf, ab \o Elf} }
               \cup {Entry(<<"a", "c">>, TRUE)}
MCListings == {<<>>} \cup { <<e>> : e \in Candidate }
             \cup { <<e[1], e[2]>> : e \in { p \in Candidate \X Candidate : p[1] # p[2] } }
MCCwd == <<Entry(ab, FALSE), Entry(<<"b">>, TRUE)>>
MCPath == <<Entry(<<"c", "a">> \o Elf, FALSE)>>
MCWords == {<<>>, <<"a">>, ab, <<"b">>, <<"a", "c">>, <<"a", "c", "/">>}

Next ==
    \/ ChooseExpression \/ GrowExpression \/ ChooseMov \/ AddLine
    \/ ChooseDirectory \/ ChangeDirectory \/ ChooseCopy \/ TextNext
Spec == TextInit /\ [][Next]_textVars
=============================================================================
