-------------------------- MODULE AssemblerMeaning --------------------------
(***************************************************************************)
(* What a program for foxasm says, line by line, and that its bytes say    *)
(* the same to a processor.  A line is its text with its meaning: an       *)
(* instruction of X86, the bytes of a db, a label, nothing, or Rejected.   *)
(***************************************************************************)
EXTENDS Assembler, Executables, X86

Rejected == Plain("rejected")
Nothing == Plain("nothing")
Says(text, means) == [text |-> text, means |-> means]
Data(bytes) == [op |-> "data", bytes |-> bytes]
Label(name) == [op |-> "label", name |-> name]

(***************************************************************************)
(* Operands: every register by its number and size, as itself and as an    *)
(* address, and numbers.                                                   *)
(***************************************************************************)
Names == 8 :> <<"rax", "rcx", "rdx", "rbx", "rsp", "rbp", "rsi", "rdi", "r8", "r15">> @@
         4 :> <<"eax", "ecx", "edx", "ebx", "esp", "ebp", "esi", "edi", "r9d">> @@
         2 :> <<"ax", "cx", "dx", "bx", "sp", "bp", "si", "di", "r11w">> @@
         1 :> <<"al", "cl", "dl", "bl", "ah", "ch", "dh", "bh", "r14l">>
Registers == UNION { { [text |-> Names[size][n], is |-> Reg(n - 1, size)] :
                          n \in DOMAIN Names[size] } : size \in DOMAIN Names }
AddressOf(r) == [text |-> "[" \o r.text \o "]", is |-> Mem(r.is.code, r.is.size)]
Addresses == { AddressOf(r) : r \in Registers }
NumberOf(text, bytes) == [text |-> text, is |-> Number(Wide(bytes))]

Is(operand, kind) == operand.is.kind = kind
High(operand) == operand.is.kind # "number" /\ operand.is.code > 7
BadAddress(operand) == Is(operand, "memory") /\ operand.is.size < 4
\* The number 4 stands for a longer form of address and 5 for one relative
\* to the instruction, where the register is an address.
Unsupported(operand) == Is(operand, "memory") /\ operand.is.code \in {4, 5}

MovMeaning(d, s) ==
    LET size == d.is.size
        value == s.is.value
        width == IF size = 4 THEN 8 ELSE size
    IN  CASE High(d) \/ High(s) \/ BadAddress(d) \/ BadAddress(s) -> Rejected
          [] Is(d, "register") /\ Is(s, "register") ->
                IF size = s.is.size THEN Moved(d.is, s.is, size) ELSE Rejected
          [] Is(d, "register") /\ Is(s, "number") ->
                IF Fits(value, size) THEN Moved(Reg(d.is.code, width), s.is, width) ELSE Rejected
          [] Is(d, "memory") /\ Is(s, "number") ->
                IF Fits(value, 4) THEN Moved(d.is, s.is, SizeOf(value)) ELSE Rejected
          [] Is(d, "memory") /\ Is(s, "register") -> Moved(d.is, s.is, s.is.size)
          [] Is(d, "register") /\ Is(s, "memory") -> Moved(d.is, s.is, size)
          [] OTHER -> Rejected
Mov(d, s) == Says(<<"mov", " ", d.text, ",", " ", s.text>>, MovMeaning(d, s))

(***************************************************************************)
(* A program is a sequence of lines.                                       *)
(***************************************************************************)
Text(program) ==
    LET text[i \in 0 .. Len(program)] ==
            IF i = 0 THEN <<>> ELSE text[i - 1] \o program[i].text \o <<"\n">>
    IN  text[Len(program)]

Wrong(program) ==
    \/ \E i \in DOMAIN program : program[i].means = Rejected
    \/ \E i, j \in DOMAIN program : i < j /\ program[i].means = program[j].means
                                    /\ program[i].means.op = "label"
    \/ \A i \in DOMAIN program : program[i].means.op \in {"label", "nothing"}

\* The bytes say what the lines say, one after the other and to the end.
Reads(result, program) ==
    LET bytes == result.opcodes
        from(k) == SubSeq(bytes, k + 1, Len(bytes))
        length(means, k) ==
            CASE means.op \in {"label", "nothing"} -> 0
              [] means.op = "data" -> Len(means.bytes)
              [] OTHER -> Decode(from(k)).length
        at[i \in 0 .. Len(program)] ==
            IF i = 0 THEN 0 ELSE at[i - 1] + length(program[i].means, at[i - 1])
        holds(means, k) ==
            CASE means.op = "nothing" -> TRUE
              [] means.op = "label" -> \E l \in DOMAIN result.labels : result.labels[l] = <<means.name, k>>
              [] means.op = "data" -> SubSeq(bytes, k + 1, k + Len(means.bytes)) = means.bytes
              [] OTHER -> Decode(from(k)).instruction = means
    IN  /\ at[Len(program)] = Len(bytes)
        /\ \A i \in DOMAIN program : at[i - 1] <= Len(bytes) /\ holds(program[i].means, at[i - 1])

\* A program that foxasm accepts means to a processor what its lines say,
\* every label has the address of what follows it, and a program is
\* rejected exactly when a line is wrong, a label is defined twice or there
\* is no code; in each format a loader finds those bytes where the file says
\* (parse_source_lvl1, parse_source_lvl2, lex_source, mov.c, executables.c).
AssemblesAsWritten(program) ==
    LET result == assemble(Text(program))
    IN  IF Wrong(program) THEN result = Failed
        ELSE /\ Reads(result, program)
             /\ \A format \in {"bin", "fexec", "macho64"} : LoaderFindsCode(format, result.opcodes)
=============================================================================
