----------------------------- MODULE Assembler -----------------------------
(***************************************************************************)
(* foxasm: the text is split into the parts of its lines                   *)
(* (parse_source_lvl1), the parts become operands (parse_source_lvl2), the *)
(* lines become bytes (lex_source and mnemonics/), and the bytes are       *)
(* written in an executable format (executables.c).                        *)
(*                                                                         *)
(* A text is a sequence of strings: a separator, a quote, a backslash and  *)
(* the end of a line are each one string, and so is a run of other         *)
(* characters, which are all treated alike.  A uint64_t is the tuple of    *)
(* its eight bytes, lowest first.  The lists of labels and of references   *)
(* to them are only printed by the program; the list of labels is kept.    *)
(***************************************************************************)
EXTENDS Integers, Sequences, FiniteSets, TLC

CONSTANT MAX_OPERANDS                       \* 50 in include/assembler.h

Char(s, i) == SubSeq(s, i, i)
First(s) == IF s = "" THEN "" ELSE Char(s, 1)
Last(s) == IF s = "" THEN "" ELSE Char(s, Len(s))
Prefix(s, n) == IF Len(s) <= n THEN s ELSE SubSeq(s, 1, n)
Chars(s) == { Char(s, i) : i \in 1 .. Len(s) }

\* The characters from 32 to 95 and from 97 on, and their codes.
Upper == " !\"#$%&'()*+,-./0123456789:;<=>?@ABCDEFGHIJKLMNOPQRSTUVWXYZ[\\]^_"
Lower == "abcdefghijklmnopqrstuvwxyz{|}~"
Place(c, s) == CHOOSE i \in 1 .. Len(s) : Char(s, i) = c
Code == "\t" :> 9 @@
        [c \in Chars(Upper) \cup Chars(Lower) |->
            IF c \in Chars(Upper) THEN 31 + Place(c, Upper) ELSE 96 + Place(c, Lower)]
Digits == Chars("0123456789")
HexDigits == Digits \cup Chars("ABCDEF")
Letters == Chars("ABCDEFGHIJKLMNOPQRSTUVWXYZ")

(***************************************************************************)
(* asmutils.c: numbers                                                     *)
(***************************************************************************)
str_to_upper(s) ==
    LET upper(c) == IF Code[c] \in 97 .. 122 THEN Char(Upper, Code[c] - 32 - 31) ELSE c
        to[i \in 0 .. Len(s)] == IF i = 0 THEN "" ELSE to[i - 1] \o upper(Char(s, i))
    IN  to[Len(s)]

\* A number while it is read: its lower 24 bits, the next 24 and the upper 16.
\* A digit may be negative.
B == 2 ^ 24
MulAdd(number, base, digit) ==
    LET low == number[1] * base + digit
        middle == number[2] * base + low \div B
    IN  <<low % B, middle % B, (number[3] * base + middle \div B) % 2 ^ 16>>
Uint64(number) ==
    LET byte(i, j) == (number[i] \div 256 ^ j) % 256
    IN  <<byte(1, 0), byte(1, 1), byte(1, 2), byte(2, 0), byte(2, 1), byte(2, 2), byte(3, 0), byte(3, 1)>>

Accumulate(s, base, digit(_)) ==
    LET number[i \in 0 .. Len(s)] ==
            IF i = 0 THEN <<0, 0, 0>> ELSE MulAdd(number[i - 1], base, digit(Char(s, i)))
    IN  Uint64(number[Len(s)])

hex_str_to_num(s) ==
    LET digit(c) == IF c \in Digits THEN Code[c] - 48 ELSE Code[c] - 65 + 10
    IN  Accumulate(s, 16, digit)
\* The sign of a decimal number is taken for a digit of value -3.
DigitOf(c) == Code[c] - 48
binary_str_to_num(s) == Accumulate(s, 2, DigitOf)
str_to_num(s) == Accumulate(s, 10, DigitOf)

is_digits(s) == Chars(IF First(s) = "-" THEN Tail(s) ELSE s) \subseteq Digits
is_hex(s) == Chars(s) \subseteq HexDigits
is_binary(s) == Chars(s) \subseteq {"0", "1"}
is_letters(s) == Chars(s) \subseteq Letters

\* The number of characters before the closing quote, or -1.
find_string_end(s, delimiter) ==
    LET escaped[i \in 1 .. Len(s)] == i > 1 /\ Char(s, i - 1) = "\\" /\ ~escaped[i - 1]
        ends == { i \in 1 .. Len(s) : Char(s, i) = delimiter /\ ~escaped[i] }
    IN  IF ends = {} THEN -1 ELSE (CHOOSE i \in ends : \A j \in ends : i <= j) - 1

(***************************************************************************)
(* asmutils.c: registers.  A name that is none has size 0.                 *)
(***************************************************************************)
Register(code, size) == [code |-> code, size |-> size]
NoRegister == Register(0, 0)

WordRegisters == "AX" :> 0 @@ "CX" :> 1 @@ "DX" :> 2 @@ "BX" :> 3 @@
                 "SP" :> 4 @@ "BP" :> 5 @@ "SI" :> 6 @@ "DI" :> 7
ByteRegisters == "AL" :> 0 @@ "CL" :> 1 @@ "DL" :> 2 @@ "BL" :> 3 @@
                 "AH" :> 4 @@ "CH" :> 5 @@ "DH" :> 6 @@ "BH" :> 7
NumberedRegisters == "8" :> 8 @@ "9" :> 9 @@ "10" :> 10 @@ "11" :> 11 @@
                     "12" :> 12 @@ "13" :> 13 @@ "14" :> 14 @@ "15" :> 15

get_R_reg_size(s) == CASE s = "" -> 8 [] s = "D" -> 4 [] s = "W" -> 2 [] s = "L" -> 1 [] OTHER -> 0

RRegister(s) ==
    LET digits == IF First(s) = "1" THEN 2 ELSE 1
        number == Prefix(s, digits)
    IN  CASE s \in DOMAIN WordRegisters -> Register(WordRegisters[s], 8)
          [] number \in DOMAIN NumberedRegisters ->
                Register(NumberedRegisters[number], get_R_reg_size(SubSeq(s, digits + 1, Len(s))))
          [] OTHER -> NoRegister
ERegister(s) == IF s \in DOMAIN WordRegisters THEN Register(WordRegisters[s], 4) ELSE NoRegister
ShortRegister(s) ==
    CASE s \in DOMAIN WordRegisters -> Register(WordRegisters[s], 2)
      [] s \in DOMAIN ByteRegisters -> Register(ByteRegisters[s], 1)
      [] OTHER -> NoRegister
get_register(s) ==
    CASE First(s) = "R" -> RRegister(Tail(s))
      [] First(s) = "E" -> ERegister(Tail(s))
      [] OTHER -> ShortRegister(s)

(***************************************************************************)
(* parse_source_lvl1.  The parts of a line are the positions in "buffer"   *)
(* where they start; each ends at the next Nul.  "quote" is string_char    *)
(* and is "" exactly when is_string is false.                              *)
(***************************************************************************)
Nul == ""
Separators == {" ", "\t", ";", ","}
Quotes == {"\"", "'"}
Start == [buffer |-> <<>>, parts |-> <<>>, was_code |-> FALSE, comment |-> FALSE,
          escape |-> FALSE, quote |-> "", errors_found |-> FALSE, lines |-> <<>>]

TakeSeparator(s, c) ==
    CASE s.comment -> s
      [] ~s.comment /\ s.quote # "" -> [s EXCEPT !.buffer = Append(@, c)]
      [] ~s.comment /\ s.quote = "" /\ s.was_code ->
            [s EXCEPT !.buffer = Append(@, Nul), !.was_code = FALSE]
      [] OTHER -> [s EXCEPT !.errors_found = @ \/ c = ",", !.comment = c = ";"]

\* A line without characters is passed over; its parts then stay.
TakeNewline(s) ==
    LET t == [s EXCEPT !.comment = FALSE, !.was_code = FALSE]
    IN  IF s.buffer = <<>> THEN t
        ELSE [t EXCEPT !.lines = Append(@, [buffer |-> Append(s.buffer, Nul), parts |-> s.parts]),
                       !.buffer = <<>>, !.parts = <<>>]

TakeCode(s, c) ==
    LET full == ~s.was_code /\ Len(s.parts) >= MAX_OPERANDS
        t == [s EXCEPT !.was_code = TRUE,
                       !.parts = IF s.was_code \/ full THEN @ ELSE Append(@, Len(s.buffer) + 1)]
    IN  CASE s.comment -> s
          [] ~s.comment /\ full -> [t EXCEPT !.errors_found = TRUE]
          [] ~s.comment /\ ~full /\ c = "\\" /\ ~s.escape -> t
          [] OTHER ->
                [t EXCEPT !.buffer = Append(@, c),
                          !.quote = CASE s.escape \/ c \notin Quotes -> @
                                      [] ~s.escape /\ c \in Quotes /\ @ = "" -> c
                                      [] OTHER -> IF @ = c THEN "" ELSE @]

Take(s, c) ==
    [ (CASE c \in Separators -> TakeSeparator(s, c)
         [] c = "\n" -> TakeNewline(s)
         [] OTHER -> TakeCode(s, c))
      EXCEPT !.escape = c = "\\" /\ ~s.escape /\ ~s.comment ]

parse_source_lvl1(text) ==
    LET state[i \in 0 .. Len(text)] ==
            IF i = 0 THEN Start ELSE Take(state[i - 1], text[i])
    IN  state[Len(text)]

PartText(buffer, at) ==
    LET text[i \in at .. Len(buffer)] == IF buffer[i] = Nul THEN "" ELSE buffer[i] \o text[i + 1]
    IN  text[at]

(***************************************************************************)
(* parse_source_lvl2                                                       *)
(***************************************************************************)
BadOperand == [type |-> "undefined"]
Immediate(value) == [type |-> "immediate", value |-> value]

process_number(s, otherwise) ==
    LET digits == str_to_upper(SubSeq(s, 3, Len(s)))
        prefix == Prefix(s, 2)
    IN  CASE prefix = "0x" -> IF is_hex(digits) THEN Immediate(hex_str_to_num(digits)) ELSE BadOperand
          [] prefix = "0b" -> IF is_binary(digits) THEN Immediate(binary_str_to_num(digits)) ELSE BadOperand
          [] OTHER -> IF is_digits(s) THEN Immediate(str_to_num(s)) ELSE otherwise

ProcessRegister(s) ==
    LET indirect == First(s) = "[" /\ Last(s) = "]"
        reg == get_register(IF indirect THEN SubSeq(s, 2, Len(s) - 1) ELSE s)
    IN  IF reg.size = 0 THEN BadOperand
        ELSE [type |-> "register", reg |-> reg, indirect |-> indirect]

process_operand(s) ==
    LET rest == SubSeq(s, 2, Len(s))
        size == find_string_end(rest, First(s))
    IN  CASE First(s) = "$" -> [type |-> "label", name |-> rest]
          [] First(s) \in Quotes ->
                IF size < 0 THEN BadOperand
                ELSE [type |-> "string", text |-> SubSeq(rest, 1, size)]
          [] OTHER -> process_number(s, ProcessRegister(str_to_upper(s)))

IsLabel(mnemonic) == Last(mnemonic) = ":"
LineParts(line) == [i \in 1 .. Len(line.parts) |-> PartText(line.buffer, line.parts[i])]

\* A line of parts as a mnemonic with operands, and whether it has an error.
ProcessLine(parts) ==
    LET operands == IF IsLabel(parts[1]) THEN <<>>
                    ELSE [i \in 1 .. Len(parts) - 1 |-> process_operand(parts[i + 1])]
        mnemonic == IF IsLabel(parts[1]) THEN parts[1] ELSE str_to_upper(parts[1])
    IN  [mnemonic |-> mnemonic, operands |-> operands,
         errors_found |-> \/ IsLabel(mnemonic) /\ Len(parts) > 1
                          \/ ~IsLabel(mnemonic) /\ ~is_letters(mnemonic)
                          \/ \E i \in DOMAIN operands : operands[i] = BadOperand]

parse_source_lvl2(lines) ==
    [i \in DOMAIN lines |->
        IF lines[i].parts = <<>> THEN [mnemonic |-> "", operands |-> <<>>, errors_found |-> TRUE]
        ELSE ProcessLine(LineParts(lines[i]))]

(***************************************************************************)
(* mnemonics/: the bytes of an instruction, or Error.                      *)
(***************************************************************************)
Error == <<-1>>
Fits(value, bytes) == \A i \in bytes + 1 .. 8 : value[i] = 0
Low(value, bytes) == SubSeq(value, 1, bytes)
SizeOf(value) == CASE Fits(value, 1) -> 1 [] ~Fits(value, 1) /\ Fits(value, 2) -> 2
                   [] ~Fits(value, 2) /\ Fits(value, 4) -> 4 [] OTHER -> 8
When(condition, byte) == IF condition THEN <<byte>> ELSE <<>>

two_register_magic_swapped(dest, src) == 8 * dest.code + src.code
get_two_register_magic(dest, src) == 8 * src.code + dest.code

MovRegisterRegister(dest, src) ==
    IF dest.size # src.size THEN Error
    ELSE When(dest.size = 2, \h66) \o When(dest.size = 8, \h48)
         \o <<IF dest.size = 1 THEN \h88 ELSE \h89, \hC0 + get_two_register_magic(dest, src)>>

MovNumberRegister(dest, value) ==
    CASE dest.size = 1 ->
            IF Fits(value, 1) THEN <<\hB0 + dest.code>> \o Low(value, 1) ELSE Error
      [] dest.size = 2 ->
            IF Fits(value, 2) THEN <<\h66, \hB8 + dest.code>> \o Low(value, 2) ELSE Error
      [] OTHER ->
            CASE Fits(value, 4) -> <<\hB8 + dest.code>> \o Low(value, 4)
              [] ~Fits(value, 4) /\ dest.size = 8 -> <<\h48, \hB8 + dest.code>> \o value
              [] OTHER -> Error

MovNumberAddress(dest, value) ==
    IF ~Fits(value, 4) \/ dest.size \in {1, 2} THEN Error
    ELSE When(SizeOf(value) = 2, \h66) \o When(dest.size = 4, \h67)
         \o <<IF SizeOf(value) = 1 THEN \hC6 ELSE \hC7, dest.code>> \o Low(value, SizeOf(value))

\* A register stored to, or loaded from, the address in another.
MovWithAddress(address, reg, opcode) ==
    IF address.size \in {1, 2} THEN Error
    ELSE When(reg.size = 2, \h66) \o When(address.size = 4, \h67) \o When(reg.size = 8, \h48)
         \o <<IF reg.size = 1 THEN opcode ELSE opcode + 1, get_two_register_magic(address, reg)>>
MovRegisterAddress(dest, src) == MovWithAddress(dest, src, \h88)
MovAddressRegister(dest, src) == MovWithAddress(src, dest, \h8A)

\* The four bytes of the reference are never filled in.
MovLabel(dest) ==
    When(dest.size = 8, \h48) \o When(dest.size = 2, \h66)
    \o <<IF dest.size = 1 THEN \h8A ELSE \h8B, 8 * dest.code + 5>> \o <<0, 0, 0, 0>>

\* The registers R8 to R15 are known to the parser only.
mnemonic_MOV(operands) ==
    LET op1 == operands[1]
        op2 == operands[2]
        Is(op, type) == op.type = type
        Direct(op) == Is(op, "register") /\ ~op.indirect
        Address(op) == Is(op, "register") /\ op.indirect
        High(op) == Is(op, "register") /\ op.reg.code >= 8
    IN  CASE Len(operands) # 2 -> Error
          [] Len(operands) = 2 /\ (High(op1) \/ High(op2)) -> Error
          [] OTHER ->
                CASE Direct(op1) /\ Direct(op2) -> MovRegisterRegister(op1.reg, op2.reg)
                  [] Direct(op1) /\ Is(op2, "immediate") -> MovNumberRegister(op1.reg, op2.value)
                  [] Address(op1) /\ Is(op2, "immediate") -> MovNumberAddress(op1.reg, op2.value)
                  [] Address(op1) /\ Direct(op2) -> MovRegisterAddress(op1.reg, op2.reg)
                  [] Direct(op1) /\ Address(op2) -> MovAddressRegister(op1.reg, op2.reg)
                  [] Direct(op1) /\ Is(op2, "label") -> MovLabel(op1.reg)
                  [] OTHER -> Error

mnemonic_DB(operands) ==
    LET data(op) == IF op.type = "immediate" THEN Low(op.value, SizeOf(op.value))
                    ELSE [i \in 1 .. Len(op.text) |-> Code[Char(op.text, i)]]
        bytes[i \in 0 .. Len(operands)] ==
            IF i = 0 THEN <<>> ELSE bytes[i - 1] \o data(operands[i])
    IN  IF \/ operands = <<>>
           \/ \E i \in DOMAIN operands : operands[i].type \notin {"immediate", "string"}
        THEN Error ELSE bytes[Len(operands)]

mnemonic_INT(operands) ==
    IF Len(operands) = 1 /\ operands[1].type = "immediate" /\ Fits(operands[1].value, 1)
    THEN <<\hCD, operands[1].value[1]>> ELSE Error

mnemonic_SYSCALL(operands) == IF operands = <<>> THEN <<\h0F, \h05>> ELSE Error

Opcodes(line) ==
    CASE line.mnemonic = "NOP" -> <<\h90>>
      [] line.mnemonic = "INT" -> mnemonic_INT(line.operands)
      [] line.mnemonic = "MOV" -> mnemonic_MOV(line.operands)
      [] line.mnemonic = "SYSCALL" -> mnemonic_SYSCALL(line.operands)
      [] line.mnemonic = "DB" -> mnemonic_DB(line.operands)
      [] OTHER -> Error

(***************************************************************************)
(* lex_source and assemble                                                 *)
(***************************************************************************)
LexLine(s, line) ==
    LET name == SubSeq(line.mnemonic, 1, Len(line.mnemonic) - 1)
        bytes == Opcodes(line)
    IN  IF IsLabel(line.mnemonic)
        THEN [s EXCEPT !.labels = Append(@, <<name, Len(s.opcodes)>>), !.mnemonics = @ \cup {name},
                       !.errors_found = @ \/ name \in s.mnemonics]
        ELSE [s EXCEPT !.opcodes = IF bytes = Error THEN @ ELSE @ \o bytes,
                       !.mnemonics = @ \cup {line.mnemonic},
                       !.errors_found = @ \/ bytes = Error]

lex_source(lines) ==
    LET state[i \in 0 .. Len(lines)] ==
            IF i = 0 THEN [opcodes |-> <<>>, labels |-> <<>>, mnemonics |-> {}, errors_found |-> FALSE]
            ELSE LexLine(state[i - 1], lines[i])
    IN  state[Len(lines)]

Failed == [opcodes |-> Error, labels |-> <<>>]

assemble(text) ==
    LET lvl1 == parse_source_lvl1(Append(text, "\n"))
        lvl2 == parse_source_lvl2(lvl1.lines)
        lexed == lex_source(lvl2)
    IN  CASE lvl1.errors_found -> Failed
          [] ~lvl1.errors_found /\ (\E i \in DOMAIN lvl2 : lvl2[i].errors_found) -> Failed
          [] OTHER ->
                IF lexed.errors_found \/ lexed.opcodes = <<>> THEN Failed
                ELSE [opcodes |-> lexed.opcodes, labels |-> lexed.labels]
=============================================================================
