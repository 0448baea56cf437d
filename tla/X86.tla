-------------------------------- MODULE X86 --------------------------------
(***************************************************************************)
(* What a processor in 64 bit mode makes of the bytes: the instructions    *)
(* foxasm has mnemonics for, read as the Intel manual describes them.  It  *)
(* is the reference the assembler is held against and no code of the       *)
(* repository.                                                             *)
(***************************************************************************)
EXTENDS Integers, Sequences, TLC

Wide(bytes) == [i \in 1 .. 8 |-> IF i <= Len(bytes) THEN bytes[i] ELSE 0]

Reg(code, size) == [kind |-> "register", code |-> code, size |-> size]
Mem(code, size) == [kind |-> "memory", code |-> code, size |-> size]
Number(value) == [kind |-> "number", value |-> value]
Moved(dest, src, width) == [op |-> "MOV", dest |-> dest, src |-> src, width |-> width]
Plain(op) == [op |-> op]
Unknown == Plain("?")

\* Prefixes change the width of the data (66, 48) and of addresses (67).
Prefixes == {\h66, \h67, \h48}
PrefixEnd(bytes) ==
    CHOOSE i \in 0 .. Len(bytes) : /\ \A j \in 1 .. i : bytes[j] \in Prefixes
                                   /\ i < Len(bytes) => bytes[i + 1] \notin Prefixes

\* The operand of a mod-rm byte: 3 is a register, 0 the address in a
\* register; with mod 0, number 4 is a longer form and 5 is relative to the
\* instruction itself, and both take more bytes than one.
RmOperand(modrm, width, address) ==
    LET rm == modrm % 8
    IN  CASE modrm \div 64 = 3 -> Reg(rm, width)
          [] modrm \div 64 = 0 /\ rm \notin {4, 5} -> Mem(rm, address)
          [] OTHER -> [kind |-> "other"]

\* The first instruction of the bytes and how many of them it takes.
Decode(bytes) ==
    LET p == PrefixEnd(bytes)
        has(prefix) == \E i \in 1 .. p : bytes[i] = prefix
        wide == CASE has(\h48) -> 8 [] ~has(\h48) /\ has(\h66) -> 2 [] OTHER -> 4
        address == IF has(\h67) THEN 4 ELSE 8
        at(i) == IF p + i <= Len(bytes) THEN bytes[p + i] ELSE 0
        op == at(1)
        ModRm(width) == [rm |-> RmOperand(at(2), width, address),
                         reg |-> Reg((at(2) \div 8) % 8, width)]
        Immediate(from, n) == Number(Wide(SubSeq(bytes, p + from, p + from + n - 1)))
        Is(instruction, n) == [instruction |-> instruction, length |-> p + n]
        width == IF op % 2 = 0 THEN 1 ELSE wide
    IN  CASE op = \h90 -> Is(Plain("NOP"), 1)
          [] op = \h0F /\ at(2) = 5 -> Is(Plain("SYSCALL"), 2)
          [] op = \hCD -> Is([op |-> "INT", value |-> Immediate(2, 1)], 2)
          [] op \in {\h88, \h89} -> Is(Moved(ModRm(width).rm, ModRm(width).reg, width), 2)
          [] op \in {\h8A, \h8B} -> Is(Moved(ModRm(width).reg, ModRm(width).rm, width), 2)
          [] op \in \hB0 .. \hB7 -> Is(Moved(Reg(op - \hB0, 1), Immediate(2, 1), 1), 2)
          \* A register written in 32 bits has its upper half cleared.
          [] op \in \hB8 .. \hBF ->
                Is(Moved(Reg(op - \hB8, IF wide = 4 THEN 8 ELSE wide), Immediate(2, wide),
                         IF wide = 4 THEN 8 ELSE wide), 1 + wide)
          [] op = \hC6 -> Is(Moved(ModRm(1).rm, Immediate(3, 1), 1), 3)
          [] op = \hC7 -> Is(Moved(ModRm(wide).rm, Immediate(3, wide), wide), 2 + wide)
          [] OTHER -> Is(Unknown, 1)
=============================================================================
