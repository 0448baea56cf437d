----------------------------- MODULE Calculator -----------------------------
(***************************************************************************)
(* calc: the expression given as arguments is split into tokens            *)
(* (lexer.c), parsed by recursive descent (parser.c) and evaluated         *)
(* (interpreter.c).  A text is a sequence of characters.  A result is      *)
(* "value" with a number, "abort" for an error the program reports,        *)
(* "fault" for a NULL pointer followed or a division the processor         *)
(* refuses, or "undefined" where main writes behind its input array.  Only *)
(* lower case letters are used.                                            *)
(***************************************************************************)
EXTENDS Integers, Sequences, TLC
LOCAL INSTANCE SequencesExt

CONSTANTS INT_MAX,      \* the largest int
          INPUT_SIZE    \* char input[1024] in main

\* Arithmetic on int is that of the processor: it wraps around.
INT_MIN == -INT_MAX - 1
Wrap(n) == ((n - INT_MIN) % (2 * (INT_MAX + 1))) + INT_MIN

lexer_token_e == [number |-> 0, plus |-> 1, minus |-> 2, multiply |-> 3, divide |-> 4,
                  modulo |-> 5, lparen |-> 6, rparen |-> 7, comma |-> 8, id |-> 9]
parser_node_type_e == [number_node |-> 0, add_node |-> 1, substract_node |-> 2,
                       multiply_node |-> 3, divide_node |-> 4, modulo_node |-> 5,
                       plus_node |-> 6, minus_node |-> 7]
T == lexer_token_e
N == parser_node_type_e

(***************************************************************************)
(* lexer.c                                                                 *)
(***************************************************************************)
HexDigits == <<"0", "1", "2", "3", "4", "5", "6", "7", "8", "9", "a", "b", "c", "d", "e", "f">>
Digits == { HexDigits[i] : i \in 1 .. 10 }
Letters == { HexDigits[i] : i \in 11 .. 16 } \cup {"s", "t", "x"}
Symbols == "+" :> T.plus @@ "-" :> T.minus @@ "*" :> T.multiply @@ "/" :> T.divide @@
           "%" :> T.modulo @@ "(" :> T.lparen @@ ")" :> T.rparen @@ "," :> T.comma

Token(type, value) == [type |-> type, value |-> value]
UnknownToken == Token(-1, <<>>)

\* How far the characters from "at" on all lie in a set.
RunEnd(input, at, set) ==
    CHOOSE j \in at .. Len(input) + 1 :
        /\ \A k \in at .. j - 1 : input[k] \in set
        /\ j = Len(input) + 1 \/ input[j] \notin set

\* The value of a number and the position behind it.  Every base takes the
\* letters a to f as digits.
_lexer_parse_number(input, at) ==
    LET prefix == IF input[at] = "0" /\ at < Len(input) THEN input[at + 1] ELSE ""
        base == CASE prefix = "x" -> 16 [] prefix = "b" -> 2 [] OTHER -> 10
        start == IF base = 10 THEN at ELSE at + 2
        end == RunEnd(input, start, Range(HexDigits))
        digit(c) == CHOOSE d \in 0 .. 15 : HexDigits[d + 1] = c
        number[j \in start - 1 .. end - 1] ==
            IF j < start THEN 0 ELSE Wrap(number[j - 1] * base + digit(input[j]))
    IN  [token |-> Token(T.number, number[end - 1]), next |-> end]

ReadName(input, at) ==
    LET end == RunEnd(input, at, Letters)
    IN  [token |-> Token(T.id, SubSeq(input, at, end - 1)), next |-> end]

RECURSIVE TokenizeFrom(_, _)
TokenizeFrom(input, at) ==
    LET c == input[at]
        Take(r) == <<r.token>> \o TokenizeFrom(input, r.next)
    IN  CASE at > Len(input) -> <<>>
          [] c \in {" ", "\t", "\n"} -> TokenizeFrom(input, at + 1)
          [] c \in DOMAIN Symbols -> Take([token |-> Token(Symbols[c], <<>>), next |-> at + 1])
          [] c \in Digits -> Take(_lexer_parse_number(input, at))
          [] c \in Letters -> Take(ReadName(input, at))
          [] OTHER -> <<UnknownToken>>

\* The loop looks at one character before it tests for the end.
lexer_tokenize(input) == IF input = <<>> THEN <<UnknownToken>> ELSE TokenizeFrom(input, 1)

(***************************************************************************)
(* dynamic_array.c: an iterator is the number of tokens before it.         *)
(***************************************************************************)
Null == Token(-2, <<>>)
has_next(tokens, idx) == idx < Len(tokens)
get_next(tokens, idx) == IF has_next(tokens, idx) THEN tokens[idx + 1] ELSE Null
next(tokens, idx) == IF has_next(tokens, idx) THEN idx + 1 ELSE idx

(***************************************************************************)
(* parser.c: a parse is a node and the place of the iterator behind it.    *)
(***************************************************************************)
__parser_node(type, sub, value) == [end |-> "value", type |-> type, sub |-> sub, value |-> value]
Parse(node, idx) == [node |-> node, idx |-> idx]
Fails(how) == Parse([end |-> how, type |-> 0, sub |-> <<>>, value |-> 0], 0)
Failed(parse) == parse.node.end # "value"

__parser_constant(name) ==
    IF name = <<"t", "e", "s", "t">> THEN __parser_node(N.number_node, <<>>, 3)
                                     ELSE Fails("abort").node

RECURSIVE __parser_expr(_, _)

\* The two signs compare a token with the type of a node: plus_node is 6, as
\* lparen, and minus_node is 7, as rparen.
RECURSIVE __parser_factor(_, _)
__parser_factor(tokens, idx) ==
    LET current == get_next(tokens, idx)
        inner == __parser_expr(tokens, idx + 1)
        operand == __parser_factor(tokens, idx + 1)
    IN  CASE current.type = Null.type -> Fails("fault")
          [] current.type = T.lparen ->
               IF Failed(inner) THEN inner
               ELSE IF get_next(tokens, inner.idx - 1).type # T.rparen THEN Fails("abort")
               ELSE inner
          [] current.type = T.number ->
               Parse(__parser_node(N.number_node, <<>>, current.value), idx + 1)
          [] current.type \in {N.plus_node, N.minus_node} \ {T.lparen} ->
               IF Failed(operand) THEN operand
               ELSE Parse(__parser_node(current.type, <<operand.node>>, 0), operand.idx)
          [] current.type = T.id -> Parse(__parser_constant(current.value), idx + 1)
          [] OTHER -> Fails("abort")

JoinSwapped(token, left, right) ==
    IF Failed(right) THEN right
    ELSE Parse(__parser_node(token.type, <<right.node, left.node>>, 0), right.idx)
Join(token, left, right) ==
    IF Failed(right) THEN right
    ELSE Parse(__parser_node(token.type, <<left.node, right.node>>, 0), right.idx)

RECURSIVE TermRest(_, _)
TermRest(tokens, left) ==
    LET current == get_next(tokens, left.idx)
    IN  IF Failed(left) \/ current.type \notin {T.multiply, T.divide, T.modulo} THEN left
        ELSE TermRest(tokens, Join(current, left, __parser_factor(tokens, left.idx + 1)))
__parser_term(tokens, idx) == TermRest(tokens, __parser_factor(tokens, idx))

\* The end of the loop takes the token behind the right operand (iterator_next,
\* where __parser_term has get_next): the next iteration skips another one.
RECURSIVE ExprRest(_, _, _)
ExprRest(tokens, left, current) ==
    IF \/ Failed(left) \/ ~has_next(tokens, left.idx)
       \/ current.type \notin {T.plus, T.minus}
    THEN left
    ELSE LET sum == Join(current, left, __parser_term(tokens, left.idx + 1))
         IN  ExprRest(tokens, [sum EXCEPT !.idx = next(tokens, @)], get_next(tokens, sum.idx))
__parser_expr(tokens, idx) ==
    LET left == __parser_term(tokens, idx)
    IN  ExprRest(tokens, left, get_next(tokens, left.idx))

parser_parse(tokens) == __parser_expr(tokens, 0).node

(***************************************************************************)
(* interpreter.c and main                                                  *)
(***************************************************************************)
Value(n) == [end |-> "value", value |-> n]
Ends(how) == [end |-> how, value |-> 0]

\* Division and remainder of C, which round to zero.
Abs(n) == IF n < 0 THEN -n ELSE n
Quotient(a, b) == (IF (a < 0) # (b < 0) THEN -1 ELSE 1) * (Abs(a) \div Abs(b))

Exactly(type, a, b) ==
    CASE type = N.add_node -> a + b
      [] type = N.substract_node -> a - b
      [] type = N.multiply_node -> a * b
      [] type = N.divide_node -> Quotient(a, b)
      [] OTHER -> a - b * Quotient(a, b)

\* Of a division the processor refuses also the one whose quotient is no int.
Divides(type) == type \in {N.divide_node, N.modulo_node}
Refuses(a, b) == b = 0 \/ (a = INT_MIN /\ b = -1)
Apply(type, a, b) ==
    CASE a.end # "value" -> a
      [] b.end # "value" -> b
      [] Divides(type) /\ Refuses(a.value, b.value) -> Ends("fault")
      [] OTHER -> Value(Wrap(Exactly(type, a.value, b.value)))

RECURSIVE eval(_)
eval(node) ==
    IF node.type \in {N.plus_node, N.minus_node} THEN Ends("abort")
    ELSE IF node.type = N.number_node THEN Value(node.value)
    ELSE Apply(node.type, eval(node.sub[1]), eval(node.sub[2]))

\* The arguments are put together without a blank, whatever their length.
Calculate(args) ==
    LET input == FlattenSeq(args)
        tokens == lexer_tokenize(input)
        node == parser_parse(tokens)
    IN  IF Len(input) >= INPUT_SIZE THEN Ends("undefined")
        ELSE IF \E i \in DOMAIN tokens : tokens[i].type = UnknownToken.type THEN Ends("abort")
        ELSE IF node.end # "value" THEN Ends(node.end)
        ELSE eval(node)

(***************************************************************************)
(* The reference: an expression is a leaf (a text and its value) or an     *)
(* operator with two operands.                                             *)
(***************************************************************************)
Leaf(text, value) == [op |-> "leaf", text |-> text, value |-> value]
Binary(op, a, b) == [op |-> op, a |-> a, b |-> b]
Sums == {"+", "-"}
Products == {"*", "/", "%"}

\* Its value among all integers, if it has one.
RECURSIVE Meaning(_)
Meaning(e) ==
    LET a == Meaning(e.a)
        b == Meaning(e.b)
    IN  CASE e.op = "leaf" -> Value(e.value)
          [] a.end # "value" -> a
          [] b.end # "value" -> b
          [] e.op \in {"/", "%"} /\ b.value = 0 -> Ends("fault")
          [] OTHER -> Value(Exactly(Symbols[e.op], a.value, b.value))

\* Every number of it, and every result on the way, is an int.
RECURSIVE Fits(_)
Fits(e) == /\ Meaning(e).end = "value" => Meaning(e).value \in INT_MIN .. INT_MAX
           /\ e.op # "leaf" => Fits(e.a) /\ Fits(e.b)

RECURSIVE Divided(_)
Divided(e) == e.op # "leaf" /\ (e.op \in {"/", "%"} \/ Divided(e.a) \/ Divided(e.b))

\* How one writes it, with parentheses only where they are needed.
RECURSIVE Written(_)
Written(e) ==
    LET In(f, tight) == IF f.op \in tight THEN << <<"(">> >> \o Written(f) \o << <<")">> >>
                                          ELSE Written(f)
    IN  IF e.op = "leaf" THEN <<e.text>>
        ELSE In(e.a, IF e.op \in Products THEN Sums ELSE {}) \o << <<e.op>> >>
             \o In(e.b, IF e.op \in Products THEN Sums \cup Products ELSE Sums)

\* Three terms in a row, or a product in parentheses.
RECURSIVE Unsupported(_)
Unsupported(e) ==
    /\ e.op # "leaf"
    /\ \/ e.op \in Sums /\ e.a.op \in Sums
       \/ e.op \in Products /\ e.b.op \in Products
       \/ Unsupported(e.a) \/ Unsupported(e.b)

\* What calc prints is right as far as an int can be: it evaluates what was
\* written, exactly if every number and every result on the way is an int,
\* and else, if nothing is divided, modulo the size of an int.  It fails only
\* on what it does not support (parser.c loses its place in a chain of sums and
\* behind a product in parentheses), where the value itself does not exist, and
\* on what is longer than its input array.
NeverWrong(e) ==
    LET result == Calculate(Written(e))
        meaning == Meaning(e)
    IN  IF Len(FlattenSeq(Written(e))) >= INPUT_SIZE THEN result.end = "undefined"
        ELSE \/ Unsupported(e) /\ result.end \in {"abort", "fault"}
             \/ Fits(e) /\ result = meaning
             \/ ~Fits(e) /\ (Divided(e) \/ result = Value(Wrap(meaning.value)))
=============================================================================
