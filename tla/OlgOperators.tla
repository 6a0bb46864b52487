--------------------------- MODULE OlgOperators ---------------------------
(***************************************************************************)
(* The operators of the prototype as bootstrap-olg/exec.c computes them:   *)
(* by casts between int64_t and uint64_t, here integers of Width bits.     *)
(* What one refuses is a Fault with its diagnostic.                        *)
(***************************************************************************)
EXTENDS OlgTree, FiniteSetsExt

CONSTANT Width \* the bits of an int

ASSUME WidthAssumption == Width \in Nat /\ Width > 1

Fault(msg) == [k |-> "fault", msg |-> msg]

Half    == 2^(Width - 1)
Modulus == 2^Width

IsInt(v)  == v.k \in {"V_INT", "V_UINT"}
Word(v)   == IF v.k = "V_UINT" THEN v.u ELSE v.i % Modulus  \* (uint64_t)
Signed(w) == IF w < Half THEN w ELSE w - Modulus            \* (int64_t)

(* The result is a uint as soon as one operand is. *)
Unsigned(a, b) == "V_UINT" \in {a.k, b.k}
Typed(a, b, w) == IF Unsigned(a, b) THEN Uint(w) ELSE Num(Signed(w))

(* Division rounds towards zero. *)
Abs(n)    == IF n < 0 THEN -n ELSE n
Quotient(x, y) ==
  IF (x < 0) = (y < 0) THEN Abs(x) \div Abs(y) ELSE -(Abs(x) \div Abs(y))
Remainder(x, y) == x - y * Quotient(x, y)

Divided(op, x, y) == IF op = "/" THEN Quotient(x, y) ELSE Remainder(x, y)

NumAdd(op, a, b) ==
  LET x == Word(a)
      y == Word(b)
  IN  CASE op = "+" -> Typed(a, b, (x + y) % Modulus)
        [] op = "-" -> Typed(a, b, (x - y) % Modulus)
        [] op = "*" -> Typed(a, b, (x * y) % Modulus)
        [] OTHER    -> IF y = 0 THEN Fault("division by zero")
                       ELSE IF Unsigned(a, b) THEN Uint(Divided(op, x, y))
                       ELSE IF a = Num(-Half) /\ b = Num(-1) THEN Fault("division overflow")
                       ELSE Num(Divided(op, a.i, b.i))

(* The cyclic shifts are as the code has them: <<~ gives back what is      *)
(* shifted out of a negative number only, >>~ never does. *)
BinBitsh(op, a, b) ==
  LET w  == Word(a)
      sh == Signed(Word(b))
      left == (w * 2^sh) % Modulus
  IN  IF sh < 0 \/ sh > Width - 1 THEN Fault("shift out of range")
      ELSE Typed(a, b, CASE op = "<<"  -> left
                         [] op = ">>"  -> (Signed(w) \div 2^sh) % Modulus
                         [] op = "<<~" -> IF sh = 0 \/ w < Half THEN left
                                          ELSE left + (w \div 2^(Width - sh))
                         [] OTHER      -> w \div 2^sh)

BitOf(w, i) == (w \div 2^i) % 2

BinBit(op, a, b) ==
  LET Bit(i) == LET x == BitOf(Word(a), i)
                    y == BitOf(Word(b), i)
                IN  CASE op = "&" -> x * y
                      [] op = "|" -> x + y - x * y
                      [] op = "^" -> (x + y) % 2
  IN  Typed(a, b, MapThenSumSet(LAMBDA i : Bit(i) * 2^i, 0 .. Width - 1))

Sign(n) == IF n < 0 THEN -1 ELSE IF n > 0 THEN 1 ELSE 0

(* num_cmp: by the words, unless one number alone is negative. *)
Order(a, b) ==
  LET xs == a.k = "V_INT" /\ a.i < 0
      ys == b.k = "V_INT" /\ b.i < 0
  IN  IF xs # ys THEN (IF xs THEN -1 ELSE 1) ELSE Sign(Word(a) - Word(b))

TextOrder(s, t) ==
  LET place == [c \in {"", "1", "x"} |-> CASE c = "" -> 0 [] c = "1" -> 1 [] c = "x" -> 2]
  IN  Sign(place[s] - place[t])

Compared(op, r) ==
  Bool(CASE op = "==" -> r = 0
         [] op = "!=" -> r # 0
         [] op = "<"  -> r < 0
         [] op = "<=" -> r <= 0
         [] op = ">"  -> r > 0
         [] op = ">=" -> r >= 0)

NumCmp(op, a, b) ==
  IF a.k = "V_STR" /\ b.k = "V_STR" THEN Compared(op, TextOrder(a.str, b.str))
  ELSE IF IsInt(a) /\ IsInt(b) THEN Compared(op, Order(a, b))
  ELSE Fault("cannot compare")

Condition == Fault("not a condition")

(* && and ||: both operands have been evaluated. *)
Logical(op, a, b) ==
  IF ~Usable(a) THEN Condition
  ELSE IF Truth(a) = (op = "||") THEN Bool(op = "||")
  ELSE IF ~Usable(b) THEN Condition
  ELSE Bool(Truth(b))

Arithmetic == {"+", "-", "*", "/", "%"}
Shifts     == {"<<", ">>", ">>>", "<<~", ">>~"}
BitOps     == {"&", "|", "^"}
Ranges     == {"..=", "..<", ">..=", ">..<"}

Binary(op, a, b) ==
  CASE op \in Arithmetic \cup Shifts \cup BitOps ->
         IF ~(IsInt(a) /\ IsInt(b)) THEN Fault("arithmetic")
         ELSE IF op \in Arithmetic THEN NumAdd(op, a, b)
         ELSE IF op \in Shifts THEN BinBitsh(op, a, b)
         ELSE BinBit(op, a, b)
    [] op \in {"&&", "||"} -> Logical(op, a, b)
    [] op = "??"           -> IF a.k = "V_ERR" THEN b ELSE a
    [] op \in Ranges       ->
         IF a.k # "V_INT" \/ b.k # "V_INT" THEN Fault("ranges need int bounds")
         ELSE Span(a.i, b.i, op \in {">..=", ">..<"}, op \in {"..=", ">..="})
    [] OTHER               -> NumCmp(op, a, b)

(* The negation of the least int is itself; that of a uint is an int. *)
Negated(v) == Num(Signed((-Word(v)) % Modulus))

(* ! makes its operand a bool before it asks whether it is true, and so     *)
(* asks for the bool among its bits: the lower half of a number or of the   *)
(* first bound of a range, and of what is else an address, never 0.  (What  *)
(* a void has there is what it was before: none is negated here.) *)
AsBool(v) ==
  CASE v.k = "V_BOOL"  -> v.b
    [] IsInt(v)        -> Word(v) % 2^(Width \div 2) # 0
    [] v.k = "V_RANGE" -> Word(Num(v.lo)) % 2^(Width \div 2) # 0
    [] OTHER           -> TRUE

UnaryOf(op, v) ==
  CASE op = "-" -> IF IsInt(v) THEN Negated(v) ELSE Fault("cannot negate")
    [] op = "!" -> Bool(~AsBool(v))
    [] op = "~" -> IF IsInt(v) THEN Typed(v, v, Modulus - 1 - Word(v)) ELSE Fault("cannot bitwise-not")

(* The assignments with an operator of numbers, op "" for the plain one. *)
Assigned(op, old, v) == IF op = "" THEN v ELSE Binary(op, old, v)

(* bi_from: a cast that fails is an error value. *)
Failed == Err("cast")

(* int.from and uint.from, before the test of the sign. *)
FromInt(tag, v) ==
  CASE v.k = "V_INT"  -> v
    [] v.k = "V_UINT" -> IF tag = "uint.from" THEN v ELSE IF v.u < Half THEN Num(v.u) ELSE Failed
    [] v.k = "V_BOOL" -> Num(IF v.b THEN 1 ELSE 0)
    [] OTHER          -> IF v = Text("1") THEN Num(1) ELSE Failed

From(tag, v) ==
  CASE tag = "int.from"  -> FromInt(tag, v)
    [] tag = "uint.from" ->
         LET n == FromInt(tag, v)
         IN  IF n.k # "V_INT" THEN n ELSE IF n.i < 0 THEN Failed ELSE Uint(n.i)
    [] tag = "bool.from" -> IF v.k \in {"V_BOOL", "V_INT", "V_UINT"} THEN Bool(Truth(v)) ELSE Failed
Casts == {"int.from", "uint.from", "bool.from"}
-----------------------------------------------------------------------------
(* val_print, without the layout: a value with what its cells hold now, of *)
(* the arrays and records at their addresses. *)
Printed(at, val) ==
  LET all == Append(at, [parent |-> 0, b |-> <<[nm |-> NoName, v |-> val]>>])
      shown[a \in DOMAIN all] ==
        [i \in DOMAIN all[a].b |->
           LET v == all[a].b[i].v
           IN  [ nm |-> all[a].b[i].nm,
                 v  |-> CASE v.k \in {"V_ARR", "V_REC"} -> [k |-> v.k, cells |-> shown[v.at]]
                          [] v.k = "V_FUNC"             -> [k |-> "V_FUNC"]
                          [] OTHER                      -> v ]]
  IN  Head(shown[Len(all)]).v

(* The turns of a loop over a range, by the int that counts them: it wraps. *)
Within(span, i) ==
  IF span.desc THEN (IF span.incl THEN i >= span.hi ELSE i > span.hi)
  ELSE (IF span.incl THEN i <= span.hi ELSE i < span.hi)

Counted(span, i) == Signed((IF span.desc THEN i - 1 ELSE i + 1) % Modulus)
=============================================================================
