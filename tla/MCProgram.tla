----------------------------- MODULE MCProgram -----------------------------
(* Module Program over small programs, with words of three bits.           *)
EXTENDS Program, Meaning

x == Id("x")
true == Value("true")
false == Value("false")

(* Operators of two levels, words that wrap, -4 / -1, a literal that does  *)
(* not fit, and values where there should be none.                         *)
Least == Expr("-", UExpr("-", Value("3")), Value("1"))

Values ==
  { x, true, Value("0"), Value("1"), Value("4"), UExpr("-", x), Expr("+", x, Value("3")),
    Expr("*", Value("2"), Expr("-", x, Value("1"))), Expr("/", Value("3"), x),
    Expr("/", Least, UExpr("-", x)), IfExpr(true, x, Value("2")),
    IfExpr(Value("0"), Value("1"), IfExpr(false, true, Value("2"))) }

NoValues ==
  { IfExpr(true, Echo(Value("1")), <<>>), IfExpr(false, Block(<<Echo(x)>>), Block(<<>>)) }

Simple == UNION {{Echo(v), Define("x", v), Assign(x, v)} : v \in Values}

Effects == {Echo(x), Define("x", Value("2")), Assign(x, Value("2"))}

Branches ==
  {If(c, s, <<>>) : c \in {true, x}, s \in Effects}
  \cup {If(c, Block(<<s>>), e) : c \in {true, false}, s \in Effects,
                                 e \in {<<>>, Block(<<Assign(x, Value("3"))>>)}}
  \cup {If(x, Block(<<Define("x", true), s>>), Block(<<If(false, s, <<>>)>>)) : s \in Effects}

(* What the parser accepts as well, and module Ast calls not well sorted. *)
Unsorted ==
  {Echo(v) : v \in NoValues} \cup {Define("x", v) : v \in NoValues}
  \cup {Assign(Value("1"), x), If(true, Value("1"), Value("2"))}

Stmts == Simple \cup Branches \cup Unsorted

(* Enough statements that leave a value to fill the operand stack. *)
Leaking == Block([k \in 1..8 |-> If(true, Value("1"), Value("2"))])

Leaks == {Leaking, Block(<<If(true, Value("1"), Value("2"))>>)}

Programs ==
  {Block(<<>>), Leaking}
  \cup {Block(<<a, b>>) : a \in Stmts, b \in Branches \cup Unsorted \cup Effects}
  \cup {Block(<<Define("x", Value("1")), a, Echo(x)>>) : a \in Stmts}

(* What main.c runs does what the language says: the same output and the   *)
(* same error, by a walk with two stacks (walker.c, exec.c) and by the     *)
(* meaning of each node.                                                   *)
MeansWhatItSays == Ran /\ Sorted => <<verdict[3], echoed>> = MeaningOf(ast)

(* The operand stack is big enough for every program (test/expect.txt:900, *)
(* stmt_if_value_arms run rc=0: an if whose arms are values stands as a    *)
(* statement; test/check.sh:380 "the 2*height+1 task sizing").             *)
OperandsFit == status # "stack overflow"
=============================================================================
