------------------------------- MODULE MCOlg -------------------------------
(* The interpreter of the prototype on every nesting of two of its         *)
(* constructs around statements that defer, raise, jump and return, on     *)
(* every operator and pair of operands at the ends of the integers, on     *)
(* arrays and records that are shared, and on a program for each of the    *)
(* rest; and on one that comes to each point at which the documents of the *)
(* language say something else.                                            *)
EXTENDS OlgExec

Code           == INSTANCE OlgMeaning WITH Documented <- {}
Written(point) == INSTANCE OlgMeaning WITH Documented <- {point}

SayValue(x) == ExprStmt(Call(Lit(Builtin("println")), <<x>>))
Say(n)   == SayValue(Lit(Num(n)))
Cast(ok)   == Call(Lit(Builtin("int.from")), <<Lit(Text(IF ok THEN "1" ELSE "x"))>>)
Nothing    == Unwrap(Cast(FALSE), "?")
Silence    == Call(Lit(Builtin("println")), <<>>) \* void where a `?` belongs to the statement
Raise      == ExprStmt(Unwrap(Cast(FALSE), "!"))
Main(ch)   == FuncDecl("main", <<>>, Block(ch))
Upto(n)    == Bin("..<", Lit(Num(0)), Lit(Num(n)))
Set(nm, x) == Assign(Name(nm), "", x)
Twice(body) == In("_", "i", Upto(2), body)

Simple == { Say(1), Defer(Say(2)), Raise, ReturnStmt(Lit(Num(5))),
            Transfer("break", NoLabel), Transfer("continue", NoLabel),
            Transfer("break", "outer"), Transfer("continue", "outer") }

(* A guarded region begins with a try, and the end of its block ends it. *)
Closure(ch) == FuncExpr(<<>>, TRUE, Block(ch))
Guarded(regs, nm, handlers) == Block(<<Region([regs EXCEPT ![1] = Try(@)], nm, handlers)>>)

(* The constructs around two statements. *)
Around(a, b) ==
  { Block(<<a, b>>), Twice(Block(<<a, b>>)), Label("outer", Twice(Block(<<a, b>>))),
    Guarded(<<a, b>>, "err", <<Say(8)>>), Defer(Block(<<a, b>>)),
    Guarded(<<Raise>>, "err", <<a, b>>), ExprStmt(Call(Closure(<<a, b>>), <<>>)) }

Nested ==
  UNION {Around(a, b) : a \in Simple, b \in Simple}
  \cup UNION {UNION {Around(Defer(Say(3)), c) : c \in Around(a, b)} :
                a \in {Say(1), Defer(Say(2))}, b \in Simple}

NestedPrograms == {<<Main(<<Defer(Say(7)), st, Say(9), ExprStmt(Lit(Num(6)))>>)>> : st \in Nested}

(* Functions, closures, parameters and defaults, and the names they see. *)
P(nm)  == Param(nm, NoNode)
One    == Lit(Num(1))
Two    == Lit(Num(2))
F(params, body) == FuncDecl("f", params, body)
Calling(args) == Main(<<Var("y", Two), SayValue(Call(Name("f"), args)), SayValue(Name("y"))>>)
YGlobal == Var("y", One)

FunctionPrograms ==
  { <<F(<<P("x"), P("y")>>, Block(<<SayValue(Name("x")), ExprStmt(Name("y"))>>)), Calling(<<One, Two>>)>>,
    <<F(<<P("x")>>, Block(<<ReturnStmt(Name("x"))>>)), Calling(<<One, Two>>)>>,
    <<F(<<P("x")>>, Block(<<ReturnStmt(Name("x"))>>)), Calling(<<>>)>>,
    <<F(<<>>, ExprStmt(Call(Name("f"), <<>>))), Calling(<<>>)>>,
    <<F(<<>>, Name("y")), Calling(<<>>)>>, <<F(<<>>, List(<<>>)), Calling(<<>>)>>, <<F(<<>>, Fund("int")), Calling(<<>>)>>,
    <<F(<<>>, Say(1)), Calling(<<>>)>>, <<F(<<>>, ReturnStmt(Name("z"))), Calling(<<>>)>>,
    <<Main(<<Var("x", One), Var("f", Closure(<<Set("x", Lit(Num(4)))>>)),
             ExprStmt(Call(Name("f"), <<>>)), SayValue(Name("x")), ReturnStmt(Name("x"))>>)>>,
    <<Main(<<SayValue(Call(FuncExpr(<<>>, FALSE, Block(<<Say(1), ReturnStmt(Two)>>)), <<>>)), Say(3)>>)>>,
    <<Main(<<ExprStmt(Call(One, <<>>))>>)>>,
    <<Main(<<ExprStmt(Call(Lit(Builtin("int.from")), <<>>))>>)>>,
    <<Main(<<ReturnStmt(Lit(Bool(TRUE)))>>)>>,
    <<Main(<<Block(<<Var("x", One), Defer(SayValue(Name("x")))>>), ReturnStmt(Name("x"))>>)>>,
    <<Main(<<Var("x", One), Defer(SayValue(Name("x"))), ReturnStmt(NoNode)>>)>>,
    <<Say(1), Defer(Say(2)), ReturnStmt(Lit(Num(3))), Say(4), Main(<<Say(5)>>)>>,
    <<Var("main", One)>>, <<Say(1)>>, <<Raise, Say(1)>> }
  \cup {<<YGlobal, F(<<P("x"), Param("z", dflt)>>,
                     Block(<<SayValue(Name("x")), SayValue(Name("z")), Set("y", Lit(Num(3))), ExprStmt(Name("y"))>>)), Calling(args)>> :
          dflt \in {Name("y"), Name("x"), Unwrap(Cast(FALSE), "!"), Call(Closure(<<Set("y", Lit(Num(5))), ExprStmt(One)>>), <<>>)},
          args \in {<<>>, <<One>>, <<One, Two>>}}

(* A flow that a deferred statement leaves behind a call. *)
Leaky == F(<<>>, Block(<<Defer(ReturnStmt(Lit(Num(4)))), Defer(Say(2)), ReturnStmt(Lit(Num(3)))>>))
Arm(pat, st) == [pat |-> pat, body |-> List(<<st>>)]

LeakPrograms ==
  { <<Leaky, Main(<<SayValue(Call(Name("f"), <<>>)), Say(1)>>)>>,
    <<Leaky, Main(<<Var("x", Call(Name("f"), <<>>)), Say(1)>>)>>,
    <<Leaky, FuncDecl("g", <<P("x")>>, Block(<<SayValue(Name("x"))>>)),
      Main(<<ExprStmt(Call(Name("g"), <<Call(Name("f"), <<>>)>>)), Say(1)>>)>>,
    <<Leaky, FuncDecl("g", <<Param("x", Call(Name("f"), <<>>)), Param("z", One)>>, Block(<<SayValue(Name("x")), SayValue(Name("z"))>>)),
      Main(<<ExprStmt(Call(Name("g"), <<>>)), Say(1)>>)>>,
    <<Leaky, Main(<<Cfor("i", One, Name("i"), Set("i", Call(Name("f"), <<>>)), Say(1))>>)>>,
    <<Leaky, Main(<<If(Call(Name("f"), <<>>), Say(1), Say(2)), Say(3)>>)>>,
    <<Leaky, Main(<<Match(Call(Name("f"), <<>>), <<Arm(Is(Cast(FALSE), "cast", "_"), Say(1)), Arm(Name("_"), Say(2))>>)>>)>> }

(* Conditions, loops, patterns and checked heads, with what fits and what does not. *)
Conditions == {Lit(Bool(TRUE)), Lit(Bool(FALSE)), Lit(Num(0)), Lit(Text("1")), Cast(FALSE), Silence, Name("y")}

ControlPrograms ==
  {<<Main(<<st, Say(9)>>)>> : st \in
     {If(c, Say(1), else) : c \in Conditions, else \in {NoNode, Say(2)}}
     \cup {CheckIf("v", c, then, else) : c \in Conditions, then \in {NoNode, SayValue(Name("v"))}, else \in {NoNode, Say(2)}}
     \cup {Loop(Block(<<Say(1)>>), One), Loop(Block(<<Say(1), Transfer("break", NoLabel)>>), NoNode),
           In("o", "i", Upto(2), Block(<<SayValue(Name("o")), SayValue(Name("i"))>>)),
           In("_", "_", Two, Say(1)), Spawn, Transfer("yield", NoLabel),
           If(One, Try(Block(<<Say(1), Raise>>)), NoNode),
           Set("x", One), Swap(Name("x"), Name("y")),
           Cfor("i", Lit(Bool(TRUE)), Name("i"), NoNode, Set("i", Lit(Bool(FALSE)))),
           Cfor("i", Lit(Bool(TRUE)), Name("i"), Set("i", Lit(Num(0))), Transfer("continue", NoLabel)),
           Cfor("i", Lit(Bool(TRUE)), Name("i"), Name("i"), Say(1)),
           Loop(Block(<<Say(1), Transfer("continue", NoLabel)>>), Lit(Bool(TRUE)))}
     \cup {Match(v, <<Arm(One, Say(1)), Arm(Name("y"), Say(2)), Arm(g, Say(3)), Arm(last, Say(4))>>) :
             v \in {One, Two, Nothing},
             g \in {Is(Cast(TRUE), "cast", "_"), Is(Cast(FALSE), "cast", "_"), Cast(TRUE), Nothing},
             last \in {Name("_"), Name("main")}}}
  \cup {<<Main(<<Var("x", One), Var("y", Lit(Num(0))), st, SayValue(Name("x")), SayValue(Name("y"))>>)>> : st \in
     {While(Name("x"), Transfer("break", NoLabel)), Swap(Name("x"), Name("y")), While(Name("x"), Set("x", Name("y"))),
      CheckIn("v", Call(Lit(Builtin("int.from")), <<Name("x")>>), Set("x", Cast(FALSE))),
      CheckIn("v", Silence, Say(1)),
      CheckIn("v", Name("x"), Transfer("break", NoLabel)),
      CheckIf("_", Is(Cast(FALSE), "cast", "z"), SayValue(Name("z")), NoNode),
      ExprStmt(Is(Cast(TRUE), "cast", "z")), Guarded(<<Raise>>, "err", <<SayValue(Name("err")), Raise>>),
      Guarded(<<Guarded(<<Raise>>, "_", <<Raise>>)>>, "err", <<SayValue(Name("err"))>>),
      Guarded(<<Raise>>, "_", <<SayValue(Name("_"))>>),
      Guarded(<<Set("x", Member(Name("out"), "println")), ExprStmt(Call(Name("x"), <<Name("y")>>)), Raise>>, "err",
              <<Assign(Member(Name("out"), "println"), "", One), ExprStmt(Call(Member(Name("out"), "println"), <<>>))>>)}}

(* Every operator on the ends of int and uint, on what is small, and on     *)
(* what is no number. *)
Minus(x) == Unary("-", x)
Operands ==
  {Lit(Num(0)), Lit(Num(1)), Lit(Num(2)), Lit(Num(Half - 1)), Minus(Lit(Num(1))), Minus(Lit(Uint(Half))),
   Call(Lit(Builtin("uint.from")), <<Lit(Num(1))>>), Lit(Uint(2 * Half - 1))}
Others == {Lit(Bool(TRUE)), Lit(Text("")), Lit(Text("1")), Cast(FALSE), Nothing}

Comparisons == {"==", "!=", "<", "<=", ">", ">="}
AllOps == Arithmetic \cup Shifts \cup BitOps \cup Ranges \cup Comparisons \cup {"&&", "||", "??"}

Shows(x) == <<Main(<<SayValue(x)>>)>>

OperatorPrograms ==
  {Shows(Bin(op, a, b)) : op \in AllOps, a \in Operands, b \in Operands}
  \cup {Shows(Bin(op, a, b)) : op \in {"+", "==", "<", "&&", "||", "??", "..<"}, a \in Others, b \in Others \cup {Lit(Num(1))}}
  \cup {Shows(Unary(op, a)) : op \in {"-", "!", "~"}, a \in Operands \cup (Others \ {Nothing})}
  \cup {Shows(Unary("!", a)) : a \in {Upto(1), Bin("..<", Lit(Num(1)), Lit(Num(1))), Name("main")}}
  \cup {Shows(Call(Lit(Builtin(tag)), <<a>>)) : tag \in Casts, a \in Operands \cup Others}

(* Two names of one array, or of an array and a slice of it; an element is *)
(* written through one of them. *)
Elems(ch)   == InitList([i \in DOMAIN ch |-> NoName], ch)
Three       == Elems(<<Lit(Num(3)), Lit(Num(4)), Lit(Num(5))>>)
At0(x)      == Index(x, Lit(Num(0)))
Indices     == {Minus(One), Lit(Num(0)), Lit(Num(2)), Lit(Num(3)), Lit(Bool(TRUE)), Cast(FALSE)}
Bounds      == {NoNode, Minus(One), Lit(Num(0)), Lit(Num(1)), Lit(Num(3)), Lit(Num(4)), Lit(Bool(TRUE))}
Both        == <<SayValue(Name("x")), SayValue(Name("y"))>>

ArrayPrograms ==
  {<<Main(<<Var("x", Three), Var("y", y), st>> \o Both)>> :
     y \in {Name("x"), Slice(Name("x"), NoNode, NoNode)},
     st \in {Assign(Index(Name("y"), i), op, Lit(Num(2))) : i \in Indices, op \in {"", "+", "/", "<<", "|"}}
            \cup {Swap(At0(Name("y")), Index(Name("x"), i)) : i \in Indices}
            \cup {In("o", "i", Name("x"), Block(<<Assign(Index(Name("y"), Lit(Num(2))), "+", Name("o")), SayValue(Name("i"))>>)),
                  Assign(Member(Name("y"), "length"), "", One), Assign(Cast(TRUE), "", One),
                  Assign(At0(At0(Name("y"))), "", One), Set("y", Three),
                  Assign(At0(Name("y")), "", Name("z"))}}
  \cup {<<Main(<<Var("x", Three), Var("y", Slice(Name("x"), lo, hi))>> \o Both)>> : lo \in Bounds, hi \in Bounds}
  \cup {<<Main(<<Var("x", x), SayValue(y)>>)>> :
          x \in {Three, One, Elems(<<>>), Elems(<<Three, One>>), Cast(FALSE)},
          y \in {Index(Name("x"), i) : i \in Indices} \cup {Slice(Name("x"), Cast(TRUE), One)}}
  \cup {<<Main(<<Var("x", x), SayValue(y)>>)>> :
          x \in {Three, One, Elems(<<>>), Elems(<<Three, One>>), Cast(FALSE), Lit(Text("1")), Lit(Text(""))},
          y \in {Member(Name("x"), "length"), Member(Name("x"), "message"), Name("x"), Unary("!", Name("x"))}}
  \cup {<<Main(<<Var("x", Elems(<<Three, Three>>)), Var("y", At0(Name("x"))),
                 Var("f", Closure(<<Set("x", Elems(<<One>>)), ExprStmt(Lit(Num(9)))>>)),
                 st>> \o Both)>> :
           st \in {Assign(At0(At0(Name("x"))), op, Call(Name("f"), <<>>)) : op \in {"", "-"}}
                 \cup {Assign(Index(At0(Name("x")), Call(Name("f"), <<>>)), "", One),
                       Swap(Index(Name("x"), One), At0(Name("y"))), Set("y", Slice(Name("x"), Call(Name("f"), <<>>), NoNode)),
                       Assign(At0(Name("x")), "", Unwrap(Cast(FALSE), "!"))}}

(* Records: of a struct type, with items that name a field and items that   *)
(* do not, and those that an initializer makes by itself. *)
Point  == StructDecl("Point", <<[nm |-> "a", ty |-> Fund("int")], [nm |-> "b", ty |-> Fund("bool")],
                                [nm |-> "c", ty |-> Fund("string")], [nm |-> "d", ty |-> Fund("error")]>>)
Repeated == StructDecl("Point", <<[nm |-> "z", ty |-> Fund("int")]>>)
Items  == {"a", "c", "z", NoName}
Inits  == {InitList(names, [i \in DOMAIN names |-> Lit(Num(i))]) : names \in {<<>>} \cup [1 .. 2 -> Items]}
OfInit(init) == NoName \notin {init.names[i] : i \in DOMAIN init.names} \/ \A i \in DOMAIN init.names : init.names[i] = NoName

RecordPrograms ==
  {<<Point, Repeated, Main(<<st, SayValue(Name("x"))>>)>> :
     st \in UNION {{Var("x", StructLit("Point", init)), VarOf("x", Named("Point"), init)} : init \in Inits}
           \cup {VarOf("x", Named("Line"), init) : init \in Inits} \cup {Var("x", init) : init \in {i \in Inits : OfInit(i)}}
           \cup {VarOf("x", Named("Point"), NoNode), VarOf("x", Fund("bool"), NoNode), VarOf("x", Fund("int"), One),
                 VarOf("x", Fund("int"), Elems(<<One>>)), Var("x", StructLit("Line", Elems(<<One>>))),
                 Var("x", StructLit("Point", Elems(<<One, One, One, One, One>>)))}}
  \cup {<<Main(<<Var("x", InitList(<<"a", "b">>, <<One, Lit(Num(2))>>)), Var("y", Name("x")), st>> \o Both)>> :
          st \in {Assign(Member(Name("y"), nm), op, Lit(Num(2))) : nm \in {"a", "z"}, op \in {"", "-"}}
                \cup {Swap(Member(Name("x"), "a"), Member(Name("y"), "b")),
                      SayValue(Member(Name("y"), "b")), SayValue(Member(Name("y"), "z")), Swap(Name("x"), Name("z")),
                      Swap(Name("z"), Name("x"))}}

(* Enums, what is declared and not run, and ranges as loops count them. *)
Colors == EnumDecl(<<"red", "green">>)

OtherPrograms ==
  {<<Import, Colors, Main(<<Match(x, <<Arm(pat, Say(1)), Arm(Call(Name("red"), <<One>>), Say(2)), Arm(Name("_"), Say(3))>>)>>)>> :
     x \in {Name("red"), Name("green"), One}, pat \in {Name("green"), Name("_"), Call(Name("green"), <<>>)}}
  \cup {<<Main(<<In("o", "i", Bin(op, lo, hi), Block(<<SayValue(Name("i")), If(Bin("==", Name("o"), Lit(Num(Half - 1))), Transfer("break", NoLabel), NoNode)>>)), Say(9)>>)>> :
          op \in Ranges, lo \in {Lit(Num(0)), Minus(One), Lit(Num(Half - 2))}, hi \in {One, Lit(Num(Half - 1)), Minus(One)}}
  \cup {<<Colors, Main(<<SayValue(Bin("==", Name("red"), Name("red")))>>)>>, <<Main(<<Say(1), Swap(One, Name("x"))>>)>>}

(* What shows the points of OlgMeaning; the last one ends the program.     *)
Reads(nm, ok) == Var(nm, Unwrap(Cast(ok), "!"))
Difference(point, ch) == [point |-> point, body |-> ch]

Differences ==
  << Difference("order",    <<Defer(Say(1)), Defer(Say(2))>>),
     Difference("exits",    <<Block(<<Var("x", Two), Defer(SayValue(Name("x"))), ReturnStmt(NoNode)>>)>>),
     Difference("failures", <<Guarded(<<Reads("x", TRUE), Defer(Say(1)), Try(Reads("y", FALSE))>>, "err", <<Say(8)>>)>>),
     Difference("try",      <<Guarded(<<Var("x", Cast(FALSE)), SayValue(Name("x"))>>, "err", <<Say(8)>>)>>),
     Difference("labels",   <<Label("outer", Twice(Block(<<Say(1), Twice(Transfer("continue", "outer"))>>)))>>),
     Difference("ordinals", <<In("o", "i", Bin("..<", Two, Lit(Num(4))), SayValue(Name("o")))>>),
     Difference("slices",   <<Var("x", Three), SayValue(Slice(Name("x"), NoNode, One))>>),
     Difference("branches", <<CheckIf("v", Cast(TRUE), NoNode, Say(2))>>),
     Difference("bodies",   <<ExprStmt(Call(FuncExpr(<<>>, FALSE, Block(<<Say(1)>>)), <<>>))>>),
     Difference("shifts",   <<SayValue(Bin(">>~", One, One))>>),
     Difference("equality", <<SayValue(Bin("==", Lit(Bool(TRUE)), Lit(Bool(TRUE))))>>) >>

Points == {Differences[i].point : i \in DOMAIN Differences}

(* Each in a function of its own, around which x is 1. *)
Tour == <<Var("x", One), Main([i \in DOMAIN Differences |-> ExprStmt(Call(Closure(Differences[i].body), <<>>))])>>
TourOnly == {Tour}

MCPrograms ==
  NestedPrograms \cup FunctionPrograms \cup LeakPrograms \cup ControlPrograms
  \cup OperatorPrograms \cup ArrayPrograms \cup RecordPrograms \cup OtherPrograms \cup TourOnly
-----------------------------------------------------------------------------
(* A program that the recursion guard does not stop does what its tree     *)
(* means, by the rules that the code follows: the marks into the list of   *)
(* deferred statements, the saved fields, the catch frames and longjmp     *)
(* bring about what functions from states to states, with environments as  *)
(* arguments and exact arithmetic, give (exec.c:1624-1629, 1686-1720,      *)
(* 1988-2048).                                                             *)
RunsAsWritten ==
  Over /\ outcome.msg \notin {"recursion limit exceeded", "stray child"} =>
    Code!Means(program) = [outcome |-> outcome, output |-> output]

(* And at one point at least it does what the documents say.  The tour is  *)
(* no such program: it comes to every point, and by RunsAsWritten it does  *)
(* at each what exec.c does, which is something else.                      *)
RunsAsDocumented ==
  Over /\ outcome.msg \notin {"recursion limit exceeded", "stray child"} =>
    \E point \in Points :
      Written(point)!Means(program) = [outcome |-> outcome, output |-> output]

(* Every program ends: the guard stops a recursion (exec.c:1238, 1725).    *)
RunEnds == <>Over
=============================================================================
