-------------------------------- MODULE Ast --------------------------------
(***************************************************************************)
(* The abstract syntax tree (ast.h, ast.c).  A tree is the sequence of its *)
(* nodes in the order they were allocated: a node comes after its          *)
(* children, the root is last, and the position of a node stands for its   *)
(* address; 0 is NULL.  Of a node the model keeps its kind (a NODE_STMT is *)
(* told by its stmt_tok), its children, its height, and the literal, name  *)
(* or operator in it.                                                      *)
(***************************************************************************)
EXTENDS Integers, SequencesExt

NULL == 0

Root(ast) == Len(ast)

(* The height of a child, or of an else_arm that is not there. *)
HeightOf(ast, n) == IF n = NULL THEN 0 ELSE ast[n].height

(* The nodes of a part that come after `base` others.                      *)
Moved(part, base) ==
  [n \in DOMAIN part |->
     [part[n] EXCEPT !.kids = [k \in DOMAIN @ |-> IF @[k] = NULL THEN NULL ELSE @[k] + base]]]

(* What a constructor makes of trees; an empty one stands for a NULL.      *)
Make(kind, val, parts) ==
  LET joined[i \in 0 .. Len(parts)] ==
        IF i = 0 THEN <<>>
        ELSE LET nodes == joined[i - 1] IN nodes \o Moved(parts[i], Len(nodes))
      heights == {HeightOf(parts[i], Root(parts[i])) : i \in DOMAIN parts}
  IN  Append(joined[Len(parts)],
             [ kind |-> kind, val |-> val, height |-> 1 + Max({0} \cup heights),
               kids |-> [i \in DOMAIN parts |->
                           IF parts[i] = <<>> THEN NULL ELSE Len(joined[i])] ])

Id(name)           == Make("id", name, <<>>)
Value(v)           == Make("value", v, <<>>)
Expr(op, l, r)     == Make("expr", op, <<l, r>>)
UExpr(op, e)       == Make("uexpr", op, <<e>>)
If(c, t, e)        == Make("if", "if", <<c, t, e>>)
IfExpr(c, t, e)    == Make("ifexpr", "if", <<c, t, e>>)
Echo(e)            == Make("echo", "echo", <<e>>)
Define(name, e)    == Make("define", ":=", <<Id(name), e>>)
Assign(l, e)       == Make("assign", "=", <<l, e>>)
Block(stmts)       == Make("block", "", stmts)
-----------------------------------------------------------------------------
Booleans == {"true", "false"}  \* the literals that are VK_BOOL

Kinds == {"id", "value", "expr", "uexpr", "if", "ifexpr", "echo", "define", "assign", "block"}

Arity(kind) ==
  CASE kind \in {"id", "value"}              -> {0}
    [] kind \in {"uexpr", "echo"}            -> {1}
    [] kind \in {"expr", "define", "assign"} -> {2}
    [] kind \in {"if", "ifexpr"}             -> {3}
    [] OTHER                                 -> Nat

(* What the constructors establish, and the reducers that call them: a     *)
(* child is there unless it is the else_arm of an if, it was made before   *)
(* its parent, it is lower, and every node but the root has one parent.    *)
IsTree(ast) ==
  /\ Len(ast) \in Nat \ {0} /\ DOMAIN ast = 1 .. Len(ast)
  /\ \A n \in DOMAIN ast :
       /\ ast[n].kind \in Kinds
       /\ ast[n].height \in Nat \ {0}
       /\ Len(ast[n].kids) \in Arity(ast[n].kind)
       /\ DOMAIN ast[n].kids = 1 .. Len(ast[n].kids)
       /\ \A k \in DOMAIN ast[n].kids :
            LET kid == ast[n].kids[k]
            IN  /\ kid \in 0 .. n - 1
                /\ kid = NULL => ast[n].kind \in {"if", "ifexpr"} /\ k = 3
                /\ HeightOf(ast, kid) < ast[n].height
                /\ ast[n].kind = "define" /\ k = 1 => ast[kid].kind = "id"
  /\ \A m \in 1 .. Len(ast) - 1 :
       \E n \in DOMAIN ast : \E k \in DOMAIN ast[n].kids : ast[n].kids[k] = m
  /\ \A m, n \in DOMAIN ast : \A k \in DOMAIN ast[m].kids, l \in DOMAIN ast[n].kids :
       ast[m].kids[k] = ast[n].kids[l] /\ ast[m].kids[k] # NULL => m = n /\ k = l

Yielding == {"id", "value", "expr", "uexpr", "ifexpr"}

(* Whether a value stands where the kth child of a node does: not as a     *)
(* statement of a block, and not as an arm of an if-statement.             *)
TakesValue(kind, k) == kind # "block" /\ (kind = "if" => k = 1)

(* A value stands just where one is used, and what is assigned to has a    *)
(* name.  The parser builds other trees, too: both arms of an if of either *)
(* sort may be anything.                                                   *)
IsWellSorted(ast) ==
  /\ ast[Root(ast)].kind \notin Yielding
  /\ \A n \in DOMAIN ast : \A k \in DOMAIN ast[n].kids :
       LET kid == ast[n].kids[k]
       IN  /\ (kid # NULL /\ ast[kid].kind \in Yielding) <=> TakesValue(ast[n].kind, k)
           /\ ast[n].kind = "assign" /\ k = 1 => ast[kid].kind = "id"
=============================================================================
