------------------------------ MODULE OlgTree ------------------------------
(***************************************************************************)
(* The values and the nodes (parser.h, exec.h, exec.c of bootstrap-olg)    *)
(* that the model of exec.c runs.  A node is a record with its kind in k,  *)
(* and its operands in ch, in the order they are evaluated in.             *)
(* A text is "" or "1", which reads as a number, or "x", which does not;   *)
(* int.from and the like, members in the language, are literals here.  A   *)
(* name that is left out is "_", a statement or an expression NoNode.  The *)
(* parser leaves no hole for what is left out: what is behind it moves to  *)
(* its place, and a Slice, a FuncExpr and a CheckIf are what is then found *)
(* at the places where exec.c looks.  What was written stays beside it     *)
(* (low, written, bare): exec.c does not know of it.                       *)
(***************************************************************************)
EXTENDS Integers, Sequences

Void       == [k |-> "V_VOID"]
Num(n)     == [k |-> "V_INT", i |-> n]
Uint(n)    == [k |-> "V_UINT", u |-> n]
Bool(b)    == [k |-> "V_BOOL", b |-> b]
Text(s)    == [k |-> "V_STR", str |-> s]
Err(name)  == [k |-> "V_ERR", name |-> name]
Enum(name, tag) == [k |-> "V_ENUM", name |-> name, tag |-> tag]
Span(lo, hi, desc, incl) == [k |-> "V_RANGE", lo |-> lo, hi |-> hi, desc |-> desc, incl |-> incl]
User(params, body, closure) ==
  [k |-> "V_FUNC", kind |-> "F_USER", params |-> params, body |-> body, closure |-> closure]
Builtin(tag) == [k |-> "V_FUNC", kind |-> "F_BUILTIN", tag |-> tag]

(* An array and a record are the address of their cells; a copy shares them. *)
Arr(at)    == [k |-> "V_ARR", at |-> at]
Rec(at)    == [k |-> "V_REC", at |-> at]

(* The global environment: the module out, whose functions are in 2. *)
GlobalEnvs ==
  << [parent |-> 0, b |-> <<[nm |-> "out", v |-> Rec(2)]>>],
     [parent |-> 0, b |-> <<[nm |-> "println", v |-> Builtin("println")]>>] >>

NoNode  == [k |-> "NULL"]
NoLabel == "NULL"
NoName  == "NULL"

Lit(v)                   == [k |-> "N_LIT", v |-> v]
Name(nm)                 == [k |-> "N_NAME", nm |-> nm]
Bin(op, a, b)            == [k |-> "N_BIN", op |-> op, ch |-> <<a, b>>]
Unary(op, x)             == [k |-> "N_UNARY", op |-> op, ch |-> <<x>>]
Member(x, nm)            == [k |-> "N_MEMBER", ch |-> <<x>>, nm |-> nm]
Index(x, ix)             == [k |-> "N_INDEX", ch |-> <<x, ix>>]
(* x[:h] is x[h:]. *)
Slice(x, lo, hi) ==
  [k |-> "N_SLICE", ch |-> SelectSeq(<<x, lo, hi>>, LAMBDA b : b # NoNode), low |-> lo # NoNode]
Call(f, args)            == [k |-> "N_CALL", ch |-> <<f>> \o args]
Unwrap(x, op)            == [k |-> "N_UNWRAP", ch |-> <<x>>, op |-> op]
Is(x, kind, nm)          == [k |-> "N_IS", ch |-> <<x>>, kind |-> kind, nm |-> nm]
(* With a type, ret, of its result, or without: then it has no body. *)
FuncExpr(params, ret, body) ==
  [k |-> "N_FUNC_EXPR", params |-> params, body |-> IF ret THEN body ELSE NoNode, written |-> body]
(* NoName for an item without a name; but for a struct, all have one or none. *)
InitList(names, ch)      == [k |-> "N_INIT", names |-> names, ch |-> ch]
StructLit(nm, init)      == [k |-> "N_STRUCT_LIT", nm |-> nm, names |-> init.names, ch |-> init.ch]

Block(ch)                == [k |-> "N_BLOCK", ch |-> ch]
List(ch)                 == [k |-> "N_LIST", ch |-> ch]
ExprStmt(x)              == [k |-> "N_EXPR_STMT", x |-> x]
Var(nm, x)               == [k |-> "N_VAR", nm |-> nm, ty |-> NoNode, x |-> x] \* nm := x
VarOf(nm, ty, x)         == [k |-> "N_VAR", nm |-> nm, ty |-> ty, x |-> x]
Assign(lv, op, x)        == [k |-> "N_ASSIGN", lv |-> lv, op |-> op, x |-> x] \* lv op= x, op "" for =
Swap(a, b)               == [k |-> "N_SWAP", a |-> a, b |-> b]
If(x, then, else)        == [k |-> "N_IF", x |-> x, then |-> then, else |-> else]
(* The else of a CheckIf that has no then is its then. *)
CheckIf(nm, x, then, else) ==
  [k |-> "N_CHECK_IF", nm |-> nm, x |-> x, then |-> IF then = NoNode THEN else ELSE then,
   else |-> IF then = NoNode THEN NoNode ELSE else, bare |-> then = NoNode]
Loop(body, until)        == [k |-> "N_LOOP", x |-> NoNode, body |-> body, until |-> until]
While(x, body)           == [k |-> "N_LOOP", x |-> x, body |-> body, until |-> NoNode]
Cfor(nm, init, x, post, body) ==
  [k |-> "N_CFOR", nm |-> nm, init |-> init, x |-> x, post |-> post, body |-> body]
In(ord, nm, x, body)     == [k |-> "N_IN_CLAUSE", ord |-> ord, nm |-> nm, x |-> x, body |-> body]
CheckIn(nm, x, body)     == [k |-> "N_CHECK_IN", nm |-> nm, x |-> x, body |-> body]
Match(x, arms)           == [k |-> "N_MATCH", x |-> x, arms |-> arms] \* [pat, body], one pattern each
Try(st)                  == [k |-> "N_TRY", st |-> st]
Defer(st)                == [k |-> "N_DEFER", st |-> st]
Region(regs, nm, handlers) ==
  [k |-> "N_REGION", regs |-> regs, nm |-> nm, handlers |-> handlers]
ReturnStmt(x)            == [k |-> "N_RETURN", x |-> x]
Transfer(op, label)      == [k |-> "N_TRANSFER", op |-> op, label |-> label]
Label(nm, st)            == [k |-> "N_LABEL", nm |-> nm, st |-> st]
Spawn                    == [k |-> "N_SPAWN"] \* one of what is not executable

Param(nm, dflt)          == [nm |-> nm, dflt |-> dflt]
FuncDecl(nm, params, body) ==
  [k |-> "N_FUNC_DECL", nm |-> nm, params |-> params, body |-> body]
StructDecl(nm, fields)   == [k |-> "N_STRUCT_DECL", nm |-> nm, fields |-> fields] \* [nm, ty]
EnumDecl(members)        == [k |-> "N_ENUM_DECL", members |-> members]
Import                   == [k |-> "N_IMPORT"] \* one of what is accepted and not run

Fund(nm)                 == [k |-> "N_TFUND", nm |-> nm]
Named(nm)                == [k |-> "N_TNAMED", nm |-> nm]

(* What exec_stmt has a case for. *)
Statements ==
  { "N_BLOCK", "N_LIST", "N_EXPR_STMT", "N_VAR", "N_ASSIGN", "N_SWAP", "N_IF", "N_CHECK_IF",
    "N_LOOP", "N_CFOR", "N_IN_CLAUSE", "N_CHECK_IN", "N_MATCH", "N_TRY", "N_DEFER", "N_REGION",
    "N_RETURN", "N_TRANSFER", "N_LABEL" }

(* val_truth: what a condition may be, and is. *)
Usable(v) == v.k \in {"V_BOOL", "V_INT", "V_UINT", "V_STR", "V_ERR"}
Truth(v) ==
  \/ v.k = "V_BOOL" /\ v.b
  \/ v.k = "V_INT"  /\ v.i # 0
  \/ v.k = "V_UINT" /\ v.u # 0
  \/ v.k = "V_STR"  /\ v.str # ""

(* val_eq *)
Comparable(v) == v.k \in {"V_BOOL", "V_INT", "V_UINT", "V_STR", "V_ENUM", "V_ERR"}

(* zero_value *)
ZeroValue(ty) ==
  CASE ty = Fund("bool")   -> Bool(FALSE)
    [] ty = Fund("string") -> Text("")
    [] ty = Fund("error")  -> Err("")
    [] OTHER               -> Num(0)

=============================================================================
