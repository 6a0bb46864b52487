------------------------------ MODULE OlgExec ------------------------------
(***************************************************************************)
(* The interpreter of the prototype (bootstrap-olg/exec.c): how statements *)
(* and expressions run on the C stack, with the fields of Exec that blocks *)
(* and calls save and put back, the list of deferred statements, and the   *)
(* longjmp of a raised error to the innermost guarded region.              *)
(*                                                                         *)
(* A frame of the C stack is a record: the function, its node, where it    *)
(* is, and its locals.  One action runs a function up to its next call.    *)
(* Floats, bytes and chars are left out, and texts are not taken apart.    *)
(*                                                                         *)
(* A definition marked "Mistake" is the one that follows it with a bug the *)
(* code could well have; nothing uses it but the check of the properties.  *)
(***************************************************************************)
EXTENDS OlgOperators, Sequences, SequencesExt

CONSTANTS
  Programs, \* the programs: sequences of top-level items
  FirstCap, \* the bindings an Env first has room for
  MaxDepth  \* depth_max

ASSUME OlgSizesAssumption == FirstCap \in Nat \ {0} /\ MaxDepth \in Nat \ {0}

VARIABLES
  program,
  e,       \* Exec: cur, flow, label, ret, catch_ (the place of its frame),
           \*   defers (with nd of them), depth, styp
  envs,    \* the environments, arrays and records ever made, by their address
  stack,   \* the C stack
  value,   \* what the function that returned last returned
  output,  \* what was printed
  outcome  \* exit code and diagnostic of exec_run

vars == <<program, e, envs, stack, value, output, outcome>>

Running == [code |-> 0, msg |-> "running"]
Global  == 1

NoCell == [env |-> 0, i |-> 0, cap |-> 0]

Frame(fn, node) ==
  [ fn |-> fn, node |-> node, at |-> "enter", i |-> 0, v |-> Void, vals |-> <<>>,
    cell |-> NoCell, own |-> 0, saved |-> 0, mark |-> 0, prev |-> 0, deep |-> 0 ]

(* The global environment has the module out, a record. *)
Init ==
  /\ program \in Programs
  /\ e = [ cur |-> Global, flow |-> "FL_NONE", label |-> NoLabel, ret |-> Void,
           catch_ |-> 0, defers |-> <<>>, depth |-> 0, styp |-> <<>> ]
  /\ envs = GlobalEnvs
  /\ stack = <<Frame("exec_run", [k |-> "N_FILE", ch |-> program])>>
  /\ value = Void /\ output = <<>> /\ outcome = Running
-----------------------------------------------------------------------------
Top == Last(stack)

On(fn, at)   == outcome = Running /\ Top.fn = fn /\ Top.at = at
Expr(k, at)  == On("eval", at) /\ Top.node.k = k
Stmt(k, at)  == On("exec_stmt", at) /\ Top.node.k = k

Quiet == UNCHANGED <<envs, output, outcome>>

(* The top frame becomes f, Exec becomes x. *)
Becomes(f, x) == stack' = Append(Front(stack), f) /\ e' = x /\ UNCHANGED <<program, value>>

Calls(f, x, fn, node) ==
  stack' = Front(stack) \o <<f, Frame(fn, node)>> /\ e' = x /\ UNCHANGED <<program, value>>

Returns(x, v) == stack' = Front(stack) /\ e' = x /\ value' = v /\ UNCHANGED program

(* The end of eval and of exec_stmt. *)
Leaves(x, v) == Returns([x EXCEPT !.depth = @ - 1], v)

(* vfail: longjmp to exec_run, which returns -1. *)
Fails(msg) ==
  /\ outcome' = [code |-> -1, msg |-> msg] /\ stack' = <<>>
  /\ UNCHANGED <<program, e, envs, value, output>>

Evals(x, at)    == Calls([Top EXCEPT !.at = at], e, "eval", x) /\ Quiet
Runs(st, at)    == Calls([Top EXCEPT !.at = at], e, "exec_stmt", st) /\ Quiet

(* The statements of a list, as long as they run on. *)
More(ch)   == Top.i < Len(ch) /\ e.flow = "FL_NONE"
RunsOne(ch) == Calls([Top EXCEPT !.i = @ + 1], e, "exec_stmt", ch[Top.i + 1]) /\ Quiet
LastValue  == IF Top.i = 0 THEN Void ELSE value

(* eval and exec_stmt: the depth, and the shield of a pending flow. *)
Enter ==
  /\ On("eval", "enter") \/ On("exec_stmt", "enter")
  /\ IF e.depth + 1 > MaxDepth THEN Fails("recursion limit exceeded")
     ELSE IF e.flow # "FL_NONE" THEN Returns(e, Void) /\ Quiet
     ELSE Becomes([Top EXCEPT !.at = "begin"], [e EXCEPT !.depth = @ + 1]) /\ Quiet
-----------------------------------------------------------------------------
(* env_new, env_bind and env_lookup. *)
NewEnv(parent) == Append(envs, [parent |-> parent, b |-> <<>>])

EnvBind(es, env, nm, v) == [es EXCEPT ![env].b = Append(@, [nm |-> nm, v |-> v])]

BoundIn(es, env, nm, v) == IF nm = "_" THEN es ELSE EnvBind(es, env, nm, v)

Binds(nm, v) == envs' = BoundIn(envs, e.cur, nm, v) /\ UNCHANGED <<output, outcome>>

(* The newest binding of a name from an environment outwards. *)
Found(env, nm) ==
  LET find[a \in 0 .. Len(envs)] ==
        IF a = 0 THEN NoCell
        ELSE LET hits == {i \in DOMAIN envs[a].b : envs[a].b[i].nm = nm}
             IN  IF hits = {} THEN find[envs[a].parent]
                 ELSE [env |-> a, i |-> Max(hits), cap |-> 0]
  IN  find[env]

Known(nm)  == Found(e.cur, nm) # NoCell
At(cell)   == envs[cell.env].b[cell.i].v
Lookup(nm) == At(Found(e.cur, nm))

(* The room for the bindings doubles: they move to a new array. *)
Cap(env) ==
  Min({FirstCap * 2^k : k \in {k \in 0 .. Len(envs[env].b) : FirstCap * 2^k >= Len(envs[env].b)}})

(* The address of a cell, and a write to one in an array of bindings that  *)
(* has been left for a larger one: it is lost.  (What such an array still  *)
(* holds is taken to be what the larger one does.) *)
CellOf(env, i) == [env |-> env, i |-> i, cap |-> Cap(env)]

Put(es, cell, v) ==
  IF Cap(cell.env) = cell.cap THEN [es EXCEPT ![cell.env].b[cell.i].v = v] ELSE es
-----------------------------------------------------------------------------
(* eval *)
EvalLit == Expr("N_LIT", "begin") /\ Leaves(e, Top.node.v) /\ Quiet

EvalName ==
  /\ Expr("N_NAME", "begin")
  /\ IF Known(Top.node.nm) THEN Leaves(e, Lookup(Top.node.nm)) /\ Quiet ELSE Fails("unknown name")

(* The operands of an expression, of an assigned place and of an           *)
(* initializer are evaluated from left to right, and kept in vals. *)
Composite == {"N_BIN", "N_UNARY", "N_MEMBER", "N_CALL", "N_INDEX", "N_SLICE", "N_UNWRAP", "N_IS"}
Builders  == {"init_value", "arr_build", "rec_build"}

Collecting ==
  /\ outcome = Running
  /\ \/ Top.fn = "eval" /\ Top.at = "begin" /\ Top.node.k \in Composite
     \/ Top.fn = "lvalue_cell" /\ Top.at = "enter" /\ Top.node.k \in {"N_MEMBER", "N_INDEX"}
     \/ Top.fn \in Builders /\ Top.at = "enter"

AllParts == Len(Top.vals) = Len(Top.node.ch)
Ready(k) == Collecting /\ Top.fn = "eval" /\ Top.node.k = k /\ AllParts

(* The bound of a slice is looked at before the next is evaluated. *)
BadBound == Top.node.k = "N_SLICE" /\ \E i \in DOMAIN Top.vals : i > 1 /\ Top.vals[i].k # "V_INT"

(* The fields of a struct type, and the one that an item of an initializer *)
(* goes to: the one it names, or the next of those that name none. *)
Struct(nm)       == SelectInSeq(e.styp, LAMBDA st : st.nm = nm)
Fields           == e.styp[Struct(Top.node.nm)].fields
FieldIn(fs, nm)  == SelectInSeq(fs, LAMBDA f : f.nm = nm)
Slot(i) ==
  LET nameless == Cardinality({j \in 1 .. i : Top.node.names[j] = NoName})
  IN  IF Top.node.names[i] # NoName THEN FieldIn(Fields, Top.node.names[i])
      ELSE IF nameless <= Len(Fields) THEN nameless ELSE 0

(* What rec_build does not take. *)
Misfit ==
  /\ Top.fn = "rec_build"
  /\ IF Struct(Top.node.nm) = 0 THEN TRUE ELSE ~AllParts /\ Slot(Len(Top.vals) + 1) = 0

EvalPart ==
  /\ Collecting /\ ~AllParts /\ ~BadBound /\ ~Misfit
  /\ Evals(Top.node.ch[Len(Top.vals) + 1], "part")

TakePart ==
  /\ outcome = Running /\ Top.at = "part"
  /\ Becomes([Top EXCEPT !.at = IF Top.fn = "eval" THEN "begin" ELSE "enter",
                         !.vals = Append(@, value)], e)
  /\ Quiet

PartMisfits ==
  /\ Collecting
  /\ \/ BadBound /\ Fails("slice bound must be an int")
     \/ Misfit /\ Fails("no such field")

Settles(v) == IF v.k = "fault" THEN Fails(v.msg) ELSE Leaves(e, v) /\ Quiet

EvalBin   == Ready("N_BIN") /\ Settles(Binary(Top.node.op, Top.vals[1], Top.vals[2]))
EvalUnary == Ready("N_UNARY") /\ Settles(UnaryOf(Top.node.op, Top.vals[1]))

Cells(v) == envs[v.at].b

EvalMember ==
  /\ Ready("N_MEMBER")
  /\ LET base == Top.vals[1]
         nm   == Top.node.nm
     IN  Settles(
           CASE base.k = "V_REC" /\ FieldIn(Cells(base), nm) # 0 -> Cells(base)[FieldIn(Cells(base), nm)].v
             [] base.k = "V_STR" /\ nm = "length"  -> Num(IF base.str = "" THEN 0 ELSE 1)
             [] base.k = "V_ARR" /\ nm = "length"  -> Num(Len(Cells(base)))
             [] base.k = "V_ERR" /\ nm = "message" -> Text(IF base.name = "" THEN "" ELSE "x")
             [] OTHER                              -> Fault("no such member"))

Inside(v, i) == i >= 0 /\ i < Len(Cells(v))

(* Of an array; a text is not indexed here. *)
EvalIndex ==
  /\ Ready("N_INDEX")
  /\ LET base == Top.vals[1]
         ix   == Top.vals[2]
     IN  Settles(
           IF ix.k # "V_INT" THEN Fault("index must be an int")
           ELSE IF base.k # "V_ARR" THEN Fault("cannot index")
           ELSE IF Inside(base, ix.i) THEN Cells(base)[ix.i + 1].v
           ELSE Fault("index out of bounds"))

(* A new array, or a new record, and the end of the function with it. *)
Makes(cells) ==
  /\ envs' = Append(envs, [parent |-> 0, b |-> cells]) /\ UNCHANGED <<output, outcome>>

Address == Len(envs) + 1

(* Of an array, to a new one; a text is not sliced here. *)
EvalSlice ==
  /\ Ready("N_SLICE") /\ ~BadBound
  /\ LET base == Top.vals[1]
         n    == Len(Cells(base))
         l    == Max({0, IF Len(Top.vals) > 1 THEN Top.vals[2].i ELSE 0})
         h    == Min({n, IF Len(Top.vals) > 2 THEN Top.vals[3].i ELSE n})
     IN  IF base.k # "V_ARR" THEN Fails("cannot slice")
         ELSE IF l > h \/ h < 0 THEN Fails("bad slice bounds")
         ELSE Leaves(e, Arr(Address)) /\ Makes(SubSeq(Cells(base), l + 1, h))

(* Initializers: init_value makes what its items look like, arr_build an   *)
(* array, rec_build a record of a struct type. *)
EvalInit ==
  /\ Expr("N_INIT", "begin") \/ Expr("N_STRUCT_LIT", "begin")
  /\ Calls([Top EXCEPT !.at = "out"], e,
           IF Top.node.k = "N_INIT" THEN "init_value" ELSE "rec_build", Top.node)
  /\ Quiet

Elements == [i \in DOMAIN Top.vals |-> [nm |-> NoName, v |-> Top.vals[i]]]
NamedCells == [i \in DOMAIN Top.vals |-> [nm |-> Top.node.names[i], v |-> Top.vals[i]]]

(* A field that no item goes to is zero; of two items the last counts. *)
OfStruct ==
  [ j \in DOMAIN Fields |->
      LET items == {i \in DOMAIN Top.vals : Slot(i) = j}
      IN  [nm |-> Fields[j].nm,
           v  |-> IF items = {} THEN ZeroValue(Fields[j].ty) ELSE Top.vals[Max(items)]] ]

Builds(fn) == Collecting /\ AllParts /\ Top.fn = fn

HasNames == \E i \in DOMAIN Top.node.names : Top.node.names[i] # NoName

InitValue ==
  /\ Builds("init_value")
  /\ IF HasNames THEN Returns(e, Rec(Address)) /\ Makes(NamedCells)
     ELSE Returns(e, Arr(Address)) /\ Makes(Elements)

ArrBuild == Builds("arr_build") /\ Returns(e, Arr(Address)) /\ Makes(Elements)

RecBuild ==
  /\ Builds("rec_build") /\ ~Misfit
  /\ Returns(e, Rec(Address)) /\ Makes(OfStruct)

Callee    == Head(Top.vals)
Arguments == Tail(Top.vals)

CallPrint ==
  /\ Ready("N_CALL") /\ Callee = Builtin("println")
  /\ output' = Append(output, [i \in DOMAIN Arguments |-> Printed(envs, Arguments[i])])
  /\ Leaves(e, Void) /\ UNCHANGED <<envs, outcome>>

CallFrom ==
  /\ Ready("N_CALL") /\ Callee \in {Builtin(tag) : tag \in Casts}
  /\ IF Len(Arguments) # 1 THEN Fails("from takes one argument")
     ELSE Leaves(e, From(Callee.tag, Arguments[1])) /\ Quiet

CallUser ==
  /\ Ready("N_CALL") /\ Callee.k = "V_FUNC" /\ Callee.kind = "F_USER"
  /\ stack' = Front(stack) \o <<[Top EXCEPT !.at = "out"],
                                [Frame("invoke_user", Callee) EXCEPT !.vals = Arguments]>>
  /\ UNCHANGED <<program, e, value>> /\ Quiet

CallOther ==
  /\ Ready("N_CALL") /\ Callee.k # "V_FUNC"
  /\ Fails("not a function")

EvalOut == On("eval", "out") /\ Leaves(e, value) /\ Quiet

(* raise: to the region of catch_, in the branch behind its setjmp. *)
(* Mistake: the depth of the functions that are left is not taken back. *)
LandedDeep(x, f) ==
  [x EXCEPT !.catch_ = f.prev, !.cur = f.saved, !.defers = SubSeq(@, 1, f.mark), !.flow = "FL_NONE"]

Landed(x, f) ==
  [x EXCEPT !.catch_ = f.prev, !.cur = f.saved, !.defers = SubSeq(@, 1, f.mark),
            !.depth = f.deep, !.flow = "FL_NONE"]

Raises(err) ==
  IF e.catch_ = 0 THEN Fails("uncaught error")
  ELSE LET f == stack[e.catch_]
       IN  /\ stack' = Append(SubSeq(stack, 1, e.catch_ - 1), [f EXCEPT !.at = "handlers", !.i = 0])
           /\ e' = Landed(e, f)
           /\ envs' = EnvBind(envs, f.saved, f.node.nm, err)
           /\ UNCHANGED <<program, value, output, outcome>>

EvalUnwrap ==
  /\ Ready("N_UNWRAP")
  /\ LET v == Top.vals[1]
     IN  IF v.k # "V_ERR" THEN Leaves(e, v) /\ Quiet
         ELSE IF Top.node.op = "?" THEN Leaves(e, Void) /\ Quiet
         ELSE Raises(v)

EvalIs ==
  /\ Ready("N_IS")
  /\ LET yes == Top.vals[1] = Err(Top.node.kind)
     IN  /\ Leaves(e, Bool(yes))
         /\ IF yes THEN Binds(Top.node.nm, Top.vals[1]) ELSE Quiet

EvalFunc ==
  /\ Expr("N_FUNC_EXPR", "begin")
  /\ Leaves(e, User(Top.node.params, Top.node.body, e.cur)) /\ Quiet
-----------------------------------------------------------------------------
(* exec_stmt *)
StmtBlock ==
  /\ Stmt("N_BLOCK", "begin")
  /\ Calls([Top EXCEPT !.at = "out"], e, "exec_block", Top.node) /\ Quiet

StmtList ==
  /\ Stmt("N_LIST", "begin")
  /\ IF More(Top.node.ch) THEN RunsOne(Top.node.ch) ELSE Leaves(e, LastValue) /\ Quiet

(* The statements that begin with the value of an expression. *)
Subject(node) == IF node.k = "N_CFOR" THEN node.init ELSE node.x

StmtEval ==
  /\ \E k \in {"N_EXPR_STMT", "N_IF", "N_CHECK_IF", "N_CFOR", "N_IN_CLAUSE",
               "N_CHECK_IN", "N_MATCH"} : Stmt(k, "begin")
  /\ Evals(Subject(Top.node), "value")

StmtExpr == Stmt("N_EXPR_STMT", "value") /\ Leaves(e, value) /\ Quiet

(* A declaration: the zero of its type, what an initializer builds, or the *)
(* value of an expression. *)
Builder(node) ==
  IF node.ty = NoNode THEN "init_value"
  ELSE IF node.ty.k = "N_TNAMED" /\ Struct(node.ty.nm) # 0 THEN "rec_build" ELSE "arr_build"

StmtVar ==
  /\ Stmt("N_VAR", "begin")
  /\ LET node == Top.node
     IN  IF node.x = NoNode
         THEN Leaves(e, ZeroValue(node.ty)) /\ Binds(node.nm, ZeroValue(node.ty))
         ELSE IF node.x.k # "N_INIT" THEN Evals(node.x, "value")
         ELSE /\ Calls([Top EXCEPT !.at = "value"], e, Builder(node),
                       IF Builder(node) = "rec_build" THEN StructLit(node.ty.nm, node.x) ELSE node.x)
              /\ Quiet

VarValue == Stmt("N_VAR", "value") /\ Leaves(e, value) /\ Binds(Top.node.nm, value)

(* lvalue_cell: the address of a binding, a field or an element. *)
Finds(lv, f, at) == Calls([f EXCEPT !.at = at], e, "lvalue_cell", lv) /\ Quiet
Gives(env, i)    == Returns(e, CellOf(env, i)) /\ Quiet

LvalueName ==
  /\ On("lvalue_cell", "enter") /\ Top.node.k = "N_NAME"
  /\ IF Known(Top.node.nm)
     THEN LET cell == Found(e.cur, Top.node.nm) IN Gives(cell.env, cell.i)
     ELSE Fails("unknown name")

LvalueMember ==
  /\ Collecting /\ Top.fn = "lvalue_cell" /\ Top.node.k = "N_MEMBER" /\ AllParts
  /\ LET base == Top.vals[1]
     IN  IF base.k # "V_REC" THEN Fails("cannot assign to a member")
         ELSE IF FieldIn(Cells(base), Top.node.nm) = 0 THEN Fails("no such field")
         ELSE Gives(base.at, FieldIn(Cells(base), Top.node.nm))

LvalueIndex ==
  /\ Collecting /\ Top.fn = "lvalue_cell" /\ Top.node.k = "N_INDEX" /\ AllParts
  /\ LET base == Top.vals[1]
         ix   == Top.vals[2]
     IN  IF base.k # "V_ARR" THEN Fails("cannot index-assign")
         ELSE IF ix.k # "V_INT" THEN Fails("index must be an int")
         ELSE IF Inside(base, ix.i) THEN Gives(base.at, ix.i + 1)
         ELSE Fails("index out of bounds")

LvalueOther ==
  /\ On("lvalue_cell", "enter") /\ Top.node.k \notin {"N_NAME", "N_MEMBER", "N_INDEX"}
  /\ Fails("not assignable")

(* An assignment looks for the cell first; the value goes there afterwards. *)
StmtAssign == Stmt("N_ASSIGN", "begin") /\ Finds(Top.node.lv, Top, "cell")

AssignCell ==
  /\ Stmt("N_ASSIGN", "cell")
  /\ Calls([Top EXCEPT !.at = "value", !.cell = value], e, "eval", Top.node.x) /\ Quiet

AssignValue ==
  /\ Stmt("N_ASSIGN", "value")
  /\ LET v == Assigned(Top.node.op, At(Top.cell), value)
     IN  IF v.k = "fault" THEN Fails(v.msg)
         ELSE envs' = Put(envs, Top.cell, v) /\ Leaves(e, Void) /\ UNCHANGED <<output, outcome>>

StmtSwap == Stmt("N_SWAP", "begin") /\ Finds(Top.node.a, Top, "cell")
SwapCell == Stmt("N_SWAP", "cell") /\ Finds(Top.node.b, [Top EXCEPT !.cell = value], "value")

SwapValue ==
  /\ Stmt("N_SWAP", "value")
  /\ envs' = Put(Put(envs, Top.cell, At(value)), value, At(Top.cell))
  /\ Leaves(e, Void) /\ UNCHANGED <<output, outcome>>

Skips == Leaves(e, Void) /\ Quiet

(* val_truth *)
Branches(yes, no) ==
  IF ~Usable(value) THEN Fails("not a condition")
  ELSE IF Truth(value) THEN yes ELSE no

RunsIfAny(st) == IF st = NoNode THEN Skips ELSE Runs(st, "out")

StmtIf ==
  /\ Stmt("N_IF", "value")
  /\ Branches(RunsIfAny(Top.node.then), RunsIfAny(Top.node.else))

Absent(v) == v.k \in {"V_ERR", "V_VOID"}

StmtCheckIf ==
  /\ Stmt("N_CHECK_IF", "value")
  /\ IF Absent(value) THEN RunsIfAny(Top.node.else)
     ELSE /\ IF Top.node.then = NoNode THEN Leaves(e, Void)
             ELSE Calls([Top EXCEPT !.at = "out"], e, "exec_stmt", Top.node.then)
          /\ Binds(Top.node.nm, value)

(* The statements that are over with the one in them. *)
StmtOut ==
  /\ On("exec_stmt", "out")
  /\ Leaves(e, IF Top.node.k = "N_BLOCK" THEN value ELSE Void) /\ Quiet
-----------------------------------------------------------------------------
(* The loops.  Two of them call exec_block for a block. *)
AtOnce(loop) ==
  loop.body.k = "N_BLOCK" /\ (loop.k = "N_IN_CLAUSE" \/ (loop.k = "N_LOOP" /\ loop.x = NoNode))

RunsBody(f, x) ==
  Calls([f EXCEPT !.at = "body"], x,
        IF AtOnce(Top.node) THEN "exec_block" ELSE "exec_stmt", Top.node.body)

StmtLoop ==
  /\ Stmt("N_LOOP", "begin")
  /\ IF Top.node.x = NoNode THEN RunsBody(Top, e) /\ Quiet ELSE Evals(Top.node.x, "condition")

CforInit ==
  /\ Stmt("N_CFOR", "value")
  /\ Calls([Top EXCEPT !.at = "condition"], e, "eval", Top.node.x)
  /\ Binds(Top.node.nm, value)

LoopCondition ==
  /\ On("exec_stmt", "condition")
  /\ Branches(RunsBody(Top, e) /\ Quiet, Skips)

LoopUntil ==
  /\ Stmt("N_LOOP", "until")
  /\ Branches(Skips, RunsBody(Top, e) /\ Quiet)

LoopPost == Stmt("N_CFOR", "post") /\ Evals(Top.node.x, "condition")

InValue ==
  /\ Stmt("N_IN_CLAUSE", "value")
  /\ IF value.k \notin {"V_RANGE", "V_ARR"} THEN Fails("not iterable")
     ELSE /\ Becomes([Top EXCEPT !.at = "next", !.v = value,
                                 !.i = IF value.k = "V_RANGE" THEN value.lo ELSE 0], e)
          /\ Quiet

(* in_iterate, up to the body *)
Turn(ord, elem, next) ==
  /\ RunsBody([Top EXCEPT !.i = next], e)
  /\ envs' = BoundIn(BoundIn(envs, e.cur, Top.node.ord, ord), e.cur, Top.node.nm, elem)
  /\ UNCHANGED <<output, outcome>>

InNext ==
  /\ Stmt("N_IN_CLAUSE", "next")
  /\ LET v == Top.v
         n == Top.i
     IN  IF e.flow # "FL_NONE" THEN Skips
         ELSE IF v.k = "V_RANGE"
         THEN IF Within(v, n) THEN Turn(Num(n), Num(n), Counted(v, n)) ELSE Skips
         ELSE IF Inside(v, n) THEN Turn(Num(n), Cells(v)[n + 1].v, n + 1) ELSE Skips

CheckInValue ==
  /\ Stmt("N_CHECK_IN", "value")
  /\ IF Absent(value) THEN Skips ELSE RunsBody(Top, e) /\ Binds(Top.node.nm, value)

(* Behind the body: a break or a continue without a label is this loop's. *)
Mine(flow) == e.flow = flow /\ e.label = NoLabel
Calm       == [e EXCEPT !.flow = "FL_NONE"]

(* On to the next turn, and its first call. *)
Again ==
  LET Goes(at, fn, node) == Calls([Top EXCEPT !.at = at], Calm, fn, node)
      loop == Top.node
  IN  CASE loop.k = "N_LOOP"      -> IF loop.x # NoNode THEN Goes("condition", "eval", loop.x)
                                     ELSE IF loop.until # NoNode THEN Goes("until", "eval", loop.until)
                                     ELSE RunsBody(Top, Calm)
        [] loop.k = "N_CFOR"      -> IF loop.post # NoNode THEN Goes("post", "exec_stmt", loop.post)
                                     ELSE Goes("condition", "eval", loop.x)
        [] loop.k = "N_IN_CLAUSE" -> Becomes([Top EXCEPT !.at = "next"], Calm)
        [] loop.k = "N_CHECK_IN"  -> Goes("value", "eval", loop.x)

(* Mistake: the loop with a condition forgets to leave on a break. *)
LoopBodyOn ==
  /\ On("exec_stmt", "body")
  /\ IF Mine("FL_BREAK") /\ (Top.node.k # "N_LOOP" \/ Top.node.x = NoNode) THEN Leaves(Calm, Void)
     ELSE IF Mine("FL_CONTINUE") \/ Mine("FL_BREAK") \/ e.flow = "FL_NONE" THEN Again
     ELSE Leaves(e, Void)
  /\ Quiet

LoopBody ==
  /\ On("exec_stmt", "body")
  /\ IF Mine("FL_BREAK") THEN Leaves(Calm, Void)
     ELSE IF Mine("FL_CONTINUE") \/ e.flow = "FL_NONE" THEN Again
     ELSE Leaves(e, Void)
  /\ Quiet
-----------------------------------------------------------------------------
(* match: the first arm whose pattern fits. *)
MatchSubject ==
  /\ Stmt("N_MATCH", "value")
  /\ Becomes([Top EXCEPT !.at = "arms", !.v = value], e) /\ Quiet

TakesArm  == Runs(Top.node.arms[Top.i + 1].body, "out")
TriesNext == Becomes([Top EXCEPT !.at = "arms", !.i = @ + 1], e) /\ Quiet
Compares(v) ==
  IF ~Comparable(Top.v) THEN Fails("cannot compare") ELSE IF Top.v = v THEN TakesArm ELSE TriesNext

(* match_one; a constructor fits the member of an enum that it names. *)
MatchArm ==
  /\ Stmt("N_MATCH", "arms")
  /\ IF Top.i = Len(Top.node.arms) THEN Fails("no match arm matched")
     ELSE LET pat == Top.node.arms[Top.i + 1].pat
          IN  CASE pat = Name("_")                            -> TakesArm
                [] pat.k = "N_LIT"                            -> Compares(pat.v)
                [] pat.k = "N_NAME" /\ pat # Name("_")        ->
                     IF Known(pat.nm) THEN Compares(Lookup(pat.nm)) ELSE TriesNext
                [] pat.k = "N_CALL"                           ->
                     IF Top.v.k = "V_ENUM" /\ pat.ch[1] = Name(Top.v.name) THEN TakesArm ELSE TriesNext
                [] OTHER                                      ->
                     IF e.flow = "FL_NONE" THEN Evals(pat, "guard") ELSE TriesNext

MatchGuard ==
  /\ Stmt("N_MATCH", "guard")
  /\ Branches(TakesArm, TriesNext)
-----------------------------------------------------------------------------
(* The statements that change the flow. *)
StmtTry == Stmt("N_TRY", "begin") /\ Runs(Top.node.st, "out")

(* defer_append; env is where it was, which the list does not keep. *)
StmtDefer ==
  /\ Stmt("N_DEFER", "begin")
  /\ Leaves([e EXCEPT !.defers = Append(@, [st |-> Top.node.st, env |-> e.cur])], Void)
  /\ Quiet

Return(v) == Leaves([e EXCEPT !.ret = v, !.flow = "FL_RETURN"], Void) /\ Quiet

StmtReturn ==
  /\ Stmt("N_RETURN", "begin")
  /\ IF Top.node.x = NoNode THEN Return(Void) ELSE Evals(Top.node.x, "value")

ReturnValue == Stmt("N_RETURN", "value") /\ Return(value)

StmtTransfer ==
  /\ Stmt("N_TRANSFER", "begin")
  /\ IF Top.node.op = "yield" THEN Fails("not executable")
     ELSE /\ Leaves([e EXCEPT !.flow = IF Top.node.op = "break" THEN "FL_BREAK" ELSE "FL_CONTINUE",
                              !.label = Top.node.label], Void)
          /\ Quiet

StmtLabel == Stmt("N_LABEL", "begin") /\ Runs(Top.node.st, "label")

LabelEnds ==
  /\ Stmt("N_LABEL", "label")
  /\ Leaves(IF e.flow \in {"FL_BREAK", "FL_CONTINUE"} /\ e.label = Top.node.nm THEN Calm ELSE e, Void)
  /\ Quiet

(* What the prototype does not run, and an expression in place of a statement. *)
StmtOther == On("exec_stmt", "begin") /\ Top.node.k \notin Statements /\ Fails("not executable")
-----------------------------------------------------------------------------
(* defer_run_from: from the mark up to an end that may move. *)
RunDeferred ==
  /\ On("defer_run_from", "enter")
  /\ LET next == Top.mark + Top.i + 1
     IN  IF next <= Len(e.defers) /\ e.flow = "FL_NONE"
         THEN Calls([Top EXCEPT !.i = @ + 1], e, "exec_stmt", e.defers[next].st)
         ELSE Returns(e, Void)
  /\ Quiet

Drains(f, x) ==
  /\ stack' = Front(stack) \o <<[f EXCEPT !.at = "drained"],
                                [Frame("defer_run_from", NoNode) EXCEPT !.mark = f.mark]>>
  /\ e' = x /\ UNCHANGED <<program, value>>

(* Mistake: what has run stays on the list. *)
Undrained == e

Drained == [e EXCEPT !.defers = SubSeq(@, 1, Top.mark)]

(* exec_block *)
BlockEnter ==
  /\ On("exec_block", "enter")
  /\ envs' = NewEnv(e.cur)
  /\ Becomes([Top EXCEPT !.at = "run", !.own = Len(envs) + 1, !.saved = e.cur,
                         !.mark = Len(e.defers)],
             [e EXCEPT !.cur = Len(envs) + 1])
  /\ UNCHANGED <<output, outcome>>

BlockRun ==
  /\ On("exec_block", "run")
  /\ IF More(Top.node.ch) THEN RunsOne(Top.node.ch)
     ELSE /\ IF e.flow = "FL_NONE" THEN Drains([Top EXCEPT !.v = LastValue], e)
             ELSE Returns([e EXCEPT !.cur = Top.saved], LastValue)
          /\ Quiet

BlockDrained ==
  /\ On("exec_block", "drained")
  /\ Returns([Drained EXCEPT !.cur = Top.saved], Top.v) /\ Quiet

(* exec_region, behind setjmp; its other branch begins with Raises. *)
StmtRegion ==
  /\ Stmt("N_REGION", "begin")
  /\ Calls([Top EXCEPT !.at = "out"], e, "exec_region", Top.node) /\ Quiet

RegionEnter ==
  /\ On("exec_region", "enter")
  /\ Becomes([Top EXCEPT !.at = "try", !.prev = e.catch_, !.saved = e.cur,
                         !.mark = Len(e.defers), !.deep = e.depth],
             [e EXCEPT !.catch_ = Len(stack)])
  /\ Quiet

RegionRun ==
  /\ On("exec_region", "try")
  /\ IF More(Top.node.regs) THEN RunsOne(Top.node.regs)
     ELSE /\ IF e.flow = "FL_NONE" THEN Drains(Top, e)
             ELSE Returns([e EXCEPT !.catch_ = Top.prev], Void)
          /\ Quiet

RegionDrained ==
  /\ On("exec_region", "drained")
  /\ Returns([Drained EXCEPT !.catch_ = Top.prev], Void) /\ Quiet

RegionHandlers ==
  /\ On("exec_region", "handlers")
  /\ IF More(Top.node.handlers) THEN RunsOne(Top.node.handlers)
     ELSE Returns(e, Void) /\ Quiet

(* invoke_user: the arguments, and the defaults of the parameters without,  *)
(* each evaluated in the caller's environment. *)
BindsAll(es, env, params, args) ==
  FoldLeft(LAMBDA acc, i : BoundIn(acc, env, params[i].nm, args[i]), es, [i \in DOMAIN args |-> i])

InvokeEnter ==
  /\ On("invoke_user", "enter")
  /\ IF Len(Top.vals) > Len(Top.node.params) THEN Fails("too many arguments")
     ELSE /\ envs' = BindsAll(NewEnv(Top.node.closure), Len(envs) + 1, Top.node.params, Top.vals)
          /\ Becomes([Top EXCEPT !.at = "params", !.own = Len(envs) + 1, !.i = Len(Top.vals)], e)
          /\ UNCHANGED <<output, outcome>>

NextParam == Top.node.params[Top.i + 1]

InvokeParams ==
  /\ On("invoke_user", "params") /\ Top.i < Len(Top.node.params)
  /\ IF NextParam.dflt = NoNode THEN Fails("missing argument") ELSE Evals(NextParam.dflt, "default")

InvokeDefault ==
  /\ On("invoke_user", "default")
  /\ envs' = BoundIn(envs, Top.own, NextParam.nm, value)
  /\ Becomes([Top EXCEPT !.at = "params", !.i = @ + 1], e) /\ UNCHANGED <<output, outcome>>

InvokeCall ==
  /\ On("invoke_user", "params") /\ Top.i = Len(Top.node.params)
  /\ LET body == Top.node.body
         f == [Top EXCEPT !.at = "body", !.saved = e.cur, !.mark = Len(e.defers)]
         x == [e EXCEPT !.cur = Top.own, !.flow = "FL_NONE"]
     IN  IF body = NoNode THEN Drains(f, x)
         ELSE Calls(f, x, IF body.k = "N_BLOCK" THEN "exec_block" ELSE "exec_stmt", body)
  /\ Quiet

InvokeBody ==
  /\ On("invoke_user", "body")
  /\ Drains([Top EXCEPT !.v = IF e.flow = "FL_RETURN" THEN e.ret ELSE value], Calm)
  /\ Quiet

InvokeDrained ==
  /\ On("invoke_user", "drained")
  /\ Returns([Drained EXCEPT !.cur = Top.saved], Top.v) /\ Quiet
-----------------------------------------------------------------------------
(* A child is asked for that its node does not have, and the memory there  *)
(* may hold anything.  It mostly is 0, so that there is none, as above;    *)
(* else the run dies of it. *)
Beyond ==
  \/ Stmt("N_CHECK_IF", "value") /\ NoNode = (IF Absent(value) THEN Top.node.else ELSE Top.node.then)
  \/ Stmt("N_LOOP", "body") /\ Top.node.x = NoNode /\ Top.node.until = NoNode
     /\ (e.flow = "FL_NONE" \/ Mine("FL_CONTINUE"))
  \/ On("invoke_user", "params") /\ Top.i < Len(Top.node.params) /\ NextParam.dflt = NoNode
  \/ On("invoke_user", "params") /\ Top.i = Len(Top.node.params) /\ Top.node.body = NoNode

StrayChild == Beyond /\ Fails("stray child")
-----------------------------------------------------------------------------
(* exec_run: the items of the file, whatever the flow, then main. *)
Item == program[Top.i + 1]

NextItem == [Top EXCEPT !.i = @ + 1]

(* The first declaration of a struct type is the one that counts. *)
WithStruct(st) == IF Struct(st.nm) = 0 THEN [e EXCEPT !.styp = Append(@, st)] ELSE e

WithMembers(es, names) ==
  FoldLeft(LAMBDA acc, i : EnvBind(acc, Global, names[i], Enum(names[i], i - 1)),
           es, [i \in DOMAIN names |-> i])

RunItem ==
  /\ On("exec_run", "enter") /\ Top.i < Len(program)
  /\ CASE Item.k = "N_IMPORT"      -> Becomes(NextItem, e) /\ Quiet
       [] Item.k = "N_STRUCT_DECL" ->
            Becomes(NextItem, WithStruct([nm |-> Item.nm, fields |-> Item.fields])) /\ Quiet
       [] Item.k = "N_ENUM_DECL"   ->
            /\ envs' = WithMembers(envs, Item.members)
            /\ Becomes(NextItem, e) /\ UNCHANGED <<output, outcome>>
       [] Item.k = "N_FUNC_DECL"   ->
            /\ envs' = EnvBind(envs, Global, Item.nm, User(Item.params, Item.body, Global))
            /\ Becomes(NextItem, e) /\ UNCHANGED <<output, outcome>>
       [] OTHER                    -> RunsOne(program)

MainPlace == Found(Global, "main")
HasMain   == IF MainPlace = NoCell THEN FALSE ELSE At(MainPlace).k = "V_FUNC" /\ At(MainPlace).kind = "F_USER"

RunMain ==
  /\ On("exec_run", "enter") /\ Top.i = Len(program)
  /\ HasMain
  /\ Calls([Top EXCEPT !.at = "main"], e, "invoke_user", At(MainPlace)) /\ Quiet

Done(code) ==
  /\ outcome' = [code |-> code, msg |-> "done"] /\ stack' = <<>>
  /\ UNCHANGED <<program, e, envs, value, output>>

RunNoMain ==
  /\ On("exec_run", "enter") /\ Top.i = Len(program)
  /\ ~HasMain
  /\ Done(0)

(* What main returned, if it is a number; here it is one that (int) keeps. *)
RunEnd == On("exec_run", "main") /\ Done(IF value.k = "V_INT" THEN value.i ELSE 0)

Next ==
  \/ Enter \/ EvalLit \/ EvalName \/ EvalPart \/ TakePart \/ PartMisfits
  \/ EvalBin \/ EvalUnary \/ EvalMember \/ EvalIndex \/ EvalSlice \/ EvalInit
  \/ InitValue \/ ArrBuild \/ RecBuild \/ CallPrint \/ CallFrom
  \/ CallUser \/ CallOther \/ EvalOut \/ EvalUnwrap \/ EvalIs \/ EvalFunc
  \/ StmtBlock \/ StmtList \/ StmtEval \/ StmtExpr \/ StmtVar \/ VarValue
  \/ LvalueName \/ LvalueMember \/ LvalueIndex \/ LvalueOther
  \/ StmtAssign \/ AssignCell \/ AssignValue \/ StmtSwap \/ SwapCell \/ SwapValue
  \/ StmtIf \/ StmtCheckIf \/ StmtOut
  \/ StmtLoop \/ CforInit \/ LoopCondition \/ LoopUntil \/ LoopPost \/ InValue \/ InNext
  \/ CheckInValue \/ LoopBody \/ MatchSubject \/ MatchArm \/ MatchGuard
  \/ StmtTry \/ StmtDefer \/ StmtReturn \/ ReturnValue \/ StmtTransfer \/ StmtLabel
  \/ LabelEnds \/ StmtOther
  \/ RunDeferred \/ BlockEnter \/ BlockRun \/ BlockDrained
  \/ StmtRegion \/ RegionEnter \/ RegionRun \/ RegionDrained \/ RegionHandlers
  \/ InvokeEnter \/ InvokeParams \/ InvokeDefault \/ InvokeCall
  \/ InvokeBody \/ InvokeDrained \/ StrayChild \/ RunItem \/ RunMain \/ RunNoMain \/ RunEnd

(* The interpreter goes on until exec_run returns. *)
Spec == Init /\ [][Next]_vars /\ WF_vars(Next)
-----------------------------------------------------------------------------
Over == outcome # Running

Crossing(f) == f.fn \in {"eval", "exec_stmt"} /\ f.at # "enter"
Trying(f)   == f.fn = "exec_region" /\ f.at \in {"try", "drained"}
Scope(f)    ==
  f.fn \in {"exec_block", "invoke_user"} /\ f.at \notin {"enter", "params", "default"}
Window(f)   == Scope(f) \/ Trying(f) \/ f.fn = "defer_run_from"

Places(is(_)) == {k \in DOMAIN stack : is(stack[k])}
Newest(places) == Max({0} \cup places)

(* What Exec says is what is on the C stack, also behind a longjmp that    *)
(* leaves many functions at once: catch_ is the innermost region whose try *)
(* part runs and leads to the next one, cur is the innermost scope's, the  *)
(* depth counts eval and exec_stmt, and no mark is beyond the end of the   *)
(* deferred statements or behind an outer one's (exec.c:81-93, 1705-1711). *)
FieldsFollowTheStack ==
  ~Over =>
    /\ e.catch_ = Newest(Places(Trying))
    /\ \A k \in Places(Trying) : stack[k].prev = Newest({j \in Places(Trying) : j < k})
    /\ e.cur = IF Places(Scope) = {} THEN Global ELSE stack[Newest(Places(Scope))].own
    /\ e.depth = Cardinality(Places(Crossing))
    /\ \A k \in Places(Window) :
         /\ stack[k].mark <= Len(e.defers)
         /\ \A j \in Places(Window) : j < k => stack[j].mark <= stack[k].mark
=============================================================================
