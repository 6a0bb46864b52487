---------------------------- MODULE WalkerProofs ----------------------------
(***************************************************************************)
(* The task stack of the walker is big enough, for every tree and whatever *)
(* the operations do; and the interpreter, the checker and the freeing of  *)
(* a tree are such walks.                                                  *)
(***************************************************************************)
EXTENDS Program, TLAPS

Tasks == [node : Nat, mode : {"EVAL", "REFERENCE"}, phase : Nat]

(* A task and all that is ever pushed above it have room: two slots for    *)
(* each level of the tree that is below its node, since an if may push     *)
(* both of its arms.                                                       *)
HasRoom(t, k) == k + 2 * HeightOf(ast, t.node) <= Slots

InOrder(s) ==
  /\ s \in Seq(Tasks)
  /\ \A k \in 1 .. Len(s) : TaskOK(s[k]) /\ HasRoom(s[k], k)

WalkInv == ast \in Trees /\ InOrder(tasks) /\ TasksFit
-----------------------------------------------------------------------------
(* A child of a node is a node, or NULL, and lower than its parent. *)
LEMMA KidIsLower ==
  ASSUME ast \in Trees, NEW n \in 1 .. Len(ast), NEW k \in DOMAIN ast[n].kids
  PROVE  /\ ast[n].kids[k] \in 0 .. Len(ast)
         /\ HeightOf(ast, ast[n].kids[k]) \in Nat
         /\ ast[n].height \in Nat
         /\ HeightOf(ast, ast[n].kids[k]) < ast[n].height
<1>1. IsTree(ast) BY TreesAssumption
<1>2. Len(ast) \in Nat /\ n \in DOMAIN ast BY <1>1 DEF IsTree
<1>3. ast[n].kids[k] \in 0 .. n - 1 /\ HeightOf(ast, ast[n].kids[k]) < ast[n].height
  BY <1>1, <1>2 DEF IsTree
<1>4. \A m \in DOMAIN ast : ast[m].height \in Nat BY <1>1 DEF IsTree
<1>5. DOMAIN ast = 1 .. Len(ast) BY <1>1 DEF IsTree
<1> QED BY <1>2, <1>3, <1>4, <1>5 DEF HeightOf, NULL

(* What a node's steps push is a child of it; only an if asks for the      *)
(* descisions.                                                             *)
LEMMA StepsOfNode ==
  ASSUME ast \in Trees, NEW n \in 1 .. Len(ast)
  PROVE  /\ Len(EvalSteps(n)) \in Nat \ {0}
         /\ \A i \in 1 .. Len(EvalSteps(n)) :
              EvalSteps(n)[i].does = "push" =>
                /\ EvalSteps(n)[i].mode \in {"EVAL", "REFERENCE"}
                /\ \E k \in DOMAIN ast[n].kids : EvalSteps(n)[i].kid = ast[n].kids[k]
         /\ \A i \in 1 .. Len(EvalSteps(n)) :
              EvalSteps(n)[i].does = "descisions" => ast[n].kind \in {"if", "ifexpr"}
<1> DEFINE kids == ast[n].kids
           kid(k) == Push(kids[k], "EVAL")
<1>1. IsTree(ast) BY TreesAssumption
<1>2. n \in DOMAIN ast /\ ast[n].kind \in Kinds /\ Len(kids) \in Arity(ast[n].kind)
      /\ DOMAIN kids = 1 .. Len(kids)
  BY <1>1 DEF IsTree
<1>3. ASSUME ast[n].kind = "block"
      PROVE EvalSteps(n) = <<Call("scope_push_new")>> \o [k \in DOMAIN kids |-> kid(k)] \o <<Call("scope_pop")>>
  BY <1>3 DEF EvalSteps
<1>4. CASE ast[n].kind = "block"
  <2>1. Len(kids) \in Nat BY <1>2, <1>4 DEF Arity
  <2> DEFINE walked == [k \in 1 .. Len(kids) |-> kid(k)]
             all    == <<Call("scope_push_new")>> \o walked \o <<Call("scope_pop")>>
  <2>2. EvalSteps(n) = all BY <1>2, <1>3, <1>4
  <2>3. walked \in Seq({kid(k) : k \in 1 .. Len(kids)}) /\ Len(walked) = Len(kids)
    BY <2>1
  <2>4. Len(all) = Len(kids) + 2 /\ all[1] = Call("scope_push_new")
        /\ all[Len(kids) + 2] = Call("scope_pop")
        /\ \A k \in 1 .. Len(kids) : all[k + 1] = kid(k)
    BY <2>1, <2>3
  <2> HIDE DEF all
  <2>5. ASSUME NEW i \in 1 .. Len(all), all[i].does = "push"
        PROVE  all[i].mode \in {"EVAL", "REFERENCE"} /\ \E k \in DOMAIN kids : all[i].kid = kids[k]
    <3>1. i # 1 /\ i # Len(kids) + 2 BY <2>4, <2>5 DEF Call
    <3>2. PICK k \in 1 .. Len(kids) : i = k + 1 BY <3>1, <2>1, <2>4
    <3>3. all[i] = kid(k) BY <3>2, <2>4
    <3>4. k \in DOMAIN kids BY <1>2
    <3> QED BY <3>3, <3>4 DEF Push
  <2>6. ASSUME NEW i \in 1 .. Len(all) PROVE all[i].does # "descisions"
    <3>1. CASE i = 1 \/ i = Len(kids) + 2 BY <3>1, <2>4 DEF Call
    <3>2. CASE i # 1 /\ i # Len(kids) + 2
      <4>1. PICK k \in 1 .. Len(kids) : i = k + 1 BY <3>2, <2>1, <2>4
      <4>2. all[i] = kid(k) BY <4>1, <2>4
      <4> QED BY <4>2 DEF Push
    <3> QED BY <3>1, <3>2
  <2> QED BY <2>1, <2>2, <2>4, <2>5, <2>6
<1>5. CASE ast[n].kind # "block"
  <2>1. /\ ast[n].kind \in {"uexpr", "echo", "expr", "define", "assign", "if", "ifexpr"}
             => 1 \in DOMAIN kids
        /\ ast[n].kind \in {"expr", "define", "assign", "if", "ifexpr"} => 2 \in DOMAIN kids
    <3> DEFINE kind == ast[n].kind
    <3>1. Len(kids) \in Arity(kind) /\ DOMAIN kids = 1 .. Len(kids) BY <1>2
    <3> HIDE DEF kind, kids
    <3>2. kind \in {"uexpr", "echo"} => Arity(kind) = {1} BY DEF Arity
    <3>3. kind \in {"expr", "define", "assign"} => Arity(kind) = {2} BY DEF Arity
    <3>4. kind \in {"if", "ifexpr"} => Arity(kind) = {3} BY DEF Arity
    <3>5. \A l \in {1, 2, 3} : Len(kids) = l => 1 \in DOMAIN kids /\ (l > 1 => 2 \in DOMAIN kids)
      BY <3>1
    <3>6. /\ kind \in {"uexpr", "echo", "expr", "define", "assign", "if", "ifexpr"}
               => 1 \in DOMAIN kids
          /\ kind \in {"expr", "define", "assign", "if", "ifexpr"} => 2 \in DOMAIN kids
      BY <3>1, <3>2, <3>3, <3>4, <3>5
    <3> QED BY <3>6 DEF kind
  <2>2. CASE ast[n].kind = "value" BY <2>2 DEF EvalSteps, Call
  <2>3. CASE ast[n].kind = "id" BY <2>3 DEF EvalSteps, Call
  <2>4. CASE ast[n].kind = "expr"
    <3>1. 1 \in DOMAIN kids /\ 2 \in DOMAIN kids BY <2>1, <2>4
    <3>2. EvalSteps(n) = <<kid(1), kid(2), Call("apply_expr")>>
      BY <2>4 DEF EvalSteps
    <3> QED BY <3>1, <3>2 DEF Call, Push
  <2>5. CASE ast[n].kind = "uexpr"
    <3>1. 1 \in DOMAIN kids BY <2>1, <2>5
    <3>2. EvalSteps(n) = <<kid(1), Call("apply_uexpr")>>
      BY <2>5 DEF EvalSteps
    <3> QED BY <3>1, <3>2 DEF Call, Push
  <2>6. CASE ast[n].kind = "echo"
    <3>1. 1 \in DOMAIN kids BY <2>1, <2>6
    <3>2. EvalSteps(n) = <<kid(1), Call("apply_echo")>>
      BY <2>6 DEF EvalSteps
    <3> QED BY <3>1, <3>2 DEF Call, Push
  <2>7. CASE ast[n].kind = "if"
    <3>1. 1 \in DOMAIN kids BY <2>1, <2>7
    <3>2. EvalSteps(n) = <<kid(1), Call("apply_if_cond"), Call("descisions"), Call("apply_if_post")>>
      BY <2>7 DEF EvalSteps
    <3> QED BY <2>7, <3>1, <3>2 DEF Call, Push
  <2>8. CASE ast[n].kind = "ifexpr"
    <3>1. 1 \in DOMAIN kids BY <2>1, <2>8
    <3>2. EvalSteps(n) = <<kid(1), Call("apply_if_cond"), Call("descisions"), Call("apply_ifexpr_post")>>
      BY <2>8 DEF EvalSteps
    <3> QED BY <2>8, <3>1, <3>2 DEF Call, Push
  <2>9. CASE ast[n].kind = "define"
    <3>1. 2 \in DOMAIN kids BY <2>1, <2>9
    <3>2. EvalSteps(n) = <<kid(2), Call("apply_define")>>
      BY <2>9 DEF EvalSteps
    <3> QED BY <3>1, <3>2 DEF Call, Push
  <2>10. CASE ast[n].kind = "assign"
    <3>1. 1 \in DOMAIN kids /\ 2 \in DOMAIN kids BY <2>1, <2>10
    <3>2. EvalSteps(n) = <<kid(2), Push(kids[1], "REFERENCE"), Call("apply_assign")>>
      BY <2>10 DEF EvalSteps
    <3> QED BY <3>1, <3>2 DEF Call, Push
  <2> QED BY <1>2, <1>5, <2>2, <2>3, <2>4, <2>5, <2>6, <2>7, <2>8, <2>9, <2>10 DEF Kinds
<1> QED BY <1>4, <1>5

(* Only an if, which has three children, asks for descisions. *)
LEMMA OnlyIfsDecide ==
  ASSUME ast \in Trees, NEW t \in Tasks, t.node \in 1 .. Len(ast),
         NEW i \in 1 .. Len(Steps(t)), Steps(t)[i].does = "descisions"
  PROVE  2 \in DOMAIN ast[t.node].kids /\ 3 \in DOMAIN ast[t.node].kids
<1> DEFINE n == t.node
           kids == ast[n].kids
<1>1. IsTree(ast) BY TreesAssumption
<1>2. n \in DOMAIN ast /\ ast[n].kind \in Kinds /\ Len(kids) \in Arity(ast[n].kind)
      /\ DOMAIN kids = 1 .. Len(kids)
  BY <1>1 DEF IsTree
<1>3. t.mode = "EVAL"
  <2>1. t.mode # "EVAL" =>
          Steps(t) \in {<<Call("apply_identifier_ref")>>, <<Call("misplaced")>>}
    BY DEF Steps
  <2> QED BY <2>1 DEF Call
<1>4. i \in 1 .. Len(EvalSteps(n)) /\ EvalSteps(n)[i].does = "descisions" BY <1>3 DEF Steps
<1>5. ast[n].kind \in {"if", "ifexpr"}
  BY <1>4, StepsOfNode
<1>6. Len(kids) = 3
  <2> DEFINE kind == ast[n].kind
  <2> HIDE DEF kind
  <2>1. kind \in {"if", "ifexpr"} => Arity(kind) = {3} BY DEF Arity
  <2> QED BY <1>2, <1>5, <2>1 DEF kind
<1> QED BY <1>2, <1>6

LEMMA StepsOfTask ==
  ASSUME ast \in Trees, NEW t \in Tasks, t.node \in 1 .. Len(ast)
  PROVE  /\ Len(Steps(t)) \in Nat \ {0}
         /\ \A i \in 1 .. Len(Steps(t)) :
              Steps(t)[i].does = "push" =>
                /\ Steps(t)[i].mode \in {"EVAL", "REFERENCE"}
                /\ \E k \in DOMAIN ast[t.node].kids : Steps(t)[i].kid = ast[t.node].kids[k]
<1>1. CASE t.mode = "EVAL" BY <1>1, StepsOfNode DEF Steps
<1>2. CASE t.mode # "EVAL"
  <2>1. Steps(t) \in {<<Call("apply_identifier_ref")>>, <<Call("misplaced")>>}
    BY <1>2 DEF Steps
  <2> QED BY <2>1 DEF Call
<1> QED BY <1>1, <1>2

(* The root is as high as the stack was made for. *)
LEMMA RootHasRoom ==
  ASSUME ast \in Trees
  PROVE  Slots \in Nat /\ Root(ast) \in 1 .. Len(ast) /\ InOrder(<<Task(Root(ast), "EVAL")>>)
<1> DEFINE t == Task(Root(ast), "EVAL")
<1>1. IsTree(ast) BY TreesAssumption
<1>2. Root(ast) \in 1 .. Len(ast) /\ Root(ast) # 0 /\ Root(ast) \in Nat BY <1>1 DEF IsTree, Root
<1>3. ast[Root(ast)].height \in Nat BY <1>1, <1>2 DEF IsTree
<1>4. t \in Tasks /\ t.node = Root(ast) /\ t.phase = 0 /\ t.mode = "EVAL"
  BY <1>2 DEF Task, Tasks
<1>5. Slots \in Nat /\ 1 + 2 * ast[Root(ast)].height <= Slots BY <1>3 DEF Slots
<1>6. HasRoom(t, 1) BY <1>2, <1>4, <1>5 DEF HasRoom, HeightOf, NULL
<1>7. TaskOK(t)
  <2>1. Len(Steps(t)) \in Nat \ {0} BY <1>2, <1>4, StepsOfTask
  <2> QED BY <1>2, <1>4, <2>1 DEF TaskOK
<1> HIDE DEF t
<1>8. InOrder(<<t>>) BY <1>4, <1>6, <1>7 DEF InOrder
<1> QED BY <1>2, <1>5, <1>8 DEF t

(* A child of the node of a task that has room finds room above it, and    *)
(* the second one of two children does, too.                               *)
LEMMA KidHasRoom ==
  ASSUME ast \in Trees, NEW n \in 1 .. Len(ast), NEW k \in DOMAIN ast[n].kids,
         NEW mode \in {"EVAL", "REFERENCE"},
         NEW p \in Nat, NEW q \in Nat, p + 2 * ast[n].height <= Slots, q <= p + 2
  PROVE  LET t == Task(ast[n].kids[k], mode)
         IN  t \in Tasks /\ TaskOK(t) /\ HasRoom(t, q) /\ q <= Slots
<1> DEFINE t == Task(ast[n].kids[k], mode)
<1>1. /\ ast[n].kids[k] \in 0 .. Len(ast) /\ ast[n].height \in Nat
      /\ HeightOf(ast, ast[n].kids[k]) \in Nat
      /\ HeightOf(ast, ast[n].kids[k]) < ast[n].height
  BY KidIsLower
<1>2. Slots \in Nat /\ Len(ast) \in Nat BY RootHasRoom, TreesAssumption DEF IsTree
<1>3. t \in Tasks /\ t.node = ast[n].kids[k] /\ t.phase = 0 /\ t.mode = mode
  BY <1>1, <1>2 DEF Task, Tasks
<1>4. HasRoom(t, q) /\ q <= Slots
  <2> DEFINE h == HeightOf(ast, ast[n].kids[k])
             g == ast[n].height
  <2>1. h \in Nat /\ g \in Nat /\ h < g /\ p + 2 * g <= Slots BY <1>1
  <2> HIDE DEF h, g
  <2>2. q + 2 * h <= Slots /\ q <= Slots BY <2>1, <1>2
  <2> QED BY <2>2, <1>3 DEF HasRoom, h
<1>5. TaskOK(t)
  <2>1. t.node # NULL => Len(Steps(t)) \in Nat \ {0}
    BY <1>1, <1>2, <1>3, StepsOfTask DEF NULL
  <2> QED BY <1>1, <1>3, <2>1 DEF TaskOK
<1> QED BY <1>3, <1>4, <1>5

LEMMA AppendInOrder ==
  ASSUME NEW s, InOrder(s), NEW t \in Tasks, TaskOK(t), HasRoom(t, Len(s) + 1)
  PROVE  InOrder(Append(s, t)) /\ Len(Append(s, t)) = Len(s) + 1
BY DEF InOrder

LEMMA FrontInOrder ==
  ASSUME NEW s, InOrder(s), s # <<>>
  PROVE  /\ InOrder(SubSeq(s, 1, Len(s) - 1))
         /\ Len(SubSeq(s, 1, Len(s) - 1)) = Len(s) - 1
         /\ Len(s) \in Nat \ {0}
<1>0. s \in Seq(Tasks) /\ s # <<>> BY DEF InOrder
<1>1. s \in Seq(Tasks) /\ Len(s) \in Nat \ {0}
  <2>1. s \in Seq(Tasks) => Len(s) \in Nat /\ (Len(s) = 0 => s = <<>>) OBVIOUS
  <2> QED BY <1>0, <2>1
<1> DEFINE front == SubSeq(s, 1, Len(s) - 1)
<1>2. front \in Seq(Tasks) /\ Len(front) = Len(s) - 1
      /\ \A k \in 1 .. Len(s) - 1 : front[k] = s[k]
  <2> DEFINE m == Len(s) - 1
  <2>1. m \in Nat /\ m < Len(s) /\ s \in Seq(Tasks) BY <1>1
  <2> HIDE DEF m
  <2>2. \A i \in 1 .. m : s[i] \in Tasks BY <1>1, <2>1
  <2>3. /\ SubSeq(s, 1, m) \in Seq(Tasks)
        /\ Len(SubSeq(s, 1, m)) = m
        /\ \A k \in 1 .. m : SubSeq(s, 1, m)[k] = s[k]
    BY <2>1, <2>2
  <2> QED BY <2>3 DEF m
<1> HIDE DEF front
<1>4. InOrder(front)
  <2>1. \A k \in 1 .. Len(front) : k \in 1 .. Len(s) /\ front[k] = s[k] BY <1>1, <1>2
  <2> QED BY <1>2, <2>1 DEF InOrder
<1> QED BY <1>1, <1>2, <1>4 DEF front

(* The task on top goes on, or goes away; what is pushed then finds room.  *)
LEMMA ResumedInOrder ==
  ASSUME WalkInv, Walking, Top.node # NULL
  PROVE  /\ Top.node \in 1 .. Len(ast) /\ Top \in Tasks
         /\ Top.phase + 1 \in 1 .. Len(Steps(Top))
         /\ InOrder(Resumed) /\ Len(Resumed) \in Nat
         /\ Len(Resumed) + 2 * ast[Top.node].height <= Slots
<1> DEFINE n == Top.node
<1>0. InOrder(tasks) /\ tasks # <<>> BY DEF WalkInv, Walking
<1>1. tasks \in Seq(Tasks) /\ Len(tasks) \in Nat \ {0} /\ ast \in Trees
  <2>1. ast \in Trees /\ tasks \in Seq(Tasks) BY <1>0 DEF WalkInv, InOrder
  <2>2. Len(tasks) \in Nat \ {0} BY <1>0, FrontInOrder
  <2> QED BY <2>1, <2>2
<1>2. Top \in Tasks /\ TaskOK(Top) /\ HasRoom(Top, Len(tasks))
  BY <1>1 DEF Top, WalkInv, InOrder
<1>3. Len(ast) \in Nat BY <1>1, TreesAssumption DEF IsTree
<1>4. n \in 1 .. Len(ast) /\ Top.phase \in 0 .. Len(Steps(Top)) - 1
  BY <1>2, <1>3 DEF TaskOK, NULL
<1>5. Len(Steps(Top)) \in Nat \ {0} BY <1>1, <1>2, <1>4, StepsOfTask
<1>6. Top.phase \in Nat /\ Top.phase + 1 \in 1 .. Len(Steps(Top)) BY <1>4, <1>5
<1>7. Slots \in Nat /\ ast[n].height \in Nat BY <1>1, <1>4, RootHasRoom, TreesAssumption DEF IsTree
<1>8. Len(tasks) + 2 * ast[n].height <= Slots BY <1>2, <1>4 DEF HasRoom, HeightOf, NULL
<1>9. InOrder(Below) /\ Len(Below) = Len(tasks) - 1
  BY <1>0, FrontInOrder DEF Below
<1>10. CASE IsLast
  <2>1. Resumed = Below BY <1>10 DEF Resumed
  <2>2. Len(Below) \in Nat /\ Len(Below) + 2 * ast[n].height <= Slots
    <3> DEFINE l == Len(tasks)
               b == Len(Below)
               h == ast[n].height
    <3>1. l \in Nat /\ l # 0 /\ b = l - 1 /\ h \in Nat /\ l + 2 * h <= Slots /\ Slots \in Nat
      BY <1>1, <1>7, <1>8, <1>9
    <3> HIDE DEF l, b, h
    <3>2. b \in Nat /\ b + 2 * h <= Slots BY <3>1
    <3> QED BY <3>2 DEF b, h
  <2> QED BY <1>2, <1>4, <1>6, <1>9, <2>1, <2>2
<1>11. CASE ~IsLast
  <2> DEFINE t == [Top EXCEPT !.phase = @ + 1]
  <2>1. Resumed = Append(Below, t) BY <1>11 DEF Resumed
  <2>2. /\ t \in Tasks /\ t.node = Top.node /\ t.mode = Top.mode
        /\ t.phase = Top.phase + 1
    BY <1>2, <1>6 DEF Tasks
  <2>3. Steps(t) = Steps(Top) BY <2>2 DEF Steps
  <2>4. TaskOK(t)
    <3>1. t.phase \in 0 .. Len(Steps(t)) - 1
      BY <1>4, <1>5, <1>6, <1>11, <2>2, <2>3 DEF IsLast
    <3> QED BY <1>2, <2>2, <3>1 DEF TaskOK
  <2>5. HasRoom(t, Len(Below) + 1)
    BY <1>1, <1>2, <1>9, <2>2 DEF HasRoom
  <2> HIDE DEF t
  <2>6. InOrder(Resumed) /\ Len(Resumed) = Len(Below) + 1
    BY <1>9, <2>1, <2>2, <2>4, <2>5, AppendInOrder
  <2> QED BY <1>1, <1>2, <1>4, <1>6, <1>8, <1>9, <2>6
<1> QED BY <1>10, <1>11
-----------------------------------------------------------------------------
LEMMA DescendFits ==
  ASSUME WalkInv, Descend
  PROVE  InOrder(tasks') /\ UNCHANGED <<ast, status>>
<1> DEFINE t == Task(Step.kid, Step.mode)
<1>1. Walking /\ Top.node # NULL /\ Step.does = "push" BY DEF Descend, OnNode
<1>2. /\ Top.node \in 1 .. Len(ast) /\ Top \in Tasks
      /\ Top.phase + 1 \in 1 .. Len(Steps(Top))
      /\ InOrder(Resumed) /\ Len(Resumed) \in Nat
      /\ Len(Resumed) + 2 * ast[Top.node].height <= Slots
  BY <1>1, ResumedInOrder
<1>3. ast \in Trees BY DEF WalkInv
<1>4. /\ Step.mode \in {"EVAL", "REFERENCE"}
      /\ \E k \in DOMAIN ast[Top.node].kids : Step.kid = ast[Top.node].kids[k]
  BY <1>1, <1>2, <1>3, StepsOfTask DEF Step
<1>5. PICK k \in DOMAIN ast[Top.node].kids : Step.kid = ast[Top.node].kids[k] BY <1>4
<1>6. t \in Tasks /\ TaskOK(t) /\ HasRoom(t, Len(Resumed) + 1) /\ Len(Resumed) + 1 <= Slots
  <2> DEFINE p == Len(Resumed)
  <2>1. p \in Nat /\ p + 1 \in Nat /\ p + 1 <= p + 2 BY <1>2
  <2>2. p + 2 * ast[Top.node].height <= Slots BY <1>2
  <2> HIDE DEF p
  <2>3. t \in Tasks /\ TaskOK(t) /\ HasRoom(t, p + 1) /\ p + 1 <= Slots
    BY <1>2, <1>3, <1>4, <1>5, <2>1, <2>2, KidHasRoom
  <2> QED BY <2>3 DEF p
<1> HIDE DEF t
<1>7. InOrder(Append(Resumed, t)) BY <1>2, <1>6, AppendInOrder
<1>8. Resumed \in Seq(Tasks) BY <1>2 DEF InOrder
<1>9. Resumed \o <<t>> = Append(Resumed, t) /\ Len(<<t>>) = 1 BY <1>6, <1>8
<1>10. PushTasks(<<t>>) BY DEF Descend, t
<1> QED BY <1>6, <1>7, <1>9, <1>10 DEF PushTasks

LEMMA DecidedFits ==
  ASSUME WalkInv, NEW do_then \in BOOLEAN, NEW do_else \in BOOLEAN, Decided(do_then, do_else)
  PROVE  InOrder(tasks') /\ UNCHANGED <<ast, status>>
<1> DEFINE n == Top.node
           e == Task(ast[n].kids[3], "EVAL")
           t == Task(ast[n].kids[2], "EVAL")
           r == Resumed
<1>1. Walking /\ n # NULL /\ Step.does = "descisions" BY DEF Decided, OnNode
<1>2. /\ n \in 1 .. Len(ast) /\ Top \in Tasks
      /\ Top.phase + 1 \in 1 .. Len(Steps(Top))
      /\ InOrder(r) /\ Len(r) \in Nat
      /\ Len(r) + 2 * ast[n].height <= Slots
  BY <1>1, ResumedInOrder
<1>3. ast \in Trees BY DEF WalkInv
<1>4. 2 \in DOMAIN ast[n].kids /\ 3 \in DOMAIN ast[n].kids
  BY <1>1, <1>2, <1>3, OnlyIfsDecide DEF Step
<1>5. /\ e \in Tasks /\ TaskOK(e) /\ HasRoom(e, Len(r) + 1) /\ Len(r) + 1 <= Slots
      /\ t \in Tasks /\ TaskOK(t) /\ HasRoom(t, Len(r) + 1)
      /\ HasRoom(t, Len(r) + 2) /\ Len(r) + 2 <= Slots
  <2> DEFINE p == Len(r)
  <2>1. p \in Nat /\ p + 1 \in Nat /\ p + 2 \in Nat /\ p + 1 <= p + 2 /\ p + 2 <= p + 2 BY <1>2
  <2>2. p + 2 * ast[n].height <= Slots BY <1>2
  <2> HIDE DEF p
  <2>3. e \in Tasks /\ TaskOK(e) /\ HasRoom(e, p + 1) /\ p + 1 <= Slots
    BY <1>2, <1>3, <1>4, <2>1, <2>2, KidHasRoom
  <2>4. t \in Tasks /\ TaskOK(t) /\ HasRoom(t, p + 1)
    BY <1>2, <1>3, <1>4, <2>1, <2>2, KidHasRoom
  <2>5. HasRoom(t, p + 2) /\ p + 2 <= Slots
    BY <1>2, <1>3, <1>4, <2>1, <2>2, KidHasRoom
  <2> QED BY <2>3, <2>4, <2>5 DEF p
<1>6. PushTasks((IF do_else THEN <<e>> ELSE <<>>) \o (IF do_then THEN <<t>> ELSE <<>>))
  BY DEF Decided
<1> HIDE DEF e, t, r
<1>7. InOrder(Append(r, e)) /\ Len(Append(r, e)) = Len(r) + 1
      /\ InOrder(Append(r, t)) /\ Len(Append(r, t)) = Len(r) + 1
  BY <1>2, <1>5, AppendInOrder
<1>8. InOrder(Append(Append(r, e), t))
  <2> DEFINE s == Append(r, e)
  <2>1. InOrder(s) /\ Len(s) + 1 = Len(r) + 2 BY <1>2, <1>7
  <2> HIDE DEF s
  <2>2. HasRoom(t, Len(s) + 1) BY <1>5, <2>1
  <2>3. InOrder(Append(s, t)) BY <1>5, <2>1, <2>2, AppendInOrder
  <2> QED BY <2>3 DEF s
<1>9. r \in Seq(Tasks) BY <1>2 DEF InOrder
<1>10. CASE do_else /\ do_then
  <2> DEFINE both == <<e>> \o <<t>>
  <2>1. PushTasks(both) BY <1>6, <1>10
  <2>2. Len(both) = 2 /\ r \o both = Append(Append(r, e), t) BY <1>5, <1>9
  <2> HIDE DEF both
  <2> QED BY <1>2, <1>5, <1>8, <2>1, <2>2 DEF PushTasks, r
<1>11. CASE do_else /\ ~do_then
  <2>1. PushTasks(<<e>>) BY <1>5, <1>6, <1>11
  <2>2. r \o <<e>> = Append(r, e) BY <1>5, <1>9
  <2> QED BY <1>2, <1>5, <1>7, <2>1, <2>2 DEF PushTasks, r
<1>12. CASE ~do_else /\ do_then
  <2>1. PushTasks(<<t>>) BY <1>5, <1>6, <1>12
  <2>2. r \o <<t>> = Append(r, t) BY <1>5, <1>9
  <2> QED BY <1>2, <1>5, <1>7, <2>1, <2>2 DEF PushTasks, r
<1>13. CASE ~do_else /\ ~do_then
  <2>1. PushTasks(<<>>) BY <1>6, <1>13
  <2>2. r \o <<>> = r /\ Len(r) + 0 <= Slots
    BY <1>2, <1>3, <1>5, <1>9, RootHasRoom
  <2> QED BY <1>2, <2>1, <2>2 DEF PushTasks, r
<1> QED BY <1>10, <1>11, <1>12, <1>13

(* The steps of a tree depend on the tree alone. *)
LEMMA SameTree ==
  ASSUME ast' = ast, InOrder(tasks')
  PROVE  InOrder(tasks)'
<1>1. \A n : EvalSteps(n)' = EvalSteps(n) BY DEF EvalSteps, Push, Call
<1>2. \A t : Steps(t)' = Steps(t) BY <1>1 DEF Steps, Call
<1>3. Slots' = Slots BY DEF Slots, Root
<1>4. \A t : TaskOK(t) => TaskOK(t)' BY <1>2 DEF TaskOK
<1>5. \A t, k : HasRoom(t, k) => HasRoom(t, k)' BY <1>3 DEF HasRoom, HeightOf
<1> QED BY <1>4, <1>5 DEF InOrder

(* Every step of a walk keeps the order of the tasks, and so their room. *)
LEMMA WalkStep ==
  ASSUME WalkInv, [WalkNext]_walker
  PROVE  WalkInv'
<1>0. ast \in Trees /\ InOrder(tasks) /\ status # "task stack overflow"
  BY DEF WalkInv, TasksFit
<1>1. CASE Begin
  <2>1. InOrder(tasks') BY <1>0, <1>1, RootHasRoom DEF Begin
  <2>2. ast' = ast /\ status' = "walking" BY <1>1 DEF Begin
  <2> QED BY <1>0, <2>1, <2>2, SameTree DEF WalkInv, TasksFit
<1>2. CASE End
  <2>1. ast' = ast /\ tasks' = tasks /\ status' = "success" BY <1>2 DEF End
  <2> QED BY <1>0, <2>1, SameTree DEF WalkInv, TasksFit
<1>3. CASE Descend
  BY <1>0, <1>3, DescendFits, SameTree DEF WalkInv, TasksFit
<1>4. CASE Skip
  <2>1. InOrder(tasks')
    BY <1>0, <1>4, FrontInOrder DEF Skip, Walking, Below
  <2>2. ast' = ast /\ status' = status BY <1>4 DEF Skip
  <2> QED BY <1>0, <2>1, <2>2, SameTree DEF WalkInv, TasksFit
<1>5. CASE Misplaced
  <2>1. ast' = ast /\ tasks' = tasks /\ status' = "unknown node kind for mode REFRENCE"
    BY <1>5 DEF Misplaced
  <2> QED BY <1>0, <2>1, SameTree DEF WalkInv, TasksFit
<1>6. ASSUME NEW op \in Operations, Called(op) PROVE WalkInv'
  <2>1. InOrder(Resumed) BY <1>6, ResumedInOrder DEF Called, OnNode
  <2>2. ast' = ast /\ tasks' = Resumed /\ status' = status BY <1>6 DEF Called
  <2> QED BY <1>0, <2>1, <2>2, SameTree DEF WalkInv, TasksFit
<1>7. ASSUME NEW op \in Operations \cup {"descisions"}, Raised(op, status') PROVE WalkInv'
  <2>1. ast' = ast /\ tasks' = tasks /\ status' # "task stack overflow"
    BY <1>7 DEF Raised, Messages
  <2> QED BY <1>0, <2>1, SameTree DEF WalkInv, TasksFit
<1>8. ASSUME NEW do_then \in BOOLEAN, NEW do_else \in BOOLEAN, Decided(do_then, do_else)
      PROVE  WalkInv'
  BY <1>0, <1>8, DecidedFits, SameTree DEF WalkInv, TasksFit
<1>9. CASE UNCHANGED walker
  <2>1. ast' = ast /\ tasks' = tasks /\ status' = status BY <1>9 DEF walker
  <2> QED BY <1>0, <2>1, SameTree DEF WalkInv, TasksFit
<1> QED BY <1>1, <1>2, <1>3, <1>4, <1>5, <1>6, <1>7, <1>8, <1>9 DEF WalkNext

LEMMA WalkStarts == WalkInit => WalkInv
<1> SUFFICES ASSUME WalkInit PROVE WalkInv OBVIOUS
<1>1. ast \in Trees /\ tasks = <<>> /\ status = "success" BY DEF WalkInit
<1>2. InOrder(<<>>) BY DEF InOrder
<1> QED BY <1>1, <1>2 DEF WalkInv, TasksFit

(* The task stack is big enough for every tree, whatever the operations    *)
(* answer and whenever they fail (walker.c:29-36 never raises its "task    *)
(* stack overflow" under the size its callers compute).                    *)
THEOREM WalkerHasRoom == AnyWalk => []TasksFit
<1>1. WalkInit => WalkInv BY WalkStarts
<1>2. WalkInv /\ [WalkNext]_walker => WalkInv' BY WalkStep
<1>3. WalkInv => TasksFit BY DEF WalkInv
<1> QED BY <1>1, <1>2, <1>3, PTL DEF AnyWalk
-----------------------------------------------------------------------------
LEMMA CalledIsStep ==
  ASSUME NEW op \in Operations, Called(op) PROVE WalkNext
BY DEF WalkNext

LEMMA RaisedIsStep ==
  ASSUME NEW op \in Operations \cup {"descisions"}, NEW error, Raised(op, error)
  PROVE  WalkNext
<1>1. Raised(op, status') BY DEF Raised
<1> QED BY <1>1 DEF WalkNext

LEMMA DecidedIsStep ==
  ASSUME NEW do_then \in BOOLEAN, NEW do_else \in BOOLEAN, Decided(do_then, do_else)
  PROVE  WalkNext
BY DEF WalkNext

LEMMA CheckStepIsStep == CheckStep => WalkNext
<1> USE CalledIsStep, RaisedIsStep, DecidedIsStep DEF Operations
<1>1. CheckValue => WalkNext BY DEF CheckValue
<1>2. CheckIdentifier => WalkNext BY DEF CheckIdentifier
<1>3. CheckExpr => WalkNext BY DEF CheckExpr
<1>4. CheckUExpr => WalkNext BY DEF CheckUExpr
<1>5. CheckIfCond => WalkNext BY DEF CheckIfCond
<1>6. CheckBoth => WalkNext BY DEF CheckBoth
<1>7. CheckIfPost => WalkNext BY DEF CheckIfPost
<1>8. CheckIfExprPost => WalkNext BY DEF CheckIfExprPost
<1>9. CheckDefine => WalkNext BY DEF CheckDefine
<1>10. CheckAssign \/ CheckEcho => WalkNext BY DEF CheckAssign, CheckEcho
<1>11. CheckScopePush \/ CheckScopePop => WalkNext BY DEF CheckScopePush, CheckScopePop
<1>12. Descend \/ Skip \/ Misplaced \/ End => WalkNext BY DEF WalkNext
<1> QED BY <1>1, <1>2, <1>3, <1>4, <1>5, <1>6, <1>7, <1>8, <1>9, <1>10, <1>11, <1>12
        DEF CheckStep

LEMMA PushedIsStep ==
  ASSUME NEW op \in Operations, NEW v, Pushed(op, v) PROVE WalkNext
<1>1. Called(op) \/ Raised(op, "stack overflow") BY DEF Pushed
<1> QED BY <1>1, CalledIsStep, RaisedIsStep

LEMMA UnknownIsStep ==
  ASSUME NEW op \in Operations, NEW message, Unknown(op, message) PROVE WalkNext
BY RaisedIsStep DEF Unknown

LEMMA ExecStepIsStep == ExecStep => WalkNext
<1> USE CalledIsStep, RaisedIsStep, DecidedIsStep, PushedIsStep, UnknownIsStep DEF Operations
<1>1. ValueOf => WalkNext BY DEF ValueOf
<1>2. ApplyIdentifier => WalkNext BY DEF ApplyIdentifier
<1>3. ApplyIdentifierRef => WalkNext BY DEF ApplyIdentifierRef
<1>4. ApplyExpr => WalkNext BY DEF ApplyExpr
<1>5. ApplyUExpr => WalkNext BY DEF ApplyUExpr
<1>6. ApplyIfCond => WalkNext BY DEF ApplyIfCond
<1>7. Descide => WalkNext
  <2>1. (Last1 # 0) \in BOOLEAN /\ (Last1 = 0) \in BOOLEAN OBVIOUS
  <2> QED BY <2>1 DEF Descide
<1>8. IfPost => WalkNext BY DEF IfPost
<1>9. ApplyEcho => WalkNext BY DEF ApplyEcho
<1>10. ApplyDefine => WalkNext BY DEF ApplyDefine
<1>11. ApplyAssign => WalkNext BY DEF ApplyAssign
<1>12. ScopePushNew \/ ScopePop => WalkNext BY DEF ScopePushNew, ScopePop
<1>13. Underflow => WalkNext BY DEF Underflow
<1>14. Descend \/ Skip \/ Misplaced \/ End => WalkNext BY DEF WalkNext
<1> QED BY <1>1, <1>2, <1>3, <1>4, <1>5, <1>6, <1>7, <1>8, <1>9, <1>10, <1>11, <1>12,
           <1>13, <1>14
        DEF ExecStep

LEMMA FreeStepIsStep == FreeStep => WalkNext
<1> USE CalledIsStep, DecidedIsStep DEF Operations
<1>1. FreeValue => WalkNext BY DEF FreeValue
<1>2. FreeIdentifier => WalkNext BY DEF FreeIdentifier
<1>3. FreeDefine => WalkNext BY DEF FreeDefine
<1>4. FreeBlock => WalkNext BY DEF FreeBlock
<1>5. FreeNothing => WalkNext BY DEF FreeNothing
<1>6. Descend \/ Skip \/ Misplaced \/ End => WalkNext BY DEF WalkNext
<1> QED BY <1>1, <1>2, <1>3, <1>4, <1>5, <1>6 DEF FreeStep

LEMMA NextIsStep == [Next]_vars => [WalkNext]_walker
<1> SUFFICES ASSUME [Next]_vars PROVE [WalkNext]_walker OBVIOUS
<1>1. CASE RunCheck \/ RunExec \/ RunFree
  BY <1>1 DEF RunCheck, RunExec, RunFree, CheckBegin, ExecBegin, FreeBegin, WalkNext
<1>2. CASE CheckStep BY <1>2, CheckStepIsStep
<1>3. CASE ExecStep BY <1>3, ExecStepIsStep
<1>4. CASE FreeStep BY <1>4, FreeStepIsStep
<1>5. CASE UNCHANGED vars BY <1>5 DEF vars
<1> QED BY <1>1, <1>2, <1>3, <1>4, <1>5 DEF Next

(* A program is checked, run and freed by walks, and a tree is never       *)
(* exchanged for another: what holds of any walk holds of all of them      *)
(* (main.c:42-134, walker.c:55-182).                                       *)
THEOREM ProgramIsWalks == Spec => AnyWalk
<1>1. Init => WalkInit BY DEF Init
<1> QED BY <1>1, NextIsStep, PTL DEF Spec, AnyWalk

(* No program, of whatever shape or height, makes the interpreter, the     *)
(* checker or the freeing of its tree run out of task stack.               *)
THEOREM ProgramsFit == Spec => []TasksFit
BY ProgramIsWalks, WalkerHasRoom, PTL
=============================================================================
