---------------------------- MODULE ProgramProofs ----------------------------
(***************************************************************************)
(* What a program leaves on the stacks of the machine and of the checker   *)
(* while it is walked; what is left of its tree while it is freed; and how *)
(* a program that was accepted may end.                                    *)
(***************************************************************************)
EXTENDS WalkerProofs, FiniteSetTheorems, NaturalsInduction, WellFoundedInduction

(* The steps of a node by its kind. *)
LEMMA StepsByKind ==
  ASSUME NEW n
  PROVE  LET kind == ast[n].kind
             kid(k) == Push(ast[n].kids[k], "EVAL")
         IN  /\ kind = "value" => EvalSteps(n) = <<Call("value_of")>>
             /\ kind = "id"    => EvalSteps(n) = <<Call("apply_identifier")>>
             /\ kind = "expr"  => EvalSteps(n) = <<kid(1), kid(2), Call("apply_expr")>>
             /\ kind = "uexpr" => EvalSteps(n) = <<kid(1), Call("apply_uexpr")>>
             /\ kind = "echo"  => EvalSteps(n) = <<kid(1), Call("apply_echo")>>
             /\ kind = "if" =>
                  EvalSteps(n) = <<kid(1), Call("apply_if_cond"), Call("descisions"),
                                   Call("apply_if_post")>>
             /\ kind = "ifexpr" =>
                  EvalSteps(n) = <<kid(1), Call("apply_if_cond"), Call("descisions"),
                                   Call("apply_ifexpr_post")>>
             /\ kind = "define" => EvalSteps(n) = <<kid(2), Call("apply_define")>>
             /\ kind = "assign" =>
                  EvalSteps(n) = <<kid(2), Push(ast[n].kids[1], "REFERENCE"),
                                   Call("apply_assign")>>
             /\ kind = "block" =>
                  EvalSteps(n) = <<Call("scope_push_new")>> \o [k \in DOMAIN ast[n].kids |-> kid(k)]
                                                            \o <<Call("scope_pop")>>
BY DEF EvalSteps

(* A sequence between two elements. *)
LEMMA BetweenTwo ==
  ASSUME NEW S, NEW w \in Seq(S), NEW a \in S, NEW b \in S
  PROVE  LET all == <<a>> \o w \o <<b>>
         IN  /\ Len(w) \in Nat /\ Len(all) = Len(w) + 2
             /\ all[1] = a /\ all[Len(w) + 2] = b
             /\ \A k \in 1 .. Len(w) : all[k + 1] = w[k]
<1> DEFINE front == <<a>> \o w
           all   == front \o <<b>>
           l     == Len(w)
<1>1. l \in Nat OBVIOUS
<1>2. front \in Seq(S) /\ Len(front) = l + 1 OBVIOUS
<1>3. front[1] = a OBVIOUS
<1>4. \A k \in 1 .. l : front[k + 1] = w[k] OBVIOUS
<1> HIDE DEF front, l
<1>5. Len(all) = l + 2 BY <1>1, <1>2
<1>6. \A k \in 1 .. l + 1 : all[k] = front[k] BY <1>1, <1>2
<1>7. all[l + 2] = b BY <1>1, <1>2
<1> HIDE DEF all
<1>8. 1 \in 1 .. l + 1 /\ \A k \in 1 .. l : k + 1 \in 1 .. l + 1 BY <1>1
<1>9. all[1] = a /\ \A k \in 1 .. l : all[k + 1] = w[k] BY <1>3, <1>4, <1>6, <1>8
<1> QED BY <1>1, <1>5, <1>7, <1>9 DEF all, front, l

LEMMA StepsOfBlock ==
  ASSUME ast \in Trees, NEW n \in 1 .. Len(ast), ast[n].kind = "block"
  PROVE  LET all == EvalSteps(n)
             last == Len(ast[n].kids)
         IN  /\ last \in Nat /\ Len(all) = last + 2
             /\ all[1] = Call("scope_push_new") /\ all[last + 2] = Call("scope_pop")
             /\ \A k \in 1 .. last : all[k + 1] = Push(ast[n].kids[k], "EVAL")
<1> DEFINE kids == ast[n].kids
           walked == [k \in 1 .. Len(kids) |-> Push(kids[k], "EVAL")]
           all    == <<Call("scope_push_new")>> \o walked \o <<Call("scope_pop")>>
<1>1. IsTree(ast) /\ n \in DOMAIN ast BY TreesAssumption DEF IsTree
<1>2. Len(kids) \in Arity("block") /\ DOMAIN kids = 1 .. Len(kids) BY <1>1 DEF IsTree
<1>3. Len(kids) \in Nat BY <1>2 DEF Arity
<1>4. EvalSteps(n) = all BY <1>2, StepsByKind
<1> DEFINE S == {Push(kids[k], "EVAL") : k \in 1 .. Len(kids)}
                   \cup {Call("scope_push_new"), Call("scope_pop")}
<1>5. walked \in Seq(S) /\ Len(walked) = Len(kids)
      /\ \A k \in 1 .. Len(kids) : walked[k] = Push(kids[k], "EVAL")
  BY <1>3
<1>6. Call("scope_push_new") \in S /\ Call("scope_pop") \in S OBVIOUS
<1> HIDE DEF walked, S
<1>7. Len(all) = Len(kids) + 2 /\ all[1] = Call("scope_push_new")
      /\ all[Len(kids) + 2] = Call("scope_pop")
      /\ \A k \in 1 .. Len(kids) : all[k + 1] = Push(kids[k], "EVAL")
  BY <1>5, <1>6, BetweenTwo
<1> HIDE DEF all
<1> QED BY <1>3, <1>4, <1>7

(* What the next step of a task is: a row for each step of each kind of    *)
(* node, in walker.c:86-163.                                               *)
StepAt(t) ==
  LET kind   == ast[t.node].kind
      size   == Len(Steps(t))
      step   == Steps(t)[t.phase + 1]
      kid(k) == Push(ast[t.node].kids[k], "EVAL")
  IN  \/ /\ t.mode = "REFERENCE" /\ size = 1 /\ t.phase = 0
         /\ step = Call(IF kind = "id" THEN "apply_identifier_ref" ELSE "misplaced")
      \/ /\ t.mode = "EVAL"
         /\ \/ kind = "value" /\ size = 1 /\ t.phase = 0 /\ step = Call("value_of")
            \/ kind = "id" /\ size = 1 /\ t.phase = 0 /\ step = Call("apply_identifier")
            \/ /\ kind = "expr" /\ size = 3
               /\ \/ t.phase \in {0, 1} /\ step = kid(t.phase + 1)
                  \/ t.phase = 2 /\ step = Call("apply_expr")
            \/ /\ kind \in {"uexpr", "echo"} /\ size = 2
               /\ \/ t.phase = 0 /\ step = kid(1)
                  \/ /\ t.phase = 1
                     /\ step = Call(IF kind = "uexpr" THEN "apply_uexpr" ELSE "apply_echo")
            \/ /\ kind = "define" /\ size = 2
               /\ \/ t.phase = 0 /\ step = kid(2)
                  \/ t.phase = 1 /\ step = Call("apply_define")
            \/ /\ kind = "assign" /\ size = 3
               /\ \/ t.phase = 0 /\ step = kid(2)
                  \/ t.phase = 1 /\ step = Push(ast[t.node].kids[1], "REFERENCE")
                  \/ t.phase = 2 /\ step = Call("apply_assign")
            \/ /\ kind \in {"if", "ifexpr"} /\ size = 4
               /\ \/ t.phase = 0 /\ step = kid(1)
                  \/ t.phase = 1 /\ step = Call("apply_if_cond")
                  \/ t.phase = 2 /\ step = Call("descisions")
                  \/ /\ t.phase = 3
                     /\ step = Call(IF kind = "if" THEN "apply_if_post" ELSE "apply_ifexpr_post")
            \/ /\ kind = "block" /\ size = Len(ast[t.node].kids) + 2 /\ size \in Nat \ {0, 1}
               /\ \/ t.phase = 0 /\ step = Call("scope_push_new")
                  \/ t.phase \in 1 .. size - 2 /\ step = kid(t.phase)
                  \/ t.phase = size - 1 /\ step = Call("scope_pop")

LEMMA StepIs ==
  ASSUME ast \in Trees, NEW t \in Tasks, t.node \in 1 .. Len(ast),
         t.phase \in 0 .. Len(Steps(t)) - 1
  PROVE  StepAt(t)
<1> DEFINE n == t.node
           kind == ast[n].kind
           kids == ast[n].kids
           size == Len(Steps(t))
           step == Steps(t)[t.phase + 1]
<1>1. IsTree(ast) /\ n \in DOMAIN ast BY TreesAssumption DEF IsTree
<1>2. kind \in Kinds BY <1>1 DEF IsTree
<1>3. t.mode \in {"EVAL", "REFERENCE"} /\ t.phase \in Nat BY DEF Tasks
<1>4. CASE t.mode = "REFERENCE"
  <2>1. Steps(t) = <<Call(IF kind = "id" THEN "apply_identifier_ref" ELSE "misplaced")>>
    BY <1>4 DEF Steps
  <2>2. size = 1 /\ t.phase = 0 BY <1>3, <2>1
  <2>3. step = Call(IF kind = "id" THEN "apply_identifier_ref" ELSE "misplaced") BY <2>1, <2>2
  <2> QED BY <1>4, <2>2, <2>3 DEF StepAt
<1>5. CASE t.mode = "EVAL"
  <2>1. Steps(t) = EvalSteps(n) BY <1>5 DEF Steps
  <2>2. CASE kind = "value"
    <3>1. Steps(t) = <<Call("value_of")>>
      BY <2>1, <2>2, StepsByKind
    <3>2. size = 1 /\ t.phase \in {0} BY <1>3, <3>1
    <3>3. t.phase = 0 => step = Call("value_of") BY <3>1
    <3> QED BY <1>5, <2>2, <3>2, <3>3 DEF StepAt
  <2>3. CASE kind = "id"
    <3>1. Steps(t) = <<Call("apply_identifier")>>
      BY <2>1, <2>3, StepsByKind
    <3>2. size = 1 /\ t.phase \in {0} BY <1>3, <3>1
    <3>3. t.phase = 0 => step = Call("apply_identifier") BY <3>1
    <3> QED BY <1>5, <2>3, <3>2, <3>3 DEF StepAt
  <2>4. CASE kind = "expr"
    <3>1. Steps(t) = <<Push(kids[1], "EVAL"), Push(kids[2], "EVAL"), Call("apply_expr")>>
      BY <2>1, <2>4, StepsByKind
    <3>2. size = 3 /\ t.phase \in {0, 1, 2} BY <1>3, <3>1
    <3>3. /\ t.phase \in {0, 1} => step = Push(kids[t.phase + 1], "EVAL")
          /\ t.phase = 2 => step = Call("apply_expr")
      BY <3>1
    <3> QED BY <1>5, <2>4, <3>2, <3>3 DEF StepAt
  <2>5. CASE kind = "uexpr"
    <3>1. Steps(t) = <<Push(kids[1], "EVAL"), Call("apply_uexpr")>>
      BY <2>1, <2>5, StepsByKind
    <3>2. size = 2 /\ t.phase \in {0, 1} BY <1>3, <3>1
    <3>3. /\ t.phase = 0 => step = Push(kids[1], "EVAL")
          /\ t.phase = 1 => step = Call("apply_uexpr")
      BY <3>1
    <3> QED BY <1>5, <2>5, <3>2, <3>3 DEF StepAt
  <2>6. CASE kind = "echo"
    <3>1. Steps(t) = <<Push(kids[1], "EVAL"), Call("apply_echo")>>
      BY <2>1, <2>6, StepsByKind
    <3>2. size = 2 /\ t.phase \in {0, 1} BY <1>3, <3>1
    <3>3. /\ t.phase = 0 => step = Push(kids[1], "EVAL")
          /\ t.phase = 1 => step = Call("apply_echo")
      BY <3>1
    <3> QED BY <1>5, <2>6, <3>2, <3>3 DEF StepAt
  <2>7. CASE kind = "define"
    <3>1. Steps(t) = <<Push(kids[2], "EVAL"), Call("apply_define")>>
      BY <2>1, <2>7, StepsByKind
    <3>2. size = 2 /\ t.phase \in {0, 1} BY <1>3, <3>1
    <3>3. /\ t.phase = 0 => step = Push(kids[2], "EVAL")
          /\ t.phase = 1 => step = Call("apply_define")
      BY <3>1
    <3> QED BY <1>5, <2>7, <3>2, <3>3 DEF StepAt
  <2>8. CASE kind = "assign"
    <3>1. Steps(t) = <<Push(kids[2], "EVAL"), Push(kids[1], "REFERENCE"), Call("apply_assign")>>
      BY <2>1, <2>8, StepsByKind
    <3>2. size = 3 /\ t.phase \in {0, 1, 2} BY <1>3, <3>1
    <3>3. /\ t.phase = 0 => step = Push(kids[2], "EVAL")
          /\ t.phase = 1 => step = Push(kids[1], "REFERENCE")
          /\ t.phase = 2 => step = Call("apply_assign")
      BY <3>1
    <3> QED BY <1>5, <2>8, <3>2, <3>3 DEF StepAt
  <2>9. CASE kind = "if"
    <3>1. Steps(t) = <<Push(kids[1], "EVAL"), Call("apply_if_cond"), Call("descisions"), Call("apply_if_post")>>
      BY <2>1, <2>9, StepsByKind
    <3>2. size = 4 /\ t.phase \in {0, 1, 2, 3} BY <1>3, <3>1
    <3>3. /\ t.phase = 0 => step = Push(kids[1], "EVAL")
          /\ t.phase = 1 => step = Call("apply_if_cond")
          /\ t.phase = 2 => step = Call("descisions")
          /\ t.phase = 3 => step = Call("apply_if_post")
      BY <3>1
    <3> QED BY <1>5, <2>9, <3>2, <3>3 DEF StepAt
  <2>10. CASE kind = "ifexpr"
    <3>1. Steps(t) = <<Push(kids[1], "EVAL"), Call("apply_if_cond"), Call("descisions"), Call("apply_ifexpr_post")>>
      BY <2>1, <2>10, StepsByKind
    <3>2. size = 4 /\ t.phase \in {0, 1, 2, 3} BY <1>3, <3>1
    <3>3. /\ t.phase = 0 => step = Push(kids[1], "EVAL")
          /\ t.phase = 1 => step = Call("apply_if_cond")
          /\ t.phase = 2 => step = Call("descisions")
          /\ t.phase = 3 => step = Call("apply_ifexpr_post")
      BY <3>1
    <3> QED BY <1>5, <2>10, <3>2, <3>3 DEF StepAt
  <2>11. CASE kind = "block"
    <3> DEFINE last == Len(kids)
    <3>1. /\ last \in Nat /\ size = last + 2
          /\ Steps(t)[1] = Call("scope_push_new") /\ Steps(t)[last + 2] = Call("scope_pop")
          /\ \A k \in 1 .. last : Steps(t)[k + 1] = Push(kids[k], "EVAL")
      BY <2>1, <2>11, StepsOfBlock
    <3>2. t.phase = 0 \/ t.phase \in 1 .. last \/ t.phase = last + 1 BY <1>3, <3>1
    <3>3. t.phase = 0 => step = Call("scope_push_new") BY <3>1
    <3>4. t.phase \in 1 .. last => step = Push(kids[t.phase], "EVAL") BY <3>1
    <3>5. t.phase = last + 1 => step = Call("scope_pop") BY <3>1
    <3>6. size = last + 2 /\ size \in Nat \ {0, 1} /\ size - 2 = last /\ size - 1 = last + 1
      BY <3>1
    <3> HIDE DEF size, step, last
    <3>7. \/ t.phase = 0 /\ step = Call("scope_push_new")
          \/ t.phase \in 1 .. size - 2 /\ step = Push(kids[t.phase], "EVAL")
          \/ t.phase = size - 1 /\ step = Call("scope_pop")
      BY <3>2, <3>3, <3>4, <3>5, <3>6
    <3> QED BY <1>5, <2>11, <3>6, <3>7 DEF StepAt, size, step, last
  <2> QED BY <1>2, <2>2, <2>3, <2>4, <2>5, <2>6, <2>7, <2>8, <2>9, <2>10, <2>11 DEF Kinds
<1> QED BY <1>3, <1>4, <1>5
-----------------------------------------------------------------------------
(***************************************************************************)
(* Scopes                                                                  *)
(***************************************************************************)
IsSequence(s) == \E S : s \in Seq(S)

Count(s) == Cardinality(Blocks(s))

ScopesInv ==
  /\ WalkInv /\ walk \in 0 .. 4
  /\ IsSequence(scopes) /\ IsSequence(tscopes)
  /\ ScopesMatchTasks

LEMMA SequenceOps ==
  ASSUME NEW s, IsSequence(s)
  PROVE  /\ Len(s) \in Nat
         /\ \A e : IsSequence(Append(s, e)) /\ Len(Append(s, e)) = Len(s) + 1
         /\ \A m \in 0 .. Len(s) : IsSequence(SubSeq(s, 1, m)) /\ Len(SubSeq(s, 1, m)) = m
<1>1. PICK S : s \in Seq(S) BY DEF IsSequence
<1>2. Len(s) \in Nat BY <1>1
<1>3. ASSUME NEW e PROVE IsSequence(Append(s, e)) /\ Len(Append(s, e)) = Len(s) + 1
  <2>1. s \in Seq(S \cup {e}) BY <1>1
  <2>2. Append(s, e) \in Seq(S \cup {e}) /\ Len(Append(s, e)) = Len(s) + 1 BY <2>1
  <2> QED BY <2>2 DEF IsSequence
<1>4. ASSUME NEW m \in 0 .. Len(s)
      PROVE  IsSequence(SubSeq(s, 1, m)) /\ Len(SubSeq(s, 1, m)) = m
  <2>1. m \in Nat /\ m <= Len(s) BY <1>2
  <2>2. \A i \in 1 .. m : s[i] \in S BY <1>1, <2>1
  <2>3. SubSeq(s, 1, m) \in Seq(S) /\ Len(SubSeq(s, 1, m)) = m BY <2>1, <2>2
  <2> QED BY <2>3 DEF IsSequence
<1> QED BY <1>2, <1>3, <1>4

LEMMA SequenceExcept ==
  ASSUME NEW s, IsSequence(s), NEW i, NEW e
  PROVE  IsSequence([s EXCEPT ![i] = e]) /\ Len([s EXCEPT ![i] = e]) = Len(s)
<1> DEFINE t == [s EXCEPT ![i] = e]
<1>1. PICK S : s \in Seq(S) BY DEF IsSequence
<1>2. DOMAIN t = 1 .. Len(s) /\ \A k \in 1 .. Len(s) : t[k] = IF k = i THEN e ELSE s[k]
  BY <1>1
<1>3. t = [k \in 1 .. Len(s) |-> t[k]] /\ Len(s) \in Nat BY <1>1
<1>4. \A k \in 1 .. Len(s) : t[k] \in S \cup {e} BY <1>1, <1>2
<1> HIDE DEF t
<1>5. [k \in 1 .. Len(s) |-> t[k]] \in Seq(S \cup {e})
      /\ Len([k \in 1 .. Len(s) |-> t[k]]) = Len(s)
  BY <1>3, <1>4
<1>6. t \in Seq(S \cup {e}) /\ Len(t) = Len(s) BY <1>3, <1>5
<1> QED BY <1>6 DEF IsSequence, t

(* A set of positions of a sequence, and the one behind its end. *)
LEMMA OneMore ==
  ASSUME NEW n \in Nat, NEW S \in SUBSET (1 .. n)
  PROVE  /\ Cardinality(S) \in Nat /\ Cardinality(S) <= n
         /\ Cardinality(S \cup {n + 1}) = Cardinality(S) + 1
<1>1. IsFiniteSet(1 .. n) /\ Cardinality(1 .. n) = n BY FS_Interval
<1>2. IsFiniteSet(S) /\ Cardinality(S) <= n BY <1>1, FS_Subset
<1>3. n + 1 \notin S OBVIOUS
<1> QED BY <1>2, <1>3, FS_AddElement, FS_CardinalityType

LEMMA BlocksOfAppend ==
  ASSUME NEW s \in Seq(Tasks), NEW t \in Tasks
  PROVE  /\ Count(s) \in Nat
         /\ Count(Append(s, t)) = Count(s) + (IF Entered(t) THEN 1 ELSE 0)
<1>1. Len(s) \in Nat /\ Blocks(s) \in SUBSET (1 .. Len(s)) BY DEF Blocks
<1>2. Entered(t) => Blocks(Append(s, t)) = Blocks(s) \cup {Len(s) + 1} BY DEF Blocks
<1>3. ~Entered(t) => Blocks(Append(s, t)) = Blocks(s) BY DEF Blocks
<1>4. Entered(t) => Count(Append(s, t)) = Cardinality(Blocks(s) \cup {Len(s) + 1})
  BY <1>2, Zenon DEF Count
<1>5. ~Entered(t) => Count(Append(s, t)) = Count(s) BY <1>3, Zenon DEF Count
<1>6. Count(s) \in Nat /\ Cardinality(Blocks(s) \cup {Len(s) + 1}) = Count(s) + 1
  BY <1>1, OneMore DEF Count
<1> QED BY <1>4, <1>5, <1>6

LEMMA NoBlocks == Count(<<>>) = 0
<1>1. Blocks(<<>>) = {} BY DEF Blocks
<1> QED BY <1>1, FS_EmptySet, Zenon DEF Count

(* The stack is what is below its top, and the top. *)
LEMMA TasksAre ==
  ASSUME WalkInv, tasks # <<>>
  PROVE  /\ Below \in Seq(Tasks) /\ Top \in Tasks /\ tasks = Append(Below, Top)
         /\ Len(tasks) \in Nat \ {0} /\ Len(Below) = Len(tasks) - 1
         /\ \A k \in 1 .. Len(Below) : Below[k] = tasks[k]
<1>1. InOrder(tasks) /\ tasks \in Seq(Tasks) BY DEF WalkInv, InOrder
<1>2. Len(tasks) \in Nat \ {0} /\ Len(Below) = Len(tasks) - 1 /\ InOrder(Below)
  BY <1>1, FrontInOrder DEF Below
<1>3. Below \in Seq(Tasks) BY <1>2 DEF InOrder
<1>4. Top \in Tasks BY <1>1, <1>2 DEF Top
<1>5. \A k \in 1 .. Len(Below) : Below[k] = tasks[k] BY <1>1, <1>2 DEF Below
<1>6. tasks = Append(Below, Top) BY <1>1, <1>2, <1>3, <1>4, <1>5 DEF Top
<1> QED BY <1>2, <1>3, <1>4, <1>5, <1>6

(* The task on top, its step, and what it goes on as. *)
LEMMA TopIs ==
  ASSUME WalkInv, Walking, Top.node # NULL
  PROVE  LET t == [Top EXCEPT !.phase = @ + 1]
         IN  /\ Top \in Tasks /\ Top.node \in 1 .. Len(ast) /\ Top.phase \in Nat
             /\ Len(Steps(Top)) \in Nat /\ StepAt(Top)
             /\ Step = Steps(Top)[Top.phase + 1]
             /\ t \in Tasks /\ t.node = Top.node /\ t.phase = Top.phase + 1 /\ t.mode = Top.mode
             /\ Steps(t) = Steps(Top)
<1>1. /\ Top.node \in 1 .. Len(ast) /\ Top \in Tasks
      /\ Top.phase + 1 \in 1 .. Len(Steps(Top))
  BY ResumedInOrder
<1>2. Top.phase \in Nat /\ Len(Steps(Top)) \in Nat BY <1>1, StepsOfTask DEF WalkInv, Tasks
<1>3. Top.phase \in 0 .. Len(Steps(Top)) - 1 BY <1>1, <1>2
<1>4. StepAt(Top) BY <1>1, <1>3, StepIs DEF WalkInv
<1> DEFINE t == [Top EXCEPT !.phase = @ + 1]
<1>5. t \in Tasks /\ t.node = Top.node /\ t.phase = Top.phase + 1 /\ t.mode = Top.mode
  BY <1>1, <1>2 DEF Tasks
<1>6. Steps(t) = Steps(Top) BY <1>5 DEF Steps
<1> QED BY <1>1, <1>2, <1>4, <1>5, <1>6 DEF Step

LEMMA ResumedCount ==
  ASSUME WalkInv, Walking, Top.node # NULL
  PROVE  /\ Resumed \in Seq(Tasks) /\ Count(tasks) \in Nat
         /\ Step.does = "scope_push_new" => Count(Resumed) = Count(tasks) + 1
         /\ Step.does = "scope_pop" => Count(Resumed) = Count(tasks) - 1
         /\ Step.does \notin {"scope_push_new", "scope_pop"} => Count(Resumed) = Count(tasks)
<1> DEFINE t == [Top EXCEPT !.phase = @ + 1]
           size == Len(Steps(Top))
           does == Steps(Top)[Top.phase + 1].does
           e(u) == IF Entered(u) THEN 1 ELSE 0
<1>1. tasks # <<>> BY DEF Walking
<1>2. Below \in Seq(Tasks) /\ Top \in Tasks /\ tasks = Append(Below, Top)
  BY <1>1, TasksAre
<1>3. /\ Top.node \in 1 .. Len(ast) /\ Top.phase \in Nat
      /\ size \in Nat /\ StepAt(Top) /\ Step.does = does
      /\ t \in Tasks /\ t.node = Top.node /\ t.phase = Top.phase + 1
  BY TopIs
<1>4. Count(Below) \in Nat /\ Count(tasks) = Count(Below) + e(Top) BY <1>2, BlocksOfAppend
<1>5. Count(Append(Below, t)) = Count(Below) + e(t) BY <1>2, <1>3, BlocksOfAppend
<1>6. Resumed = IF Top.phase + 1 = size THEN Below ELSE Append(Below, t)
  BY DEF Resumed, IsLast
<1>7. Resumed \in Seq(Tasks) BY <1>2, <1>3, <1>6
<1> DEFINE kind == ast[Top.node].kind
<1>8. /\ kind = "block" /\ Top.mode = "EVAL" =>
           \/ Top.phase = 0 /\ size > 1 /\ does = "scope_push_new"
           \/ Top.phase \in 1 .. size - 2 /\ does = "push"
           \/ Top.phase = size - 1 /\ size > 1 /\ does = "scope_pop"
      /\ Top.mode # "EVAL" => Top.phase = 0 /\ size = 1
      /\ kind # "block" \/ Top.mode # "EVAL" => does \notin {"scope_push_new", "scope_pop"}
  <2>1. kind = "block" /\ Top.mode = "EVAL" =>
           \/ Top.phase = 0 /\ size > 1 /\ does = "scope_push_new"
           \/ Top.phase \in 1 .. size - 2 /\ does = "push"
           \/ Top.phase = size - 1 /\ size > 1 /\ does = "scope_pop"
    BY <1>3 DEF StepAt, Push, Call
  <2>2. Top.mode # "EVAL" => Top.phase = 0 /\ size = 1 BY <1>3 DEF StepAt
  <2>3. kind # "block" \/ Top.mode # "EVAL" => does \notin {"scope_push_new", "scope_pop"}
    BY <1>3 DEF StepAt, Push, Call
  <2> QED BY <2>1, <2>2, <2>3
<1>9. e(Top) = (IF Top.phase > 0 /\ kind = "block" THEN 1 ELSE 0)
      /\ e(t) = (IF kind = "block" THEN 1 ELSE 0)
  BY <1>3 DEF Entered, NULL
<1> HIDE DEF t, size, does, kind, e
<1>10. CASE kind = "block" /\ Top.mode = "EVAL"
  BY <1>3, <1>4, <1>5, <1>6, <1>7, <1>8, <1>9, <1>10
<1>11. CASE kind # "block"
  BY <1>3, <1>4, <1>5, <1>6, <1>7, <1>8, <1>9, <1>11
<1>12. CASE Top.mode # "EVAL"
  BY <1>3, <1>4, <1>5, <1>6, <1>7, <1>8, <1>9, <1>12
<1> QED BY <1>10, <1>11, <1>12

(* A task that was not begun yet is no block in progress. *)
LEMMA PushCounts ==
  ASSUME WalkInv, NEW s \in Seq(Tasks), NEW new \in Seq(Tasks), Len(new) <= 2,
         \A i \in 1 .. Len(new) : new[i].phase = 0
  PROVE  Count(s \o new) = Count(s)
<1>1. ASSUME NEW t \in Tasks, t.phase = 0 PROVE ~Entered(t) BY <1>1 DEF Entered
<1>2. Len(s \o new) = Len(s) + Len(new) /\ Len(s) \in Nat /\ Len(new) \in Nat OBVIOUS
<1>3. \A k \in 1 .. Len(s) : (s \o new)[k] = s[k] OBVIOUS
<1>4. ASSUME NEW k \in 1 .. Len(s) + Len(new), k \notin 1 .. Len(s)
      PROVE  ~Entered((s \o new)[k])
  <2>1. PICK i \in 1 .. Len(new) : k = Len(s) + i BY <1>2, <1>4
  <2>2. (s \o new)[k] = new[i] /\ new[i] \in Tasks BY <2>1
  <2> QED BY <1>1, <2>2
<1>5. Blocks(s \o new) = Blocks(s)
  <2> DEFINE all == s \o new
  <2>1. DOMAIN all = 1 .. Len(s) + Len(new) /\ DOMAIN s = 1 .. Len(s)
    <3>1. all \in Seq(Tasks) OBVIOUS
    <3> QED BY <3>1, <1>2
  <2> HIDE DEF all
  <2>2. \A k \in 1 .. Len(s) : k \in 1 .. Len(s) + Len(new) BY <1>2
  <2>3. \A k : k \in Blocks(all) <=> k \in Blocks(s)
    BY <1>3, <1>4, <2>1, <2>2 DEF Blocks, all
  <2> QED BY <2>3 DEF all, Blocks
<1> QED BY <1>5, Zenon DEF Count

(* Every step of a walk but the two that are about scopes leaves as many   *)
(* blocks in progress as there were.                                       *)
SameCount == Count(tasks') = Count(tasks)

LEMMA CalledCounts ==
  ASSUME WalkInv, NEW op, Called(op)
  PROVE  /\ op = "scope_push_new" => Count(tasks') = Count(tasks) + 1
         /\ op = "scope_pop" => Count(tasks') = Count(tasks) - 1
         /\ op \notin {"scope_push_new", "scope_pop"} => SameCount
         /\ Count(tasks) \in Nat /\ UNCHANGED <<ast, status>>
<1>1. Walking /\ Top.node # NULL /\ Step.does = op /\ tasks' = Resumed /\ UNCHANGED <<ast, status>>
  BY DEF Called, OnNode
<1> QED BY <1>1, ResumedCount DEF SameCount

LEMMA CalledCountIsNat ==
  ASSUME WalkInv, NEW op, Called(op)
  PROVE  Count(tasks') \in Nat
<1>1. Walking /\ Top.node # NULL /\ tasks' = Resumed BY DEF Called, OnNode
<1>2. Resumed \in Seq(Tasks) /\ Top \in Tasks BY <1>1, ResumedCount, TopIs
<1>3. Count(Resumed) \in Nat BY <1>2, BlocksOfAppend
<1> QED BY <1>1, <1>3

LEMMA PushedCounts ==
  ASSUME WalkInv, Walking, Top.node # NULL, Step.does \in {"push", "descisions"},
         NEW new \in Seq(Tasks), Len(new) <= 2, \A i \in 1 .. Len(new) : new[i].phase = 0,
         PushTasks(new)
  PROVE  SameCount /\ UNCHANGED ast
<1>1. Resumed \in Seq(Tasks) /\ Count(Resumed) = Count(tasks) BY ResumedCount
<1>2. Count(Resumed \o new) = Count(Resumed) BY <1>1, PushCounts
<1>3. (tasks' = Resumed \o new \/ tasks' = tasks) /\ UNCHANGED ast BY DEF PushTasks
<1> QED BY <1>1, <1>2, <1>3 DEF SameCount

LEMMA DescendCounts ==
  ASSUME WalkInv, Descend
  PROVE  SameCount /\ UNCHANGED ast
<1>1. Walking /\ Top.node # NULL /\ Step.does = "push" BY DEF Descend, OnNode
<1>2. /\ Top.node \in 1 .. Len(ast) /\ Top \in Tasks /\ Top.phase + 1 \in 1 .. Len(Steps(Top))
      /\ ast \in Trees
  BY <1>1, ResumedInOrder DEF WalkInv
<1>3. /\ Step.mode \in {"EVAL", "REFERENCE"}
      /\ \E k \in DOMAIN ast[Top.node].kids : Step.kid = ast[Top.node].kids[k]
  BY <1>1, <1>2, StepsOfTask DEF Step
<1>4. Step.kid \in Nat BY <1>2, <1>3, KidIsLower
<1>5. Task(Step.kid, Step.mode) \in Tasks /\ Task(Step.kid, Step.mode).phase = 0
  BY <1>3, <1>4 DEF Task, Tasks
<1> DEFINE new == <<Task(Step.kid, Step.mode)>>
<1>6. new \in Seq(Tasks) /\ Len(new) <= 2 /\ \A i \in 1 .. Len(new) : new[i].phase = 0 BY <1>5
<1>7. PushTasks(new) BY DEF Descend
<1> HIDE DEF new
<1> QED BY <1>1, <1>6, <1>7, PushedCounts

LEMMA DecidedCounts ==
  ASSUME WalkInv, NEW do_then \in BOOLEAN, NEW do_else \in BOOLEAN, Decided(do_then, do_else)
  PROVE  SameCount /\ UNCHANGED ast
<1> DEFINE e == Task(ast[Top.node].kids[3], "EVAL")
           t == Task(ast[Top.node].kids[2], "EVAL")
           new == (IF do_else THEN <<e>> ELSE <<>>) \o (IF do_then THEN <<t>> ELSE <<>>)
<1>1. Walking /\ Top.node # NULL /\ Step.does = "descisions" BY DEF Decided, OnNode
<1>2. /\ Top.node \in 1 .. Len(ast) /\ Top \in Tasks /\ Top.phase + 1 \in 1 .. Len(Steps(Top))
      /\ ast \in Trees
  BY <1>1, ResumedInOrder DEF WalkInv
<1>3. 2 \in DOMAIN ast[Top.node].kids /\ 3 \in DOMAIN ast[Top.node].kids
  BY <1>1, <1>2, OnlyIfsDecide DEF Step
<1>4. ast[Top.node].kids[2] \in Nat /\ ast[Top.node].kids[3] \in Nat BY <1>2, <1>3, KidIsLower
<1>5. e \in Tasks /\ e.phase = 0 /\ t \in Tasks /\ t.phase = 0 BY <1>4 DEF Task, Tasks
<1> HIDE DEF e, t
<1>6. new \in Seq(Tasks) /\ Len(new) <= 2 /\ \A i \in 1 .. Len(new) : new[i].phase = 0
  <2>1. CASE do_else /\ do_then
    <3>1. new = <<e>> \o <<t>> BY <2>1
    <3>2. Len(new) = 2 /\ new[1] = e /\ new[2] = t /\ new \in Seq(Tasks) BY <1>5, <3>1
    <3> QED BY <1>5, <3>2
  <2>2. CASE do_else /\ ~do_then
    <3>1. new = <<e>> BY <1>5, <2>2
    <3> QED BY <1>5, <3>1
  <2>3. CASE ~do_else /\ do_then
    <3>1. new = <<t>> BY <1>5, <2>3
    <3> QED BY <1>5, <3>1
  <2>4. CASE ~do_else /\ ~do_then
    <3>1. new = <<>> BY <2>4
    <3> QED BY <3>1
  <2> QED BY <2>1, <2>2, <2>3, <2>4
<1>7. PushTasks(new) BY DEF Decided, e, t
<1> HIDE DEF new
<1> QED BY <1>1, <1>6, <1>7, PushedCounts

LEMMA RestCounts ==
  ASSUME WalkInv
  PROVE  /\ Skip \/ Misplaced \/ End => SameCount /\ UNCHANGED ast
         /\ \A op, error : Raised(op, error) => SameCount /\ UNCHANGED ast
<1>1. ASSUME Skip PROVE SameCount /\ UNCHANGED ast
  <2>1. tasks # <<>> /\ Top.node = NULL /\ tasks' = Below /\ UNCHANGED ast BY <1>1 DEF Skip, Walking
  <2>2. Below \in Seq(Tasks) /\ Top \in Tasks /\ tasks = Append(Below, Top)
    BY <2>1, TasksAre
  <2>3. Count(tasks) = Count(Below) + 0 /\ Count(Below) \in Nat
    BY <2>1, <2>2, BlocksOfAppend DEF Entered
  <2> QED BY <2>1, <2>3 DEF SameCount
<1>2. ASSUME Misplaced \/ End PROVE SameCount /\ UNCHANGED ast
  BY <1>2 DEF SameCount, Misplaced, End
<1>3. ASSUME NEW op, NEW error, Raised(op, error) PROVE SameCount /\ UNCHANGED ast
  BY <1>3 DEF SameCount, Raised
<1> QED BY <1>1, <1>2, <1>3
LEMMA TreeStays == WalkNext => UNCHANGED ast
BY DEF WalkNext, Begin, End, Descend, Skip, Misplaced, Called, Raised, Decided, PushTasks
-----------------------------------------------------------------------------
(* The checker's steps: its scopes are as many more, or fewer, as the      *)
(* blocks in progress.                                                     *)
LEMMA CheckCounts ==
  ASSUME WalkInv, IsSequence(tscopes), CheckStep, Len(tscopes) = Count(tasks)
  PROVE  /\ Len(tscopes') = Count(tasks') /\ IsSequence(tscopes') /\ UNCHANGED ast
<1> DEFINE Same == SameCount /\ UNCHANGED <<tscopes, ast>>
<1>1. ASSUME NEW op, Called(op), op \notin {"scope_push_new", "scope_pop"} PROVE SameCount /\ UNCHANGED ast
  BY <1>1, CalledCounts
<1>2. ASSUME NEW op, NEW error, Raised(op, error) PROVE SameCount /\ UNCHANGED ast
  BY <1>2, RestCounts
<1>3. CheckValue => Same BY <1>1 DEF CheckValue
<1>4. CheckIdentifier => Same BY <1>1, <1>2 DEF CheckIdentifier, checker
<1>5. CheckExpr => Same BY <1>1, <1>2 DEF CheckExpr, checker
<1>6. CheckUExpr => Same BY <1>1, <1>2 DEF CheckUExpr, checker
<1>7. CheckIfCond => Same BY <1>1, <1>2 DEF CheckIfCond, checker
<1>8. CheckBoth => Same BY DecidedCounts DEF CheckBoth, checker
<1>9. CheckIfPost => Same BY <1>1 DEF CheckIfPost
<1>10. CheckIfExprPost => Same BY <1>1, <1>2 DEF CheckIfExprPost, checker
<1>11. CheckAssign \/ CheckEcho => Same BY <1>1 DEF CheckAssign, CheckEcho, checker
<1>12. (Descend \/ Skip \/ Misplaced \/ End) /\ UNCHANGED checker => Same
  BY DescendCounts, RestCounts DEF checker
<1> HIDE DEF Same
<1>13. CASE Same BY <1>13 DEF Same, SameCount
<1>14. CASE CheckDefine
  <2>1. SameCount /\ UNCHANGED ast BY <1>1, <1>2, <1>14 DEF CheckDefine
  <2>2. \/ tscopes' = tscopes
        \/ \E e : tscopes' = [tscopes EXCEPT ![Len(tscopes)] = e]
    BY <1>14 DEF CheckDefine, checker
  <2>3. Len(tscopes') = Len(tscopes) /\ IsSequence(tscopes')
    <3>1. CASE tscopes' = tscopes BY <3>1
    <3>2. CASE \E e : tscopes' = [tscopes EXCEPT ![Len(tscopes)] = e]
      <4>1. PICK e : tscopes' = [tscopes EXCEPT ![Len(tscopes)] = e] BY <3>2
      <4>2. IsSequence([tscopes EXCEPT ![Len(tscopes)] = e])
            /\ Len([tscopes EXCEPT ![Len(tscopes)] = e]) = Len(tscopes)
        BY SequenceExcept
      <4> QED BY <4>1, <4>2, Zenon
    <3> QED BY <2>2, <3>1, <3>2
  <2> QED BY <2>1, <2>3 DEF SameCount
<1>15. CASE CheckScopePush
  <2>1. Called("scope_push_new") /\ tscopes' = Append(tscopes, <<>>) BY <1>15 DEF CheckScopePush
  <2>2. Count(tasks') = Count(tasks) + 1 /\ UNCHANGED ast BY <2>1, CalledCounts
  <2> QED BY <2>1, <2>2, SequenceOps
<1>16. CASE CheckScopePop
  <2>1. Called("scope_pop") /\ tscopes' = SubSeq(tscopes, 1, Len(tscopes) - 1)
    BY <1>16 DEF CheckScopePop
  <2>2. Count(tasks') = Count(tasks) - 1 /\ Count(tasks) \in Nat /\ UNCHANGED ast
    BY <2>1, CalledCounts
  <2>3. Count(tasks') \in Nat BY <2>1, CalledCountIsNat
  <2>4. Len(tscopes) \in Nat /\ Len(tscopes) > 0 BY <2>2, <2>3
  <2> DEFINE m == Len(tscopes) - 1
  <2>5. m \in 0 .. Len(tscopes) BY <2>4
  <2> HIDE DEF m
  <2>6. IsSequence(SubSeq(tscopes, 1, m)) /\ Len(SubSeq(tscopes, 1, m)) = m BY <2>5, SequenceOps
  <2> QED BY <2>1, <2>2, <2>6 DEF m
<1> QED BY <1>3, <1>4, <1>5, <1>6, <1>7, <1>8, <1>9, <1>10, <1>11, <1>12, <1>13, <1>14, <1>15, <1>16
        DEF CheckStep

LEMMA PushedScopes ==
  ASSUME WalkInv, NEW op, op \notin {"scope_push_new", "scope_pop"}, NEW v, Pushed(op, v)
  PROVE  SameCount /\ UNCHANGED <<scopes, ast>>
<1>1. Called(op) \/ Raised(op, "stack overflow") BY DEF Pushed
<1>2. UNCHANGED scopes BY DEF Pushed, machine
<1> QED BY <1>1, <1>2, CalledCounts, RestCounts

(* The machine's steps, in the same way. *)
LEMMA ExecCounts ==
  ASSUME WalkInv, IsSequence(scopes), ExecStep, Len(scopes) = Count(tasks)
  PROVE  /\ Len(scopes') = Count(tasks') /\ IsSequence(scopes') /\ UNCHANGED ast
<1> DEFINE Same == SameCount /\ UNCHANGED <<scopes, ast>>
<1>1. ASSUME NEW op, Called(op), op \notin {"scope_push_new", "scope_pop"}
      PROVE SameCount /\ UNCHANGED ast
  BY <1>1, CalledCounts
<1>2. ASSUME NEW op, NEW error, Raised(op, error) PROVE SameCount /\ UNCHANGED ast
  BY <1>2, RestCounts
<1>3. ValueOf => Same BY <1>2, PushedScopes DEF ValueOf, machine
<1>4. ApplyIdentifier => Same BY <1>2, PushedScopes DEF ApplyIdentifier, Unknown, machine
<1>5. ApplyIdentifierRef => Same BY <1>2, PushedScopes DEF ApplyIdentifierRef, Unknown, machine
<1>6. ApplyExpr => Same BY <1>2, PushedScopes DEF ApplyExpr, machine
<1>7. ApplyUExpr \/ ApplyIfCond => Same BY PushedScopes DEF ApplyUExpr, ApplyIfCond
<1>8. Descide => Same
  <2>1. (Last1 # 0) \in BOOLEAN /\ (Last1 = 0) \in BOOLEAN OBVIOUS
  <2> QED BY <2>1, DecidedCounts DEF Descide
<1>9. IfPost \/ ApplyEcho => Same BY <1>1 DEF IfPost, ApplyEcho, machine
<1>10. Underflow => Same BY <1>2 DEF Underflow, machine
<1>11. (Descend \/ Skip \/ Misplaced \/ End) /\ UNCHANGED machine => Same
  BY DescendCounts, RestCounts DEF machine
<1> HIDE DEF Same
<1>12. CASE Same BY <1>12 DEF Same, SameCount
<1>13. CASE ApplyDefine \/ ApplyAssign
  <2>1. SameCount /\ UNCHANGED ast BY <1>1, <1>2, <1>13 DEF ApplyDefine, ApplyAssign
  <2>2. scopes' = scopes \/ \E i, e : scopes' = [scopes EXCEPT ![i] = e]
    BY <1>13 DEF ApplyDefine, ApplyAssign, machine
  <2>3. Len(scopes') = Len(scopes) /\ IsSequence(scopes')
    <3>1. CASE scopes' = scopes BY <3>1
    <3>2. CASE \E i, e : scopes' = [scopes EXCEPT ![i] = e]
      <4>1. PICK i, e : scopes' = [scopes EXCEPT ![i] = e] BY <3>2
      <4>2. IsSequence([scopes EXCEPT ![i] = e]) /\ Len([scopes EXCEPT ![i] = e]) = Len(scopes)
        BY SequenceExcept
      <4> QED BY <4>1, <4>2, Zenon
    <3> QED BY <2>2, <3>1, <3>2
  <2> QED BY <2>1, <2>3 DEF SameCount
<1>14. CASE ScopePushNew
  <2>1. Called("scope_push_new") /\ scopes' = Append(scopes, <<>>) BY <1>14 DEF ScopePushNew
  <2>2. Count(tasks') = Count(tasks) + 1 /\ UNCHANGED ast BY <2>1, CalledCounts
  <2> QED BY <2>1, <2>2, SequenceOps
<1>15. CASE ScopePop
  <2>1. Called("scope_pop") /\ scopes' = SubSeq(scopes, 1, Len(scopes) - 1)
    BY <1>15 DEF ScopePop
  <2>2. Count(tasks') = Count(tasks) - 1 /\ Count(tasks) \in Nat /\ UNCHANGED ast
    BY <2>1, CalledCounts
  <2>3. Count(tasks') \in Nat BY <2>1, CalledCountIsNat
  <2>4. Len(scopes) \in Nat /\ Len(scopes) > 0 BY <2>2, <2>3
  <2> DEFINE m == Len(scopes) - 1
  <2>5. m \in 0 .. Len(scopes) BY <2>4
  <2> HIDE DEF m
  <2>6. IsSequence(SubSeq(scopes, 1, m)) /\ Len(SubSeq(scopes, 1, m)) = m BY <2>5, SequenceOps
  <2> QED BY <2>1, <2>2, <2>6 DEF m
<1> QED BY <1>3, <1>4, <1>5, <1>6, <1>7, <1>8, <1>9, <1>10, <1>11, <1>12, <1>13, <1>14, <1>15
        DEF ExecStep

(* Which walk it is, by its number. *)
LEMMA WalkIs ==
  ASSUME walk \in 0 .. 4
  PROVE  /\ In("check") <=> walk = 1
         /\ In("run") <=> walk = 3
         /\ In("free") <=> walk \in {2, 4}
<1>1. Walks[1] = "check" /\ Walks[2] = "free" /\ Walks[3] = "run" /\ Walks[4] = "free"
      /\ Len(Walks) = 4
  BY DEF Walks
<1>2. walk = 0 \/ walk = 1 \/ walk = 2 \/ walk = 3 \/ walk = 4 OBVIOUS
<1> QED BY <1>1, <1>2 DEF In

LEMMA NextWalkIs ==
  ASSUME walk \in 0 .. 4, NEW w, NextWalk(w)
  PROVE  /\ walk' \in 0 .. 4 /\ w \in {"check", "run", "free"}
         /\ w = "check" <=> walk' = 1
         /\ w = "run" <=> walk' = 3
         /\ w = "free" <=> walk' \in {2, 4}
<1>1. Walks[1] = "check" /\ Walks[2] = "free" /\ Walks[3] = "run" /\ Walks[4] = "free"
      /\ Len(Walks) = 4
  BY DEF Walks
<1>2. walk < 4 /\ Walks[walk + 1] = w /\ walk' = walk + 1 BY <1>1 DEF NextWalk
<1>3. walk = 0 \/ walk = 1 \/ walk = 2 \/ walk = 3 BY <1>2
<1> QED BY <1>1, <1>2, <1>3

LEMMA ScopesStep ==
  ASSUME ScopesInv, [Next]_vars
  PROVE  ScopesInv'
<1>1. WalkInv /\ walk \in 0 .. 4 /\ IsSequence(scopes) /\ IsSequence(tscopes)
      /\ (walk = 3 => Len(scopes) = Count(tasks)) /\ (walk = 1 => Len(tscopes) = Count(tasks))
  BY WalkIs DEF ScopesInv, ScopesMatchTasks, Count
<1>2. WalkInv' BY <1>1, NextIsStep, WalkStep
<1> DEFINE After == /\ walk' \in 0 .. 4 /\ IsSequence(scopes') /\ IsSequence(tscopes')
                    /\ walk' = 3 => Len(scopes') = Count(tasks')
                    /\ walk' = 1 => Len(tscopes') = Count(tasks')
                    /\ ast' = ast
<1>3. ASSUME After PROVE ScopesInv'
  <2>1. Blocks(tasks)' = Blocks(tasks') BY <1>3 DEF Blocks, Entered
  <2>2. Cardinality(Blocks(tasks))' = Count(tasks') BY <2>1, Zenon DEF Count
  <2>3. (In("check")' => walk' = 1) /\ (In("run")' => walk' = 3)
    <3>1. walk' = 0 \/ walk' = 1 \/ walk' = 2 \/ walk' = 3 \/ walk' = 4 BY <1>3
    <3>2. Walks[1] = "check" /\ Walks[2] = "free" /\ Walks[3] = "run" /\ Walks[4] = "free"
      BY DEF Walks
    <3> QED BY <3>1, <3>2 DEF In
  <2>4. ScopesMatchTasks' BY <1>3, <2>2, <2>3 DEF ScopesMatchTasks
  <2>5. IsSequence(scopes)' /\ IsSequence(tscopes)' BY <1>3 DEF IsSequence
  <2> QED BY <1>2, <1>3, <2>4, <2>5 DEF ScopesInv
<1>4. IsSequence(<<>>) /\ Len(<<>>) = 0 BY DEF IsSequence
<1>5. Count(<<Task(Root(ast), "EVAL")>>) = 0
  <2> DEFINE t == Task(Root(ast), "EVAL")
  <2>1. t \in Tasks /\ t.phase = 0 BY <1>1, RootHasRoom DEF WalkInv, Task, Tasks
  <2>2. ~Entered(t) BY <2>1 DEF Entered
  <2> HIDE DEF t
  <2>3. Append(<<>>, t) = <<t>> /\ <<>> \in Seq(Tasks) BY <2>1
  <2>4. Count(Append(<<>>, t)) = Count(<<>>) + 0 BY <2>1, <2>2, <2>3, BlocksOfAppend
  <2> QED BY <2>3, <2>4, NoBlocks DEF t
<1>6. CASE RunCheck
  <2>1. NextWalk("check") /\ tasks' = <<Task(Root(ast), "EVAL")>> /\ tscopes' = <<>>
        /\ scopes' = scopes /\ ast' = ast
    BY <1>6 DEF RunCheck, CheckBegin, Begin, machine
  <2>2. walk' = 1 BY <1>1, <2>1, NextWalkIs
  <2>3. After BY <1>1, <1>4, <1>5, <2>1, <2>2
  <2> QED BY <1>3, <2>3
<1>7. CASE RunExec
  <2>1. NextWalk("run") /\ tasks' = <<Task(Root(ast), "EVAL")>> /\ scopes' = <<>>
        /\ tscopes' = tscopes /\ ast' = ast
    BY <1>7 DEF RunExec, ExecBegin, Begin, checker
  <2>2. walk' = 3 BY <1>1, <2>1, NextWalkIs
  <2>3. After BY <1>1, <1>4, <1>5, <2>1, <2>2
  <2> QED BY <1>3, <2>3
<1>8. CASE RunFree
  <2>1. NextWalk("free") /\ scopes' = <<>> /\ tscopes' = <<>> /\ ast' = ast
    BY <1>8 DEF RunFree, FreeBegin, Begin
  <2>2. walk' \in {2, 4} BY <1>1, <2>1, NextWalkIs
  <2>3. After BY <1>4, <2>1, <2>2
  <2> QED BY <1>3, <2>3
<1>9. CASE In("check") /\ CheckStep /\ UNCHANGED <<machine, memory, walk, verdict>>
  <2>1. walk = 1 /\ walk' = walk /\ scopes' = scopes BY <1>1, <1>9, WalkIs DEF machine
  <2>2. Len(tscopes') = Count(tasks') /\ IsSequence(tscopes') /\ ast' = ast
    BY <1>1, <1>9, <2>1, CheckCounts
  <2>3. After BY <1>1, <2>1, <2>2
  <2> QED BY <1>3, <2>3
<1>10. CASE In("run") /\ ExecStep /\ UNCHANGED <<checker, memory, walk, verdict>>
  <2>1. walk = 3 /\ walk' = walk /\ tscopes' = tscopes BY <1>1, <1>10, WalkIs DEF checker
  <2>2. Len(scopes') = Count(tasks') /\ IsSequence(scopes') /\ ast' = ast
    BY <1>1, <1>10, <2>1, ExecCounts
  <2>3. After BY <1>1, <2>1, <2>2
  <2> QED BY <1>3, <2>3
<1>11. CASE In("free") /\ FreeStep /\ UNCHANGED <<machine, checker, walk, verdict>>
  <2>1. walk \in {2, 4} /\ walk' = walk /\ tscopes' = tscopes /\ scopes' = scopes
    BY <1>1, <1>11, WalkIs DEF checker, machine
  <2>2. ast' = ast BY <1>1, <1>11, FreeStepIsStep, TreeStays
  <2>3. After BY <1>1, <2>1, <2>2
  <2> QED BY <1>3, <2>3
<1>12. CASE UNCHANGED vars
  <2>1. After BY <1>1, <1>12 DEF vars, walker, machine, checker
  <2> QED BY <1>3, <2>1
<1> QED BY <1>6, <1>7, <1>8, <1>9, <1>10, <1>11, <1>12 DEF Next

(* There are as many scopes as blocks are in progress, in the machine and  *)
(* in the checker, for every tree, through every path and every failure:   *)
(* scope_push_new and scope_pop are called in pairs, whatever is skipped   *)
(* between them (walker.c:148-153, exec.c:193-214, checker.c:26-56).       *)
THEOREM ScopesNest == Spec => []ScopesMatchTasks
<1>1. Init => ScopesInv
  <2> SUFFICES ASSUME Init PROVE ScopesInv OBVIOUS
  <2>1. WalkInv BY WalkStarts DEF Init
  <2>2. walk = 0 /\ scopes = <<>> /\ tscopes = <<>> BY DEF Init, ExecInit, CheckInit
  <2>3. IsSequence(<<>>) BY DEF IsSequence
  <2> QED BY <2>1, <2>2, <2>3 DEF ScopesInv, ScopesMatchTasks, In
<1>2. ScopesInv /\ [Next]_vars => ScopesInv' BY ScopesStep
<1>3. ScopesInv => ScopesMatchTasks BY DEF ScopesInv
<1> QED BY <1>1, <1>2, <1>3, PTL DEF Spec
-----------------------------------------------------------------------------
(***************************************************************************)
(* Operands                                                                *)
(***************************************************************************)
WaitCount(s) == Cardinality(Waiting(s))

(* What a task leaves on the operand stack when it is popped. *)
Yields(t) == t.node # NULL /\ ast[t.node].kind \in Yielding

(* A task was pushed by the step that the task below it took last. *)
PushedBy(p, t) ==
  /\ p.node # NULL /\ p.phase \in 1 .. Len(Steps(p))
  /\ LET step == Steps(p)[p.phase]
     IN  \/ step.does = "push" /\ t.node = step.kid /\ t.mode = step.mode
         \/ /\ step.does = "descisions" /\ t.mode = "EVAL"
            /\ t.node \in {ast[p.node].kids[2], ast[p.node].kids[3]}

Chained(s) ==
  /\ s # <<>> => s[1].node = Root(ast) /\ s[1].mode = "EVAL"
  /\ \A k \in 1 .. Len(s) - 1 : PushedBy(s[k], s[k + 1])

OperandsInv ==
  /\ WalkInv /\ walk \in 0 .. 4
  /\ In("run") => Chained(tasks)
  /\ In("run") /\ Sorted => IsSequence(operands)
  /\ OperandsMatchTasks

LEMMA WaitingOfAppend ==
  ASSUME NEW s \in Seq(Tasks), NEW t \in Tasks
  PROVE  /\ WaitCount(s) \in Nat /\ WaitCount(s) <= Len(s)
         /\ WaitCount(Append(s, t)) = WaitCount(s) + (IF Waits(t) THEN 1 ELSE 0)
         /\ Held(Append(s, t)) = Owed(t) + WaitCount(s)
<1> DEFINE all == Append(s, t)
<1>1. Len(s) \in Nat /\ Waiting(s) \in SUBSET (1 .. Len(s)) BY DEF Waiting
<1>2. Waits(t) => Waiting(all) = Waiting(s) \cup {Len(s) + 1} BY DEF Waiting
<1>3. ~Waits(t) => Waiting(all) = Waiting(s) BY DEF Waiting
<1>4. Waits(t) => WaitCount(all) = Cardinality(Waiting(s) \cup {Len(s) + 1})
  BY <1>2, Zenon DEF WaitCount
<1>5. ~Waits(t) => WaitCount(all) = WaitCount(s) BY <1>3, Zenon DEF WaitCount
<1>6. /\ WaitCount(s) \in Nat /\ WaitCount(s) <= Len(s)
      /\ Cardinality(Waiting(s) \cup {Len(s) + 1}) = WaitCount(s) + 1
  BY <1>1, OneMore DEF WaitCount
<1>7. Held(all) = Owed(t) + WaitCount(s)
  <2>1. all # <<>> /\ Len(all) = Len(s) + 1 /\ all[Len(s) + 1] = t OBVIOUS
  <2>2. Waiting(all) \ {Len(s) + 1} = Waiting(s)
    <3>1. Len(s) + 1 \notin Waiting(s) BY <1>1
    <3> QED BY <1>2, <1>3, <3>1
  <2>3. Cardinality(Waiting(all) \ {Len(all)}) = WaitCount(s)
    <3>1. Waiting(all) \ {Len(all)} = Waiting(s) BY <2>1, <2>2
    <3> QED BY <3>1, Zenon DEF WaitCount
  <2> HIDE DEF all
  <2> QED BY <2>1, <2>3 DEF Held
<1> QED BY <1>4, <1>5, <1>6, <1>7

LEMMA NothingWaits == WaitCount(<<>>) = 0 /\ Held(<<>>) = 0
<1>1. Waiting(<<>>) = {} BY DEF Waiting
<1>2. WaitCount(<<>>) = 0 BY <1>1, FS_EmptySet, Zenon DEF WaitCount
<1> QED BY <1>2 DEF Held

(* When the task above it is over, a task is owed a value exactly if that  *)
(* task has left one.                                                      *)
LEMMA WhatIsYielded ==
  ASSUME ast \in Trees, Sorted, NEW p \in Tasks, NEW t \in Tasks,
         p.node \in 1 .. Len(ast), PushedBy(p, t)
  PROVE  /\ Owed(p) = (IF Waits(p) THEN 1 ELSE 0) + (IF Yields(t) THEN 1 ELSE 0)
         /\ t.mode = "REFERENCE" => t.node # NULL /\ ast[t.node].kind = "id"
<1> DEFINE q    == [p EXCEPT !.phase = @ - 1]
           kind == ast[p.node].kind
           kids == ast[p.node].kids
           step == Steps(p)[p.phase]
<1>1. p.phase \in Nat /\ p.phase \in 1 .. Len(Steps(p)) BY DEF PushedBy, Tasks
<1>2. Len(Steps(p)) \in Nat BY StepsOfTask
<1>3. /\ q \in Tasks /\ q.node = p.node /\ q.mode = p.mode /\ q.phase = p.phase - 1
      /\ q.phase + 1 = p.phase
  BY <1>1, <1>2 DEF Tasks
<1>4. Steps(q) = Steps(p) BY <1>3 DEF Steps
<1>5. StepAt(q)
  <2>1. q.node \in 1 .. Len(ast) /\ q.phase \in 0 .. Len(Steps(q)) - 1
    BY <1>1, <1>2, <1>3, <1>4
  <2> QED BY <1>3, <2>1, StepIs
<1>6. Steps(q)[q.phase + 1] = step BY <1>3, <1>4
<1> HIDE DEF q
<1>7. /\ ast[Root(ast)].kind \notin Yielding
      /\ \A k \in DOMAIN kids :
           /\ (kids[k] # NULL /\ ast[kids[k]].kind \in Yielding) <=> TakesValue(kind, k)
           /\ kind = "assign" /\ k = 1 => ast[kids[k]].kind = "id"
  <2>1. p.node \in DOMAIN ast BY TreesAssumption DEF IsTree
  <2> QED BY <2>1 DEF Sorted, IsWellSorted
<1>8. DOMAIN kids = 1 .. Len(kids) /\ Len(kids) \in Arity(kind)
  BY TreesAssumption DEF IsTree
<1>9. t.node # NULL /\ ast[t.node].kind \in Yielding <=> Yields(t) BY DEF Yields
<1>10. /\ p.mode = "EVAL"
       /\ \/ kind = "expr" /\ p.phase \in {1, 2} /\ step = Push(kids[p.phase], "EVAL")
          \/ kind \in {"uexpr", "echo"} /\ p.phase = 1 /\ step = Push(kids[1], "EVAL")
          \/ kind = "define" /\ p.phase = 1 /\ step = Push(kids[2], "EVAL")
          \/ kind = "assign" /\ p.phase = 1 /\ step = Push(kids[2], "EVAL")
          \/ kind = "assign" /\ p.phase = 2 /\ step = Push(kids[1], "REFERENCE")
          \/ kind \in {"if", "ifexpr"} /\ p.phase = 1 /\ step = Push(kids[1], "EVAL")
          \/ kind \in {"if", "ifexpr"} /\ p.phase = 3 /\ step = Call("descisions")
          \/ kind = "block" /\ p.phase - 1 \in 1 .. Len(kids) /\ step = Push(kids[p.phase - 1], "EVAL")
  <2>1. step.does \in {"push", "descisions"} BY DEF PushedBy
  <2> HIDE DEF step, kind, kids
  <2>2. p.mode = "EVAL" BY <1>3, <1>5, <1>6, <2>1 DEF StepAt, Call, step
  <2> QED BY <1>3, <1>5, <1>6, <2>1, <2>2 DEF StepAt, Call, step, kind, kids
<1> DEFINE Row(k) ==
             /\ k \in DOMAIN kids /\ t.node = kids[k]
             /\ \/ kind = "expr" /\ p.phase = k /\ t.mode = "EVAL"
                \/ kind \in {"uexpr", "echo"} /\ p.phase = 1 /\ t.mode = "EVAL"
                \/ kind = "define" /\ p.phase = 1 /\ t.mode = "EVAL"
                \/ kind = "assign" /\ p.phase = 1 /\ t.mode = "EVAL"
                \/ kind = "assign" /\ p.phase = 2 /\ k = 1
                \/ kind \in {"if", "ifexpr"} /\ p.phase = 1 /\ k = 1 /\ t.mode = "EVAL"
                \/ kind \in {"if", "ifexpr"} /\ p.phase = 3 /\ k \in {2, 3} /\ t.mode = "EVAL"
                \/ kind = "block" /\ t.mode = "EVAL"
<1>11. PICK k : Row(k)
  <2> HIDE DEF kind, kids, step
  <2>1. /\ kind \in {"expr", "define", "assign"} => Len(kids) = 2
        /\ kind \in {"uexpr", "echo"} => Len(kids) = 1
        /\ kind \in {"if", "ifexpr"} => Len(kids) = 3
    BY <1>8 DEF Arity
  <2>0. \A l \in {1, 2, 3} : Len(kids) = l => 1 \in DOMAIN kids /\ (l > 1 => 2 \in DOMAIN kids)
    BY <1>8
  <2>2. /\ step.does = "push" => t.node = step.kid /\ t.mode = step.mode
        /\ step.does = "descisions" => t.mode = "EVAL" /\ t.node \in {kids[2], kids[3]}
    BY DEF PushedBy, step, kids
  <2>3. \A i, m : step = Push(i, m) => t.node = i /\ t.mode = m BY <2>2 DEF Push
  <2>4. step = Call("descisions") => t.mode = "EVAL" /\ t.node \in {kids[2], kids[3]}
    BY <2>2 DEF Call
  <2>5. CASE kind = "expr"
    <3>1. Row(p.phase) BY <1>8, <1>10, <2>1, <2>3, <2>5
    <3> QED BY <3>1
  <2>6. CASE kind \in {"uexpr", "echo"}
    <3>1. Row(1) BY <1>8, <1>10, <2>1, <2>3, <2>6
    <3> QED BY <3>1
  <2>7. CASE kind = "define"
    <3>1. t.node = kids[2] /\ t.mode = "EVAL" /\ p.phase = 1 BY <1>10, <2>3, <2>7
    <3>2. 2 \in DOMAIN kids
      <4>1. Len(kids) = 2 BY <2>1, <2>7
      <4> QED BY <2>0, <4>1
    <3>3. Row(2) BY <2>7, <3>1, <3>2
    <3> QED BY <3>3
  <2>8. CASE kind = "assign"
    <3>1. 1 \in DOMAIN kids /\ 2 \in DOMAIN kids
      <4>1. Len(kids) = 2 BY <2>1, <2>8
      <4> QED BY <2>0, <4>1
    <3>2. \/ p.phase = 1 /\ t.node = kids[2] /\ t.mode = "EVAL"
          \/ p.phase = 2 /\ t.node = kids[1]
      BY <1>10, <2>3, <2>8
    <3>3. (p.phase = 1 => Row(2)) /\ (p.phase = 2 => Row(1)) BY <2>8, <3>1, <3>2
    <3> QED BY <3>2, <3>3
  <2>9. CASE kind \in {"if", "ifexpr"}
    <3>1. p.phase = 1 => Row(1) BY <1>8, <1>10, <2>1, <2>3, <2>9
    <3>2. p.phase = 3 => Row(2) \/ Row(3) BY <1>8, <1>10, <2>1, <2>4, <2>9
    <3>3. p.phase = 1 \/ p.phase = 3 BY <1>10, <2>9
    <3> QED BY <3>1, <3>2, <3>3
  <2>10. CASE kind = "block"
    <3>1. Row(p.phase - 1) BY <1>8, <1>10, <2>3, <2>10
    <3> QED BY <3>1
  <2> QED BY <1>10, <2>5, <2>6, <2>7, <2>8, <2>9, <2>10
<1>12. (kids[k] # NULL /\ ast[kids[k]].kind \in Yielding) <=> TakesValue(kind, k) BY <1>7, <1>11
<1>13. Yields(t) <=> TakesValue(kind, k) BY <1>11, <1>12 DEF Yields
<1>14. t.mode = "REFERENCE" => t.node # NULL /\ ast[t.node].kind = "id"
  <2>1. t.mode = "REFERENCE" => kind = "assign" /\ k = 1 BY <1>11
  <2> QED BY <1>7, <1>11, <1>12, <2>1 DEF TakesValue
<1>15. Owed(p) = (IF Waits(p) THEN 1 ELSE 0) + (IF TakesValue(kind, k) THEN 1 ELSE 0)
  <2>1. p.node # NULL BY DEF PushedBy
  <2>2. CASE kind = "expr" BY <1>10, <2>1, <2>2 DEF Owed, Waits, TakesValue
  <2>3. CASE kind \in {"uexpr", "echo", "define"} BY <1>11, <2>1, <2>3 DEF Owed, Waits, TakesValue
  <2>4. CASE kind = "assign" BY <1>11, <2>1, <2>4 DEF Owed, Waits, TakesValue
  <2>5. CASE kind \in {"if", "ifexpr"} BY <1>11, <2>1, <2>5 DEF Owed, Waits, TakesValue
  <2>6. CASE kind = "block" BY <2>1, <2>6 DEF Owed, Waits, TakesValue
  <2> QED BY <1>11, <2>2, <2>3, <2>4, <2>5, <2>6
<1> QED BY <1>13, <1>14, <1>15

(* When the task on top is popped, the one below it is owed what it leaves. *)
LEMMA HeldBelow ==
  ASSUME WalkInv, Chained(tasks), Sorted, tasks # <<>>
  PROVE  /\ Held(Below) = WaitCount(Below) + (IF Yields(Top) THEN 1 ELSE 0)
         /\ Top.mode = "REFERENCE" => Top.node # NULL /\ ast[Top.node].kind = "id"
<1>1. /\ Below \in Seq(Tasks) /\ Top \in Tasks /\ tasks = Append(Below, Top)
      /\ Len(tasks) \in Nat \ {0} /\ Len(Below) = Len(tasks) - 1
      /\ \A k \in 1 .. Len(Below) : Below[k] = tasks[k]
  BY TasksAre
<1>2. CASE Below = <<>>
  <2>1. Len(tasks) = 1 BY <1>1, <1>2
  <2>2. Top.node = Root(ast) /\ Top.mode = "EVAL" BY <2>1 DEF Top, Chained
  <2>3. ~Yields(Top) BY <2>2 DEF Sorted, IsWellSorted, Yields
  <2> QED BY <1>2, <2>2, <2>3, NothingWaits
<1>3. CASE Below # <<>>
  <2> DEFINE p == Below[Len(Below)]
             f == SubSeq(Below, 1, Len(Below) - 1)
  <2>1. InOrder(Below) BY FrontInOrder DEF WalkInv, Below, InOrder
  <2>2. InOrder(f) /\ Len(f) = Len(Below) - 1 /\ Len(Below) \in Nat \ {0} BY <1>3, <2>1, FrontInOrder
  <2>3. f \in Seq(Tasks) /\ p \in Tasks /\ TaskOK(p) BY <1>1, <2>1, <2>2 DEF InOrder
  <2>4. Below = Append(f, p)
    <3>1. \A k \in 1 .. Len(f) : f[k] = Below[k] BY <1>1, <2>2
    <3> QED BY <1>1, <2>2, <2>3, <3>1
  <2>5. p = tasks[Len(tasks) - 1] /\ Len(tasks) - 1 \in 1 .. Len(tasks) - 1 BY <1>1, <2>2
  <2>6. PushedBy(p, Top)
    <3>1. PushedBy(tasks[Len(tasks) - 1], tasks[Len(tasks) - 1 + 1]) BY <2>5 DEF Chained
    <3>2. tasks[Len(tasks) - 1 + 1] = Top BY <1>1 DEF Top
    <3> QED BY <2>5, <3>1, <3>2
  <2>7. p.node \in 1 .. Len(ast) /\ ast \in Trees
    <3>1. p.node \in 0 .. Len(ast) /\ p.node # NULL BY <2>3, <2>6 DEF TaskOK, PushedBy
    <3>2. Len(ast) \in Nat /\ ast \in Trees BY TreesAssumption DEF WalkInv, IsTree
    <3> QED BY <3>1, <3>2 DEF NULL
  <2> HIDE DEF p, f
  <2>8. /\ Owed(p) = (IF Waits(p) THEN 1 ELSE 0) + (IF Yields(Top) THEN 1 ELSE 0)
        /\ Top.mode = "REFERENCE" => Top.node # NULL /\ ast[Top.node].kind = "id"
    BY <1>1, <2>3, <2>6, <2>7, WhatIsYielded
  <2>9. /\ WaitCount(f) \in Nat
        /\ WaitCount(Below) = WaitCount(f) + (IF Waits(p) THEN 1 ELSE 0)
        /\ Held(Below) = Owed(p) + WaitCount(f)
    BY <2>3, <2>4, WaitingOfAppend
  <2> QED BY <2>8, <2>9
<1> QED BY <1>2, <1>3

LEMMA ChainedBelow ==
  ASSUME WalkInv, tasks # <<>>, Chained(tasks)
  PROVE  /\ Chained(Below)
         /\ \A u \in Tasks : u.node = Top.node /\ u.mode = Top.mode => Chained(Append(Below, u))
<1>1. /\ Below \in Seq(Tasks) /\ Top \in Tasks
      /\ Len(tasks) \in Nat \ {0} /\ Len(Below) = Len(tasks) - 1
      /\ \A k \in 1 .. Len(Below) : Below[k] = tasks[k]
  BY TasksAre
<1>2. Top = tasks[Len(tasks)] BY DEF Top
<1>3. /\ tasks[1].node = Root(ast) /\ tasks[1].mode = "EVAL"
      /\ \A k \in 1 .. Len(tasks) - 1 : PushedBy(tasks[k], tasks[k + 1])
  BY DEF Chained
<1> HIDE DEF Below, Top
<1>4. Chained(Below)
  <2>1. Below # <<>> => Len(Below) > 0 BY <1>1
  <2>2. Below # <<>> => Below[1].node = Root(ast) /\ Below[1].mode = "EVAL" BY <1>1, <1>3, <2>1
  <2>3. ASSUME NEW k \in 1 .. Len(Below) - 1 PROVE PushedBy(Below[k], Below[k + 1])
    <3>1. k \in 1 .. Len(Below) /\ k + 1 \in 1 .. Len(Below) /\ k \in 1 .. Len(tasks) - 1 BY <1>1
    <3>2. Below[k] = tasks[k] /\ Below[k + 1] = tasks[k + 1] BY <1>1, <3>1
    <3> QED BY <1>3, <3>1, <3>2
  <2> QED BY <2>2, <2>3 DEF Chained
<1>5. ASSUME NEW u \in Tasks, u.node = Top.node, u.mode = Top.mode
      PROVE  Chained(Append(Below, u))
  <2> DEFINE all == Append(Below, u)
  <2>1. /\ Len(all) = Len(tasks) /\ all # <<>>
        /\ \A k \in 1 .. Len(Below) : all[k] = tasks[k]
        /\ all[Len(tasks)] = u
    BY <1>1
  <2> HIDE DEF all
  <2>2. all[1].node = Root(ast) /\ all[1].mode = "EVAL"
    <3>1. CASE Len(tasks) = 1 BY <1>2, <1>3, <1>5, <2>1, <3>1
    <3>2. CASE Len(tasks) # 1
      <4>1. 1 \in 1 .. Len(Below) BY <1>1, <3>2
      <4> QED BY <1>3, <2>1, <4>1
    <3> QED BY <3>1, <3>2
  <2>3. ASSUME NEW k \in 1 .. Len(all) - 1 PROVE PushedBy(all[k], all[k + 1])
    <3>1. k \in 1 .. Len(Below) /\ k \in 1 .. Len(tasks) - 1 BY <1>1, <2>1
    <3>2. all[k] = tasks[k] /\ PushedBy(tasks[k], tasks[k + 1]) BY <1>3, <2>1, <3>1
    <3>3. CASE k + 1 \in 1 .. Len(Below) BY <2>1, <3>2, <3>3
    <3>4. CASE k + 1 \notin 1 .. Len(Below)
      <4>1. k + 1 = Len(tasks) BY <1>1, <3>1, <3>4
      <4>2. all[k + 1] = u /\ tasks[k + 1] = Top BY <1>2, <2>1, <4>1
      <4> QED BY <1>5, <3>2, <4>2 DEF PushedBy
    <3> QED BY <3>3, <3>4
  <2> QED BY <2>2, <2>3 DEF Chained, all
<1> QED BY <1>4, <1>5

LEMMA ChainedAppend ==
  ASSUME NEW s \in Seq(Tasks), NEW p \in Tasks, NEW t \in Tasks,
         Chained(Append(s, p)), PushedBy(p, t)
  PROVE  Chained(Append(Append(s, p), t))
<1> DEFINE b == Append(s, p)
           all == Append(b, t)
<1>1. /\ b \in Seq(Tasks) /\ Len(b) = Len(s) + 1 /\ Len(s) \in Nat /\ b[Len(b)] = p /\ b # <<>>
  OBVIOUS
<1> HIDE DEF b
<1>2. /\ Len(all) = Len(b) + 1 /\ all[Len(b) + 1] = t
      /\ \A k \in 1 .. Len(b) : all[k] = b[k]
  BY <1>1
<1> HIDE DEF all
<1>3. 1 \in 1 .. Len(b) /\ b[1].node = Root(ast) /\ b[1].mode = "EVAL"
      /\ \A k \in 1 .. Len(b) - 1 : PushedBy(b[k], b[k + 1])
  BY <1>1 DEF Chained, b
<1>4. all[1].node = Root(ast) /\ all[1].mode = "EVAL" BY <1>2, <1>3
<1>5. ASSUME NEW k \in 1 .. Len(all) - 1 PROVE PushedBy(all[k], all[k + 1])
  <2>1. CASE k = Len(b) BY <1>1, <1>2, <2>1
  <2>2. CASE k # Len(b)
    <3>1. k \in 1 .. Len(b) - 1 /\ k \in 1 .. Len(b) /\ k + 1 \in 1 .. Len(b) BY <1>1, <1>2, <2>2
    <3> QED BY <1>2, <1>3, <3>1
  <2> QED BY <2>1, <2>2
<1> QED BY <1>4, <1>5 DEF Chained, all, b
-----------------------------------------------------------------------------
(* The operations that leave a value on the operand stack. *)
Leaving ==
  { "value_of", "apply_identifier", "apply_identifier_ref", "apply_expr", "apply_uexpr",
    "apply_if_cond", "apply_ifexpr_post" }

(* The task that has gone on to its next step. *)
Next1 == [Top EXCEPT !.phase = @ + 1]

(* What an operation finds on the operand stack, and what it has to leave. *)
LEMMA OperationIs ==
  ASSUME WalkInv, Chained(tasks), Sorted, NEW op, OnNode(op)
  PROVE  /\ op \in Operations =>
              /\ Owed(Top) = Pops(op) + (IF op = "apply_ifexpr_post" THEN 1 ELSE 0)
              /\ IF IsLast THEN Yields(Top) <=> op \in Leaving
                 ELSE Owed(Next1) = IF op \in Leaving THEN 1 ELSE 0
         /\ op = "descisions" => ~IsLast /\ Owed(Top) = 1 /\ ~Waits(Next1)
         /\ op = "push" => ~IsLast /\ Owed(Top) = IF Waits(Next1) THEN 1 ELSE 0
<1> DEFINE kind == ast[Top.node].kind
           size == Len(Steps(Top))
<1>1. tasks # <<>> /\ Walking /\ Top.node # NULL /\ Step.does = op BY DEF OnNode, Walking
<1>2. /\ Top \in Tasks /\ Top.node \in 1 .. Len(ast) /\ Top.phase \in Nat
      /\ size \in Nat /\ StepAt(Top) /\ Step = Steps(Top)[Top.phase + 1]
      /\ Next1.node = Top.node /\ Next1.phase = Top.phase + 1 /\ Next1.mode = Top.mode
  BY <1>1, TopIs DEF Next1
<1>3. Top.mode = "REFERENCE" => kind = "id" BY <1>1, HeldBelow
<1>4. IsLast <=> Top.phase + 1 = size BY DEF IsLast
<1>5. kind \in Kinds /\ Top.mode \in {"EVAL", "REFERENCE"}
  BY <1>2, TreesAssumption DEF WalkInv, IsTree, Tasks
<1>6. /\ Owed(Top) = CASE kind = "block"  -> 0
                       [] kind = "if"     -> IF Top.phase \in {1, 2} THEN 1 ELSE 0
                       [] kind = "ifexpr" -> IF Top.phase > 0 THEN 1 ELSE 0
                       [] OTHER           -> Top.phase
      /\ Owed(Next1) = CASE kind = "block"  -> 0
                         [] kind = "if"     -> IF Top.phase + 1 \in {1, 2} THEN 1 ELSE 0
                         [] kind = "ifexpr" -> IF Top.phase + 1 > 0 THEN 1 ELSE 0
                         [] OTHER           -> Top.phase + 1
      /\ Waits(Next1) <=> Top.phase + 1 = 2 /\ kind \in {"expr", "assign"}
      /\ Yields(Top) <=> kind \in Yielding
  BY <1>1, <1>2 DEF Owed, Waits, Yields
<1>7. StepAt(Top) /\ Steps(Top)[Top.phase + 1].does = op BY <1>1, <1>2
<1> HIDE DEF kind, size
<1>8. CASE Top.mode = "REFERENCE"
  <2>1. kind = "id" BY <1>3, <1>8 DEF kind
  <2>2. size = 1 /\ Top.phase = 0 /\ op = "apply_identifier_ref"
    BY <1>7, <1>8, <2>1 DEF StepAt, Call, kind, size
  <2>3. Owed(Top) = 0 /\ Yields(Top) BY <1>6, <2>1, <2>2 DEF Yielding
  <2> QED BY <1>4, <2>2, <2>3 DEF Pops, Leaving, Operations
<1>9. CASE Top.mode = "EVAL" /\ kind \in {"value", "id"}
  <2>1. size = 1 /\ Top.phase = 0 /\ op \in {"value_of", "apply_identifier"}
    BY <1>7, <1>9 DEF StepAt, Push, Call, kind, size
  <2>2. Owed(Top) = 0 /\ Yields(Top)
    BY <1>6, <1>9, <2>1 DEF Yielding
  <2> QED BY <1>2, <1>4, <1>6, <1>9, <2>1, <2>2 DEF Pops, Leaving, Operations
<1>10. CASE kind = "expr" /\ Top.mode = "EVAL"
  <2>1. /\ size = 3
        /\ \/ Top.phase \in {0, 1} /\ op = "push"
           \/ Top.phase = 2 /\ op = "apply_expr"
    BY <1>7, <1>10 DEF StepAt, Push, Call, kind, size
  <2>2. Owed(Top) = Top.phase /\ Yields(Top)
    BY <1>2, <1>6, <1>10 DEF Yielding
  <2> QED BY <1>2, <1>4, <1>6, <1>10, <2>1, <2>2 DEF Pops, Leaving, Operations
<1>11. CASE kind \in {"uexpr", "echo"} /\ Top.mode = "EVAL"
  <2>1. /\ size = 2
        /\ \/ Top.phase = 0 /\ op = "push"
           \/ Top.phase = 1 /\ op = IF kind = "uexpr" THEN "apply_uexpr" ELSE "apply_echo"
    BY <1>7, <1>11 DEF StepAt, Push, Call, kind, size
  <2>2. Owed(Top) = Top.phase /\ (Yields(Top) <=> kind = "uexpr")
    BY <1>2, <1>6, <1>11 DEF Yielding
  <2> QED BY <1>2, <1>4, <1>6, <1>11, <2>1, <2>2 DEF Pops, Leaving, Operations
<1>12. CASE kind \in {"define", "assign"} /\ Top.mode = "EVAL"
  <2>1. \/ /\ kind = "define" /\ size = 2
           /\ \/ Top.phase = 0 /\ op = "push"
              \/ Top.phase = 1 /\ op = "apply_define"
        \/ /\ kind = "assign" /\ size = 3
           /\ \/ Top.phase \in {0, 1} /\ op = "push"
              \/ Top.phase = 2 /\ op = "apply_assign"
    BY <1>7, <1>12 DEF StepAt, Push, Call, kind, size
  <2>2. Owed(Top) = Top.phase /\ ~Yields(Top)
    BY <1>2, <1>6, <1>12 DEF Yielding
  <2> QED BY <1>2, <1>4, <1>6, <1>12, <2>1, <2>2 DEF Pops, Leaving, Operations
<1>13. CASE kind \in {"if", "ifexpr"} /\ Top.mode = "EVAL"
  <2>1. /\ size = 4
        /\ \/ Top.phase = 0 /\ op = "push"
           \/ Top.phase = 1 /\ op = "apply_if_cond"
           \/ Top.phase = 2 /\ op = "descisions"
           \/ Top.phase = 3 /\ op = IF kind = "if" THEN "apply_if_post" ELSE "apply_ifexpr_post"
    BY <1>7, <1>13 DEF StepAt, Push, Call, kind, size
  <2>2. /\ Top.phase = 0 => Owed(Top) = 0
        /\ Top.phase \in {1, 2} => Owed(Top) = 1
        /\ Top.phase = 1 => Owed(Next1) = 1
        /\ Top.phase = 3 => Owed(Top) = IF kind = "if" THEN 0 ELSE 1
        /\ Yields(Top) <=> kind = "ifexpr"
    BY <1>2, <1>6, <1>13 DEF Yielding
  <2> QED BY <1>2, <1>4, <1>6, <1>13, <2>1, <2>2 DEF Pops, Leaving, Operations
<1>14. CASE kind = "block" /\ Top.mode = "EVAL"
  <2>1. /\ size \in Nat \ {0, 1}
        /\ \/ Top.phase = 0 /\ op = "scope_push_new"
           \/ Top.phase \in 1 .. size - 2 /\ op = "push"
           \/ Top.phase = size - 1 /\ op = "scope_pop"
    BY <1>7, <1>14 DEF StepAt, Push, Call, kind, size
  <2>2. Owed(Top) = 0 /\ Owed(Next1) = 0 /\ ~Yields(Top)
    BY <1>2, <1>6, <1>14 DEF Yielding
  <2> QED BY <1>2, <1>4, <1>6, <1>14, <2>1, <2>2 DEF Pops, Leaving, Operations
<1> QED BY <1>5, <1>8, <1>9, <1>10, <1>11, <1>12, <1>13, <1>14 DEF Kinds
-----------------------------------------------------------------------------
(* Chains of tasks *)
LEMMA ChainedResumed ==
  ASSUME WalkInv, Walking, Top.node # NULL, Chained(tasks)
  PROVE  Chained(Resumed)
<1>1. tasks # <<>> BY DEF Walking
<1>2. Next1 \in Tasks /\ Next1.node = Top.node /\ Next1.mode = Top.mode BY TopIs DEF Next1
<1>3. Chained(Below) /\ Chained(Append(Below, Next1)) BY <1>1, <1>2, ChainedBelow
<1> QED BY <1>3 DEF Resumed, Next1

(* A task that pushes others stays below them. *)
LEMMA PushingStays ==
  ASSUME WalkInv, Walking, Top.node # NULL, Step.does \in {"push", "descisions"}
  PROVE  /\ Resumed = Append(Below, Next1) /\ Below \in Seq(Tasks) /\ Next1 \in Tasks
         /\ \A t : \/ Step.does = "push" /\ t.node = Step.kid /\ t.mode = Step.mode
                   \/ /\ Step.does = "descisions" /\ t.mode = "EVAL"
                      /\ t.node \in {ast[Top.node].kids[2], ast[Top.node].kids[3]}
                   => PushedBy(Next1, t)
<1> DEFINE size == Len(Steps(Top))
<1>1. tasks # <<>> BY DEF Walking
<1>2. /\ Top \in Tasks /\ Top.phase \in Nat /\ Top.node \in 1 .. Len(ast)
      /\ size \in Nat /\ StepAt(Top) /\ Step = Steps(Top)[Top.phase + 1]
      /\ Next1 \in Tasks /\ Next1.node = Top.node /\ Next1.phase = Top.phase + 1
      /\ Steps(Next1) = Steps(Top)
  BY TopIs DEF Next1
<1>3. Top.phase + 1 # size
  <2> HIDE DEF size
  <2> DEFINE kind == ast[Top.node].kind
  <2>1. \/ kind \in {"expr", "assign"} /\ size = 3 /\ Top.phase \in {0, 1}
        \/ kind \in {"uexpr", "echo", "define"} /\ size = 2 /\ Top.phase = 0
        \/ kind \in {"if", "ifexpr"} /\ size = 4 /\ Top.phase \in {0, 2}
        \/ kind = "block" /\ Top.phase \in 1 .. size - 2
    BY <1>2 DEF StepAt, Push, Call, size
  <2> QED BY <1>2, <2>1
<1>4. Resumed = Append(Below, Next1) BY <1>3 DEF Resumed, IsLast, Next1
<1>5. Next1.phase \in 1 .. size
  <2>1. Top.phase + 1 \in 1 .. size BY ResumedInOrder
  <2> QED BY <1>2, <2>1
<1>6. Below \in Seq(Tasks) BY <1>1, TasksAre
<1> QED BY <1>2, <1>4, <1>5, <1>6 DEF PushedBy

LEMMA DescendIs ==
  ASSUME WalkInv, Descend
  PROVE  /\ Walking /\ Top.node # NULL /\ OnNode("push")
         /\ Task(Step.kid, Step.mode) \in Tasks
         /\ Task(Step.kid, Step.mode).node = Step.kid /\ Task(Step.kid, Step.mode).mode = Step.mode
         /\ Task(Step.kid, Step.mode).phase = 0
         /\ tasks' = Append(Resumed, Task(Step.kid, Step.mode))
         /\ UNCHANGED <<ast, status>>
<1>1. Walking /\ Top.node # NULL /\ Step.does = "push" /\ OnNode("push") BY DEF Descend, OnNode
<1>2. /\ Top.node \in 1 .. Len(ast) /\ Top \in Tasks /\ Top.phase + 1 \in 1 .. Len(Steps(Top))
      /\ ast \in Trees /\ InOrder(Resumed)
  BY <1>1, ResumedInOrder DEF WalkInv
<1>3. /\ Step.mode \in {"EVAL", "REFERENCE"}
      /\ \E k \in DOMAIN ast[Top.node].kids : Step.kid = ast[Top.node].kids[k]
  BY <1>1, <1>2, StepsOfTask DEF Step
<1>4. Step.kid \in Nat BY <1>2, <1>3, KidIsLower
<1> DEFINE t == Task(Step.kid, Step.mode)
<1>5. t \in Tasks /\ t.phase = 0 /\ t.node = Step.kid /\ t.mode = Step.mode
  BY <1>3, <1>4 DEF Task, Tasks
<1>6. Resumed \in Seq(Tasks) BY <1>2 DEF InOrder
<1>7. UNCHANGED <<ast, status>> BY DescendFits
<1>8. PushTasks(<<t>>) BY DEF Descend
<1> HIDE DEF t
<1>9. Resumed \o <<t>> = Append(Resumed, t) BY <1>5, <1>6
<1>10. status # "task stack overflow" BY DEF WalkInv, TasksFit
<1>11. tasks' = Append(Resumed, t) BY <1>7, <1>8, <1>9, <1>10 DEF PushTasks
<1> QED BY <1>1, <1>5, <1>7, <1>11 DEF t

(* The interpreter walks one of the arms. *)
LEMMA DecidedIs ==
  ASSUME WalkInv, NEW c \in BOOLEAN, Decided(c, ~c)
  PROVE  /\ Walking /\ Top.node # NULL /\ OnNode("descisions")
         /\ UNCHANGED <<ast, status>>
         /\ \E t \in Tasks :
              /\ t.phase = 0 /\ t.mode = "EVAL"
              /\ t.node \in {ast[Top.node].kids[2], ast[Top.node].kids[3]}
              /\ tasks' = Append(Resumed, t)
<1> DEFINE e == Task(ast[Top.node].kids[3], "EVAL")
           t == Task(ast[Top.node].kids[2], "EVAL")
<1>1. Walking /\ Top.node # NULL /\ Step.does = "descisions" /\ OnNode("descisions")
  BY DEF Decided, OnNode
<1>2. /\ Top.node \in 1 .. Len(ast) /\ Top \in Tasks /\ Top.phase + 1 \in 1 .. Len(Steps(Top))
      /\ ast \in Trees /\ InOrder(Resumed)
  BY <1>1, ResumedInOrder DEF WalkInv
<1>3. 2 \in DOMAIN ast[Top.node].kids /\ 3 \in DOMAIN ast[Top.node].kids
  BY <1>1, <1>2, OnlyIfsDecide DEF Step
<1>4. ast[Top.node].kids[2] \in Nat /\ ast[Top.node].kids[3] \in Nat BY <1>2, <1>3, KidIsLower
<1>5. /\ e \in Tasks /\ e.phase = 0 /\ e.mode = "EVAL" /\ e.node = ast[Top.node].kids[3]
      /\ t \in Tasks /\ t.phase = 0 /\ t.mode = "EVAL" /\ t.node = ast[Top.node].kids[2]
  BY <1>4 DEF Task, Tasks
<1>6. Resumed \in Seq(Tasks) BY <1>2 DEF InOrder
<1>7. UNCHANGED <<ast, status>> BY DecidedFits
<1>8. PushTasks((IF ~c THEN <<e>> ELSE <<>>) \o (IF c THEN <<t>> ELSE <<>>)) BY DEF Decided
<1> HIDE DEF e, t
<1>9. Resumed \o <<t>> = Append(Resumed, t) /\ Resumed \o <<e>> = Append(Resumed, e) BY <1>5, <1>6
<1>10. status # "task stack overflow" BY DEF WalkInv, TasksFit
<1>11. CASE c
  <2>1. (IF ~c THEN <<e>> ELSE <<>>) \o (IF c THEN <<t>> ELSE <<>>) = <<t>> BY <1>5, <1>11
  <2>2. tasks' = Append(Resumed, t) BY <1>7, <1>8, <1>9, <1>10, <2>1 DEF PushTasks
  <2> QED BY <1>1, <1>5, <1>7, <2>2
<1>12. CASE ~c
  <2>1. (IF ~c THEN <<e>> ELSE <<>>) \o (IF c THEN <<t>> ELSE <<>>) = <<e>> BY <1>5, <1>12
  <2>2. tasks' = Append(Resumed, e) BY <1>7, <1>8, <1>9, <1>10, <2>1 DEF PushTasks
  <2> QED BY <1>1, <1>5, <1>7, <2>2
<1> QED BY <1>11, <1>12

(* What a step of the interpreter is to the walk. *)
LEMMA ExecStepShape ==
  ASSUME ExecStep
  PROVE  \/ \E op \in Operations : Called(op)
         \/ \E op, error : Raised(op, error)
         \/ \E c \in BOOLEAN : Decided(c, ~c)
         \/ Descend \/ Skip \/ Misplaced \/ End
<1> USE DEF Operations
<1>1. ASSUME NEW op \in Operations, NEW v, Pushed(op, v)
      PROVE  Called(op) \/ Raised(op, "stack overflow")
  BY <1>1 DEF Pushed
<1>2. CASE ValueOf BY <1>1, <1>2 DEF ValueOf
<1>3. CASE ApplyIdentifier \/ ApplyIdentifierRef
  BY <1>1, <1>3 DEF ApplyIdentifier, ApplyIdentifierRef, Unknown
<1>4. CASE ApplyExpr \/ ApplyUExpr \/ ApplyIfCond
  BY <1>1, <1>4 DEF ApplyExpr, ApplyUExpr, ApplyIfCond
<1>5. CASE Descide
  <2>1. (Last1 # 0) \in BOOLEAN /\ (Last1 = 0) = ~(Last1 # 0) OBVIOUS
  <2>2. Decided(Last1 # 0, Last1 = 0) BY <1>5 DEF Descide
  <2>3. Decided(Last1 # 0, ~(Last1 # 0)) BY <2>1, <2>2
  <2> QED BY <2>1, <2>3
<1>6. CASE IfPost \/ ApplyEcho \/ ApplyDefine \/ ApplyAssign
  BY <1>6 DEF IfPost, ApplyEcho, ApplyDefine, ApplyAssign
<1>7. CASE ScopePushNew \/ ScopePop \/ Underflow
  BY <1>7 DEF ScopePushNew, ScopePop, Underflow
<1>8. CASE Descend \/ Skip \/ Misplaced \/ End BY <1>8
<1> QED BY <1>2, <1>3, <1>4, <1>5, <1>6, <1>7, <1>8 DEF ExecStep

LEMMA ExecChains ==
  ASSUME WalkInv, Chained(tasks), ExecStep
  PROVE  Chained(tasks')
<1>1. ASSUME NEW op \in Operations, Called(op) PROVE Chained(tasks')
  BY <1>1, ChainedResumed DEF Called, OnNode
<1>2. ASSUME NEW op, NEW error, Raised(op, error) PROVE Chained(tasks')
  BY <1>2 DEF Raised
<1>3. ASSUME NEW c \in BOOLEAN, Decided(c, ~c) PROVE Chained(tasks')
  <2>1. Walking /\ Top.node # NULL /\ Step.does = "descisions" BY <1>3, DecidedIs DEF OnNode
  <2>2. PICK t \in Tasks : /\ t.mode = "EVAL" /\ tasks' = Append(Resumed, t)
                           /\ t.node \in {ast[Top.node].kids[2], ast[Top.node].kids[3]}
    BY <1>3, DecidedIs
  <2>3. /\ Resumed = Append(Below, Next1) /\ Below \in Seq(Tasks) /\ Next1 \in Tasks
        /\ PushedBy(Next1, t)
    BY <2>1, <2>2, PushingStays
  <2>4. Chained(Append(Below, Next1)) BY <2>1, <2>3, ChainedResumed
  <2>5. Chained(Append(Append(Below, Next1), t)) BY <2>3, <2>4, ChainedAppend
  <2> QED BY <2>2, <2>3, <2>5
<1>4. CASE Descend
  <2> DEFINE t == Task(Step.kid, Step.mode)
  <2>1. /\ Walking /\ Top.node # NULL /\ Step.does = "push" /\ t \in Tasks
        /\ t.node = Step.kid /\ t.mode = Step.mode /\ tasks' = Append(Resumed, t)
    BY <1>4, DescendIs DEF OnNode
  <2> HIDE DEF t
  <2>2. /\ Resumed = Append(Below, Next1) /\ Below \in Seq(Tasks) /\ Next1 \in Tasks
        /\ PushedBy(Next1, t)
    BY <2>1, PushingStays
  <2>3. Chained(Append(Below, Next1)) BY <2>1, <2>2, ChainedResumed
  <2>4. Chained(Append(Append(Below, Next1), t)) BY <2>1, <2>2, <2>3, ChainedAppend
  <2> QED BY <2>1, <2>2, <2>4
<1>5. CASE Skip
  BY <1>5, ChainedBelow DEF Skip, Walking
<1>6. CASE Misplaced \/ End BY <1>6 DEF Misplaced, End
<1> QED BY <1>1, <1>2, <1>3, <1>4, <1>5, <1>6, ExecStepShape
-----------------------------------------------------------------------------
(* The operand stack *)
Balanced ==
  /\ WalkInv /\ Chained(tasks) /\ Sorted
  /\ IsSequence(operands) /\ Len(operands) = Held(tasks)

(* What is to hold again behind a step. *)
Rebalanced ==
  /\ IsSequence(operands')
  /\ status' \notin {"stack underflow", "stack overflow"}
  /\ status' = "walking" => Len(operands') = Held(tasks')

LEMMA HeldNow ==
  ASSUME Balanced, Walking
  PROVE  /\ tasks # <<>> /\ WaitCount(Below) \in Nat /\ Len(operands) \in Nat
         /\ Len(operands) = Owed(Top) + WaitCount(Below)
         /\ Slots \in Nat /\ WaitCount(Below) < Slots
<1>1. tasks # <<>> /\ WalkInv BY DEF Walking, Balanced
<1>2. /\ Below \in Seq(Tasks) /\ Top \in Tasks /\ tasks = Append(Below, Top)
      /\ Len(tasks) \in Nat \ {0} /\ Len(Below) = Len(tasks) - 1
  BY <1>1, TasksAre
<1>3. WaitCount(Below) \in Nat /\ WaitCount(Below) <= Len(Below)
      /\ Held(tasks) = Owed(Top) + WaitCount(Below)
  BY <1>2, WaitingOfAppend
<1>4. Slots \in Nat BY <1>1, RootHasRoom DEF WalkInv
<1>5. Len(tasks) <= Slots
  <2>1. HasRoom(Top, Len(tasks)) /\ TaskOK(Top) BY <1>1, <1>2 DEF WalkInv, InOrder, Top
  <2>2. HeightOf(ast, Top.node) \in Nat
    <3>1. Top.node \in 0 .. Len(ast) /\ Len(ast) \in Nat
      BY <1>1, <2>1, TreesAssumption DEF TaskOK, WalkInv, IsTree
    <3>2. \A n \in 1 .. Len(ast) : ast[n].height \in Nat
      BY <1>1, TreesAssumption DEF WalkInv, IsTree
    <3> QED BY <3>1, <3>2 DEF HeightOf, NULL
  <2> QED BY <1>2, <1>4, <2>1, <2>2 DEF HasRoom
<1>6. Len(operands) \in Nat /\ Len(operands) = Held(tasks) BY SequenceOps DEF Balanced
<1> QED BY <1>1, <1>2, <1>3, <1>4, <1>5, <1>6

(* Every operation finds its operands, and room for what it pushes. *)
LEMMA OperandsAreThere ==
  ASSUME Balanced, NEW op \in Operations \cup {"descisions"}, OnNode(op)
  PROVE  /\ Holds(op) /\ IsSequence(Rest(op)) /\ WaitCount(Below) \in Nat
         /\ op = "apply_ifexpr_post" => Len(Rest(op)) = WaitCount(Below) + 1
         /\ op # "apply_ifexpr_post" => Len(Rest(op)) = WaitCount(Below) /\ Len(Rest(op)) < Slots
<1>1. Walking BY DEF OnNode
<1>2. /\ WaitCount(Below) \in Nat /\ Len(operands) \in Nat
      /\ Len(operands) = Owed(Top) + WaitCount(Below)
      /\ Slots \in Nat /\ WaitCount(Below) < Slots
  BY <1>1, HeldNow
<1>3. Pops(op) \in Nat BY DEF Pops
<1>4. Owed(Top) = Pops(op) + (IF op = "apply_ifexpr_post" THEN 1 ELSE 0)
  <2>1. op = "descisions" => Pops(op) = 1 BY DEF Pops
  <2>2. op = "descisions" => Owed(Top) = 1 BY OperationIs DEF Balanced
  <2>3. op \in Operations => Owed(Top) = Pops(op) + (IF op = "apply_ifexpr_post" THEN 1 ELSE 0)
    BY OperationIs DEF Balanced
  <2> QED BY <2>1, <2>2, <2>3
<1> DEFINE m == Len(operands) - Pops(op)
<1>5. /\ m = WaitCount(Below) + (IF op = "apply_ifexpr_post" THEN 1 ELSE 0)
      /\ m \in 0 .. Len(operands) /\ Len(operands) >= Pops(op)
  BY <1>2, <1>3, <1>4
<1>6. Rest(op) = SubSeq(operands, 1, m) BY DEF Rest
<1>8. op # "apply_ifexpr_post" => m = WaitCount(Below) BY <1>2, <1>5
<1>9. op = "apply_ifexpr_post" => m = WaitCount(Below) + 1 BY <1>2, <1>5
<1> HIDE DEF m
<1>7. IsSequence(SubSeq(operands, 1, m)) /\ Len(SubSeq(operands, 1, m)) = m
  BY <1>5, SequenceOps DEF Balanced
<1> QED BY <1>2, <1>5, <1>6, <1>7, <1>8, <1>9 DEF Holds

(* What the tasks are owed when an operation has returned. *)
LEMMA HeldResumed ==
  ASSUME Balanced, NEW op \in Operations, OnNode(op)
  PROVE  Held(Resumed) = WaitCount(Below) + (IF op \in Leaving THEN 1 ELSE 0)
<1>1. tasks # <<>> /\ Walking /\ Top.node # NULL /\ WalkInv BY DEF OnNode, Walking, Balanced
<1>2. IF IsLast THEN Yields(Top) <=> op \in Leaving ELSE Owed(Next1) = IF op \in Leaving THEN 1 ELSE 0
  BY OperationIs DEF Balanced
<1>3. CASE IsLast
  <2>1. Held(Below) = WaitCount(Below) + (IF Yields(Top) THEN 1 ELSE 0)
    BY <1>1, HeldBelow DEF Balanced
  <2>2. Resumed = Below BY <1>3 DEF Resumed
  <2> QED BY <1>2, <1>3, <2>1, <2>2
<1>4. CASE ~IsLast
  <2>1. Resumed = Append(Below, Next1) BY <1>4 DEF Resumed, Next1
  <2>2. Below \in Seq(Tasks) /\ Next1 \in Tasks BY <1>1, TasksAre, TopIs DEF Next1
  <2>3. WaitCount(Below) \in Nat /\ Held(Append(Below, Next1)) = Owed(Next1) + WaitCount(Below)
    BY <2>2, WaitingOfAppend
  <2> QED BY <1>2, <1>4, <2>1, <2>3
<1> QED BY <1>3, <1>4

LEMMA StillWalking ==
  ASSUME Balanced, NEW op, Called(op)
  PROVE  OnNode(op) /\ tasks' = Resumed /\ status' = "walking"
BY DEF Called, OnNode, Walking

LEMMA PushedBalances ==
  ASSUME Balanced, NEW op \in Leaving \ {"apply_ifexpr_post"}, OnNode(op), NEW v, Pushed(op, v)
  PROVE  Rebalanced
<1>1. op \in Operations BY DEF Leaving, Operations
<1>2. /\ IsSequence(Rest(op)) /\ WaitCount(Below) \in Nat
      /\ Len(Rest(op)) = WaitCount(Below) /\ Len(Rest(op)) < Slots
  BY <1>1, OperandsAreThere
<1>3. Called(op) /\ operands' = Append(Rest(op), v) BY <1>2 DEF Pushed
<1>4. tasks' = Resumed /\ status' = "walking" BY <1>3, StillWalking
<1>5. Held(Resumed) = WaitCount(Below) + 1 BY <1>1, HeldResumed
<1>6. IsSequence(operands') /\ Len(operands') = WaitCount(Below) + 1
  BY <1>2, <1>3, SequenceOps
<1> QED BY <1>4, <1>5, <1>6 DEF Rebalanced

LEMMA PoppedBalances ==
  ASSUME Balanced, NEW op \in Operations \ Leaving, Called(op), operands' = Rest(op)
  PROVE  Rebalanced
<1>1. OnNode(op) /\ tasks' = Resumed /\ status' = "walking" BY StillWalking
<1>2. op # "apply_ifexpr_post" BY DEF Leaving
<1>3. /\ IsSequence(Rest(op)) /\ Len(Rest(op)) = WaitCount(Below)
      /\ WaitCount(Below) \in Nat
  BY <1>1, <1>2, OperandsAreThere
<1>4. Held(Resumed) = WaitCount(Below) BY <1>1, <1>3, HeldResumed
<1> QED BY <1>1, <1>3, <1>4 DEF Rebalanced

LEMMA QuietBalances ==
  ASSUME Balanced, NEW op \in Operations \ Leaving, Called(op), UNCHANGED operands, Pops(op) = 0
  PROVE  Rebalanced
<1>1. OnNode(op) /\ tasks' = Resumed /\ status' = "walking" BY StillWalking
<1>2. WaitCount(Below) \in Nat /\ Len(operands) = Owed(Top) + WaitCount(Below)
  BY <1>1, HeldNow DEF OnNode
<1>3. Owed(Top) = 0
  <2>1. op # "apply_ifexpr_post" BY DEF Leaving
  <2> QED BY <1>1, <2>1, OperationIs DEF Balanced
<1>4. Held(Resumed) = WaitCount(Below) BY <1>1, <1>2, HeldResumed
<1>5. IsSequence(operands) BY DEF Balanced
<1> QED BY <1>1, <1>2, <1>3, <1>4, <1>5 DEF Rebalanced

LEMMA RaisedBalances ==
  ASSUME Balanced, NEW op, NEW error, Raised(op, error), UNCHANGED operands,
         error \notin {"stack underflow", "stack overflow"}
  PROVE  Rebalanced
<1>1. status' = error /\ error # "walking" BY DEF Raised, Messages
<1>2. IsSequence(operands') BY DEF Balanced
<1> QED BY <1>1, <1>2 DEF Rebalanced

LEMMA WalkBalances ==
  ASSUME Balanced, status = "walking", UNCHANGED operands
  PROVE  Descend \/ Skip \/ Misplaced \/ End => Rebalanced
<1>1. IsSequence(operands') /\ WalkInv BY DEF Balanced
<1>2. CASE Descend
  <2> DEFINE t == Task(Step.kid, Step.mode)
  <2>1. /\ Walking /\ Top.node # NULL /\ OnNode("push") /\ t \in Tasks /\ t.phase = 0
        /\ tasks' = Append(Resumed, t) /\ status' = status
    BY <1>1, <1>2, DescendIs
  <2> HIDE DEF t
  <2>2. Resumed = Append(Below, Next1) /\ Below \in Seq(Tasks) /\ Next1 \in Tasks
    BY <1>1, <2>1, PushingStays DEF OnNode
  <2>3. Owed(t) = 0 BY <2>1 DEF Owed
  <2>4. Owed(Top) = IF Waits(Next1) THEN 1 ELSE 0 BY <2>1, OperationIs DEF Balanced
  <2>5. /\ WaitCount(Below) \in Nat /\ Resumed \in Seq(Tasks)
        /\ WaitCount(Resumed) = WaitCount(Below) + (IF Waits(Next1) THEN 1 ELSE 0)
    BY <2>2, WaitingOfAppend
  <2>6. Held(Append(Resumed, t)) = Owed(t) + WaitCount(Resumed) BY <2>1, <2>5, WaitingOfAppend
  <2>7. Len(operands) = Owed(Top) + WaitCount(Below) BY <2>1, HeldNow
  <2>8. Len(operands) = Held(Append(Resumed, t)) BY <2>3, <2>4, <2>5, <2>6, <2>7
  <2> QED BY <1>1, <2>1, <2>8 DEF Rebalanced
<1>3. CASE Skip
  <2>1. Walking /\ tasks # <<>> /\ Top.node = NULL /\ tasks' = Below /\ status' = status
    BY <1>3 DEF Skip, Walking
  <2>2. Owed(Top) = 0 /\ ~Yields(Top) BY <2>1 DEF Owed, Yields
  <2>3. WaitCount(Below) \in Nat /\ Len(operands) = Owed(Top) + WaitCount(Below) BY <2>1, HeldNow
  <2>4. Held(Below) = WaitCount(Below) BY <2>1, <2>2, <2>3, HeldBelow DEF Balanced
  <2> QED BY <1>1, <2>1, <2>2, <2>3, <2>4 DEF Rebalanced
<1>4. CASE Misplaced \/ End BY <1>1, <1>4 DEF Misplaced, End, Rebalanced
<1> QED BY <1>2, <1>3, <1>4

LEMMA DescideBalances ==
  ASSUME Balanced, Descide
  PROVE  Rebalanced
<1>1. /\ OnNode("descisions") /\ Decided(Last1 # 0, Last1 = 0) /\ operands' = Rest("descisions")
      /\ Walking /\ Top.node # NULL /\ WalkInv /\ Step.does = "descisions" /\ status = "walking"
  BY DEF Descide, OnNode, Walking, Balanced
<1>2. PICK c \in BOOLEAN : Decided(c, ~c)
  <2>1. (Last1 # 0) \in BOOLEAN /\ (Last1 = 0) = ~(Last1 # 0) OBVIOUS
  <2>2. Decided(Last1 # 0, ~(Last1 # 0)) BY <1>1, <2>1
  <2> QED BY <2>1, <2>2
<1>3. status' = status /\ \E t \in Tasks : t.phase = 0 /\ tasks' = Append(Resumed, t)
  BY <1>1, <1>2, DecidedIs
<1>4. PICK t \in Tasks : t.phase = 0 /\ tasks' = Append(Resumed, t) BY <1>3
<1>5. Resumed = Append(Below, Next1) /\ Below \in Seq(Tasks) /\ Next1 \in Tasks
  BY <1>1, PushingStays
<1>6. ~Waits(Next1) BY <1>1, OperationIs DEF Balanced
<1>7. /\ WaitCount(Below) \in Nat /\ Resumed \in Seq(Tasks)
      /\ WaitCount(Resumed) = WaitCount(Below)
  BY <1>5, <1>6, WaitingOfAppend
<1>8. Held(Append(Resumed, t)) = Owed(t) + WaitCount(Resumed) BY <1>7, WaitingOfAppend
<1>9. Owed(t) = 0 BY <1>4 DEF Owed
<1>10. IsSequence(Rest("descisions")) /\ Len(Rest("descisions")) = WaitCount(Below)
  BY <1>1, OperandsAreThere
<1>11. Len(operands') = Held(tasks') BY <1>1, <1>4, <1>7, <1>8, <1>9, <1>10
<1> QED BY <1>1, <1>3, <1>10, <1>11 DEF Rebalanced

(* Nothing is pushed, or taken, by an if that is over. *)
LEMMA IfPostBalances ==
  ASSUME Balanced, IfPost
  PROVE  Rebalanced
<1>1. UNCHANGED operands BY DEF IfPost, machine
<1>2. CASE Called("apply_if_post")
  BY <1>1, <1>2, QuietBalances DEF Operations, Leaving, Pops
<1>3. CASE Called("apply_ifexpr_post")
  <2>1. OnNode("apply_ifexpr_post") /\ tasks' = Resumed /\ status' = "walking"
    BY <1>3, StillWalking
  <2>2. Held(Resumed) = WaitCount(Below) + 1
    BY <2>1, HeldResumed DEF Operations, Leaving
  <2>3. Owed(Top) = 1 BY <2>1, OperationIs DEF Balanced, Operations, Pops
  <2>4. WaitCount(Below) \in Nat /\ Len(operands) = Owed(Top) + WaitCount(Below)
    BY <2>1, HeldNow DEF OnNode
  <2>5. IsSequence(operands) BY DEF Balanced
  <2>6. Len(operands) = Held(Resumed) BY <2>2, <2>3, <2>4
  <2> QED BY <1>1, <2>1, <2>5, <2>6 DEF Rebalanced
<1> QED BY <1>2, <1>3 DEF IfPost

LEMMA ExecBalances ==
  ASSUME Balanced, status = "walking", ExecStep
  PROVE  Rebalanced
<1>0. /\ Leaving \ {"apply_ifexpr_post"} =
           { "value_of", "apply_identifier", "apply_identifier_ref", "apply_expr",
             "apply_uexpr", "apply_if_cond" }
      /\ \A op \in {"apply_echo", "apply_define", "apply_assign", "scope_push_new", "scope_pop"} :
           op \in Operations \ Leaving
  BY DEF Leaving, Operations
<1>1. ASSUME NEW op \in Leaving \ {"apply_ifexpr_post"}, NEW v, OnNode(op), Pushed(op, v)
      PROVE  Rebalanced
  BY <1>1, PushedBalances
<1>2. ASSUME NEW op, NEW error, Raised(op, error), UNCHANGED machine,
             error \notin {"stack underflow", "stack overflow"}
      PROVE  Rebalanced
  BY <1>2, RaisedBalances DEF machine
<1>3. CASE ValueOf
  <2>1. CASE Raised("value_of", "failed to convert string to integer") /\ UNCHANGED machine
    BY <1>2, <2>1
  <2>2. CASE \E v : OnNode("value_of") /\ Pushed("value_of", v) BY <1>0, <1>1, <2>2
  <2> QED BY <1>3, <2>1, <2>2 DEF ValueOf
<1>4. CASE ApplyIdentifier
  <2>1. CASE Unknown("apply_identifier", "value fetch failed: undefined name")
    BY <1>2, <2>1 DEF Unknown
  <2>2. CASE \E v : OnNode("apply_identifier") /\ Pushed("apply_identifier", v)
    BY <1>0, <1>1, <2>2
  <2> QED BY <1>4, <2>1, <2>2 DEF ApplyIdentifier
<1>5. CASE ApplyIdentifierRef
  <2>1. CASE Unknown("apply_identifier_ref", "reference fetch failed: undefined name")
    BY <1>2, <2>1 DEF Unknown
  <2>2. CASE \E v : OnNode("apply_identifier_ref") /\ Pushed("apply_identifier_ref", v)
    BY <1>0, <1>1, <2>2
  <2> QED BY <1>5, <2>1, <2>2 DEF ApplyIdentifierRef
<1>6. CASE ApplyExpr
  <2>1. CASE Raised("apply_expr", "division by zero") /\ UNCHANGED machine BY <1>2, <2>1
  <2>2. CASE \E v : OnNode("apply_expr") /\ Pushed("apply_expr", v) BY <1>0, <1>1, <2>2
  <2> QED BY <1>6, <2>1, <2>2 DEF ApplyExpr
<1>7. CASE ApplyUExpr \/ ApplyIfCond BY <1>0, <1>1, <1>7 DEF ApplyUExpr, ApplyIfCond
<1>8. CASE Descide BY <1>8, DescideBalances
<1>9. CASE IfPost BY <1>9, IfPostBalances
<1>10. ASSUME NEW op \in {"apply_echo", "apply_define", "apply_assign"},
              Called(op), operands' = Rest(op)
       PROVE  Rebalanced
  <2>1. op \in Operations \ Leaving BY <1>0
  <2> QED BY <1>10, <2>1, PoppedBalances
<1>11. CASE ApplyEcho \/ ApplyAssign
  <2>1. \E op \in {"apply_echo", "apply_assign"} : Called(op) /\ operands' = Rest(op)
    BY <1>11 DEF ApplyEcho, ApplyAssign
  <2> QED BY <1>10, <2>1
<1>12. CASE ApplyDefine
  <2>1. CASE Raised("apply_define", "name redefinition") /\ UNCHANGED machine BY <1>2, <2>1
  <2>2. CASE Called("apply_define") /\ operands' = Rest("apply_define")
    <3>1. \E op \in {"apply_define"} : Called(op) /\ operands' = Rest(op) BY <2>2
    <3> QED BY <1>10, <3>1
  <2> QED BY <1>12, <2>1, <2>2 DEF ApplyDefine
<1>13. CASE ScopePushNew \/ ScopePop
  <2>1. Pops("scope_push_new") = 0 /\ Pops("scope_pop") = 0 BY DEF Pops
  <2> QED BY <1>0, <1>13, <2>1, QuietBalances DEF ScopePushNew, ScopePop
<1>14. ~Underflow
  <2>1. ASSUME NEW op \in Operations \cup {"descisions"}, Raised(op, "stack underflow") PROVE Holds(op)
    <3>1. OnNode(op) BY <2>1 DEF Raised
    <3> QED BY <3>1, OperandsAreThere
  <2> QED BY <2>1 DEF Underflow
<1>15. CASE (Descend \/ Skip \/ Misplaced \/ End) /\ UNCHANGED machine
  BY <1>15, WalkBalances DEF machine
<1> QED BY <1>3, <1>4, <1>5, <1>6, <1>7, <1>8, <1>9, <1>11, <1>12, <1>13, <1>14, <1>15
        DEF ExecStep

LEMMA ExecWalks == ExecStep => status = "walking"
<1> SUFFICES ASSUME ExecStep PROVE status = "walking" OBVIOUS
<1>1. \A op : OnNode(op) => status = "walking" BY DEF OnNode, Walking
<1>2. \A op : Called(op) => status = "walking" BY <1>1 DEF Called
<1>3. \A op, error : Raised(op, error) => status = "walking" BY <1>1 DEF Raised
<1>4. \A c \in BOOLEAN : Decided(c, ~c) => status = "walking" BY <1>1 DEF Decided
<1>5. Descend \/ Skip \/ Misplaced \/ End => status = "walking"
  BY <1>1 DEF Descend, Skip, Walking, Misplaced, End
<1> QED BY <1>2, <1>3, <1>4, <1>5, ExecStepShape

LEMMA OperandsStep ==
  ASSUME OperandsInv, [Next]_vars
  PROVE  OperandsInv'
<1>1. /\ WalkInv /\ walk \in 0 .. 4
      /\ walk = 3 => Chained(tasks)
      /\ walk = 3 /\ Sorted => IsSequence(operands)
      /\ walk = 3 /\ Sorted => status \notin {"stack underflow", "stack overflow"}
      /\ walk = 3 /\ Sorted /\ status = "walking" => Len(operands) = Held(tasks)
  BY WalkIs DEF OperandsInv, OperandsMatchTasks
<1>2. WalkInv' BY <1>1, NextIsStep, WalkStep
<1> DEFINE After == /\ walk' \in 0 .. 4 /\ ast' = ast
                    /\ walk' = 3 => Chained(tasks')
                    /\ walk' = 3 /\ Sorted => Rebalanced
<1>3. ASSUME After PROVE OperandsInv'
  <2>1. In("run")' => walk' = 3
    <3>1. walk' = 0 \/ walk' = 1 \/ walk' = 2 \/ walk' = 3 \/ walk' = 4 BY <1>3
    <3>2. Walks[1] = "check" /\ Walks[2] = "free" /\ Walks[4] = "free"
      BY DEF Walks
    <3> QED BY <3>1, <3>2 DEF In
  <2>2. Sorted' = Sorted BY <1>3 DEF Sorted
  <2>3. Held(tasks)' = Held(tasks')
    <3>1. Waiting(tasks)' = Waiting(tasks') BY <1>3 DEF Waiting, Waits
    <3>2. Cardinality(Waiting(tasks) \ {Len(tasks)})' = Cardinality(Waiting(tasks') \ {Len(tasks')})
      BY <3>1, Zenon
    <3>3. Owed(tasks[Len(tasks)])' = Owed(tasks'[Len(tasks')]) BY <1>3 DEF Owed
    <3> QED BY <3>2, <3>3 DEF Held
  <2>4. Chained(tasks)' <=> Chained(tasks')
    <3>1. ast' = ast BY <1>3
    <3> HIDE DEF After
    <3>2. \A n : EvalSteps(n)' = EvalSteps(n) BY <3>1 DEF EvalSteps, Push, Call
    <3>3. \A t : Steps(t)' = Steps(t) BY <3>1, <3>2 DEF Steps, Call
    <3>4. \A p, t : PushedBy(p, t)' <=> PushedBy(p, t) BY <3>1, <3>3 DEF PushedBy
    <3> QED BY <3>1, <3>4 DEF Chained, Root
  <2>5. IsSequence(operands)' <=> IsSequence(operands') BY DEF IsSequence
  <2> QED BY <1>2, <1>3, <2>1, <2>2, <2>3, <2>4, <2>5 DEF OperandsInv, OperandsMatchTasks, Rebalanced
<1>4. CASE RunCheck
  <2>1. NextWalk("check") /\ ast' = ast BY <1>4 DEF RunCheck, CheckBegin, Begin
  <2>2. walk' = 1 BY <1>1, <2>1, NextWalkIs
  <2> QED BY <1>3, <2>1, <2>2
<1>5. CASE RunExec
  <2> DEFINE t == Task(Root(ast), "EVAL")
  <2>1. /\ NextWalk("run") /\ ast' = ast /\ operands' = <<>> /\ status' = "walking"
        /\ tasks' = <<t>>
    BY <1>5 DEF RunExec, ExecBegin, Begin
  <2>2. walk' = 3 BY <1>1, <2>1, NextWalkIs
  <2>3. t \in Tasks /\ t.phase = 0 /\ t.node = Root(ast) /\ t.mode = "EVAL"
    <3>1. Root(ast) \in Nat BY <1>1, TreesAssumption DEF WalkInv, IsTree, Root
    <3> QED BY <3>1 DEF Task, Tasks
  <2> HIDE DEF t
  <2>4. <<t>> = Append(<<>>, t) /\ <<>> \in Seq(Tasks) /\ Len(<<t>>) = 1 /\ <<t>>[1] = t BY <2>3
  <2>5. Held(Append(<<>>, t)) = Owed(t) + WaitCount(<<>>) BY <2>3, <2>4, WaitingOfAppend
  <2>6. Owed(t) = 0 BY <2>3 DEF Owed
  <2>7. Held(<<t>>) = 0 BY <2>4, <2>5, <2>6, NothingWaits
  <2>8. Chained(<<t>>)
    <3> DEFINE s == <<t>>
    <3>1. Len(s) = 1 /\ s[1].node = Root(ast) /\ s[1].mode = "EVAL" BY <2>3, <2>4
    <3> HIDE DEF s
    <3>2. Chained(s) BY <3>1 DEF Chained
    <3> QED BY <3>2 DEF s
  <2>9. IsSequence(<<>>) /\ Len(<<>>) = 0 BY DEF IsSequence
  <2>10. Rebalanced BY <2>1, <2>7, <2>9 DEF Rebalanced
  <2> QED BY <1>3, <2>1, <2>2, <2>8, <2>10
<1>6. CASE RunFree
  <2>1. NextWalk("free") /\ ast' = ast BY <1>6 DEF RunFree, FreeBegin, Begin
  <2>2. walk' \in {2, 4} BY <1>1, <2>1, NextWalkIs
  <2> QED BY <1>3, <2>1, <2>2
<1>7. CASE In("check") /\ CheckStep /\ UNCHANGED <<machine, memory, walk, verdict>>
  <2>1. walk = 1 /\ walk' = walk BY <1>1, <1>7, WalkIs
  <2>2. ast' = ast BY <1>1, <1>7, CheckStepIsStep, TreeStays
  <2> QED BY <1>3, <2>1, <2>2
<1>8. CASE In("run") /\ ExecStep /\ UNCHANGED <<checker, memory, walk, verdict>>
  <2>1. walk = 3 /\ walk' = walk /\ status = "walking" BY <1>1, <1>8, WalkIs, ExecWalks
  <2>2. ast' = ast BY <1>1, <1>8, ExecStepIsStep, TreeStays
  <2>3. Chained(tasks') BY <1>1, <1>8, <2>1, ExecChains
  <2>4. Sorted => Rebalanced
    <3>1. Sorted => Balanced BY <1>1, <2>1 DEF Balanced
    <3> QED BY <1>8, <2>1, <3>1, ExecBalances
  <2> QED BY <1>1, <1>3, <2>1, <2>2, <2>3, <2>4
<1>9. CASE In("free") /\ FreeStep /\ UNCHANGED <<machine, checker, walk, verdict>>
  <2>1. walk \in {2, 4} /\ walk' = walk BY <1>1, <1>9, WalkIs
  <2>2. ast' = ast BY <1>1, <1>9, FreeStepIsStep, TreeStays
  <2> QED BY <1>3, <2>1, <2>2
<1>10. CASE UNCHANGED vars
  <2>1. /\ ast' = ast /\ tasks' = tasks /\ status' = status /\ operands' = operands
        /\ walk' = walk
    BY <1>10 DEF vars, walker, machine
  <2>2. walk = 3 /\ Sorted => Rebalanced BY <1>1, <2>1 DEF Rebalanced
  <2> QED BY <1>1, <1>3, <2>1, <2>2
<1> QED BY <1>4, <1>5, <1>6, <1>7, <1>8, <1>9, <1>10 DEF Next

(* The interpreter's operands are those of the tasks in progress: whatever *)
(* well-sorted tree it runs, and whichever operation fails, none finds the *)
(* operand stack empty or full, and none takes what another one is owed    *)
(* (exec.c:66-80, walker.c:96-165).                                        *)
THEOREM OperandsAreOwed == Spec => []OperandsMatchTasks
<1>1. Init => OperandsInv
  <2> SUFFICES ASSUME Init PROVE OperandsInv OBVIOUS
  <2>1. WalkInv BY WalkStarts DEF Init
  <2>2. walk = 0 BY DEF Init
  <2> QED BY <2>1, <2>2 DEF OperandsInv, OperandsMatchTasks, In
<1>2. OperandsInv /\ [Next]_vars => OperandsInv' BY OperandsStep
<1>3. OperandsInv => OperandsMatchTasks BY DEF OperandsInv
<1> QED BY <1>1, <1>2, <1>3, PTL DEF Spec
-----------------------------------------------------------------------------
(***************************************************************************)
(* Freeing a tree frees each of its allocations once.  What is not freed   *)
(* yet are the nodes that have a task, and the trees below the nodes that  *)
(* are still to get one.                                                   *)
(***************************************************************************)

Nodes == 1 .. Len(ast)

KidsOf(n) == {ast[n].kids[k] : k \in DOMAIN ast[n].kids} \ {NULL}

(* The children that a task has still to walk; the name of a definition is *)
(* not walked, but freed with it.                                          *)
Coming(t) ==
  LET kids == ast[t.node].kids
      kind == ast[t.node].kind
  IN  CASE kind = "block"            -> {k \in DOMAIN kids : k >= t.phase}
        [] kind \in {"if", "ifexpr"} -> IF t.phase = 0 THEN {1, 2, 3}
                                        ELSE IF t.phase < 3 THEN {2, 3} ELSE {}
        [] kind = "define"           -> IF t.phase = 0 THEN {1, 2} ELSE {1}
        [] kind = "assign"           -> IF t.phase = 0 THEN {1, 2}
                                        ELSE IF t.phase = 1 THEN {1} ELSE {}
        [] OTHER                     -> {k \in DOMAIN kids : k > t.phase}

ComingKids(t) ==
  IF t.node = NULL THEN {} ELSE {ast[t.node].kids[k] : k \in Coming(t)} \ {NULL}

(* The nodes that have a task, and those that are still to get one. *)
OnStack(s) == {s[k].node : k \in 1 .. Len(s)} \ {NULL}
ToCome(s)  == UNION {ComingKids(s[k]) : k \in 1 .. Len(s)}

Distinct(s) ==
  \A j, k \in 1 .. Len(s) : s[j].node = s[k].node /\ s[j].node # NULL => j = k

(* The nodes that are not freed are those with a task, and the trees below *)
(* the nodes that are still to come.                                       *)
Covered(on, to_come, live) ==
  /\ on \subseteq live /\ to_come \subseteq live \ on
  /\ \A n \in live \ on : KidsOf(n) \subseteq live \ on
  /\ \A m \in live \ on : m \in to_come \/ \E n \in live \ on : m \in KidsOf(n)

ReferencesAreNames(s) ==
  \A k \in 1 .. Len(s) :
    s[k].mode = "REFERENCE" => s[k].node # NULL /\ ast[s[k].node].kind = "id"

HeapOf(live) == UNION {Allocated(n) : n \in live}

Good(s, live) == Distinct(s) /\ Covered(OnStack(s), ToCome(s), live)

(* While a tree is freed. *)
Freeing == \E live \in SUBSET Nodes : heap = HeapOf(live) /\ Good(tasks, live)

FreedInv ==
  /\ WalkInv /\ walk \in 0 .. 4
  /\ In("free") /\ status = "walking" =>
       Freeing /\ (Sorted => ReferencesAreNames(tasks))
  /\ TreeIsFreedOnce

LEMMA KidsAre ==
  ASSUME ast \in Trees
  PROVE  /\ \A n \in Nodes : KidsOf(n) \subseteq Nodes \ {Root(ast)}
         /\ \A n \in Nodes : \A m \in KidsOf(n) : m < n
         /\ \A n, p \in Nodes : \A m : m \in KidsOf(n) /\ m \in KidsOf(p) => n = p
         /\ \A m \in Nodes \ {Root(ast)} : \E n \in Nodes : m \in KidsOf(n)
         /\ Len(ast) \in Nat \ {0} /\ Root(ast) \in Nodes /\ 0 \notin Nodes
<1>1. IsTree(ast) BY TreesAssumption
<1>2. Len(ast) \in Nat \ {0} /\ DOMAIN ast = Nodes BY <1>1 DEF IsTree, Nodes
<1>3. \A n \in Nodes : \A k \in DOMAIN ast[n].kids : ast[n].kids[k] \in 0 .. n - 1
  BY <1>1, <1>2 DEF IsTree
<1>4. \A n \in Nodes : KidsOf(n) \subseteq Nodes \ {Root(ast)} /\ \A m \in KidsOf(n) : m < n
  BY <1>2, <1>3 DEF KidsOf, Nodes, Root, NULL
<1>5. \A n, p \in Nodes : \A m : m \in KidsOf(n) /\ m \in KidsOf(p) => n = p
  BY <1>1, <1>2 DEF IsTree, KidsOf
<1>6. ASSUME NEW m \in Nodes \ {Root(ast)} PROVE \E n \in Nodes : m \in KidsOf(n)
  <2>0. m \in 1 .. Len(ast) /\ m # Len(ast) BY DEF Nodes, Root
  <2>1. m \in 1 .. Len(ast) - 1 /\ m # NULL
    <3>1. Len(ast) \in Nat BY <1>2
    <3> QED BY <2>0, <3>1 DEF NULL
  <2>2. PICK n \in DOMAIN ast : \E k \in DOMAIN ast[n].kids : ast[n].kids[k] = m
    BY <1>1, <2>1 DEF IsTree
  <2>3. n \in Nodes BY <1>2, <2>2
  <2>4. m \in KidsOf(n) BY <2>1, <2>2 DEF KidsOf
  <2> QED BY <2>3, <2>4
<1>7. Root(ast) \in Nodes /\ 0 \notin Nodes
  <2>1. Len(ast) \in Nat \ {0} BY <1>2
  <2> QED BY <2>1 DEF Nodes, Root
<1> QED BY <1>2, <1>4, <1>5, <1>6, <1>7

(* What the next step of a task is about. *)
LEMMA ComingIs ==
  ASSUME WalkInv, NEW op, OnNode(op)
  PROVE  LET kids == ast[Top.node].kids
             kind == ast[Top.node].kind
         IN  /\ op = "push" =>
                  /\ ~IsLast
                  /\ \E k \in Coming(Top) :
                       /\ Step.kid = kids[k] /\ k \in DOMAIN kids
                       /\ Coming(Next1) = Coming(Top) \ {k}
                       /\ kind \in {"if", "ifexpr"} => k = 1
                       /\ Step.mode = "REFERENCE" => kind = "assign" /\ k = 1
             /\ op = "descisions" =>
                  /\ ~IsLast /\ kind \in {"if", "ifexpr"}
                  /\ Coming(Top) = {2, 3} /\ Coming(Next1) = {}
             /\ op \in Operations =>
                  /\ ~IsLast => /\ Coming(Next1) = Coming(Top)
                                /\ op \in {"apply_if_cond", "scope_push_new"}
                  /\ IsLast => /\ op = "value_of" <=> kind = "value"
                               /\ op \in {"apply_identifier", "apply_identifier_ref"} <=> kind = "id"
                               /\ op = "apply_define" <=> kind = "define"
                               /\ op = "scope_pop" <=> kind = "block"
                               /\ Coming(Top) = IF kind = "define" THEN {1} ELSE {}
             /\ op \in {"value_of", "apply_identifier", "apply_identifier_ref", "apply_define",
                        "scope_pop"} => IsLast
<1> DEFINE kids == ast[Top.node].kids
           kind == ast[Top.node].kind
           size == Len(Steps(Top))
<1>1. tasks # <<>> /\ Walking /\ Top.node # NULL /\ Step.does = op BY DEF OnNode, Walking
<1>2. /\ Top \in Tasks /\ Top.node \in 1 .. Len(ast) /\ Top.phase \in Nat
      /\ size \in Nat /\ StepAt(Top) /\ Step = Steps(Top)[Top.phase + 1]
      /\ Next1.node = Top.node /\ Next1.phase = Top.phase + 1
  BY <1>1, TopIs DEF Next1
<1>3. IsLast <=> Top.phase + 1 = size BY DEF IsLast
<1>4. kind \in Kinds /\ Top.mode \in {"EVAL", "REFERENCE"}
      /\ Len(kids) \in Arity(kind) /\ DOMAIN kids = 1 .. Len(kids)
  BY <1>2, TreesAssumption DEF WalkInv, IsTree, Tasks
<1>5. /\ \A t : t.node = Top.node =>
           Coming(t) = CASE kind = "block"            -> {k \in DOMAIN kids : k >= t.phase}
                         [] kind \in {"if", "ifexpr"} -> IF t.phase = 0 THEN {1, 2, 3}
                                                         ELSE IF t.phase < 3 THEN {2, 3} ELSE {}
                         [] kind = "define"           -> IF t.phase = 0 THEN {1, 2} ELSE {1}
                         [] kind = "assign"           -> IF t.phase = 0 THEN {1, 2}
                                                         ELSE IF t.phase = 1 THEN {1} ELSE {}
                         [] OTHER                     -> {k \in DOMAIN kids : k > t.phase}
  BY Zenon DEF Coming
<1>6. StepAt(Top) /\ Steps(Top)[Top.phase + 1].does = op /\ Step = Steps(Top)[Top.phase + 1]
  BY <1>1, <1>2
<1> HIDE DEF kind, kids, size
<1>7. CASE Top.mode = "REFERENCE"
  <2>1. size = 1 /\ Top.phase = 0 /\ op = IF kind = "id" THEN "apply_identifier_ref" ELSE "misplaced"
    BY <1>6, <1>7 DEF StepAt, Call, kind, size
  <2>2. kind = "id" => Coming(Top) = {}
    <3>1. kind = "id" => Len(kids) = 0 BY <1>4 DEF Arity
    <3>2. kind = "id" => Coming(Top) = {k \in DOMAIN kids : k > Top.phase} BY <1>5
    <3> QED BY <1>4, <3>1, <3>2
  <2> QED BY <1>3, <2>1, <2>2 DEF Operations, kind, kids
<1>8. CASE Top.mode = "EVAL" /\ kind \in {"value", "id"}
  <2>1. size = 1 /\ Top.phase = 0 /\ op = IF kind = "id" THEN "apply_identifier" ELSE "value_of"
    BY <1>6, <1>8 DEF StepAt, Call, kind, size
  <2>2. Coming(Top) = {}
    <3>1. Len(kids) = 0 BY <1>4, <1>8 DEF Arity
    <3>2. Coming(Top) = {k \in DOMAIN kids : k > Top.phase} BY <1>5, <1>8
    <3> QED BY <1>4, <3>1, <3>2
  <2> QED BY <1>3, <1>8, <2>1, <2>2 DEF Operations, kind, kids
<1>9. CASE kind = "expr" /\ Top.mode = "EVAL"
  <2>1. /\ size = 3
        /\ \/ Top.phase \in {0, 1} /\ Step = Push(kids[Top.phase + 1], "EVAL")
           \/ Top.phase = 2 /\ op = "apply_expr"
    BY <1>6, <1>9 DEF StepAt, Push, Call, kind, size, kids
  <2>2. Len(kids) = 2 BY <1>4, <1>9 DEF Arity
  <2>3. /\ Coming(Top) = {k \in {1, 2} : k > Top.phase}
        /\ Coming(Next1) = {k \in {1, 2} : k > Top.phase + 1}
    BY <1>2, <1>4, <1>5, <1>9, <2>2
  <2>4. CASE Top.phase \in {0, 1}
    <3>1. /\ op = "push" /\ Step.kid = kids[Top.phase + 1] /\ Step.mode = "EVAL" /\ ~IsLast
      BY <1>1, <1>3, <2>1, <2>4 DEF Push
    <3>2. /\ Top.phase + 1 \in Coming(Top) /\ Top.phase + 1 \in DOMAIN kids
          /\ Coming(Next1) = Coming(Top) \ {Top.phase + 1}
      BY <1>4, <2>2, <2>3, <2>4
    <3> QED BY <1>9, <3>1, <3>2 DEF Operations, kind, kids
  <2>5. CASE Top.phase = 2
    <3>1. Coming(Top) = {} BY <2>3, <2>5
    <3> QED BY <1>3, <1>9, <2>1, <2>5, <3>1 DEF Operations, kind, kids
  <2> QED BY <2>1, <2>4, <2>5
<1>10. CASE kind \in {"uexpr", "echo"} /\ Top.mode = "EVAL"
  <2>1. /\ size = 2
        /\ \/ Top.phase = 0 /\ Step = Push(kids[1], "EVAL")
           \/ Top.phase = 1 /\ op \in {"apply_uexpr", "apply_echo"}
    BY <1>6, <1>10 DEF StepAt, Push, Call, kind, size, kids
  <2>2. Len(kids) = 1 BY <1>4, <1>10 DEF Arity
  <2>3. /\ Coming(Top) = {k \in {1} : k > Top.phase}
        /\ Coming(Next1) = {k \in {1} : k > Top.phase + 1}
    BY <1>2, <1>4, <1>5, <1>10, <2>2
  <2>4. CASE Top.phase = 0
    <3>1. /\ op = "push" /\ Step.kid = kids[1] /\ Step.mode = "EVAL" /\ ~IsLast
      BY <1>1, <1>3, <2>1, <2>4 DEF Push
    <3>2. 1 \in Coming(Top) /\ 1 \in DOMAIN kids /\ Coming(Next1) = Coming(Top) \ {1}
      BY <1>4, <2>2, <2>3, <2>4
    <3> QED BY <1>10, <3>1, <3>2 DEF Operations, kind, kids
  <2>5. CASE Top.phase = 1
    <3>1. Coming(Top) = {} BY <2>3, <2>5
    <3> QED BY <1>3, <1>10, <2>1, <2>5, <3>1 DEF Operations, kind, kids
  <2> QED BY <2>1, <2>4, <2>5
<1>11. CASE kind = "define" /\ Top.mode = "EVAL"
  <2>1. /\ size = 2
        /\ \/ Top.phase = 0 /\ Step = Push(kids[2], "EVAL")
           \/ Top.phase = 1 /\ op = "apply_define"
    BY <1>6, <1>11 DEF StepAt, Push, Call, kind, size, kids
  <2>2. Len(kids) = 2 BY <1>4, <1>11 DEF Arity
  <2>3. /\ Coming(Top) = IF Top.phase = 0 THEN {1, 2} ELSE {1}
        /\ Coming(Next1) = {1}
    BY <1>2, <1>5, <1>11
  <2>4. CASE Top.phase = 0
    <3>1. /\ op = "push" /\ Step.kid = kids[2] /\ Step.mode = "EVAL" /\ ~IsLast
      BY <1>1, <1>3, <2>1, <2>4 DEF Push
    <3>2. 2 \in Coming(Top) /\ 2 \in DOMAIN kids /\ Coming(Next1) = Coming(Top) \ {2}
      BY <1>4, <2>2, <2>3, <2>4
    <3> QED BY <1>11, <3>1, <3>2 DEF Operations, kind, kids
  <2>5. CASE Top.phase = 1
    BY <1>3, <1>11, <2>1, <2>3, <2>5 DEF Operations, kind, kids
  <2> QED BY <2>1, <2>4, <2>5
<1>12. CASE kind = "assign" /\ Top.mode = "EVAL"
  <2>1. /\ size = 3
        /\ \/ Top.phase = 0 /\ Step = Push(kids[2], "EVAL")
           \/ Top.phase = 1 /\ Step = Push(kids[1], "REFERENCE")
           \/ Top.phase = 2 /\ op = "apply_assign"
    BY <1>6, <1>12 DEF StepAt, Push, Call, kind, size, kids
  <2>2. Len(kids) = 2 BY <1>4, <1>12 DEF Arity
  <2>3. /\ Coming(Top) = IF Top.phase = 0 THEN {1, 2} ELSE IF Top.phase = 1 THEN {1} ELSE {}
        /\ Coming(Next1) = IF Top.phase = 0 THEN {1} ELSE {}
    BY <1>2, <1>5, <1>12
  <2>4. CASE Top.phase = 0
    <3>1. /\ op = "push" /\ Step.kid = kids[2] /\ Step.mode = "EVAL" /\ ~IsLast
      BY <1>1, <1>3, <2>1, <2>4 DEF Push
    <3>2. 2 \in Coming(Top) /\ 2 \in DOMAIN kids /\ Coming(Next1) = Coming(Top) \ {2}
      BY <1>4, <2>2, <2>3, <2>4
    <3> QED BY <1>12, <3>1, <3>2 DEF Operations, kind, kids
  <2>5. CASE Top.phase = 1
    <3>1. /\ op = "push" /\ Step.kid = kids[1] /\ ~IsLast
      BY <1>1, <1>3, <2>1, <2>5 DEF Push
    <3>2. 1 \in Coming(Top) /\ 1 \in DOMAIN kids /\ Coming(Next1) = Coming(Top) \ {1}
      BY <1>4, <2>2, <2>3, <2>5
    <3> QED BY <1>12, <3>1, <3>2 DEF Operations, kind, kids
  <2>6. CASE Top.phase = 2
    BY <1>3, <1>12, <2>1, <2>3, <2>6 DEF Operations, kind, kids
  <2> QED BY <2>1, <2>4, <2>5, <2>6
<1>13. CASE kind \in {"if", "ifexpr"} /\ Top.mode = "EVAL"
  <2>1. /\ size = 4
        /\ \/ Top.phase = 0 /\ Step = Push(kids[1], "EVAL")
           \/ Top.phase = 1 /\ op = "apply_if_cond"
           \/ Top.phase = 2 /\ op = "descisions"
           \/ Top.phase = 3 /\ op \in {"apply_if_post", "apply_ifexpr_post"}
    BY <1>6, <1>13 DEF StepAt, Push, Call, kind, size, kids
  <2>2. Len(kids) = 3 BY <1>4, <1>13 DEF Arity
  <2>3. /\ Coming(Top) = IF Top.phase = 0 THEN {1, 2, 3} ELSE IF Top.phase < 3 THEN {2, 3} ELSE {}
        /\ Coming(Next1) = IF Top.phase + 1 < 3 THEN {2, 3} ELSE {}
    BY <1>2, <1>5, <1>13
  <2>4. CASE Top.phase = 0
    <3>1. /\ op = "push" /\ Step.kid = kids[1] /\ Step.mode = "EVAL" /\ ~IsLast
      BY <1>1, <1>3, <2>1, <2>4 DEF Push
    <3>2. 1 \in Coming(Top) /\ 1 \in DOMAIN kids /\ Coming(Next1) = Coming(Top) \ {1}
      BY <1>4, <2>2, <2>3, <2>4
    <3> QED BY <1>13, <3>1, <3>2 DEF Operations, kind, kids
  <2>5. CASE Top.phase \in {1, 2, 3}
    BY <1>3, <1>13, <2>1, <2>3, <2>5 DEF Operations, kind, kids
  <2> QED BY <2>1, <2>4, <2>5
<1>14. CASE kind = "block" /\ Top.mode = "EVAL"
  <2>1. /\ size = Len(kids) + 2 /\ size \in Nat \ {0, 1}
        /\ \/ Top.phase = 0 /\ op = "scope_push_new"
           \/ Top.phase \in 1 .. size - 2 /\ Step = Push(kids[Top.phase], "EVAL")
           \/ Top.phase = size - 1 /\ op = "scope_pop"
    BY <1>6, <1>14 DEF StepAt, Push, Call, kind, size, kids
  <2>2. Len(kids) \in Nat BY <1>4, <1>14 DEF Arity
  <2>3. /\ Coming(Top) = {k \in 1 .. Len(kids) : k >= Top.phase}
        /\ Coming(Next1) = {k \in 1 .. Len(kids) : k >= Top.phase + 1}
    BY <1>2, <1>4, <1>5, <1>14
  <2>4. CASE Top.phase \in 1 .. size - 2 /\ Step = Push(kids[Top.phase], "EVAL")
    <3>1. /\ op = "push" /\ Step.kid = kids[Top.phase] /\ Step.mode = "EVAL" /\ ~IsLast
      BY <1>1, <1>3, <2>1, <2>4 DEF Push
    <3>2. /\ Top.phase \in Coming(Top) /\ Top.phase \in DOMAIN kids
          /\ Coming(Next1) = Coming(Top) \ {Top.phase}
      BY <1>2, <1>4, <2>1, <2>2, <2>3, <2>4
    <3> QED BY <1>14, <3>1, <3>2 DEF Operations, kind, kids
  <2>5. CASE Top.phase = 0 /\ op = "scope_push_new"
    <3>1. ~IsLast /\ Coming(Next1) = Coming(Top) BY <1>3, <2>1, <2>2, <2>3, <2>5
    <3> QED BY <2>5, <3>1 DEF Operations
  <2>6. CASE Top.phase = size - 1 /\ op = "scope_pop"
    <3>1. IsLast /\ Coming(Top) = {} BY <1>3, <2>1, <2>2, <2>3, <2>6
    <3> QED BY <1>14, <2>6, <3>1 DEF Operations, kind, kids
  <2> QED BY <2>1, <2>4, <2>5, <2>6
<1> QED BY <1>4, <1>7, <1>8, <1>9, <1>10, <1>11, <1>12, <1>13, <1>14 DEF Kinds
-----------------------------------------------------------------------------
(* One of the nodes that are to come gets a task: its parent has one.      *)
LEMMA CoveredPush ==
  ASSUME ast \in Trees, NEW live \in SUBSET Nodes, NEW on, NEW to_come,
         Covered(on, to_come, live),
         NEW p \in on, NEW m \in to_come, m \in KidsOf(p)
  PROVE  Covered(on \cup {m}, (to_come \ {m}) \cup KidsOf(m), live)
<1> DEFINE on1 == on \cup {m}
           to1 == (to_come \ {m}) \cup KidsOf(m)
<1>1. /\ \A n \in Nodes : \A x \in KidsOf(n) : x < n
      /\ \A n, q \in Nodes : \A x : x \in KidsOf(n) /\ x \in KidsOf(q) => n = q
  BY KidsAre
<1>2. /\ on \subseteq live /\ to_come \subseteq live \ on
      /\ \A n \in live \ on : KidsOf(n) \subseteq live \ on
      /\ \A x \in live \ on : x \in to_come \/ \E n \in live \ on : x \in KidsOf(n)
  BY DEF Covered
<1>3. m \in live \ on /\ m \in Nodes /\ p \in Nodes /\ m \in Nat BY <1>2 DEF Nodes
<1>4. m \notin KidsOf(m) BY <1>1, <1>3
<1>5. on1 \subseteq live BY <1>2, <1>3
<1>6. to1 \subseteq live \ on1 BY <1>2, <1>3, <1>4
<1>7. ASSUME NEW n \in live \ on1 PROVE KidsOf(n) \subseteq live \ on1
  <2>1. n \in live \ on /\ n # p /\ n \in Nodes BY <1>7
  <2>2. m \notin KidsOf(n) BY <1>1, <1>3, <2>1
  <2> QED BY <1>2, <2>1, <2>2
<1>8. ASSUME NEW x \in live \ on1 PROVE x \in to1 \/ \E n \in live \ on1 : x \in KidsOf(n)
  <2>1. x \in live \ on /\ x # m BY <1>8
  <2> QED BY <1>2, <2>1
<1> HIDE DEF on1, to1
<1>9. Covered(on1, to1, live) BY <1>5, <1>6, <1>7, <1>8 DEF Covered
<1> QED BY <1>9 DEF on1, to1

(* A task is over: its node is freed, and what is left to come of it,      *)
(* which is a name and has no children.                                    *)
LEMMA CoveredPop ==
  ASSUME ast \in Trees, NEW live \in SUBSET Nodes, NEW on, NEW to_come,
         Covered(on, to_come, live),
         NEW p \in on, NEW left \in SUBSET to_come, left \subseteq KidsOf(p),
         \A x \in left : KidsOf(x) = {}
  PROVE  Covered(on \ {p}, to_come \ left, live \ ({p} \cup left))
<1> DEFINE on1 == on \ {p}
           to1 == to_come \ left
           live1 == live \ ({p} \cup left)
<1>1. \A n, q \in Nodes : \A x : x \in KidsOf(n) /\ x \in KidsOf(q) => n = q
  BY KidsAre
<1>2. /\ on \subseteq live /\ to_come \subseteq live \ on
      /\ \A n \in live \ on : KidsOf(n) \subseteq live \ on
      /\ \A x \in live \ on : x \in to_come \/ \E n \in live \ on : x \in KidsOf(n)
  BY DEF Covered
<1>3. p \in Nodes /\ left \subseteq live \ on BY <1>2
<1>4. \A x : x \in live1 \ on1 <=> x \in live \ on /\ x \notin left BY <1>2, <1>3
<1>5. on1 \subseteq live1 BY <1>2, <1>3
<1>6. to1 \subseteq live1 \ on1 BY <1>2, <1>3, <1>4
<1>7. ASSUME NEW n \in live1 \ on1 PROVE KidsOf(n) \subseteq live1 \ on1
  <2>1. n \in live \ on /\ n # p /\ n \in Nodes BY <1>2, <1>4, <1>7
  <2>2. \A x \in left : x \notin KidsOf(n) BY <1>1, <1>3, <2>1
  <2>3. KidsOf(n) \subseteq live \ on BY <1>2, <2>1
  <2> HIDE DEF live1, on1
  <2> QED BY <1>4, <2>2, <2>3
<1>8. ASSUME NEW x \in live1 \ on1 PROVE x \in to1 \/ \E n \in live1 \ on1 : x \in KidsOf(n)
  <2>1. x \in live \ on /\ x \notin left BY <1>4, <1>8
  <2>2. CASE x \in to_come BY <2>1, <2>2
  <2>3. CASE \E n \in live \ on : x \in KidsOf(n)
    <3>1. PICK n \in live \ on : x \in KidsOf(n) BY <2>3
    <3>2. n \notin left BY <3>1
    <3>3. n \in live1 \ on1 BY <1>4, <3>1, <3>2
    <3> QED BY <3>1, <3>3
  <2> QED BY <1>2, <2>1, <2>2, <2>3
<1> HIDE DEF on1, to1, live1
<1>9. Covered(on1, to1, live1) BY <1>5, <1>6, <1>7, <1>8 DEF Covered
<1> QED BY <1>9 DEF on1, to1, live1

(* At the beginning every node is there and the root has a task. *)
LEMMA CoveredAtFirst ==
  ASSUME ast \in Trees
  PROVE  Covered({Root(ast)}, KidsOf(Root(ast)), Nodes)
<1>1. /\ \A n \in Nodes : KidsOf(n) \subseteq Nodes \ {Root(ast)}
      /\ \A m \in Nodes \ {Root(ast)} : \E n \in Nodes : m \in KidsOf(n)
      /\ Root(ast) \in Nodes
  BY KidsAre
<1>2. \A m \in Nodes \ {Root(ast)} :
        m \in KidsOf(Root(ast)) \/ \E n \in Nodes \ {Root(ast)} : m \in KidsOf(n)
  BY <1>1
<1> QED BY <1>1, <1>2 DEF Covered

LEMMA LeastOf ==
  ASSUME NEW T \in SUBSET Nat, T # {}
  PROVE  \E x \in T : \A y \in T : x <= y
<1> DEFINE less == {ss \in Nat \X Nat : ss[1] < ss[2]}
<1>1. IsWellFoundedOn(less, Nat) BY NatLessThanWellFounded, Zenon DEF OpToRel
<1>2. \A x, y \in Nat : y < x => <<y, x>> \in less OBVIOUS
<1> HIDE DEF less
<1>3. PICK x \in T : \A y \in T : <<y, x>> \notin less BY <1>1, WFMin
<1>4. ASSUME NEW y \in T PROVE x <= y
  <2>1. x \in Nat /\ y \in Nat OBVIOUS
  <2>2. ~ (y < x) BY <1>2, <1>3, <2>1, Zenon
  <2> QED BY <2>1, <2>2
<1> QED BY <1>4

(* At the end none is left. *)
LEMMA CoveredAtLast ==
  ASSUME ast \in Trees, NEW live \in SUBSET Nodes, Covered({}, {}, live)
  PROVE  live = {}
<1> SUFFICES ASSUME live # {} PROVE FALSE OBVIOUS
<1>1. /\ \A n \in Nodes : \A m \in KidsOf(n) : m < n
      /\ Len(ast) \in Nat
  BY KidsAre
<1>2. \A m \in live : \E n \in live : m \in KidsOf(n) BY DEF Covered
<1> DEFINE depths == {d \in Nat : Len(ast) - d \in live}
<1>3. \A m \in live : m \in Nodes /\ m \in Nat /\ Len(ast) - m \in depths
  <2> SUFFICES ASSUME NEW m \in live PROVE m \in Nodes /\ m \in Nat /\ Len(ast) - m \in depths
    OBVIOUS
  <2>1. m \in 1 .. Len(ast) BY DEF Nodes
  <2>2. Len(ast) - m \in Nat /\ Len(ast) - (Len(ast) - m) = m BY <1>1, <2>1
  <2> QED BY <2>1, <2>2 DEF Nodes
<1>4. depths # {} /\ depths \subseteq Nat BY <1>3
<1> HIDE DEF depths
<1>5. PICK d \in depths : \A e \in depths : d <= e BY <1>4, LeastOf
<1>6. d \in Nat /\ Len(ast) - d \in live BY <1>5 DEF depths
<1>7. PICK n \in live : Len(ast) - d \in KidsOf(n) BY <1>2, <1>6
<1>8. n \in Nat /\ Len(ast) - d < n /\ Len(ast) - n \in depths BY <1>1, <1>3, <1>7
<1>9. d <= Len(ast) - n BY <1>5, <1>8
<1> QED BY <1>1, <1>6, <1>8, <1>9
-----------------------------------------------------------------------------
LEMMA StackOfAppend ==
  ASSUME NEW s \in Seq(Tasks), NEW t \in Tasks
  PROVE  /\ OnStack(Append(s, t)) = OnStack(s) \cup ({t.node} \ {NULL})
         /\ ToCome(Append(s, t)) = ToCome(s) \cup ComingKids(t)
         /\ Distinct(Append(s, t)) <=> Distinct(s) /\ t.node \notin OnStack(s)
         /\ ReferencesAreNames(Append(s, t)) <=>
              /\ ReferencesAreNames(s)
              /\ t.mode = "REFERENCE" => t.node # NULL /\ ast[t.node].kind = "id"
<1> DEFINE all == Append(s, t)
<1>1. /\ Len(s) \in Nat /\ Len(all) = Len(s) + 1 /\ all[Len(s) + 1] = t
      /\ \A k \in 1 .. Len(s) : all[k] = s[k]
  OBVIOUS
<1> HIDE DEF all
<1>2. /\ \A k \in 1 .. Len(all) : k \in 1 .. Len(s) \/ k = Len(s) + 1
      /\ \A k \in 1 .. Len(s) : k \in 1 .. Len(all) /\ k # Len(s) + 1
      /\ Len(s) + 1 \in 1 .. Len(all)
  BY <1>1
<1> DEFINE l == Len(s) + 1
<1>3. /\ \A k \in 1 .. Len(all) : k \in 1 .. Len(s) \/ k = l
      /\ \A k \in 1 .. Len(s) : k \in 1 .. Len(all) /\ k # l /\ all[k] = s[k]
      /\ l \in 1 .. Len(all) /\ all[l] = t
  BY <1>1, <1>2
<1> HIDE DEF l
<1>4. OnStack(all) = OnStack(s) \cup ({t.node} \ {NULL})
  <2>1. \A x : x \in OnStack(all) => x \in OnStack(s) \/ x \in {t.node} \ {NULL}
    BY <1>3 DEF OnStack
  <2>2. \A x : x \in OnStack(s) => x \in OnStack(all) BY <1>3 DEF OnStack
  <2>3. \A x : x \in {t.node} \ {NULL} => x \in OnStack(all) BY <1>3 DEF OnStack
  <2> QED BY <2>1, <2>2, <2>3
<1>5. ToCome(all) = ToCome(s) \cup ComingKids(t)
  <2>1. ASSUME NEW x \in ToCome(all) PROVE x \in ToCome(s) \/ x \in ComingKids(t)
    <3>1. PICK k \in 1 .. Len(all) : x \in ComingKids(all[k]) BY <2>1 DEF ToCome
    <3>2. CASE k \in 1 .. Len(s)
      <4>1. x \in ComingKids(s[k]) BY <1>3, <3>1, <3>2
      <4> QED BY <3>2, <4>1 DEF ToCome
    <3>3. CASE k = l BY <1>3, <3>1, <3>3
    <3> QED BY <1>3, <3>2, <3>3
  <2>2. ASSUME NEW x \in ToCome(s) PROVE x \in ToCome(all)
    <3>1. PICK k \in 1 .. Len(s) : x \in ComingKids(s[k]) BY <2>2 DEF ToCome
    <3>2. k \in 1 .. Len(all) /\ x \in ComingKids(all[k]) BY <1>3, <3>1
    <3> QED BY <3>2 DEF ToCome
  <2>3. ASSUME NEW x \in ComingKids(t) PROVE x \in ToCome(all) BY <1>3, <2>3 DEF ToCome
  <2> QED BY <2>1, <2>2, <2>3
<1>6. Distinct(all) <=> Distinct(s) /\ t.node \notin OnStack(s)
  <2>1. Distinct(all) => Distinct(s) BY <1>3 DEF Distinct
  <2>2. Distinct(all) => t.node \notin OnStack(s) BY <1>3 DEF Distinct, OnStack
  <2>3. ASSUME Distinct(s), t.node \notin OnStack(s) PROVE Distinct(all)
    <3>1. \A k \in 1 .. Len(s) : s[k].node # NULL => s[k].node # t.node BY <2>3 DEF OnStack
    <3> QED BY <1>3, <2>3, <3>1 DEF Distinct
  <2> QED BY <2>1, <2>2, <2>3
<1>7. ReferencesAreNames(all) <=>
              /\ ReferencesAreNames(s)
              /\ t.mode = "REFERENCE" => t.node # NULL /\ ast[t.node].kind = "id"
  BY <1>3 DEF ReferencesAreNames
<1> QED BY <1>4, <1>5, <1>6, <1>7 DEF all

LEMMA NothingOnStack ==
  /\ OnStack(<<>>) = {} /\ ToCome(<<>>) = {} /\ Distinct(<<>>) /\ ReferencesAreNames(<<>>)
BY DEF OnStack, ToCome, Distinct, ReferencesAreNames

(* The children that are to come of a task are children of its node: all   *)
(* of them when it begins.                                                 *)
LEMMA ComingKidsAre ==
  ASSUME ast \in Trees, NEW t \in Tasks, t.node \in Nodes
  PROVE  /\ ComingKids(t) \subseteq KidsOf(t.node) /\ Coming(t) \subseteq DOMAIN ast[t.node].kids
         /\ t.phase = 0 => /\ ComingKids(t) = KidsOf(t.node)
                           /\ Coming(t) = DOMAIN ast[t.node].kids
<1> DEFINE kids == ast[t.node].kids
           kind == ast[t.node].kind
<1>1. IsTree(ast) /\ t.node \in DOMAIN ast BY TreesAssumption DEF IsTree, Nodes
<1>2. kind \in Kinds /\ Len(kids) \in Arity(kind) /\ DOMAIN kids = 1 .. Len(kids)
  BY <1>1 DEF IsTree
<1>3. t.phase \in Nat /\ t.node # NULL BY KidsAre DEF Tasks, NULL
<1>4. Coming(t) = CASE kind = "block"            -> {k \in DOMAIN kids : k >= t.phase}
                    [] kind \in {"if", "ifexpr"} -> IF t.phase = 0 THEN {1, 2, 3}
                                                    ELSE IF t.phase < 3 THEN {2, 3} ELSE {}
                    [] kind = "define"           -> IF t.phase = 0 THEN {1, 2} ELSE {1}
                    [] kind = "assign"           -> IF t.phase = 0 THEN {1, 2}
                                                    ELSE IF t.phase = 1 THEN {1} ELSE {}
                    [] OTHER                     -> {k \in DOMAIN kids : k > t.phase}
  BY Zenon DEF Coming
<1> HIDE DEF kids, kind
<1>5. Coming(t) \subseteq DOMAIN kids /\ (t.phase = 0 => Coming(t) = DOMAIN kids)
  <2>1. CASE kind = "block" BY <1>2, <1>3, <1>4, <2>1
  <2>2. CASE kind \in {"if", "ifexpr"}
    <3>1. Len(kids) = 3 BY <1>2, <2>2 DEF Arity
    <3> QED BY <1>2, <1>4, <2>2, <3>1
  <2>3. CASE kind \in {"define", "assign"}
    <3>1. Len(kids) = 2 BY <1>2, <2>3 DEF Arity
    <3> QED BY <1>2, <1>4, <2>3, <3>1
  <2>4. CASE kind \in {"id", "value", "uexpr", "echo", "expr"}
    <3>1. Coming(t) = {k \in DOMAIN kids : k > t.phase} BY <1>4, <2>4
    <3> QED BY <1>2, <1>3, <3>1
  <2> QED BY <1>2, <2>1, <2>2, <2>3, <2>4 DEF Kinds
<1>6. ComingKids(t) = {kids[k] : k \in Coming(t)} \ {NULL} /\ KidsOf(t.node) = {kids[k] : k \in DOMAIN kids} \ {NULL}
  BY <1>3 DEF ComingKids, KidsOf, kids
<1> QED BY <1>5, <1>6 DEF kids

(* Of two nodes, one without a task has no child that is to come. *)
LEMMA ToComeIsBelow ==
  ASSUME ast \in Trees, NEW s, InOrder(s)
  PROVE  /\ OnStack(s) \subseteq Nodes
         /\ \A n \in Nodes \ OnStack(s) : \A m \in KidsOf(n) : m \notin ToCome(s)
<1>1. s \in Seq(Tasks) /\ \A k \in 1 .. Len(s) : s[k] \in Tasks /\ s[k].node \in Nodes \cup {0}
  BY KidsAre DEF InOrder, TaskOK, Nodes
<1>2. OnStack(s) \subseteq Nodes BY <1>1 DEF OnStack, NULL
<1>3. ASSUME NEW n \in Nodes \ OnStack(s), NEW m \in KidsOf(n), m \in ToCome(s) PROVE FALSE
  <2>1. PICK k \in 1 .. Len(s) : m \in ComingKids(s[k]) BY <1>3 DEF ToCome
  <2>2. s[k].node # NULL BY <2>1 DEF ComingKids
  <2>3. s[k] \in Tasks /\ s[k].node \in Nodes /\ s[k].node \in OnStack(s)
    BY <1>1, <2>2 DEF OnStack, NULL
  <2>4. m \in KidsOf(s[k].node) BY <2>1, <2>3, ComingKidsAre
  <2>5. n = s[k].node BY <1>3, <2>3, <2>4, KidsAre
  <2> QED BY <1>3, <2>3, <2>5
<1> QED BY <1>2, <1>3

LEMMA TaskOnTop ==
  ASSUME NEW s \in Seq(Tasks), NEW t \in Tasks, t.node # NULL
  PROVE  /\ OnStack(Append(s, t)) = OnStack(s) \cup {t.node}
         /\ ToCome(Append(s, t)) = ToCome(s) \cup ComingKids(t)
         /\ Distinct(Append(s, t)) <=> Distinct(s) /\ t.node \notin OnStack(s)
<1>1. {t.node} \ {NULL} = {t.node} OBVIOUS
<1>2. /\ OnStack(Append(s, t)) = OnStack(s) \cup ({t.node} \ {NULL})
      /\ ToCome(Append(s, t)) = ToCome(s) \cup ComingKids(t)
      /\ Distinct(Append(s, t)) <=> Distinct(s) /\ t.node \notin OnStack(s)
  BY StackOfAppend, Zenon
<1> QED BY <1>1, <1>2, Zenon

(* A task for nothing changes nothing. *)
LEMMA NullOnTop ==
  ASSUME NEW s \in Seq(Tasks), NEW t \in Tasks, t.node = NULL
  PROVE  /\ OnStack(Append(s, t)) = OnStack(s)
         /\ ToCome(Append(s, t)) = ToCome(s)
         /\ Distinct(Append(s, t)) <=> Distinct(s)
<1>1. NULL \notin OnStack(s) BY DEF OnStack
<1>2. ComingKids(t) = {} BY DEF ComingKids
<1>3. OnStack(s) \cup ({t.node} \ {NULL}) = OnStack(s) /\ ToCome(s) \cup ComingKids(t) = ToCome(s)
  BY <1>2
<1>4. /\ OnStack(Append(s, t)) = OnStack(s) \cup ({t.node} \ {NULL})
      /\ ToCome(Append(s, t)) = ToCome(s) \cup ComingKids(t)
      /\ Distinct(Append(s, t)) <=> Distinct(s) /\ t.node \notin OnStack(s)
  BY StackOfAppend, Zenon
<1> QED BY <1>1, <1>3, <1>4, Zenon

(* A task pushes a child, asks for nothing, or is over. *)
LEMMA PushGood ==
  ASSUME ast \in Trees, NEW live \in SUBSET Nodes, NEW b, InOrder(b),
         NEW t \in Tasks, t.node \in Nodes, Good(Append(b, t), live),
         NEW t1 \in Tasks, t1.node = t.node,
         NEW u \in Tasks, u.phase = 0, u.node \in ComingKids(t),
         ComingKids(t1) = ComingKids(t) \ {u.node}
  PROVE  Good(Append(Append(b, t1), u), live)
<1> DEFINE m  == u.node
           on == OnStack(b) \cup {t.node}
           to == ToCome(b) \cup ComingKids(t)
<1>1. b \in Seq(Tasks) /\ Append(b, t1) \in Seq(Tasks) BY DEF InOrder
<1>2. t.node # NULL BY KidsAre DEF NULL
<1>3. /\ Distinct(b) /\ t.node \notin OnStack(b)
      /\ OnStack(Append(b, t)) = on /\ ToCome(Append(b, t)) = to
  <2>1. Distinct(Append(b, t)) BY DEF Good
  <2> QED BY <1>1, <1>2, <2>1, TaskOnTop, Zenon
<1>4. Covered(on, to, live) BY <1>3 DEF Good
<1>5. m \in KidsOf(t.node) BY ComingKidsAre
<1>6. m \in Nodes /\ m # NULL BY <1>5, KidsAre DEF NULL
<1>7. m \notin ToCome(b) BY <1>3, <1>5, ToComeIsBelow
<1>8. m \notin on BY <1>4 DEF Covered
<1>9. ComingKids(u) = KidsOf(m) BY <1>6, ComingKidsAre
<1>10. Covered(on \cup {m}, (to \ {m}) \cup KidsOf(m), live)
  <2>1. t.node \in on /\ m \in to OBVIOUS
  <2> HIDE DEF on, to, m
  <2> QED BY <1>4, <1>5, <2>1, CoveredPush
<1> DEFINE s1 == Append(b, t1)
           s2 == Append(s1, u)
<1>11. OnStack(s1) = on /\ ToCome(s1) = ToCome(b) \cup ComingKids(t1) /\ Distinct(s1)
  <2>1. t1.node # NULL BY <1>2
  <2>2. /\ OnStack(s1) = OnStack(b) \cup {t1.node} /\ ToCome(s1) = ToCome(b) \cup ComingKids(t1)
        /\ Distinct(s1) <=> Distinct(b) /\ t1.node \notin OnStack(b)
    BY <1>1, <2>1, TaskOnTop, Zenon
  <2>3. {t1.node} = {t.node} BY Zenon
  <2> QED BY <1>3, <2>2, <2>3, Zenon
<1>12. /\ OnStack(s2) = on \cup {m} /\ ToCome(s2) = ToCome(b) \cup ComingKids(t1) \cup KidsOf(m)
       /\ Distinct(s2)
  <2>1. u.node # NULL BY <1>6
  <2>2. s1 \in Seq(Tasks) BY <1>1
  <2> HIDE DEF s1, on
  <2>3. /\ OnStack(s2) = OnStack(s1) \cup {u.node} /\ ToCome(s2) = ToCome(s1) \cup ComingKids(u)
        /\ Distinct(s2) <=> Distinct(s1) /\ u.node \notin OnStack(s1)
    BY <2>1, <2>2, TaskOnTop, Zenon
  <2> QED BY <1>8, <1>9, <1>11, <2>3, Zenon
<1>13. ToCome(b) \cup ComingKids(t1) \cup KidsOf(m) = (to \ {m}) \cup KidsOf(m) BY <1>7
<1> HIDE DEF on, to, m
<1> QED BY <1>10, <1>12, <1>13 DEF Good

LEMMA QuietGood ==
  ASSUME NEW live, NEW b \in Seq(Tasks), NEW t \in Tasks, Good(Append(b, t), live),
         NEW t1 \in Tasks, t1.node = t.node, ComingKids(t1) = ComingKids(t)
  PROVE  Good(Append(b, t1), live)
<1>1. ASSUME NEW u \in Tasks
      PROVE  /\ OnStack(Append(b, u)) = OnStack(b) \cup ({u.node} \ {NULL})
             /\ ToCome(Append(b, u)) = ToCome(b) \cup ComingKids(u)
             /\ Distinct(Append(b, u)) <=> Distinct(b) /\ u.node \notin OnStack(b)
  BY <1>1, StackOfAppend, Zenon
<1>2. /\ OnStack(Append(b, t1)) = OnStack(Append(b, t))
      /\ ToCome(Append(b, t1)) = ToCome(Append(b, t))
      /\ Distinct(Append(b, t1)) <=> Distinct(Append(b, t))
  BY <1>1, Zenon
<1> QED BY <1>2, Zenon DEF Good

LEMMA PopGood ==
  ASSUME ast \in Trees, NEW live \in SUBSET Nodes, NEW b, InOrder(b),
         NEW t \in Tasks, t.node \in Nodes, Good(Append(b, t), live),
         \A x \in ComingKids(t) : KidsOf(x) = {}
  PROVE  /\ Good(b, live \ ({t.node} \cup ComingKids(t)))
         /\ {t.node} \cup ComingKids(t) \subseteq live
<1> DEFINE on == OnStack(b) \cup {t.node}
           to == ToCome(b) \cup ComingKids(t)
<1>1. b \in Seq(Tasks) BY DEF InOrder
<1>2. t.node # NULL BY KidsAre DEF NULL
<1>3. /\ Distinct(b) /\ t.node \notin OnStack(b)
      /\ OnStack(Append(b, t)) = on /\ ToCome(Append(b, t)) = to
  <2>1. Distinct(Append(b, t)) BY DEF Good
  <2> QED BY <1>1, <1>2, <2>1, TaskOnTop, Zenon
<1>4. Covered(on, to, live) BY <1>3 DEF Good
<1>5. ComingKids(t) \subseteq KidsOf(t.node) BY ComingKidsAre
<1>6. \A x \in ComingKids(t) : x \notin ToCome(b) BY <1>3, <1>5, ToComeIsBelow
<1>7. on \ {t.node} = OnStack(b) /\ to \ ComingKids(t) = ToCome(b) BY <1>3, <1>6
<1>8. t.node \in on /\ ComingKids(t) \in SUBSET to OBVIOUS
<1> HIDE DEF on, to
<1>9. Covered(on \ {t.node}, to \ ComingKids(t), live \ ({t.node} \cup ComingKids(t)))
  BY <1>4, <1>5, <1>8, CoveredPop
<1>10. {t.node} \cup ComingKids(t) \subseteq live BY <1>4, <1>8 DEF Covered
<1> QED BY <1>3, <1>7, <1>9, <1>10 DEF Good

(* An if pushes both of its arms. *)
LEMMA ForkGood ==
  ASSUME ast \in Trees, NEW live \in SUBSET Nodes, NEW b, InOrder(b),
         NEW p \in Tasks, p.node \in Nodes, Good(Append(b, p), live),
         NEW p1 \in Tasks, p1.node = p.node, ComingKids(p1) = {},
         NEW e \in Tasks, NEW t \in Tasks, e.phase = 0, t.phase = 0, e.node # t.node,
         t.node # NULL, ComingKids(p) = {e.node, t.node} \ {NULL}
  PROVE  Good(Append(Append(Append(b, p1), e), t), live)
<1> DEFINE on == OnStack(b) \cup {p.node}
           to == ToCome(b) \cup ComingKids(p)
<1>1. /\ b \in Seq(Tasks) /\ Append(b, p1) \in Seq(Tasks)
      /\ Append(Append(b, p1), e) \in Seq(Tasks)
  BY DEF InOrder
<1>2. CASE e.node = NULL
  <2>1. ComingKids(p) = {t.node} BY <1>2
  <2>2. Good(Append(Append(b, p1), t), live)
    BY <2>1, PushGood
  <2>3. /\ OnStack(Append(Append(b, p1), e)) = OnStack(Append(b, p1))
        /\ ToCome(Append(Append(b, p1), e)) = ToCome(Append(b, p1))
        /\ Distinct(Append(Append(b, p1), e)) <=> Distinct(Append(b, p1))
    BY <1>1, <1>2, NullOnTop, Zenon
  <2>4. /\ OnStack(Append(Append(Append(b, p1), e), t)) = OnStack(Append(Append(b, p1), t))
        /\ ToCome(Append(Append(Append(b, p1), e), t)) = ToCome(Append(Append(b, p1), t))
        /\ Distinct(Append(Append(Append(b, p1), e), t)) <=> Distinct(Append(Append(b, p1), t))
    <3> DEFINE s1 == Append(b, p1)
               s2 == Append(s1, e)
    <3>1. s1 \in Seq(Tasks) /\ s2 \in Seq(Tasks) BY <1>1
    <3> HIDE DEF s1, s2
    <3>2. \A s \in Seq(Tasks) :
            /\ OnStack(Append(s, t)) = OnStack(s) \cup {t.node}
            /\ ToCome(Append(s, t)) = ToCome(s) \cup ComingKids(t)
            /\ Distinct(Append(s, t)) <=> Distinct(s) /\ t.node \notin OnStack(s)
      BY TaskOnTop, Zenon
    <3>3. OnStack(s2) = OnStack(s1) /\ ToCome(s2) = ToCome(s1) /\ (Distinct(s2) <=> Distinct(s1))
      BY <2>3 DEF s1, s2
    <3>4. /\ OnStack(Append(s2, t)) = OnStack(Append(s1, t))
          /\ ToCome(Append(s2, t)) = ToCome(Append(s1, t))
          /\ Distinct(Append(s2, t)) <=> Distinct(Append(s1, t))
      BY <3>1, <3>2, <3>3, Zenon
    <3> QED BY <3>4, Zenon DEF s1, s2
  <2> QED BY <2>2, <2>4 DEF Good
<1>3. CASE e.node # NULL
  <2> DEFINE m  == e.node
             n  == t.node
             on1 == on \cup {m}
             to1 == (to \ {m}) \cup KidsOf(m)
             s1  == Append(b, p1)
             s2  == Append(s1, e)
             s3  == Append(s2, t)
  <2>1. p.node # NULL BY KidsAre DEF NULL
  <2>2. /\ Distinct(b) /\ p.node \notin OnStack(b)
        /\ OnStack(Append(b, p)) = on /\ ToCome(Append(b, p)) = to
    <3>1. Distinct(Append(b, p)) BY DEF Good
    <3> QED BY <1>1, <2>1, <3>1, TaskOnTop, Zenon
  <2>3. Covered(on, to, live) BY <2>2 DEF Good
  <2>4. ComingKids(p) = {m, n} /\ m # n BY <1>3
  <2>5. {m, n} \subseteq KidsOf(p.node) BY <2>4, ComingKidsAre
  <2>6. m \in Nodes /\ n \in Nodes /\ m # NULL /\ n # NULL BY <2>5, KidsAre DEF NULL
  <2>7. m \notin ToCome(b) /\ n \notin ToCome(b) BY <2>2, <2>5, ToComeIsBelow
  <2>8. m \notin on /\ n \notin on BY <2>3, <2>4 DEF Covered
  <2>9. n \notin KidsOf(m)
    <3>1. m # p.node BY <2>8
    <3> QED BY <2>5, <2>6, <3>1, KidsAre
  <2>10. ComingKids(e) = KidsOf(m) /\ ComingKids(t) = KidsOf(n) BY <2>6, ComingKidsAre
  <2>11. Covered(on1, to1, live)
    <3>1. p.node \in on /\ m \in to BY <2>4
    <3> HIDE DEF on, to, m, n
    <3> QED BY <2>3, <2>5, <3>1, CoveredPush
  <2>12. Covered(on1 \cup {n}, (to1 \ {n}) \cup KidsOf(n), live)
    <3>1. p.node \in on1 /\ n \in to1 /\ n \in KidsOf(p.node) BY <2>4, <2>5
    <3> HIDE DEF on1, to1, m, n
    <3> QED BY <2>11, <3>1, CoveredPush
  <2>13. OnStack(s1) = on /\ ToCome(s1) = ToCome(b) /\ Distinct(s1)
    <3>1. p1.node # NULL BY <2>1
    <3>2. /\ OnStack(s1) = OnStack(b) \cup {p1.node} /\ ToCome(s1) = ToCome(b) \cup ComingKids(p1)
          /\ Distinct(s1) <=> Distinct(b) /\ p1.node \notin OnStack(b)
      BY <1>1, <3>1, TaskOnTop, Zenon
    <3>3. {p1.node} = {p.node} BY Zenon
    <3>4. ToCome(b) \cup ComingKids(p1) = ToCome(b) OBVIOUS
    <3> QED BY <2>2, <3>2, <3>3, <3>4, Zenon
  <2>14. OnStack(s2) = on1 /\ ToCome(s2) = ToCome(b) \cup KidsOf(m) /\ Distinct(s2)
    <3>1. e.node # NULL BY <2>6
    <3>2. s1 \in Seq(Tasks) BY <1>1
    <3> HIDE DEF s1, on
    <3>3. /\ OnStack(s2) = OnStack(s1) \cup {e.node} /\ ToCome(s2) = ToCome(s1) \cup ComingKids(e)
          /\ Distinct(s2) <=> Distinct(s1) /\ e.node \notin OnStack(s1)
      BY <3>1, <3>2, TaskOnTop, Zenon
    <3> QED BY <2>8, <2>10, <2>13, <3>3, Zenon
  <2>15. /\ OnStack(s3) = on1 \cup {n}
         /\ ToCome(s3) = ToCome(b) \cup KidsOf(m) \cup KidsOf(n)
         /\ Distinct(s3)
    <3>1. n \notin on1 BY <2>4, <2>8
    <3>2. t.node # NULL BY <2>6
    <3>3. s2 \in Seq(Tasks) BY <1>1
    <3> HIDE DEF s2, on1
    <3>4. /\ OnStack(s3) = OnStack(s2) \cup {t.node} /\ ToCome(s3) = ToCome(s2) \cup ComingKids(t)
          /\ Distinct(s3) <=> Distinct(s2) /\ t.node \notin OnStack(s2)
      BY <3>2, <3>3, TaskOnTop, Zenon
    <3> QED BY <2>10, <2>14, <3>1, <3>4, Zenon
  <2>16. ToCome(b) \cup KidsOf(m) \cup KidsOf(n) = (to1 \ {n}) \cup KidsOf(n)
    BY <2>4, <2>7, <2>9
  <2> HIDE DEF on1, to1, m, n
  <2> QED BY <2>12, <2>15, <2>16 DEF Good
<1> QED BY <1>2, <1>3
-----------------------------------------------------------------------------
(* The allocations of some nodes are none of the others'. *)
LEMMA HeapWithout ==
  ASSUME NEW live, NEW gone \in SUBSET live
  PROVE  /\ HeapOf(live) \ HeapOf(gone) = HeapOf(live \ gone)
         /\ HeapOf(gone) \subseteq HeapOf(live)
         /\ \A n \in live : <<n, "node">> \in HeapOf(live)
<1>1. \A n : \A z \in Allocated(n) : z[1] = n BY DEF Allocated
<1>2. \A n : <<n, "node">> \in Allocated(n) BY DEF Allocated
<1>3. \A s, z : z \in HeapOf(s) <=> \E n \in s : z \in Allocated(n) BY DEF HeapOf
<1>4. HeapOf(live) \ HeapOf(gone) = HeapOf(live \ gone)
  <2>1. ASSUME NEW z \in HeapOf(live), z \notin HeapOf(gone) PROVE z \in HeapOf(live \ gone)
    <3>1. PICK n \in live : z \in Allocated(n) BY <1>3, <2>1
    <3>2. n \notin gone BY <1>3, <2>1, <3>1
    <3> QED BY <1>3, <3>1, <3>2
  <2>2. ASSUME NEW z \in HeapOf(live \ gone) PROVE z \in HeapOf(live) /\ z \notin HeapOf(gone)
    <3>1. PICK n \in live \ gone : z \in Allocated(n) BY <1>3, <2>2
    <3>2. \A m \in gone : z \notin Allocated(m) BY <1>1, <3>1
    <3> QED BY <1>3, <3>1, <3>2
  <2> QED BY <2>1, <2>2
<1>5. HeapOf(gone) \subseteq HeapOf(live) BY <1>3
<1>6. \A n \in live : <<n, "node">> \in HeapOf(live) BY <1>2, <1>3
<1> QED BY <1>4, <1>5, <1>6

(* What is to hold again behind a step, of the tree's memory. *)
Freed == ~misuse' /\ \E live \in SUBSET Nodes : heap' = HeapOf(live) /\ Good(tasks', live)

(* The node on top is there, and so are those that are still to come. *)
LEMMA TopIsThere ==
  ASSUME WalkInv, tasks # <<>>, Top.node # NULL, NEW live, Good(tasks, live)
  PROVE  /\ Top.node \in live /\ <<Top.node, "node">> \in HeapOf(live)
         /\ Good(Append(Below, Top), live) /\ InOrder(Below) /\ Top.node \in Nodes
<1>1. Below \in Seq(Tasks) /\ Top \in Tasks /\ tasks = Append(Below, Top) BY TasksAre
<1>2. Good(Append(Below, Top), live) BY <1>1
<1>3. Covered(OnStack(Append(Below, Top)), ToCome(Append(Below, Top)), live) BY <1>2 DEF Good
<1>4. OnStack(Append(Below, Top)) = OnStack(Below) \cup {Top.node} BY <1>1, TaskOnTop, Zenon
<1>5. Top.node \in OnStack(Append(Below, Top)) BY <1>4
<1>6. Top.node \in live BY <1>3, <1>5, Zenon DEF Covered
<1>7. <<Top.node, "node">> \in HeapOf(live)
  <2>1. {} \in SUBSET live OBVIOUS
  <2> QED BY <1>6, <2>1, HeapWithout, Zenon
<1>8. InOrder(tasks) /\ tasks \in Seq(Tasks) /\ Len(tasks) \in Nat \ {0}
  <2>1. InOrder(tasks) /\ tasks \in Seq(Tasks) BY DEF WalkInv, InOrder
  <2> QED BY <2>1
<1>9. InOrder(Below) BY <1>8, FrontInOrder DEF Below
<1>10. Top.node \in Nodes
  <2>1. Len(tasks) \in 1 .. Len(tasks) BY <1>8
  <2>2. TaskOK(Top) BY <1>8, <2>1 DEF InOrder, Top
  <2>3. Top.node \in 0 .. Len(ast) BY <2>2 DEF TaskOK
  <2>4. Len(ast) \in Nat BY KidsAre DEF WalkInv
  <2> QED BY <2>3, <2>4 DEF Nodes, NULL
<1> QED BY <1>2, <1>6, <1>7, <1>9, <1>10

(* What a node is the last of: nothing is below what is left to come.      *)
LEMMA LastOnes ==
  ASSUME WalkInv, NEW op \in Operations, OnNode(op), IsLast
  PROVE  LET n  == Top.node
             id == ast[n].kids[1]
         IN  /\ \A x \in ComingKids(Top) : KidsOf(x) = {}
             /\ HeapOf({n} \cup ComingKids(Top)) =
                  CASE op \in {"value_of", "apply_identifier", "apply_identifier_ref"} ->
                         {<<n, "text">>, <<n, "node">>}
                    [] op = "apply_define" -> {<<id, "text">>, <<id, "node">>, <<n, "node">>}
                    [] op = "scope_pop"    -> {<<n, "stmts">>, <<n, "node">>}
                    [] OTHER               -> {<<n, "node">>}
<1> DEFINE n    == Top.node
           kind == ast[n].kind
           kids == ast[n].kids
           id   == kids[1]
<1>1. tasks # <<>> /\ Walking /\ n # NULL BY DEF OnNode, Walking
<1>2. n \in 1 .. Len(ast) /\ Top \in Tasks BY <1>1, TopIs
<1>3. IsTree(ast) /\ n \in DOMAIN ast BY <1>2, TreesAssumption DEF WalkInv, IsTree
<1>4. /\ op = "value_of" <=> kind = "value"
      /\ op \in {"apply_identifier", "apply_identifier_ref"} <=> kind = "id"
      /\ op = "apply_define" <=> kind = "define"
      /\ op = "scope_pop" <=> kind = "block"
      /\ Coming(Top) = IF kind = "define" THEN {1} ELSE {}
  BY ComingIs
<1>5. \A s, z : z \in HeapOf(s) <=> \E m \in s : z \in Allocated(m) BY DEF HeapOf
<1>6. CASE kind = "define"
  <2>1. 1 \in DOMAIN kids BY <1>3, <1>6 DEF IsTree, Arity
  <2>2. id # NULL /\ ast[id].kind = "id" /\ id \in DOMAIN ast
    BY <1>3, <1>6, <2>1 DEF IsTree, NULL
  <2>3. Coming(Top) = {1} BY <1>4, <1>6
  <2>4. ComingKids(Top) = {id} BY <1>1, <2>2, <2>3 DEF ComingKids
  <2>5. KidsOf(id) = {}
    <3>1. /\ Len(ast[id].kids) \in Arity(ast[id].kind)
          /\ DOMAIN ast[id].kids = 1 .. Len(ast[id].kids)
      BY <1>3, <2>2 DEF IsTree
    <3>2. Len(ast[id].kids) = 0 BY <2>2, <3>1 DEF Arity
    <3>3. DOMAIN ast[id].kids = {} BY <3>1, <3>2
    <3> QED BY <3>3 DEF KidsOf
  <2>6. Allocated(n) = {<<n, "node">>} BY <1>6 DEF Allocated
  <2>7. Allocated(id) = {<<id, "node">>, <<id, "text">>} BY <2>2 DEF Allocated
  <2>8. op = "apply_define" BY <1>4, <1>6
  <2> HIDE DEF n, id, kind
  <2>9. HeapOf({n} \cup {id}) = {<<id, "text">>, <<id, "node">>, <<n, "node">>}
    <3>1. \A z : z \in HeapOf({n} \cup {id}) <=> z \in Allocated(n) \/ z \in Allocated(id) BY <1>5
    <3> QED BY <2>6, <2>7, <3>1
  <2> QED BY <2>4, <2>5, <2>8, <2>9 DEF n, id
<1>7. CASE kind # "define"
  <2>1. ComingKids(Top) = {} BY <1>4, <1>7 DEF ComingKids
  <2>2. Allocated(n) = {<<n, "node">>} \cup
                       (CASE kind \in {"id", "value"} -> {<<n, "text">>}
                          [] kind = "block"           -> {<<n, "stmts">>}
                          [] OTHER                    -> {})
    BY DEF Allocated
  <2>3. \A z : z \in HeapOf({n} \cup ComingKids(Top)) <=> z \in Allocated(n) BY <1>5, <2>1
  <2> HIDE DEF n, id, kind
  <2>4. HeapOf({n} \cup ComingKids(Top)) =
                  CASE op \in {"value_of", "apply_identifier", "apply_identifier_ref"} ->
                         {<<n, "text">>, <<n, "node">>}
                    [] op = "apply_define" -> {<<id, "text">>, <<id, "node">>, <<n, "node">>}
                    [] op = "scope_pop"    -> {<<n, "stmts">>, <<n, "node">>}
                    [] OTHER               -> {<<n, "node">>}
    <3>1. CASE kind \in {"id", "value"} BY <1>4, <2>2, <2>3, <3>1
    <3>2. CASE kind = "block" BY <1>4, <2>2, <2>3, <3>2
    <3>3. CASE kind \notin {"id", "value", "block"} BY <1>4, <1>7, <2>2, <2>3, <3>3
    <3> QED BY <3>1, <3>2, <3>3
  <2> QED BY <2>1, <2>4 DEF n, id
<1> QED BY <1>6, <1>7

(* An operation that is over frees its node and what it is the last of. *)
LEMMA OverFrees ==
  ASSUME WalkInv, NEW op \in Operations, Called(op), IsLast, ~misuse, Freeing,
         NEW things, Frees(things), things = HeapOf({Top.node} \cup ComingKids(Top))
  PROVE  Freed /\ tasks' = Below
<1>1. PICK live \in SUBSET Nodes : heap = HeapOf(live) /\ Good(tasks, live) BY DEF Freeing
<1>2. OnNode(op) /\ tasks' = Below /\ tasks # <<>> /\ Top.node # NULL /\ Walking
  BY DEF Called, Resumed, OnNode, Walking
<1>3. /\ <<Top.node, "node">> \in heap /\ Top.node \in Nodes
      /\ Good(Append(Below, Top), live) /\ InOrder(Below)
  BY <1>1, <1>2, TopIsThere
<1>4. Top \in Tasks /\ ast \in Trees BY <1>2, TopIs DEF WalkInv
<1>5. \A x \in ComingKids(Top) : KidsOf(x) = {} BY <1>2, LastOnes
<1> DEFINE gone == {Top.node} \cup ComingKids(Top)
<1>6. Good(Below, live \ gone) /\ gone \subseteq live BY <1>3, <1>4, <1>5, PopGood
<1> HIDE DEF gone
<1>7. HeapOf(live) \ HeapOf(gone) = HeapOf(live \ gone) /\ HeapOf(gone) \subseteq HeapOf(live)
  BY <1>6, HeapWithout
<1>8. things = HeapOf(gone) BY DEF gone
<1>9. heap' = HeapOf(live \ gone) /\ ~misuse' BY <1>1, <1>3, <1>7, <1>8 DEF Frees
<1>10. live \ gone \in SUBSET Nodes OBVIOUS
<1>11. Good(tasks', live \ gone) BY <1>2, <1>6
<1> QED BY <1>2, <1>9, <1>10, <1>11 DEF Freed

(* A task that goes on frees nothing. *)
LEMMA NothingFrees ==
  ASSUME WalkInv, tasks # <<>>, Top.node # NULL, ~misuse, Freeing, Frees({})
  PROVE  ~misuse' /\ heap' = heap
<1>1. PICK live \in SUBSET Nodes : heap = HeapOf(live) /\ Good(tasks, live) BY DEF Freeing
<1>2. <<Top.node, "node">> \in heap BY <1>1, TopIsThere
<1> QED BY <1>2 DEF Frees

LEMMA QuietFrees ==
  ASSUME WalkInv, NEW op \in Operations, Called(op), ~IsLast, ~misuse, Freeing, Frees({})
  PROVE  Freed /\ tasks' = Append(Below, Next1)
<1>1. PICK live \in SUBSET Nodes : heap = HeapOf(live) /\ Good(tasks, live) BY DEF Freeing
<1>2. /\ OnNode(op) /\ tasks' = Append(Below, Next1) /\ tasks # <<>> /\ Top.node # NULL
      /\ Walking
  BY DEF Called, Resumed, OnNode, Walking, Next1
<1>3. Good(Append(Below, Top), live) /\ InOrder(Below) BY <1>1, <1>2, TopIsThere
<1>4. Top \in Tasks /\ Next1 \in Tasks /\ Next1.node = Top.node BY <1>2, TopIs DEF Next1
<1>5. Coming(Next1) = Coming(Top) BY <1>2, ComingIs
<1>6. ComingKids(Next1) = ComingKids(Top) BY <1>4, <1>5 DEF ComingKids
<1>7. Below \in Seq(Tasks) BY <1>3 DEF InOrder
<1>8. Good(Append(Below, Next1), live) BY <1>3, <1>4, <1>6, <1>7, QuietGood
<1>9. ~misuse' /\ heap' = heap BY <1>2, NothingFrees
<1> QED BY <1>1, <1>2, <1>8, <1>9 DEF Freed

(* The child that is pushed was to come, and no longer is. *)
LEMMA DescendFrees ==
  ASSUME WalkInv, Descend, ~misuse, Freeing, Frees({})
  PROVE  Freed
<1> DEFINE u    == Task(Step.kid, Step.mode)
           kids == ast[Top.node].kids
           kind == ast[Top.node].kind
<1>1. PICK live \in SUBSET Nodes : heap = HeapOf(live) /\ Good(tasks, live) BY DEF Freeing
<1>2. /\ Walking /\ Top.node # NULL /\ OnNode("push") /\ tasks # <<>>
      /\ u \in Tasks /\ u.node = Step.kid /\ u.phase = 0 /\ tasks' = Append(Resumed, u)
  BY DescendIs DEF Walking
<1>3. Good(Append(Below, Top), live) /\ InOrder(Below) /\ Top.node \in Nodes
  BY <1>1, <1>2, TopIsThere
<1>4. /\ Resumed = Append(Below, Next1) /\ Next1 \in Tasks /\ Next1.node = Top.node
      /\ Top \in Tasks /\ ast \in Trees
  BY <1>2, PushingStays, TopIs DEF OnNode, Next1, WalkInv
<1>5. PICK k \in Coming(Top) : /\ Step.kid = kids[k] /\ k \in DOMAIN kids
                               /\ Coming(Next1) = Coming(Top) \ {k}
                               /\ kind \in {"if", "ifexpr"} => k = 1
  BY <1>2, ComingIs
<1>6. IsTree(ast) /\ Top.node \in DOMAIN ast BY <1>3, <1>4, TreesAssumption DEF IsTree, Nodes
<1>7. Step.kid # NULL /\ \A l \in DOMAIN kids : kids[l] = kids[k] => l = k
  <2>1. kids[k] = NULL => kind \in {"if", "ifexpr"} /\ k = 3 BY <1>5, <1>6 DEF IsTree
  <2>2. kids[k] # NULL BY <1>5, <2>1
  <2> QED BY <1>5, <1>6, <2>2 DEF IsTree
<1>8. Coming(Top) \subseteq DOMAIN kids BY <1>3, <1>4, ComingKidsAre
<1>9. /\ ComingKids(Top) = {kids[l] : l \in Coming(Top)} \ {NULL}
      /\ ComingKids(Next1) = {kids[l] : l \in Coming(Top) \ {k}} \ {NULL}
  BY <1>2, <1>4, <1>5 DEF ComingKids
<1>10. Step.kid \in ComingKids(Top) /\ ComingKids(Next1) = ComingKids(Top) \ {Step.kid}
  BY <1>5, <1>7, <1>8, <1>9
<1> HIDE DEF u
<1>11. Good(Append(Append(Below, Next1), u), live)
  BY <1>2, <1>3, <1>4, <1>10, PushGood
<1>12. ~misuse' /\ heap' = heap BY <1>2, NothingFrees
<1> QED BY <1>1, <1>2, <1>4, <1>11, <1>12 DEF Freed

(* Both arms of an if are freed. *)
LEMMA BothArms ==
  ASSUME WalkInv, Decided(TRUE, TRUE)
  PROVE  LET e == Task(ast[Top.node].kids[3], "EVAL")
             t == Task(ast[Top.node].kids[2], "EVAL")
         IN  /\ Walking /\ Top.node # NULL /\ OnNode("descisions") /\ tasks # <<>>
             /\ UNCHANGED <<ast, status>>
             /\ tasks' = Append(Append(Append(Below, Next1), e), t)
             /\ e \in Tasks /\ e.phase = 0 /\ e.mode = "EVAL" /\ e.node = ast[Top.node].kids[3]
             /\ t \in Tasks /\ t.phase = 0 /\ t.mode = "EVAL" /\ t.node = ast[Top.node].kids[2]
             /\ Next1 \in Tasks /\ Next1.mode = Top.mode /\ Next1.node = Top.node
             /\ ast[Top.node].kind \in {"if", "ifexpr"} /\ Top.node \in DOMAIN ast
             /\ 2 \in DOMAIN ast[Top.node].kids /\ 3 \in DOMAIN ast[Top.node].kids
             /\ Coming(Top) = {2, 3} /\ Coming(Next1) = {} /\ ~IsLast
<1> DEFINE e == Task(ast[Top.node].kids[3], "EVAL")
           t == Task(ast[Top.node].kids[2], "EVAL")
<1>1. Walking /\ Top.node # NULL /\ Step.does = "descisions" /\ OnNode("descisions") /\ tasks # <<>>
  BY DEF Decided, OnNode, Walking
<1>2. /\ Top.node \in 1 .. Len(ast) /\ Top \in Tasks /\ Top.phase + 1 \in 1 .. Len(Steps(Top))
      /\ ast \in Trees /\ InOrder(Resumed)
  BY <1>1, ResumedInOrder DEF WalkInv
<1>3. 2 \in DOMAIN ast[Top.node].kids /\ 3 \in DOMAIN ast[Top.node].kids
  BY <1>1, <1>2, OnlyIfsDecide DEF Step
<1>4. ast[Top.node].kids[2] \in Nat /\ ast[Top.node].kids[3] \in Nat BY <1>2, <1>3, KidIsLower
<1>5. /\ e \in Tasks /\ e.phase = 0 /\ e.mode = "EVAL" /\ e.node = ast[Top.node].kids[3]
      /\ t \in Tasks /\ t.phase = 0 /\ t.mode = "EVAL" /\ t.node = ast[Top.node].kids[2]
  BY <1>4 DEF Task, Tasks
<1>6. Resumed \in Seq(Tasks) BY <1>2 DEF InOrder
<1>7. UNCHANGED <<ast, status>> BY DecidedFits
<1>8. PushTasks((IF TRUE THEN <<e>> ELSE <<>>) \o (IF TRUE THEN <<t>> ELSE <<>>)) BY DEF Decided
<1> HIDE DEF e, t
<1>9. Resumed \o (<<e>> \o <<t>>) = Append(Append(Resumed, e), t) BY <1>5, <1>6
<1>10. status # "task stack overflow" BY DEF WalkInv, TasksFit
<1>11. tasks' = Append(Append(Resumed, e), t) BY <1>7, <1>8, <1>9, <1>10 DEF PushTasks
<1>12. Resumed = Append(Below, Next1) BY <1>1, PushingStays
<1>13. Next1 \in Tasks /\ Next1.mode = Top.mode /\ Next1.node = Top.node
  BY <1>1, TopIs DEF Next1
<1>14. /\ ~IsLast /\ ast[Top.node].kind \in {"if", "ifexpr"}
       /\ Coming(Top) = {2, 3} /\ Coming(Next1) = {}
  BY <1>1, ComingIs
<1>15. Top.node \in DOMAIN ast BY <1>2, TreesAssumption DEF IsTree
<1> QED BY <1>1, <1>3, <1>5, <1>7, <1>11, <1>12, <1>13, <1>14, <1>15 DEF e, t

LEMMA DecidedFrees ==
  ASSUME WalkInv, Decided(TRUE, TRUE), ~misuse, Freeing, Frees({})
  PROVE  Freed
<1> DEFINE e    == Task(ast[Top.node].kids[3], "EVAL")
           t    == Task(ast[Top.node].kids[2], "EVAL")
           kids == ast[Top.node].kids
<1>1. PICK live \in SUBSET Nodes : heap = HeapOf(live) /\ Good(tasks, live) BY DEF Freeing
<1>2. /\ Top.node # NULL /\ tasks # <<>> /\ Walking
      /\ tasks' = Append(Append(Append(Below, Next1), e), t)
      /\ e \in Tasks /\ e.phase = 0 /\ e.node = kids[3]
      /\ t \in Tasks /\ t.phase = 0 /\ t.node = kids[2]
      /\ Next1 \in Tasks /\ Next1.node = Top.node
      /\ 2 \in DOMAIN kids /\ 3 \in DOMAIN kids /\ Top.node \in DOMAIN ast
      /\ Coming(Top) = {2, 3} /\ Coming(Next1) = {}
  BY BothArms
<1>3. Good(Append(Below, Top), live) /\ InOrder(Below) /\ Top.node \in Nodes
  BY <1>1, <1>2, TopIsThere
<1>4. Top \in Tasks /\ ast \in Trees /\ IsTree(ast) BY <1>2, TopIs, TreesAssumption DEF WalkInv
<1>5. kids[2] # NULL /\ kids[3] # kids[2]
  <2>1. kids[2] # NULL BY <1>2, <1>4 DEF IsTree
  <2> QED BY <1>2, <1>4, <2>1 DEF IsTree
<1>6. ComingKids(Next1) = {} BY <1>2 DEF ComingKids
<1>7. ComingKids(Top) = {e.node, t.node} \ {NULL} BY <1>2 DEF ComingKids
<1> HIDE DEF e, t
<1>8. Good(Append(Append(Append(Below, Next1), e), t), live)
  BY <1>2, <1>3, <1>4, <1>5, <1>6, <1>7, ForkGood
<1>9. ~misuse' /\ heap' = heap BY <1>2, NothingFrees
<1> QED BY <1>1, <1>2, <1>8, <1>9 DEF Freed
-----------------------------------------------------------------------------
(* In a well-sorted tree what is referred to is a name. *)
NamesKept == ReferencesAreNames(tasks')

LEMMA NamesBelow ==
  ASSUME WalkInv, tasks # <<>>, ReferencesAreNames(tasks)
  PROVE  /\ ReferencesAreNames(Below)
         /\ \A u \in Tasks : u.mode = Top.mode /\ u.node = Top.node =>
              ReferencesAreNames(Append(Below, u))
         /\ Top.node # NULL => ReferencesAreNames(Resumed)
<1>1. Below \in Seq(Tasks) /\ Top \in Tasks /\ tasks = Append(Below, Top) BY TasksAre
<1>2. /\ ReferencesAreNames(Below)
      /\ Top.mode = "REFERENCE" => Top.node # NULL /\ ast[Top.node].kind = "id"
  <2>1. ReferencesAreNames(Append(Below, Top)) BY <1>1
  <2> QED BY <1>1, <2>1, StackOfAppend
<1>3. ASSUME NEW u \in Tasks, u.mode = Top.mode, u.node = Top.node
      PROVE  ReferencesAreNames(Append(Below, u))
  BY <1>1, <1>2, <1>3, StackOfAppend
<1>4. ASSUME Top.node # NULL, ~IsLast PROVE ReferencesAreNames(Resumed)
  <2> DEFINE u == [Top EXCEPT !.phase = @ + 1]
  <2>1. Top.phase \in Nat /\ Top.phase + 1 \in Nat BY <1>1 DEF Tasks
  <2>2. u \in Tasks /\ u.mode = Top.mode /\ u.node = Top.node BY <1>1, <2>1 DEF Tasks
  <2>3. Resumed = Append(Below, u) BY <1>4 DEF Resumed
  <2> HIDE DEF u
  <2> QED BY <1>3, <2>2, <2>3
<1> QED BY <1>2, <1>3, <1>4 DEF Resumed

LEMMA NamesStay ==
  ASSUME WalkInv, Sorted, FreeStep, ReferencesAreNames(tasks)
  PROVE  NamesKept
<1>1. ASSUME NEW op, Called(op) PROVE NamesKept
  <2>1. tasks # <<>> /\ Top.node # NULL /\ tasks' = Resumed BY <1>1 DEF Called, OnNode, Walking
  <2> QED BY <2>1, NamesBelow DEF NamesKept
<1>2. CASE Descend
  <2> DEFINE u    == Task(Step.kid, Step.mode)
             kids == ast[Top.node].kids
             kind == ast[Top.node].kind
  <2>1. /\ tasks # <<>> /\ Walking /\ Top.node # NULL /\ OnNode("push") /\ u \in Tasks
        /\ u.node = Step.kid /\ u.mode = Step.mode /\ tasks' = Append(Resumed, u)
    BY <1>2, DescendIs DEF Walking
  <2>2. Resumed \in Seq(Tasks) BY <2>1, ResumedInOrder DEF InOrder
  <2>3. PICK k \in Coming(Top) : /\ Step.kid = kids[k] /\ k \in DOMAIN kids
                                 /\ Step.mode = "REFERENCE" => kind = "assign" /\ k = 1
    BY <2>1, ComingIs
  <2>4. IsTree(ast) /\ Top.node \in DOMAIN ast
    BY <2>1, ResumedInOrder, TreesAssumption DEF WalkInv, IsTree
  <2>5. ASSUME Step.mode = "REFERENCE" PROVE Step.kid # NULL /\ ast[Step.kid].kind = "id"
    <3>1. kind = "assign" /\ k = 1 BY <2>3, <2>5
    <3>2. kids[k] # NULL BY <2>3, <2>4, <3>1 DEF IsTree
    <3>3. ast[kids[k]].kind = "id" BY <2>3, <2>4, <3>1 DEF Sorted, IsWellSorted
    <3> QED BY <2>3, <3>2, <3>3
  <2>6. ReferencesAreNames(Resumed) BY <2>1, NamesBelow
  <2> HIDE DEF u
  <2> QED BY <2>1, <2>2, <2>5, <2>6, StackOfAppend DEF NamesKept
<1>3. CASE Decided(TRUE, TRUE)
  <2> DEFINE e == Task(ast[Top.node].kids[3], "EVAL")
             t == Task(ast[Top.node].kids[2], "EVAL")
  <2>1. /\ tasks # <<>> /\ tasks' = Append(Append(Append(Below, Next1), e), t)
        /\ e \in Tasks /\ e.mode = "EVAL" /\ t \in Tasks /\ t.mode = "EVAL"
        /\ Next1 \in Tasks /\ Next1.mode = Top.mode /\ Next1.node = Top.node
    BY <1>3, BothArms
  <2> HIDE DEF e, t
  <2> DEFINE s1 == Append(Below, Next1)
             s2 == Append(s1, e)
  <2>2. s1 \in Seq(Tasks) /\ s2 \in Seq(Tasks) BY <2>1, TasksAre
  <2>3. ReferencesAreNames(s1) BY <2>1, NamesBelow
  <2> HIDE DEF s1
  <2>4. ReferencesAreNames(s2) BY <2>1, <2>2, <2>3, StackOfAppend
  <2> HIDE DEF s2
  <2>5. ReferencesAreNames(Append(s2, t)) BY <2>1, <2>2, <2>4, StackOfAppend
  <2> QED BY <2>1, <2>5 DEF NamesKept, s1, s2
<1>4. CASE Skip
  <2>1. tasks # <<>> /\ tasks' = Below BY <1>4 DEF Skip, Walking
  <2> QED BY <2>1, NamesBelow DEF NamesKept
<1>5. CASE Misplaced \/ End BY <1>5 DEF Misplaced, End, NamesKept
<1> QED BY <1>1, <1>2, <1>3, <1>4, <1>5
        DEF FreeStep, FreeValue, FreeIdentifier, FreeDefine, FreeBlock, FreeNothing

(* Nothing is out of place where references are to names. *)
LEMMA NothingMisplaced ==
  ASSUME WalkInv, Misplaced, ReferencesAreNames(tasks)
  PROVE  FALSE
<1>1. tasks # <<>> /\ Walking /\ Top.node # NULL /\ Step.does = "misplaced"
  BY DEF Misplaced, OnNode, Walking
<1>2. StepAt(Top) /\ Step = Steps(Top)[Top.phase + 1] BY <1>1, TopIs
<1>3. Len(tasks) \in 1 .. Len(tasks)
  <2>1. Len(tasks) \in Nat \ {0} BY <1>1, TasksAre
  <2> QED BY <2>1
<1>4. Top.mode = "REFERENCE" => ast[Top.node].kind = "id" BY <1>3 DEF ReferencesAreNames, Top
<1>5. Top.mode = "EVAL" => Step.does # "misplaced" BY <1>2 DEF StepAt, Call, Push
<1>6. Top.mode = "REFERENCE" => Step.does # "misplaced" BY <1>2, <1>4 DEF StepAt, Call
<1>7. Top.mode \in {"EVAL", "REFERENCE"} BY <1>2 DEF StepAt
<1> QED BY <1>1, <1>5, <1>6, <1>7
-----------------------------------------------------------------------------
(* A step of the walk that frees a tree. *)
LEMMA FreeFrees ==
  ASSUME WalkInv, FreeStep, ~misuse, Freeing
  PROVE  /\ ~misuse'
         /\ status' = "walking" => Freed
         /\ status' # "walking" => End \/ Misplaced
         /\ End => heap' = {} /\ status' = "success"
<1>1. ASSUME NEW op \in Operations, Called(op), NEW things, Frees(things \cup Leave),
             IsLast => things \cup {<<Top.node, "node">>} = HeapOf({Top.node} \cup ComingKids(Top)),
             ~IsLast => things = {}
      PROVE  Freed /\ status' = "walking" /\ ~End
  <2>1. status' = "walking" /\ tasks # <<>>
    BY <1>1 DEF Called, OnNode, Walking
  <2>2. CASE IsLast
    <3>1. things \cup Leave = HeapOf({Top.node} \cup ComingKids(Top)) BY <1>1, <2>2 DEF Leave
    <3>2. Frees(HeapOf({Top.node} \cup ComingKids(Top))) BY <1>1, <3>1
    <3>3. Freed BY <1>1, <2>2, <3>2, OverFrees
    <3> QED BY <2>1, <3>3 DEF End
  <2>3. CASE ~IsLast
    <3>1. things \cup Leave = {} BY <1>1, <2>3 DEF Leave
    <3>2. Frees({}) BY <1>1, <3>1
    <3>3. Freed BY <1>1, <2>3, <3>2, QuietFrees
    <3> QED BY <2>1, <3>3 DEF End
  <2> QED BY <2>2, <2>3
<1>2. ASSUME NEW op \in Operations, Called(op)
      PROVE  /\ OnNode(op)
             /\ op \in {"value_of", "apply_identifier", "apply_identifier_ref", "apply_define",
                        "scope_pop"} => IsLast
  <2>1. OnNode(op) BY <1>2 DEF Called
  <2> QED BY <2>1, ComingIs
<1> DEFINE Over == Freed /\ status' = "walking" /\ ~End
<1>3. CASE FreeValue \/ FreeIdentifier
  <2> DEFINE things == {<<Top.node, "text">>}
  <2>1. PICK op \in {"value_of", "apply_identifier", "apply_identifier_ref"} :
          Called(op) /\ Frees(things \cup Leave)
    BY <1>3 DEF FreeValue, FreeIdentifier
  <2>2. op \in Operations BY DEF Operations
  <2>3. OnNode(op) /\ IsLast BY <1>2, <2>1, <2>2
  <2>4. HeapOf({Top.node} \cup ComingKids(Top)) = {<<Top.node, "text">>, <<Top.node, "node">>}
    BY <2>2, <2>3, LastOnes
  <2>5. things \cup {<<Top.node, "node">>} = HeapOf({Top.node} \cup ComingKids(Top)) BY <2>4
  <2> HIDE DEF things
  <2>6. Over BY <1>1, <2>1, <2>2, <2>3, <2>5
  <2> QED BY <2>6 DEF Freed
<1>4. CASE FreeDefine
  <2> DEFINE id     == ast[Top.node].kids[1]
             things == {<<id, "text">>, <<id, "node">>}
  <2>1. Called("apply_define") /\ Frees(things \cup Leave) BY <1>4 DEF FreeDefine
  <2>2. "apply_define" \in Operations BY DEF Operations
  <2>3. OnNode("apply_define") /\ IsLast BY <1>2, <2>1, <2>2
  <2>4. HeapOf({Top.node} \cup ComingKids(Top)) = {<<id, "text">>, <<id, "node">>, <<Top.node, "node">>}
    BY <2>2, <2>3, LastOnes
  <2>5. things \cup {<<Top.node, "node">>} = HeapOf({Top.node} \cup ComingKids(Top)) BY <2>4
  <2> HIDE DEF things
  <2>6. Over BY <1>1, <2>1, <2>2, <2>3, <2>5
  <2> QED BY <2>6 DEF Freed
<1>5. CASE FreeBlock
  <2> DEFINE things == {<<Top.node, "stmts">>}
  <2>1. Called("scope_pop") /\ Frees(things \cup Leave) BY <1>5 DEF FreeBlock
  <2>2. "scope_pop" \in Operations BY DEF Operations
  <2>3. OnNode("scope_pop") /\ IsLast BY <1>2, <2>1, <2>2
  <2>4. HeapOf({Top.node} \cup ComingKids(Top)) = {<<Top.node, "stmts">>, <<Top.node, "node">>}
    BY <2>2, <2>3, LastOnes
  <2>5. things \cup {<<Top.node, "node">>} = HeapOf({Top.node} \cup ComingKids(Top)) BY <2>4
  <2> HIDE DEF things
  <2>6. Over BY <1>1, <2>1, <2>2, <2>3, <2>5
  <2> QED BY <2>6 DEF Freed
<1>6. CASE FreeNothing
  <2>1. CASE Decided(TRUE, TRUE)
    <3>1. ~IsLast /\ tasks # <<>> /\ status' = status /\ status = "walking"
      BY <2>1, BothArms DEF Walking
    <3>2. Frees({}) BY <1>6, <3>1 DEF FreeNothing, Leave
    <3>3. Freed BY <2>1, <3>2, DecidedFrees
    <3> QED BY <3>1, <3>3 DEF Freed, End
  <2>2. CASE \E op \in Operations \ {"value_of", "apply_identifier", "apply_identifier_ref",
                                     "apply_define", "scope_pop"} : Called(op)
    <3>1. PICK op \in Operations : /\ Called(op)
                                   /\ op \notin {"value_of", "apply_identifier",
                                        "apply_identifier_ref", "apply_define", "scope_pop"}
      BY <2>2
    <3>2. OnNode(op) BY <1>2, <3>1
    <3>3. IsLast => HeapOf({Top.node} \cup ComingKids(Top)) = {<<Top.node, "node">>}
      BY <3>1, <3>2, LastOnes
    <3>4. Frees({} \cup Leave) BY <1>6 DEF FreeNothing
    <3>5. Over BY <1>1, <3>1, <3>3, <3>4
    <3> QED BY <3>5 DEF Freed
  <2> QED BY <1>6, <2>1, <2>2 DEF FreeNothing
<1>7. CASE Descend /\ Frees({})
  <2>1. Freed BY <1>7, DescendFrees
  <2>2. status' = status /\ status = "walking" /\ tasks # <<>> BY <1>7, DescendIs DEF Walking
  <2> QED BY <2>1, <2>2 DEF Freed, End
<1>8. PICK live \in SUBSET Nodes : heap = HeapOf(live) /\ Good(tasks, live) BY DEF Freeing
<1>9. CASE Skip /\ UNCHANGED memory
  <2>1. /\ tasks # <<>> /\ Top.node = NULL /\ tasks' = Below /\ status' = status
        /\ status = "walking" /\ misuse' = misuse /\ heap' = heap
    BY <1>9 DEF Skip, Walking, memory
  <2>2. Below \in Seq(Tasks) /\ Top \in Tasks /\ tasks = Append(Below, Top) BY <2>1, TasksAre
  <2>3. Good(Append(Below, Top), live) BY <1>8, <2>2
  <2>4. /\ OnStack(Append(Below, Top)) = OnStack(Below) /\ ToCome(Append(Below, Top)) = ToCome(Below)
        /\ Distinct(Append(Below, Top)) <=> Distinct(Below)
    BY <2>1, <2>2, NullOnTop, Zenon
  <2>5. Good(Below, live) BY <2>3, <2>4, Zenon DEF Good
  <2> QED BY <1>8, <2>1, <2>5 DEF Freed, End
<1>10. CASE End /\ UNCHANGED memory
  <2>1. tasks = <<>> /\ status' = "success" /\ misuse' = misuse /\ heap' = heap
    BY <1>10 DEF End, memory
  <2>2. Covered(OnStack(<<>>), ToCome(<<>>), live) BY <1>8, <2>1 DEF Good
  <2>3. Covered({}, {}, live) BY <2>2, NothingOnStack
  <2>4. live = {} BY <2>3, CoveredAtLast DEF WalkInv
  <2>5. heap = {} BY <1>8, <2>4 DEF HeapOf
  <2> QED BY <1>10, <2>1, <2>5
<1>11. CASE Misplaced /\ UNCHANGED memory
  <2>1. tasks # <<>> /\ misuse' = misuse BY <1>11 DEF Misplaced, OnNode, Walking, memory
  <2>2. status' = "unknown node kind for mode REFRENCE" BY <1>11 DEF Misplaced
  <2>3. status' # "walking" BY <2>2
  <2> QED BY <1>11, <2>1, <2>3 DEF End
<1> QED BY <1>3, <1>4, <1>5, <1>6, <1>7, <1>9, <1>10, <1>11 DEF FreeStep

LEMMA FreeWalks == FreeStep => status = "walking"
<1>1. \A op : Called(op) => status = "walking" BY DEF Called, OnNode, Walking
<1>2. Decided(TRUE, TRUE) => status = "walking" BY DEF Decided, OnNode, Walking
<1>3. Descend \/ Skip \/ Misplaced \/ End => status = "walking"
  BY DEF Descend, OnNode, Skip, Walking, Misplaced, End
<1> QED BY <1>1, <1>2, <1>3
        DEF FreeStep, FreeValue, FreeIdentifier, FreeDefine, FreeBlock, FreeNothing

(* Freeing begins with the whole tree, and a task for the root. *)
LEMMA FreeBegins ==
  ASSUME WalkInv, FreeBegin
  PROVE  /\ ast' = ast /\ status' = "walking" /\ Freed /\ NamesKept
<1> DEFINE t == Task(Root(ast), "EVAL")
<1>1. /\ ast' = ast /\ status' = "walking" /\ tasks' = <<t>> /\ heap' = TreeHeap /\ ~misuse'
  BY DEF FreeBegin, Begin
<1>2. ast \in Trees /\ Root(ast) \in Nodes /\ Root(ast) \in Nat /\ Root(ast) # NULL /\ Len(ast) \in Nat \ {0}
  <2>1. ast \in Trees BY DEF WalkInv
  <2>2. Root(ast) \in Nodes /\ Len(ast) \in Nat \ {0} /\ 0 \notin Nodes BY <2>1, KidsAre
  <2> QED BY <2>1, <2>2 DEF Nodes, NULL
<1>3. t \in Tasks /\ t.node = Root(ast) /\ t.phase = 0 /\ t.mode = "EVAL"
  BY <1>2 DEF Task, Tasks
<1> HIDE DEF t
<1>4. <<t>> = Append(<<>>, t) /\ <<>> \in Seq(Tasks) BY <1>3
<1>5. ComingKids(t) = KidsOf(Root(ast)) BY <1>2, <1>3, ComingKidsAre
<1>6. /\ OnStack(Append(<<>>, t)) = OnStack(<<>>) \cup {t.node}
      /\ ToCome(Append(<<>>, t)) = ToCome(<<>>) \cup ComingKids(t)
      /\ Distinct(Append(<<>>, t)) <=> Distinct(<<>>) /\ t.node \notin OnStack(<<>>)
  <2>1. t.node # NULL BY <1>2, <1>3
  <2> QED BY <1>3, <1>4, <2>1, TaskOnTop, Zenon
<1>7. Covered({Root(ast)}, KidsOf(Root(ast)), Nodes) BY <1>2, CoveredAtFirst
<1>8. {} \cup {t.node} = {Root(ast)} /\ {} \cup ComingKids(t) = KidsOf(Root(ast)) BY <1>3, <1>5
<1>9. /\ OnStack(Append(<<>>, t)) = {Root(ast)} /\ ToCome(Append(<<>>, t)) = KidsOf(Root(ast))
      /\ Distinct(Append(<<>>, t))
  <2>1. t.node \notin {} OBVIOUS
  <2>2. OnStack(<<>>) = {} /\ ToCome(<<>>) = {} /\ Distinct(<<>>) BY NothingOnStack
  <2> QED BY <1>6, <1>8, <2>1, <2>2, Zenon
<1>10. Good(Append(<<>>, t), Nodes) BY <1>7, <1>9, Zenon DEF Good
<1>11. TreeHeap = HeapOf(Nodes)
  <2>1. DOMAIN ast = Nodes BY <1>2, TreesAssumption DEF IsTree, Nodes
  <2> QED BY <2>1, Zenon DEF TreeHeap, HeapOf
<1>12. ReferencesAreNames(Append(<<>>, t))
  <2>1. t.mode # "REFERENCE" BY <1>3
  <2> QED BY <1>3, <1>4, <2>1, NothingOnStack, StackOfAppend
<1>13. Nodes \in SUBSET Nodes OBVIOUS
<1>14. Freed BY <1>1, <1>4, <1>10, <1>11, <1>13, Zenon DEF Freed
<1> QED BY <1>1, <1>4, <1>12, <1>14 DEF NamesKept

LEMMA FreedStep ==
  ASSUME FreedInv, [Next]_vars
  PROVE  FreedInv'
<1>1. /\ WalkInv /\ walk \in 0 .. 4 /\ ~misuse
      /\ walk \in {2, 4} /\ status = "walking" => Freeing
      /\ walk \in {2, 4} /\ status = "walking" /\ Sorted => ReferencesAreNames(tasks)
      /\ walk \in {2, 4} /\ status # "walking" /\ Sorted => heap = {} /\ status = "success"
  BY WalkIs DEF FreedInv, TreeIsFreedOnce
<1>2. WalkInv' BY <1>1, NextIsStep, WalkStep
<1> DEFINE After ==
      /\ walk' \in 0 .. 4 /\ ast' = ast /\ ~misuse'
      /\ walk' \in {2, 4} /\ status' = "walking" => Freed
      /\ walk' \in {2, 4} /\ status' = "walking" /\ Sorted => NamesKept
      /\ walk' \in {2, 4} /\ status' # "walking" /\ Sorted => heap' = {} /\ status' = "success"
<1>3. ASSUME After PROVE FreedInv'
  <2>0. ast' = ast BY <1>3
  <2>1. In("free")' => walk' \in {2, 4}
    <3>1. walk' = 0 \/ walk' = 1 \/ walk' = 2 \/ walk' = 3 \/ walk' = 4 BY <1>3
    <3>2. Walks[1] = "check" /\ Walks[3] = "run" BY DEF Walks
    <3> QED BY <3>1, <3>2 DEF In
  <2>2. Sorted' = Sorted BY <2>0 DEF Sorted
  <2>3. ReferencesAreNames(tasks)' <=> ReferencesAreNames(tasks')
    BY <2>0 DEF ReferencesAreNames
  <2>4. Freed => Freeing'
    <3> SUFFICES ASSUME Freed PROVE Freeing' OBVIOUS
    <3>1. PICK live \in SUBSET Nodes : heap' = HeapOf(live) /\ Good(tasks', live) BY DEF Freed
    <3>2. Nodes' = Nodes BY <2>0 DEF Nodes
    <3>3. \A n : Allocated(n)' = Allocated(n) BY <2>0 DEF Allocated
    <3>4. HeapOf(live)' = HeapOf(live) BY <3>3 DEF HeapOf
    <3>5. \A n : KidsOf(n)' = KidsOf(n) BY <2>0 DEF KidsOf
    <3>6. \A on, to_come : Covered(on, to_come, live)' <=> Covered(on, to_come, live)
      BY <3>5 DEF Covered
    <3>7. \A t : Coming(t)' = Coming(t) BY <2>0, Zenon DEF Coming
    <3>8. \A t : ComingKids(t)' = ComingKids(t) BY <2>0, <3>7 DEF ComingKids
    <3>9. ToCome(tasks)' = ToCome(tasks') BY <3>8 DEF ToCome
    <3>10. OnStack(tasks)' = OnStack(tasks') /\ (Distinct(tasks)' <=> Distinct(tasks'))
      BY DEF OnStack, Distinct
    <3>11. Good(tasks, live)' BY <3>1, <3>6, <3>9, <3>10 DEF Good
    <3> QED BY <3>1, <3>2, <3>4, <3>11 DEF Freeing
  <2> QED BY <1>2, <1>3, <2>1, <2>2, <2>3, <2>4 DEF FreedInv, TreeIsFreedOnce, NamesKept
<1>4. CASE RunCheck \/ RunExec
  <2>1. (NextWalk("check") \/ NextWalk("run")) /\ ast' = ast /\ misuse' = misuse
    BY <1>4 DEF RunCheck, CheckBegin, RunExec, ExecBegin, Begin, memory
  <2>2. walk' \in 0 .. 4 /\ walk' \notin {2, 4} BY <1>1, <2>1, NextWalkIs
  <2> QED BY <1>1, <1>3, <2>1, <2>2
<1>5. CASE RunFree
  <2>1. NextWalk("free") /\ FreeBegin BY <1>5 DEF RunFree
  <2>2. walk' \in 0 .. 4 BY <1>1, <2>1, NextWalkIs
  <2>3. ast' = ast /\ status' = "walking" /\ Freed /\ NamesKept BY <1>1, <2>1, FreeBegins
  <2>4. ~misuse' BY <2>3 DEF Freed
  <2> QED BY <1>3, <2>2, <2>3, <2>4
<1>6. CASE In("check") /\ CheckStep /\ UNCHANGED <<machine, memory, walk, verdict>>
  <2>1. walk = 1 /\ walk' = walk /\ misuse' = misuse BY <1>1, <1>6, WalkIs DEF memory
  <2>2. ast' = ast BY <1>1, <1>6, CheckStepIsStep, TreeStays
  <2> QED BY <1>1, <1>3, <2>1, <2>2
<1>7. CASE In("run") /\ ExecStep /\ UNCHANGED <<checker, memory, walk, verdict>>
  <2>1. walk = 3 /\ walk' = walk /\ misuse' = misuse BY <1>1, <1>7, WalkIs DEF memory
  <2>2. ast' = ast BY <1>1, <1>7, ExecStepIsStep, TreeStays
  <2> QED BY <1>1, <1>3, <2>1, <2>2
<1>8. CASE In("free") /\ FreeStep /\ UNCHANGED <<machine, checker, walk, verdict>>
  <2>1. walk \in {2, 4} /\ walk' = walk /\ status = "walking" BY <1>1, <1>8, WalkIs, FreeWalks
  <2>2. ast' = ast BY <1>1, <1>8, FreeStepIsStep, TreeStays
  <2>3. /\ ~misuse'
        /\ status' = "walking" => Freed
        /\ status' # "walking" => End \/ Misplaced
        /\ End => heap' = {} /\ status' = "success"
    BY <1>1, <1>8, <2>1, FreeFrees
  <2>4. Sorted => NamesKept /\ ~Misplaced BY <1>1, <1>8, <2>1, NamesStay, NothingMisplaced
  <2> QED BY <1>1, <1>3, <2>1, <2>2, <2>3, <2>4
<1>9. CASE UNCHANGED vars
  <2>1. /\ ast' = ast /\ tasks' = tasks /\ status' = status /\ heap' = heap /\ misuse' = misuse
        /\ walk' = walk
    BY <1>9 DEF vars, walker, memory
  <2>2. Freeing => Freed BY <1>1, <2>1 DEF Freed, Freeing
  <2>3. ReferencesAreNames(tasks) => NamesKept BY <2>1 DEF NamesKept
  <2> QED BY <1>1, <1>3, <2>1, <2>2, <2>3
<1> QED BY <1>4, <1>5, <1>6, <1>7, <1>8, <1>9 DEF Next

(* Whatever tree is freed, nothing of it is freed twice or read when it is *)
(* gone; and of a well-sorted one nothing is left, after a check or a run  *)
(* that succeeded or failed: each operation that frees finds its node, and *)
(* every node is reached (ast-free.c:6-33, walker.c:55-182).               *)
THEOREM NothingIsFreedTwice == Spec => []TreeIsFreedOnce
<1>1. Init => FreedInv
  <2> SUFFICES ASSUME Init PROVE FreedInv OBVIOUS
  <2>1. WalkInv BY WalkStarts DEF Init
  <2>2. walk = 0 /\ ~misuse BY DEF Init, FreeInit
  <2> QED BY <2>1, <2>2 DEF FreedInv, TreeIsFreedOnce, In
<1>2. FreedInv /\ [Next]_vars => FreedInv' BY FreedStep
<1>3. FreedInv => TreeIsFreedOnce BY DEF FreedInv
<1> QED BY <1>1, <1>2, <1>3, PTL DEF Spec
-----------------------------------------------------------------------------
(***************************************************************************)
(* What the checker accepts finds its names when it is run.  The names     *)
(* that can be seen from a node are a fact of the tree; the scopes of the  *)
(* checker, and those of the machine, hold just these when they are asked. *)
(***************************************************************************)
NameOf(n) == ast[ast[n].kids[1]].val

(* The names that the children of a block define, in front of the pth one. *)
Behind(n, p) ==
  {NameOf(ast[n].kids[i]) :
     i \in {i \in DOMAIN ast[n].kids : /\ ast[n].kind = "block" /\ i < p
                                       /\ ast[ast[n].kids[i]].kind = "define"}}

AllNames == {ast[n].val : n \in Nodes}

(* From a child can be seen what can be seen from its parent, and what is  *)
(* defined in front of it; and nothing else, if there are several ways to  *)
(* say what can be seen.                                                   *)
Views ==
  {view \in [Nodes -> SUBSET AllNames] :
     \A n \in Nodes : \A k \in DOMAIN ast[n].kids :
       ast[n].kids[k] # NULL => view[n] \cup Behind(n, k) \subseteq view[ast[n].kids[k]]}

Visible(n) == {name \in AllNames : \A view \in Views : name \in view[n]}

(* A node that may be walked: below it every name that is used can be      *)
(* seen.  The name of a definition is not walked.                          *)
WalkedKids(n) ==
  {ast[n].kids[k] : k \in {k \in DOMAIN ast[n].kids : ast[n].kind = "define" => k # 1}} \ {NULL}

Settled(D) ==
  \A n \in D : WalkedKids(n) \subseteq D /\ (ast[n].kind = "id" => ast[n].val \in Visible(n))

Sound == UNION {D \in SUBSET Nodes : Settled(D)}

(* Which task may be above which: a block has its next child above it, and *)
(* a definition is above a block.                                          *)
Fits(p, t) ==
  /\ t.node # NULL /\ ast[t.node].kind = "define" => Entered(p)
  /\ Entered(p) => /\ p.phase - 1 \in DOMAIN ast[p.node].kids
                   /\ t.node = ast[p.node].kids[p.phase - 1]

(* What is defined by the blocks below a task. *)
Seen(s, k) ==
  UNION {Behind(s[j].node, s[j].phase - 1) : j \in {j \in 1 .. k - 1 : Entered(s[j])}}

Placed(s) ==
  /\ \A k \in 1 .. Len(s) - 1 : Fits(s[k], s[k + 1])
  /\ \A k \in 1 .. Len(s) : s[k].node # NULL => Visible(s[k].node) = Seen(s, k)

(* The names a block in progress has defined, and the scope it has them in *)
Names(s, k) == Behind(s[k].node, IF k = Len(s) THEN s[k].phase ELSE s[k].phase - 1)

Named(s, sc) ==
  \E at \in [1 .. Len(sc) -> Blocks(s)] :
    /\ \A c, d \in 1 .. Len(sc) : c < d => at[c] < at[d]
    /\ \A k \in Blocks(s) : \E d \in 1 .. Len(sc) : k = at[d]
    /\ \A d \in 1 .. Len(sc) : DOMAIN sc[d] = Names(s, at[d])

(* The same scopes, as far as their names go. *)
SameNames(sc, sc2) ==
  Len(sc2) = Len(sc) /\ \A d \in 1 .. Len(sc) : DOMAIN sc2[d] = DOMAIN sc[d]

(* The innermost scope has the name of a definition as well. *)
Defined(sc, sc2, name) ==
  /\ Len(sc2) = Len(sc)
  /\ \A d \in 1 .. Len(sc) :
       DOMAIN sc2[d] = IF d = Len(sc) THEN DOMAIN sc[d] \cup {name} ELSE DOMAIN sc[d]

(* What a step does to the names of the scopes. *)
ScopeTurn(sc, sc2) ==
  \/ Called("scope_push_new") /\ sc2 = Append(sc, <<>>)
  \/ Called("scope_pop") /\ sc2 = SubSeq(sc, 1, Len(sc) - 1)
  \/ Called("apply_define") /\ Defined(sc, sc2, NameOf(Top.node))
  \/ /\ SameNames(sc, sc2)
     /\ \/ \E op \in Operations \ {"scope_push_new", "scope_pop", "apply_define"} : Called(op)
        \/ \E op, error : Raised(op, error)
        \/ \E c \in BOOLEAN : Decided(c, ~c)
        \/ Decided(TRUE, TRUE) \/ Descend \/ Skip \/ Misplaced \/ End

(* The children a task has walked, or walks. *)
GoneKids(t) ==
  {ast[t.node].kids[k] : k \in DOMAIN ast[t.node].kids \ Coming(t)} \ {NULL}

(* Whatever a task has walked is in N, or has a task above it. *)
Within(s, N) ==
  /\ Root(ast) \in N \cup {s[j].node : j \in 1 .. Len(s)}
  /\ \A k \in 1 .. Len(s) :
       s[k].node # NULL => GoneKids(s[k]) \subseteq N \cup {s[j].node : j \in k + 1 .. Len(s)}

AllSound(s) == \A k \in 1 .. Len(s) : s[k].node # NULL => s[k].node \in Sound

Scoped == Sorted /\ ~DefinesInArm

Allowed == {"success", "division by zero", "name redefinition",
            "failed to convert string to integer"}

VerdictsAre == IsSequence(verdict) /\ Len(verdict) = IF walk = 0 THEN 0 ELSE walk - 1

(* What the checker has not seen yet is still to come, or has a task. *)
CheckedSoFar ==
  /\ Placed(tasks) /\ Named(tasks, tscopes) /\ Within(tasks, Sound)
  /\ status = "success" => Root(ast) \in Sound

RunsSoFar ==
  /\ Placed(tasks) /\ Named(tasks, scopes) /\ AllSound(tasks)
  /\ status \in Allowed \cup {"walking"}

AcceptedInv ==
  /\ OperandsInv /\ ScopesInv /\ VerdictsAre
  /\ Scoped =>
       /\ walk = 1 => CheckedSoFar
       /\ walk > 1 /\ verdict[1] = "success" =>
            /\ Root(ast) \in Sound
            /\ walk = 3 => RunsSoFar
            /\ walk = 4 => verdict[3] \in Allowed

(* Of what a tree is made. *)
LEMMA TreeIs ==
  ASSUME ast \in Trees, NEW n \in Nodes
  PROVE  LET kids == ast[n].kids
             kind == ast[n].kind
         IN  /\ kind \in Kinds /\ Len(kids) \in Arity(kind) /\ DOMAIN kids = 1 .. Len(kids)
             /\ \A k \in DOMAIN kids :
                  /\ kids[k] \in Nodes \cup {NULL} /\ kids[k] # n
                  /\ kids[k] = NULL => kind \in {"if", "ifexpr"} /\ k = 3
                  /\ kind = "define" /\ k = 1 => ast[kids[k]].kind = "id"
                  /\ kids[k] # Root(ast)
             /\ \A m \in Nodes : \A k \in DOMAIN kids, l \in DOMAIN ast[m].kids :
                  kids[k] = ast[m].kids[l] /\ kids[k] # NULL => m = n /\ k = l
<1>1. IsTree(ast) BY TreesAssumption
<1>2. DOMAIN ast = Nodes /\ Len(ast) \in Nat BY <1>1 DEF IsTree, Nodes
<1>3. n \in 1 .. Len(ast) /\ n \in Nat BY <1>2 DEF Nodes
<1>4. ASSUME NEW k \in DOMAIN ast[n].kids
      PROVE  /\ ast[n].kids[k] \in Nodes \cup {NULL} /\ ast[n].kids[k] # n
             /\ ast[n].kids[k] # Root(ast)
  <2>1. ast[n].kids[k] \in 0 .. n - 1 BY <1>1, <1>2 DEF IsTree
  <2> QED BY <1>2, <1>3, <2>1 DEF Nodes, NULL, Root
<1> QED BY <1>1, <1>2, <1>4 DEF IsTree

LEMMA BehindIsNames ==
  ASSUME ast \in Trees, NEW n \in Nodes, NEW p
  PROVE  Behind(n, p) \subseteq AllNames /\ (ast[n].kind # "block" => Behind(n, p) = {})
<1> DEFINE kids == ast[n].kids
<1>1. ASSUME NEW i \in DOMAIN kids, ast[n].kind = "block", ast[kids[i]].kind = "define"
      PROVE  NameOf(kids[i]) \in AllNames
  <2>1. kids[i] \in Nodes BY <1>1, TreeIs
  <2>2. Len(ast[kids[i]].kids) \in Arity("define") /\ DOMAIN ast[kids[i]].kids = 1 .. Len(ast[kids[i]].kids)
    BY <1>1, <2>1, TreeIs
  <2>3. 1 \in DOMAIN ast[kids[i]].kids
    <3>1. Arity("define") = {2} BY DEF Arity
    <3> QED BY <2>2, <3>1
  <2>4. ast[kids[i]].kids[1] \in Nodes BY <1>1, <2>1, <2>3, TreeIs
  <2> QED BY <2>4 DEF NameOf, AllNames
<1> QED BY <1>1 DEF Behind

(* What can be seen can be seen: the least view is a view. *)
LEMMA VisibleIsView ==
  ASSUME ast \in Trees, NEW n \in Nodes, NEW k \in DOMAIN ast[n].kids, ast[n].kids[k] # NULL
  PROVE  Visible(n) \cup Behind(n, k) \subseteq Visible(ast[n].kids[k])
<1>1. \A view \in Views : view[n] \cup Behind(n, k) \subseteq view[ast[n].kids[k]]
  BY DEF Views
<1>2. Behind(n, k) \subseteq AllNames BY BehindIsNames
<1> QED BY <1>1, <1>2 DEF Visible

(* What can be seen from a child, and nothing else: else a view without    *)
(* the rest would do.                                                      *)
LEMMA VisibleOfKid ==
  ASSUME ast \in Trees, NEW n \in Nodes, NEW k \in DOMAIN ast[n].kids, ast[n].kids[k] # NULL
  PROVE  Visible(ast[n].kids[k]) = Visible(n) \cup Behind(n, k)
<1> DEFINE kid  == ast[n].kids[k]
           part == Visible(n) \cup Behind(n, k)
           view == [m \in Nodes |-> IF m = kid THEN part ELSE Visible(m)]
<1>1. kid \in Nodes /\ kid # n BY TreeIs
<1>2. part \subseteq Visible(kid) /\ part \subseteq AllNames
  BY VisibleIsView, BehindIsNames DEF Visible
<1> HIDE DEF kid, part
<1>3. view \in [Nodes -> SUBSET AllNames] BY <1>2 DEF Visible
<1>4. \A m \in Nodes : view[m] \subseteq Visible(m) BY <1>2
<1>5. ASSUME NEW m \in Nodes, NEW l \in DOMAIN ast[m].kids, ast[m].kids[l] # NULL
      PROVE  view[m] \cup Behind(m, l) \subseteq view[ast[m].kids[l]]
  <2>1. ast[m].kids[l] \in Nodes BY <1>5, TreeIs
  <2>2. Visible(m) \cup Behind(m, l) \subseteq Visible(ast[m].kids[l]) BY <1>5, VisibleIsView
  <2>3. CASE ast[m].kids[l] = kid
    <3>1. m = n /\ l = k BY <1>5, <2>3, TreeIs DEF kid
    <3> QED BY <1>1, <2>1, <2>3, <3>1 DEF part
  <2>4. CASE ast[m].kids[l] # kid BY <1>4, <2>1, <2>2, <2>4
  <2> QED BY <2>3, <2>4
<1> HIDE DEF view
<1>6. view \in Views BY <1>3, <1>5 DEF Views
<1>7. Visible(kid) \subseteq view[kid] BY <1>6 DEF Visible
<1>8. view[kid] = part BY <1>1 DEF view
<1> QED BY <1>2, <1>7, <1>8 DEF kid, part

LEMMA VisibleOfRoot ==
  ASSUME ast \in Trees
  PROVE  Visible(Root(ast)) = {}
<1> DEFINE view == [m \in Nodes |-> IF m = Root(ast) THEN {} ELSE AllNames]
<1>1. Root(ast) \in Nodes BY KidsAre
<1>2. view \in [Nodes -> SUBSET AllNames] /\ view[Root(ast)] = {} BY <1>1
<1>3. ASSUME NEW n \in Nodes, NEW k \in DOMAIN ast[n].kids, ast[n].kids[k] # NULL
      PROVE  view[n] \cup Behind(n, k) \subseteq view[ast[n].kids[k]]
  <2>1. ast[n].kids[k] \in Nodes /\ ast[n].kids[k] # Root(ast) BY <1>3, TreeIs
  <2>2. view[ast[n].kids[k]] = AllNames BY <2>1
  <2>3. view[n] \subseteq AllNames OBVIOUS
  <2> QED BY <2>2, <2>3, BehindIsNames
<1> HIDE DEF view
<1>4. view \in Views BY <1>2, <1>3 DEF Views
<1> QED BY <1>2, <1>4 DEF Visible

(* Soundness is a fact of all nodes below one, and of the one. *)
LEMMA SoundIs ==
  ASSUME ast \in Trees
  PROVE  /\ Sound \subseteq Nodes /\ Settled(Sound)
         /\ \A n \in Nodes : /\ WalkedKids(n) \subseteq Sound
                             /\ ast[n].kind = "id" => ast[n].val \in Visible(n)
                             => n \in Sound
<1>1. Sound \subseteq Nodes BY DEF Sound
<1>2. Settled(Sound)
  <2>1. ASSUME NEW n \in Sound
        PROVE  WalkedKids(n) \subseteq Sound /\ (ast[n].kind = "id" => ast[n].val \in Visible(n))
    <3>1. PICK D \in SUBSET Nodes : Settled(D) /\ n \in D BY <2>1 DEF Sound
    <3>2. WalkedKids(n) \subseteq D /\ (ast[n].kind = "id" => ast[n].val \in Visible(n))
      BY <3>1 DEF Settled
    <3>3. D \subseteq Sound BY <3>1 DEF Sound
    <3> QED BY <3>2, <3>3
  <2> QED BY <2>1 DEF Settled
<1>3. ASSUME NEW n \in Nodes, WalkedKids(n) \subseteq Sound,
             ast[n].kind = "id" => ast[n].val \in Visible(n)
      PROVE  n \in Sound
  <2> DEFINE D == Sound \cup {n}
  <2>1. D \in SUBSET Nodes BY <1>1
  <2>2. \A m \in D : m \in Sound \/ m = n OBVIOUS
  <2>3. Sound \subseteq D /\ n \in D OBVIOUS
  <2> HIDE DEF D
  <2>4. Settled(D) BY <1>2, <1>3, <2>2, <2>3 DEF Settled
  <2> QED BY <2>1, <2>3, <2>4 DEF Sound
<1> QED BY <1>1, <1>2, <1>3

(* The stack and one task more. *)
LEMMA AppendIs ==
  ASSUME NEW s \in Seq(Tasks), NEW t \in Tasks
  PROVE  /\ Append(s, t) \in Seq(Tasks) /\ Len(s) \in Nat /\ Len(Append(s, t)) = Len(s) + 1
         /\ Append(s, t)[Len(s) + 1] = t
         /\ \A k \in 1 .. Len(s) : Append(s, t)[k] = s[k] /\ s[k] \in Tasks
OBVIOUS

LEMMA SeenOfAppend ==
  ASSUME NEW s \in Seq(Tasks), NEW t \in Tasks
  PROVE  LET more == IF Entered(t) THEN Behind(t.node, t.phase - 1) ELSE {}
         IN  /\ \A k \in 1 .. Len(s) + 1 : Seen(Append(s, t), k) = Seen(s, k)
             /\ Seen(Append(s, t), Len(s) + 2) = Seen(s, Len(s) + 1) \cup more
<1> DEFINE all == Append(s, t)
           l   == Len(s)
           B(u) == Behind(u.node, u.phase - 1)
<1>1. l \in Nat /\ all[l + 1] = t /\ \A k \in 1 .. l : all[k] = s[k] BY AppendIs
<1>2. /\ \A k : Seen(all, k) = UNION {B(all[j]) : j \in {j \in 1 .. k - 1 : Entered(all[j])}}
      /\ \A k : Seen(s, k) = UNION {B(s[j]) : j \in {j \in 1 .. k - 1 : Entered(s[j])}}
  BY DEF Seen
<1> HIDE DEF all, l, B
<1>3. ASSUME NEW k \in 1 .. l + 1 PROVE Seen(all, k) = Seen(s, k)
  <2>1. \A j \in 1 .. k - 1 : j \in 1 .. l BY <1>1
  <2>2. \A j \in 1 .. k - 1 : all[j] = s[j] BY <1>1, <2>1
  <2>3. {B(all[j]) : j \in {j \in 1 .. k - 1 : Entered(all[j])}}
          = {B(s[j]) : j \in {j \in 1 .. k - 1 : Entered(s[j])}}
    BY <2>2
  <2> QED BY <1>2, <2>3, Zenon
<1>4. Seen(all, l + 2) = Seen(s, l + 1) \cup (IF Entered(t) THEN B(t) ELSE {})
  <2>1. \A j : j \in 1 .. (l + 2) - 1 <=> j \in 1 .. l \/ j = l + 1 BY <1>1
  <2>2. \A j : j \in 1 .. (l + 1) - 1 <=> j \in 1 .. l BY <1>1
  <2>3. ASSUME NEW x \in Seen(all, l + 2)
        PROVE  x \in Seen(s, l + 1) \/ (Entered(t) /\ x \in B(t))
    <3>1. PICK j \in 1 .. (l + 2) - 1 : Entered(all[j]) /\ x \in B(all[j]) BY <1>2, <2>3
    <3>2. CASE j \in 1 .. l BY <1>1, <1>2, <2>2, <3>1, <3>2
    <3>3. CASE j = l + 1 BY <1>1, <3>1, <3>3
    <3> QED BY <2>1, <3>2, <3>3
  <2>4. ASSUME NEW x \in Seen(s, l + 1) PROVE x \in Seen(all, l + 2)
    <3>1. PICK j \in 1 .. (l + 1) - 1 : Entered(s[j]) /\ x \in B(s[j]) BY <1>2, <2>4
    <3>2. j \in 1 .. (l + 2) - 1 /\ all[j] = s[j] BY <1>1, <2>1, <2>2, <3>1
    <3> QED BY <1>2, <3>1, <3>2
  <2>5. ASSUME Entered(t), NEW x \in B(t) PROVE x \in Seen(all, l + 2)
    <3>1. l + 1 \in 1 .. (l + 2) - 1 BY <2>1
    <3> QED BY <1>1, <1>2, <2>5, <3>1
  <2> QED BY <2>3, <2>4, <2>5
<1> QED BY <1>3, <1>4 DEF all, l, B

LEMMA PlacedOfAppend ==
  ASSUME NEW s \in Seq(Tasks), NEW t \in Tasks
  PROVE  Placed(Append(s, t)) <=>
           /\ Placed(s)
           /\ s # <<>> => Fits(s[Len(s)], t)
           /\ t.node # NULL => Visible(t.node) = Seen(s, Len(s) + 1)
<1> DEFINE all == Append(s, t)
           l   == Len(s)
<1>1. /\ l \in Nat /\ all[l + 1] = t /\ \A k \in 1 .. l : all[k] = s[k]
      /\ Len(all) = l + 1 /\ (s = <<>> <=> l = 0)
  BY AppendIs
<1>2. \A k \in 1 .. l + 1 : Seen(all, k) = Seen(s, k) BY SeenOfAppend
<1>3. /\ Placed(all) <=> /\ \A k \in 1 .. Len(all) - 1 : Fits(all[k], all[k + 1])
                         /\ \A k \in 1 .. Len(all) :
                              all[k].node # NULL => Visible(all[k].node) = Seen(all, k)
      /\ Placed(s) <=> /\ \A k \in 1 .. l - 1 : Fits(s[k], s[k + 1])
                       /\ \A k \in 1 .. l : s[k].node # NULL => Visible(s[k].node) = Seen(s, k)
  BY DEF Placed
<1> HIDE DEF all, l
<1>4. ASSUME Placed(all)
      PROVE  /\ Placed(s) /\ (s # <<>> => Fits(s[l], t))
             /\ t.node # NULL => Visible(t.node) = Seen(s, l + 1)
  <2>1. ASSUME NEW k \in 1 .. l - 1 PROVE Fits(s[k], s[k + 1])
    <3>1. k \in 1 .. Len(all) - 1 /\ k \in 1 .. l /\ k + 1 \in 1 .. l BY <1>1
    <3> QED BY <1>1, <1>3, <1>4, <3>1
  <2>2. ASSUME NEW k \in 1 .. l, s[k].node # NULL PROVE Visible(s[k].node) = Seen(s, k)
    <3>1. k \in 1 .. Len(all) /\ k \in 1 .. l + 1 BY <1>1
    <3> QED BY <1>1, <1>2, <1>3, <1>4, <2>2, <3>1
  <2>3. ASSUME s # <<>> PROVE Fits(s[l], t)
    <3>1. l \in 1 .. Len(all) - 1 /\ l \in 1 .. l BY <1>1, <2>3
    <3>2. Fits(all[l], all[l + 1]) BY <1>3, <1>4, <3>1
    <3> QED BY <1>1, <3>1, <3>2
  <2>4. ASSUME t.node # NULL PROVE Visible(t.node) = Seen(s, l + 1)
    <3>1. l + 1 \in 1 .. Len(all) /\ l + 1 \in 1 .. l + 1 BY <1>1
    <3> QED BY <1>1, <1>2, <1>3, <1>4, <2>4, <3>1
  <2> QED BY <1>3, <2>1, <2>2, <2>3, <2>4
<1>5. ASSUME Placed(s), s # <<>> => Fits(s[l], t),
             t.node # NULL => Visible(t.node) = Seen(s, l + 1)
      PROVE  Placed(all)
  <2>1. ASSUME NEW k \in 1 .. Len(all) - 1 PROVE Fits(all[k], all[k + 1])
    <3>1. k \in 1 .. l BY <1>1
    <3>2. CASE k = l BY <1>1, <1>5, <3>1, <3>2
    <3>3. CASE k # l
      <4>1. k \in 1 .. l - 1 /\ k + 1 \in 1 .. l BY <1>1, <3>1, <3>3
      <4> QED BY <1>1, <1>3, <1>5, <3>1, <4>1
    <3> QED BY <3>2, <3>3
  <2>2. ASSUME NEW k \in 1 .. Len(all), all[k].node # NULL
        PROVE  Visible(all[k].node) = Seen(all, k)
    <3>1. k \in 1 .. l \/ k = l + 1 BY <1>1
    <3>2. k \in 1 .. l + 1 BY <1>1
    <3> QED BY <1>1, <1>2, <1>3, <1>5, <2>2, <3>1, <3>2
  <2> QED BY <1>3, <2>1, <2>2
<1> QED BY <1>4, <1>5 DEF all, l

(* What holds within N, and within more. *)
LEMMA WithinOfAppend ==
  ASSUME NEW s \in Seq(Tasks), NEW t \in Tasks, NEW N
  PROVE  Within(Append(s, t), N) <=>
           Within(s, N \cup {t.node}) /\ (t.node # NULL => GoneKids(t) \subseteq N)
<1> DEFINE all == Append(s, t)
           l   == Len(s)
           Above(r, k) == {r[j].node : j \in k + 1 .. Len(r)}
<1>1. /\ l \in Nat /\ all[l + 1] = t /\ \A k \in 1 .. l : all[k] = s[k]
      /\ Len(all) = l + 1
  BY AppendIs
<1>2. /\ \A M : Within(all, M) <=>
           /\ Root(ast) \in M \cup Above(all, 0)
           /\ \A k \in 1 .. Len(all) :
                all[k].node # NULL => GoneKids(all[k]) \subseteq M \cup Above(all, k)
      /\ \A M : Within(s, M) <=>
           /\ Root(ast) \in M \cup Above(s, 0)
           /\ \A k \in 1 .. l : s[k].node # NULL => GoneKids(s[k]) \subseteq M \cup Above(s, k)
  BY DEF Within
<1>3. ASSUME NEW k \in 0 .. l PROVE Above(all, k) = Above(s, k) \cup {t.node}
  <2>1. \A j : j \in k + 1 .. l + 1 <=> j \in k + 1 .. l \/ j = l + 1 BY <1>1
  <2>2. \A j \in k + 1 .. l : j \in 1 .. l BY <1>1
  <2> HIDE DEF all
  <2> QED BY <1>1, <2>1, <2>2
<1>4. Above(all, l + 1) = {}
  <2>1. \A j \in l + 2 .. l + 1 : FALSE BY <1>1
  <2>2. \A j : j \in (l + 1) + 1 .. Len(all) => j \in l + 2 .. l + 1 BY <1>1
  <2> HIDE DEF all
  <2> QED BY <2>1, <2>2
<1> HIDE DEF all, l, Above
<1>5. \A k \in 1 .. l + 1 : k \in 1 .. l \/ k = l + 1 BY <1>1
<1>6. \A k \in 1 .. l : k \in 0 .. l /\ k \in 1 .. l + 1 BY <1>1
<1>7. 0 \in 0 .. l /\ l + 1 \in 1 .. l + 1 BY <1>1
<1>8. Above(all, 0) = Above(s, 0) \cup {t.node} BY <1>3, <1>7
<1>9. \A k \in 1 .. l : Above(all, k) = Above(s, k) \cup {t.node} BY <1>3, <1>6
<1> QED BY <1>1, <1>2, <1>4, <1>5, <1>6, <1>7, <1>8, <1>9 DEF all

LEMMA WithinMore ==
  ASSUME ast \in Trees, NEW s, NEW N, NEW M, Within(s, N), N \subseteq M \cup {NULL}
  PROVE  Within(s, M)
<1>1. Root(ast) # NULL BY KidsAre DEF NULL
<1>2. \A t : NULL \notin GoneKids(t) BY DEF GoneKids
<1> QED BY <1>1, <1>2 DEF Within

LEMMA SoundOfAppend ==
  ASSUME NEW s \in Seq(Tasks), NEW t \in Tasks
  PROVE  AllSound(Append(s, t)) <=> AllSound(s) /\ (t.node # NULL => t.node \in Sound)
<1> DEFINE all == Append(s, t)
           l   == Len(s)
<1>1. /\ l \in Nat /\ all[l + 1] = t /\ \A k \in 1 .. l : all[k] = s[k]
      /\ Len(all) = l + 1
  BY AppendIs
<1> HIDE DEF all
<1>2. /\ \A k \in 1 .. Len(all) : k \in 1 .. l \/ k = l + 1
      /\ \A k \in 1 .. l : k \in 1 .. Len(all)
      /\ l + 1 \in 1 .. Len(all)
  BY <1>1
<1> QED BY <1>1, <1>2 DEF AllSound, all

(* Where a definition is, if it is no arm of an if. *)
LEMMA DefinitionsAreInBlocks ==
  ASSUME ast \in Trees, Scoped, NEW n \in Nodes, NEW k \in DOMAIN ast[n].kids,
         ast[n].kids[k] # NULL, ast[ast[n].kids[k]].kind = "define"
  PROVE  ast[n].kind = "block"
<1> DEFINE kind == ast[n].kind
<1>1. n \in DOMAIN ast BY TreesAssumption DEF IsTree, Nodes
<1>2. ~TakesValue(kind, k) BY <1>1 DEF Scoped, Sorted, IsWellSorted, Yielding
<1>3. kind = "block" \/ (kind = "if" /\ k # 1) BY <1>2 DEF TakesValue
<1>4. ASSUME kind = "if", k # 1 PROVE FALSE
  <2>1. Len(ast[n].kids) \in Arity("if") /\ k \in 1 .. Len(ast[n].kids) BY <1>4, TreeIs
  <2>2. Arity("if") = {3} BY DEF Arity
  <2>3. k \in {2, 3} BY <1>4, <2>1, <2>2
  <2> QED BY <1>1, <1>4, <2>3 DEF Scoped, DefinesInArm
<1> QED BY <1>3, <1>4

(* The task on top, and what is below it. *)
LEMMA TopPlaced ==
  ASSUME WalkInv, tasks # <<>>, Placed(tasks)
  PROVE  /\ Below \in Seq(Tasks) /\ Top \in Tasks /\ tasks = Append(Below, Top)
         /\ Placed(Below)
         /\ Below # <<>> => Fits(Below[Len(Below)], Top)
         /\ Top.node # NULL =>
              /\ Visible(Top.node) = Seen(Below, Len(Below) + 1)
              /\ Next1 \in Tasks /\ Next1.node = Top.node /\ Next1.phase = Top.phase + 1
              /\ Top.phase \in Nat /\ Placed(Append(Below, Next1))
<1>1. Below \in Seq(Tasks) /\ Top \in Tasks /\ tasks = Append(Below, Top) BY TasksAre
<1>2. Placed(Append(Below, Top)) BY <1>1
<1>3. /\ Placed(Below)
      /\ Below # <<>> => Fits(Below[Len(Below)], Top)
      /\ Top.node # NULL => Visible(Top.node) = Seen(Below, Len(Below) + 1)
  BY <1>1, <1>2, PlacedOfAppend
<1>4. ASSUME Top.node # NULL
      PROVE  /\ Next1 \in Tasks /\ Next1.node = Top.node /\ Next1.phase = Top.phase + 1
             /\ Top.phase \in Nat /\ Placed(Append(Below, Next1))
  <2>1. Top.phase \in Nat /\ Top.phase + 1 \in Nat BY <1>1 DEF Tasks
  <2>2. Next1 \in Tasks /\ Next1.node = Top.node /\ Next1.phase = Top.phase + 1
    BY <1>1, <2>1 DEF Next1, Tasks
  <2>3. Below # <<>> => Fits(Below[Len(Below)], Next1) BY <1>3, <2>2 DEF Fits
  <2>4. Visible(Next1.node) = Seen(Below, Len(Below) + 1) BY <1>3, <1>4, <2>2
  <2> QED BY <1>1, <1>3, <2>1, <2>2, <2>3, <2>4, PlacedOfAppend
<1> QED BY <1>1, <1>3, <1>4

(* A child of the node on top finds its place above it. *)
LEMMA KidPlaces ==
  ASSUME WalkInv, Scoped, tasks # <<>>, Placed(tasks), Top.node \in Nodes,
         NEW k \in DOMAIN ast[Top.node].kids, ast[Top.node].kind = "block" => k = Top.phase,
         Entered(Next1) <=> ast[Top.node].kind = "block",
         NEW t \in Tasks, t.node = ast[Top.node].kids[k]
  PROVE  Placed(Append(Append(Below, Next1), t))
<1> DEFINE s    == Append(Below, Next1)
           n    == Top.node
           more == IF Entered(Next1) THEN Behind(Next1.node, Next1.phase - 1) ELSE {}
<1>1. Top.node # NULL BY KidsAre DEF WalkInv, NULL
<1>2. /\ Below \in Seq(Tasks) /\ Top.phase \in Nat
      /\ Visible(n) = Seen(Below, Len(Below) + 1)
      /\ Next1 \in Tasks /\ Next1.node = n /\ Next1.phase = Top.phase + 1 /\ Placed(s)
  BY <1>1, TopPlaced
<1>3. /\ s \in Seq(Tasks) /\ s # <<>> /\ s[Len(s)] = Next1 /\ Len(s) + 1 = Len(Below) + 2
  BY <1>2
<1>4. Seen(s, Len(Below) + 2) = Seen(Below, Len(Below) + 1) \cup more BY <1>2, SeenOfAppend
<1>5. Next1.phase - 1 = Top.phase BY <1>2
<1>6. more = Behind(n, k)
  <2>1. ast[n].kind # "block" => Behind(n, k) = {} BY BehindIsNames DEF WalkInv
  <2> QED BY <1>2, <1>5, <2>1
<1> HIDE DEF s, more
<1>7. ASSUME t.node # NULL PROVE Visible(t.node) = Seen(s, Len(s) + 1)
  <2>1. Visible(t.node) = Visible(n) \cup Behind(n, k) BY <1>7, VisibleOfKid DEF WalkInv
  <2> QED BY <1>2, <1>3, <1>4, <1>6, <2>1
<1>8. Fits(Next1, t)
  <2>1. t.node # NULL /\ ast[t.node].kind = "define" => ast[n].kind = "block"
    BY DefinitionsAreInBlocks DEF WalkInv
  <2> QED BY <1>2, <1>5, <2>1 DEF Fits
<1>9. s # <<>> => Fits(s[Len(s)], t) BY <1>3, <1>8
<1>10. Placed(Append(s, t)) BY <1>2, <1>3, <1>7, <1>9, PlacedOfAppend
<1> QED BY <1>10 DEF s

LEMMA DescendPlaces ==
  ASSUME WalkInv, Scoped, Placed(tasks), Descend
  PROVE  Placed(tasks')
<1> DEFINE t    == Task(Step.kid, Step.mode)
           kids == ast[Top.node].kids
           kind == ast[Top.node].kind
<1>1. /\ Walking /\ tasks # <<>> /\ Top.node # NULL /\ OnNode("push") /\ Step.does = "push"
      /\ t \in Tasks /\ t.node = Step.kid /\ tasks' = Append(Resumed, t)
  BY DescendIs DEF Walking, OnNode
<1>2. Resumed = Append(Below, Next1) BY <1>1, PushingStays
<1>3. Top.node \in Nodes /\ StepAt(Top) /\ Step = Steps(Top)[Top.phase + 1] /\ Top.phase \in Nat
  BY <1>1, TopIs DEF Nodes
<1>4. PICK k \in DOMAIN kids : Step.kid = kids[k]
  <2>1. \E k \in Coming(Top) : Step.kid = kids[k] /\ k \in DOMAIN kids BY <1>1, ComingIs
  <2> QED BY <2>1
<1>5. kind = "block" => Top.phase \in DOMAIN kids /\ Step.kid = kids[Top.phase] /\ Top.phase > 0
  <2>1. DOMAIN kids = 1 .. Len(kids) BY <1>3, TreeIs DEF WalkInv
  <2> DEFINE size == Len(Steps(Top))
  <2>2. kind = "block" => /\ size = Len(kids) + 2 /\ Top.phase \in 1 .. size - 2
                          /\ Step = Push(kids[Top.phase], "EVAL")
    BY <1>1, <1>3 DEF StepAt, Call
  <2>3. kind = "block" => Len(kids) \in Nat
    <3>1. Len(kids) \in Arity(kind) BY <1>3, TreeIs DEF WalkInv
    <3> QED BY <3>1 DEF Arity
  <2> HIDE DEF size
  <2>4. kind = "block" => Top.phase \in DOMAIN kids /\ Top.phase > 0 BY <2>1, <2>2, <2>3
  <2>5. kind = "block" => Step.kid = kids[Top.phase] BY <2>2 DEF Push
  <2> QED BY <2>4, <2>5
<1>6. Next1.node = Top.node /\ Next1.phase > 0
  <2>1. Next1.node = Top.node /\ Next1.phase = Top.phase + 1 BY <1>1, TopPlaced
  <2> QED BY <1>3, <2>1
<1>7. Entered(Next1) <=> kind = "block" BY <1>1, <1>6 DEF Entered
<1> HIDE DEF t
<1>8. CASE kind = "block"
  <2>1. Placed(Append(Append(Below, Next1), t)) BY <1>1, <1>3, <1>5, <1>7, <1>8, KidPlaces
  <2> QED BY <1>1, <1>2, <2>1
<1>9. CASE kind # "block"
  <2>1. Placed(Append(Append(Below, Next1), t)) BY <1>1, <1>3, <1>4, <1>7, <1>9, KidPlaces
  <2> QED BY <1>1, <1>2, <2>1
<1> QED BY <1>8, <1>9

(* So does an arm of an if, with or without the other one below it. *)
LEMMA ArmsPlace ==
  ASSUME WalkInv, Scoped, Placed(tasks), OnNode("descisions"),
         NEW e \in Tasks, e.phase = 0, e.node \in {ast[Top.node].kids[2], ast[Top.node].kids[3]}
  PROVE  LET s == Append(Append(Below, Next1), e)
         IN  /\ Placed(s)
             /\ \A t \in Tasks :
                  t.node \in {ast[Top.node].kids[2], ast[Top.node].kids[3]} => Placed(Append(s, t))
<1> DEFINE kids == ast[Top.node].kids
           kind == ast[Top.node].kind
           b    == Append(Below, Next1)
           s    == Append(b, e)
<1>1. /\ Walking /\ tasks # <<>> /\ Top.node # NULL /\ Step.does = "descisions"
  BY DEF Walking, OnNode
<1>2. /\ Below \in Seq(Tasks) /\ Visible(Top.node) = Seen(Below, Len(Below) + 1)
      /\ Next1 \in Tasks /\ Next1.node = Top.node /\ Next1.phase = Top.phase + 1
  BY <1>1, TopPlaced
<1>3. Top.node \in Nodes BY <1>1, TopIs DEF Nodes
<1>4. kind \in {"if", "ifexpr"} BY ComingIs
<1>5. 2 \in DOMAIN kids /\ 3 \in DOMAIN kids
  <2>1. Len(kids) \in Arity(kind) /\ DOMAIN kids = 1 .. Len(kids) BY <1>3, TreeIs DEF WalkInv
  <2>2. Arity(kind) = {3} BY <1>4 DEF Arity
  <2>3. Len(kids) = 3 BY <2>1, <2>2
  <2> HIDE DEF kids
  <2> QED BY <2>1, <2>3
<1>6. ~Entered(Next1) /\ kind # "block" BY <1>2, <1>4 DEF Entered
<1>7. ASSUME NEW t \in Tasks, t.node \in {kids[2], kids[3]} PROVE Placed(Append(b, t))
  <2>1. PICK k \in DOMAIN kids : t.node = kids[k] BY <1>5, <1>7
  <2> QED BY <1>1, <1>3, <1>6, <2>1, KidPlaces
<1>8. b \in Seq(Tasks) /\ Len(b) + 1 = Len(Below) + 2 BY <1>2
<1> HIDE DEF b
<1>9. /\ s \in Seq(Tasks) /\ s # <<>> /\ s[Len(s)] = e /\ Len(s) + 1 = Len(b) + 2
  BY <1>8
<1>10. Seen(s, Len(b) + 2) = Seen(b, Len(b) + 1)
  <2> DEFINE more == IF Entered(e) THEN Behind(e.node, e.phase - 1) ELSE {}
  <2>1. more = {} BY DEF Entered
  <2>2. Seen(s, Len(b) + 2) = Seen(b, Len(b) + 1) \cup more BY <1>8, SeenOfAppend
  <2> QED BY <2>1, <2>2
<1>11. Placed(s) BY <1>7
<1> HIDE DEF s
<1>12. ASSUME NEW t \in Tasks, t.node \in {kids[2], kids[3]} PROVE Placed(Append(s, t))
  <2>1. Placed(Append(b, t)) BY <1>7, <1>12
  <2>2. t.node # NULL => Visible(t.node) = Seen(s, Len(s) + 1)
    BY <1>8, <1>9, <1>10, <2>1, PlacedOfAppend
  <2>3. Fits(e, t)
    <3>1. ~(t.node # NULL /\ ast[t.node].kind = "define")
      BY <1>3, <1>5, <1>6, <1>12, DefinitionsAreInBlocks DEF WalkInv
    <3> QED BY <3>1 DEF Fits, Entered
  <2>4. s # <<>> => Fits(s[Len(s)], t) BY <1>9, <2>3
  <2> QED BY <1>9, <1>11, <2>2, <2>4, PlacedOfAppend
<1> QED BY <1>11, <1>12 DEF s, b

(* What a step of the checker, or of the interpreter, is to the walk. *)
CheckTurn ==
  \/ \E op \in Operations : Called(op)
  \/ \E op, error : Raised(op, error)
  \/ Decided(TRUE, TRUE) \/ Descend \/ Skip \/ Misplaced \/ End

ExecTurn ==
  \/ \E op \in Operations : Called(op)
  \/ \E op, error : Raised(op, error)
  \/ \E c \in BOOLEAN : Decided(c, ~c)
  \/ Descend \/ Skip \/ Misplaced \/ End

LEMMA CheckStepShape == CheckStep => CheckTurn
<1> USE DEF Operations
<1>1. CheckValue \/ CheckIfPost \/ CheckAssign \/ CheckEcho => CheckTurn
  BY DEF CheckValue, CheckIfPost, CheckAssign, CheckEcho, CheckTurn
<1>2. CheckIdentifier => CheckTurn BY DEF CheckIdentifier, CheckTurn
<1>3. CheckExpr \/ CheckUExpr \/ CheckIfCond => CheckTurn
  BY DEF CheckExpr, CheckUExpr, CheckIfCond, CheckTurn
<1>4. CheckIfExprPost \/ CheckDefine => CheckTurn BY DEF CheckIfExprPost, CheckDefine, CheckTurn
<1>5. CheckScopePush \/ CheckScopePop => CheckTurn BY DEF CheckScopePush, CheckScopePop, CheckTurn
<1>6. CheckBoth \/ Descend \/ Skip \/ Misplaced \/ End => CheckTurn BY DEF CheckBoth, CheckTurn
<1> QED BY <1>1, <1>2, <1>3, <1>4, <1>5, <1>6 DEF CheckStep

LEMMA TurnPlaces ==
  ASSUME WalkInv, Scoped, Placed(tasks), CheckTurn \/ ExecTurn
  PROVE  Placed(tasks')
<1>1. ASSUME NEW op, Called(op) PROVE Placed(tasks')
  <2>1. tasks # <<>> /\ Top.node # NULL /\ tasks' = Resumed BY <1>1 DEF Called, OnNode, Walking
  <2>2. Placed(Below) /\ Placed(Append(Below, Next1)) BY <2>1, TopPlaced
  <2> QED BY <2>1, <2>2 DEF Resumed, Next1
<1>2. ASSUME NEW op, NEW error, Raised(op, error) PROVE Placed(tasks')
  BY <1>2 DEF Raised
<1>3. ASSUME NEW c \in BOOLEAN, Decided(c, ~c) PROVE Placed(tasks')
  <2>1. /\ Walking /\ Top.node # NULL /\ OnNode("descisions") /\ Step.does = "descisions"
    BY <1>3, DecidedIs DEF OnNode
  <2>2. PICK t \in Tasks : /\ t.phase = 0 /\ tasks' = Append(Resumed, t)
                           /\ t.node \in {ast[Top.node].kids[2], ast[Top.node].kids[3]}
    BY <1>3, DecidedIs
  <2>3. Resumed = Append(Below, Next1) BY <2>1, PushingStays
  <2> QED BY <2>1, <2>2, <2>3, ArmsPlace
<1>4. CASE Decided(TRUE, TRUE)
  <2> DEFINE e == Task(ast[Top.node].kids[3], "EVAL")
             t == Task(ast[Top.node].kids[2], "EVAL")
  <2>1. /\ OnNode("descisions") /\ tasks' = Append(Append(Append(Below, Next1), e), t)
        /\ e \in Tasks /\ e.phase = 0 /\ e.node = ast[Top.node].kids[3]
        /\ t \in Tasks /\ t.node = ast[Top.node].kids[2]
    BY <1>4, BothArms
  <2> HIDE DEF e, t
  <2> QED BY <2>1, ArmsPlace
<1>5. CASE Descend BY <1>5, DescendPlaces
<1>6. CASE Skip
  <2>1. tasks # <<>> /\ tasks' = Below BY <1>6 DEF Skip, Walking
  <2> QED BY <2>1, TopPlaced
<1>7. CASE Misplaced \/ End BY <1>7 DEF Misplaced, End
<1> QED BY <1>1, <1>2, <1>3, <1>4, <1>5, <1>6, <1>7 DEF CheckTurn, ExecTurn

-----------------------------------------------------------------------------
(* The names of the scopes *)
LEMMA BehindNext ==
  ASSUME ast \in Trees, NEW n \in Nodes, NEW p \in Nat
  PROVE  Behind(n, p + 1) =
           Behind(n, p) \cup {NameOf(ast[n].kids[i]) :
                                i \in {i \in DOMAIN ast[n].kids : /\ ast[n].kind = "block" /\ i = p
                                                                  /\ ast[ast[n].kids[i]].kind = "define"}}
<1>1. DOMAIN ast[n].kids = 1 .. Len(ast[n].kids) BY TreeIs
<1>2. \A i \in DOMAIN ast[n].kids : i < p + 1 <=> i < p \/ i = p BY <1>1
<1> QED BY <1>2 DEF Behind

LEMMA NamesOfAppend ==
  ASSUME NEW s \in Seq(Tasks), NEW t \in Tasks
  PROVE  /\ Blocks(s) \subseteq 1 .. Len(s)
         /\ Entered(t) => Blocks(Append(s, t)) = Blocks(s) \cup {Len(s) + 1}
         /\ ~Entered(t) => Blocks(Append(s, t)) = Blocks(s)
         /\ \A k \in 1 .. Len(s) : Names(Append(s, t), k) = Behind(s[k].node, s[k].phase - 1)
         /\ Names(Append(s, t), Len(s) + 1) = Behind(t.node, t.phase)
<1> DEFINE all == Append(s, t)
           l   == Len(s)
<1>1. /\ l \in Nat /\ all[l + 1] = t /\ \A k \in 1 .. l : all[k] = s[k]
      /\ Len(all) = l + 1 /\ DOMAIN all = 1 .. l + 1 /\ DOMAIN s = 1 .. l
  BY AppendIs
<1> HIDE DEF all, l
<1>2. \A k : k \in 1 .. l + 1 <=> k \in 1 .. l \/ k = l + 1 BY <1>1
<1>3. \A k : k \in Blocks(all) <=> k \in Blocks(s) \/ (k = l + 1 /\ Entered(t))
  BY <1>1, <1>2 DEF Blocks
<1>4. \A k \in 1 .. l : k # l + 1 BY <1>1
<1>5. /\ \A k \in 1 .. l : Names(all, k) = Behind(s[k].node, s[k].phase - 1)
      /\ Names(all, l + 1) = Behind(t.node, t.phase)
  BY <1>1, <1>4 DEF Names
<1>6. Blocks(s) \subseteq 1 .. l BY <1>1 DEF Blocks
<1>7. /\ Entered(t) => Blocks(all) = Blocks(s) \cup {l + 1}
      /\ ~Entered(t) => Blocks(all) = Blocks(s)
  BY <1>3
<1> QED BY <1>5, <1>6, <1>7 DEF all, l

(* The same blocks, with the same names. *)
LEMMA NamedSame ==
  ASSUME NEW s, NEW s2, NEW sc, NEW sc2, Named(s, sc), SameNames(sc, sc2),
         Blocks(s2) = Blocks(s), \A k \in Blocks(s) : Names(s2, k) = Names(s, k)
  PROVE  Named(s2, sc2)
<1>1. PICK at \in [1 .. Len(sc) -> Blocks(s)] :
        /\ \A c, d \in 1 .. Len(sc) : c < d => at[c] < at[d]
        /\ \A k \in Blocks(s) : \E d \in 1 .. Len(sc) : k = at[d]
        /\ \A d \in 1 .. Len(sc) : DOMAIN sc[d] = Names(s, at[d])
  BY DEF Named
<1>2. Len(sc2) = Len(sc) /\ \A d \in 1 .. Len(sc) : DOMAIN sc2[d] = DOMAIN sc[d] BY DEF SameNames
<1>3. \A d \in 1 .. Len(sc) : DOMAIN sc2[d] = Names(s2, at[d]) BY <1>1, <1>2
<1> QED BY <1>1, <1>2, <1>3 DEF Named

(* The innermost block has one more name. *)
LEMMA NamedDefined ==
  ASSUME NEW s, NEW s2, NEW sc, NEW sc2, NEW name, NEW m,
         Named(s, sc), IsSequence(sc), Defined(sc, sc2, name),
         Blocks(s2) = Blocks(s), Blocks(s) \subseteq Nat,
         Blocks(s) # {} => m \in Blocks(s) /\ \A k \in Blocks(s) : k <= m,
         \A k \in Blocks(s) : Names(s2, k) = IF k = m THEN Names(s, k) \cup {name} ELSE Names(s, k)
  PROVE  Named(s2, sc2)
<1> DEFINE l == Len(sc)
<1>1. PICK at \in [1 .. l -> Blocks(s)] :
        /\ \A c, d \in 1 .. l : c < d => at[c] < at[d]
        /\ \A k \in Blocks(s) : \E d \in 1 .. l : k = at[d]
        /\ \A d \in 1 .. l : DOMAIN sc[d] = Names(s, at[d])
  BY DEF Named
<1>2. l \in Nat BY SequenceOps
<1>3. Len(sc2) = l /\ \A d \in 1 .. l : DOMAIN sc2[d] = IF d = l THEN DOMAIN sc[d] \cup {name} ELSE DOMAIN sc[d]
  BY DEF Defined
<1> HIDE DEF l
<1>4. ASSUME NEW d \in 1 .. l PROVE d = l <=> at[d] = m
  <2>1. l \in 1 .. l /\ at[d] \in Blocks(s) /\ at[l] \in Blocks(s) /\ d <= l BY <1>1, <1>2
  <2>2. m \in Blocks(s) /\ at[l] <= m BY <2>1
  <2>3. PICK c \in 1 .. l : m = at[c] BY <1>1, <2>2
  <2>4. c = l
    <3>1. c # l => c < l BY <1>2
    <3>2. c < l => at[c] < at[l] BY <1>1, <2>1
    <3> QED BY <2>1, <2>2, <2>3, <3>1, <3>2
  <2>5. d # l => at[d] < at[l] BY <1>1, <1>2, <2>1
  <2> QED BY <2>1, <2>3, <2>4, <2>5
<1>5. \A d \in 1 .. l : DOMAIN sc2[d] = Names(s2, at[d])
  <2> TAKE d \in 1 .. l
  <2>1. at[d] \in Blocks(s) BY <1>1
  <2> QED BY <1>1, <1>3, <1>4, <2>1
<1> QED BY <1>1, <1>3, <1>5 DEF Named

(* A block more, or less. *)
LEMMA NamedPush ==
  ASSUME NEW s, NEW s2, NEW sc, NEW l, Named(s, sc), IsSequence(sc),
         Blocks(s2) = Blocks(s) \cup {l}, \A k \in Blocks(s) : k < l /\ l # k,
         \A k \in Blocks(s) : Names(s2, k) = Names(s, k), Names(s2, l) = {}
  PROVE  Named(s2, Append(sc, <<>>))
<1> DEFINE e   == Len(sc)
           sc2 == Append(sc, <<>>)
<1>1. PICK at \in [1 .. e -> Blocks(s)] :
        /\ \A c, d \in 1 .. e : c < d => at[c] < at[d]
        /\ \A k \in Blocks(s) : \E d \in 1 .. e : k = at[d]
        /\ \A d \in 1 .. e : DOMAIN sc[d] = Names(s, at[d])
  BY DEF Named
<1>2. e \in Nat /\ Len(sc2) = e + 1 BY SequenceOps
<1>3. sc2[e + 1] = <<>> /\ \A d \in 1 .. e : sc2[d] = sc[d]
  <2>1. PICK S : sc \in Seq(S) BY DEF IsSequence
  <2>2. sc \in Seq(S \cup {<<>>}) BY <2>1
  <2> QED BY <2>2
<1>4. DOMAIN <<>> = {} OBVIOUS
<1> DEFINE more == [d \in 1 .. e + 1 |-> IF d = e + 1 THEN l ELSE at[d]]
<1> HIDE DEF e, sc2
<1>5. \A d : d \in 1 .. e + 1 <=> d \in 1 .. e \/ d = e + 1 BY <1>2
<1>6. \A d \in 1 .. e : d # e + 1 /\ d < e + 1 /\ ~(e + 1 < d) BY <1>2
<1>7. ~(e + 1 < e + 1) BY <1>2
<1>8. /\ more \in [1 .. e + 1 -> Blocks(s2)] /\ more[e + 1] = l
      /\ \A d \in 1 .. e : more[d] = at[d] /\ at[d] \in Blocks(s)
  BY <1>1, <1>5, <1>6
<1> HIDE DEF more
<1>9. \A c, d \in 1 .. e + 1 : c < d => more[c] < more[d] BY <1>1, <1>5, <1>6, <1>7, <1>8
<1>10. \A k \in Blocks(s2) : \E d \in 1 .. e + 1 : k = more[d] BY <1>1, <1>5, <1>8
<1>11. \A d \in 1 .. e + 1 : DOMAIN sc2[d] = Names(s2, more[d]) BY <1>1, <1>3, <1>4, <1>5, <1>8
<1>12. Named(s2, sc2) BY <1>2, <1>8, <1>9, <1>10, <1>11 DEF Named
<1> QED BY <1>12 DEF sc2

LEMMA NamedPop ==
  ASSUME NEW s, NEW s2, NEW sc, NEW l, Named(s, sc), IsSequence(sc),
         Blocks(s) = Blocks(s2) \cup {l}, \A k \in Blocks(s2) : k < l /\ l # k,
         Blocks(s) \subseteq Nat,
         \A k \in Blocks(s2) : Names(s2, k) = Names(s, k)
  PROVE  Named(s2, SubSeq(sc, 1, Len(sc) - 1))
<1> DEFINE e   == Len(sc)
           m   == e - 1
           sc2 == SubSeq(sc, 1, m)
<1>1. PICK at \in [1 .. e -> Blocks(s)] :
        /\ \A c, d \in 1 .. e : c < d => at[c] < at[d]
        /\ \A k \in Blocks(s) : \E d \in 1 .. e : k = at[d]
        /\ \A d \in 1 .. e : DOMAIN sc[d] = Names(s, at[d])
  BY DEF Named
<1>2. e \in Nat BY SequenceOps
<1>3. PICK z \in 1 .. e : l = at[z] BY <1>1
<1>4. m \in 0 .. e /\ m \in Nat /\ e = m + 1 BY <1>2, <1>3
<1>5. Len(sc2) = m
  <2> HIDE DEF m
  <2> QED BY <1>4, SequenceOps
<1>6. \A d \in 1 .. m : sc2[d] = sc[d]
  <2>1. PICK S : sc \in Seq(S) BY DEF IsSequence
  <2> HIDE DEF m
  <2> QED BY <1>4, <2>1
<1> HIDE DEF e, m, sc2
<1>7. \A d : d \in 1 .. e <=> d \in 1 .. m \/ d = e BY <1>4
<1>8. z = e
  <2>1. e \in 1 .. e /\ at[e] \in Blocks(s) /\ at[z] \in Blocks(s) BY <1>1, <1>7
  <2>2. z # e => z < e BY <1>2, <1>3
  <2>3. z < e => at[z] < at[e] BY <1>1, <1>3, <2>1
  <2>4. at[e] = l \/ at[e] < l BY <2>1
  <2>5. l \in Nat /\ at[e] \in Nat BY <2>1
  <2> QED BY <1>3, <2>2, <2>3, <2>4, <2>5
<1>9. ASSUME NEW d \in 1 .. m PROVE at[d] \in Blocks(s2)
  <2>1. d < e /\ d \in 1 .. e /\ e \in 1 .. e BY <1>4, <1>7
  <2>2. at[d] < l /\ at[d] \in Blocks(s) BY <1>1, <1>3, <1>8, <2>1
  <2>3. l \in Nat OBVIOUS
  <2>4. at[d] # l BY <2>2, <2>3
  <2> QED BY <2>2, <2>4
<1> DEFINE less == [d \in 1 .. m |-> at[d]]
<1>10. less \in [1 .. m -> Blocks(s2)] /\ \A d \in 1 .. m : less[d] = at[d] BY <1>9
<1> HIDE DEF less
<1>11. \A c, d \in 1 .. m : c < d => less[c] < less[d] BY <1>1, <1>7, <1>10
<1>12. ASSUME NEW k \in Blocks(s2) PROVE \E d \in 1 .. m : k = less[d]
  <2>1. PICK d \in 1 .. e : k = at[d] BY <1>1
  <2>2. d # e BY <1>3, <1>8, <2>1
  <2> QED BY <1>7, <1>10, <2>1, <2>2
<1>13. \A d \in 1 .. m : DOMAIN sc2[d] = Names(s2, less[d]) BY <1>1, <1>6, <1>7, <1>9, <1>10
<1>14. Named(s2, sc2) BY <1>5, <1>10, <1>11, <1>12, <1>13 DEF Named
<1> QED BY <1>14 DEF sc2, m, e

(* The names of what is below the task on top, once that is popped. *)
LEMMA NamesBelowTop ==
  ASSUME WalkInv, Scoped, tasks # <<>>, Placed(tasks), NEW k \in Blocks(Below)
  PROVE  /\ k \in 1 .. Len(Below) /\ k # Len(tasks) /\ k < Len(tasks)
         /\ Names(Below, k) =
              IF k = Len(Below) /\ Top.node # NULL /\ ast[Top.node].kind = "define"
              THEN Names(tasks, k) \cup {NameOf(Top.node)} ELSE Names(tasks, k)
<1> DEFINE p == Below[k]
<1>1. /\ Below \in Seq(Tasks) /\ Top \in Tasks /\ tasks = Append(Below, Top)
      /\ Len(tasks) \in Nat \ {0} /\ Len(Below) = Len(tasks) - 1
  BY TasksAre
<1>2. k \in 1 .. Len(Below) /\ Len(Below) \in Nat BY <1>1, NamesOfAppend
<1>3. k # Len(tasks) /\ k < Len(tasks) BY <1>1, <1>2
<1>4. Names(tasks, k) = Behind(p.node, p.phase - 1) BY <1>1, <1>2, NamesOfAppend
<1>5. CASE k # Len(Below)
  <2>1. Names(Below, k) = Behind(p.node, p.phase - 1) BY <1>5 DEF Names
  <2> QED BY <1>2, <1>3, <1>4, <1>5, <2>1
<1>6. CASE k = Len(Below)
  <2>1. Names(Below, k) = Behind(p.node, p.phase) BY <1>6 DEF Names
  <2>2. Entered(p) /\ Below # <<>> BY <1>2 DEF Blocks
  <2>3. Fits(p, Top) BY <1>6, <2>2, TopPlaced
  <2>4. p \in Tasks /\ p.phase \in Nat
    <3>1. p \in Tasks BY <1>1, <1>2
    <3> QED BY <3>1 DEF Tasks
  <2>5. p.node \in Nodes
    <3>1. InOrder(Below) BY FrontInOrder DEF WalkInv, Below, InOrder
    <3>2. p.node \in 0 .. Len(ast) /\ p.node # NULL BY <1>2, <2>2, <3>1 DEF InOrder, TaskOK, Entered
    <3>3. Len(ast) \in Nat BY KidsAre DEF WalkInv
    <3> QED BY <3>2, <3>3 DEF Nodes, NULL
  <2> DEFINE kids == ast[p.node].kids
             q    == p.phase - 1
  <2>6. q \in DOMAIN kids /\ Top.node = kids[q] /\ ast[p.node].kind = "block"
    BY <2>2, <2>3 DEF Fits, Entered
  <2>7. q \in Nat /\ p.phase = q + 1
    <3>1. p.phase > 0 BY <2>2 DEF Entered
    <3> QED BY <2>4, <3>1
  <2>8. kids[q] # NULL BY <2>5, <2>6, TreeIs DEF WalkInv
  <2> HIDE DEF q, p
  <2>9. Behind(p.node, q + 1) =
           Behind(p.node, q) \cup {NameOf(kids[i]) :
                                i \in {i \in DOMAIN kids : /\ ast[p.node].kind = "block" /\ i = q
                                                           /\ ast[kids[i]].kind = "define"}}
    BY <2>5, <2>7, BehindNext DEF WalkInv
  <2>10. Names(Below, k) = Names(tasks, k) \cup {NameOf(kids[i]) :
                                i \in {i \in DOMAIN kids : /\ ast[p.node].kind = "block" /\ i = q
                                                           /\ ast[kids[i]].kind = "define"}}
    BY <1>4, <2>1, <2>7, <2>9 DEF q
  <2>11. CASE ast[kids[q]].kind = "define"
    <3>1. Names(Below, k) = Names(tasks, k) \cup {NameOf(Top.node)} BY <2>6, <2>10, <2>11
    <3> QED BY <1>2, <1>3, <1>6, <2>6, <2>8, <2>11, <3>1
  <2>12. CASE ast[kids[q]].kind # "define"
    <3>1. Names(Below, k) = Names(tasks, k) BY <2>10, <2>12
    <3> QED BY <1>2, <1>3, <2>6, <2>12, <3>1
  <2> QED BY <2>11, <2>12
<1> QED BY <1>5, <1>6

(* A step that leaves the block on top, if there is one, where it was. *)
LEMMA NamedBelow ==
  ASSUME WalkInv, Scoped, tasks # <<>>, Placed(tasks), ~Entered(Top),
         Top.node # NULL => ast[Top.node].kind # "define",
         NEW sc, NEW sc2, Named(tasks, sc), SameNames(sc, sc2)
  PROVE  Named(Below, sc2)
<1>1. Below \in Seq(Tasks) /\ Top \in Tasks /\ tasks = Append(Below, Top) BY TasksAre
<1>2. Blocks(Below) = Blocks(tasks) BY <1>1, NamesOfAppend
<1>3. \A k \in Blocks(Below) : Names(Below, k) = Names(tasks, k) BY NamesBelowTop
<1> QED BY <1>2, <1>3, NamedSame

LEMMA NamedGoesOn ==
  ASSUME WalkInv, tasks # <<>>, NEW t \in Tasks, Entered(t) <=> Entered(Top),
         NEW new \in Seq(Tasks), new # <<>>, \A i \in 1 .. Len(new) : new[i].phase = 0,
         t.node = Top.node, t.phase = Top.phase + 1,
         NEW sc, NEW sc2, Named(tasks, sc), SameNames(sc, sc2)
  PROVE  Named(Append(Below, t) \o new, sc2)
<1> DEFINE s   == Append(Below, t)
           all == s \o new
           l   == Len(Below)
<1>1. Below \in Seq(Tasks) /\ Top \in Tasks /\ tasks = Append(Below, Top) BY TasksAre
<1>2. l \in Nat /\ s \in Seq(Tasks) /\ Len(s) = l + 1 BY <1>1
<1>3. Blocks(s) = Blocks(tasks) /\ Blocks(tasks) \subseteq 1 .. l + 1
  <2>1. Blocks(s) = Blocks(tasks)
    <3>1. Entered(t) => Blocks(s) = Blocks(Below) \cup {l + 1} BY <1>1, NamesOfAppend
    <3>2. ~Entered(t) => Blocks(s) = Blocks(Below) BY <1>1, NamesOfAppend
    <3>3. Entered(Top) => Blocks(tasks) = Blocks(Below) \cup {l + 1} BY <1>1, NamesOfAppend
    <3>4. ~Entered(Top) => Blocks(tasks) = Blocks(Below) BY <1>1, NamesOfAppend
    <3> HIDE DEF s, l
    <3>5. CASE Entered(t) BY <3>1, <3>3, <3>5
    <3>6. CASE ~Entered(t) BY <3>2, <3>4, <3>6
    <3> QED BY <3>5, <3>6
  <2>2. Blocks(s) \subseteq 1 .. Len(s) BY <1>2, NamesOfAppend
  <2> QED BY <1>2, <2>1, <2>2
<1>4. /\ all \in Seq(Tasks) /\ Len(all) = l + 1 + Len(new) /\ Len(new) \in Nat
      /\ \A k \in 1 .. l + 1 : all[k] = s[k] /\ k # Len(all)
      /\ \A k \in l + 2 .. Len(all) : all[k].phase = 0
  <2>0. Len(new) \in Nat /\ Len(new) > 0
    <3>1. new \in Seq(Tasks) => Len(new) \in Nat /\ (Len(new) = 0 => new = <<>>) OBVIOUS
    <3> QED BY <3>1
  <2>1. /\ all \in Seq(Tasks) /\ Len(all) = l + 1 + Len(new) /\ Len(new) \in Nat
        /\ \A k \in 1 .. l + 1 : all[k] = s[k] /\ k # Len(all)
    <3> HIDE DEF s, l
    <3>1. all \in Seq(Tasks) /\ Len(all) = l + 1 + Len(new) BY <1>2
    <3>2. \A k \in 1 .. l + 1 : all[k] = s[k] BY <1>2
    <3>3. \A k \in 1 .. l + 1 : k # Len(all) BY <1>2, <2>0, <3>1
    <3> QED BY <2>0, <3>1, <3>2, <3>3
  <2> HIDE DEF s
  <2>2. ASSUME NEW k \in l + 2 .. Len(all) PROVE all[k].phase = 0
    <3>1. k - (l + 1) \in 1 .. Len(new) /\ k \in Nat BY <1>2, <2>1
    <3>2. all[k] = new[k - (l + 1)] BY <1>2, <2>1, <3>1
    <3> QED BY <3>1, <3>2
  <2> QED BY <2>1, <2>2
<1>5. Blocks(all) = Blocks(tasks)
  <2> HIDE DEF all, s
  <2>1. \A k : k \in 1 .. Len(all) <=> k \in 1 .. l + 1 \/ k \in l + 2 .. Len(all) BY <1>2, <1>4
  <2>2. DOMAIN all = 1 .. Len(all) /\ DOMAIN s = 1 .. l + 1 BY <1>2, <1>4
  <2>3. \A k \in l + 2 .. Len(all) : ~Entered(all[k]) BY <1>4 DEF Entered
  <2>4. \A k : k \in Blocks(all) <=> k \in Blocks(s) BY <1>4, <2>1, <2>2, <2>3 DEF Blocks
  <2> QED BY <1>3, <2>4
<1>6. ASSUME NEW k \in Blocks(tasks) PROVE Names(all, k) = Names(tasks, k)
  <2>1. k \in 1 .. l + 1 BY <1>3
  <2>2. Names(all, k) = Behind(s[k].node, s[k].phase - 1)
    <3> HIDE DEF all, s
    <3> QED BY <1>4, <2>1 DEF Names
  <2>3. CASE k = l + 1
    <3>1. s[k] = t BY <1>1, <2>3
    <3>2. Names(tasks, k) = Behind(Top.node, Top.phase) BY <1>1, <2>3, NamesOfAppend
    <3>3. t.phase - 1 = Top.phase BY <1>1 DEF Tasks
    <3> QED BY <2>2, <3>1, <3>2, <3>3
  <2>4. CASE k # l + 1
    <3>1. k \in 1 .. l BY <1>2, <2>1, <2>4
    <3>2. s[k] = Below[k] BY <1>1, <3>1
    <3>3. Names(tasks, k) = Behind(Below[k].node, Below[k].phase - 1) BY <1>1, <3>1, NamesOfAppend
    <3> QED BY <2>2, <3>2, <3>3
  <2> QED BY <2>3, <2>4
<1> HIDE DEF all
<1>7. Named(all, sc2) BY <1>5, <1>6, NamedSame
<1> QED BY <1>7 DEF all

(* What the checker, and the machine, do to the names of their scopes.     *)
LEMMA ExceptIs ==
  ASSUME NEW sc, IsSequence(sc), NEW i, NEW e
  PROVE  /\ Len([sc EXCEPT ![i] = e]) = Len(sc)
         /\ \A d \in 1 .. Len(sc) : [sc EXCEPT ![i] = e][d] = IF d = i THEN e ELSE sc[d]
<1>1. PICK S : sc \in Seq(S) BY DEF IsSequence
<1>2. DOMAIN sc = 1 .. Len(sc) BY <1>1
<1>3. Len([sc EXCEPT ![i] = e]) = Len(sc) BY SequenceExcept
<1>4. \A d \in 1 .. Len(sc) : [sc EXCEPT ![i] = e][d] = IF d = i THEN e ELSE sc[d] BY <1>2
<1> QED BY <1>3, <1>4

LEMMA CheckScopes ==
  ASSUME IsSequence(tscopes), CheckStep
  PROVE  ScopeTurn(tscopes, tscopes')
<1> DEFINE Same == tscopes' = tscopes
           Others == Operations \ {"scope_push_new", "scope_pop", "apply_define"}
<1>1. Same => SameNames(tscopes, tscopes') BY DEF SameNames
<1>2. \A op \in Others : Called(op) /\ Same => ScopeTurn(tscopes, tscopes')
  BY <1>1 DEF ScopeTurn
<1>3. \A op, error : Raised(op, error) /\ Same => ScopeTurn(tscopes, tscopes')
  BY <1>1 DEF ScopeTurn
<1>4. Same /\ (Decided(TRUE, TRUE) \/ Descend \/ Skip \/ Misplaced \/ End)
        => ScopeTurn(tscopes, tscopes')
  BY <1>1 DEF ScopeTurn
<1>5. /\ "value_of" \in Others /\ "apply_identifier" \in Others /\ "apply_identifier_ref" \in Others
      /\ "apply_expr" \in Others /\ "apply_uexpr" \in Others /\ "apply_if_cond" \in Others
      /\ "apply_if_post" \in Others /\ "apply_ifexpr_post" \in Others
      /\ "apply_assign" \in Others /\ "apply_echo" \in Others
  BY DEF Operations
<1> DEFINE C(op) == Called(op) /\ Same
           R(op) == \E error : Raised(op, error) /\ Same
<1>6. CheckValue => C("value_of") BY DEF CheckValue
<1>7. CheckIdentifier => \E op \in {"apply_identifier", "apply_identifier_ref"} : C(op) \/ R(op)
  BY DEF CheckIdentifier, checker
<1>8. CheckExpr => C("apply_expr") \/ R("apply_expr") BY DEF CheckExpr, checker
<1>9. CheckUExpr => C("apply_uexpr") \/ R("apply_uexpr") BY DEF CheckUExpr, checker
<1>10. CheckIfCond => C("apply_if_cond") \/ R("apply_if_cond") BY DEF CheckIfCond, checker
<1>11. CheckIfPost => C("apply_if_post") BY DEF CheckIfPost
<1>12. CheckIfExprPost => C("apply_ifexpr_post") \/ R("apply_ifexpr_post")
  BY DEF CheckIfExprPost, checker
<1>13. CheckAssign => C("apply_assign") BY DEF CheckAssign
<1>14. CheckEcho => C("apply_echo") BY DEF CheckEcho, checker
<1>15. CheckBoth => Same /\ Decided(TRUE, TRUE) BY DEF CheckBoth, checker
<1>16. (Descend \/ Skip \/ Misplaced \/ End) /\ UNCHANGED checker
         => Same /\ (Descend \/ Skip \/ Misplaced \/ End)
  BY DEF checker
<1>17. CheckScopePush \/ CheckScopePop => ScopeTurn(tscopes, tscopes')
  BY DEF CheckScopePush, CheckScopePop, ScopeTurn
<1>18. CheckDefine => ScopeTurn(tscopes, tscopes')
  <2> SUFFICES ASSUME CheckDefine PROVE ScopeTurn(tscopes, tscopes') OBVIOUS
  <2> DEFINE name == NameOf(Top.node)
             e(t) == ScopePut(tscopes[Len(tscopes)], name, t)
  <2>1. \/ R("apply_define")
        \/ /\ Called("apply_define")
           /\ \E t : tscopes' = [tscopes EXCEPT ![Len(tscopes)] = e(t)]
    BY Zenon DEF CheckDefine, checker, NameOf, Kid
  <2>2. ASSUME Called("apply_define"), NEW t,
               tscopes' = [tscopes EXCEPT ![Len(tscopes)] = e(t)]
        PROVE  ScopeTurn(tscopes, tscopes')
    <3>1. DOMAIN e(t) = DOMAIN tscopes[Len(tscopes)] \cup {name} BY DEF ScopePut
    <3> HIDE DEF e
    <3>2. /\ Len([tscopes EXCEPT ![Len(tscopes)] = e(t)]) = Len(tscopes)
          /\ \A d \in 1 .. Len(tscopes) :
               [tscopes EXCEPT ![Len(tscopes)] = e(t)][d]
                 = IF d = Len(tscopes) THEN e(t) ELSE tscopes[d]
      BY ExceptIs
    <3>3. /\ Len(tscopes') = Len(tscopes)
          /\ \A d \in 1 .. Len(tscopes) :
               tscopes'[d] = IF d = Len(tscopes) THEN e(t) ELSE tscopes[d]
      BY <2>2, <3>2, Zenon
    <3>4. Defined(tscopes, tscopes', name) BY <3>1, <3>3 DEF Defined
    <3> QED BY <2>2, <3>4 DEF ScopeTurn
  <2> QED BY <1>3, <2>1, <2>2
<1> HIDE DEF Same, Others
<1> QED BY <1>2, <1>3, <1>4, <1>5, <1>6, <1>7, <1>8, <1>9, <1>10, <1>11, <1>12, <1>13, <1>14,
           <1>15, <1>16, <1>17, <1>18 DEF CheckStep

LEMMA ExecScopes ==
  ASSUME IsSequence(scopes), ExecStep
  PROVE  ScopeTurn(scopes, scopes')
<1> DEFINE Same == scopes' = scopes
           Others == Operations \ {"scope_push_new", "scope_pop", "apply_define"}
           C(op) == Called(op) /\ Same
           R(op) == \E error : Raised(op, error) /\ Same
<1>1. Same => SameNames(scopes, scopes') BY DEF SameNames
<1>2. \A op \in Others : Called(op) /\ SameNames(scopes, scopes') => ScopeTurn(scopes, scopes')
  BY DEF ScopeTurn
<1>3. \A op, error : Raised(op, error) /\ Same => ScopeTurn(scopes, scopes')
  BY <1>1 DEF ScopeTurn
<1>4. Same /\ (\/ \E c \in BOOLEAN : Decided(c, ~c)
               \/ Descend \/ Skip \/ Misplaced \/ End) => ScopeTurn(scopes, scopes')
  BY <1>1 DEF ScopeTurn
<1>5. /\ "value_of" \in Others /\ "apply_identifier" \in Others /\ "apply_identifier_ref" \in Others
      /\ "apply_expr" \in Others /\ "apply_uexpr" \in Others /\ "apply_if_cond" \in Others
      /\ "apply_if_post" \in Others /\ "apply_ifexpr_post" \in Others
      /\ "apply_assign" \in Others /\ "apply_echo" \in Others
  BY DEF Operations
<1>6. \A op, v : Pushed(op, v) => C(op) \/ R(op) BY DEF Pushed, machine
<1>7. ValueOf => C("value_of") \/ R("value_of") BY <1>6 DEF ValueOf, machine
<1>8. \A op, message : Unknown(op, message) => R(op) BY DEF Unknown, machine
<1>9. ApplyIdentifier => C("apply_identifier") \/ R("apply_identifier")
  BY <1>6, <1>8 DEF ApplyIdentifier
<1>10. ApplyIdentifierRef => C("apply_identifier_ref") \/ R("apply_identifier_ref")
  BY <1>6, <1>8 DEF ApplyIdentifierRef
<1>11. ApplyExpr => C("apply_expr") \/ R("apply_expr") BY <1>6 DEF ApplyExpr, machine
<1>12. ApplyUExpr => C("apply_uexpr") \/ R("apply_uexpr") BY <1>6 DEF ApplyUExpr
<1>13. ApplyIfCond => C("apply_if_cond") \/ R("apply_if_cond") BY <1>6 DEF ApplyIfCond
<1>14. Descide => Same /\ \E c \in BOOLEAN : Decided(c, ~c)
  <2> SUFFICES ASSUME Descide PROVE Same /\ \E c \in BOOLEAN : Decided(c, ~c) OBVIOUS
  <2>1. (Last1 # 0) \in BOOLEAN /\ (Last1 = 0) = ~(Last1 # 0) OBVIOUS
  <2>2. Decided(Last1 # 0, Last1 = 0) /\ Same BY DEF Descide
  <2>3. Decided(Last1 # 0, ~(Last1 # 0)) BY <2>1, <2>2
  <2> QED BY <2>1, <2>2, <2>3
<1>15. IfPost => C("apply_if_post") \/ C("apply_ifexpr_post") BY DEF IfPost, machine
<1>16. ApplyEcho => C("apply_echo") BY DEF ApplyEcho
<1>17. Underflow => \E op : R(op) BY DEF Underflow, machine
<1>18. (Descend \/ Skip \/ Misplaced \/ End) /\ UNCHANGED machine
         => Same /\ (Descend \/ Skip \/ Misplaced \/ End)
  BY DEF machine
<1>19. ScopePushNew \/ ScopePop => ScopeTurn(scopes, scopes')
  BY DEF ScopePushNew, ScopePop, ScopeTurn
<1>20. ApplyAssign => ScopeTurn(scopes, scopes')
  <2> SUFFICES ASSUME ApplyAssign PROVE ScopeTurn(scopes, scopes') OBVIOUS
  <2> DEFINE i == Last1[1]
             e == [scopes[i] EXCEPT ![Last1[2]] = Last2]
  <2>1. Called("apply_assign") /\ scopes' = [scopes EXCEPT ![i] = e] BY DEF ApplyAssign
  <2>2. DOMAIN e = DOMAIN scopes[i] OBVIOUS
  <2> HIDE DEF e, i
  <2>3. /\ Len([scopes EXCEPT ![i] = e]) = Len(scopes)
        /\ \A d \in 1 .. Len(scopes) :
             [scopes EXCEPT ![i] = e][d] = IF d = i THEN e ELSE scopes[d]
    BY ExceptIs
  <2>4. /\ Len(scopes') = Len(scopes)
        /\ \A d \in 1 .. Len(scopes) : scopes'[d] = IF d = i THEN e ELSE scopes[d]
    BY <2>1, <2>3, Zenon
  <2>5. SameNames(scopes, scopes') BY <2>2, <2>4 DEF SameNames
  <2> QED BY <1>2, <1>5, <2>1, <2>5
<1>21. ApplyDefine => ScopeTurn(scopes, scopes')
  <2> SUFFICES ASSUME ApplyDefine PROVE ScopeTurn(scopes, scopes') OBVIOUS
  <2> DEFINE name == NameOf(Top.node)
             e    == ScopeAdd(scopes[Len(scopes)], name, Last1)
  <2>1. \/ R("apply_define")
        \/ Called("apply_define") /\ scopes' = [scopes EXCEPT ![Len(scopes)] = e]
    BY Zenon DEF ApplyDefine, machine, NameOf
  <2>2. DOMAIN e = DOMAIN scopes[Len(scopes)] \cup {name} BY DEF ScopeAdd
  <2> HIDE DEF e
  <2>3. ASSUME Called("apply_define"), scopes' = [scopes EXCEPT ![Len(scopes)] = e]
        PROVE  ScopeTurn(scopes, scopes')
    <3>1. /\ Len([scopes EXCEPT ![Len(scopes)] = e]) = Len(scopes)
          /\ \A d \in 1 .. Len(scopes) :
               [scopes EXCEPT ![Len(scopes)] = e][d] = IF d = Len(scopes) THEN e ELSE scopes[d]
      BY ExceptIs
    <3>2. /\ Len(scopes') = Len(scopes)
          /\ \A d \in 1 .. Len(scopes) : scopes'[d] = IF d = Len(scopes) THEN e ELSE scopes[d]
      BY <2>3, <3>1, Zenon
    <3>3. Defined(scopes, scopes', name) BY <2>2, <3>2 DEF Defined
    <3> QED BY <2>3, <3>3 DEF ScopeTurn
  <2> QED BY <1>3, <2>1, <2>3
<1>22. \A op \in Others : C(op) \/ R(op) => ScopeTurn(scopes, scopes') BY <1>1, <1>2, <1>3
<1>23. \A op : R(op) => ScopeTurn(scopes, scopes') BY <1>3
<1> HIDE DEF Same, Others, C, R
<1>24. CASE ValueOf \/ ApplyIdentifier \/ ApplyIdentifierRef \/ ApplyExpr \/ ApplyUExpr \/ ApplyIfCond
  BY <1>5, <1>7, <1>9, <1>10, <1>11, <1>12, <1>13, <1>22, <1>24
<1>25. CASE IfPost \/ ApplyEcho \/ Underflow BY <1>5, <1>15, <1>16, <1>17, <1>22, <1>23, <1>25
<1>26. CASE Descide \/ ((Descend \/ Skip \/ Misplaced \/ End) /\ UNCHANGED machine)
  BY <1>4, <1>14, <1>18, <1>26
<1> QED BY <1>19, <1>20, <1>21, <1>24, <1>25, <1>26 DEF ExecStep

(* The scopes have the names of the blocks in progress, after every step. *)
LEMMA CalledNames ==
  ASSUME WalkInv, Scoped, Placed(tasks), NEW sc, NEW sc2, Named(tasks, sc), IsSequence(sc)
  PROVE  /\ Called("scope_push_new") /\ sc2 = Append(sc, <<>>) => Named(tasks', sc2)
         /\ Called("scope_pop") /\ sc2 = SubSeq(sc, 1, Len(sc) - 1) => Named(tasks', sc2)
         /\ Called("apply_define") /\ Defined(sc, sc2, NameOf(Top.node)) => Named(tasks', sc2)
         /\ \A op \in Operations \ {"scope_push_new", "scope_pop", "apply_define"} :
              Called(op) /\ SameNames(sc, sc2) => Named(tasks', sc2)
<1> DEFINE kind == ast[Top.node].kind
           l    == Len(tasks)
<1>1. ASSUME NEW op \in Operations, Called(op)
      PROVE  /\ tasks # <<>> /\ Top.node # NULL /\ OnNode(op) /\ Walking /\ Step.does = op
             /\ IsLast => tasks' = Below
             /\ ~IsLast => tasks' = Append(Below, Next1)
             /\ Below \in Seq(Tasks) /\ Top \in Tasks /\ tasks = Append(Below, Top)
             /\ l \in Nat \ {0} /\ l = Len(Below) + 1 /\ Len(Below) \in Nat
             /\ Next1 \in Tasks /\ Next1.node = Top.node /\ Next1.phase = Top.phase + 1
             /\ StepAt(Top) /\ Step = Steps(Top)[Top.phase + 1]
             /\ Blocks(Below) \subseteq 1 .. Len(Below) /\ Top.node \in Nodes /\ Top.phase \in Nat
  <2>1. /\ Walking /\ tasks # <<>> /\ Top.node # NULL /\ OnNode(op) /\ Step.does = op
        /\ tasks' = Resumed
    BY <1>1 DEF Called, OnNode, Walking
  <2>2. /\ Below \in Seq(Tasks) /\ Top \in Tasks /\ tasks = Append(Below, Top)
        /\ l \in Nat \ {0} /\ Len(Below) = l - 1
    BY <2>1, TasksAre
  <2>3. /\ StepAt(Top) /\ Step = Steps(Top)[Top.phase + 1] /\ Top.node \in Nodes /\ Top.phase \in Nat
        /\ Next1 \in Tasks /\ Next1.node = Top.node /\ Next1.phase = Top.phase + 1
    BY <2>1, TopIs DEF Next1, Nodes
  <2>4. l = Len(Below) + 1 /\ Len(Below) \in Nat BY <2>2
  <2>5. Blocks(Below) \subseteq 1 .. Len(Below) BY <2>2, NamesOfAppend
  <2> QED BY <2>1, <2>2, <2>3, <2>4, <2>5 DEF Resumed, Next1
<1>2. ASSUME Called("scope_push_new"), sc2 = Append(sc, <<>>) PROVE Named(tasks', sc2)
  <2>0. "scope_push_new" \in Operations BY DEF Operations
  <2>1. kind = "block" /\ Top.phase = 0 /\ ~IsLast
    <3>1. StepAt(Top) /\ Step.does = "scope_push_new" /\ Step = Steps(Top)[Top.phase + 1]
      BY <1>1, <1>2, <2>0
    <3> DEFINE size == Len(Steps(Top))
    <3>2. kind = "block" /\ Top.phase = 0 /\ size \in Nat \ {0, 1}
      BY <3>1 DEF StepAt, Push, Call
    <3> HIDE DEF size
    <3>3. Top.phase + 1 # size BY <3>2
    <3> QED BY <3>2, <3>3 DEF IsLast, size
  <2>2. /\ tasks' = Append(Below, Next1) /\ Below \in Seq(Tasks) /\ Next1 \in Tasks
        /\ tasks = Append(Below, Top) /\ Top \in Tasks /\ l = Len(Below) + 1 /\ Len(Below) \in Nat
        /\ Next1.phase = 1 /\ Next1.node = Top.node /\ Top.node # NULL /\ Top.node \in Nodes
    BY <1>1, <1>2, <2>0, <2>1
  <2>3. Entered(Next1) /\ ~Entered(Top) BY <2>1, <2>2 DEF Entered
  <2>4. Blocks(Append(Below, Next1)) = Blocks(Below) \cup {l} BY <2>2, <2>3, NamesOfAppend
  <2>5. Blocks(tasks) = Blocks(Below) BY <2>2, <2>3, NamesOfAppend
  <2>6. \A k \in Blocks(Below) : k \in 1 .. Len(Below) /\ k < l /\ l # k
    <3>1. Blocks(Below) \subseteq 1 .. Len(Below) BY <2>2, NamesOfAppend
    <3> QED BY <2>2, <3>1
  <2>7. \A k \in Blocks(Below) : Names(Append(Below, Next1), k) = Names(tasks, k)
    <3>1. \A k \in 1 .. Len(Below) :
            Names(Append(Below, Next1), k) = Behind(Below[k].node, Below[k].phase - 1)
      BY <2>2, NamesOfAppend
    <3>2. \A k \in 1 .. Len(Below) :
            Names(Append(Below, Top), k) = Behind(Below[k].node, Below[k].phase - 1)
      BY <2>2, NamesOfAppend
    <3> QED BY <2>2, <2>6, <3>1, <3>2
  <2>8. Names(Append(Below, Next1), l) = {}
    <3>1. Names(Append(Below, Next1), l) = Behind(Top.node, 1) BY <2>2, NamesOfAppend
    <3>2. \A i \in DOMAIN ast[Top.node].kids : ~(i < 1)
      <4>1. DOMAIN ast[Top.node].kids = 1 .. Len(ast[Top.node].kids) BY <2>2, TreeIs DEF WalkInv
      <4> QED BY <4>1
    <3>3. Behind(Top.node, 1) = {} BY <3>2 DEF Behind
    <3> QED BY <3>1, <3>3
  <2> DEFINE s2 == Append(Below, Next1)
  <2> HIDE DEF s2, l
  <2>9. Named(s2, Append(sc, <<>>)) BY <2>4, <2>5, <2>6, <2>7, <2>8, NamedPush DEF s2
  <2> QED BY <1>2, <2>2, <2>9 DEF s2
<1>3. ASSUME Called("scope_pop"), sc2 = SubSeq(sc, 1, Len(sc) - 1) PROVE Named(tasks', sc2)
  <2>0. "scope_pop" \in Operations BY DEF Operations
  <2>1. kind = "block" /\ IsLast /\ Top.phase > 0
    <3>1. /\ StepAt(Top) /\ Step.does = "scope_pop" /\ Step = Steps(Top)[Top.phase + 1]
          /\ OnNode("scope_pop")
      BY <1>1, <1>3, <2>0
    <3>2. IsLast BY <3>1, ComingIs
    <3> DEFINE size == Len(Steps(Top))
    <3>3. kind = "block" /\ Top.phase = size - 1 /\ size \in Nat \ {0, 1}
      BY <3>1 DEF StepAt, Push, Call
    <3> HIDE DEF size
    <3> QED BY <3>2, <3>3
  <2>2. /\ tasks' = Below /\ Below \in Seq(Tasks) /\ tasks # <<>>
        /\ tasks = Append(Below, Top) /\ Top \in Tasks /\ l = Len(Below) + 1 /\ Len(Below) \in Nat
        /\ Top.node # NULL
    BY <1>1, <1>3, <2>0, <2>1
  <2>3. Entered(Top) BY <2>1, <2>2 DEF Entered
  <2>4. Blocks(tasks) = Blocks(Below) \cup {l} BY <2>2, <2>3, NamesOfAppend
  <2>5. Blocks(tasks) \subseteq Nat
    <3>1. Blocks(Below) \subseteq 1 .. Len(Below) BY <2>2, NamesOfAppend
    <3> QED BY <2>2, <2>4, <3>1
  <2>6. \A k \in Blocks(Below) : k < l /\ l # k BY <2>2, NamesBelowTop
  <2>7. \A k \in Blocks(Below) : Names(Below, k) = Names(tasks, k)
    <3>1. ~(Top.node # NULL /\ kind = "define") BY <2>1
    <3> QED BY <2>2, <3>1, NamesBelowTop
  <2> HIDE DEF l
  <2>8. Named(Below, SubSeq(sc, 1, Len(sc) - 1)) BY <2>4, <2>5, <2>6, <2>7, NamedPop
  <2> QED BY <1>3, <2>2, <2>8
<1>4. ASSUME Called("apply_define"), Defined(sc, sc2, NameOf(Top.node)) PROVE Named(tasks', sc2)
  <2>0. "apply_define" \in Operations BY DEF Operations
  <2>1. IsLast /\ kind = "define"
    <3>1. OnNode("apply_define") BY <1>1, <1>4, <2>0
    <3>2. IsLast BY <3>1, ComingIs
    <3> QED BY <2>0, <3>1, <3>2, ComingIs
  <2>2. /\ tasks' = Below /\ Below \in Seq(Tasks) /\ tasks # <<>>
        /\ tasks = Append(Below, Top) /\ Top \in Tasks /\ l = Len(Below) + 1 /\ Len(Below) \in Nat
        /\ Top.node # NULL /\ Blocks(Below) \subseteq 1 .. Len(Below)
    BY <1>1, <1>4, <2>0, <2>1
  <2>3. ~Entered(Top) BY <2>1 DEF Entered
  <2>4. Blocks(Below) = Blocks(tasks) BY <2>2, <2>3, NamesOfAppend
  <2> DEFINE m == Len(Below)
  <2>5. Blocks(tasks) # {} => m \in Blocks(tasks)
    <3>1. Blocks(tasks) # {} => m \in 1 .. m /\ Below # <<>> BY <2>2, <2>4
    <3>2. Below # <<>> => Fits(Below[m], Top) BY <2>2, TopPlaced
    <3>3. Fits(Below[m], Top) => Entered(Below[m]) BY <2>1, <2>2 DEF Fits
    <3>4. DOMAIN Below = 1 .. m BY <2>2
    <3>5. Entered(Below[m]) /\ m \in 1 .. m => m \in Blocks(Below) BY <3>4 DEF Blocks
    <3> QED BY <2>4, <3>1, <3>2, <3>3, <3>5
  <2>6. \A k \in Blocks(tasks) : k <= m BY <2>2, <2>4
  <2>7. \A k \in Blocks(tasks) :
          Names(Below, k) = IF k = m THEN Names(tasks, k) \cup {NameOf(Top.node)} ELSE Names(tasks, k)
    BY <2>1, <2>2, <2>4, NamesBelowTop
  <2>8. Blocks(tasks) \subseteq Nat BY <2>2, <2>4
  <2> HIDE DEF m
  <2>9. Named(Below, sc2) BY <1>4, <2>4, <2>5, <2>6, <2>7, <2>8, NamedDefined
  <2> QED BY <2>2, <2>9
<1>5. ASSUME NEW op \in Operations \ {"scope_push_new", "scope_pop", "apply_define"},
             Called(op), SameNames(sc, sc2)
      PROVE  Named(tasks', sc2)
  <2>0. op \in Operations OBVIOUS
  <2>1. /\ tasks # <<>> /\ Top.node # NULL /\ OnNode(op) /\ Step.does = op
        /\ IsLast => tasks' = Below
        /\ ~IsLast => tasks' = Append(Below, Next1)
        /\ Below \in Seq(Tasks) /\ tasks = Append(Below, Top) /\ Top \in Tasks /\ Next1 \in Tasks
        /\ Next1.node = Top.node /\ StepAt(Top) /\ Step = Steps(Top)[Top.phase + 1]
    BY <1>1, <1>5, <2>0
  <2>2. CASE IsLast
    <3>1. kind # "define" /\ kind # "block" BY <1>5, <2>0, <2>1, <2>2, ComingIs
    <3>2. ~Entered(Top) BY <3>1 DEF Entered
    <3>3. Named(Below, sc2) BY <1>5, <2>1, <3>1, <3>2, NamedBelow
    <3> QED BY <2>1, <2>2, <3>3
  <2>3. CASE ~IsLast
    <3>1. op = "apply_if_cond" BY <1>5, <2>0, <2>1, <2>3, ComingIs
    <3>2. kind # "block"
      <4>1. Steps(Top)[Top.phase + 1].does = "apply_if_cond" BY <2>1, <3>1
      <4> QED BY <2>1, <4>1 DEF StepAt, Push, Call
    <3>3. ~Entered(Top) /\ ~Entered(Next1) BY <2>1, <3>2 DEF Entered
    <3>4. Blocks(Below) = Blocks(tasks) /\ Blocks(Append(Below, Next1)) = Blocks(tasks)
          /\ Blocks(tasks) \subseteq 1 .. Len(Below)
      BY <2>1, <3>3, NamesOfAppend
    <3>5. \A k \in 1 .. Len(Below) :
            Names(Append(Below, Next1), k) = Behind(Below[k].node, Below[k].phase - 1)
      BY <2>1, NamesOfAppend
    <3>6. \A k \in 1 .. Len(Below) :
            Names(Append(Below, Top), k) = Behind(Below[k].node, Below[k].phase - 1)
      BY <2>1, NamesOfAppend
    <3>7. \A k \in Blocks(tasks) : Names(Append(Below, Next1), k) = Names(tasks, k)
      BY <2>1, <3>4, <3>5, <3>6
    <3> DEFINE s2 == Append(Below, Next1)
    <3> HIDE DEF s2
    <3>8. Named(s2, sc2) BY <1>5, <3>4, <3>7, NamedSame DEF s2
    <3> QED BY <2>1, <2>3, <3>8 DEF s2
  <2> QED BY <2>2, <2>3
<1> QED BY <1>2, <1>3, <1>4, <1>5

LEMMA TwoMore ==
  ASSUME NEW s \in Seq(Tasks), NEW e \in Tasks, NEW t \in Tasks
  PROVE  s \o (<<e>> \o <<t>>) = Append(Append(s, e), t)
OBVIOUS

LEMMA TurnNames ==
  ASSUME WalkInv, Scoped, Placed(tasks), NEW sc, NEW sc2, Named(tasks, sc), IsSequence(sc),
         ScopeTurn(sc, sc2)
  PROVE  Named(tasks', sc2)
<1>1. CASE Called("scope_push_new") /\ sc2 = Append(sc, <<>>) BY <1>1, CalledNames
<1>2. CASE Called("scope_pop") /\ sc2 = SubSeq(sc, 1, Len(sc) - 1) BY <1>2, CalledNames
<1>3. CASE Called("apply_define") /\ Defined(sc, sc2, NameOf(Top.node)) BY <1>3, CalledNames
<1>4. ASSUME SameNames(sc, sc2),
             NEW op \in Operations \ {"scope_push_new", "scope_pop", "apply_define"}, Called(op)
      PROVE  Named(tasks', sc2)
  BY <1>4, CalledNames
<1>5. ASSUME SameNames(sc, sc2), tasks' = tasks PROVE Named(tasks', sc2)
  <2>1. Named(tasks, sc2) BY <1>5, NamedSame
  <2> QED BY <1>5, <2>1
<1>6. (\E op, error : Raised(op, error)) \/ Misplaced \/ End => tasks' = tasks
  BY DEF Raised, Misplaced, End
<1>7. ASSUME SameNames(sc, sc2), Skip PROVE Named(tasks', sc2)
  <2>1. tasks # <<>> /\ Top.node = NULL /\ tasks' = Below BY <1>7 DEF Skip, Walking
  <2>2. ~Entered(Top) BY <2>1 DEF Entered
  <2>3. Named(Below, sc2) BY <1>7, <2>1, <2>2, NamedBelow
  <2> QED BY <2>1, <2>3
<1>8. ASSUME SameNames(sc, sc2), Walking, Top.node # NULL, OnNode("push") \/ OnNode("descisions"),
             NEW new \in Seq(Tasks), new # <<>>, \A i \in 1 .. Len(new) : new[i].phase = 0,
             tasks' = Append(Below, Next1) \o new
      PROVE  Named(tasks', sc2)
  <2>1. tasks # <<>> BY <1>8 DEF Walking
  <2>2. /\ Next1 \in Tasks /\ Next1.node = Top.node /\ Next1.phase = Top.phase + 1 /\ Top.phase \in Nat
        /\ StepAt(Top) /\ Step = Steps(Top)[Top.phase + 1] /\ Step.does \in {"push", "descisions"}
    BY <1>8, TopIs DEF Next1, OnNode
  <2>3. ast[Top.node].kind = "block" => Top.phase > 0
    <3>1. Steps(Top)[Top.phase + 1].does \in {"push", "descisions"} BY <2>2
    <3> DEFINE size == Len(Steps(Top))
    <3>2. ast[Top.node].kind = "block" => Top.phase \in 1 .. size - 2
      BY <2>2, <3>1 DEF StepAt, Push, Call
    <3>3. \A i \in 1 .. size - 2 : i > 0
      <4> HIDE DEF size
      <4> QED OBVIOUS
    <3> QED BY <3>2, <3>3
  <2>4. Entered(Next1) <=> Entered(Top) BY <1>8, <2>2, <2>3 DEF Entered
  <2>5. Named(Append(Below, Next1) \o new, sc2) BY <1>8, <2>1, <2>2, <2>4, NamedGoesOn
  <2> QED BY <1>8, <2>5
<1>9. ASSUME SameNames(sc, sc2), Walking, Top.node # NULL, OnNode("push") \/ OnNode("descisions"),
             NEW t \in Tasks, t.phase = 0, tasks' = Append(Resumed, t)
      PROVE  Named(tasks', sc2)
  <2>1. /\ Resumed = Append(Below, Next1) /\ Below \in Seq(Tasks) /\ Next1 \in Tasks
    BY <1>9, PushingStays DEF OnNode
  <2>2. Append(Resumed, t) = Append(Below, Next1) \o <<t>> BY <2>1
  <2>3. <<t>> \in Seq(Tasks) /\ <<t>> # <<>> /\ \A i \in 1 .. Len(<<t>>) : <<t>>[i].phase = 0 BY <1>9
  <2> DEFINE new == <<t>>
  <2> HIDE DEF new
  <2>4. tasks' = Append(Below, Next1) \o new BY <1>9, <2>2 DEF new
  <2>5. new \in Seq(Tasks) /\ new # <<>> /\ \A i \in 1 .. Len(new) : new[i].phase = 0 BY <2>3 DEF new
  <2> QED BY <1>8, <1>9, <2>4, <2>5
<1>10. ASSUME SameNames(sc, sc2), Descend PROVE Named(tasks', sc2)
  <2> DEFINE t == Task(Step.kid, Step.mode)
  <2>1. /\ Walking /\ Top.node # NULL /\ OnNode("push") /\ t \in Tasks /\ t.phase = 0
        /\ tasks' = Append(Resumed, t)
    BY <1>10, DescendIs
  <2> HIDE DEF t
  <2> QED BY <1>9, <1>10, <2>1
<1>11. ASSUME SameNames(sc, sc2), NEW c \in BOOLEAN, Decided(c, ~c) PROVE Named(tasks', sc2)
  <2>1. Walking /\ Top.node # NULL /\ OnNode("descisions") BY <1>11, DecidedIs
  <2>2. PICK t \in Tasks : t.phase = 0 /\ tasks' = Append(Resumed, t) BY <1>11, DecidedIs
  <2> QED BY <1>9, <1>11, <2>1, <2>2
<1>12. ASSUME SameNames(sc, sc2), Decided(TRUE, TRUE) PROVE Named(tasks', sc2)
  <2> DEFINE e   == Task(ast[Top.node].kids[3], "EVAL")
             t   == Task(ast[Top.node].kids[2], "EVAL")
             new == <<e>> \o <<t>>
  <2>1. /\ Walking /\ Top.node # NULL /\ OnNode("descisions") /\ tasks # <<>>
        /\ tasks' = Append(Append(Append(Below, Next1), e), t)
        /\ e \in Tasks /\ e.phase = 0 /\ t \in Tasks /\ t.phase = 0 /\ Next1 \in Tasks
    BY <1>12, BothArms
  <2> HIDE DEF e, t
  <2>2. Below \in Seq(Tasks) BY <2>1, TasksAre
  <2>3. Append(Append(Append(Below, Next1), e), t) = Append(Below, Next1) \o new
    <3> DEFINE b == Append(Below, Next1)
    <3>1. b \in Seq(Tasks) BY <2>1, <2>2
    <3> HIDE DEF b
    <3>2. e \in Tasks /\ t \in Tasks BY <2>1
    <3>3. Append(Append(b, e), t) = b \o (<<e>> \o <<t>>) BY <3>1, <3>2, TwoMore
    <3> QED BY <3>3 DEF b
  <2>4. new \in Seq(Tasks) /\ new # <<>> /\ \A i \in 1 .. Len(new) : new[i].phase = 0
    <3>1. new \in Seq(Tasks) /\ Len(new) = 2 /\ new[1] = e /\ new[2] = t BY <2>1
    <3>2. new # <<>> BY <3>1
    <3> HIDE DEF new
    <3>3. \A i \in 1 .. Len(new) : i = 1 \/ i = 2 BY <3>1
    <3> QED BY <2>1, <3>1, <3>2, <3>3
  <2>5. tasks' = Append(Below, Next1) \o new BY <2>1, <2>3
  <2> HIDE DEF new
  <2> QED BY <1>8, <1>12, <2>1, <2>4, <2>5
<1> QED BY <1>1, <1>2, <1>3, <1>4, <1>5, <1>6, <1>7, <1>10, <1>11, <1>12 DEF ScopeTurn

(* A name can be seen where it is asked for just if a scope has it. *)
LEMMA NameFound ==
  ASSUME WalkInv, tasks # <<>>, Placed(tasks), NEW sc, Named(tasks, sc),
         Top.node # NULL, ast[Top.node].kind = "id", NEW name
  PROVE  name \in Visible(Top.node) <=> \E d \in 1 .. Len(sc) : name \in DOMAIN sc[d]
<1> DEFINE l == Len(Below)
<1>1. /\ Below \in Seq(Tasks) /\ Top \in Tasks /\ tasks = Append(Below, Top)
      /\ Visible(Top.node) = Seen(Below, l + 1)
  BY TopPlaced
<1>2. ~Entered(Top) BY DEF Entered
<1>3. /\ Blocks(Below) = Blocks(tasks) /\ Blocks(Below) \subseteq 1 .. l
      /\ \A k \in 1 .. l : Names(tasks, k) = Behind(Below[k].node, Below[k].phase - 1)
  BY <1>1, <1>2, NamesOfAppend
<1>4. l \in Nat /\ DOMAIN Below = 1 .. l BY <1>1
<1>5. name \in Seen(Below, l + 1) <=> \E k \in Blocks(tasks) : name \in Names(tasks, k)
  <2>1. \A j : j \in 1 .. (l + 1) - 1 <=> j \in 1 .. l BY <1>4
  <2>2. \A j : j \in Blocks(Below) <=> j \in 1 .. l /\ Entered(Below[j]) BY <1>4 DEF Blocks
  <2> HIDE DEF l
  <2>3. name \in Seen(Below, l + 1)
          <=> \E j \in 1 .. l : Entered(Below[j]) /\ name \in Behind(Below[j].node, Below[j].phase - 1)
    BY <2>1 DEF Seen
  <2> QED BY <1>3, <2>2, <2>3
<1>6. PICK at \in [1 .. Len(sc) -> Blocks(tasks)] :
        /\ \A k \in Blocks(tasks) : \E d \in 1 .. Len(sc) : k = at[d]
        /\ \A d \in 1 .. Len(sc) : DOMAIN sc[d] = Names(tasks, at[d])
  BY DEF Named
<1>7. (\E k \in Blocks(tasks) : name \in Names(tasks, k))
        <=> \E d \in 1 .. Len(sc) : name \in DOMAIN sc[d]
  BY <1>6
<1> QED BY <1>1, <1>5, <1>7

(* The checker finds the name of an identifier that it lets pass. *)
LEMMA CheckFinds ==
  ASSUME CheckStep, IsSequence(tscopes), NEW op \in {"apply_identifier", "apply_identifier_ref"},
         Called(op)
  PROVE  \E d \in 1 .. Len(tscopes) : ast[Top.node].val \in DOMAIN tscopes[d]
<1> DEFINE name == ast[Top.node].val
<1>1. Step.does = op /\ status' = status /\ status = "walking" BY DEF Called, OnNode, Walking
<1>2. \A o : OnNode(o) => o = op BY <1>1 DEF OnNode
<1>3. \A o : (Called(o) => o = op) /\ \A e : ~Raised(o, e)
  BY <1>1, <1>2 DEF Called, Raised, Messages
<1>4. ~CheckValue /\ ~CheckExpr /\ ~CheckUExpr /\ ~CheckIfCond /\ ~CheckIfPost
  BY <1>2, <1>3 DEF CheckValue, CheckExpr, CheckUExpr, CheckIfCond, CheckIfPost
<1>5. ~CheckIfExprPost /\ ~CheckDefine /\ ~CheckAssign /\ ~CheckEcho /\ ~CheckScopePush /\ ~CheckScopePop
  BY <1>2, <1>3
     DEF CheckIfExprPost, CheckDefine, CheckAssign, CheckEcho, CheckScopePush, CheckScopePop
<1>6. ~CheckBoth /\ ~Descend /\ ~Misplaced BY <1>2 DEF CheckBoth, Decided, Descend, Misplaced
<1>7. ~Skip /\ ~End
  <2>1. tasks # <<>> /\ Top.node # NULL BY DEF Called, OnNode, Walking
  <2> QED BY <2>1 DEF Skip, End
<1>8. CheckIdentifier BY <1>4, <1>5, <1>6, <1>7 DEF CheckStep
<1>9. TypeOfName(name) # "unknown" BY <1>3, <1>8 DEF CheckIdentifier
<1>10. PICK d \in DOMAIN tscopes : name \in DOMAIN tscopes[d]
  BY <1>9 DEF TypeOfName
<1>11. DOMAIN tscopes = 1 .. Len(tscopes) BY DEF IsSequence
<1> QED BY <1>10, <1>11

(* What a task that is over, or goes on, has walked. *)
LEMMA WithinTop ==
  ASSUME WalkInv, tasks # <<>>, Within(tasks, Sound)
  PROVE  /\ Below \in Seq(Tasks) /\ Top \in Tasks
         /\ Within(Below, Sound \cup {Top.node})
         /\ Top.node # NULL => GoneKids(Top) \subseteq Sound
BY TasksAre, WithinOfAppend

LEMMA NothingGone ==
  ASSUME ast \in Trees, NEW t \in Tasks, t.phase = 0, t.node \in Nodes
  PROVE  GoneKids(t) = {}
<1>1. Coming(t) = DOMAIN ast[t.node].kids BY ComingKidsAre
<1> QED BY <1>1 DEF GoneKids

(* New tasks, for all that the task below them has no more to come. *)
LEMMA WithinNew ==
  ASSUME WalkInv, tasks # <<>>, Within(tasks, Sound), Top.node # NULL,
         NEW u \in Tasks, u.phase = 0, u.node \in Nodes \cup {NULL},
         NEW N, Sound \subseteq N, Next1 \in Tasks, Next1.node = Top.node,
         \A k \in DOMAIN ast[Top.node].kids :
           k \in Coming(Top) /\ k \notin Coming(Next1) =>
             ast[Top.node].kids[k] \in N \cup {u.node, NULL}
  PROVE  Within(Append(Append(Below, Next1), u), N)
<1>1. /\ Below \in Seq(Tasks) /\ Within(Below, Sound \cup {Top.node}) /\ GoneKids(Top) \subseteq Sound
  BY WithinTop
<1>2. GoneKids(Next1) \subseteq N \cup {u.node}
  <2>1. \A k \in DOMAIN ast[Top.node].kids :
          k \notin Coming(Top) /\ ast[Top.node].kids[k] # NULL => ast[Top.node].kids[k] \in N
    BY <1>1 DEF GoneKids
  <2> QED BY <2>1 DEF GoneKids
<1>3. Within(Below, (N \cup {u.node}) \cup {Next1.node})
  <2>1. Sound \cup {Top.node} \subseteq ((N \cup {u.node}) \cup {Next1.node}) \cup {NULL} OBVIOUS
  <2> QED BY <1>1, <2>1, WithinMore DEF WalkInv
<1>4. Within(Append(Below, Next1), N \cup {u.node}) BY <1>1, <1>2, <1>3, WithinOfAppend
<1>5. u.node # NULL => GoneKids(u) \subseteq N BY NothingGone DEF WalkInv
<1>6. Append(Below, Next1) \in Seq(Tasks) BY <1>1
<1> QED BY <1>4, <1>5, <1>6, WithinOfAppend

(* A node that the checker is done with may be walked. *)
LEMMA CheckedIsSound ==
  ASSUME WalkInv, Placed(tasks), Named(tasks, tscopes), IsSequence(tscopes),
         Within(tasks, Sound), CheckStep, NEW op \in Operations, Called(op), IsLast
  PROVE  Top.node \in Sound
<1> DEFINE kids == ast[Top.node].kids
           kind == ast[Top.node].kind
<1>1. /\ tasks # <<>> /\ Top.node # NULL /\ OnNode(op) /\ Walking BY DEF Called, OnNode, Walking
<1>2. Top.node \in Nodes BY <1>1, TopIs DEF Nodes
<1>3. /\ op \in {"apply_identifier", "apply_identifier_ref"} <=> kind = "id"
      /\ Coming(Top) = IF kind = "define" THEN {1} ELSE {}
  BY <1>1, ComingIs
<1>4. GoneKids(Top) \subseteq Sound BY <1>1, WithinTop
<1>5. WalkedKids(Top.node) \subseteq Sound
  <2>1. \A k \in DOMAIN kids : (kind = "define" => k # 1) => k \notin Coming(Top) BY <1>3
  <2>2. WalkedKids(Top.node) \subseteq GoneKids(Top) BY <2>1 DEF WalkedKids, GoneKids
  <2> QED BY <1>4, <2>2
<1>6. kind = "id" => ast[Top.node].val \in Visible(Top.node)
  BY <1>1, <1>3, CheckFinds, NameFound
<1> QED BY <1>2, <1>5, <1>6, SoundIs DEF WalkInv

LEMMA CheckTurns ==
  ASSUME WalkInv, Scoped, IsSequence(tscopes), CheckedSoFar, CheckStep
  PROVE  Within(tasks', Sound) /\ (status' = "success" => Root(ast) \in Sound)
<1> DEFINE Goal == Within(tasks', Sound) /\ (status' = "success" => Root(ast) \in Sound)
           kids == ast[Top.node].kids
<1>0. Placed(tasks) /\ Named(tasks, tscopes) /\ Within(tasks, Sound) BY DEF CheckedSoFar
<1>1. ASSUME NEW op \in Operations, Called(op) PROVE Goal
  <2>1. /\ tasks # <<>> /\ Top.node # NULL /\ OnNode(op) /\ Walking /\ tasks' = Resumed
        /\ status' = "walking"
    BY <1>1 DEF Called, OnNode, Walking
  <2>2. /\ Below \in Seq(Tasks) /\ Within(Below, Sound \cup {Top.node})
        /\ GoneKids(Top) \subseteq Sound
    BY <1>0, <2>1, WithinTop
  <2>3. CASE IsLast
    <3>1. Top.node \in Sound BY <1>0, <1>1, <2>3, CheckedIsSound
    <3>2. Sound \cup {Top.node} = Sound BY <3>1
    <3>3. Within(Below, Sound) BY <2>2, <3>2
    <3> QED BY <2>1, <2>3, <3>3 DEF Resumed
  <2>4. CASE ~IsLast
    <3>1. Next1 \in Tasks /\ Next1.node = Top.node BY <2>1, TopIs DEF Next1
    <3>2. Coming(Next1) = Coming(Top) BY <2>1, <2>4, ComingIs
    <3>3. GoneKids(Next1) \subseteq Sound BY <2>2, <3>1, <3>2 DEF GoneKids
    <3>4. Within(Append(Below, Next1), Sound) BY <2>2, <3>1, <3>3, WithinOfAppend
    <3> QED BY <2>1, <2>4, <3>4 DEF Resumed, Next1
  <2> QED BY <2>3, <2>4
<1>2. ASSUME NEW op, NEW error, Raised(op, error) PROVE Goal
  BY <1>0, <1>2 DEF Raised, Messages
<1>3. CASE Decided(TRUE, TRUE)
  <2> DEFINE e == Task(kids[3], "EVAL")
             t == Task(kids[2], "EVAL")
  <2>1. /\ tasks # <<>> /\ Top.node # NULL /\ Walking /\ UNCHANGED <<ast, status>>
        /\ tasks' = Append(Append(Append(Below, Next1), e), t)
        /\ e \in Tasks /\ e.phase = 0 /\ e.node = kids[3]
        /\ t \in Tasks /\ t.phase = 0 /\ t.node = kids[2]
        /\ Next1 \in Tasks /\ Next1.node = Top.node
        /\ 2 \in DOMAIN kids /\ 3 \in DOMAIN kids
        /\ Coming(Top) = {2, 3} /\ Coming(Next1) = {}
    BY <1>3, BothArms
  <2> HIDE DEF e, t
  <2>2. Top.node \in Nodes BY <2>1, TopIs DEF Nodes
  <2>3. e.node \in Nodes \cup {NULL} /\ t.node \in Nodes \cup {NULL} BY <2>1, <2>2, TreeIs DEF WalkInv
  <2> DEFINE N == Sound \cup {t.node}
  <2>4. Sound \subseteq N
        /\ \A k \in DOMAIN kids : k \in Coming(Top) /\ k \notin Coming(Next1) =>
                                    kids[k] \in N \cup {e.node, NULL}
    BY <2>1
  <2> HIDE DEF N
  <2>5. Within(Append(Append(Below, Next1), e), N) BY <1>0, <2>1, <2>3, <2>4, WithinNew
  <2>6. t.node # NULL => GoneKids(t) \subseteq Sound BY <2>1, <2>3, NothingGone DEF WalkInv
  <2>7. Append(Append(Below, Next1), e) \in Seq(Tasks) BY <2>1, TasksAre
  <2> DEFINE s == Append(Append(Below, Next1), e)
  <2> HIDE DEF s
  <2>8. Within(Append(s, t), Sound) BY <2>1, <2>5, <2>6, <2>7, WithinOfAppend DEF s, N
  <2> QED BY <2>1, <2>8 DEF s, Walking
<1>4. CASE Descend
  <2> DEFINE t == Task(Step.kid, Step.mode)
  <2>1. /\ Walking /\ tasks # <<>> /\ Top.node # NULL /\ OnNode("push")
        /\ t \in Tasks /\ t.phase = 0 /\ t.node = Step.kid /\ UNCHANGED <<ast, status>>
        /\ tasks' = Append(Resumed, t)
    BY <1>4, DescendIs DEF Walking
  <2> HIDE DEF t
  <2>2. Resumed = Append(Below, Next1) /\ Next1 \in Tasks BY <2>1, PushingStays DEF OnNode
  <2>3. Next1.node = Top.node /\ Top.node \in Nodes BY <2>1, TopIs DEF Next1, Nodes
  <2>4. PICK k \in DOMAIN kids : t.node = kids[k] /\ Coming(Next1) = Coming(Top) \ {k}
    BY <2>1, ComingIs
  <2>5. t.node \in Nodes \cup {NULL} BY <2>3, <2>4, TreeIs DEF WalkInv
  <2>6. \A j \in DOMAIN kids : j \in Coming(Top) /\ j \notin Coming(Next1) =>
                                 kids[j] \in Sound \cup {t.node, NULL}
    BY <2>4
  <2>7. Within(Append(Append(Below, Next1), t), Sound)
    BY <1>0, <2>1, <2>2, <2>3, <2>5, <2>6, WithinNew
  <2> QED BY <2>1, <2>2, <2>7 DEF Walking
<1>5. CASE Skip
  <2>1. tasks # <<>> /\ Top.node = NULL /\ tasks' = Below /\ status' = status /\ status = "walking"
    BY <1>5 DEF Skip, Walking
  <2>2. Within(Below, Sound \cup {Top.node}) BY <1>0, <2>1, WithinTop
  <2>3. Within(Below, Sound) BY <2>1, <2>2, WithinMore DEF WalkInv
  <2> QED BY <2>1, <2>3
<1>6. CASE Misplaced BY <1>0, <1>6 DEF Misplaced
<1>7. CASE End
  <2>1. tasks = <<>> /\ tasks' = tasks BY <1>7 DEF End
  <2>2. \A j \in 1 .. Len(tasks) : FALSE BY <2>1
  <2>3. Root(ast) \in Sound BY <1>0, <2>2 DEF Within
  <2> QED BY <1>0, <2>1, <2>3
<1> QED BY <1>1, <1>2, <1>3, <1>4, <1>5, <1>6, <1>7, CheckStepShape DEF CheckTurn

(* The machine walks no node but those that may be walked. *)
LEMMA SoundTurn ==
  ASSUME WalkInv, AllSound(tasks), ExecTurn
  PROVE  AllSound(tasks')
<1> DEFINE kids == ast[Top.node].kids
           kind == ast[Top.node].kind
<1>1. ASSUME tasks # <<>>
      PROVE  /\ Below \in Seq(Tasks) /\ AllSound(Below)
             /\ Top.node # NULL => Top.node \in Sound /\ Top.node \in Nodes
                                   /\ WalkedKids(Top.node) \subseteq Sound
  <2>1. Below \in Seq(Tasks) /\ Top \in Tasks /\ tasks = Append(Below, Top) BY <1>1, TasksAre
  <2>2. AllSound(Below) /\ (Top.node # NULL => Top.node \in Sound) BY <2>1, SoundOfAppend
  <2> QED BY <2>1, <2>2, SoundIs DEF WalkInv, Settled
<1>2. ASSUME tasks # <<>>, Top.node # NULL, Next1 \in Tasks, Next1.node = Top.node
      PROVE  AllSound(Append(Below, Next1)) /\ Append(Below, Next1) \in Seq(Tasks)
  BY <1>1, <1>2, SoundOfAppend
<1>3. ASSUME NEW op, Called(op) PROVE AllSound(tasks')
  <2>1. Walking /\ tasks # <<>> /\ Top.node # NULL /\ tasks' = Resumed
    BY <1>3 DEF Called, OnNode, Walking
  <2>2. Next1 \in Tasks /\ Next1.node = Top.node BY <2>1, TopIs DEF Next1
  <2>3. AllSound(Below) /\ AllSound(Append(Below, Next1)) BY <1>1, <1>2, <2>1, <2>2
  <2> QED BY <2>1, <2>3 DEF Resumed, Next1
<1>4. ASSUME Walking, tasks # <<>>, Top.node # NULL, Step.does \in {"push", "descisions"},
             NEW t \in Tasks, t.node # NULL => t.node \in Sound, tasks' = Append(Resumed, t)
      PROVE  AllSound(tasks')
  <2>1. Resumed = Append(Below, Next1) /\ Next1 \in Tasks BY <1>4, PushingStays
  <2>2. Next1.node = Top.node BY <1>4, TopIs DEF Next1
  <2>3. AllSound(Append(Below, Next1)) /\ Append(Below, Next1) \in Seq(Tasks) BY <1>2, <1>4, <2>1, <2>2
  <2> QED BY <1>4, <2>1, <2>3, SoundOfAppend
<1>5. ASSUME NEW c \in BOOLEAN, Decided(c, ~c) PROVE AllSound(tasks')
  <2>1. /\ Walking /\ tasks # <<>> /\ Top.node # NULL /\ OnNode("descisions")
        /\ Step.does = "descisions"
    BY <1>5, DecidedIs DEF OnNode, Walking
  <2>2. PICK t \in Tasks : t.node \in {kids[2], kids[3]} /\ tasks' = Append(Resumed, t)
    BY <1>5, DecidedIs
  <2>3. Top.node \in 1 .. Len(ast) /\ Top \in Tasks /\ Top.phase + 1 \in 1 .. Len(Steps(Top))
    BY <2>1, ResumedInOrder
  <2>4. 2 \in DOMAIN kids /\ 3 \in DOMAIN kids
    BY <2>1, <2>3, OnlyIfsDecide DEF Step, WalkInv
  <2>5. kind # "define" BY <2>1, ComingIs
  <2>6. t.node # NULL => t.node \in WalkedKids(Top.node) BY <2>2, <2>4, <2>5 DEF WalkedKids
  <2>7. t.node # NULL => t.node \in Sound BY <1>1, <2>1, <2>6
  <2> QED BY <1>4, <2>1, <2>2, <2>7
<1>6. CASE Descend
  <2> DEFINE t == Task(Step.kid, Step.mode)
  <2>1. /\ Walking /\ tasks # <<>> /\ Top.node # NULL /\ OnNode("push") /\ Step.does = "push"
        /\ t \in Tasks /\ t.node = Step.kid /\ tasks' = Append(Resumed, t)
    BY <1>6, DescendIs DEF Walking, OnNode
  <2> HIDE DEF t
  <2>2. PICK k \in Coming(Top) : /\ t.node = kids[k] /\ k \in DOMAIN kids
                                 /\ Coming(Next1) = Coming(Top) \ {k}
    BY <2>1, ComingIs
  <2>3. Next1.node = Top.node /\ Next1.phase = Top.phase + 1 /\ Top.phase \in Nat
    BY <2>1, TopIs DEF Next1
  <2>4. kind = "define" => k # 1
    <3>1. kind = "define" => Coming(Next1) = {1}
      <4>1. Next1.phase # 0 BY <2>3
      <4> QED BY <2>3, <4>1 DEF Coming
    <3> QED BY <2>2, <3>1
  <2>5. t.node # NULL => t.node \in WalkedKids(Top.node) BY <2>2, <2>4 DEF WalkedKids
  <2>6. t.node # NULL => t.node \in Sound BY <1>1, <2>1, <2>5
  <2> QED BY <1>4, <2>1, <2>6
<1>7. CASE Skip
  <2>1. tasks # <<>> /\ tasks' = Below BY <1>7 DEF Skip, Walking
  <2> QED BY <1>1, <2>1
<1>8. (\E op, error : Raised(op, error)) \/ Misplaced \/ End => tasks' = tasks
  BY DEF Raised, Misplaced, End
<1> QED BY <1>3, <1>5, <1>6, <1>7, <1>8 DEF ExecTurn

(* How a step of the machine may leave the walk. *)
Known == Allowed \cup {"walking", "stack underflow", "stack overflow"}

LEMMA ExecEnds ==
  ASSUME WalkInv, ExecStep
  PROVE  \/ status' \in Known
         \/ \E op \in {"apply_identifier", "apply_identifier_ref"} : OnNode(op) /\ Found(Val) = {}
         \/ Misplaced
<1> DEFINE Goal == \/ status' \in Known
                   \/ \E op \in {"apply_identifier", "apply_identifier_ref"} :
                        OnNode(op) /\ Found(Val) = {}
                   \/ Misplaced
           R(error) == \E op : Raised(op, error)
<1>1. \A op : Called(op) => status' \in Known BY DEF Called, OnNode, Walking, Known
<1>2. \A error \in Known : R(error) => status' \in Known BY DEF Raised
<1>3. /\ "division by zero" \in Known /\ "name redefinition" \in Known
      /\ "failed to convert string to integer" \in Known /\ "success" \in Known
      /\ "stack underflow" \in Known /\ "stack overflow" \in Known /\ "walking" \in Known
  BY DEF Known, Allowed
<1>4. \A op, v : Pushed(op, v) => status' \in Known BY <1>1, <1>2, <1>3 DEF Pushed
<1>5. CASE ValueOf BY <1>2, <1>3, <1>4, <1>5 DEF ValueOf
<1>6. CASE ApplyIdentifier \/ ApplyIdentifierRef
  BY <1>4, <1>6 DEF ApplyIdentifier, ApplyIdentifierRef, Unknown
<1>7. CASE ApplyExpr \/ ApplyUExpr \/ ApplyIfCond
  BY <1>2, <1>3, <1>4, <1>7 DEF ApplyExpr, ApplyUExpr, ApplyIfCond
<1>8. CASE IfPost \/ ApplyEcho \/ ApplyAssign \/ ScopePushNew \/ ScopePop
  BY <1>1, <1>8 DEF IfPost, ApplyEcho, ApplyAssign, ScopePushNew, ScopePop
<1>9. CASE ApplyDefine BY <1>1, <1>2, <1>3, <1>9 DEF ApplyDefine
<1>10. CASE Underflow BY <1>2, <1>3, <1>10 DEF Underflow
<1>11. CASE Descide
  <2>1. (Last1 # 0) \in BOOLEAN /\ (Last1 = 0) = ~(Last1 # 0) OBVIOUS
  <2>2. Decided(Last1 # 0, Last1 = 0) BY <1>11 DEF Descide
  <2>3. Decided(Last1 # 0, ~(Last1 # 0)) BY <2>1, <2>2
  <2>4. Walking /\ status' = status BY <2>1, <2>3, DecidedIs
  <2> QED BY <1>3, <2>4 DEF Walking
<1>12. CASE Descend BY <1>3, <1>12, DescendIs DEF Walking
<1>13. CASE Skip BY <1>3, <1>13 DEF Skip, Walking
<1>14. CASE End BY <1>3, <1>14 DEF End
<1> QED BY <1>5, <1>6, <1>7, <1>8, <1>9, <1>10, <1>11, <1>12, <1>13, <1>14 DEF ExecStep

LEMMA RunsOn ==
  ASSUME WalkInv, Scoped, Chained(tasks), IsSequence(scopes), RunsSoFar, ExecStep
  PROVE  status' \in Known
<1>1. ASSUME NEW op \in {"apply_identifier", "apply_identifier_ref"}, OnNode(op), Found(Val) = {}
      PROVE  FALSE
  <2>1. tasks # <<>> /\ Top.node # NULL BY <1>1 DEF OnNode, Walking
  <2>2. op \in Operations BY DEF Operations
  <2>3. ast[Top.node].kind = "id" BY <1>1, <2>2, ComingIs
  <2>4. Top.node \in Sound
    <3>1. Len(tasks) \in 1 .. Len(tasks)
      <4>1. Len(tasks) \in Nat \ {0} BY <2>1, TasksAre
      <4> QED BY <4>1
    <3> QED BY <2>1, <3>1 DEF RunsSoFar, AllSound, Top
  <2>5. Val \in Visible(Top.node) BY <2>3, <2>4, SoundIs DEF WalkInv, Settled, Val
  <2>6. \E d \in 1 .. Len(scopes) : Val \in DOMAIN scopes[d]
    BY <2>1, <2>3, <2>5, NameFound DEF RunsSoFar
  <2>7. DOMAIN scopes = 1 .. Len(scopes) BY DEF IsSequence
  <2> QED BY <1>1, <2>6, <2>7 DEF Found
<1>2. ~Misplaced
  <2>1. tasks # <<>> /\ Sorted => (Top.mode = "REFERENCE" => Top.node # NULL /\ ast[Top.node].kind = "id")
    BY HeldBelow
  <2>2. ASSUME Misplaced PROVE FALSE
    <3>1. tasks # <<>> /\ Walking /\ Top.node # NULL /\ Step.does = "misplaced"
      BY <2>2 DEF Misplaced, OnNode, Walking
    <3>2. StepAt(Top) /\ Step = Steps(Top)[Top.phase + 1] BY <3>1, TopIs
    <3>3. Top.mode = "REFERENCE" => ast[Top.node].kind = "id" BY <2>1, <3>1 DEF Scoped
    <3>4. Top.mode = "EVAL" => Step.does # "misplaced" BY <3>2 DEF StepAt, Call, Push
    <3>5. Top.mode = "REFERENCE" => Step.does # "misplaced" BY <3>2, <3>3 DEF StepAt, Call
    <3>6. Top.mode \in {"EVAL", "REFERENCE"} BY <3>2 DEF StepAt
    <3> QED BY <3>1, <3>4, <3>5, <3>6
  <2> QED BY <2>2
<1> QED BY <1>1, <1>2, ExecEnds

(* What a walk begins with. *)
LEMMA WalkBegins ==
  ASSUME WalkInv, NEW s, s = <<Task(Root(ast), "EVAL")>>
  PROVE  /\ Placed(s) /\ Named(s, <<>>) /\ Within(s, Sound)
         /\ Root(ast) \in Sound => AllSound(s)
<1> DEFINE t == Task(Root(ast), "EVAL")
<1>1. Root(ast) \in Nodes /\ Root(ast) \in Nat /\ Root(ast) # NULL
  BY KidsAre DEF WalkInv, Root, NULL
<1>2. t \in Tasks /\ t.phase = 0 /\ t.node = Root(ast) BY <1>1 DEF Task, Tasks
<1> HIDE DEF t
<1>3. s = Append(<<>>, t) /\ <<>> \in Seq(Tasks) /\ Len(<<>>) = 0
  <2>1. s = <<t>> BY DEF t
  <2> QED BY <1>2, <2>1
<1>4. Placed(Append(<<>>, t))
  <2>1. \A k \in 1 .. 0 : FALSE OBVIOUS
  <2>2. \A k \in 1 .. 0 - 1 : FALSE OBVIOUS
  <2>3. Placed(<<>>) BY <2>1, <2>2 DEF Placed
  <2>4. Seen(<<>>, 0 + 1) = {}
    <3>1. \A j \in 1 .. (0 + 1) - 1 : FALSE OBVIOUS
    <3> QED BY <3>1 DEF Seen
  <2>5. Visible(t.node) = Seen(<<>>, 0 + 1) BY <1>2, <2>4, VisibleOfRoot DEF WalkInv
  <2> QED BY <1>2, <1>3, <2>3, <2>5, PlacedOfAppend
<1>5. Named(s, <<>>)
  <2>1. Blocks(<<>>) = {} BY DEF Blocks
  <2>2. ~Entered(t) BY <1>2 DEF Entered
  <2>3. Blocks(s) = {} BY <1>2, <1>3, <2>1, <2>2, NamesOfAppend
  <2>4. \A d \in 1 .. Len(<<>>) : FALSE BY <1>3
  <2> DEFINE at == [d \in 1 .. Len(<<>>) |-> d]
  <2>5. at \in [1 .. Len(<<>>) -> Blocks(s)] BY <2>4
  <2> HIDE DEF at
  <2> QED BY <2>3, <2>4, <2>5 DEF Named
<1>6. Within(Append(<<>>, t), Sound)
  <2>1. \A k \in 1 .. Len(<<>>) : FALSE BY <1>3
  <2>2. Within(<<>>, Sound \cup {t.node}) BY <1>2, <2>1 DEF Within
  <2>3. GoneKids(t) = {} BY <1>1, <1>2, NothingGone DEF WalkInv
  <2> QED BY <1>2, <1>3, <2>2, <2>3, WithinOfAppend
<1>7. Root(ast) \in Sound => AllSound(Append(<<>>, t))
  <2>1. \A k \in 1 .. Len(<<>>) : FALSE BY <1>3
  <2>2. AllSound(<<>>) BY <2>1 DEF AllSound
  <2> QED BY <1>2, <1>3, <2>2, SoundOfAppend
<1> QED BY <1>3, <1>4, <1>5, <1>6, <1>7

(* All of this is about the tree, which stays. *)
LEMMA SameSight ==
  ASSUME ast' = ast
  PROVE  /\ Scoped' <=> Scoped
         /\ Sound' = Sound
         /\ Placed(tasks)' <=> Placed(tasks')
         /\ Named(tasks, tscopes)' <=> Named(tasks', tscopes')
         /\ Named(tasks, scopes)' <=> Named(tasks', scopes')
         /\ Within(tasks, Sound)' <=> Within(tasks', Sound)
         /\ AllSound(tasks)' <=> AllSound(tasks')
<1>1. Scoped' <=> Scoped BY DEF Scoped, Sorted, DefinesInArm
<1>2. Nodes' = Nodes /\ Root(ast)' = Root(ast) BY DEF Nodes, Root
<1>3. \A n : NameOf(n)' = NameOf(n) BY DEF NameOf
<1>4. \A n, p : Behind(n, p)' = Behind(n, p) BY <1>3 DEF Behind
<1>5. AllNames' = AllNames BY <1>2 DEF AllNames
<1>6. Views' = Views BY <1>2, <1>4, <1>5 DEF Views
<1>7. \A n : Visible(n)' = Visible(n) BY <1>5, <1>6 DEF Visible
<1>8. \A n : WalkedKids(n)' = WalkedKids(n) BY DEF WalkedKids
<1>9. \A D : Settled(D)' <=> Settled(D) BY <1>7, <1>8 DEF Settled
<1>10. Sound' = Sound BY <1>2, <1>9 DEF Sound
<1>11. \A t : Entered(t)' <=> Entered(t) BY DEF Entered
<1>12. \A p, t : Fits(p, t)' <=> Fits(p, t) BY <1>11 DEF Fits
<1>13. \A s, k : Seen(s, k)' = Seen(s, k) BY <1>4, <1>11 DEF Seen
<1>14. Placed(tasks)' <=> Placed(tasks') BY <1>7, <1>12, <1>13 DEF Placed
<1>15. \A s : Blocks(s)' = Blocks(s) BY <1>11 DEF Blocks
<1>16. \A s, k : Names(s, k)' = Names(s, k) BY <1>4 DEF Names
<1>17. \A s, sc : Named(s, sc)' <=> Named(s, sc) BY <1>15, <1>16 DEF Named
<1>18. /\ Named(tasks, tscopes)' <=> Named(tasks', tscopes')
       /\ Named(tasks, scopes)' <=> Named(tasks', scopes')
  BY <1>15, <1>16 DEF Named
<1>19. \A t : GoneKids(t)' = GoneKids(t)
  <2>1. \A t : Coming(t)' = Coming(t) BY DEF Coming
  <2> QED BY <2>1 DEF GoneKids
<1>20. Within(tasks, Sound)' <=> Within(tasks', Sound) BY <1>2, <1>10, <1>19 DEF Within
<1>21. AllSound(tasks)' <=> AllSound(tasks') BY <1>10 DEF AllSound
<1> QED BY <1>1, <1>10, <1>14, <1>18, <1>20, <1>21

(* The verdicts, one for each walk that is over. *)
LEMMA AppendAt ==
  ASSUME NEW s, IsSequence(s), NEW e
  PROVE  /\ Append(s, e)[Len(s) + 1] = e
         /\ \A k \in 1 .. Len(s) : Append(s, e)[k] = s[k]
<1>1. PICK S : s \in Seq(S) BY DEF IsSequence
<1>2. s \in Seq(S \cup {e}) BY <1>1
<1> QED BY <1>2

LEMMA VerdictsStep ==
  ASSUME VerdictsAre, walk \in 0 .. 4, [Next]_vars
  PROVE  /\ IsSequence(verdict') /\ Len(verdict') = IF walk' = 0 THEN 0 ELSE walk' - 1
         /\ \/ verdict' = verdict /\ walk' = walk
            \/ /\ walk' = walk + 1
               /\ walk # 0 => /\ verdict' = Append(verdict, status)
                              /\ verdict'[walk] = status
                              /\ \A k \in 1 .. walk - 1 : verdict'[k] = verdict[k]
<1> DEFINE Goal ==
      /\ IsSequence(verdict') /\ Len(verdict') = IF walk' = 0 THEN 0 ELSE walk' - 1
      /\ \/ verdict' = verdict /\ walk' = walk
         \/ /\ walk' = walk + 1
            /\ walk # 0 => /\ verdict' = Append(verdict, status)
                           /\ verdict'[walk] = status
                           /\ \A k \in 1 .. walk - 1 : verdict'[k] = verdict[k]
<1>1. ASSUME NEW w, NextWalk(w) PROVE Goal
  <2>1. walk' = walk + 1 /\ verdict' = IF walk = 0 THEN <<>> ELSE Append(verdict, status)
    BY <1>1 DEF NextWalk
  <2>2. CASE walk = 0
    <3>1. IsSequence(<<>>) /\ Len(<<>>) = 0 BY DEF IsSequence
    <3> QED BY <2>1, <2>2, <3>1
  <2>3. CASE walk # 0
    <3>1. Len(verdict) = walk - 1 /\ IsSequence(verdict)
      <4>1. IsSequence(verdict) /\ Len(verdict) = IF walk = 0 THEN 0 ELSE walk - 1 BY DEF VerdictsAre
      <4> DEFINE l == Len(verdict)
      <4> HIDE DEF l, Goal
      <4>2. l = IF walk = 0 THEN 0 ELSE walk - 1 BY <4>1 DEF l
      <4>3. l = walk - 1 BY <2>3, <4>2
      <4> QED BY <4>1, <4>3 DEF l
    <3>2. IsSequence(verdict') /\ Len(verdict') = Len(verdict) + 1 BY <2>1, <2>3, <3>1, SequenceOps
    <3>3. /\ verdict'[Len(verdict) + 1] = status
          /\ \A k \in 1 .. Len(verdict) : verdict'[k] = verdict[k]
      BY <2>1, <2>3, <3>1, AppendAt
    <3>4. Len(verdict) + 1 = walk BY <3>1
    <3>5. verdict'[walk] = status /\ \A k \in 1 .. walk - 1 : verdict'[k] = verdict[k]
      BY <3>1, <3>3, <3>4
    <3>6. Len(verdict') = walk' - 1 /\ walk' # 0 BY <2>1, <3>2, <3>4
    <3> QED BY <2>1, <2>3, <3>2, <3>5, <3>6
  <2> QED BY <2>2, <2>3
<1>2. ASSUME verdict' = verdict, walk' = walk PROVE Goal
  <2>1. IsSequence(verdict) /\ Len(verdict) = IF walk = 0 THEN 0 ELSE walk - 1 BY DEF VerdictsAre
  <2>2. IsSequence(verdict') BY <1>2, <2>1
  <2>3. Len(verdict') = IF walk' = 0 THEN 0 ELSE walk' - 1 BY <1>2, <2>1, Zenon
  <2> QED BY <1>2, <2>2, <2>3, Zenon
<1>3. CASE RunCheck \/ RunExec \/ RunFree BY <1>1, <1>3 DEF RunCheck, RunExec, RunFree
<1>4. CASE UNCHANGED vars BY <1>2, <1>4 DEF vars
<1> QED BY <1>2, <1>3, <1>4 DEF Next

(* What is to hold again behind a step. *)
StillChecked ==
  /\ Placed(tasks') /\ Named(tasks', tscopes') /\ Within(tasks', Sound)
  /\ status' = "success" => Root(ast) \in Sound

StillRuns ==
  /\ Placed(tasks') /\ Named(tasks', scopes') /\ AllSound(tasks')
  /\ status' \in Allowed \cup {"walking"}

StillAccepted ==
  /\ ast' = ast
  /\ Scoped =>
       /\ walk' = 1 => StillChecked
       /\ walk' > 1 /\ verdict'[1] = "success" =>
            /\ Root(ast) \in Sound
            /\ walk' = 3 => StillRuns
            /\ walk' = 4 => verdict'[3] \in Allowed

LEMMA StillAcceptedIs ==
  ASSUME StillAccepted, OperandsInv', ScopesInv', VerdictsAre'
  PROVE  AcceptedInv'
<1>1. ast' = ast BY DEF StillAccepted
<1>2. Root(ast)' = Root(ast) /\ Allowed' = Allowed BY <1>1 DEF Root, Allowed
<1>3. CheckedSoFar' <=> StillChecked BY <1>1, <1>2, SameSight DEF CheckedSoFar, StillChecked
<1>4. RunsSoFar' <=> StillRuns BY <1>1, <1>2, SameSight DEF RunsSoFar, StillRuns
<1>5. (Scoped' <=> Scoped) /\ Sound' = Sound BY <1>1, SameSight
<1> QED BY <1>2, <1>3, <1>4, <1>5 DEF AcceptedInv, StillAccepted

LEMMA AcceptedCheck ==
  ASSUME WalkInv, Scoped, IsSequence(tscopes), CheckedSoFar, CheckStep
  PROVE  StillChecked
<1>1. Placed(tasks) /\ Named(tasks, tscopes) BY DEF CheckedSoFar
<1>2. Placed(tasks') BY <1>1, CheckStepShape, TurnPlaces
<1>3. ScopeTurn(tscopes, tscopes') BY CheckScopes
<1>4. Named(tasks', tscopes') BY <1>1, <1>3, TurnNames
<1> QED BY <1>2, <1>4, CheckTurns DEF StillChecked

LEMMA AcceptedRun ==
  ASSUME WalkInv, Scoped, Chained(tasks), IsSequence(scopes), RunsSoFar, ExecStep
  PROVE  /\ Placed(tasks') /\ Named(tasks', scopes') /\ AllSound(tasks')
         /\ status' \in Known
<1>1. Placed(tasks) /\ Named(tasks, scopes) /\ AllSound(tasks) BY DEF RunsSoFar
<1>2. ExecTurn BY ExecStepShape DEF ExecTurn
<1>3. Placed(tasks') BY <1>1, <1>2, TurnPlaces
<1>4. ScopeTurn(scopes, scopes') BY ExecScopes
<1>5. Named(tasks', scopes') BY <1>1, <1>4, TurnNames
<1>6. AllSound(tasks') BY <1>1, <1>2, SoundTurn
<1> QED BY <1>3, <1>5, <1>6, RunsOn

LEMMA AcceptedStep ==
  ASSUME AcceptedInv, [Next]_vars
  PROVE  AcceptedInv'
<1>1. /\ OperandsInv /\ ScopesInv /\ VerdictsAre /\ WalkInv /\ walk \in 0 .. 4
      /\ IsSequence(scopes) /\ IsSequence(tscopes)
  BY DEF AcceptedInv, OperandsInv, ScopesInv
<1>2. OperandsInv' /\ ScopesInv' BY <1>1, OperandsStep, ScopesStep
<1>3. VerdictsAre' BY <1>1, VerdictsStep DEF VerdictsAre, IsSequence
<1>4. ASSUME StillAccepted PROVE AcceptedInv' BY <1>2, <1>3, <1>4, StillAcceptedIs
<1>5. ASSUME Scoped
      PROVE  /\ walk = 1 => CheckedSoFar
             /\ walk > 1 /\ verdict[1] = "success" =>
                  /\ Root(ast) \in Sound
                  /\ walk = 3 => RunsSoFar
                  /\ walk = 4 => verdict[3] \in Allowed
  BY <1>5 DEF AcceptedInv
<1> DEFINE t == Task(Root(ast), "EVAL")
<1>6. CASE RunCheck
  <2>1. /\ NextWalk("check") /\ tasks' = <<t>> /\ tscopes' = <<>> /\ ast' = ast
        /\ status' = "walking"
    BY <1>6 DEF RunCheck, CheckBegin, Begin
  <2>2. walk' = 1 BY <1>1, <2>1, NextWalkIs
  <2>3. Placed(tasks') /\ Named(tasks', tscopes') /\ Within(tasks', Sound)
    BY <1>1, <2>1, WalkBegins
  <2>4. StillChecked BY <2>1, <2>3 DEF StillChecked
  <2> QED BY <1>4, <2>1, <2>2, <2>4 DEF StillAccepted
<1>7. CASE RunExec
  <2>1. /\ NextWalk("run") /\ tasks' = <<t>> /\ scopes' = <<>> /\ ast' = ast
        /\ status' = "walking"
    BY <1>7 DEF RunExec, ExecBegin, Begin
  <2>2. walk' = 3 /\ walk' = walk + 1 BY <1>1, <2>1, NextWalkIs DEF NextWalk
  <2>3. walk = 2 /\ verdict'[1] = verdict[1] BY <1>1, <2>2, VerdictsStep
  <2>4. Placed(tasks') /\ Named(tasks', scopes') /\ (Root(ast) \in Sound => AllSound(tasks'))
    BY <1>1, <2>1, WalkBegins
  <2>5. Root(ast) \in Sound => StillRuns BY <2>1, <2>4 DEF StillRuns
  <2> QED BY <1>4, <1>5, <2>1, <2>2, <2>3, <2>5 DEF StillAccepted
<1>8. CASE RunFree
  <2>1. NextWalk("free") /\ ast' = ast /\ status # "walking" BY <1>8 DEF RunFree, FreeBegin, Begin
  <2>2. walk' \in {2, 4} /\ walk' = walk + 1 BY <1>1, <2>1, NextWalkIs DEF NextWalk
  <2>3. CASE walk' = 2
    <3>1. walk = 1 /\ verdict'[1] = status BY <1>1, <2>2, <2>3, VerdictsStep
    <3>2. Scoped /\ status = "success" => Root(ast) \in Sound BY <1>5, <3>1 DEF CheckedSoFar
    <3> QED BY <1>4, <2>1, <2>3, <3>1, <3>2 DEF StillAccepted
  <2>4. CASE walk' = 4
    <3>1. walk = 3 BY <1>1, <2>2, <2>4
    <3>2. verdict'[1] = verdict[1] /\ verdict'[3] = status BY <1>1, <2>2, <3>1, VerdictsStep
    <3>3. Scoped /\ verdict[1] = "success" => Root(ast) \in Sound /\ status \in Allowed
      BY <1>5, <2>1, <3>1 DEF RunsSoFar
    <3> QED BY <1>4, <2>1, <2>4, <3>2, <3>3 DEF StillAccepted
  <2> QED BY <2>2, <2>3, <2>4
<1>9. CASE In("check") /\ CheckStep /\ UNCHANGED <<machine, memory, walk, verdict>>
  <2>1. walk = 1 /\ walk' = walk BY <1>1, <1>9, WalkIs
  <2>2. ast' = ast BY <1>1, <1>9, CheckStepIsStep, TreeStays
  <2>3. Scoped => StillChecked BY <1>1, <1>5, <1>9, <2>1, AcceptedCheck
  <2> QED BY <1>4, <2>1, <2>2, <2>3 DEF StillAccepted
<1>10. CASE In("run") /\ ExecStep /\ UNCHANGED <<checker, memory, walk, verdict>>
  <2>1. walk = 3 /\ walk' = walk /\ verdict' = verdict BY <1>1, <1>10, WalkIs
  <2>2. ast' = ast BY <1>1, <1>10, ExecStepIsStep, TreeStays
  <2>3. Chained(tasks) BY <1>1, <1>10 DEF OperandsInv
  <2>4. ASSUME Scoped, RunsSoFar PROVE StillRuns
    <3>1. Placed(tasks') /\ Named(tasks', scopes') /\ AllSound(tasks') /\ status' \in Known
      BY <1>1, <1>10, <2>3, <2>4, AcceptedRun
    <3>2. Sorted' BY <2>2, <2>4 DEF Scoped, Sorted
    <3>3. In("run")' BY <1>10 DEF In
    <3>4. status' \notin {"stack underflow", "stack overflow"}
      BY <1>2, <3>2, <3>3 DEF OperandsInv, OperandsMatchTasks
    <3> QED BY <3>1, <3>4 DEF StillRuns, Known
  <2> QED BY <1>4, <1>5, <2>1, <2>2, <2>4 DEF StillAccepted
<1>11. CASE In("free") /\ FreeStep /\ UNCHANGED <<machine, checker, walk, verdict>>
  <2>1. walk \in {2, 4} /\ walk' = walk /\ verdict' = verdict BY <1>1, <1>11, WalkIs
  <2>2. ast' = ast BY <1>1, <1>11, FreeStepIsStep, TreeStays
  <2> QED BY <1>4, <1>5, <2>1, <2>2 DEF StillAccepted
<1>12. CASE UNCHANGED vars
  <2>1. /\ ast' = ast /\ tasks' = tasks /\ status' = status /\ scopes' = scopes
        /\ tscopes' = tscopes /\ walk' = walk /\ verdict' = verdict
    BY <1>12 DEF vars, walker, machine, checker
  <2>2. (StillChecked <=> CheckedSoFar) /\ (StillRuns <=> RunsSoFar)
    BY <2>1 DEF StillChecked, CheckedSoFar, StillRuns, RunsSoFar
  <2> QED BY <1>4, <1>5, <2>1, <2>2 DEF StillAccepted
<1> QED BY <1>6, <1>7, <1>8, <1>9, <1>10, <1>11, <1>12 DEF Next

(* A program that the checker accepts fails, when it is run, at its        *)
(* arithmetic, at a number that is too big, or at a name that a scope has  *)
(* already, and at nothing else: for every well-sorted tree none of whose  *)
(* ifs has a definition for an arm, every name it asks for is found, no    *)
(* stack is full or empty, and nothing is out of place                     *)
(* (checker.c:81-99, exec.c:82-98, main.c:73-81, :120-128).               *)
THEOREM AcceptedProgramsRun == Spec => []CheckedProgramsRun
<1>1. Init => AcceptedInv
  <2> SUFFICES ASSUME Init PROVE AcceptedInv OBVIOUS
  <2>1. WalkInv BY WalkStarts DEF Init
  <2>2. walk = 0 /\ scopes = <<>> /\ tscopes = <<>> /\ verdict = <<>>
    BY DEF Init, ExecInit, CheckInit
  <2>3. IsSequence(<<>>) /\ Len(<<>>) = 0 BY DEF IsSequence
  <2>4. OperandsInv /\ ScopesInv
    BY <2>1, <2>2, <2>3 DEF OperandsInv, OperandsMatchTasks, ScopesInv, ScopesMatchTasks, In
  <2> QED BY <2>2, <2>3, <2>4 DEF AcceptedInv, VerdictsAre
<1>2. AcceptedInv /\ [Next]_vars => AcceptedInv' BY AcceptedStep
<1>3. AcceptedInv => CheckedProgramsRun
  <2> SUFFICES ASSUME AcceptedInv, Ran, Scoped, verdict[1] = "success"
               PROVE  verdict[3] \in Allowed
    BY DEF CheckedProgramsRun, Scoped, Allowed
  <2>1. walk \in 0 .. 4 /\ Len(verdict) = IF walk = 0 THEN 0 ELSE walk - 1
    BY DEF AcceptedInv, VerdictsAre, OperandsInv
  <2>2. walk = 4
    <3> DEFINE l == Len(verdict)
    <3>1. l = 3 BY DEF Ran
    <3>2. l = IF walk = 0 THEN 0 ELSE walk - 1 BY <2>1
    <3> HIDE DEF l
    <3> QED BY <2>1, <3>1, <3>2
  <2> QED BY <2>2 DEF AcceptedInv
<1> QED BY <1>1, <1>2, <1>3, PTL DEF Spec
=============================================================================
