------------------------------- MODULE Walker -------------------------------
(***************************************************************************)
(* The walk over a syntax tree (walker.c) that runs, checks and frees a    *)
(* program: a stack of tasks, and a table of operations of which the       *)
(* walker calls one at each step of a task.  One action is one turn of the *)
(* loop, except that a block's scope_push_new is a turn of its own.  What  *)
(* an operation does, and whether it fails, is left to the modules that    *)
(* extend this one.                                                        *)
(***************************************************************************)
EXTENDS Ast

CONSTANT Trees  \* what the parser may have built

ASSUME TreesAssumption == \A tree \in Trees : IsTree(tree)

VARIABLES
  ast,    \* the tree
  tasks,  \* Walker.tasks, the top last
  status  \* how the walk stands: "walking", "success", or the error

walker == <<ast, tasks, status>>

(* A definition marked "Mistake" is the one that follows it with a bug the *)
(* code could well have; nothing uses it but the check of the properties.  *)

(* Mistake: one slot for each level of the tree. *)
SlotsByHeight == ast[Root(ast)].height

(* max_stack_size, as every caller computes it. *)
Slots == 2 * ast[Root(ast)].height + 1

Task(n, mode) == [node |-> n, mode |-> mode, phase |-> 0]

Push(kid, mode) == [does |-> "push", kid |-> kid, mode |-> mode]
Call(op)        == [does |-> op]

(* What is done for a node, a step for each phase of its task. *)
EvalSteps(n) ==
  LET kid(k) == Push(ast[n].kids[k], "EVAL")
  IN CASE ast[n].kind = "value" -> <<Call("value_of")>>
       [] ast[n].kind = "id"    -> <<Call("apply_identifier")>>
       [] ast[n].kind = "expr"  -> <<kid(1), kid(2), Call("apply_expr")>>
       [] ast[n].kind = "uexpr" -> <<kid(1), Call("apply_uexpr")>>
       [] ast[n].kind = "echo"  -> <<kid(1), Call("apply_echo")>>
       [] ast[n].kind = "if" ->
            <<kid(1), Call("apply_if_cond"), Call("descisions"), Call("apply_if_post")>>
       [] ast[n].kind = "ifexpr" ->
            <<kid(1), Call("apply_if_cond"), Call("descisions"), Call("apply_ifexpr_post")>>
       [] ast[n].kind = "define" -> <<kid(2), Call("apply_define")>>
       [] ast[n].kind = "assign" ->
            <<kid(2), Push(ast[n].kids[1], "REFERENCE"), Call("apply_assign")>>
       [] ast[n].kind = "block" ->
            <<Call("scope_push_new")>> \o [k \in DOMAIN ast[n].kids |-> kid(k)]
                                       \o <<Call("scope_pop")>>

Steps(task) ==
  IF task.mode = "EVAL" THEN EvalSteps(task.node)
  ELSE IF ast[task.node].kind = "id" THEN <<Call("apply_identifier_ref")>>
  ELSE <<Call("misplaced")>>

Top  == tasks[Len(tasks)]
Step == Steps(Top)[Top.phase + 1]

Walking == status = "walking" /\ tasks # <<>>

OnNode(does) == Walking /\ Top.node # NULL /\ Step.does = does

(* The task goes on to its next phase, or is popped behind its last one.   *)
IsLast  == Top.phase + 1 = Len(Steps(Top))
Below   == SubSeq(tasks, 1, Len(tasks) - 1)
Resumed == IF IsLast THEN Below ELSE Append(Below, [Top EXCEPT !.phase = @ + 1])

(* push_task of each of the new ones, in turn. *)
PushTasks(new) ==
  IF Len(Resumed) + Len(new) <= Slots
  THEN tasks' = Resumed \o new /\ UNCHANGED <<ast, status>>
  ELSE status' = "task stack overflow" /\ UNCHANGED <<ast, tasks>>
-----------------------------------------------------------------------------
WalkInit == ast \in Trees /\ tasks = <<>> /\ status = "success"

(* walker_run, with a walker_new *)
Begin ==
  /\ status # "walking"
  /\ tasks' = <<Task(Root(ast), "EVAL")>> /\ status' = "walking"
  /\ UNCHANGED ast

End ==
  /\ status = "walking" /\ tasks = <<>>
  /\ status' = "success"
  /\ UNCHANGED <<ast, tasks>>

Descend == OnNode("push") /\ PushTasks(<<Task(Step.kid, Step.mode)>>)

(* Mistake: the loop goes on without popping. *)
SkipInPlace == Walking /\ Top.node = NULL /\ UNCHANGED walker

(* The task of an else_arm that is not there. *)
Skip == Walking /\ Top.node = NULL /\ tasks' = Below /\ UNCHANGED <<ast, status>>

Misplaced ==
  /\ OnNode("misplaced")
  /\ status' = "unknown node kind for mode REFRENCE"
  /\ UNCHANGED <<ast, tasks>>

(* An operation is called for the node on top, and returns; or it leaves   *)
(* with longjmp, and its message is the walker's.                          *)
Called(op) == OnNode(op) /\ tasks' = Resumed /\ UNCHANGED <<ast, status>>

Messages == STRING \ {"walking", "success", "task stack overflow"}

Raised(op, error) ==
  OnNode(op) /\ error \in Messages /\ status' = error /\ UNCHANGED <<ast, tasks>>

(* Both descisions are asked for before the arms are pushed, the else_arm  *)
(* first, so that the then_arm is walked first.                            *)
Decided(do_then, do_else) ==
  /\ OnNode("descisions")
  /\ PushTasks((IF do_else THEN <<Task(ast[Top.node].kids[3], "EVAL")>> ELSE <<>>) \o
               (IF do_then THEN <<Task(ast[Top.node].kids[2], "EVAL")>> ELSE <<>>))

Operations ==
  { "value_of", "apply_identifier_ref", "apply_identifier", "apply_uexpr", "apply_expr",
    "apply_if_cond", "apply_if_post", "apply_ifexpr_post", "apply_define", "apply_assign",
    "apply_echo", "scope_push_new", "scope_pop" }

WalkNext ==
  \/ Begin \/ End \/ Descend \/ Skip \/ Misplaced
  \/ \E op \in Operations : Called(op)
  \/ \E op \in Operations \cup {"descisions"} : Raised(op, status')
  \/ \E do_then, do_else \in BOOLEAN : Decided(do_then, do_else)

(* Every walk, whatever the operations do. *)
AnyWalk == WalkInit /\ [][WalkNext]_walker
-----------------------------------------------------------------------------
(***************************************************************************)
(* Properties                                                              *)
(***************************************************************************)
TaskOK(t) ==
  /\ t.node \in 0 .. Len(ast) /\ t.mode \in {"EVAL", "REFERENCE"}
  /\ t.node # NULL => t.phase \in 0 .. Len(Steps(t)) - 1

(* The task stack is big enough for every tree, whichever arms the         *)
(* operations choose (walker.c:30, main.c:30, :73, :120, :224).            *)
TasksFit == status # "task stack overflow"
=============================================================================
