------------------------------ MODULE Program ------------------------------
(***************************************************************************)
(* What main.c does with a program that was parsed: `bs --chk` checks it   *)
(* and frees it (run_check), and then `bs --run` runs it and frees it      *)
(* (run_exec).  Each is a walk of its own over a tree that was made anew.  *)
(***************************************************************************)
EXTENDS Exec, Checker, AstFree

VARIABLES
  walk,    \* how many of the walks were begun
  verdict  \* how those that are over have ended

vars == <<walker, machine, checker, memory, walk, verdict>>

Walks == <<"check", "free", "run", "free">>

In(w) == walk > 0 /\ Walks[walk] = w

Init ==
  /\ WalkInit /\ ExecInit /\ CheckInit /\ FreeInit
  /\ walk = 0 /\ verdict = <<>>

(* The next walk begins when this one is over, whether it failed or not.   *)
NextWalk(w) ==
  /\ walk < Len(Walks) /\ Walks[walk + 1] = w
  /\ walk' = walk + 1
  /\ verdict' = IF walk = 0 THEN <<>> ELSE Append(verdict, status)

RunCheck == NextWalk("check") /\ CheckBegin /\ UNCHANGED <<machine, memory>>
RunExec  == NextWalk("run")   /\ ExecBegin  /\ UNCHANGED <<checker, memory>>

(* The machine, or the checker, is freed first. *)
RunFree ==
  /\ NextWalk("free") /\ FreeBegin
  /\ operands' = <<>> /\ scopes' = <<>> /\ types' = <<>> /\ tscopes' = <<>>
  /\ UNCHANGED echoed

Next ==
  \/ RunCheck \/ RunExec \/ RunFree
  \/ In("check") /\ CheckStep /\ UNCHANGED <<machine, memory, walk, verdict>>
  \/ In("run")   /\ ExecStep  /\ UNCHANGED <<checker, memory, walk, verdict>>
  \/ In("free")  /\ FreeStep  /\ UNCHANGED <<machine, checker, walk, verdict>>

Spec == Init /\ [][Next]_vars

(* One thread, and nothing in it blocks. *)
FairSpec == Spec /\ WF_vars(Next)
-----------------------------------------------------------------------------
(***************************************************************************)
(* Properties                                                              *)
(***************************************************************************)
Sorted == IsWellSorted(ast)

(* How the run ended, while and after the tree is freed. *)
Ran == Len(verdict) = 3

(* What a task on top has put on the operand stack and not taken off       *)
(* again: the values of the children it has walked, the condition until an *)
(* arm is chosen, and in the end the value of the arm.                     *)
Owed(t) ==
  IF t.node = NULL THEN 0
  ELSE CASE ast[t.node].kind = "block"  -> 0
         [] ast[t.node].kind = "if"     -> IF t.phase \in {1, 2} THEN 1 ELSE 0
         [] ast[t.node].kind = "ifexpr" -> IF t.phase > 0 THEN 1 ELSE 0
         [] OTHER                       -> t.phase

(* A task below it has something there while its second child is walked.   *)
Waits(t) == t.node # NULL /\ t.phase = 2 /\ ast[t.node].kind \in {"expr", "assign"}

Waiting(s) == {k \in DOMAIN s : Waits(s[k])}

Held(s) ==
  IF s = <<>> THEN 0 ELSE Owed(s[Len(s)]) + Cardinality(Waiting(s) \ {Len(s)})

(* The operand stack holds what the tasks in progress are owed and nothing *)
(* else: no operation finds it empty, or finds another one's operand       *)
(* (exec.c:66-80, walker.c:96-165).                                        *)
OperandsMatchTasks ==
  In("run") /\ Sorted =>
    /\ status \notin {"stack underflow", "stack overflow"}
    /\ status = "walking" => Len(operands) = Held(tasks)

(* The blocks that are in progress. *)
Entered(t) == t.node # NULL /\ t.phase > 0 /\ ast[t.node].kind = "block"

Blocks(s) == {k \in DOMAIN s : Entered(s[k])}

(* Every block in progress has its scope, in the checker and in the        *)
(* machine, and every other scope is gone, whatever was skipped            *)
(* (walker.c:148-153).                                                     *)
ScopesMatchTasks ==
  /\ In("run")   => Len(scopes)  = Cardinality(Blocks(tasks))
  /\ In("check") => Len(tscopes) = Cardinality(Blocks(tasks))

(* What has no value is not used as one, and what is checked stays in the  *)
(* scope where the machine will look for it: a program the checker accepts *)
(* fails at its arithmetic or at a name it defines twice, and at nothing   *)
(* else.  A definition that is an arm of an if is the exception: the       *)
(* checker lets it through, and the machine may not have come by it.       *)
DefinesInArm ==
  \E n \in DOMAIN ast : /\ ast[n].kind = "if"
                        /\ \E k \in {2, 3} : ast[n].kids[k] # NULL /\ ast[ast[n].kids[k]].kind = "define"

CheckedProgramsRun ==
  Ran /\ Sorted /\ ~DefinesInArm /\ verdict[1] = "success" =>
    verdict[3] \in {"success", "division by zero", "name redefinition",
                    "failed to convert string to integer"}

(* Every allocation of a tree is freed once, none is read when it is gone, *)
(* and none is left, in a program whose assignments have a name to assign  *)
(* to; of the others some is left, and nothing is freed twice              *)
(* (ast-free.c:6-33).                                                      *)
TreeIsFreedOnce ==
  /\ ~misuse
  /\ In("free") /\ Sorted /\ status # "walking" => heap = {} /\ status = "success"

(* Every program comes to an end, checked, run and freed: the language     *)
(* has no loop.                                                            *)
SessionEnds == <>(walk = 4 /\ status # "walking")
=============================================================================
