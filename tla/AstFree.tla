------------------------------ MODULE AstFree ------------------------------
(***************************************************************************)
(* Freeing a tree (ast-free.c, free_ast of main.c): the operations of a    *)
(* walk that visits both arms of every if and frees what each node points  *)
(* to, and the node itself when its task is popped (apply_leave).          *)
(***************************************************************************)
EXTENDS Walker

VARIABLES
  heap,   \* the allocations of the tree that are not freed yet
  misuse  \* something was freed, or read, that was not there any more

memory == <<heap, misuse>>

(* What the constructors allocate for a node: the node, the strdup of its  *)
(* name or literal, the array of its statements.                           *)
Allocated(n) ==
  {<<n, "node">>} \cup
  (CASE ast[n].kind \in {"id", "value"} -> {<<n, "text">>}
     [] ast[n].kind = "block"           -> {<<n, "stmts">>}
     [] OTHER                           -> {})

TreeHeap == UNION {Allocated(n) : n \in DOMAIN ast}

(* free() of the things of a set, all of a node that is read meanwhile.    *)
Frees(things) ==
  /\ heap'   = heap \ things
  /\ misuse' = (misuse \/ ~(things \subseteq heap) \/ <<Top.node, "node">> \notin heap)

(* apply_leave, when the task is popped. *)
Leave == IF IsLast THEN {<<Top.node, "node">>} ELSE {}
-----------------------------------------------------------------------------
FreeValue == Called("value_of") /\ Frees({<<Top.node, "text">>} \cup Leave)

FreeIdentifier ==
  \E op \in {"apply_identifier", "apply_identifier_ref"} :
    Called(op) /\ Frees({<<Top.node, "text">>} \cup Leave)

(* Mistake: the node of the name is forgotten. *)
FreeDefineText ==
  /\ Called("apply_define")
  /\ Frees({<<ast[Top.node].kids[1], "text">>} \cup Leave)

(* The name that is defined is not walked: its node is freed here. *)
FreeDefine ==
  /\ Called("apply_define")
  /\ LET id == ast[Top.node].kids[1]
     IN  Frees({<<id, "text">>, <<id, "node">>} \cup Leave)

FreeBlock == Called("scope_pop") /\ Frees({<<Top.node, "stmts">>} \cup Leave)

FreeNothing ==
  /\ \/ \E op \in Operations \ {"value_of", "apply_identifier", "apply_identifier_ref",
                                "apply_define", "scope_pop"} : Called(op)
     \/ Decided(TRUE, TRUE)
  /\ Frees(Leave)

FreeInit == heap = {} /\ misuse = FALSE

(* The walk that starts once the program has been run or checked. *)
FreeBegin == Begin /\ heap' = TreeHeap /\ misuse' = FALSE

FreeStep ==
  \/ FreeValue \/ FreeIdentifier \/ FreeDefine \/ FreeBlock \/ FreeNothing
  \/ Descend /\ Frees({})
  \/ (Skip \/ Misplaced \/ End) /\ UNCHANGED memory
=============================================================================
