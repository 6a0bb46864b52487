------------------------------ MODULE Checker ------------------------------
(***************************************************************************)
(* The type checker (checker.c, typetab.c): the operations of a walk that  *)
(* visits both arms of every if and writes a type into the nodes.  A node  *)
(* is malloced and its type is written by the checker alone, so that what  *)
(* is read of a node it never visits, or never types, is any type at all.  *)
(***************************************************************************)
EXTENDS Walker

VARIABLES
  types,   \* ASTNode.type of the nodes that have been given one
  tscopes  \* Checker.scopes, the innermost last: names to types

checker == <<types, tscopes>>

(* Those of the predefined types a node can get, and what stands for the   *)
(* others when a type was never written.                                   *)
Types == {"none", "unknown", "int", "bool", "void"}

TypesOf(n) == IF n \in DOMAIN types THEN {types[n]} ELSE Types

Kid(k) == ast[Top.node].kids[k]

Typed(t) == types' = (Top.node :> t) @@ types

(* init_func_table: what the operators of the grammar are declared for.    *)
Declared(params) == params \in {<<"int", "int">>, <<"int">>}
-----------------------------------------------------------------------------
CheckValue ==
  /\ Called("value_of")
  /\ Typed(IF ast[Top.node].val \in Booleans THEN "bool" ELSE "int")
  /\ UNCHANGED tscopes

(* scope_get: a type that is TYPE_NONE_ID counts as a name not found. *)
TypeOfName(name) ==
  LET found == {d \in DOMAIN tscopes : name \in DOMAIN tscopes[d] /\ tscopes[d][name] # "none"}
  IN  IF found = {} THEN "unknown" ELSE tscopes[Max(found)][name]

CheckIdentifier ==
  \E op \in {"apply_identifier", "apply_identifier_ref"} :
    /\ OnNode(op)
    /\ LET t == TypeOfName(ast[Top.node].val)
       IN  IF t = "unknown"
           THEN Raised(op, "identifier is not defined") /\ UNCHANGED checker
           ELSE Called(op) /\ Typed(t) /\ UNCHANGED tscopes

CheckExpr ==
  /\ OnNode("apply_expr")
  /\ \E l \in TypesOf(Kid(1)), r \in TypesOf(Kid(2)) :
       IF Declared(<<l, r>>)
       THEN Called("apply_expr") /\ Typed("int") /\ UNCHANGED tscopes
       ELSE Raised("apply_expr", "operator is not defined for types") /\ UNCHANGED checker

CheckUExpr ==
  /\ OnNode("apply_uexpr")
  /\ \E t \in TypesOf(Kid(1)) :
       IF Declared(<<t>>)
       THEN Called("apply_uexpr") /\ Typed("int") /\ UNCHANGED tscopes
       ELSE Raised("apply_uexpr", "operator is not defined for type") /\ UNCHANGED checker

CheckIfCond ==
  /\ OnNode("apply_if_cond")
  /\ \/ "bool" \in TypesOf(Kid(1)) /\ Called("apply_if_cond")
     \/ TypesOf(Kid(1)) # {"bool"} /\ Raised("apply_if_cond", "condition is not a bool expression")
  /\ UNCHANGED checker

(* Both arms are always visited. *)
CheckBoth == Decided(TRUE, TRUE) /\ UNCHANGED checker

CheckIfPost == Called("apply_if_post") /\ Typed("void") /\ UNCHANGED tscopes

CheckIfExprPost ==
  /\ OnNode("apply_ifexpr_post")
  /\ IF Kid(3) = NULL
     THEN Raised("apply_ifexpr_post", "requires both branches") /\ UNCHANGED checker
     ELSE \E t \in TypesOf(Kid(2)), e \in TypesOf(Kid(3)) :
            IF t = e
            THEN Called("apply_ifexpr_post") /\ Typed(t) /\ UNCHANGED tscopes
            ELSE Raised("apply_ifexpr_post", "branches must provide the same type") /\ UNCHANGED checker

(* scope_put: the name, whether the scope has it already or not. *)
ScopePut(scope, name, t) ==
  [x \in DOMAIN scope \cup {name} |-> IF x = name THEN t ELSE scope[x]]

(* The innermost scope gets the name. *)
CheckDefine ==
  /\ OnNode("apply_define")
  /\ \E t \in TypesOf(Kid(2)) :
       IF t = "unknown"
       THEN Raised("apply_define", "undefined type of initializing expression") /\ UNCHANGED checker
       ELSE /\ Called("apply_define")
            /\ tscopes' = [tscopes EXCEPT ![Len(tscopes)] = ScopePut(@, ast[Kid(1)].val, t)]
            /\ types' = (Top.node :> "none") @@ (Kid(1) :> t) @@ types

CheckAssign == Called("apply_assign") /\ Typed("void") /\ UNCHANGED tscopes

CheckEcho == Called("apply_echo") /\ UNCHANGED checker

CheckScopePush ==
  Called("scope_push_new") /\ tscopes' = Append(tscopes, <<>>) /\ UNCHANGED types

(* Mistake: the scope of a block outlives it. *)
CheckScopePopNothing == Called("scope_pop") /\ UNCHANGED checker

CheckScopePop ==
  Called("scope_pop") /\ tscopes' = SubSeq(tscopes, 1, Len(tscopes) - 1) /\ UNCHANGED types

CheckInit == types = <<>> /\ tscopes = <<>>

(* checker_new, and the walk that starts with it. *)
CheckBegin == Begin /\ types' = <<>> /\ tscopes' = <<>>

CheckStep ==
  \/ CheckValue \/ CheckIdentifier \/ CheckExpr \/ CheckUExpr \/ CheckIfCond \/ CheckBoth
  \/ CheckIfPost \/ CheckIfExprPost \/ CheckDefine \/ CheckAssign \/ CheckEcho
  \/ CheckScopePush \/ CheckScopePop
  \/ (Descend \/ Skip \/ Misplaced \/ End) /\ UNCHANGED checker
=============================================================================
