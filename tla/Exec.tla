-------------------------------- MODULE Exec --------------------------------
(***************************************************************************)
(* The interpreter (exec.c): the operations of a walk that runs the        *)
(* program, on an operand stack as big as the walker's task stack and a    *)
(* stack of scopes.  Words are Width bits wide (64 in the code).  An       *)
(* operation that fails leaves the machine as it was: the walk is over     *)
(* then, and all that is still done with the machine is to free it.        *)
(***************************************************************************)
EXTENDS Walker

CONSTANT Width

ASSUME WidthAssumption == Width \in Nat \ {0, 1}

VARIABLES
  operands, \* ExecMachine.stack, up to sp: integers, or the address of a value
  scopes,   \* ExecMachine.scope, the innermost last: names to values
  echoed    \* what was printed

machine == <<operands, scopes, echoed>>

(* Arithmetic is done unsigned and read back as two's complement. *)
Half    == 2 ^ (Width - 1)
Wrap(x) == ((x + Half) % (2 * Half)) - Half

(* C rounds a quotient to zero; a division by -1 is a negation that wraps. *)
Abs(x) == IF x < 0 THEN -x ELSE x
Quotient(a, b) ==
  IF b = -1 THEN Wrap(-a)
  ELSE IF (a < 0) = (b < 0) THEN Abs(a) \div Abs(b) ELSE -(Abs(a) \div Abs(b))

Result(op, a, b) ==
  CASE op = "-" -> Wrap(a - b)
    [] op = "+" -> Wrap(a + b)
    [] op = "*" -> Wrap(a * b)
    [] op = "/" -> Quotient(a, b)

Word(b) == IF b THEN 1 ELSE 0

(* strtoll: the number a literal says, if it fits. *)
Reads(literal) == {v \in 0 .. Half - 1 : ToString(v) = literal}
-----------------------------------------------------------------------------
Val  == ast[Top.node].val
Last1 == operands[Len(operands)]
Last2 == operands[Len(operands) - 1]

Scope == scopes[Len(scopes)]

(* scope_get_descriptor: where a name is found, from the innermost scope.  *)
Found(name) == {d \in DOMAIN scopes : name \in DOMAIN scopes[d]}

(* Mistake: the search begins at the outermost scope. *)
WhereOutermost(name) == CHOOSE d \in Found(name) : \A c \in Found(name) : d <= c

Where(name) == Max(Found(name))

(* What the operations take from the operand stack; the descision for the  *)
(* then_arm gives back what the one for the else_arm takes again.          *)
Pops(op) ==
  CASE op \in {"apply_expr", "apply_assign"} -> 2
    [] op \in {"apply_uexpr", "apply_if_cond", "descisions", "apply_echo", "apply_define"} -> 1
    [] OTHER -> 0

Rest(op) == SubSeq(operands, 1, Len(operands) - Pops(op))

Holds(op) == Len(operands) >= Pops(op)

Underflow ==
  /\ \E op \in Operations \cup {"descisions"} :
       Pops(op) > 0 /\ ~Holds(op) /\ Raised(op, "stack underflow")
  /\ UNCHANGED machine

(* An operation that leaves v on the stack. *)
Pushed(op, v) ==
  IF Len(Rest(op)) < Slots
  THEN Called(op) /\ operands' = Append(Rest(op), v) /\ UNCHANGED <<scopes, echoed>>
  ELSE Raised(op, "stack overflow") /\ UNCHANGED machine

Unknown(op, message) ==
  OnNode(op) /\ Found(Val) = {} /\ Raised(op, message) /\ UNCHANGED machine
-----------------------------------------------------------------------------
ValueOf ==
  /\ OnNode("value_of")
  /\ \/ Val \in Booleans /\ Pushed("value_of", Word(Val = "true"))
     \/ \E v \in Reads(Val) : Pushed("value_of", v)
     \/ /\ Val \notin Booleans /\ Reads(Val) = {}
        /\ Raised("value_of", "failed to convert string to integer") /\ UNCHANGED machine

ApplyIdentifier ==
  \/ Unknown("apply_identifier", "value fetch failed: undefined name")
  \/ /\ OnNode("apply_identifier") /\ Found(Val) # {}
     /\ Pushed("apply_identifier", scopes[Where(Val)][Val])

ApplyIdentifierRef ==
  \/ Unknown("apply_identifier_ref", "reference fetch failed: undefined name")
  \/ /\ OnNode("apply_identifier_ref") /\ Found(Val) # {}
     /\ Pushed("apply_identifier_ref", <<Where(Val), Val>>)

ApplyExpr ==
  /\ OnNode("apply_expr") /\ Holds("apply_expr")
  /\ IF Val = "/" /\ Last1 = 0
     THEN Raised("apply_expr", "division by zero") /\ UNCHANGED machine
     ELSE Pushed("apply_expr", Result(Val, Last2, Last1))

ApplyUExpr ==
  OnNode("apply_uexpr") /\ Holds("apply_uexpr") /\ Pushed("apply_uexpr", Wrap(-Last1))

ApplyIfCond ==
  OnNode("apply_if_cond") /\ Holds("apply_if_cond") /\ Pushed("apply_if_cond", Word(Last1 # 0))

(* Mistake: the descision for the else_arm only looks at the condition.    *)
DescideLooking ==
  /\ OnNode("descisions") /\ Holds("descisions")
  /\ Decided(Last1 # 0, Last1 = 0)
  /\ operands' = IF Last1 = 0 THEN operands ELSE Rest("descisions")
  /\ UNCHANGED <<scopes, echoed>>

Descide ==
  /\ OnNode("descisions") /\ Holds("descisions")
  /\ Decided(Last1 # 0, Last1 = 0)
  /\ operands' = Rest("descisions")
  /\ UNCHANGED <<scopes, echoed>>

(* Nothing is done when an if is over. *)
IfPost ==
  /\ Called("apply_if_post") \/ Called("apply_ifexpr_post")
  /\ UNCHANGED machine

ApplyEcho ==
  /\ OnNode("apply_echo") /\ Holds("apply_echo")
  /\ Called("apply_echo")
  /\ operands' = Rest("apply_echo") /\ echoed' = Append(echoed, Last1)
  /\ UNCHANGED scopes

(* scope_add_descriptor *)
ScopeAdd(scope, name, v) ==
  [x \in DOMAIN scope \cup {name} |-> IF x = name THEN v ELSE scope[x]]

(* The innermost scope must not know the name yet. *)
ApplyDefine ==
  /\ OnNode("apply_define") /\ Holds("apply_define")
  /\ LET name == ast[ast[Top.node].kids[1]].val
     IN  IF name \in DOMAIN Scope
         THEN Raised("apply_define", "name redefinition") /\ UNCHANGED machine
         ELSE /\ Called("apply_define")
              /\ operands' = Rest("apply_define")
              /\ scopes' = [scopes EXCEPT ![Len(scopes)] = ScopeAdd(@, name, Last1)]
              /\ UNCHANGED echoed

ApplyAssign ==
  /\ OnNode("apply_assign") /\ Holds("apply_assign")
  /\ Called("apply_assign")
  /\ operands' = Rest("apply_assign")
  /\ scopes' = [scopes EXCEPT ![Last1[1]][Last1[2]] = Last2]
  /\ UNCHANGED echoed

ScopePushNew ==
  /\ Called("scope_push_new")
  /\ scopes' = Append(scopes, <<>>)
  /\ UNCHANGED <<operands, echoed>>

ScopePop ==
  /\ Called("scope_pop")
  /\ scopes' = SubSeq(scopes, 1, Len(scopes) - 1)
  /\ UNCHANGED <<operands, echoed>>

ExecInit == operands = <<>> /\ scopes = <<>> /\ echoed = <<>>

(* exec_new, and the walk that starts with it. *)
ExecBegin == Begin /\ operands' = <<>> /\ scopes' = <<>> /\ echoed' = <<>>

ExecStep ==
  \/ ValueOf \/ ApplyIdentifier \/ ApplyIdentifierRef \/ ApplyExpr \/ ApplyUExpr
  \/ ApplyIfCond \/ Descide \/ IfPost \/ ApplyEcho \/ ApplyDefine \/ ApplyAssign
  \/ ScopePushNew \/ ScopePop \/ Underflow
  \/ (Descend \/ Skip \/ Misplaced \/ End) /\ UNCHANGED machine
=============================================================================
