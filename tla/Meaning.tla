------------------------------ MODULE Meaning ------------------------------
(***************************************************************************)
(* What a program means, said without a stack: each node takes the names   *)
(* that are known to a result.  A name of a block hides one outside of it  *)
(* and is forgotten at its end; values are words as in module Exec.        *)
(***************************************************************************)
EXTENDS Exec

(* names: the values of all the names that are known; own: the ones the    *)
(* innermost block has defined.                                            *)
Fine(names, own, out, value) ==
  [error |-> "success", names |-> names, own |-> own, out |-> out, value |-> value]

Start == Fine(<<>>, {}, <<>>, 0)

Error(s, message) == [s EXCEPT !.error = message]
Valued(s, v)      == [s EXCEPT !.value = v]

RECURSIVE Meaning(_, _, _)
RECURSIVE InTurn(_, _, _)

(* The nodes one after the other, as long as there is no error. *)
InTurn(t, nodes, s) ==
  IF nodes = <<>> \/ s.error # "success" THEN s
  ELSE InTurn(t, Tail(nodes), Meaning(t, Head(nodes), s))

Meaning(t, n, s) ==
  LET kids == t[n].kids
      val  == t[n].val
      one  == Meaning(t, kids[1], s)
      two  == Meaning(t, kids[2], one)
      last == Meaning(t, kids[2], s)
  IN
  CASE t[n].kind = "value" ->
         IF val \in Booleans THEN Valued(s, Word(val = "true"))
         ELSE IF \E v \in 0 .. Half - 1 : ToString(v) = val
              THEN Valued(s, CHOOSE v \in 0 .. Half - 1 : ToString(v) = val)
         ELSE Error(s, "failed to convert string to integer")
    [] t[n].kind = "id" ->
         IF val \in DOMAIN s.names THEN Valued(s, s.names[val])
         ELSE Error(s, "value fetch failed: undefined name")
    [] t[n].kind = "uexpr" -> IF one.error # "success" THEN one ELSE Valued(one, Wrap(-one.value))
    [] t[n].kind = "expr" ->
         IF one.error # "success" THEN one
         ELSE IF two.error # "success" THEN two
         ELSE IF val = "/" /\ two.value = 0 THEN Error(two, "division by zero")
         ELSE Valued(two, Result(val, one.value, two.value))
    [] t[n].kind \in {"if", "ifexpr"} ->
         IF one.error # "success" THEN one
         ELSE IF one.value # 0 THEN two
         ELSE IF kids[3] = NULL THEN one
         ELSE Meaning(t, kids[3], one)
    [] t[n].kind = "echo" ->
         IF one.error # "success" THEN one ELSE [one EXCEPT !.out = Append(@, one.value)]
    [] t[n].kind = "define" ->
         LET name == t[kids[1]].val
         IN  IF last.error # "success" THEN last
             ELSE IF name \in last.own THEN Error(last, "name redefinition")
             ELSE [last EXCEPT !.names = (name :> last.value) @@ @, !.own = @ \cup {name}]
    [] t[n].kind = "assign" ->
         LET name == t[kids[1]].val
         IN  IF last.error # "success" THEN last
             ELSE IF name \notin DOMAIN last.names
                  THEN Error(last, "reference fetch failed: undefined name")
             ELSE [last EXCEPT !.names = [@ EXCEPT ![name] = last.value]]
    [] t[n].kind = "block" ->
         LET inside == InTurn(t, kids, [s EXCEPT !.own = {}])
         IN  [inside EXCEPT
                !.own   = s.own,
                !.names = [x \in DOMAIN s.names |-> IF x \in inside.own THEN s.names[x] ELSE @[x]]]

MeaningOf(t) == LET m == Meaning(t, Root(t), Start) IN <<m.error, m.out>>
=============================================================================
