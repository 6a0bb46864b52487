----------------------------- MODULE Dictionary -----------------------------
(***************************************************************************)
(* What a map of hmap.h promises its callers: a dictionary whose calls     *)
(* take effect at once, one after the other.  A call of a key that is not  *)
(* there returns Zero, the (Type)0 of the macro, which is also a value.    *)
(***************************************************************************)
CONSTANTS Keys, Values, Zero

VARIABLES
  dict,   \* the entries
  call,   \* the call in progress, or Idle
  result  \* what the last call returned

Idle == [op |-> "none"]

Init == dict = <<>> /\ call = Idle /\ result = Zero

Invoke ==
  /\ call = Idle
  /\ \E op \in {"put", "get", "compute", "remove"}, k \in Keys, v \in Values :
       call' = [op |-> op, key |-> k, value |-> v]
  /\ UNCHANGED <<dict, result>>

Current(k) == IF k \in DOMAIN dict THEN dict[k] ELSE Zero

With(k, v) == [x \in DOMAIN dict \cup {k} |-> IF x = k THEN v ELSE dict[x]]
Without(k) == [x \in DOMAIN dict \ {k} |-> dict[x]]

Put ==
  /\ call.op = "put"
  /\ result' = Current(call.key)
  /\ dict' = With(call.key, call.value)
  /\ call' = Idle

Get ==
  /\ call.op = "get"
  /\ result' = Current(call.key)
  /\ call' = Idle
  /\ UNCHANGED dict

Compute ==
  /\ call.op = "compute"
  /\ LET v == IF call.key \in DOMAIN dict THEN dict[call.key] ELSE call.value
     IN  result' = v /\ dict' = With(call.key, v)
  /\ call' = Idle

Remove ==
  /\ call.op = "remove"
  /\ result' = Current(call.key)
  /\ dict' = Without(call.key)
  /\ call' = Idle

Free == call = Idle /\ dict' = <<>> /\ UNCHANGED <<call, result>>

Next == Invoke \/ Put \/ Get \/ Compute \/ Remove \/ Free

Spec == Init /\ [][Next]_<<dict, call, result>>
=============================================================================
