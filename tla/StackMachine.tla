---------------------------- MODULE StackMachine ----------------------------
(***************************************************************************)
(* The stack machine of vm.c: commands and strings are added to it, then   *)
(* vm_execute runs the commands from the entry point for a number of       *)
(* steps.  Addresses are counted in bytes.  A word is an address or an     *)
(* integer that wraps; the pool lies at the address PoolBase.              *)
(* A command has as many operands as its executor reads; of the commands   *)
(* that have no executor there is one, BC_JUMP.                            *)
(***************************************************************************)
EXTENDS Integers, Sequences, SequencesExt

CONSTANTS
  PoolLen, CodeLen, StackLen, \* the arguments of vm_new
  Word,        \* sizeof(uint64_t), sizeof(VMArray) and its alignment
  Half,        \* 2^63: the integers are -Half .. Half - 1, the words 0 .. 2 * Half - 1
  PoolBase,    \* the address of the pool
  Numbers,     \* the operands of BC_PUSH
  Lengths,     \* the lengths of the strings
  Steps,       \* how many steps vm_execute is given
  MaxCommands, \* bound: the calls of vm_add_command
  MaxStrings,  \* bound: those of vm_add_string
  MaxCalls     \* bound: those of vm_execute

ASSUME LengthsAssumption ==
  /\ {PoolLen, CodeLen, StackLen, MaxCommands, MaxStrings, MaxCalls} \subseteq Nat
  /\ Lengths \subseteq Nat /\ Steps \subseteq Nat
  /\ Word \in Nat \ {0} /\ Half \in Nat \ {0}

ASSUME PoolAssumption == PoolBase \in Nat \ {0} /\ PoolBase + PoolLen < Half
ASSUME NumbersAssumption == Numbers \subseteq -Half .. Half - 1

VARIABLES
  commands, \* the code: the commands that were added, each at its address
  strings,  \* the pool: offset and length of the strings in it
  answers,  \* what vm_add_string has returned
  vm,       \* the operand stack, ip, stopped, error, and what was printed
  steps,    \* what is left of the steps of vm_execute
  state,    \* "idle", "executing", or "dead": the process was killed
  returned, \* what vm_execute returned last
  calls     \* how often it was called

loaded == <<commands, strings, answers>>
vars   == <<loaded, vm, steps, state, returned, calls>>

Modulus   == 2 * Half
Unsigned(x) == x % Modulus
Signed(x)   == IF Unsigned(x) < Half THEN Unsigned(x) ELSE Unsigned(x) - Modulus
MinInt    == -Half
NoOffset  == Modulus - 1 \* (size_t)-1

NoError == "none"

Init ==
  /\ commands = <<>> /\ strings = <<>> /\ answers = {}
  /\ vm = [stack |-> <<>>, ip |-> 0, stopped |-> FALSE, error |-> NoError, printed |-> <<>>]
  /\ steps = 0 /\ state = "idle" /\ returned = "none" /\ calls = 0

Fail(m, message) == [m EXCEPT !.stopped = TRUE, !.error = message]
-----------------------------------------------------------------------------
(* vm_add_command *)
WithOperand == {"BC_PUSH", "BC_CONST", "BC_CONSTA", "BC_JUMP"}

Size(kind) == IF kind \in WithOperand THEN 1 + Word ELSE 1

AddCodePtr == IF commands = <<>> THEN 0 ELSE Last(commands).at + Size(Last(commands).kind)

AddCommand(kind, operand) ==
  /\ state = "idle" /\ Len(commands) < MaxCommands
  /\ IF AddCodePtr + Size(kind) > CodeLen
     THEN vm' = Fail(vm, "code overflow") /\ UNCHANGED commands
     ELSE /\ commands' = Append(commands, [at |-> AddCodePtr, kind |-> kind, op |-> operand])
          /\ UNCHANGED vm
  /\ UNCHANGED <<strings, answers, steps, state, returned, calls>>

(* vm_add_string: the length, the characters and a NUL, aligned.  NULL is  *)
(* the string of length -1.                                                *)
(* A definition marked "Mistake" is the one that follows it with a bug the *)
(* code could well have; nothing uses it but the check of the properties.  *)

(* Mistake: the NUL at the end is not counted. *)
PoolIdxAtNul == IF strings = <<>> THEN 0 ELSE Last(strings).off + Word + Last(strings).len

AddPoolIdx == IF strings = <<>> THEN 0 ELSE Last(strings).off + Word + Last(strings).len + 1

Aligned(idx) == ((idx + Word - 1) \div Word) * Word

NullString == -1

(* Mistake: a string that does not fit is not added, that is all. *)
RefuseString(len) ==
  /\ state = "idle" /\ Len(strings) < MaxStrings
  /\ LET off == Aligned(AddPoolIdx)
     IN  IF len = NullString \/ off + Word + len + 1 > PoolLen
         THEN /\ answers' = answers \cup {NoOffset}
              /\ UNCHANGED <<strings, vm>>
         ELSE /\ strings' = Append(strings, [off |-> off, len |-> len])
              /\ answers' = answers \cup {off}
              /\ UNCHANGED vm
  /\ UNCHANGED <<commands, steps, state, returned, calls>>

AddString(len) ==
  /\ state = "idle" /\ Len(strings) < MaxStrings
  /\ LET off == Aligned(AddPoolIdx)
     IN  IF len = NullString \/ off + Word + len + 1 > PoolLen
         THEN /\ vm' = Fail(vm, "pool overflow")
              /\ answers' = answers \cup {NoOffset}
              /\ UNCHANGED strings
         ELSE /\ strings' = Append(strings, [off |-> off, len |-> len])
              /\ answers' = answers \cup {off}
              /\ UNCHANGED vm
  /\ UNCHANGED <<commands, steps, state, returned, calls>>
-----------------------------------------------------------------------------
(* pop_slot and push_slot; a machine that has stopped ignores them. *)
Popped(m) == IF m.stopped \/ m.stack = <<>> THEN 0 ELSE Last(m.stack)

Pop(m) ==
  IF m.stopped THEN m
  ELSE IF m.stack = <<>> THEN Fail(m, "stack underflow")
  ELSE [m EXCEPT !.stack = Front(@)]

(* Mistake: what failed already pushes its result. *)
PushAnyway(m, x) ==
  IF Len(m.stack) >= StackLen THEN Fail(m, "stack overflow")
  ELSE [m EXCEPT !.stack = Append(@, x)]

(* Mistake: there is one place more than there is. *)
PushOnTop(m, x) ==
  IF m.stopped THEN m
  ELSE IF Len(m.stack) > StackLen THEN Fail(m, "stack overflow")
  ELSE [m EXCEPT !.stack = Append(@, x)]

Push(m, x) ==
  IF m.stopped THEN m
  ELSE IF Len(m.stack) >= StackLen THEN Fail(m, "stack overflow")
  ELSE [m EXCEPT !.stack = Append(@, x)]

(* The operand of the command at ip, when it is all in the code. *)
OperandFits(m) == CodeLen - m.ip >= Word

(* Mistake: a value that was pushed is not stepped over. *)
StayBehind(m, x) == Push(m, x)

(* push_slot, and over the operand if that went well. *)
PushOver(m, x) ==
  LET pushed == Push(m, x) IN IF pushed.stopped THEN pushed ELSE [pushed EXCEPT !.ip = @ + Word]

InPool(offset) == Unsigned(offset + Word) <= PoolLen

(* The eight bytes at an offset: the length of the string that is there. *)
LengthAt(offset) ==
  LET at == {k \in DOMAIN strings : strings[k].off = offset}
  IN  IF at = {} THEN 0 ELSE strings[CHOOSE k \in at : TRUE].len

(* What printf("%s") finds at an address of the pool. *)
StringAt(address) ==
  LET at == {k \in DOMAIN strings : PoolBase + strings[k].off + Word = address}
  IN  IF at = {} THEN <<"bytes">> ELSE <<"string", CHOOSE k \in at : TRUE>>
-----------------------------------------------------------------------------
(* The executors: the machine after one of them. *)
ExecPush(m, operand) ==
  IF OperandFits(m) THEN PushOver(m, operand) ELSE Fail(m, "ip overflow")

ExecConst(m, offset) ==
  IF ~OperandFits(m) THEN Fail(m, "ip overflow")
  ELSE IF ~InPool(offset) THEN Fail(m, "offset overflow")
  ELSE PushOver(m, LengthAt(offset))

ExecConsta(m, offset) ==
  IF ~OperandFits(m) THEN Fail(m, "ip overflow")
  ELSE IF ~InPool(offset) THEN Fail(m, "offset overflow")
  ELSE PushOver(m, PoolBase + offset)

ExecNot(m) == Push(Pop(m), IF Popped(m) = 0 THEN 1 ELSE 0)
ExecDup(m) == Push(Push(Pop(m), Popped(m)), Popped(m))

Binary(m, result) == Push(Pop(Pop(m)), Signed(result))
First(m)  == Popped(m)
Second(m) == Popped(Pop(m))

ExecAdd(m) == Binary(m, First(m) + Second(m))
ExecSub(m) == Binary(m, Second(m) - First(m))
ExecMul(m) == Binary(m, First(m) * Second(m))

(* C rounds towards zero. *)
Abs(x) == IF x < 0 THEN -x ELSE x
Quotient(a, b) ==
  IF a < 0 <=> b < 0 THEN Abs(a) \div Abs(b) ELSE -(Abs(a) \div Abs(b))

(* Mistake: the zero that was popped is not put back. *)
LoseDivisor(m) ==
  LET popped == Pop(m)
  IN  IF popped.stopped THEN popped
      ELSE IF First(m) = 0 THEN Fail(popped, "division by zero")
      ELSE Binary(m, Quotient(Second(m), First(m)))

ExecDiv(m) ==
  LET popped == Pop(m)
  IN  IF popped.stopped THEN popped
      ELSE IF First(m) = 0 THEN Fail(Push(popped, 0), "division by zero")
      ELSE Binary(m, Quotient(Second(m), First(m)))

(* The one quotient that is no word: the processor traps. *)
Traps(m) == Len(m.stack) >= 2 /\ First(m) = -1 /\ Second(m) = MinInt

ExecArrbeg(m) ==
  LET popped == Pop(m)
  IN  IF popped.stopped THEN popped
      ELSE IF Popped(m) = 0 THEN Fail(popped, "null array")
      ELSE Push(popped, Signed(Popped(m) + Word))

Echo(m, what) == [m EXCEPT !.printed = Append(@, what)]

ExecEchoi(m) ==
  LET popped == Pop(m)
  IN  IF popped.stopped THEN popped ELSE Echo(popped, <<"number", Popped(m)>>)

ExecEchos(m) ==
  LET popped == Pop(m)
  IN  IF popped.stopped THEN popped
      ELSE IF Popped(m) = 0 THEN Fail(popped, "null string")
      ELSE Echo(popped, StringAt(Popped(m)))

Wild(m) == m.stack # <<>> /\ Popped(m) \notin {0} \cup (PoolBase .. PoolBase + PoolLen - 1)

ExecHalt(m) == [m EXCEPT !.stopped = TRUE]
-----------------------------------------------------------------------------
(* vm_execute: from the entry point on, whatever was run before. *)
Execute(n) ==
  /\ state = "idle" /\ calls < MaxCalls
  /\ state' = "executing" /\ steps' = n /\ calls' = calls + 1
  /\ vm' = [vm EXCEPT !.ip = 0]
  /\ UNCHANGED <<loaded, returned>>

(* The steps are over or the machine has stopped. *)
Finish ==
  /\ state = "executing" /\ (steps = 0 \/ vm.stopped)
  /\ returned' = IF vm.error # NoError THEN "VM_STATE_ERROR"
                 ELSE IF vm.stopped THEN "VM_STATE_STOPPED" ELSE "VM_STATE_RUNNING"
  /\ state' = "idle" /\ steps' = 0
  /\ UNCHANGED <<loaded, vm, calls>>

Turn == state = "executing" /\ steps > 0 /\ ~vm.stopped

(* These two return an error and do not stop the machine. *)
GiveUp(m, message) ==
  /\ vm' = [m EXCEPT !.error = message]
  /\ returned' = "VM_STATE_ERROR" /\ state' = "idle" /\ steps' = 0
  /\ UNCHANGED <<loaded, calls>>

CodeEnds == Turn /\ vm.ip >= CodeLen /\ GiveUp(vm, "ip overflow")

(* The byte behind ip when a command starts there; the rest of the code is *)
(* zero, which is BC_HALT.                                                 *)
KindAt(ip) ==
  LET at == {k \in DOMAIN commands : commands[k].at = ip}
  IN  IF at # {} THEN commands[CHOOSE k \in at : TRUE].kind
      ELSE IF ip >= AddCodePtr THEN "BC_HALT" ELSE "operand"

Operand == commands[CHOOSE k \in DOMAIN commands : commands[k].at = vm.ip].op

Fetched == [vm EXCEPT !.ip = @ + 1]

NoExecutor ==
  /\ Turn /\ vm.ip < CodeLen /\ KindAt(vm.ip) = "BC_JUMP"
  /\ GiveUp(Fetched, "no executor")

At(kind) == Turn /\ vm.ip < CodeLen /\ KindAt(vm.ip) = kind

Run(m) ==
  /\ vm' = m /\ steps' = steps - 1
  /\ UNCHANGED <<loaded, state, returned, calls>>

Dies ==
  /\ state' = "dead" /\ steps' = 0
  /\ UNCHANGED <<loaded, vm, returned, calls>>

Halt   == At("BC_HALT")   /\ Run(ExecHalt(Fetched))
PushOp == At("BC_PUSH")   /\ Run(ExecPush(Fetched, Operand))
Const  == At("BC_CONST")  /\ Run(ExecConst(Fetched, Operand))
Consta == At("BC_CONSTA") /\ Run(ExecConsta(Fetched, Operand))
Not    == At("BC_NOT")    /\ Run(ExecNot(Fetched))
Dup    == At("BC_DUP")    /\ Run(ExecDup(Fetched))
Add    == At("BC_ADD")    /\ Run(ExecAdd(Fetched))
Sub    == At("BC_SUB")    /\ Run(ExecSub(Fetched))
Mul    == At("BC_MUL")    /\ Run(ExecMul(Fetched))
Div    == At("BC_DIV")    /\ IF Traps(vm) THEN Dies ELSE Run(ExecDiv(Fetched))
Arrbeg == At("BC_ARRBEG") /\ Run(ExecArrbeg(Fetched))
Echoi  == At("BC_ECHOI")  /\ Run(ExecEchoi(Fetched))

(* Printing what is at a wild address is undefined: here the process dies. *)
Echos  == At("BC_ECHOS")  /\ IF Wild(vm) THEN Dies ELSE Run(ExecEchos(Fetched))

Load ==
  \/ \E kind \in {"BC_HALT", "BC_NOT", "BC_DUP", "BC_ADD", "BC_SUB", "BC_MUL", "BC_DIV",
                   "BC_ARRBEG", "BC_ECHOI", "BC_ECHOS", "BC_JUMP"} : AddCommand(kind, 0)
  \/ \E number \in Numbers : AddCommand("BC_PUSH", number)
  \/ \E kind \in {"BC_CONST", "BC_CONSTA"}, offset \in answers : AddCommand(kind, offset)
  \/ \E len \in Lengths \cup {NullString} : AddString(len)

Next ==
  \/ Load \/ (\E n \in Steps : Execute(n)) \/ Finish \/ CodeEnds \/ NoExecutor
  \/ Halt \/ PushOp \/ Const \/ Consta \/ Not \/ Dup \/ Add \/ Sub \/ Mul \/ Div
  \/ Arrbeg \/ Echoi \/ Echos

Spec == Init /\ [][Next]_vars
-----------------------------------------------------------------------------
Words == -Half .. Half - 1

TypeOK ==
  /\ vm.stack \in Seq(Words) /\ Len(vm.stack) <= StackLen
  /\ vm.ip \in 0 .. CodeLen
  /\ vm.stopped \in BOOLEAN
  /\ state \in {"idle", "executing", "dead"} /\ steps \in Nat
  /\ answers \subseteq 0 .. Modulus - 1

(* What is executed is a command, and never a byte of an operand: as long  *)
(* as the machine goes on, ip is at a command that was added or behind     *)
(* them all (each executor steps over its operand itself, vm.c:43, 107,    *)
(* 125).                                                                   *)
FetchesCommands ==
  state = "executing" /\ ~vm.stopped =>
    vm.ip >= AddCodePtr \/ \E k \in DOMAIN commands : commands[k].at = vm.ip

(* The strings lie in the pool one behind the other, aligned, each with    *)
(* its length in front and its NUL behind it (vm.c:235-248).               *)
StringsAreApart ==
  \A k \in DOMAIN strings :
    /\ strings[k].off % Word = 0
    /\ strings[k].off + Word + strings[k].len + 1 <= PoolLen
    /\ \A l \in DOMAIN strings : l < k =>
         strings[l].off + Word + strings[l].len + 1 <= strings[k].off

(* An offset that an executor accepts is inside the pool.  Its own test    *)
(* wraps for the (size_t)-1 of a string that was refused (vm.c:98, 118):   *)
(* that the refusal stopped the machine is what keeps it out.              *)
PoolReadsAreInside ==
  Turn /\ vm.ip < CodeLen /\ KindAt(vm.ip) \in {"BC_CONST", "BC_CONSTA"} /\ InPool(Operand) =>
    Operand + Word <= PoolLen

(* An instruction that fails leaves no result behind, only operands it had *)
(* not popped yet (pop_slot and push_slot do nothing when the machine has  *)
(* stopped), and after a division by zero the zero that the message points *)
(* at is still there (vm.c:72-78).                                         *)
FailureLeavesNoResult ==
  [][~vm.stopped /\ vm'.stopped =>
       /\ IsPrefix(vm'.stack, vm.stack)
       /\ vm'.printed = vm.printed
       /\ vm'.error = "division by zero" => vm'.stack # <<>> /\ Last(vm'.stack) = 0]_vars
=============================================================================
