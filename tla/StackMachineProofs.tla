------------------------- MODULE StackMachineProofs -------------------------
(***************************************************************************)
(* What holds of the stack machine of every size, of every program and of  *)
(* every pool: the operand stack stays inside, ip only stands where a      *)
(* command begins, no constant is read outside the pool, and what fails    *)
(* leaves no result.                                                       *)
(***************************************************************************)
EXTENDS StackMachine, TLAPS

Lines == ({"number"} \X Words) \cup ({"string"} \X Nat) \cup {<<"bytes">>}

Messages == {NoError, "code overflow", "pool overflow", "stack underflow", "stack overflow", "ip overflow",
             "offset overflow", "no executor", "division by zero", "null array", "null string"}

Machines == [stack : Seq(Words), ip : 0 .. CodeLen, stopped : BOOLEAN, error : Messages, printed : Seq(Lines)]

Fits(m) == m \in Machines /\ Len(m.stack) <= StackLen

Kinds == WithOperand \cup {"BC_HALT", "BC_NOT", "BC_DUP", "BC_ADD", "BC_SUB", "BC_MUL", "BC_DIV",
                           "BC_ARRBEG", "BC_ECHOI", "BC_ECHOS"}

(* What an executor makes of the machine m, which had not stopped: another *)
(* one, behind the operand if it goes on, and with no result if it stops.  *)
NoResult(m, n) ==
  /\ IsPrefix(n.stack, m.stack)
  /\ n.printed = m.printed
  /\ n.error = "division by zero" => n.stack # <<>> /\ Last(n.stack) = 0

Sound(m, n, over) ==
  /\ Fits(n)
  /\ ~n.stopped => n.ip = m.ip + over /\ n.error = m.error
  /\ n.stopped => NoResult(m, n)
-----------------------------------------------------------------------------
(* The words are closed under what the executors compute.                  *)
LEMMA WordFacts ==
  /\ 0 \in Words /\ 1 \in Words /\ Half \in Nat /\ Half > 1 /\ Modulus \in Nat
  /\ Words \subseteq Int
  /\ \A x \in Int : Signed(x) \in Words
<1>1. /\ Half \in Nat \ {0} /\ PoolBase \in Nat \ {0} /\ PoolLen \in Nat /\ PoolBase + PoolLen < Half
  BY LengthsAssumption, PoolAssumption
<1>2. Half > 1 /\ Modulus \in Nat /\ Modulus > 0 /\ Modulus = 2 * Half
  BY <1>1 DEF Modulus
<1>3. \A x \in Int : Signed(x) \in Words
  <2> TAKE x \in Int
  <2>1. x % Modulus \in 0 .. Modulus - 1
    BY <1>2
  <2> QED BY <1>1, <1>2, <2>1 DEF Signed, Unsigned, Words
<1> QED BY <1>1, <1>2, <1>3 DEF Words

(* A sequence whose elements are those of another, and no more, is its     *)
(* prefix.                                                                 *)
LEMMA PrefixByElements ==
  ASSUME NEW S, NEW s \in Seq(S), NEW t \in Seq(S), Len(s) <= Len(t),
         \A i \in 1 .. Len(s) : s[i] = t[i]
  PROVE  IsPrefix(s, t)
<1>1. /\ SubSeq(s, 1, Len(s)) \in Seq(S) /\ Len(SubSeq(s, 1, Len(s))) = Len(s)
      /\ \A i \in 1 .. Len(s) : SubSeq(s, 1, Len(s))[i] = s[i]
  OBVIOUS
<1>2. /\ SubSeq(t, 1, Len(s)) \in Seq(S) /\ Len(SubSeq(t, 1, Len(s))) = Len(s)
      /\ \A i \in 1 .. Len(s) : SubSeq(t, 1, Len(s))[i] = t[i]
  OBVIOUS
<1>3. SubSeq(s, 1, Len(s)) = SubSeq(t, 1, Len(s))
  BY <1>1, <1>2
<1> QED BY <1>3 DEF IsPrefix

LEMMA PrefixOfItself ==
  ASSUME NEW S, NEW s \in Seq(S)
  PROVE  IsPrefix(s, s)
BY PrefixByElements

LEMMA SubSeqFacts ==
  ASSUME NEW S, NEW s \in Seq(S), NEW n \in 0 .. Len(s)
  PROVE  /\ SubSeq(s, 1, n) \in Seq(S) /\ Len(SubSeq(s, 1, n)) = n
         /\ \A i \in 1 .. n : SubSeq(s, 1, n)[i] = s[i]
OBVIOUS

LEMMA FrontIsPrefix ==
  ASSUME NEW S, NEW s \in Seq(S), s # <<>>
  PROVE  /\ Front(s) \in Seq(S) /\ Len(Front(s)) = Len(s) - 1 /\ Last(s) \in S
         /\ IsPrefix(Front(s), s) /\ Len(s) > 0
         /\ Append(Front(s), Last(s)) = s
<1>1. Len(s) \in Nat /\ Len(s) > 0
  OBVIOUS
<1>2. /\ Front(s) \in Seq(S) /\ Len(Front(s)) = Len(s) - 1 /\ Last(s) \in S
      /\ \A i \in 1 .. Len(s) - 1 : Front(s)[i] = s[i]
  <2>1. s[Len(s)] \in S
    BY <1>1
  <2> DEFINE n == Len(s) - 1
  <2>2. n \in 0 .. Len(s) /\ n = Len(s) - 1
    BY <1>1
  <2>3. Front(s) = SubSeq(s, 1, n)
    BY DEF Front
  <2> HIDE DEF n
  <2>4. /\ SubSeq(s, 1, n) \in Seq(S) /\ Len(SubSeq(s, 1, n)) = n
        /\ \A i \in 1 .. n : SubSeq(s, 1, n)[i] = s[i]
    BY <2>2, SubSeqFacts
  <2> QED BY <2>1, <2>2, <2>3, <2>4 DEF Last
<1>3. IsPrefix(Front(s), s)
  <2>1. Len(Front(s)) <= Len(s) /\ \A i \in 1 .. Len(Front(s)) : Front(s)[i] = s[i]
    BY <1>1, <1>2
  <2> QED BY <2>1, <1>2, PrefixByElements
<1>4. Append(Front(s), Last(s)) = s
  <2> DEFINE a == Append(Front(s), Last(s))
  <2>1. a \in Seq(S) /\ Len(a) = Len(s)
    BY <1>1, <1>2
  <2>2. \A i \in 1 .. Len(s) : a[i] = s[i]
    BY <1>1, <1>2 DEF Last
  <2> QED BY <2>1, <2>2
<1> QED BY <1>1, <1>2, <1>3, <1>4
-----------------------------------------------------------------------------
(* pop_slot on a machine that goes on.                                     *)
LEMMA PopFacts ==
  ASSUME NEW m, Fits(m), ~m.stopped
  PROVE  /\ Fits(Pop(m)) /\ Popped(m) \in Words
         /\ Pop(m).printed = m.printed /\ IsPrefix(Pop(m).stack, m.stack)
         /\ m.stack = <<>> => Pop(m).stopped /\ Pop(m).error = "stack underflow"
         /\ m.stack # <<>> => /\ ~Pop(m).stopped /\ Pop(m).ip = m.ip /\ Pop(m).error = m.error
                              /\ Pop(m).stack = Front(m.stack) /\ Popped(m) = Last(m.stack)
                              /\ Len(Pop(m).stack) = Len(m.stack) - 1
<1>1. /\ m \in Machines /\ m.stack \in Seq(Words) /\ Len(m.stack) <= StackLen /\ m.stopped = FALSE
      /\ m.ip \in 0 .. CodeLen /\ m.error \in Messages /\ m.printed \in Seq(Lines)
  BY DEF Fits, Machines
<1>2. CASE m.stack = <<>>
  <2>1. Pop(m) = Fail(m, "stack underflow") /\ Popped(m) = 0
    BY <1>1, <1>2 DEF Pop, Popped
  <2>2. /\ Fail(m, "stack underflow").stack = m.stack /\ Fail(m, "stack underflow").stopped
        /\ Fail(m, "stack underflow").printed = m.printed
        /\ Fail(m, "stack underflow").error = "stack underflow"
        /\ Fail(m, "stack underflow") \in Machines
    BY <1>1 DEF Fail, Machines, Messages
  <2>3. IsPrefix(m.stack, m.stack)
    BY <1>1, PrefixOfItself
  <2> QED BY <1>1, <1>2, <2>1, <2>2, <2>3, WordFacts DEF Fits
<1>3. CASE m.stack # <<>>
  <2>1. Pop(m) = [m EXCEPT !.stack = Front(m.stack)] /\ Popped(m) = Last(m.stack)
    BY <1>1, <1>3 DEF Pop, Popped
  <2>2. /\ Front(m.stack) \in Seq(Words) /\ Len(Front(m.stack)) = Len(m.stack) - 1
        /\ Last(m.stack) \in Words /\ IsPrefix(Front(m.stack), m.stack)
    BY <1>1, <1>3, FrontIsPrefix
  <2>3. /\ [m EXCEPT !.stack = Front(m.stack)].stack = Front(m.stack)
        /\ ~[m EXCEPT !.stack = Front(m.stack)].stopped
        /\ [m EXCEPT !.stack = Front(m.stack)].printed = m.printed
        /\ [m EXCEPT !.stack = Front(m.stack)].ip = m.ip
        /\ [m EXCEPT !.stack = Front(m.stack)].error = m.error
        /\ [m EXCEPT !.stack = Front(m.stack)] \in Machines
    BY <1>1, <2>2 DEF Machines
  <2>4. Len(Front(m.stack)) <= StackLen
    BY <1>1, <2>2, LengthsAssumption
  <2>5. Fits(Pop(m)) /\ IsPrefix(Pop(m).stack, m.stack)
    BY <2>1, <2>2, <2>3, <2>4, Zenon DEF Fits
  <2> QED BY <1>3, <2>1, <2>2, <2>3, <2>5, Zenon
<1> QED BY <1>2, <1>3

(* push_slot on a machine that goes on.                                    *)
LEMMA PushFacts ==
  ASSUME NEW m, Fits(m), ~m.stopped, NEW x \in Words
  PROVE  /\ Fits(Push(m, x)) /\ Push(m, x).printed = m.printed
         /\ Len(m.stack) < StackLen =>
              /\ ~Push(m, x).stopped /\ Push(m, x).ip = m.ip /\ Push(m, x).error = m.error
              /\ Push(m, x).stack = Append(m.stack, x)
         /\ ~(Len(m.stack) < StackLen) =>
              /\ Push(m, x).stopped /\ Push(m, x).stack = m.stack
              /\ Push(m, x).error = "stack overflow"
<1>1. /\ m \in Machines /\ m.stack \in Seq(Words) /\ Len(m.stack) <= StackLen /\ m.stopped = FALSE
      /\ m.ip \in 0 .. CodeLen /\ m.error \in Messages /\ m.printed \in Seq(Lines)
      /\ Len(m.stack) \in Nat /\ StackLen \in Nat
  BY LengthsAssumption DEF Fits, Machines
<1>2. CASE Len(m.stack) < StackLen
  <2>0. ~(Len(m.stack) >= StackLen) /\ ~m.stopped
    BY <1>1, <1>2
  <2>1. Push(m, x) = [m EXCEPT !.stack = Append(m.stack, x)]
    BY <2>0, Zenon DEF Push
  <2>2. Append(m.stack, x) \in Seq(Words) /\ Len(Append(m.stack, x)) = Len(m.stack) + 1
    BY <1>1
  <2>3. /\ [m EXCEPT !.stack = Append(m.stack, x)].stack = Append(m.stack, x)
        /\ ~[m EXCEPT !.stack = Append(m.stack, x)].stopped
        /\ [m EXCEPT !.stack = Append(m.stack, x)].printed = m.printed
        /\ [m EXCEPT !.stack = Append(m.stack, x)].ip = m.ip
        /\ [m EXCEPT !.stack = Append(m.stack, x)].error = m.error
        /\ [m EXCEPT !.stack = Append(m.stack, x)] \in Machines
    BY <1>1, <2>2 DEF Machines
  <2>4. Len(Append(m.stack, x)) <= StackLen
    BY <1>1, <1>2, <2>2
  <2> QED BY <1>2, <2>1, <2>3, <2>4 DEF Fits
<1>3. CASE ~(Len(m.stack) < StackLen)
  <2>0. Len(m.stack) >= StackLen /\ ~m.stopped
    BY <1>1, <1>3
  <2>1. Push(m, x) = Fail(m, "stack overflow")
    BY <2>0, Zenon DEF Push
  <2>2. /\ Fail(m, "stack overflow").stack = m.stack /\ Fail(m, "stack overflow").stopped
        /\ Fail(m, "stack overflow").printed = m.printed
        /\ Fail(m, "stack overflow").error = "stack overflow"
        /\ Fail(m, "stack overflow") \in Machines
    BY <1>1 DEF Fail, Machines, Messages
  <2> QED BY <1>1, <1>3, <2>1, <2>2 DEF Fits
<1> QED BY <1>2, <1>3

(* A machine that has stopped ignores both.                                *)
LEMMA StoppedFacts ==
  ASSUME NEW m, m.stopped, NEW x
  PROVE  Pop(m) = m /\ Push(m, x) = m
BY DEF Pop, Push

(* An executor that fails and leaves the stack alone.                      *)
LEMMA FailSound ==
  ASSUME NEW m, Fits(m), ~m.stopped, NEW message \in Messages, message # "division by zero", NEW over
  PROVE  Sound(m, Fail(m, message), over) /\ Fail(m, message).stopped
<1>1. /\ m \in Machines /\ m.stack \in Seq(Words) /\ Len(m.stack) <= StackLen
  BY DEF Fits, Machines
<1>2. /\ Fail(m, message).stack = m.stack /\ Fail(m, message).stopped
      /\ Fail(m, message).printed = m.printed /\ Fail(m, message).error = message
      /\ Fail(m, message) \in Machines
  BY <1>1 DEF Fail, Machines, Messages
<1>3. IsPrefix(m.stack, m.stack)
  BY <1>1, PrefixOfItself
<1> QED BY <1>1, <1>2, <1>3 DEF Fits, Sound, NoResult
-----------------------------------------------------------------------------
LEMMA PrefixTransitive ==
  ASSUME NEW S, NEW s \in Seq(S), NEW t \in Seq(S), NEW u \in Seq(S), IsPrefix(s, t), IsPrefix(t, u)
  PROVE  IsPrefix(s, u)
<1>1. /\ Len(s) \in Nat /\ Len(t) \in Nat /\ Len(u) \in Nat /\ Len(s) <= Len(t) /\ Len(t) <= Len(u)
      /\ SubSeq(s, 1, Len(s)) = SubSeq(t, 1, Len(s)) /\ SubSeq(t, 1, Len(t)) = SubSeq(u, 1, Len(t))
  BY DEF IsPrefix
<1>2. Len(s) \in 0 .. Len(s) /\ Len(s) \in 0 .. Len(t) /\ Len(t) \in 0 .. Len(t) /\ Len(t) \in 0 .. Len(u)
  BY <1>1
<1>3. \A i \in 1 .. Len(s) : s[i] = t[i]
  BY <1>1, <1>2, SubSeqFacts
<1>4. \A i \in 1 .. Len(t) : t[i] = u[i]
  BY <1>1, <1>2, SubSeqFacts
<1>5. Len(s) <= Len(u) /\ \A i \in 1 .. Len(s) : s[i] = u[i]
  BY <1>1, <1>3, <1>4
<1> QED BY <1>5, PrefixByElements

(* A failure after a pop is a failure.                                     *)
LEMMA NoResultBehindPop ==
  ASSUME NEW m, Fits(m), ~m.stopped, NEW n, Fits(n), NoResult(Pop(m), n)
  PROVE  NoResult(m, n)
<1>1. /\ IsPrefix(Pop(m).stack, m.stack) /\ Pop(m).printed = m.printed /\ Fits(Pop(m))
  BY PopFacts
<1>2. m.stack \in Seq(Words) /\ n.stack \in Seq(Words) /\ Pop(m).stack \in Seq(Words)
  BY <1>1 DEF Fits, Machines
<1>3. IsPrefix(n.stack, m.stack)
  BY <1>1, <1>2, PrefixTransitive DEF NoResult
<1> QED BY <1>1, <1>3 DEF NoResult

(* The stack was empty.                                                    *)
LEMMA PopSound ==
  ASSUME NEW m, Fits(m), ~m.stopped, Pop(m).stopped, NEW over
  PROVE  Sound(m, Pop(m), over)
<1>1. m.stack = <<>>
  BY PopFacts
<1> QED BY <1>1, PopFacts DEF Sound, NoResult

LEMMA FirstFacts ==
  ASSUME NEW m, Fits(m), ~m.stopped
  PROVE  First(m) \in Words /\ Second(m) \in Words
<1>1. First(m) \in Words /\ Fits(Pop(m))
  BY PopFacts DEF First
<1>2. CASE Pop(m).stopped
  BY <1>1, <1>2, WordFacts DEF Second, Popped
<1>3. CASE ~Pop(m).stopped
  BY <1>1, <1>3, PopFacts DEF Second
<1> QED BY <1>1, <1>2, <1>3

LEMMA OnePopSound ==
  ASSUME NEW m, Fits(m), ~m.stopped, NEW x \in Words
  PROVE  Sound(m, Push(Pop(m), x), 0)
<1>1. CASE Pop(m).stopped
  BY <1>1, PopSound, StoppedFacts
<1>2. CASE ~Pop(m).stopped
  <2>1. /\ Fits(Pop(m)) /\ m.stack # <<>> /\ Pop(m).ip = m.ip /\ Pop(m).error = m.error
        /\ Len(Pop(m).stack) = Len(m.stack) - 1
    BY <1>2, PopFacts
  <2>2. Len(m.stack) \in Nat /\ Len(m.stack) <= StackLen /\ StackLen \in Nat /\ m.ip \in Nat
    BY LengthsAssumption DEF Fits, Machines
  <2>3. Len(Pop(m).stack) < StackLen
    BY <2>1, <2>2
  <2>4. /\ Fits(Push(Pop(m), x)) /\ ~Push(Pop(m), x).stopped
        /\ Push(Pop(m), x).ip = m.ip /\ Push(Pop(m), x).error = m.error
    BY <1>2, <2>1, <2>3, PushFacts
  <2> QED BY <2>2, <2>4 DEF Sound
<1> QED BY <1>1, <1>2

LEMMA BinarySound ==
  ASSUME NEW m, Fits(m), ~m.stopped, NEW result \in Int
  PROVE  Sound(m, Binary(m, result), 0)
<1> DEFINE x == Signed(result)
<1>1. x \in Words /\ Binary(m, result) = Push(Pop(Pop(m)), x)
  BY WordFacts DEF Binary
<1> HIDE DEF x
<1>2. CASE Pop(m).stopped
  <2>1. Push(Pop(Pop(m)), x) = Pop(m)
    BY <1>2, StoppedFacts
  <2> QED BY <1>1, <1>2, <2>1, PopSound
<1>3. CASE ~Pop(m).stopped
  <2>0. Fits(Pop(m)) /\ Pop(m).ip = m.ip /\ Pop(m).error = m.error
    BY <1>3, PopFacts
  <2>1. Fits(Pop(m)) /\ Pop(m).ip = m.ip /\ Pop(m).error = m.error /\ m.ip \in Nat
    BY <2>0 DEF Fits, Machines
  <2>2. Sound(Pop(m), Push(Pop(Pop(m)), x), 0)
    BY <1>1, <1>3, <2>1, OnePopSound
  <2>3. Fits(Push(Pop(Pop(m)), x))
    BY <2>2 DEF Sound
  <2>4. Push(Pop(Pop(m)), x).stopped => NoResult(m, Push(Pop(Pop(m)), x))
    BY <2>2, <2>3, NoResultBehindPop DEF Sound
  <2> QED BY <1>1, <2>1, <2>2, <2>3, <2>4 DEF Sound
<1> QED BY <1>2, <1>3

LEMMA ArithmeticSound ==
  ASSUME NEW m, Fits(m), ~m.stopped
  PROVE  /\ Sound(m, ExecAdd(m), 0) /\ Sound(m, ExecSub(m), 0) /\ Sound(m, ExecMul(m), 0)
         /\ Sound(m, ExecNot(m), 0)
<1>1. First(m) \in Int /\ Second(m) \in Int
  BY FirstFacts, WordFacts
<1>2. First(m) + Second(m) \in Int /\ Second(m) - First(m) \in Int /\ First(m) * Second(m) \in Int
  BY <1>1
<1>3. (IF Popped(m) = 0 THEN 1 ELSE 0) \in Words
  BY WordFacts
<1>4. Sound(m, ExecAdd(m), 0) /\ Sound(m, ExecSub(m), 0) /\ Sound(m, ExecMul(m), 0)
  BY <1>2, BinarySound DEF ExecAdd, ExecSub, ExecMul
<1>5. Sound(m, ExecNot(m), 0)
  BY <1>3, OnePopSound DEF ExecNot
<1> QED BY <1>4, <1>5

(* The top that was popped and pushed again is where it was.               *)
LEMMA PutBack ==
  ASSUME NEW m, Fits(m), ~m.stopped, ~Pop(m).stopped
  PROVE  /\ Fits(Push(Pop(m), Popped(m))) /\ ~Push(Pop(m), Popped(m)).stopped
         /\ Push(Pop(m), Popped(m)).stack = m.stack
         /\ Push(Pop(m), Popped(m)).printed = m.printed
         /\ Push(Pop(m), Popped(m)).ip = m.ip /\ Push(Pop(m), Popped(m)).error = m.error
<1>1. /\ m.stack # <<>> /\ Fits(Pop(m)) /\ Popped(m) \in Words /\ Popped(m) = Last(m.stack)
      /\ Pop(m).stack = Front(m.stack) /\ Pop(m).ip = m.ip /\ Pop(m).error = m.error
      /\ Pop(m).printed = m.printed /\ Len(Pop(m).stack) = Len(m.stack) - 1
  BY PopFacts
<1>2. m.stack \in Seq(Words) /\ Len(m.stack) \in Nat /\ Len(m.stack) <= StackLen /\ StackLen \in Nat
  BY LengthsAssumption DEF Fits, Machines
<1>3. Len(Pop(m).stack) < StackLen
  BY <1>1, <1>2
<1>4. Append(Front(m.stack), Last(m.stack)) = m.stack
  BY <1>1, <1>2, FrontIsPrefix
<1> QED BY <1>1, <1>3, <1>4, PushFacts

LEMMA DupSound ==
  ASSUME NEW m, Fits(m), ~m.stopped
  PROVE  Sound(m, ExecDup(m), 0)
<1> DEFINE p == Push(Pop(m), Popped(m))
<1>1. CASE Pop(m).stopped
  <2>1. ExecDup(m) = Pop(m)
    BY <1>1, StoppedFacts DEF ExecDup
  <2> QED BY <1>1, <2>1, PopSound
<1>2. CASE ~Pop(m).stopped
  <2>1. /\ Fits(p) /\ ~p.stopped /\ p.stack = m.stack /\ p.printed = m.printed
        /\ p.ip = m.ip /\ p.error = m.error
    BY <1>2, PutBack
  <2>0. Popped(m) \in Words
    BY PopFacts
  <2>2. Popped(m) \in Words /\ m.ip \in Nat /\ m.stack \in Seq(Words)
    BY <2>0 DEF Fits, Machines
  <2>3. ExecDup(m) = Push(p, Popped(m))
    BY DEF ExecDup
  <2>4. IsPrefix(m.stack, m.stack)
    BY <2>2, PrefixOfItself
  <2> HIDE DEF p
  <2>5. CASE Len(p.stack) < StackLen
    <3>1. /\ Fits(Push(p, Popped(m))) /\ ~Push(p, Popped(m)).stopped
          /\ Push(p, Popped(m)).ip = p.ip /\ Push(p, Popped(m)).error = p.error
      BY <2>1, <2>2, <2>5, PushFacts
    <3> QED BY <2>1, <2>2, <2>3, <3>1 DEF Sound
  <2>6. CASE ~(Len(p.stack) < StackLen)
    <3>1. /\ Fits(Push(p, Popped(m))) /\ Push(p, Popped(m)).stopped
          /\ Push(p, Popped(m)).stack = p.stack /\ Push(p, Popped(m)).printed = p.printed
          /\ Push(p, Popped(m)).error = "stack overflow"
      BY <2>1, <2>2, <2>6, PushFacts
    <3> QED BY <2>1, <2>3, <2>4, <3>1 DEF Sound, NoResult
  <2> QED BY <2>5, <2>6
<1> QED BY <1>1, <1>2

(* What ends in "division by zero" has put the zero back.                  *)
LEMMA DivSound ==
  ASSUME NEW m, Fits(m), ~m.stopped
  PROVE  Sound(m, ExecDiv(m), 0)
<1> DEFINE p == Push(Pop(m), Popped(m))
<1>1. CASE Pop(m).stopped
  <2>1. ExecDiv(m) = Pop(m)
    BY <1>1 DEF ExecDiv
  <2> QED BY <1>1, <2>1, PopSound
<1>2. CASE ~Pop(m).stopped /\ First(m) = 0
  <2>1. /\ Fits(p) /\ ~p.stopped /\ p.stack = m.stack /\ p.printed = m.printed
    BY <1>2, PutBack
  <2>2. m.stack # <<>> /\ Last(m.stack) = Popped(m)
    BY <1>2, PopFacts
  <2>3. Popped(m) = 0
    BY <1>2 DEF First
  <2>4. ExecDiv(m) = Fail(p, "division by zero")
    BY <1>2, <2>3 DEF ExecDiv
  <2> HIDE DEF p
  <2>5. /\ p \in Machines /\ p.stack \in Seq(Words) /\ Len(p.stack) <= StackLen
    BY <2>1 DEF Fits, Machines
  <2>6. /\ Fail(p, "division by zero").stack = p.stack /\ Fail(p, "division by zero").stopped
        /\ Fail(p, "division by zero").printed = p.printed
        /\ Fail(p, "division by zero") \in Machines
    BY <2>5 DEF Fail, Machines, Messages
  <2>7. IsPrefix(p.stack, m.stack)
    BY <2>1, <2>5, PrefixOfItself
  <2> QED BY <2>1, <2>2, <2>3, <2>4, <2>5, <2>6, <2>7 DEF Sound, NoResult, Fits
<1>3. CASE ~Pop(m).stopped /\ First(m) # 0
  <2>1. First(m) \in Int /\ Second(m) \in Int
    BY FirstFacts, WordFacts
  <2>2. Abs(First(m)) \in Nat \ {0} /\ Abs(Second(m)) \in Nat
    BY <1>3, <2>1 DEF Abs
  <2>3. Abs(Second(m)) \div Abs(First(m)) \in Int
    BY <2>2
  <2>4. Quotient(Second(m), First(m)) \in Int
    BY <2>3 DEF Quotient
  <2>5. ExecDiv(m) = Binary(m, Quotient(Second(m), First(m)))
    BY <1>3 DEF ExecDiv
  <2> QED BY <2>4, <2>5, BinarySound
<1> QED BY <1>1, <1>2, <1>3

LEMMA ArrbegSound ==
  ASSUME NEW m, Fits(m), ~m.stopped
  PROVE  Sound(m, ExecArrbeg(m), 0)
<1>1. CASE Pop(m).stopped
  <2>1. ExecArrbeg(m) = Pop(m)
    BY <1>1 DEF ExecArrbeg
  <2> QED BY <1>1, <2>1, PopSound
<1>2. CASE ~Pop(m).stopped /\ Popped(m) = 0
  <2>1. ExecArrbeg(m) = Fail(Pop(m), "null array")
    BY <1>2 DEF ExecArrbeg
  <2>2. Fits(Pop(m))
    BY PopFacts
  <2>3. "null array" \in Messages /\ "null array" # "division by zero"
    BY DEF Messages
  <2>4. Sound(Pop(m), Fail(Pop(m), "null array"), 0) /\ Fail(Pop(m), "null array").stopped
    BY <1>2, <2>2, <2>3, FailSound
  <2>5. NoResult(m, Fail(Pop(m), "null array"))
    BY <2>4, NoResultBehindPop DEF Sound
  <2> QED BY <2>1, <2>4, <2>5 DEF Sound
<1>3. CASE ~Pop(m).stopped /\ Popped(m) # 0
  <2>0. Popped(m) \in Words
    BY PopFacts
  <2>1. Popped(m) \in Int /\ Word \in Int
    <3>1. Popped(m) \in Int
      BY <2>0, WordFacts
    <3>2. Word \in Int
      BY LengthsAssumption
    <3> QED BY <3>1, <3>2
  <2>2. Signed(Popped(m) + Word) \in Words
    BY <2>1, WordFacts
  <2>3. ExecArrbeg(m) = Push(Pop(m), Signed(Popped(m) + Word))
    BY <1>3 DEF ExecArrbeg
  <2> QED BY <2>2, <2>3, OnePopSound
<1> QED BY <1>1, <1>2, <1>3

(* Printing.                                                               *)
LEMMA EchoSound ==
  ASSUME NEW m, Fits(m), ~m.stopped, ~Pop(m).stopped, NEW line \in Lines
  PROVE  Sound(m, Echo(Pop(m), line), 0)
<1>1. Fits(Pop(m)) /\ Pop(m).ip = m.ip /\ Pop(m).error = m.error
  BY PopFacts
<1> DEFINE p == Pop(m)
<1> HIDE DEF p
<1>2. Fits(p) /\ ~p.stopped /\ p.ip = m.ip /\ p.error = m.error
  BY <1>1 DEF p
<1>3. p \in Machines /\ Len(p.stack) <= StackLen /\ m.ip \in Nat /\ p.printed \in Seq(Lines)
  BY <1>2 DEF Fits, Machines
<1>4. Append(p.printed, line) \in Seq(Lines)
  BY <1>3
<1>5. /\ Echo(p, line) \in Machines /\ Echo(p, line).stack = p.stack
      /\ ~Echo(p, line).stopped /\ Echo(p, line).ip = p.ip /\ Echo(p, line).error = p.error
  BY <1>2, <1>3, <1>4 DEF Echo, Machines
<1>6. Sound(m, Echo(p, line), 0)
  BY <1>2, <1>3, <1>5 DEF Sound, Fits
<1> QED BY <1>6 DEF p

LEMMA EchoiSound ==
  ASSUME NEW m, Fits(m), ~m.stopped
  PROVE  Sound(m, ExecEchoi(m), 0)
<1>1. CASE Pop(m).stopped
  <2>1. ExecEchoi(m) = Pop(m)
    BY <1>1 DEF ExecEchoi
  <2> QED BY <1>1, <2>1, PopSound
<1>2. CASE ~Pop(m).stopped
  <2>1. Popped(m) \in Words
    BY PopFacts
  <2>2. <<"number", Popped(m)>> \in Lines
    BY <2>1 DEF Lines
  <2>3. ExecEchoi(m) = Echo(Pop(m), <<"number", Popped(m)>>)
    BY <1>2 DEF ExecEchoi
  <2> QED BY <1>2, <2>2, <2>3, EchoSound
<1> QED BY <1>1, <1>2

-----------------------------------------------------------------------------
(* The strings in the pool: their lengths are words, and what is printed   *)
(* of an address is a line.                                                *)
Placed == [off : Nat, len : Nat]

PoolOK ==
  /\ strings \in Seq(Placed)
  /\ StringsAreApart

LEMMA StringAtFacts ==
  ASSUME strings \in Seq(Placed), NEW address
  PROVE  StringAt(address) \in Lines
<1> DEFINE at == {k \in DOMAIN strings : PoolBase + strings[k].off + Word = address}
<1>1. StringAt(address) = IF at = {} THEN <<"bytes">> ELSE <<"string", CHOOSE k \in at : TRUE>>
  BY DEF StringAt
<1>2. at \subseteq Nat
  OBVIOUS
<1> HIDE DEF at
<1>3. CASE at = {}
  BY <1>1, <1>3 DEF Lines
<1>4. CASE at # {}
  <2> DEFINE k == CHOOSE k \in at : TRUE
  <2>1. k \in Nat
    BY <1>2, <1>4
  <2>2. StringAt(address) = <<"string", k>>
    BY <1>1, <1>4
  <2> HIDE DEF k
  <2>3. <<"string", k>> \in {"string"} \X Nat
    BY <2>1
  <2> QED BY <2>2, <2>3 DEF Lines
<1> QED BY <1>3, <1>4

LEMMA EchosSound ==
  ASSUME NEW m, Fits(m), ~m.stopped, strings \in Seq(Placed)
  PROVE  Sound(m, ExecEchos(m), 0)
<1>1. CASE Pop(m).stopped
  <2>1. ExecEchos(m) = Pop(m)
    BY <1>1 DEF ExecEchos
  <2> QED BY <1>1, <2>1, PopSound
<1>2. CASE ~Pop(m).stopped /\ Popped(m) = 0
  <2>1. ExecEchos(m) = Fail(Pop(m), "null string")
    BY <1>2 DEF ExecEchos
  <2>2. Fits(Pop(m))
    BY PopFacts
  <2>3. "null string" \in Messages /\ "null string" # "division by zero"
    BY DEF Messages
  <2>4. Sound(Pop(m), Fail(Pop(m), "null string"), 0) /\ Fail(Pop(m), "null string").stopped
    BY <1>2, <2>2, <2>3, FailSound
  <2>5. NoResult(m, Fail(Pop(m), "null string"))
    BY <2>4, NoResultBehindPop DEF Sound
  <2> QED BY <2>1, <2>4, <2>5 DEF Sound
<1>3. CASE ~Pop(m).stopped /\ Popped(m) # 0
  <2>1. ExecEchos(m) = Echo(Pop(m), StringAt(Popped(m)))
    BY <1>3 DEF ExecEchos
  <2>2. StringAt(Popped(m)) \in Lines
    BY StringAtFacts
  <2> QED BY <1>3, <2>1, <2>2, EchoSound
<1> QED BY <1>1, <1>2, <1>3

(* The eight bytes at the offset of a string are its length.               *)
LEMMA LengthAtFacts ==
  ASSUME PoolOK, NEW offset
  PROVE  LengthAt(offset) \in Words
<1> DEFINE at == {k \in DOMAIN strings : strings[k].off = offset}
<1>1. LengthAt(offset) = IF at = {} THEN 0 ELSE strings[CHOOSE k \in at : TRUE].len
  BY DEF LengthAt
<1>2. at \subseteq DOMAIN strings
  OBVIOUS
<1> HIDE DEF at
<1>3. CASE at = {}
  BY <1>1, <1>3, WordFacts
<1>4. CASE at # {}
  <2> DEFINE k == CHOOSE k \in at : TRUE
  <2>1. k \in DOMAIN strings
    BY <1>2, <1>4
  <2> HIDE DEF k
  <2>2. strings[k] \in Placed /\ strings[k].off + Word + strings[k].len + 1 <= PoolLen
    BY <2>1 DEF PoolOK, StringsAreApart
  <2>3. strings[k].len \in Nat /\ strings[k].off \in Nat
    BY <2>2 DEF Placed
  <2>4. strings[k].len < Half
    BY <2>2, <2>3, LengthsAssumption, PoolAssumption
  <2>5. strings[k].len \in Words
    BY <2>3, <2>4, LengthsAssumption DEF Words
  <2> QED BY <1>1, <1>4, <2>5 DEF k
<1> QED BY <1>3, <1>4

(* The executors with an operand.                                          *)
LEMMA PushOverSound ==
  ASSUME NEW m, Fits(m), ~m.stopped, OperandFits(m), NEW x \in Words
  PROVE  Sound(m, PushOver(m, x), Word)
<1> DEFINE p == Push(m, x)
<1>1. PushOver(m, x) = IF p.stopped THEN p ELSE [p EXCEPT !.ip = p.ip + Word]
  BY DEF PushOver
<1>2. /\ Fits(p) /\ p.printed = m.printed
      /\ ~p.stopped => p.ip = m.ip /\ p.error = m.error
      /\ p.stopped => p.stack = m.stack /\ p.error = "stack overflow"
  BY PushFacts
<1> HIDE DEF p
<1>3. /\ p \in Machines /\ Len(p.stack) <= StackLen /\ m.stack \in Seq(Words)
      /\ m.ip \in 0 .. CodeLen /\ m.ip \in Nat /\ CodeLen \in Nat /\ Word \in Nat
  <2>1. p \in Machines /\ Len(p.stack) <= StackLen
    BY <1>2 DEF Fits
  <2>2. m.stack \in Seq(Words) /\ m.ip \in 0 .. CodeLen
    BY DEF Fits, Machines
  <2>3. CodeLen \in Nat /\ Word \in Nat
    BY LengthsAssumption
  <2> QED BY <2>1, <2>2, <2>3
<1>4. IsPrefix(m.stack, m.stack)
  BY <1>3, PrefixOfItself
<1>5. CASE p.stopped
  BY <1>1, <1>2, <1>4, <1>5 DEF Sound, NoResult
<1>6. CASE ~p.stopped
  <2>0. m.ip + Word \in 0 .. CodeLen
    BY <1>3 DEF OperandFits
  <2>1. p.ip + Word \in 0 .. CodeLen
    BY <1>2, <1>6, <2>0
  <2>2. /\ [p EXCEPT !.ip = p.ip + Word] \in Machines
        /\ [p EXCEPT !.ip = p.ip + Word].ip = p.ip + Word
        /\ [p EXCEPT !.ip = p.ip + Word].stack = p.stack
        /\ [p EXCEPT !.ip = p.ip + Word].error = p.error
        /\ ~[p EXCEPT !.ip = p.ip + Word].stopped
    BY <1>3, <1>6, <2>1 DEF Machines
  <2> QED BY <1>1, <1>2, <1>3, <1>6, <2>2 DEF Sound, Fits
<1> QED BY <1>5, <1>6

LEMMA OperandSound ==
  ASSUME NEW m, Fits(m), ~m.stopped, PoolOK
  PROVE  /\ \A x \in Words : Sound(m, ExecPush(m, x), Word)
         /\ \A offset \in Nat : Sound(m, ExecConst(m, offset), Word)
         /\ \A offset \in Nat : offset + Word <= PoolLen => Sound(m, ExecConsta(m, offset), Word)
<1>1. /\ "ip overflow" \in Messages /\ "ip overflow" # "division by zero"
      /\ "offset overflow" \in Messages /\ "offset overflow" # "division by zero"
  BY DEF Messages
<1>2. Sound(m, Fail(m, "ip overflow"), Word) /\ Sound(m, Fail(m, "offset overflow"), Word)
  BY <1>1, FailSound
<1>3. ASSUME NEW x \in Words PROVE Sound(m, ExecPush(m, x), Word)
  <2>1. CASE OperandFits(m)
    BY <2>1, PushOverSound DEF ExecPush
  <2>2. CASE ~OperandFits(m)
    BY <1>2, <2>2 DEF ExecPush
  <2> QED BY <2>1, <2>2
<1>4. ASSUME NEW offset \in Nat PROVE Sound(m, ExecConst(m, offset), Word)
  <2>1. CASE OperandFits(m) /\ InPool(offset)
    <3>1. LengthAt(offset) \in Words
      BY LengthAtFacts
    <3>2. ExecConst(m, offset) = PushOver(m, LengthAt(offset))
      BY <2>1 DEF ExecConst
    <3> QED BY <2>1, <3>1, <3>2, PushOverSound
  <2>2. CASE ~OperandFits(m)
    BY <1>2, <2>2 DEF ExecConst
  <2>3. CASE OperandFits(m) /\ ~InPool(offset)
    BY <1>2, <2>3 DEF ExecConst
  <2> QED BY <2>1, <2>2, <2>3
<1>5. ASSUME NEW offset \in Nat, offset + Word <= PoolLen PROVE Sound(m, ExecConsta(m, offset), Word)
  <2>1. CASE OperandFits(m) /\ InPool(offset)
    <3>1. PoolBase + offset \in Words
      BY <1>5, LengthsAssumption, PoolAssumption DEF Words
    <3>2. ExecConsta(m, offset) = PushOver(m, PoolBase + offset)
      BY <2>1 DEF ExecConsta
    <3> QED BY <2>1, <3>1, <3>2, PushOverSound
  <2>2. CASE ~OperandFits(m)
    BY <1>2, <2>2 DEF ExecConsta
  <2>3. CASE OperandFits(m) /\ ~InPool(offset)
    BY <1>2, <2>3 DEF ExecConsta
  <2> QED BY <2>1, <2>2, <2>3
<1> QED BY <1>3, <1>4, <1>5

-----------------------------------------------------------------------------
(* The invariant.  FetchesCommands and PoolReadsAreInside are not          *)
(* inductive: which command ip reaches next depends on the code having no  *)
(* gap, and that an operand is inside the pool on the answer it came from  *)
(* having been the offset of a string unless the machine has stopped.      *)
Commands == [at : Nat, kind : Kinds, op : Int]

End(command) == command.at + Size(command.kind)

CodeOK ==
  /\ commands \in Seq(Commands)
  /\ commands # <<>> => commands[1].at = 0
  /\ \A k \in DOMAIN commands : End(commands[k]) <= CodeLen
  /\ \A k \in DOMAIN commands : k + 1 \in DOMAIN commands => commands[k + 1].at = End(commands[k])
  /\ \A k, l \in DOMAIN commands : k < l => End(commands[k]) <= commands[l].at

OperandsOK ==
  \A k \in DOMAIN commands :
    /\ commands[k].kind = "BC_PUSH" => commands[k].op \in Words
    /\ commands[k].kind \in {"BC_CONST", "BC_CONSTA"} => commands[k].op \in answers

AnswersOK ==
  \A a \in answers :
    \/ a = NoOffset /\ vm.stopped
    \/ \E k \in DOMAIN strings : strings[k].off = a

MachineOK ==
  /\ Fits(vm)
  /\ ~vm.stopped => vm.error # "division by zero"
  /\ state \in {"idle", "executing", "dead"} /\ steps \in Nat

IInv == MachineOK /\ CodeOK /\ OperandsOK /\ PoolOK /\ AnswersOK /\ FetchesCommands

(* What a step that stops the machine may do: FailureLeavesNoResult.       *)
StopsClean == ~vm.stopped /\ vm'.stopped => NoResult(vm, vm')

LEMMA InitOK == Init => IInv
<1> SUFFICES ASSUME Init PROVE IInv
  OBVIOUS
<1>1. /\ commands = <<>> /\ strings = <<>> /\ answers = {} /\ state = "idle" /\ steps = 0
      /\ vm = [stack |-> <<>>, ip |-> 0, stopped |-> FALSE, error |-> NoError, printed |-> <<>>]
  BY DEF Init
<1>2. vm \in Machines /\ vm.stack = <<>> /\ ~vm.stopped /\ vm.error = "none"
  BY <1>1, LengthsAssumption DEF Machines, Messages, NoError
<1>3. MachineOK
  BY <1>1, <1>2, LengthsAssumption DEF MachineOK, Fits
<1>4. CodeOK /\ OperandsOK /\ AnswersOK
  BY <1>1 DEF CodeOK, OperandsOK, AnswersOK
<1>5. PoolOK
  BY <1>1 DEF PoolOK, StringsAreApart
<1>6. FetchesCommands
  BY <1>1 DEF FetchesCommands
<1> QED BY <1>3, <1>4, <1>5, <1>6 DEF IInv

(* The next command behind the one at ip.                                  *)
LEMMA CommandAtIp ==
  ASSUME CodeOK, NEW kind \in Kinds \ {"BC_HALT"}, KindAt(vm.ip) = kind
  PROVE  /\ \E k \in DOMAIN commands :
              commands[k].at = vm.ip /\ commands[k].kind = kind /\ Operand = commands[k].op
         /\ \/ vm.ip + Size(kind) >= AddCodePtr
            \/ \E k \in DOMAIN commands : commands[k].at = vm.ip + Size(kind)
<1> DEFINE at == {k \in DOMAIN commands : commands[k].at = vm.ip}
<1>1. kind # "BC_HALT" /\ kind # "operand"
  BY DEF Kinds, WithOperand
<1>2. at # {} /\ commands[CHOOSE k \in at : TRUE].kind = kind
  BY <1>1 DEF KindAt
<1> DEFINE k == CHOOSE k \in at : TRUE
<1>3. k \in DOMAIN commands /\ commands[k].at = vm.ip /\ commands[k].kind = kind
  BY <1>2
<1> HIDE DEF at, k
<1>4. commands \in Seq(Commands) /\ k \in 1 .. Len(commands) /\ Len(commands) \in Nat
  BY <1>3 DEF CodeOK
<1>5. \A l \in DOMAIN commands : commands[l] \in Commands
  BY <1>4
<1>6. \A l \in DOMAIN commands : commands[l].at \in Nat /\ Size(commands[l].kind) \in Nat \ {0}
  BY <1>5, LengthsAssumption DEF Commands, Size
<1>7. ASSUME NEW l \in DOMAIN commands, commands[l].at = vm.ip PROVE l = k
  <2>1. l \in Nat /\ k \in Nat
    BY <1>4, <1>7
  <2>2. CASE l < k
    BY <1>3, <1>6, <1>7, <2>2 DEF CodeOK, End
  <2>3. CASE k < l
    BY <1>3, <1>6, <1>7, <2>3 DEF CodeOK, End
  <2> QED BY <2>1, <2>2, <2>3
<1>8. Operand = commands[k].op
  BY <1>3, <1>7 DEF Operand
<1>9. \/ vm.ip + Size(kind) >= AddCodePtr
      \/ \E l \in DOMAIN commands : commands[l].at = vm.ip + Size(kind)
  <2>1. CASE k = Len(commands)
    <3>1. AddCodePtr = vm.ip + Size(kind)
      BY <1>3, <1>4, <2>1 DEF AddCodePtr, Last
    <3>2. vm.ip + Size(kind) \in Nat
      BY <1>3, <1>6
    <3> QED BY <3>1, <3>2
  <2>2. CASE k # Len(commands)
    <3>1. k + 1 \in DOMAIN commands
      BY <1>4, <2>2
    <3>2. commands[k + 1].at = vm.ip + Size(kind)
      BY <1>3, <3>1 DEF CodeOK, End
    <3> QED BY <3>1, <3>2
  <2> QED BY <2>1, <2>2
<1> QED BY <1>3, <1>8, <1>9

LEMMA FetchedFacts ==
  ASSUME Fits(vm), ~vm.stopped, vm.ip < CodeLen
  PROVE  /\ Fits(Fetched) /\ ~Fetched.stopped /\ Fetched.ip = vm.ip + 1
         /\ Fetched.stack = vm.stack /\ Fetched.printed = vm.printed /\ Fetched.error = vm.error
<1>1. vm \in Machines /\ Len(vm.stack) <= StackLen /\ CodeLen \in Nat
  BY LengthsAssumption DEF Fits
<1>2. vm.ip \in 0 .. CodeLen
  BY <1>1 DEF Machines
<1>3. vm.ip + 1 \in 0 .. CodeLen
  BY <1>1, <1>2
<1>4. /\ Fetched \in Machines /\ ~Fetched.stopped /\ Fetched.ip = vm.ip + 1
      /\ Fetched.stack = vm.stack /\ Fetched.printed = vm.printed /\ Fetched.error = vm.error
  BY <1>1, <1>3 DEF Fetched, Machines
<1> QED BY <1>1, <1>4 DEF Fits

(* Nothing is loaded while the machine runs.                               *)
LEMMA LoadedStays ==
  ASSUME IInv, UNCHANGED loaded, vm.stopped => vm'.stopped
  PROVE  CodeOK' /\ OperandsOK' /\ PoolOK' /\ AnswersOK' /\ AddCodePtr' = AddCodePtr
<1>1. commands' = commands /\ strings' = strings /\ answers' = answers
  BY DEF loaded
<1>2. CodeOK'
  BY <1>1 DEF IInv, CodeOK
<1>3. OperandsOK'
  BY <1>1 DEF IInv, OperandsOK
<1>4. PoolOK'
  BY <1>1 DEF IInv, PoolOK, StringsAreApart
<1>5. AnswersOK'
  BY <1>1 DEF IInv, AnswersOK
<1>6. AddCodePtr' = AddCodePtr
  BY <1>1 DEF AddCodePtr
<1> QED BY <1>2, <1>3, <1>4, <1>5, <1>6

(* An executor that is sound keeps the invariant.                          *)
LEMMA RunOK ==
  ASSUME IInv, NEW kind \in Kinds \ {"BC_HALT"}, At(kind), NEW n,
         Sound(Fetched, n, Size(kind) - 1), Run(n)
  PROVE  IInv' /\ StopsClean
<1>1. /\ vm' = n /\ steps' = steps - 1 /\ UNCHANGED loaded /\ state' = state
      /\ ~vm.stopped /\ vm.ip < CodeLen /\ KindAt(vm.ip) = kind /\ steps > 0
  BY DEF Run, At, Turn
<1>2. /\ Fits(vm) /\ vm.error # "division by zero" /\ steps \in Nat
      /\ state \in {"idle", "executing", "dead"} /\ CodeOK
  BY <1>1 DEF IInv, MachineOK
<1>3. /\ Fits(Fetched) /\ ~Fetched.stopped /\ Fetched.ip = vm.ip + 1
      /\ Fetched.stack = vm.stack /\ Fetched.printed = vm.printed /\ Fetched.error = vm.error
  BY <1>1, <1>2, FetchedFacts
<1>4. /\ Fits(n)
      /\ ~n.stopped => n.ip = Fetched.ip + (Size(kind) - 1) /\ n.error = Fetched.error
      /\ n.stopped => NoResult(Fetched, n)
  BY DEF Sound
<1>5. steps' \in Nat
  <2>0. steps > 0 /\ steps \in Nat
    BY <1>1, <1>2
  <2>1. steps - 1 \in Nat
    BY <2>0
  <2> QED BY <1>1, <2>1
<1>6. MachineOK'
  BY <1>1, <1>2, <1>3, <1>4, <1>5 DEF MachineOK
<1>7. CodeOK' /\ OperandsOK' /\ PoolOK' /\ AnswersOK' /\ AddCodePtr' = AddCodePtr
  BY <1>1, LoadedStays
<1>8. FetchesCommands'
  <2> SUFFICES ASSUME ~n.stopped
               PROVE  n.ip >= AddCodePtr \/ \E k \in DOMAIN commands : commands[k].at = n.ip
    BY <1>1, <1>7 DEF FetchesCommands, loaded
  <2>0. vm.ip \in 0 .. CodeLen
    BY <1>2 DEF Fits, Machines
  <2>1. vm.ip \in Nat /\ Size(kind) \in Nat
    BY <2>0, LengthsAssumption DEF Size
  <2>2. n.ip = vm.ip + Size(kind)
    BY <1>3, <1>4, <2>1
  <2>3. \/ vm.ip + Size(kind) >= AddCodePtr
        \/ \E k \in DOMAIN commands : commands[k].at = vm.ip + Size(kind)
    BY <1>1, <1>2, CommandAtIp
  <2> QED BY <2>2, <2>3
<1>9. StopsClean
  BY <1>1, <1>3, <1>4 DEF StopsClean, NoResult
<1> QED BY <1>6, <1>7, <1>8, <1>9 DEF IInv

-----------------------------------------------------------------------------
(* The steps of vm_execute.                                                *)
LEMMA OperandAtIp ==
  ASSUME IInv, NEW kind \in WithOperand, At(kind)
  PROVE  /\ kind = "BC_PUSH" => Operand \in Words
         /\ kind \in {"BC_CONST", "BC_CONSTA"} => Operand \in Nat /\ Operand + Word <= PoolLen
<1>1. ~vm.stopped /\ KindAt(vm.ip) = kind /\ kind \in Kinds \ {"BC_HALT"}
  BY DEF At, Turn, Kinds, WithOperand
<1>2. CodeOK /\ OperandsOK /\ PoolOK /\ AnswersOK
  BY DEF IInv
<1>3. PICK k \in DOMAIN commands : commands[k].kind = kind /\ Operand = commands[k].op
  BY <1>1, <1>2, CommandAtIp
<1>4. kind = "BC_PUSH" => Operand \in Words
  BY <1>2, <1>3 DEF OperandsOK
<1>5. ASSUME kind \in {"BC_CONST", "BC_CONSTA"} PROVE Operand \in Nat /\ Operand + Word <= PoolLen
  <2>1. Operand \in answers
    BY <1>2, <1>3, <1>5 DEF OperandsOK
  <2>2. PICK l \in DOMAIN strings : strings[l].off = Operand
    BY <1>1, <1>2, <2>1 DEF AnswersOK
  <2>3. strings[l] \in Placed /\ strings[l].off + Word + strings[l].len + 1 <= PoolLen
    BY <1>2 DEF PoolOK, StringsAreApart
  <2>4. strings[l].off \in Nat /\ strings[l].len \in Nat
    BY <2>3 DEF Placed
  <2> QED BY <2>2, <2>3, <2>4, LengthsAssumption
<1> QED BY <1>4, <1>5

LEMMA ExecutorsOK ==
  ASSUME IInv,
         PushOp \/ Const \/ Consta \/ Not \/ Dup \/ Add \/ Sub \/ Mul \/ Arrbeg \/ Echoi
  PROVE  IInv' /\ StopsClean
<1>1. Turn /\ vm.ip < CodeLen
  BY DEF PushOp, Const, Consta, Not, Dup, Add, Sub, Mul, Arrbeg, Echoi, At
<1>2. Fits(Fetched) /\ ~Fetched.stopped /\ PoolOK
  BY <1>1, FetchedFacts DEF IInv, MachineOK, Turn
<1>3. Word \in Nat
  BY LengthsAssumption
<1>4. \A kind \in WithOperand : Size(kind) - 1 = Word /\ kind \in Kinds \ {"BC_HALT"}
  BY <1>3 DEF Size, WithOperand, Kinds
<1>5. \A kind \in {"BC_NOT", "BC_DUP", "BC_ADD", "BC_SUB", "BC_MUL", "BC_ARRBEG", "BC_ECHOI"} :
        Size(kind) - 1 = 0 /\ kind \in Kinds \ {"BC_HALT"}
  BY DEF Size, WithOperand, Kinds
<1>6. {"BC_PUSH", "BC_CONST", "BC_CONSTA"} \subseteq WithOperand
  BY DEF WithOperand
<1>7. CASE PushOp
  <2>1. At("BC_PUSH") /\ Run(ExecPush(Fetched, Operand))
    BY <1>7 DEF PushOp
  <2>2. Sound(Fetched, ExecPush(Fetched, Operand), Word)
    BY <1>2, <1>6, <2>1, OperandAtIp, OperandSound
  <2> QED BY <1>4, <1>6, <2>1, <2>2, RunOK
<1>8. CASE Const
  <2>1. At("BC_CONST") /\ Run(ExecConst(Fetched, Operand))
    BY <1>8 DEF Const
  <2>2. Sound(Fetched, ExecConst(Fetched, Operand), Word)
    BY <1>2, <1>6, <2>1, OperandAtIp, OperandSound
  <2> QED BY <1>4, <1>6, <2>1, <2>2, RunOK
<1>9. CASE Consta
  <2>1. At("BC_CONSTA") /\ Run(ExecConsta(Fetched, Operand))
    BY <1>9 DEF Consta
  <2>2. Sound(Fetched, ExecConsta(Fetched, Operand), Word)
    BY <1>2, <1>6, <2>1, OperandAtIp, OperandSound
  <2> QED BY <1>4, <1>6, <2>1, <2>2, RunOK
<1>10. CASE Not
  BY <1>2, <1>5, <1>10, ArithmeticSound, RunOK DEF Not
<1>11. CASE Dup
  BY <1>2, <1>5, <1>11, DupSound, RunOK DEF Dup
<1>12. CASE Add
  BY <1>2, <1>5, <1>12, ArithmeticSound, RunOK DEF Add
<1>13. CASE Sub
  BY <1>2, <1>5, <1>13, ArithmeticSound, RunOK DEF Sub
<1>14. CASE Mul
  BY <1>2, <1>5, <1>14, ArithmeticSound, RunOK DEF Mul
<1>15. CASE Arrbeg
  BY <1>2, <1>5, <1>15, ArrbegSound, RunOK DEF Arrbeg
<1>16. CASE Echoi
  BY <1>2, <1>5, <1>16, EchoiSound, RunOK DEF Echoi
<1> QED BY <1>7, <1>8, <1>9, <1>10, <1>11, <1>12, <1>13, <1>14, <1>15, <1>16

(* The process dies: the machine is as it was.                             *)
LEMMA DiesOK ==
  ASSUME IInv, Dies
  PROVE  IInv' /\ StopsClean
<1>1. state' = "dead" /\ steps' = 0 /\ UNCHANGED loaded /\ vm' = vm
  BY DEF Dies
<1>2. MachineOK'
  BY <1>1 DEF IInv, MachineOK
<1>3. CodeOK' /\ OperandsOK' /\ PoolOK' /\ AnswersOK'
  BY <1>1, LoadedStays
<1>4. FetchesCommands'
  BY <1>1 DEF FetchesCommands
<1>5. StopsClean
  BY <1>1 DEF StopsClean
<1> QED BY <1>2, <1>3, <1>4, <1>5 DEF IInv

LEMMA MayDieOK ==
  ASSUME IInv, Div \/ Echos
  PROVE  IInv' /\ StopsClean
<1>1. Turn /\ vm.ip < CodeLen
  BY DEF Div, Echos, At
<1>2. Fits(Fetched) /\ ~Fetched.stopped /\ strings \in Seq(Placed)
  BY <1>1, FetchedFacts DEF IInv, MachineOK, Turn, PoolOK
<1>3. \A kind \in {"BC_DIV", "BC_ECHOS"} : Size(kind) - 1 = 0 /\ kind \in Kinds \ {"BC_HALT"}
  BY DEF Size, WithOperand, Kinds
<1>4. CASE Div
  <2>1. CASE Traps(vm)
    BY <1>4, <2>1, DiesOK DEF Div
  <2>2. CASE ~Traps(vm)
    BY <1>2, <1>3, <1>4, <2>2, DivSound, RunOK DEF Div
  <2> QED BY <2>1, <2>2
<1>5. CASE Echos
  <2>1. CASE Wild(vm)
    BY <1>5, <2>1, DiesOK DEF Echos
  <2>2. CASE ~Wild(vm)
    BY <1>2, <1>3, <1>5, <2>2, EchosSound, RunOK DEF Echos
  <2> QED BY <2>1, <2>2
<1> QED BY <1>4, <1>5

LEMMA HaltOK ==
  ASSUME IInv, Halt
  PROVE  IInv' /\ StopsClean
<1>1. /\ vm' = ExecHalt(Fetched) /\ steps' = steps - 1 /\ UNCHANGED loaded /\ state' = state
      /\ ~vm.stopped /\ vm.ip < CodeLen /\ steps > 0
  BY DEF Halt, Run, At, Turn
<1>2. /\ Fits(Fetched) /\ Fetched.stack = vm.stack /\ Fetched.printed = vm.printed
      /\ Fetched.error = vm.error /\ vm.error # "division by zero" /\ Fits(vm)
      /\ state \in {"idle", "executing", "dead"} /\ steps \in Nat
  BY <1>1, FetchedFacts DEF IInv, MachineOK
<1> DEFINE f == Fetched
<1> HIDE DEF f
<1>3. /\ f \in Machines /\ Len(f.stack) <= StackLen
  BY <1>2 DEF Fits, f
<1>4. /\ ExecHalt(f) \in Machines /\ ExecHalt(f).stopped /\ ExecHalt(f).stack = f.stack
      /\ ExecHalt(f).printed = f.printed /\ ExecHalt(f).error = f.error
  BY <1>3 DEF ExecHalt, Machines
<1>5. /\ Fits(vm') /\ vm'.stopped /\ vm'.stack = vm.stack /\ vm'.printed = vm.printed
      /\ vm'.error = vm.error
  BY <1>1, <1>2, <1>3, <1>4 DEF Fits, f
<1>6. steps' \in Nat
  <2>1. steps > 0 /\ steps \in Nat
    BY <1>1, <1>2
  <2>2. steps - 1 \in Nat
    BY <2>1
  <2> QED BY <1>1, <2>2
<1>7. MachineOK'
  BY <1>1, <1>2, <1>5, <1>6 DEF MachineOK
<1>8. CodeOK' /\ OperandsOK' /\ PoolOK' /\ AnswersOK'
  BY <1>1, <1>5, LoadedStays
<1>9. FetchesCommands'
  BY <1>5 DEF FetchesCommands
<1>10. StopsClean
  <2>1. vm.stack \in Seq(Words)
    BY <1>2 DEF Fits, Machines
  <2>2. IsPrefix(vm.stack, vm.stack)
    BY <2>1, PrefixOfItself
  <2> QED BY <1>2, <1>5, <2>2 DEF StopsClean, NoResult
<1> QED BY <1>7, <1>8, <1>9, <1>10 DEF IInv

LEMMA ExecuteOK ==
  ASSUME IInv, NEW n \in Steps, Execute(n)
  PROVE  IInv' /\ StopsClean
<1>1. /\ state' = "executing" /\ steps' = n /\ vm' = [vm EXCEPT !.ip = 0] /\ UNCHANGED loaded
  BY DEF Execute
<1>2. vm \in Machines /\ Len(vm.stack) <= StackLen
  BY DEF IInv, MachineOK, Fits
<1>3. /\ [vm EXCEPT !.ip = 0] \in Machines /\ [vm EXCEPT !.ip = 0].stack = vm.stack
      /\ [vm EXCEPT !.ip = 0].stopped = vm.stopped /\ [vm EXCEPT !.ip = 0].error = vm.error
      /\ [vm EXCEPT !.ip = 0].ip = 0
  <2>1. 0 \in 0 .. CodeLen
    BY LengthsAssumption
  <2> QED BY <1>2, <2>1 DEF Machines
<1>4. /\ Fits(vm') /\ vm'.stopped = vm.stopped /\ vm'.error = vm.error /\ vm'.ip = 0
  BY <1>1, <1>2, <1>3 DEF Fits
<1>5. MachineOK'
  BY <1>1, <1>4, LengthsAssumption DEF IInv, MachineOK
<1>6. CodeOK' /\ OperandsOK' /\ PoolOK' /\ AnswersOK' /\ AddCodePtr' = AddCodePtr
  BY <1>1, <1>4, LoadedStays
<1>7. 0 >= AddCodePtr \/ \E k \in DOMAIN commands : commands[k].at = 0
  <2>1. CASE commands = <<>>
    BY <2>1 DEF AddCodePtr
  <2>2. CASE commands # <<>>
    <3>1. commands[1].at = 0 /\ commands \in Seq(Commands)
      BY <2>2 DEF IInv, CodeOK
    <3>2. 1 \in DOMAIN commands
      BY <2>2, <3>1
    <3> QED BY <3>1, <3>2
  <2> QED BY <2>1, <2>2
<1>8. FetchesCommands'
  BY <1>1, <1>4, <1>6, <1>7 DEF FetchesCommands, loaded
<1>9. StopsClean
  BY <1>4 DEF StopsClean
<1> QED BY <1>5, <1>6, <1>8, <1>9 DEF IInv

LEMMA FinishOK ==
  ASSUME IInv, Finish
  PROVE  IInv' /\ StopsClean
<1>1. state' = "idle" /\ steps' = 0 /\ UNCHANGED loaded /\ vm' = vm
  BY DEF Finish
<1>2. MachineOK'
  BY <1>1 DEF IInv, MachineOK
<1>3. CodeOK' /\ OperandsOK' /\ PoolOK' /\ AnswersOK'
  BY <1>1, LoadedStays
<1>4. FetchesCommands'
  BY <1>1 DEF FetchesCommands
<1>5. StopsClean
  BY <1>1 DEF StopsClean
<1> QED BY <1>2, <1>3, <1>4, <1>5 DEF IInv

(* vm_execute returns an error and the machine has not stopped.            *)
LEMMA GiveUpOK ==
  ASSUME IInv, CodeEnds \/ NoExecutor
  PROVE  IInv' /\ StopsClean
<1>1. PICK m \in {vm, Fetched}, message \in {"ip overflow", "no executor"} :
        /\ Turn /\ GiveUp(m, message)
        /\ m = vm \/ vm.ip < CodeLen
  BY DEF CodeEnds, NoExecutor
<1>2. Fits(vm) /\ ~vm.stopped
  BY <1>1 DEF IInv, MachineOK, Turn
<1>3. Fits(m) /\ ~m.stopped
  BY <1>1, <1>2, FetchedFacts
<1>4. m \in Machines /\ Len(m.stack) <= StackLen
  BY <1>3 DEF Fits
<1>5. message \in Messages /\ message # "division by zero"
  BY <1>1 DEF Messages
<1>6. /\ [m EXCEPT !.error = message] \in Machines /\ [m EXCEPT !.error = message].stack = m.stack
      /\ [m EXCEPT !.error = message].stopped = m.stopped /\ [m EXCEPT !.error = message].error = message
  BY <1>4, <1>5 DEF Machines
<1>7. /\ vm' = [m EXCEPT !.error = message] /\ state' = "idle" /\ steps' = 0 /\ UNCHANGED loaded
  BY <1>1 DEF GiveUp
<1>8. Fits(vm') /\ ~vm'.stopped /\ vm'.error # "division by zero"
  BY <1>3, <1>4, <1>5, <1>6, <1>7 DEF Fits
<1>9. MachineOK'
  BY <1>7, <1>8 DEF MachineOK
<1>10. CodeOK' /\ OperandsOK' /\ PoolOK' /\ AnswersOK'
  BY <1>2, <1>7, LoadedStays
<1>11. FetchesCommands'
  BY <1>7 DEF FetchesCommands
<1>12. StopsClean
  BY <1>8 DEF StopsClean
<1> QED BY <1>9, <1>10, <1>11, <1>12 DEF IInv

-----------------------------------------------------------------------------
(* Loading.                                                                *)
LEMMA AppendFacts ==
  ASSUME NEW S, NEW s \in Seq(S), NEW x \in S
  PROVE  /\ Append(s, x) \in Seq(S) /\ DOMAIN Append(s, x) = 1 .. Len(s) + 1
         /\ Len(s) \in Nat /\ DOMAIN s = 1 .. Len(s)
         /\ \A k \in 1 .. Len(s) : Append(s, x)[k] = s[k]
         /\ Append(s, x)[Len(s) + 1] = x
OBVIOUS

LEMMA AddCodePtrFacts ==
  ASSUME CodeOK
  PROVE  /\ AddCodePtr \in Nat
         /\ commands = <<>> => AddCodePtr = 0
         /\ \A k \in DOMAIN commands : End(commands[k]) <= AddCodePtr /\ End(commands[k]) \in Nat
         /\ commands # <<>> => AddCodePtr = End(commands[Len(commands)])
<1>1. commands \in Seq(Commands) /\ Len(commands) \in Nat /\ DOMAIN commands = 1 .. Len(commands)
  BY DEF CodeOK
<1>2. \A k \in DOMAIN commands : commands[k].at \in Nat /\ Size(commands[k].kind) \in Nat
  <2>1. \A k \in DOMAIN commands : commands[k] \in Commands
    BY <1>1
  <2> QED BY <2>1, LengthsAssumption DEF Commands, Size
<1>3. \A k \in DOMAIN commands : End(commands[k]) \in Nat
  BY <1>2 DEF End
<1>4. CASE commands = <<>>
  BY <1>4 DEF AddCodePtr
<1>5. CASE commands # <<>>
  <2>1. Len(commands) \in DOMAIN commands
    BY <1>1, <1>5
  <2>2. AddCodePtr = End(commands[Len(commands)])
    BY <1>5 DEF AddCodePtr, Last, End
  <2>3. ASSUME NEW k \in DOMAIN commands, k # Len(commands)
        PROVE  End(commands[k]) <= AddCodePtr
    <3>1. k < Len(commands)
      BY <1>1, <2>3
    <3>2. End(commands[k]) <= commands[Len(commands)].at
      BY <2>1, <3>1 DEF CodeOK
    <3>3. commands[Len(commands)].at <= End(commands[Len(commands)])
      BY <1>2, <2>1 DEF End
    <3> QED BY <1>2, <1>3, <2>1, <2>2, <3>2, <3>3
  <2> QED BY <1>3, <1>5, <2>1, <2>2, <2>3
<1> QED BY <1>4, <1>5

LEMMA AppendCommandOK ==
  ASSUME CodeOK, NEW command \in Commands, command.at = AddCodePtr, End(command) <= CodeLen,
         commands' = Append(commands, command)
  PROVE  CodeOK'
<1> DEFINE n == Len(commands)
<1>1. /\ commands' \in Seq(Commands) /\ DOMAIN commands' = 1 .. n + 1 /\ n \in Nat
      /\ DOMAIN commands = 1 .. n
      /\ \A k \in 1 .. n : commands'[k] = commands[k]
      /\ commands'[n + 1] = command
  BY AppendFacts DEF CodeOK
<1>2. n = 0 <=> commands = <<>>
  BY DEF CodeOK
<1>3. /\ AddCodePtr \in Nat
      /\ commands = <<>> => AddCodePtr = 0
      /\ \A k \in DOMAIN commands : End(commands[k]) <= AddCodePtr
      /\ commands # <<>> => AddCodePtr = End(commands[n])
  BY AddCodePtrFacts
<1>4. /\ commands # <<>> => commands[1].at = 0
      /\ \A k \in 1 .. n : End(commands[k]) <= CodeLen
      /\ \A k \in 1 .. n : k + 1 \in 1 .. n => commands[k + 1].at = End(commands[k])
      /\ \A k, l \in 1 .. n : k < l => End(commands[k]) <= commands[l].at
  BY <1>1 DEF CodeOK
<1> HIDE DEF n
<1> DEFINE new == commands'
<1>5. new[1].at = 0
  BY <1>1, <1>2, <1>3, <1>4
<1>6. \A k \in 1 .. n + 1 : End(new[k]) <= CodeLen
  BY <1>1, <1>4
<1>7. ASSUME NEW k \in 1 .. n + 1, k + 1 \in 1 .. n + 1
      PROVE  new[k + 1].at = End(new[k])
  <2>1. k \in 1 .. n /\ new[k] = commands[k]
    BY <1>1, <1>7
  <2>2. CASE k = n
    BY <1>1, <1>2, <1>3, <2>1, <2>2
  <2>3. CASE k # n
    <3>1. k + 1 \in 1 .. n
      BY <1>1, <2>1, <2>3
    <3> QED BY <1>1, <1>4, <2>1, <3>1
  <2> QED BY <2>2, <2>3
<1>8. ASSUME NEW k \in 1 .. n + 1, NEW l \in 1 .. n + 1, k < l
      PROVE  End(new[k]) <= new[l].at
  <2>1. k \in 1 .. n /\ new[k] = commands[k]
    BY <1>1, <1>8
  <2>2. CASE l = n + 1
    BY <1>1, <1>3, <2>1, <2>2
  <2>3. CASE l # n + 1
    <3>1. l \in 1 .. n
      BY <1>1, <2>3
    <3> QED BY <1>1, <1>4, <1>8, <2>1, <3>1
  <2> QED BY <2>2, <2>3
<1> HIDE DEF new
<1>9. /\ new \in Seq(Commands) /\ DOMAIN new = 1 .. n + 1
  BY <1>1 DEF new
<1>10. /\ \A k \in DOMAIN new : End(new[k]) <= CodeLen
       /\ \A k \in DOMAIN new : k + 1 \in DOMAIN new => new[k + 1].at = End(new[k])
       /\ \A k, l \in DOMAIN new : k < l => End(new[k]) <= new[l].at
  BY <1>6, <1>7, <1>8, <1>9
<1> QED BY <1>5, <1>9, <1>10 DEF CodeOK, new, End

LEMMA AddCommandOK ==
  ASSUME IInv, NEW kind \in Kinds, NEW operand \in Int, AddCommand(kind, operand),
         kind = "BC_PUSH" => operand \in Words,
         kind \in {"BC_CONST", "BC_CONSTA"} => operand \in answers
  PROVE  IInv' /\ StopsClean
<1>1. /\ state = "idle" /\ UNCHANGED <<strings, answers, steps, state, returned, calls>>
  BY DEF AddCommand
<1>2. Fits(vm) /\ MachineOK /\ CodeOK /\ OperandsOK /\ PoolOK /\ AnswersOK
  BY DEF IInv, MachineOK
<1>3. FetchesCommands'
  BY <1>1 DEF FetchesCommands
<1>4. CASE AddCodePtr + Size(kind) > CodeLen
  <2>1. vm' = Fail(vm, "code overflow") /\ commands' = commands
    BY <1>4 DEF AddCommand
  <2>2. "code overflow" \in Messages /\ "code overflow" # "division by zero"
    BY DEF Messages
  <2>3. vm \in Machines
    BY <1>2 DEF Fits
  <2>4. /\ Fail(vm, "code overflow") \in Machines /\ Fail(vm, "code overflow").stopped
        /\ Fail(vm, "code overflow").stack = vm.stack
    BY <2>2, <2>3 DEF Fail, Machines
  <2>5. Fits(vm') /\ vm'.stopped
    BY <1>2, <2>1, <2>4 DEF Fits
  <2>6. MachineOK'
    BY <1>1, <1>2, <2>5 DEF MachineOK
  <2>7. UNCHANGED loaded
    BY <1>1, <2>1 DEF loaded
  <2>8. CodeOK' /\ OperandsOK' /\ PoolOK' /\ AnswersOK'
    BY <2>5, <2>7, LoadedStays
  <2>9. StopsClean
    <3>1. ~vm.stopped => Sound(vm, Fail(vm, "code overflow"), 0)
      BY <1>2, <2>2, FailSound
    <3> QED BY <2>1, <2>5, <3>1 DEF StopsClean, Sound
  <2> QED BY <1>3, <2>6, <2>8, <2>9 DEF IInv
<1>5. CASE ~(AddCodePtr + Size(kind) > CodeLen)
  <2> DEFINE command == [at |-> AddCodePtr, kind |-> kind, op |-> operand]
  <2>1. commands' = Append(commands, command) /\ vm' = vm
    BY <1>5 DEF AddCommand
  <2>2. AddCodePtr \in Nat
    BY <1>2, AddCodePtrFacts
  <2>3. /\ command \in Commands /\ command.at = AddCodePtr /\ command.kind = kind
        /\ command.op = operand
    BY <2>2 DEF Commands
  <2>4. Size(kind) \in Nat /\ CodeLen \in Nat
    BY LengthsAssumption DEF Size
  <2>5. End(command) <= CodeLen
    BY <1>5, <2>2, <2>3, <2>4 DEF End
  <2> HIDE DEF command
  <2>6. CodeOK'
    BY <1>2, <2>1, <2>3, <2>5, AppendCommandOK
  <2>7. OperandsOK'
    <3>1. /\ DOMAIN commands' = 1 .. Len(commands) + 1 /\ Len(commands) \in Nat
          /\ DOMAIN commands = 1 .. Len(commands)
          /\ \A k \in 1 .. Len(commands) : commands'[k] = commands[k]
          /\ commands'[Len(commands) + 1] = command
      BY <1>2, <2>1, <2>3, AppendFacts DEF CodeOK
    <3>2. \A k \in DOMAIN commands' : k \in DOMAIN commands \/ k = Len(commands) + 1
      BY <3>1
    <3> QED BY <1>1, <1>2, <2>3, <3>1, <3>2 DEF OperandsOK
  <2>8. MachineOK'
    BY <1>1, <1>2, <2>1 DEF MachineOK
  <2>9. PoolOK'
    BY <1>1, <1>2 DEF PoolOK, StringsAreApart
  <2>10. AnswersOK'
    BY <1>1, <1>2, <2>1 DEF AnswersOK
  <2>11. StopsClean
    BY <2>1 DEF StopsClean
  <2> QED BY <1>3, <2>6, <2>7, <2>8, <2>9, <2>10, <2>11 DEF IInv
<1> QED BY <1>4, <1>5

(* An aligned index is behind the one it was made of.                      *)
LEMMA AlignedFacts ==
  ASSUME NEW idx \in Nat
  PROVE  Aligned(idx) \in Nat /\ Aligned(idx) >= idx /\ Aligned(idx) % Word = 0
<1> DEFINE x == idx + Word - 1
           q == x \div Word
<1>1. Word \in Nat /\ Word > 0
  BY LengthsAssumption
<1>2. x \in Nat
  BY <1>1
<1>3. q \in Nat /\ x = (Word * q) + (x % Word) /\ 0 <= x % Word /\ x % Word < Word
  BY <1>1, <1>2
<1>4. Aligned(idx) = q * Word
  BY DEF Aligned
<1>5. q * Word \in Nat /\ q * Word >= idx
  BY <1>1, <1>3
<1> HIDE DEF q
<1>6. (q * Word) % Word = 0
  BY <1>1, <1>3
<1> QED BY <1>4, <1>5, <1>6

LEMMA AddPoolIdxFacts ==
  ASSUME PoolOK
  PROVE  /\ AddPoolIdx \in Nat
         /\ \A k \in DOMAIN strings :
              /\ strings[k].off \in Nat /\ strings[k].len \in Nat
              /\ strings[k].off + Word + strings[k].len + 1 <= AddPoolIdx
<1>1. strings \in Seq(Placed) /\ Len(strings) \in Nat /\ DOMAIN strings = 1 .. Len(strings)
  BY DEF PoolOK
<1>2. \A k \in DOMAIN strings : strings[k].off \in Nat /\ strings[k].len \in Nat
  <2>1. \A k \in DOMAIN strings : strings[k] \in Placed
    BY <1>1
  <2> QED BY <2>1 DEF Placed
<1>3. Word \in Nat
  BY LengthsAssumption
<1>4. CASE strings = <<>>
  BY <1>4 DEF AddPoolIdx
<1>5. CASE strings # <<>>
  <2> DEFINE n == Len(strings)
  <2>1. n \in DOMAIN strings
    BY <1>1, <1>5
  <2>2. AddPoolIdx = strings[n].off + Word + strings[n].len + 1
    BY <1>5 DEF AddPoolIdx, Last
  <2> HIDE DEF n
  <2>3. ASSUME NEW k \in DOMAIN strings, k # n
        PROVE  strings[k].off + Word + strings[k].len + 1 <= AddPoolIdx
    <3>1. k < n
      BY <1>1, <2>3 DEF n
    <3>2. strings[k].off + Word + strings[k].len + 1 <= strings[n].off
      BY <2>1, <3>1 DEF PoolOK, StringsAreApart
    <3> QED BY <1>2, <1>3, <2>1, <2>2, <3>2
  <2>4. AddPoolIdx \in Nat
    BY <1>2, <1>3, <2>1, <2>2
  <2>5. strings[n].off + Word + strings[n].len + 1 <= AddPoolIdx
    BY <2>2, <2>4
  <2> QED BY <1>2, <2>3, <2>4, <2>5
<1> QED BY <1>4, <1>5

LEMMA BehindAll ==
  ASSUME PoolOK, NEW off \in Nat, off >= AddPoolIdx
  PROVE  \A k \in DOMAIN strings : strings[k].off + Word + strings[k].len + 1 <= off
<1>1. Word \in Nat
  BY LengthsAssumption
<1> QED BY <1>1, AddPoolIdxFacts

LEMMA AppendStringOK ==
  ASSUME PoolOK, NEW len \in Nat, NEW off, off = Aligned(AddPoolIdx),
         off + Word + len + 1 <= PoolLen,
         strings' = Append(strings, [off |-> off, len |-> len])
  PROVE  PoolOK'
<1> DEFINE string == [off |-> off, len |-> len]
           n == Len(strings)
<1>1. /\ AddPoolIdx \in Nat
      /\ \A k \in DOMAIN strings :
           /\ strings[k].off \in Nat /\ strings[k].len \in Nat
           /\ strings[k].off + Word + strings[k].len + 1 <= AddPoolIdx
  BY AddPoolIdxFacts
<1>2. off \in Nat /\ off >= AddPoolIdx /\ off % Word = 0 /\ Word \in Nat
  BY <1>1, AlignedFacts, LengthsAssumption
<1>3. string \in Placed /\ string.off = off /\ string.len = len
  BY <1>2 DEF Placed
<1> HIDE DEF string
<1>4. /\ strings' \in Seq(Placed) /\ DOMAIN strings' = 1 .. n + 1 /\ n \in Nat
      /\ DOMAIN strings = 1 .. n
      /\ \A k \in 1 .. n : strings'[k] = strings[k]
      /\ strings'[n + 1] = string
  BY <1>3, AppendFacts DEF PoolOK, string
<1> HIDE DEF n
<1> DEFINE new == strings'
<1>5. ASSUME NEW k \in 1 .. n + 1
      PROVE  /\ new[k].off % Word = 0
             /\ new[k].off + Word + new[k].len + 1 <= PoolLen
  <2>1. CASE k = n + 1
    BY <1>2, <1>3, <1>4, <2>1
  <2>2. CASE k # n + 1
    <3>1. k \in 1 .. n
      BY <1>4, <2>2
    <3>2. strings[k].off % Word = 0 /\ strings[k].off + Word + strings[k].len + 1 <= PoolLen
      BY <1>4, <3>1 DEF PoolOK, StringsAreApart
    <3> QED BY <1>4, <3>1, <3>2
  <2> QED BY <2>1, <2>2
<1>6. ASSUME NEW k \in 1 .. n + 1, NEW l \in 1 .. n + 1, l < k
      PROVE  new[l].off + Word + new[l].len + 1 <= new[k].off
  <2>1. l \in 1 .. n /\ new[l] = strings[l]
    BY <1>4, <1>6
  <2>2. CASE k = n + 1
    <3>1. new[k].off = off
      BY <1>3, <1>4, <2>2
    <3>2. strings[l].off + Word + strings[l].len + 1 <= off
      BY <1>2, <1>4, <2>1, BehindAll
    <3> QED BY <2>1, <3>1, <3>2
  <2>3. CASE k # n + 1
    <3>1. k \in 1 .. n
      BY <1>4, <2>3
    <3>2. strings[l].off + Word + strings[l].len + 1 <= strings[k].off
      BY <1>4, <1>6, <2>1, <3>1 DEF PoolOK, StringsAreApart
    <3> QED BY <1>4, <2>1, <3>1, <3>2
  <2> QED BY <2>2, <2>3
<1> HIDE DEF new
<1>7. /\ new \in Seq(Placed) /\ DOMAIN new = 1 .. n + 1
  BY <1>4 DEF new
<1> QED BY <1>5, <1>6, <1>7 DEF PoolOK, StringsAreApart, new

LEMMA AddStringOK ==
  ASSUME IInv, NEW len \in Lengths \cup {NullString}, AddString(len)
  PROVE  IInv' /\ StopsClean
<1> DEFINE off == Aligned(AddPoolIdx)
<1>1. /\ state = "idle" /\ UNCHANGED <<commands, steps, state, returned, calls>>
  BY DEF AddString
<1>2. Fits(vm) /\ MachineOK /\ CodeOK /\ OperandsOK /\ PoolOK /\ AnswersOK
  BY DEF IInv, MachineOK
<1>3. FetchesCommands'
  BY <1>1 DEF FetchesCommands
<1>4. CodeOK'
  BY <1>1, <1>2 DEF CodeOK
<1>5. CASE len = NullString \/ off + Word + len + 1 > PoolLen
  <2>1. vm' = Fail(vm, "pool overflow") /\ answers' = answers \cup {NoOffset} /\ strings' = strings
    BY <1>5 DEF AddString
  <2>2. "pool overflow" \in Messages /\ "pool overflow" # "division by zero"
    BY DEF Messages
  <2>3. vm \in Machines
    BY <1>2 DEF Fits
  <2>4. /\ Fail(vm, "pool overflow") \in Machines /\ Fail(vm, "pool overflow").stopped
        /\ Fail(vm, "pool overflow").stack = vm.stack
    BY <2>2, <2>3 DEF Fail, Machines
  <2>5. Fits(vm') /\ vm'.stopped
    BY <1>2, <2>1, <2>4 DEF Fits
  <2>6. MachineOK'
    BY <1>1, <1>2, <2>5 DEF MachineOK
  <2>7. OperandsOK'
    BY <1>1, <1>2, <2>1 DEF OperandsOK
  <2>8. PoolOK'
    BY <1>2, <2>1 DEF PoolOK, StringsAreApart
  <2>9. AnswersOK'
    BY <1>2, <2>1, <2>5 DEF AnswersOK
  <2>10. StopsClean
    <3>1. ~vm.stopped => Sound(vm, Fail(vm, "pool overflow"), 0)
      BY <1>2, <2>2, FailSound
    <3> QED BY <2>1, <2>5, <3>1 DEF StopsClean, Sound
  <2> QED BY <1>3, <1>4, <2>6, <2>7, <2>8, <2>9, <2>10 DEF IInv
<1>6. CASE ~(len = NullString \/ off + Word + len + 1 > PoolLen)
  <2> DEFINE string == [off |-> off, len |-> len]
  <2>1. strings' = Append(strings, string) /\ answers' = answers \cup {off} /\ vm' = vm
    BY <1>6 DEF AddString
  <2>2. len \in Nat
    BY <1>6, LengthsAssumption
  <2>3. off \in Nat /\ Word \in Nat /\ PoolLen \in Nat
    BY <1>2, AddPoolIdxFacts, AlignedFacts, LengthsAssumption
  <2> HIDE DEF off
  <2>4. off + Word + len + 1 <= PoolLen
    BY <1>6, <2>2, <2>3
  <2>5. PoolOK'
    BY <1>2, <2>1, <2>2, <2>4, AppendStringOK DEF off
  <2>6. string \in Placed /\ string.off = off
    BY <2>2, <2>3 DEF Placed
  <2>7. AnswersOK'
    <3> HIDE DEF string
    <3>1. /\ DOMAIN strings' = 1 .. Len(strings) + 1 /\ Len(strings) \in Nat
          /\ DOMAIN strings = 1 .. Len(strings)
          /\ \A k \in 1 .. Len(strings) : strings'[k] = strings[k]
          /\ strings'[Len(strings) + 1] = string
      BY <1>2, <2>1, <2>6, AppendFacts DEF PoolOK
    <3>2. ASSUME NEW a \in answers'
          PROVE  (a = NoOffset /\ vm'.stopped) \/ \E k \in DOMAIN strings' : strings'[k].off = a
      <4>1. CASE a = off
        BY <2>6, <3>1, <4>1
      <4>2. CASE a # off
        <5>1. a \in answers
          BY <2>1, <3>2, <4>2
        <5>2. (a = NoOffset /\ vm.stopped) \/ \E k \in DOMAIN strings : strings[k].off = a
          BY <1>2, <5>1 DEF AnswersOK
        <5> QED BY <2>1, <3>1, <5>2
      <4> QED BY <4>1, <4>2
    <3> QED BY <3>2 DEF AnswersOK, NoOffset, Modulus
  <2>8. MachineOK'
    BY <1>1, <1>2, <2>1 DEF MachineOK
  <2>9. OperandsOK'
    BY <1>1, <1>2, <2>1 DEF OperandsOK
  <2>10. StopsClean
    BY <2>1 DEF StopsClean
  <2> QED BY <1>3, <1>4, <2>5, <2>7, <2>8, <2>9, <2>10 DEF IInv
<1> QED BY <1>5, <1>6

-----------------------------------------------------------------------------
LEMMA LoadOK ==
  ASSUME IInv, Load
  PROVE  IInv' /\ StopsClean
<1>1. 0 \in Int /\ Words \subseteq Int /\ Numbers \subseteq Words
  BY WordFacts, NumbersAssumption DEF Words
<1>2. answers \subseteq Int
  <2>1. \A k \in DOMAIN strings : strings[k].off \in Int
    BY AddPoolIdxFacts DEF IInv
  <2>2. NoOffset \in Int
    BY WordFacts DEF NoOffset
  <2> QED BY <2>1, <2>2 DEF IInv, AnswersOK
<1>3. CASE \E kind \in {"BC_HALT", "BC_NOT", "BC_DUP", "BC_ADD", "BC_SUB", "BC_MUL", "BC_DIV",
                         "BC_ARRBEG", "BC_ECHOI", "BC_ECHOS", "BC_JUMP"} : AddCommand(kind, 0)
  <2>1. PICK kind \in {"BC_HALT", "BC_NOT", "BC_DUP", "BC_ADD", "BC_SUB", "BC_MUL", "BC_DIV",
                        "BC_ARRBEG", "BC_ECHOI", "BC_ECHOS", "BC_JUMP"} : AddCommand(kind, 0)
    BY <1>3
  <2>2. kind \in Kinds /\ kind # "BC_PUSH" /\ kind \notin {"BC_CONST", "BC_CONSTA"}
    BY DEF Kinds, WithOperand
  <2> QED BY <1>1, <2>1, <2>2, AddCommandOK
<1>4. CASE \E number \in Numbers : AddCommand("BC_PUSH", number)
  <2>1. PICK number \in Numbers : AddCommand("BC_PUSH", number)
    BY <1>4
  <2>2. "BC_PUSH" \in Kinds /\ "BC_PUSH" \notin {"BC_CONST", "BC_CONSTA"}
    BY DEF Kinds, WithOperand
  <2>3. number \in Words /\ number \in Int
    BY <1>1
  <2> QED BY <2>1, <2>2, <2>3, AddCommandOK
<1>5. CASE \E kind \in {"BC_CONST", "BC_CONSTA"}, offset \in answers : AddCommand(kind, offset)
  <2>1. PICK kind \in {"BC_CONST", "BC_CONSTA"}, offset \in answers : AddCommand(kind, offset)
    BY <1>5
  <2>2. kind \in Kinds /\ kind # "BC_PUSH" /\ offset \in Int
    BY <1>2 DEF Kinds, WithOperand
  <2> QED BY <2>1, <2>2, AddCommandOK
<1>6. CASE \E len \in Lengths \cup {NullString} : AddString(len)
  BY <1>6, AddStringOK
<1> QED BY <1>3, <1>4, <1>5, <1>6 DEF Load

LEMMA NextOK ==
  ASSUME IInv, [Next]_vars
  PROVE  IInv' /\ [StopsClean]_vars
<1>1. CASE UNCHANGED vars
  <2>1. /\ UNCHANGED <<commands, strings, answers, vm, steps, state>> /\ UNCHANGED loaded
    BY <1>1 DEF vars, loaded
  <2>2. MachineOK'
    BY <2>1 DEF IInv, MachineOK
  <2>3. CodeOK' /\ OperandsOK' /\ PoolOK' /\ AnswersOK' /\ AddCodePtr' = AddCodePtr
    BY <2>1, LoadedStays
  <2>4. FetchesCommands'
    BY <2>1, <2>3 DEF IInv, FetchesCommands
  <2> QED BY <1>1, <2>2, <2>3, <2>4 DEF IInv
<1>2. CASE Next
  <2>1. CASE Load
    BY <2>1, LoadOK
  <2>2. CASE \E n \in Steps : Execute(n)
    BY <2>2, ExecuteOK
  <2>3. CASE Finish
    BY <2>3, FinishOK
  <2>4. CASE CodeEnds \/ NoExecutor
    BY <2>4, GiveUpOK
  <2>5. CASE Halt
    BY <2>5, HaltOK
  <2>6. CASE PushOp \/ Const \/ Consta \/ Not \/ Dup \/ Add \/ Sub \/ Mul \/ Arrbeg \/ Echoi
    BY <2>6, ExecutorsOK
  <2>7. CASE Div \/ Echos
    BY <2>7, MayDieOK
  <2> QED BY <1>2, <2>1, <2>2, <2>3, <2>4, <2>5, <2>6, <2>7 DEF Next
<1> QED BY <1>1, <1>2

(* The machine, the code and the pool are in order in every state.         *)
THEOREM Invariant == Spec => []IInv
<1>1. Init => IInv
  BY InitOK
<1>2. IInv /\ [Next]_vars => IInv'
  BY NextOK
<1> QED BY <1>1, <1>2, PTL DEF Spec

(* Every value on the operand stack is a word, there are at most StackLen  *)
(* of them, ip does not leave the code, and what vm_add_string returns is  *)
(* a size_t.                                                               *)
THEOREM TypesAreOK == Spec => []TypeOK
<1>1. IInv => TypeOK
  <2> SUFFICES ASSUME IInv PROVE TypeOK
    OBVIOUS
  <2>1. /\ vm \in Machines /\ Len(vm.stack) <= StackLen
        /\ state \in {"idle", "executing", "dead"} /\ steps \in Nat
    BY DEF IInv, MachineOK, Fits
  <2>2. vm.stack \in Seq(Words) /\ vm.ip \in 0 .. CodeLen /\ vm.stopped \in BOOLEAN
    BY <2>1 DEF Machines
  <2>3. answers \subseteq 0 .. Modulus - 1
    <3>1. Modulus \in Nat /\ Half \in Nat /\ Half > 1 /\ Modulus = 2 * Half /\ Word \in Nat
      BY WordFacts, LengthsAssumption DEF Modulus
    <3>2. PoolLen < Half /\ PoolLen \in Nat
      BY <3>1, PoolAssumption, LengthsAssumption
    <3>3. ASSUME NEW k \in DOMAIN strings PROVE strings[k].off \in 0 .. Modulus - 1
      <4>1. strings[k].off \in Nat /\ strings[k].len \in Nat
        BY AddPoolIdxFacts DEF IInv
      <4>2. strings[k].off + Word + strings[k].len + 1 <= PoolLen
        BY DEF IInv, PoolOK, StringsAreApart
      <4> QED BY <3>1, <3>2, <4>1, <4>2
    <3>4. NoOffset \in 0 .. Modulus - 1
      BY <3>1 DEF NoOffset
    <3> QED BY <3>3, <3>4 DEF IInv, AnswersOK
  <2> QED BY <2>1, <2>2, <2>3 DEF TypeOK
<1> QED BY <1>1, Invariant, PTL

(* Whatever was loaded and however often it was run, ip is where a command *)
(* begins: no executor leaves it inside an operand (vm.c:43, 107, 125).    *)
THEOREM CommandsAreFetched == Spec => []FetchesCommands
<1>1. IInv => FetchesCommands
  BY DEF IInv
<1> QED BY <1>1, Invariant, PTL

(* The strings lie in the pool one behind the other, aligned, whatever     *)
(* their lengths and the size of the pool (vm.c:235-248).                  *)
THEOREM PoolIsInOrder == Spec => []StringsAreApart
<1>1. IInv => StringsAreApart
  BY DEF IInv, PoolOK
<1> QED BY <1>1, Invariant, PTL

(* The test of the offset wraps, yet no constant is read outside the pool: *)
(* the one offset that would pass has stopped the machine (vm.c:98, 118).  *)
THEOREM NoReadOutsideThePool == Spec => []PoolReadsAreInside
<1>1. IInv => PoolReadsAreInside
  <2> SUFFICES ASSUME IInv, Turn, vm.ip < CodeLen, KindAt(vm.ip) \in {"BC_CONST", "BC_CONSTA"}
               PROVE  Operand + Word <= PoolLen
    BY DEF PoolReadsAreInside
  <2>1. KindAt(vm.ip) \in WithOperand /\ At(KindAt(vm.ip))
    BY DEF At, WithOperand
  <2> QED BY <2>1, OperandAtIp
<1> QED BY <1>1, Invariant, PTL

(* An instruction that fails half way leaves no result on the stack and    *)
(* prints nothing, whichever instruction it is and at whichever of its     *)
(* pops and pushes it fails (vm.c:18-37, 72-78).                           *)
THEOREM NoResultOfAFailure == Spec => FailureLeavesNoResult
<1>1. IInv /\ [Next]_vars =>
        [~vm.stopped /\ vm'.stopped =>
           /\ IsPrefix(vm'.stack, vm.stack)
           /\ vm'.printed = vm.printed
           /\ vm'.error = "division by zero" => vm'.stack # <<>> /\ Last(vm'.stack) = 0]_vars
  BY NextOK DEF StopsClean, NoResult
<1> QED BY <1>1, Invariant, PTL DEF Spec, FailureLeavesNoResult
=============================================================================
