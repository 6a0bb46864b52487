--------------------------- MODULE TokenLogProofs ---------------------------
(***************************************************************************)
(* The token log implements the stream, for every set of texts.            *)
(***************************************************************************)
EXTENDS TokenLog, Integers, TLAPS

(* The inductive invariant.  LogMatchesText relates the log to the text,   *)
(* and needs the others to survive a step: NewlineFollowsComment gives the *)
(* replay of a comment its second step, EndIsRecorded keeps the end of the *)
(* file last, and StepsAccount is what a replay restores the position to.  *)
EndIsRecorded ==
  at_eof => /\ Len(steps) > 0
            /\ steps[Len(steps)].tok = Eof
            /\ ~steps[Len(steps)].failed

StepAccounts(n) == ~CommentHead(n) => Accounts(steps[n].where, After(n))

StepsAccount == \A n \in 1..Len(steps) : StepAccounts(n)

IInv ==
  /\ TypeOK
  /\ LogMatchesText
  /\ MarksNeverSplitAComment
  /\ NewlineFollowsComment
  /\ EndIsFoundOnce
  /\ EndIsRecorded
  /\ StepsAccount
  /\ PositionIsRestored

LEMMA TextFacts ==
  ASSUME TypeOK
  PROVE  /\ input \in Inputs
         /\ Len(input) \in Nat
         /\ \A k \in 1 .. Len(input) : Lexeme(k) \in Words \cup Blank \cup Faulty \cup {"nl"}
         /\ \A k \in 1 .. Len(input) : Lexeme(k) # Eof
         /\ \A k \in 1 .. Len(input) : Lexeme(k) = "open" => k = Len(input)
         /\ Lexeme(Len(input) + 1) = Eof
<1>1. input \in Inputs
  BY DEF TypeOK
<1>2. input \in Seq(Words \cup Blank \cup Faulty \cup {"nl"})
  BY <1>1, InputsAssumption
<1>3. Len(input) \in Nat
  BY <1>2
<1>4. \A k \in 1 .. Len(input) : Lexeme(k) = input[k]
  BY <1>3 DEF Lexeme, LexemeAt
<1>5. \A k \in 1 .. Len(input) : input[k] \in Words \cup Blank \cup Faulty \cup {"nl"}
  BY <1>2
<1>6. Eof \notin Words \cup Blank \cup Faulty \cup {"nl"}
  BY WordsAssumption DEF Blank, Faulty, Eof
<1>7. Lexeme(Len(input) + 1) = Eof
  BY <1>3 DEF Lexeme, LexemeAt
<1>8. \A k \in 1 .. Len(input) : input[k] = "open" => k = Len(input)
  BY <1>1, InputsAssumption
<1> QED
  BY <1>1, <1>3, <1>4, <1>5, <1>6, <1>7, <1>8

LEMMA StepFacts ==
  ASSUME TypeOK
  PROVE  /\ Len(steps) \in Nat /\ Len(input) \in Nat
         /\ reader_pos \in Nat /\ steps_pos \in Nat
         /\ \A n \in 1..Len(steps) :
              /\ steps[n] \in StepType
              /\ steps[n].tok \in Tokens \cup Blank
              /\ steps[n].failed \in BOOLEAN
              /\ steps[n].at \in 0 .. Len(input) + 1
              /\ steps[n].where \subseteq Places
         /\ \A n \in 0..Len(steps) : After(n) \in 0 .. Len(input) + 1
         /\ \A n \in 0..Len(steps) : After(n) \in Nat
<1>1. /\ Len(steps) \in Nat /\ Len(input) \in Nat
      /\ reader_pos \in Nat /\ steps_pos \in Nat
  BY TextFacts DEF TypeOK
<1>2. \A n \in 1..Len(steps) : steps[n] \in StepType
  BY DEF TypeOK
<1>3. \A n \in 1..Len(steps) :
        /\ steps[n].tok \in Tokens \cup Blank
        /\ steps[n].failed \in BOOLEAN
        /\ steps[n].at \in 0 .. Len(input) + 1
        /\ steps[n].where \subseteq Places
  BY <1>2 DEF StepType
<1>4. \A n \in 0..Len(steps) : After(n) \in 0 .. Len(input) + 1
  BY <1>1, <1>3 DEF After
<1> QED
  BY <1>1, <1>2, <1>3, <1>4

LEMMA InitIInv == Init => IInv
<1> SUFFICES ASSUME Init PROVE IInv
  OBVIOUS
<1>1. Len(input) \in Nat
  BY InputsAssumption DEF Init
<1>2. TypeOK
  <2>1. steps \in Seq(StepType) /\ Len(steps) = 0
    BY DEF Init
  <2>2. reader_pos \in 0..Len(input) /\ steps_pos \in 0..Len(steps)
    BY <1>1, <2>1 DEF Init
  <2>3. where \subseteq Places
    BY DEF Init
  <2> QED
    BY <2>1, <2>2, <2>3 DEF Init, TypeOK
<1>3. LogMatchesText
  BY <1>1 DEF Init, LogMatchesText, After, Unlexed
<1>4. MarksNeverSplitAComment /\ NewlineFollowsComment /\ EndIsFoundOnce
  BY DEF Init, MarksNeverSplitAComment, NewlineFollowsComment, EndIsFoundOnce,
         CommentHead, Lexing
<1>5. EndIsRecorded /\ StepsAccount
  BY DEF Init, EndIsRecorded, StepsAccount
<1>6. PositionIsRestored
  <2>1. After(Len(steps)) = 0
    BY DEF Init, After
  <2>2. \A k \in 1 .. Len(input) + 1 : ~(k <= 0)
    BY <1>1
  <2>3. Accounts({}, 0)
    BY <2>2 DEF Accounts
  <2> QED
    BY <2>1, <2>3 DEF Init, PositionIsRestored
<1> QED
  BY <1>2, <1>3, <1>4, <1>5, <1>6 DEF IInv

LEMMA NotBad ==
  /\ \A t \in Tokens \cup Blank : t # "bad"
  /\ Eof \in Tokens /\ Eof # "bad" /\ "open" # "bad" /\ "mlc" # "bad"
  BY WordsAssumption DEF Tokens, Blank, Faulty, Eof

(* What line and col account for once the pending lexeme was counted, and  *)
(* once something of bad text was.                                         *)
LEMMA Counted ==
  ASSUME TypeOK,
         NEW p \in 0 .. Len(input) + 1, p < Past,
         NEW w, Accounts(w, p), Unlexed(p, Past)
  PROVE  /\ Lexeme(Past) # "bad" => Accounts(w \cup Parts(Past), Past)
         /\ Lexeme(Past) = "open" => Accounts(w \cup {Opening(Past)}, Past)
         /\ Lexeme(Past) = "bad" =>
              \A S \in SUBSET Parts(Past) : Accounts(w \cup S, p)
<1>1. Len(input) \in Nat /\ Past \in Nat /\ p \in Nat
  BY StepFacts DEF Past
<1>2. ASSUME NEW k \in 1 .. Len(input) + 1
      PROVE  /\ k <= p /\ Lexeme(k) \notin Faulty => Parts(k) \subseteq w
             /\ k <= p /\ Lexeme(k) = "open" => Opening(k) \in w
             /\ k > p /\ Lexeme(k) # "bad" => Parts(k) \cap w = {}
             /\ p < k /\ k < Past => Lexeme(k) = "bad"
  BY DEF Accounts, Unlexed
<1>3. ASSUME NEW k \in 1 .. Len(input) + 1
      PROVE  /\ k <= Past => k <= p \/ (p < k /\ k < Past) \/ k = Past
             /\ k > Past => k > p /\ k # Past
             /\ k <= p => k # Past
  BY <1>1
<1>4. \A k, j : k # j => Parts(k) \cap Parts(j) = {}
  BY DEF Parts
<1>5. \A k : Opening(k) \in Parts(k)
  BY DEF Opening, Parts
<1>6. "bad" \in Faulty /\ "open" \in Faulty /\ "open" # "bad"
  BY DEF Faulty
<1>7. ASSUME Lexeme(Past) # "bad"
      PROVE  Accounts(w \cup Parts(Past), Past)
  <2> SUFFICES ASSUME NEW k \in 1 .. Len(input) + 1
               PROVE  /\ k <= Past /\ Lexeme(k) \notin Faulty => Parts(k) \subseteq w \cup Parts(Past)
                      /\ k <= Past /\ Lexeme(k) = "open" => Opening(k) \in w \cup Parts(Past)
                      /\ k > Past /\ Lexeme(k) # "bad" => Parts(k) \cap (w \cup Parts(Past)) = {}
    BY DEF Accounts
  <2>1. CASE k <= Past
    <3>1. ~(k > Past)
      BY <1>1, <2>1
    <3> QED
      BY <1>2, <1>3, <1>5, <1>6, <2>1, <3>1
  <2>2. CASE k > Past
    <3>1. ~(k <= Past)
      BY <1>1, <2>2
    <3> QED
      BY <1>2, <1>3, <1>4, <2>2, <3>1
  <2> QED
    BY <1>1, <2>1, <2>2
<1>8. ASSUME Lexeme(Past) = "open"
      PROVE  Accounts(w \cup {Opening(Past)}, Past)
  <2> SUFFICES ASSUME NEW k \in 1 .. Len(input) + 1
               PROVE  /\ k <= Past /\ Lexeme(k) \notin Faulty => Parts(k) \subseteq w \cup {Opening(Past)}
                      /\ k <= Past /\ Lexeme(k) = "open" => Opening(k) \in w \cup {Opening(Past)}
                      /\ k > Past /\ Lexeme(k) # "bad" => Parts(k) \cap (w \cup {Opening(Past)}) = {}
    BY DEF Accounts
  <2>1. CASE k <= Past
    <3>1. ~(k > Past)
      BY <1>1, <2>1
    <3> QED
      BY <1>2, <1>3, <1>6, <1>8, <2>1, <3>1
  <2>2. CASE k > Past
    <3>1. ~(k <= Past)
      BY <1>1, <2>2
    <3> QED
      BY <1>2, <1>3, <1>4, <1>5, <2>2, <3>1
  <2> QED
    BY <1>1, <2>1, <2>2
<1>9. ASSUME Lexeme(Past) = "bad", NEW S \in SUBSET Parts(Past)
      PROVE  Accounts(w \cup S, p)
  <2> SUFFICES ASSUME NEW k \in 1 .. Len(input) + 1
               PROVE  /\ k <= p /\ Lexeme(k) \notin Faulty => Parts(k) \subseteq w \cup S
                      /\ k <= p /\ Lexeme(k) = "open" => Opening(k) \in w \cup S
                      /\ k > p /\ Lexeme(k) # "bad" => Parts(k) \cap (w \cup S) = {}
    BY DEF Accounts
  <2>1. Lexeme(k) # "bad" => k # Past
    BY <1>9
  <2> QED
    BY <1>2, <1>4, <1>9, <2>1
<1> QED
  BY <1>7, <1>8, <1>9

(* Steps that leave the log and the Reader alone. *)
LEMMA LogUnchanged ==
  ASSUME IInv, UNCHANGED <<input, reader_pos, steps>>
  PROVE  /\ LogMatchesText'
         /\ NewlineFollowsComment'
         /\ StepsAccount'
         /\ \A n \in 0..Len(steps) : After(n)' = After(n)
         /\ \A n \in 0..Len(steps) : CommentHead(n)' = CommentHead(n)
<1>1. \A n \in Nat : After(n)' = After(n) /\ CommentHead(n)' = CommentHead(n)
  BY DEF After, CommentHead
<1>2. \A n \in 1..Len(steps) : StepMatches(n)' = StepMatches(n)
  BY <1>1 DEF StepMatches, StandsFor, Unlexed, Lexeme, LexemeAt, TypeOK, IInv,
              After, CommentHead
<1>3. LogMatchesText'
  BY <1>1, <1>2 DEF LogMatchesText, IInv, Unlexed, Lexeme, LexemeAt, After
<1>4. NewlineFollowsComment'
  BY <1>1 DEF NewlineFollowsComment, IInv, CommentHead
<1>5. StepsAccount'
  BY <1>1 DEF StepsAccount, StepAccounts, IInv, Accounts, Lexeme, LexemeAt, After,
              CommentHead
<1> QED
  BY <1>1, <1>3, <1>4, <1>5

(* Steps that extend the log keep what it said. *)
LEMMA OldSteps ==
  ASSUME IInv,
         input' = input,
         reader_pos' \in reader_pos .. Len(input),
         Len(steps') \in Nat, Len(steps') >= Len(steps),
         \A n \in 1..Len(steps) : steps'[n] = steps[n]
  PROVE  /\ \A n \in 0..Len(steps) : After(n)' = After(n)
         /\ \A n \in 0..Len(steps) : CommentHead(n)' = CommentHead(n)
         /\ \A n \in 1..Len(steps) : StepMatches(n)'
         /\ \A m, n \in 0..Len(steps) : m <= n => After(m)' <= After(n)'
         /\ \A n \in 1..Len(steps) : StepAccounts(n)'
<1>1. Len(steps) \in Nat /\ Len(input) \in Nat /\ reader_pos \in Nat
  BY TextFacts DEF IInv, TypeOK
<1>2. \A n \in 0..Len(steps) : After(n)' = After(n)
  BY <1>1 DEF After
<1>3. \A n \in 0..Len(steps) : CommentHead(n)' = CommentHead(n)
  BY <1>1 DEF CommentHead
<1>4. ASSUME NEW n \in 1..Len(steps)
      PROVE  StepMatches(n)'
  <2>1. n \in 0..Len(steps) /\ n - 1 \in 0..Len(steps)
    BY <1>1
  <2>2. StepMatches(n)
    BY DEF IInv, LogMatchesText
  <2>3. StandsFor(n)' = StandsFor(n)
    BY <1>3, <2>1 DEF StandsFor
  <2>4. Unlexed(After(n - 1), After(n)) => Unlexed(After(n - 1), After(n))'
    BY <1>2, <2>1 DEF Unlexed, Lexeme, LexemeAt
  <2>5. After(n) \in 1 .. reader_pos + 1 => After(n) \in 1 .. reader_pos' + 1
    BY <1>1
  <2>6. /\ After(n)' = After(n) /\ After(n - 1)' = After(n - 1)
        /\ CommentHead(n)' = CommentHead(n)
        /\ Lexeme(After(n))' = Lexeme(After(n))
    BY <1>2, <1>3, <2>1 DEF Lexeme, LexemeAt
  <2>7. CASE CommentHead(n)
    BY <2>2, <2>6, <2>7 DEF StepMatches
  <2>8. CASE ~CommentHead(n)
    <3>1. /\ After(n - 1) < After(n)
          /\ After(n) \in 1 .. reader_pos + 1
          /\ After(n) <= reader_pos \/ steps[n].tok = Eof
          /\ Lexeme(After(n)) = StandsFor(n)
          /\ Unlexed(After(n - 1), After(n))
      BY <2>2, <2>8 DEF StepMatches
    <3>2. After(n) <= reader_pos' \/ steps'[n].tok = Eof
      BY <1>1, <3>1
    <3> QED
      BY <2>3, <2>4, <2>5, <2>6, <2>8, <3>1, <3>2 DEF StepMatches
  <2> QED
    BY <2>7, <2>8
<1>5. \A m, n \in 0..Len(steps) : m <= n => After(m)' <= After(n)'
  BY <1>2 DEF IInv, LogMatchesText
<1>6. ASSUME NEW n \in 1..Len(steps)
      PROVE  StepAccounts(n)'
  <2>1. /\ StepAccounts(n) /\ n \in 0..Len(steps)
        /\ steps'[n] = steps[n]
    BY <1>1 DEF IInv, StepsAccount
  <2>2. After(n)' = After(n) /\ CommentHead(n)' = CommentHead(n)
    BY <1>2, <1>3, <2>1
  <2> QED
    BY <2>1, <2>2 DEF StepAccounts, Accounts, Lexeme, LexemeAt
<1> QED
  BY <1>2, <1>3, <1>4, <1>5, <1>6

(* A log that ends in steps which match the text matches it. *)
LEMMA LogExtended ==
  ASSUME IInv,
         input' = input,
         reader_pos' \in reader_pos .. Len(input),
         NEW top \in Nat, Len(steps') = top,
         top \in Len(steps) .. Len(steps) + 2,
         \A n \in 1..Len(steps) : steps'[n] = steps[n],
         \A n \in Len(steps) + 1 .. top : StepMatches(n)',
         \A n \in Len(steps) .. top :
           After(n)' \in Nat /\ After(Len(steps)) <= After(n)' /\ After(n)' <= After(top)',
         Unlexed(After(top), reader_pos + 1)'
  PROVE  LogMatchesText'
<1>1. /\ Len(steps) \in Nat /\ Len(input) \in Nat /\ reader_pos \in Nat
      /\ \A n \in 0..Len(steps) : After(n) \in Nat
  BY StepFacts DEF IInv
<1>2. /\ \A n \in 0..Len(steps) : After(n)' = After(n)
      /\ \A n \in 1..Len(steps) : StepMatches(n)'
      /\ \A m, n \in 0..Len(steps) : m <= n => After(m)' <= After(n)'
  BY <1>1, OldSteps
<1>3. \A n \in 1..top : StepMatches(n)'
  <2>1. \A n \in 1..top : n \in 1..Len(steps) \/ n \in Len(steps) + 1 .. top
    BY <1>1
  <2> QED
    BY <1>2, <2>1
<1>4. ASSUME NEW m \in 0..top, NEW n \in 0..top, m <= n
      PROVE  After(m)' <= After(n)'
  <2>1. CASE n <= Len(steps)
    BY <1>1, <1>2, <1>4, <2>1
  <2>2. CASE n > Len(steps) /\ m <= Len(steps)
    <3>1. After(m)' <= After(Len(steps)) /\ After(m)' \in Nat
      BY <1>1, <1>2, <2>2
    <3>2. After(n)' >= After(Len(steps)) /\ After(n)' \in Nat
      BY <1>1, <2>2
    <3> QED
      BY <3>1, <3>2, <1>1
  <2>3. CASE m > Len(steps)
    <3>1. m = n \/ n = top
      BY <1>1, <1>4, <2>3
    <3>2. After(m)' \in Nat /\ After(m)' <= After(top)'
      BY <1>1, <1>4, <2>3
    <3> QED
      BY <3>1, <3>2
  <2> QED
    BY <1>1, <2>1, <2>2, <2>3
<1> QED
  BY <1>3, <1>4 DEF LogMatchesText, After, Unlexed, Lexeme, LexemeAt

(* What is known when the loop has run out of steps to replay. *)
LEMMA LexingFacts ==
  ASSUME IInv, Lexing
  PROVE  /\ steps_pos = Len(steps)
         /\ ~at_eof
         /\ \A n \in 1..Len(steps) : steps[n].tok # Eof
         /\ After(Len(steps)) <= reader_pos
         /\ Past \in 1 .. Len(input) + 1
         /\ Lexeme(Past) = Eof <=> reader_pos = Len(input)
         /\ ~CommentHead(Len(steps))
<1>1. steps_pos = Len(steps) /\ ~at_eof
  BY StepFacts DEF IInv, TypeOK, Lexing, EndIsFoundOnce
<1>2. \A n \in 1..Len(steps) : steps[n].tok # Eof
  BY <1>1 DEF IInv, EndIsFoundOnce
<1>3. ~CommentHead(Len(steps))
  BY <1>1, StepFacts DEF IInv, MarksNeverSplitAComment
<1>4. Past \in 1 .. Len(input) + 1
  BY StepFacts DEF IInv, TypeOK, Past
<1>5. Lexeme(Past) = Eof <=> reader_pos = Len(input)
  BY <1>4, StepFacts, TextFacts DEF IInv, TypeOK, Past
<1>6. After(Len(steps)) <= reader_pos
  <2>1. CASE Len(steps) = 0
    BY <2>1, StepFacts DEF IInv, After
  <2>2. CASE Len(steps) # 0
    <3>1. Len(steps) \in 1..Len(steps)
      BY <2>2, StepFacts DEF IInv
    <3>2. StepMatches(Len(steps))
      BY <3>1 DEF IInv, LogMatchesText
    <3> QED
      BY <1>2, <1>3, <3>1, <3>2 DEF StepMatches
  <2> QED
    BY <2>1, <2>2
<1> QED
  BY <1>1, <1>2, <1>3, <1>4, <1>5, <1>6

(* What line and col account for once the pending lexeme was counted, when *)
(* they were right before it.                                              *)
LEMMA PendingCounted ==
  ASSUME IInv, Lexing
  PROVE  /\ Lexeme(Past) # "bad" => Accounts(where \cup Parts(Past), Past)
         /\ Lexeme(Past) = "open" => Accounts(where \cup {Opening(Past)}, Past)
         /\ Lexeme(Past) = "bad" =>
              \A S \in SUBSET Parts(Past) : Accounts(where \cup S, After(Len(steps)))
<1>1. /\ Len(steps) \in 0..Len(steps) /\ reader_pos \in Nat /\ Past = reader_pos + 1
      /\ After(Len(steps)) \in Nat /\ After(Len(steps)) <= reader_pos
      /\ After(Len(steps)) \in 0 .. Len(input) + 1
  BY StepFacts, LexingFacts DEF IInv, Past
<1>2. Accounts(where, After(Len(steps)))
  BY LexingFacts DEF IInv, PositionIsRestored
<1>3. Unlexed(After(Len(steps)), Past)
  BY <1>1 DEF IInv, LogMatchesText
<1>4. After(Len(steps)) < Past
  BY <1>1
<1> QED
  BY <1>1, <1>2, <1>3, <1>4, Counted DEF IInv

LEMMA PlacesCounted ==
  ASSUME IInv, Lexing
  PROVE  /\ Parts(Past) \subseteq Places /\ Opening(Past) \in Parts(Past)
         /\ Advanced \subseteq Places /\ Opened \subseteq Places
<1>1. Past \in 1 .. Len(input) + 1
  BY LexingFacts
<1>2. Parts(Past) \subseteq Places /\ Opening(Past) \in Parts(Past)
  BY <1>1 DEF Parts, Opening, Places
<1>3. where \subseteq Places
  BY DEF IInv, TypeOK
<1> QED
  BY <1>2, <1>3 DEF Advanced, Opened

(* One lexeme logged as one step, with or without a failure. *)
LEMMA PushOne ==
  ASSUME IInv, Lexing,
         NEW top \in Nat, top = Len(steps) + 1,
         NEW t \in Tokens \cup Blank, NEW f \in BOOLEAN, NEW w,
         input' = input, marks' = marks,
         reader_pos' \in reader_pos .. Len(input),
         Past <= reader_pos' \/ t = Eof,
         reader_pos' = reader_pos \/ reader_pos' = reader_pos + 1,
         where' = Advanced,
         Log(Append(steps, Step(t, f, Past, w))),
         IF f THEN Lexeme(Past) = "open" /\ w = Opened
              ELSE Lexeme(Past) = t /\ w = Advanced,
         ~f => t # "mlc"
  PROVE  /\ steps' \in Seq(StepType)'
         /\ steps_pos' = Len(steps') /\ Len(steps') = top
         /\ \A n \in 1..Len(steps) : steps'[n] = steps[n]
         /\ steps'[top] = Step(t, f, Past, w)
         /\ LogMatchesText'
         /\ NewlineFollowsComment'
         /\ MarksNeverSplitAComment'
         /\ StepsAccount'
         /\ PositionIsRestored'
<1>1. /\ Len(steps) \in Nat /\ Len(input) \in Nat /\ reader_pos \in Nat
      /\ steps \in Seq(StepType) /\ Past = reader_pos + 1
      /\ reader_pos' \in Nat /\ reader_pos' >= reader_pos
  <2>1. /\ Len(steps) \in Nat /\ Len(input) \in Nat /\ reader_pos \in Nat
        /\ steps \in Seq(StepType) /\ Past = reader_pos + 1
    BY StepFacts DEF IInv, TypeOK, Past
  <2> QED
    BY <2>1
<1>2. Step(t, f, Past, w) \in StepType
  <2>1. w \subseteq Places
    BY PlacesCounted
  <2>2. Past \in 0 .. Len(input) + 1
    BY <1>1, LexingFacts
  <2> QED
    BY <2>1, <2>2 DEF Step, StepType
<1>3. /\ steps' \in Seq(StepType) /\ Len(steps') = top
      /\ \A n \in 1..Len(steps) : steps'[n] = steps[n]
      /\ steps'[top] = Step(t, f, Past, w)
      /\ steps_pos' = Len(steps')
  BY <1>1, <1>2 DEF Log
<1>4. StepType' = StepType
  BY DEF StepType, Places
<1>5. /\ \A n \in 0..Len(steps) : After(n)' = After(n)
      /\ \A n \in 0..Len(steps) : CommentHead(n)' = CommentHead(n)
      /\ \A n \in 1..Len(steps) : StepAccounts(n)'
  BY <1>1, <1>3, OldSteps
<1>6. /\ top \in Nat /\ top # 0 /\ top - 1 = Len(steps)
      /\ steps'[top].tok = t /\ steps'[top].failed = f /\ steps'[top].at = Past
      /\ steps'[top].where = w
  BY <1>1, <1>3 DEF Step
<1>7. After(top)' = Past
  BY <1>6 DEF After
<1>8. ~CommentHead(top)'
  BY <1>6 DEF CommentHead
<1>9. ~CommentHead(top - 1)' /\ After(top - 1)' = After(Len(steps))
  BY <1>1, <1>5, <1>6, LexingFacts
<1>10. Unlexed(After(Len(steps)), Past)
  BY <1>1 DEF IInv, LogMatchesText
<1>11. StepMatches(top)'
  <2>1. StandsFor(top)' = IF f THEN "open" ELSE t
    BY <1>6, <1>9 DEF StandsFor
  <2>2. After(Len(steps)) < Past /\ Past \in 1 .. reader_pos' + 1
    <3>1. After(Len(steps)) \in Nat /\ After(Len(steps)) <= reader_pos
      BY <1>1, LexingFacts, StepFacts DEF IInv
    <3>2. CASE reader_pos' = reader_pos
      BY <1>1, <3>1, <3>2
    <3>3. CASE reader_pos' = reader_pos + 1
      BY <1>1, <3>1, <3>3
    <3> QED
      BY <3>2, <3>3
  <2>3. Lexeme(After(top))' = IF f THEN "open" ELSE t
    BY <1>7 DEF Lexeme, LexemeAt
  <2>4. Unlexed(After(top - 1), After(top))'
    BY <1>7, <1>9, <1>10 DEF Unlexed, Lexeme, LexemeAt
  <2>5. After(top)' <= reader_pos' \/ steps'[top].tok = Eof
    BY <1>6, <1>7
  <2> QED
    BY <1>7, <1>8, <1>9, <2>1, <2>2, <2>3, <2>4, <2>5 DEF StepMatches
<1>12. Unlexed(After(top), reader_pos + 1)'
  <2>1. \A k \in Nat : ~(Past < k /\ k < reader_pos' + 1)
    <3>1. CASE reader_pos' = reader_pos
      BY <1>1, <3>1
    <3>2. CASE reader_pos' = reader_pos + 1
      BY <1>1, <3>2
    <3> QED
      BY <3>1, <3>2
  <2>2. \A k \in 1 .. Len(input) + 1 : k \in Nat
    BY <1>1
  <2>3. \A k \in 1 .. Len(input') + 1 : ~(After(top)' < k /\ k < reader_pos' + 1)
    BY <1>7, <2>1, <2>2, Zenon
  <2> QED
    BY <2>3 DEF Unlexed
<1>13. \A n \in Len(steps) .. top :
         After(n)' \in Nat /\ After(Len(steps)) <= After(n)' /\ After(n)' <= After(top)'
  <2>1. \A n \in Len(steps) .. top : n = Len(steps) \/ n = top
    BY <1>1
  <2>2. /\ After(Len(steps)) \in Nat /\ After(Len(steps)) <= reader_pos
        /\ After(Len(steps))  = After(top - 1)'
    BY <1>1, <1>9, LexingFacts, StepFacts DEF IInv
  <2>3. After(Len(steps)) <= Past /\ Past \in Nat
    BY <1>1, <2>2
  <2> QED
    BY <1>1, <1>5, <1>7, <2>1, <2>2, <2>3
<1>14. LogMatchesText'
  <2>1. \A n \in Len(steps) + 1 .. top : StepMatches(n)'
    <3>1. \A n \in Len(steps) + 1 .. top : n = top
      BY <1>1
    <3> QED
      BY <1>11, <3>1
  <2>2. top \in Len(steps) .. Len(steps) + 2
    BY <1>1
  <2> QED
    BY <1>3, <1>12, <1>13, <2>1, <2>2, LogExtended
<1>15. NewlineFollowsComment'
  <2> SUFFICES ASSUME NEW n \in 1..top, CommentHead(n)'
               PROVE  n < top /\ steps'[n + 1].tok = "nl" /\ ~steps'[n + 1].failed
    BY <1>3 DEF NewlineFollowsComment
  <2>1. n \in 1..Len(steps) /\ CommentHead(n)
    BY <1>1, <1>5, <1>8
  <2>2. n < Len(steps) /\ steps[n + 1].tok = "nl" /\ ~steps[n + 1].failed
    BY <2>1 DEF IInv, NewlineFollowsComment
  <2>3. n + 1 \in 1..Len(steps) /\ n < top
    BY <1>1, <2>1, <2>2
  <2> QED
    BY <1>3, <2>2, <2>3
<1>16. MarksNeverSplitAComment'
  <2> SUFFICES ASSUME NEW m \in marks \cup {top}, m \in 0..top
               PROVE  ~CommentHead(m)'
    BY <1>3 DEF MarksNeverSplitAComment
  <2>1. m = top \/ (m \in 0..Len(steps) /\ m \in marks)
    BY <1>1 DEF IInv, TypeOK
  <2> QED
    BY <1>5, <1>8, <2>1 DEF IInv, MarksNeverSplitAComment
<1>17. Accounts(Advanced, Past) /\ Accounts(w, Past)
  <2>1. Lexeme(Past) # "bad"
    BY NotBad
  <2> QED
    BY <2>1, PendingCounted DEF Advanced, Opened
<1>18. StepsAccount'
  <2>1. StepAccounts(top)'
    BY <1>6, <1>7, <1>17 DEF StepAccounts, Accounts, Lexeme, LexemeAt
  <2>2. \A n \in 1..top : n \in 1..Len(steps) \/ n = top
    BY <1>1
  <2> QED
    BY <1>3, <1>5, <2>1, <2>2 DEF StepsAccount
<1>19. PositionIsRestored'
  <2>1. After(Len(steps))' = Past
    BY <1>3, <1>7
  <2> QED
    BY <1>17, <2>1 DEF PositionIsRestored, Accounts, Lexeme, LexemeAt
<1> QED
  BY <1>3, <1>4, <1>14, <1>15, <1>16, <1>18, <1>19

(* A closed block comment is logged as its start and its newline. *)
LEMMA PushComment ==
  ASSUME IInv, LexBlockComment,
         NEW top \in Nat, top = Len(steps) + 2
  PROVE  /\ steps' \in Seq(StepType)'
         /\ steps_pos' = Len(steps') /\ Len(steps') = top
         /\ \A n \in 1..Len(steps) : steps'[n] = steps[n]
         /\ steps'[top - 1].tok = "mlc" /\ steps'[top].tok = "nl"
         /\ steps'[top] = Step("nl", FALSE, Past, Advanced)
         /\ LogMatchesText'
         /\ NewlineFollowsComment'
         /\ MarksNeverSplitAComment'
         /\ StepsAccount'
         /\ PositionIsRestored'
<1> DEFINE head == Step("mlc", FALSE, After(Len(steps)), Opened)
           line == Step("nl", FALSE, Past, Advanced)
<1>1. /\ Len(steps) \in Nat /\ Len(input) \in Nat /\ reader_pos \in Nat
      /\ steps \in Seq(StepType) /\ Past = reader_pos + 1
      /\ input' = input /\ reader_pos' = reader_pos + 1
      /\ Lexing /\ Lexeme(Past) = "mlc" /\ marks' = marks
  BY StepFacts DEF IInv, TypeOK, Past, Pending, LexBlockComment
<1>2. reader_pos < Len(input) /\ Past \in 1 .. Len(input)
  <2>1. Past \in 1 .. Len(input) + 1 /\ reader_pos # Len(input)
    BY <1>1, LexingFacts DEF Eof
  <2> QED
    BY <1>1, <2>1
<1>3. head \in StepType /\ line \in StepType
  <2>1. After(Len(steps)) \in 0 .. Len(input) + 1 /\ Past \in 0 .. Len(input) + 1
    BY <1>1, <1>2, StepFacts DEF IInv
  <2>2. Opened \subseteq Places /\ Advanced \subseteq Places
    BY <1>1, PlacesCounted
  <2> QED
    BY <2>1, <2>2 DEF Step, StepType, Tokens, Blank
<1>4. /\ steps' = steps \o <<head, line>>
      /\ steps_pos' = Len(steps') /\ where' = Advanced
  BY DEF LexBlockComment, Log
<1>5. /\ steps' \in Seq(StepType) /\ Len(steps') = top
      /\ \A n \in 1..Len(steps) : steps'[n] = steps[n]
      /\ steps'[top - 1] = head
      /\ steps'[top] = line
  <2> HIDE DEF head, line
  <2>1. <<head, line>> \in Seq(StepType) /\ Len(<<head, line>>) = 2
    BY <1>3
  <2>2. /\ (steps \o <<head, line>>) \in Seq(StepType)
        /\ Len(steps \o <<head, line>>) = Len(steps) + 2
        /\ \A n \in 1..Len(steps) : (steps \o <<head, line>>)[n] = steps[n]
        /\ (steps \o <<head, line>>)[Len(steps) + 1] = head
        /\ (steps \o <<head, line>>)[Len(steps) + 2] = line
    BY <1>1, <2>1
  <2> QED
    BY <1>1, <1>4, <2>2
<1>8. StepType' = StepType
  BY <1>1 DEF StepType, Places
<1>9. /\ top # 0 /\ top - 1 # 0 /\ top - 1 \in Nat /\ top - 2 = Len(steps)
      /\ (top - 1) - 1 = Len(steps) /\ (top - 1) + 1 = top
      /\ steps'[top].tok = "nl" /\ ~steps'[top].failed /\ steps'[top].at = Past
      /\ steps'[top - 1].tok = "mlc" /\ ~steps'[top - 1].failed
      /\ steps'[top - 1].at = After(Len(steps))
  BY <1>1, <1>5 DEF Step
<1>9a. steps'[top] = Step("nl", FALSE, Past, Advanced)
  BY <1>5
<1> HIDE DEF head, line
<1>10. /\ \A n \in 0..Len(steps) : After(n)' = After(n)
       /\ \A n \in 0..Len(steps) : CommentHead(n)' = CommentHead(n)
       /\ \A n \in 1..Len(steps) : StepAccounts(n)'
  <2>1. reader_pos' \in reader_pos .. Len(input) /\ Len(steps') \in Nat /\ Len(steps') >= Len(steps)
    BY <1>1, <1>2, <1>5
  <2> QED
    BY <1>1, <1>5, <2>1, OldSteps
<1>11. /\ After(top)' = Past /\ After(top - 1)' = After(Len(steps))
       /\ ~CommentHead(top)' /\ CommentHead(top - 1)'
       /\ After((top - 1) - 1)' = After(Len(steps))
  <2>1. /\ After(top)' = Past /\ After(top - 1)' = After(Len(steps))
    BY <1>9 DEF After
  <2>2. ~CommentHead(top)' /\ CommentHead(top - 1)'
    BY <1>9, <1>1 DEF CommentHead
  <2>3. After((top - 1) - 1)' = After(Len(steps))
    BY <1>1, <1>9, <1>10
  <2> QED
    BY <2>1, <2>2, <2>3
<1>12. After(Len(steps)) < Past /\ After(Len(steps)) \in Nat /\ Past \in Nat
  <2>1. After(Len(steps)) <= reader_pos /\ After(Len(steps)) \in Nat
    BY <1>1, LexingFacts, StepFacts DEF IInv
  <2> QED
    BY <1>1, <2>1
<1>13. StepMatches(top)'
  <2>1. StandsFor(top)' = "mlc"
    BY <1>9, <1>11 DEF StandsFor
  <2>2. Past \in 1 .. reader_pos' + 1 /\ Past <= reader_pos'
    BY <1>1
  <2>3. Lexeme(After(top))' = "mlc"
    BY <1>1, <1>11 DEF Lexeme, LexemeAt
  <2>4. Unlexed(After(Len(steps)), Past)
    BY <1>1 DEF IInv, LogMatchesText
  <2>5. Unlexed(After(top - 1), After(top))'
    BY <1>1, <1>11, <2>4 DEF Unlexed, Lexeme, LexemeAt
  <2> QED
    BY <1>11, <1>12, <2>1, <2>2, <2>3, <2>5 DEF StepMatches
<1>14. StepMatches(top - 1)'
  BY <1>11 DEF StepMatches
<1>15. Unlexed(After(top), reader_pos + 1)'
  <2>1. \A k \in 1 .. Len(input) + 1 : ~(Past < k /\ k < reader_pos' + 1)
    BY <1>1
  <2> QED
    BY <1>1, <1>11, <2>1 DEF Unlexed
<1>16. LogMatchesText'
  <2>1. \A n \in Len(steps) + 1 .. top : StepMatches(n)'
    <3>1. \A n \in Len(steps) + 1 .. top : n = top \/ n = top - 1
      BY <1>1
    <3> QED
      BY <1>13, <1>14, <3>1
  <2>2. \A n \in Len(steps) .. top :
          After(n)' \in Nat /\ After(Len(steps)) <= After(n)' /\ After(n)' <= After(top)'
    <3>1. \A n \in Len(steps) .. top : n = top \/ n = top - 1 \/ n = (top - 1) - 1
      BY <1>1
    <3>2. After(Len(steps)) <= Past /\ After(Len(steps)) <= After(Len(steps)) /\ Past <= Past
      BY <1>12
    <3> QED
      BY <1>11, <1>12, <3>1, <3>2
  <2>3. top \in Len(steps) .. Len(steps) + 2 /\ reader_pos' \in reader_pos .. Len(input)
    BY <1>1, <1>2
  <2> QED
    BY <1>1, <1>5, <1>15, <2>1, <2>2, <2>3, LogExtended
<1>17. NewlineFollowsComment'
  <2> SUFFICES ASSUME NEW n \in 1..top, CommentHead(n)'
               PROVE  n < top /\ steps'[n + 1].tok = "nl" /\ ~steps'[n + 1].failed
    BY <1>5 DEF NewlineFollowsComment
  <2>1. n \in 1..Len(steps) \/ n = top - 1 \/ n = top
    BY <1>1
  <2>2. CASE n = top - 1
    BY <1>9, <2>2
  <2>3. CASE n \in 1..Len(steps)
    <3>1. CommentHead(n)
      BY <1>1, <1>10, <2>3
    <3>2. n < Len(steps) /\ steps[n + 1].tok = "nl" /\ ~steps[n + 1].failed
      BY <2>3, <3>1 DEF IInv, NewlineFollowsComment
    <3>3. n + 1 \in 1..Len(steps) /\ n < top
      BY <1>1, <2>3, <3>2
    <3> QED
      BY <1>5, <3>2, <3>3
  <2> QED
    BY <1>11, <2>1, <2>2, <2>3
<1>18. MarksNeverSplitAComment'
  <2> SUFFICES ASSUME NEW m \in marks \cup {top}, m \in 0..top
               PROVE  ~CommentHead(m)'
    BY <1>1, <1>4, <1>5 DEF MarksNeverSplitAComment
  <2>1. m = top \/ (m \in 0..Len(steps) /\ m \in marks)
    BY <1>1 DEF IInv, TypeOK
  <2> QED
    BY <1>10, <1>11, <2>1 DEF IInv, MarksNeverSplitAComment
<1>19. Accounts(Advanced, Past)
  BY <1>1, PendingCounted DEF Advanced
<1>20. StepsAccount'
  <2>1. StepAccounts(top)'
    <3>1. steps'[top].where = Advanced
      BY <1>9a DEF Step
    <3> QED
      BY <1>1, <1>11, <1>19, <3>1 DEF StepAccounts, Accounts, Lexeme, LexemeAt
  <2>2. StepAccounts(top - 1)'
    BY <1>11 DEF StepAccounts
  <2>3. \A n \in 1..top : n \in 1..Len(steps) \/ n = top - 1 \/ n = top
    BY <1>1
  <2> QED
    BY <1>5, <1>10, <2>1, <2>2, <2>3 DEF StepsAccount
<1>21. PositionIsRestored'
  <2>1. After(Len(steps))' = Past /\ where' = Advanced
    BY <1>4, <1>5, <1>11
  <2> QED
    BY <1>1, <1>19, <2>1 DEF PositionIsRestored, Accounts, Lexeme, LexemeAt
<1> QED
  BY <1>4, <1>5, <1>8, <1>9, <1>16, <1>17, <1>18, <1>20, <1>21, <1>9a

(* A replay of one recorded step: what lies behind it stays right. *)
LEMMA ReplayKeepsIInv ==
  ASSUME IInv, Replaying,
         UNCHANGED <<input, reader_pos, steps, marks>>,
         NEW next \in steps_pos + 1 .. Len(steps), steps_pos' = next,
         ~CommentHead(next),
         where' = steps[next].where,
         at_eof' \in BOOLEAN, at_eof => at_eof',
         at_eof' => at_eof \/ (/\ next = Len(steps) /\ steps[next].tok = Eof
                             /\ ~steps[next].failed),
         calling' \in BOOLEAN,
         calling' => steps[next].tok # Eof,
         reply' \in Tokens \cup {"none", "error"}
  PROVE  IInv'
<1>1. /\ Len(steps) \in Nat /\ steps_pos \in Nat
      /\ next \in 1..Len(steps) /\ next \in 0..Len(steps)
  BY StepFacts DEF IInv
<1>2. /\ LogMatchesText' /\ NewlineFollowsComment' /\ StepsAccount'
      /\ \A n \in 0..Len(steps) : After(n)' = After(n)
      /\ \A n \in 0..Len(steps) : CommentHead(n)' = CommentHead(n)
  BY LogUnchanged
<1>3. TypeOK'
  <2>1. where' \subseteq Places
    BY <1>1, StepFacts DEF IInv
  <2> QED
    BY <1>1, <2>1 DEF IInv, TypeOK, StepType, Places
<1>4. MarksNeverSplitAComment'
  BY <1>1, <1>2 DEF IInv, MarksNeverSplitAComment
<1>5. EndIsFoundOnce'
  <2>1. \A n \in 1..Len(steps) : steps[n].tok = Eof => n = Len(steps) /\ at_eof'
    BY DEF IInv, EndIsFoundOnce
  <2>2. calling' /\ next >= Len(steps) => ~at_eof'
    <3> SUFFICES ASSUME calling', next >= Len(steps), at_eof' PROVE FALSE
      OBVIOUS
    <3>1. next = Len(steps) /\ Len(steps) > 0
      BY <1>1
    <3>2. steps[Len(steps)].tok = Eof
      BY <3>1 DEF IInv, EndIsRecorded
    <3> QED
      BY <3>1, <3>2
  <2> QED
    BY <2>1, <2>2 DEF EndIsFoundOnce, Lexing
<1>6. EndIsRecorded'
  BY <1>1 DEF IInv, EndIsRecorded
<1>7. PositionIsRestored'
  <2>1. Accounts(steps[next].where, After(next))
    BY <1>1 DEF IInv, StepsAccount, StepAccounts
  <2> QED
    BY <1>1, <1>2, <2>1 DEF PositionIsRestored, Accounts, Lexeme, LexemeAt
<1> QED
  BY <1>2, <1>3, <1>4, <1>5, <1>6, <1>7 DEF IInv

LEMMA CallsKeepIInv ==
  ASSUME IInv, CallAtEof \/ Call \/ Mark \/ Rewind \/ UNCHANGED vars
  PROVE  IInv'
<1>1. UNCHANGED <<input, reader_pos, steps, at_eof, where>>
  BY DEF CallAtEof, Call, Mark, Rewind, vars, lexer
<1>2. /\ Len(steps) \in Nat /\ steps_pos \in 0..Len(steps)
      /\ marks \subseteq 0..Len(steps)
  BY StepFacts DEF IInv, TypeOK
<1>3. /\ LogMatchesText' /\ NewlineFollowsComment' /\ StepsAccount'
      /\ \A n \in 0..Len(steps) : After(n)' = After(n)
      /\ \A n \in 0..Len(steps) : CommentHead(n)' = CommentHead(n)
  BY <1>1, LogUnchanged
<1>4. /\ steps_pos' \in marks \cup {steps_pos} /\ steps_pos' <= steps_pos
      /\ marks' \subseteq marks \cup {steps_pos}
  <2>1. steps_pos <= steps_pos
    BY <1>2
  <2>2. CASE CallAtEof \/ Call \/ UNCHANGED vars
    BY <2>1, <2>2 DEF CallAtEof, Call, vars, lexer
  <2>3. CASE Mark
    BY <2>1, <2>3 DEF Mark, lexer
  <2>4. CASE Rewind
    BY <2>4, Zenon DEF Rewind
  <2> QED
    BY <2>2, <2>3, <2>4
<1>5. /\ calling' \in BOOLEAN
      /\ calling' => ~(at_eof /\ steps_pos' >= Len(steps))
  <2>1. CASE CallAtEof \/ Mark \/ Rewind
    <3>1. calling \in BOOLEAN
      BY DEF IInv, TypeOK
    <3> QED
      BY <2>1, <3>1 DEF CallAtEof, Mark, Rewind
  <2>2. CASE Call
    BY <2>2 DEF Call, lexer
  <2>3. CASE UNCHANGED vars
    BY <2>3 DEF vars, lexer, IInv, TypeOK, EndIsFoundOnce, Lexing
  <2> QED
    BY <2>1, <2>2, <2>3
<1>6. reply' \in Tokens \cup {"none", "error"}
  <2>1. CASE CallAtEof
    <3>1. Len(steps) > 0 /\ steps[Len(steps)].tok = Eof
      BY <2>1 DEF CallAtEof, IInv, EndIsRecorded
    <3> QED
      BY <2>1, <3>1 DEF CallAtEof, Tokens
  <2>2. CASE Call \/ Mark \/ Rewind \/ UNCHANGED vars
    BY <2>2 DEF Call, Mark, Rewind, vars, lexer, IInv, TypeOK
  <2> QED
    BY <2>1, <2>2
<1>7. TypeOK'
  <2>1. steps_pos' \in 0..Len(steps) /\ marks' \subseteq 0..Len(steps)
    BY <1>2, <1>4
  <2> QED
    BY <1>1, <1>5, <1>6, <2>1 DEF IInv, TypeOK, StepType, Places
<1>8. MarksNeverSplitAComment'
  BY <1>1, <1>2, <1>3, <1>4 DEF IInv, MarksNeverSplitAComment
<1>9. EndIsFoundOnce' /\ EndIsRecorded'
  BY <1>1, <1>5 DEF IInv, EndIsFoundOnce, EndIsRecorded, Lexing
<1>10. PositionIsRestored'
  <2> SUFFICES ASSUME steps_pos' = Len(steps)
               PROVE  Accounts(where, After(Len(steps)))'
    BY <1>1 DEF PositionIsRestored
  <2>1. steps_pos = Len(steps)
    BY <1>2, <1>4
  <2>2. Accounts(where, After(Len(steps)))
    BY <2>1 DEF IInv, PositionIsRestored
  <2>3. After(Len(steps))' = After(Len(steps))
    BY <1>1 DEF After
  <2> QED
    BY <1>1, <2>2, <2>3 DEF Accounts, Lexeme, LexemeAt
<1> QED
  BY <1>3, <1>7, <1>8, <1>9, <1>10 DEF IInv

LEMMA ReplayingKeepsIInv ==
  ASSUME IInv,
         \/ ReplayFailure \/ ReplayEof \/ ReplayBlank \/ ReplayBlockComment
         \/ ReplayToken
  PROVE  IInv'
<1>1. /\ Replaying /\ calling \in BOOLEAN /\ at_eof \in BOOLEAN
      /\ UNCHANGED <<input, reader_pos, steps, marks>>
  BY DEF ReplayFailure, ReplayEof, ReplayBlank, ReplayBlockComment, ReplayToken,
         IInv, TypeOK
<1> DEFINE n == steps_pos + 1
<1>2. /\ Len(steps) \in Nat /\ steps_pos \in Nat
      /\ n \in 1..Len(steps) /\ n \in steps_pos + 1 .. Len(steps)
      /\ steps[n] = Recorded
      /\ steps[n].tok \in Tokens \cup Blank
  BY <1>1, StepFacts DEF IInv, Replaying, Recorded
<1>3. Recorded.tok = Eof => n = Len(steps) /\ at_eof
  BY <1>2 DEF IInv, EndIsFoundOnce
<1>4. reply \in Tokens \cup {"none", "error"}
  BY DEF IInv, TypeOK
<1>5. Eof \notin Blank /\ "mlc" \in Blank /\ Eof # "mlc" /\ Eof \in Tokens
  BY DEF Eof, Blank, Tokens
<1> HIDE DEF n
<1>6. CASE ReplayFailure
  <2>1. ~CommentHead(n)
    BY <1>2, <1>6 DEF ReplayFailure, CommentHead
  <2>2. PICK next \in steps_pos + 1 .. Len(steps) : next = n
    BY <1>2
  <2> QED
    BY <1>1, <1>2, <1>6, <2>1, <2>2, ReplayKeepsIInv DEF ReplayFailure, Return, n
<1>7. CASE ReplayEof
  <2>1. ~CommentHead(n)
    BY <1>2, <1>5, <1>7 DEF ReplayEof, CommentHead
  <2>2. PICK next \in steps_pos + 1 .. Len(steps) : next = n
    BY <1>2
  <2> QED
    BY <1>1, <1>2, <1>3, <1>5, <1>7, <2>1, <2>2, ReplayKeepsIInv DEF ReplayEof, Return, n
<1>8. CASE ReplayBlank
  <2>1. ~CommentHead(n) /\ Recorded.tok # Eof
    BY <1>2, <1>5, <1>8 DEF ReplayBlank, CommentHead, Eof
  <2>2. PICK next \in steps_pos + 1 .. Len(steps) : next = n
    BY <1>2
  <2> QED
    BY <1>1, <1>2, <1>4, <1>8, <2>1, <2>2, ReplayKeepsIInv DEF ReplayBlank, Continue, n
<1>9. CASE ReplayToken
  <2>1. ~CommentHead(n) /\ Recorded.tok # Eof
    BY <1>2, <1>5, <1>9 DEF ReplayToken, CommentHead
  <2>2. PICK next \in steps_pos + 1 .. Len(steps) : next = n
    BY <1>2
  <2>3. Recorded.tok \in Tokens
    BY <1>2, <1>9 DEF ReplayToken
  <2> QED
    BY <1>1, <1>2, <1>9, <2>1, <2>2, <2>3, ReplayKeepsIInv DEF ReplayToken, Return, n
<1>10. CASE ReplayBlockComment
  <2>1. CommentHead(n)
    BY <1>2, <1>10 DEF ReplayBlockComment, CommentHead
  <2>2. /\ n < Len(steps) /\ steps[n + 1].tok = "nl" /\ ~steps[n + 1].failed
    BY <1>2, <2>1 DEF IInv, NewlineFollowsComment
  <2>3. n + 1 \in steps_pos + 1 .. Len(steps) /\ n + 1 = steps_pos + 2
    BY <1>2, <2>2 DEF n
  <2>4. PICK next \in steps_pos + 1 .. Len(steps) : next = n + 1
    BY <2>3
  <2>5. ~CommentHead(next) /\ steps[next].tok # Eof
    BY <2>2, <2>4 DEF CommentHead, Eof
  <2> QED
    BY <1>1, <1>2, <1>4, <1>10, <2>3, <2>4, <2>5, ReplayKeepsIInv
    DEF ReplayBlockComment, Continue
<1> QED
  BY <1>6, <1>7, <1>8, <1>9, <1>10

(* A step that logs a token, a blank, the end or an open comment. *)
LEMMA LogOneKeepsIInv ==
  ASSUME IInv, Lexing,
         NEW t \in Tokens \cup Blank, NEW f \in BOOLEAN, NEW w,
         input' = input, marks' = marks,
         reader_pos' \in reader_pos .. Len(input),
         Past <= reader_pos' \/ t = Eof,
         reader_pos' = reader_pos \/ reader_pos' = reader_pos + 1,
         where' = Advanced,
         Log(Append(steps, Step(t, f, Past, w))),
         IF f THEN Lexeme(Past) = "open" /\ w = Opened
              ELSE Lexeme(Past) = t /\ w = Advanced,
         ~f => t # "mlc",
         f => t # Eof,
         at_eof' \in BOOLEAN, at_eof' <=> t = Eof,
         calling' \in BOOLEAN, calling' => t # Eof,
         reply' \in Tokens \cup {"none", "error"}
  PROVE  IInv'
<1>1. /\ Len(steps) \in Nat /\ Len(input) \in Nat /\ reader_pos \in Nat
      /\ input \in Inputs /\ marks \subseteq 0..Len(steps)
  BY StepFacts DEF IInv, TypeOK
<1>2. PICK top \in Nat : top = Len(steps) + 1
  BY <1>1
<1>3. /\ steps' \in Seq(StepType)'
      /\ steps_pos' = Len(steps') /\ Len(steps') = top
      /\ \A n \in 1..Len(steps) : steps'[n] = steps[n]
      /\ steps'[top] = Step(t, f, Past, w)
      /\ LogMatchesText'
      /\ NewlineFollowsComment'
      /\ MarksNeverSplitAComment'
      /\ StepsAccount'
      /\ PositionIsRestored'
  BY <1>2, PushOne
<1>4. TypeOK'
  <2>1. Past \in 0 .. Len(input) + 1 /\ reader_pos' \in 0..Len(input)
    <3>1. Past \in 0 .. Len(input) + 1
      BY LexingFacts, <1>1
    <3>2. CASE reader_pos' = reader_pos
      BY <1>1, <3>1, <3>2
    <3>3. CASE reader_pos' = reader_pos + 1
      BY <1>1, <3>1, <3>3
    <3> QED
      BY <3>1, <3>2, <3>3
  <2>2. top \in 0..top /\ marks \subseteq 0..top
    BY <1>1, <1>2
  <2>3. where' \subseteq Places'
    BY PlacesCounted DEF Places
  <2> QED
    BY <1>1, <1>3, <2>1, <2>2, <2>3 DEF TypeOK
<1>5. EndIsFoundOnce'
  <2> SUFFICES ASSUME NEW n \in 1..top, steps'[n].tok = Eof
               PROVE  n = top /\ at_eof'
    BY <1>3 DEF EndIsFoundOnce, Lexing
  <2>1. n \in 1..Len(steps) \/ n = top
    BY <1>1, <1>2
  <2>2. n \notin 1..Len(steps)
    BY <1>3, LexingFacts
  <2>3. steps'[top].tok = t
    BY <1>3 DEF Step
  <2> QED
    BY <2>1, <2>2, <2>3
<1>6. EndIsRecorded'
  <2>1. steps'[top].tok = t /\ steps'[top].failed = f /\ top > 0
    BY <1>1, <1>2, <1>3 DEF Step
  <2> QED
    BY <1>3, <2>1 DEF EndIsRecorded
<1> QED
  BY <1>3, <1>4, <1>5, <1>6 DEF IInv

LEMMA LexingKeepsIInv ==
  ASSUME IInv,
         \/ LexBad \/ LexEof \/ LexBlank \/ LexBlockComment \/ LexOpenComment
         \/ LexToken
  PROVE  IInv'
<1>1. /\ Lexing /\ input' = input /\ marks' = marks
      /\ calling = TRUE /\ at_eof = FALSE
      /\ reply \in Tokens \cup {"none", "error"}
      /\ Len(steps) \in Nat /\ Len(input) \in Nat /\ reader_pos \in 0..Len(input)
      /\ where \subseteq Places
      /\ Past = reader_pos + 1 /\ Pending = Lexeme(Past)
      /\ Past \in 0 .. Len(input) + 1
      /\ Lexeme(Past) = Eof <=> reader_pos = Len(input)
  <2>1. Lexing /\ input' = input /\ marks' = marks
    BY DEF LexBad, LexEof, LexBlank, LexBlockComment, LexOpenComment, LexToken
  <2>2. /\ reply \in Tokens \cup {"none", "error"}
        /\ reader_pos \in 0..Len(input) /\ where \subseteq Places
        /\ calling \in BOOLEAN /\ at_eof \in BOOLEAN
    BY DEF IInv, TypeOK
  <2>3. calling = TRUE /\ at_eof = FALSE
    BY <2>1, <2>2, LexingFacts DEF Lexing
  <2>4. /\ Len(steps) \in Nat /\ Len(input) \in Nat
        /\ Past \in 1 .. Len(input) + 1
        /\ Lexeme(Past) = Eof <=> reader_pos = Len(input)
    BY <2>1, LexingFacts, StepFacts DEF IInv
  <2>5. Past = reader_pos + 1 /\ Pending = Lexeme(Past)
    BY DEF Past, Pending
  <2>6. Past \in 0 .. Len(input) + 1
    BY <2>4
  <2> QED
    BY <2>1, <2>2, <2>3, <2>4, <2>5, <2>6
<1>2. /\ Eof \notin Blank \cup Faulty \cup Words /\ Eof # "nl" /\ Eof \in Tokens
      /\ "mlc" \notin Words /\ "mlc" \in Blank /\ "error" # Eof
      /\ {"space", "slc"} \subseteq Blank
      /\ Words \cup {"nl"} \subseteq Tokens
  BY WordsAssumption DEF Eof, Blank, Faulty, Tokens
<1>3. Pending # Eof => reader_pos + 1 \in reader_pos .. Len(input)
  BY <1>1
<1>4. reader_pos \in reader_pos .. Len(input) /\ Past <= reader_pos + 1
  BY <1>1
<1>5. CASE LexEof
  BY <1>1, <1>2, <1>4, <1>5, LogOneKeepsIInv DEF LexEof, Return
<1>6. CASE LexBlank
  <2>1. Pending # Eof /\ Pending \in Tokens \cup Blank /\ Pending # "mlc"
    BY <1>2, <1>6 DEF LexBlank
  <2> QED
    BY <1>1, <1>2, <1>3, <1>4, <1>6, <2>1, LogOneKeepsIInv DEF LexBlank, Continue
<1>7. CASE LexToken
  <2>1. Pending # Eof /\ Pending \in Tokens /\ Pending # "mlc"
    BY <1>2, <1>7 DEF LexToken
  <2> QED
    BY <1>1, <1>2, <1>3, <1>4, <1>7, <2>1, LogOneKeepsIInv DEF LexToken, Return
<1>8. CASE LexOpenComment
  <2>1. Pending # Eof /\ "mlc" \in Tokens \cup Blank /\ "mlc" # Eof
    BY <1>2, <1>8 DEF LexOpenComment, Faulty
  <2> QED
    BY <1>1, <1>2, <1>3, <1>4, <1>8, <2>1, LogOneKeepsIInv DEF LexOpenComment, Return
<1>9. CASE LexBlockComment
  <2>1. PICK top \in Nat : top = Len(steps) + 2
    BY <1>1
  <2>2. /\ steps' \in Seq(StepType)'
        /\ steps_pos' = Len(steps') /\ Len(steps') = top
        /\ \A n \in 1..Len(steps) : steps'[n] = steps[n]
        /\ steps'[top - 1].tok = "mlc" /\ steps'[top].tok = "nl"
        /\ LogMatchesText'
        /\ NewlineFollowsComment'
        /\ MarksNeverSplitAComment'
        /\ StepsAccount'
        /\ PositionIsRestored'
    BY <1>9, <2>1, PushComment
  <2>3. /\ reader_pos' \in 0..Len(input) /\ where' \subseteq Places'
        /\ calling' \in BOOLEAN /\ at_eof' = FALSE /\ reply' = reply
    <3>1. Pending # Eof /\ reader_pos' = reader_pos + 1 /\ where' = Advanced
      BY <1>2, <1>9 DEF LexBlockComment
    <3>2. reader_pos + 1 \in 0..Len(input)
      BY <1>1, <1>3, <3>1
    <3>3. where' \subseteq Places'
      BY <1>1, <3>1, PlacesCounted DEF Places
    <3> QED
      BY <1>1, <1>9, <3>1, <3>2, <3>3 DEF LexBlockComment, Continue
  <2>4. TypeOK'
    <3>1. top \in 0..top /\ marks \subseteq 0..top /\ input \in Inputs
      BY <1>1, <2>1 DEF IInv, TypeOK
    <3> QED
      BY <1>1, <2>2, <2>3, <3>1 DEF TypeOK
  <2>5. EndIsFoundOnce'
    <3> SUFFICES ASSUME NEW n \in 1..top, steps'[n].tok = Eof PROVE FALSE
      BY <2>2, <2>3 DEF EndIsFoundOnce, Lexing
    <3>1. n \in 1..Len(steps) \/ n = top - 1 \/ n = top
      BY <1>1, <2>1
    <3>2. n \notin 1..Len(steps)
      BY <1>1, <2>2, LexingFacts
    <3> QED
      BY <2>2, <3>1, <3>2 DEF Eof
  <2>6. EndIsRecorded'
    BY <2>3 DEF EndIsRecorded
  <2> QED
    BY <2>2, <2>4, <2>5, <2>6 DEF IInv
<1>10. CASE LexBad
  <2>1. /\ UNCHANGED <<steps, steps_pos, at_eof>>
        /\ where' \in {where, Opened, Advanced}
        /\ reader_pos' = reader_pos + 1 /\ Pending # Eof
        /\ calling' = FALSE /\ reply' = "error"
    BY <1>2, <1>10 DEF LexBad, Return, Faulty
  <2>2. reader_pos + 1 \in 0..Len(input) /\ reader_pos' \in reader_pos .. Len(input)
    BY <1>1, <1>3, <2>1
  <2>3. /\ \A n \in 0..Len(steps) : After(n)' = After(n)
        /\ \A n \in 0..Len(steps) : CommentHead(n)' = CommentHead(n)
        /\ \A n \in 1..Len(steps) : StepMatches(n)'
        /\ \A m, n \in 0..Len(steps) : m <= n => After(m)' <= After(n)'
        /\ \A n \in 1..Len(steps) : StepAccounts(n)'
    <3>1. Len(steps) >= Len(steps)
      BY <1>1
    <3> QED
      BY <1>1, <2>1, <2>2, <3>1, OldSteps
  <2>4. LogMatchesText'
    <3>1. Unlexed(After(Len(steps)), Past + 1)
      <4>1. Unlexed(After(Len(steps)), Past) /\ Lexeme(Past) = "bad"
        BY <1>1, <1>10 DEF IInv, LogMatchesText, LexBad
      <4>2. \A k \in 1 .. Len(input) + 1 : k < Past + 1 => k < Past \/ k = Past
        BY <1>1
      <4> QED
        BY <4>1, <4>2 DEF Unlexed
    <3>2. Unlexed(After(Len(steps)), reader_pos + 1)'
      BY <1>1, <2>1, <3>1 DEF Unlexed, Lexeme, LexemeAt, After
    <3> QED
      BY <2>1, <2>3, <3>2 DEF LogMatchesText, After
  <2>5. TypeOK'
    <3>1. where' \subseteq Places
      BY <1>1, <2>1, PlacesCounted
    <3> QED
      BY <1>1, <2>1, <2>2, <3>1 DEF IInv, TypeOK, StepType, Places
  <2>6. NewlineFollowsComment' /\ MarksNeverSplitAComment'
    BY <1>1, <2>1 DEF IInv, NewlineFollowsComment, MarksNeverSplitAComment,
                      CommentHead
  <2>7. EndIsFoundOnce' /\ EndIsRecorded'
    BY <1>1, <2>1 DEF IInv, EndIsFoundOnce, EndIsRecorded, Lexing
  <2>8. StepsAccount'
    BY <2>1, <2>3 DEF StepsAccount
  <2>9. PositionIsRestored'
    <3>1. Accounts(where', After(Len(steps)))
      <4>1. PICK S \in SUBSET Parts(Past) : where' = where \cup S
        <5>1. /\ {} \subseteq Parts(Past) /\ {Opening(Past)} \subseteq Parts(Past)
              /\ where = where \cup {}
          BY <1>1, PlacesCounted
        <5> QED
          BY <2>1, <5>1 DEF Opened, Advanced
      <4>2. Lexeme(Past) = "bad"
        BY <1>1, <1>10 DEF LexBad
      <4> QED
        BY <1>1, <4>1, <4>2, PendingCounted
    <3>2. After(Len(steps))' = After(Len(steps))
      BY <2>1 DEF After
    <3> QED
      BY <1>1, <2>1, <3>1, <3>2 DEF PositionIsRestored, Accounts, Lexeme, LexemeAt
  <2> QED
    BY <2>4, <2>5, <2>6, <2>7, <2>8, <2>9 DEF IInv
<1> QED
  BY <1>5, <1>6, <1>7, <1>8, <1>9, <1>10
-----------------------------------------------------------------------------
(* The log agrees with the text, its marks are sound and its positions     *)
(* right in every reachable state.                                         *)
THEOREM LogInvariant == Spec => []IInv
<1>1. Init => IInv
  BY InitIInv
<1>2. IInv /\ [Next]_vars => IInv'
  BY CallsKeepIInv, ReplayingKeepsIInv, LexingKeepsIInv DEF Next, Loop
<1> QED
  BY <1>1, <1>2, PTL DEF Spec

(* Every step, position and mark has its type, for every text.             *)
THEOREM LogTypeOK == Spec => []TypeOK
  BY LogInvariant, PTL DEF IInv

(* A rewind (lexer_rewind_to) never lands between the start of a block     *)
(* comment and the newline that stands for it.                             *)
THEOREM MarksSafe == Spec => []MarksNeverSplitAComment
  BY LogInvariant, PTL DEF IInv

(* The log is the text, lexeme by lexeme, as far as the Reader has handed  *)
(* it out (lexer_next_significant).                                        *)
THEOREM LogFaithful == Spec => []LogMatchesText
  BY LogInvariant, PTL DEF IInv

(* The asserts of the replay of a block comment (lexer.c:175-177) hold.    *)
THEOREM ReplayAssertsHold == Spec => []NewlineFollowsComment
  BY LogInvariant, PTL DEF IInv

(* The Reader is never asked again once its end was found (lexer.c:115).   *)
THEOREM EndFoundOnce == Spec => []EndIsFoundOnce
  BY LogInvariant, PTL DEF IInv

(* Whenever lexing goes on after a replay, line and column account for all *)
(* of the lexemes that were passed and for none behind them                *)
(* (lexer_log_seal), although a rewind does not touch them.  What they     *)
(* account for of bad text is left open, since lexer_next_token counts     *)
(* what it consumed before its error.                                      *)
THEOREM PositionRight == Spec => []PositionIsRestored
  BY LogInvariant, PTL DEF IInv

-----------------------------------------------------------------------------
(* Every behaviour of the log is a behaviour of the stream the parser is   *)
(* promised: a replayed step and a freshly lexed one are the same step of  *)
(* the stream.                                                             *)

(* What the step n of the log stands for is what the stream reaches next   *)
(* from the step before it.                                                *)
LEMMA RecordedIsNext ==
  ASSUME IInv,
         NEW n \in 1..Len(steps), ~CommentHead(n),
         After(steps_pos) = After(n - 1)
  PROVE  /\ Stream!Reaches(After(n))
         /\ Lexeme(After(n)) = StandsFor(n)
<1>1. /\ Len(steps) \in Nat /\ Len(input) \in Nat /\ reader_pos \in 0..Len(input)
      /\ n - 1 \in 0..Len(steps) /\ n \in 0..Len(steps)
      /\ After(n) \in Nat /\ After(n - 1) \in Nat
  <2>1. /\ Len(steps) \in Nat /\ Len(input) \in Nat /\ reader_pos \in 0..Len(input)
    BY StepFacts DEF IInv, TypeOK
  <2>2. n - 1 \in 0..Len(steps) /\ n \in 0..Len(steps)
    BY <2>1
  <2> QED
    BY <2>1, <2>2, StepFacts DEF IInv
<1>2. /\ After(n - 1) < After(n)
      /\ After(n) \in 1 .. reader_pos + 1
      /\ Lexeme(After(n)) = StandsFor(n)
      /\ Unlexed(After(n - 1), After(n))
  BY DEF IInv, LogMatchesText, StepMatches
<1>3. After(n) \in 1 .. Len(input) + 1
  BY <1>1, <1>2
<1>4. \A j \in 1 .. Len(input) + 1 :
        After(n - 1) < j /\ j < After(n) => j \in 1..reader_pos /\ input[j] = "bad"
  BY <1>1, <1>2 DEF Unlexed, Lexeme, LexemeAt
<1>5. StandsFor(n) # "bad"
  <2>1. steps[n].tok \in Tokens \cup Blank
    BY StepFacts DEF IInv
  <2> QED
    BY <2>1, NotBad DEF StandsFor
<1>6. After(n) \notin Reported
  <2> SUFFICES ASSUME After(n) \in 1..reader_pos, input[After(n)] = "bad"
               PROVE  FALSE
    BY DEF Reported
  <2>1. Lexeme(After(n)) = "bad"
    BY <1>1 DEF Lexeme, LexemeAt
  <2> QED
    BY <1>2, <1>5, <2>1
<1>7. \A j \in 1 .. Len(input) + 1 :
        After(n - 1) < j /\ j < After(n) => j \in Reported
  BY <1>4 DEF Reported
<1> QED
  BY <1>2, <1>3, <1>6, <1>7 DEF Stream!Reaches, Stream!Positions

(* What the Reader has next is what the stream reaches once the log is     *)
(* replayed.                                                               *)
LEMMA PendingIsNext ==
  ASSUME IInv, Lexing
  PROVE  Stream!Reaches(Past)
<1>1. /\ Len(steps) \in Nat /\ Len(input) \in Nat /\ reader_pos \in 0..Len(input)
      /\ steps_pos = Len(steps) /\ Past = reader_pos + 1
      /\ After(Len(steps)) \in Nat /\ After(Len(steps)) <= reader_pos
  BY StepFacts, LexingFacts DEF IInv, TypeOK, Past
<1>2. After(Len(steps)) < Past /\ Past \in 1 .. Len(input) + 1
  BY <1>1
<1>3. \A j \in 1 .. Len(input) + 1 :
        After(Len(steps)) < j /\ j < Past => j \in 1..reader_pos /\ input[j] = "bad"
  <2>1. Unlexed(After(Len(steps)), Past)
    BY <1>1 DEF IInv, LogMatchesText
  <2> QED
    BY <1>1, <2>1 DEF Unlexed, Lexeme, LexemeAt
<1>4. Past \notin Reported
  BY <1>1 DEF Reported
<1> QED
  BY <1>1, <1>2, <1>3, <1>4 DEF Stream!Reaches, Stream!Positions, Reported

(* The parts of the stream's state that a step of the log keeps. *)
LEMMA HeldKept ==
  ASSUME IInv, input' = input, marks' = marks,
         reader_pos' \in reader_pos .. Len(input),
         Len(steps') \in Nat, Len(steps') >= Len(steps),
         \A n \in 1..Len(steps) : steps'[n] = steps[n]
  PROVE  Held' = Held
<1>1. \A n \in 0..Len(steps) : After(n)' = After(n)
  BY OldSteps
<1>2. \A m \in marks : m \in 0..Len(steps)
  BY DEF IInv, TypeOK
<1>3. \A m \in marks : After(m)' = After(m)
  BY <1>1, <1>2
<1> QED
  BY <1>3 DEF Held

LEMMA ReportedKept ==
  ASSUME IInv, input' = input,
         \/ reader_pos' = reader_pos
         \/ reader_pos' = reader_pos + 1 /\ reader_pos < Len(input)
            /\ Lexeme(Past) # "bad"
  PROVE  Reported' = Reported
<1>1. CASE reader_pos' = reader_pos
  BY <1>1 DEF Reported
<1>2. CASE reader_pos' = reader_pos + 1 /\ reader_pos < Len(input) /\ Lexeme(Past) # "bad"
  <2>1. reader_pos \in Nat /\ Len(input) \in Nat
    BY StepFacts DEF IInv
  <2>2. input[reader_pos + 1] # "bad"
    BY <1>2, <2>1 DEF Lexeme, LexemeAt, Past
  <2>3. 1 .. reader_pos + 1 = (1..reader_pos) \cup {reader_pos + 1}
    BY <2>1
  <2> QED
    BY <1>2, <2>2, <2>3 DEF Reported
<1> QED
  BY <1>1, <1>2
-----------------------------------------------------------------------------
LEMMA CallsRefine ==
  ASSUME IInv, CallAtEof \/ Call \/ Mark \/ Rewind \/ UNCHANGED vars
  PROVE  [Stream!Next]_(Stream!vars)
<1>1. /\ Len(steps) \in Nat /\ steps_pos \in 0..Len(steps)
      /\ marks \subseteq 0..Len(steps) /\ Len(input) \in Nat
      /\ reader_pos \in 0..Len(input)
  BY StepFacts DEF IInv, TypeOK
<1>2. UNCHANGED <<input, reader_pos, steps>>
  BY DEF CallAtEof, Call, Mark, Rewind, vars, lexer
<1>3. \A n \in Nat : After(n)' = After(n)
  BY <1>2 DEF After
<1>4. Reported' = Reported
  BY <1>2 DEF Reported
<1>5. CallAtEof \/ Call \/ Mark => After(steps_pos)' = After(steps_pos)
  BY <1>2 DEF CallAtEof, Call, Mark, lexer, After
<1>6. marks' = marks => Held' = Held
  BY <1>2 DEF Held, After
<1>7. CASE CallAtEof
  <2>1. Len(steps) \in 1..Len(steps) /\ steps[Len(steps)].tok = Eof /\ steps_pos = Len(steps)
    BY <1>1, <1>7 DEF CallAtEof, IInv, EndIsRecorded
  <2>2. ~CommentHead(Len(steps))
    BY <2>1 DEF CommentHead, Eof
  <2>3. StepMatches(Len(steps))
    BY <2>1 DEF IInv, LogMatchesText
  <2>4. ~CommentHead(Len(steps) - 1)
    <3> SUFFICES ASSUME CommentHead(Len(steps) - 1) PROVE FALSE
      OBVIOUS
    <3>1. Len(steps) - 1 \in 1..Len(steps)
      BY <1>1 DEF CommentHead
    <3>2. (Len(steps) - 1) + 1 = Len(steps)
      BY <1>1
    <3>3. steps[(Len(steps) - 1) + 1].tok = "nl"
      BY <3>1 DEF IInv, NewlineFollowsComment
    <3> QED
      BY <2>1, <3>2, <3>3 DEF Eof
  <2>5. Lexeme(After(Len(steps))) = Eof /\ After(Len(steps)) \in 1 .. reader_pos + 1
    <3>1. ~steps[Len(steps)].failed
      BY <1>7 DEF CallAtEof, IInv, EndIsRecorded
    <3> QED
      BY <2>1, <2>2, <2>3, <2>4, <3>1 DEF StepMatches, StandsFor
  <2>6. After(Len(steps)) = Len(input) + 1
    <3>1. After(Len(steps)) \notin 1..Len(input)
      BY <2>5, TextFacts DEF IInv
    <3> QED
      BY <1>1, <2>5, <3>1
  <2> QED
    BY <1>2, <1>4, <1>5, <1>6, <1>7, <2>1, <2>6
    DEF CallAtEof, lexer, Stream!Next, Stream!DeliverEofAgain, Eof, Stream!Eof
<1>8. CASE Call
  BY <1>2, <1>4, <1>5, <1>6, <1>8
  DEF Call, lexer, Stream!Next, Stream!Call, Stream!vars
<1>9. CASE Mark
  <2>1. Held' = Held \cup {After(steps_pos)}
    BY <1>2, <1>9 DEF Mark, Held, After
  <2> QED
    BY <1>2, <1>4, <1>5, <1>9, <2>1
    DEF Mark, lexer, Stream!Next, Stream!Mark
<1>10. CASE Rewind
  <2>1. PICK m \in marks : m <= steps_pos /\ steps_pos' = m
    BY <1>10, Zenon DEF Rewind
  <2>2. m \in 0..Len(steps) /\ m \in Nat
    BY <1>1, <2>1
  <2>3. After(m) <= After(steps_pos) /\ After(m) \in Held
    BY <1>1, <2>1, <2>2 DEF IInv, LogMatchesText, Held
  <2>4. After(steps_pos)' = After(m)
    BY <1>2, <2>1, <2>2 DEF After
  <2> QED
    BY <1>2, <1>4, <1>6, <1>10, <2>3, <2>4
    DEF Rewind, Stream!Next, Stream!Rewind
<1>11. CASE UNCHANGED vars
  BY <1>2, <1>4, <1>6, <1>11 DEF vars, lexer, Stream!vars, After
<1> QED
  BY <1>7, <1>8, <1>9, <1>10, <1>11

(* A replayed step is a step the stream takes. *)
LEMMA ReplayingRefines ==
  ASSUME IInv,
         \/ ReplayFailure \/ ReplayEof \/ ReplayBlank \/ ReplayBlockComment
         \/ ReplayToken
  PROVE  Stream!Next
<1>1. /\ Replaying /\ calling
      /\ UNCHANGED <<input, reader_pos, steps, marks>>
  BY DEF ReplayFailure, ReplayEof, ReplayBlank, ReplayBlockComment, ReplayToken,
         Replaying
<1> DEFINE n == steps_pos + 1
<1>2. /\ Len(steps) \in Nat /\ steps_pos \in 0..Len(steps) /\ n - 1 = steps_pos
      /\ n \in 1..Len(steps) /\ n \in Nat /\ n # 0
      /\ steps[n] = Recorded /\ n + 1 = steps_pos + 2
      /\ steps[n].tok \in Tokens \cup Blank
  BY <1>1, StepFacts DEF IInv, TypeOK, Replaying, Recorded
<1> HIDE DEF n
<1>3. Held' = Held /\ Reported' = Reported
  BY <1>1, <1>2 DEF Held, Reported, After
<1>4. \A k \in Nat : After(k)' = After(k)
  BY <1>1 DEF After
<1>5. ~CommentHead(steps_pos)
  BY <1>2 DEF IInv, MarksNeverSplitAComment
<1>6. ~CommentHead(n) => /\ Stream!Reaches(After(n))
                         /\ After(n) \in 1 .. Len(input) + 1
                         /\ Lexeme(After(n)) = IF steps[n].failed THEN "open"
                                               ELSE steps[n].tok
  <2> SUFFICES ASSUME ~CommentHead(n)
               PROVE  /\ Stream!Reaches(After(n))
                      /\ Lexeme(After(n)) = IF steps[n].failed THEN "open"
                                            ELSE steps[n].tok
    BY DEF Stream!Reaches, Stream!Positions
  <2>1. After(steps_pos) = After(n - 1)
    BY <1>2
  <2> QED
    BY <1>2, <1>5, <2>1, RecordedIsNext DEF StandsFor
<1>7. \A k : Stream!Lexeme(k) = Lexeme(k)
  BY DEF Stream!Lexeme, Lexeme, LexemeAt, Stream!LexemeAt, Eof, Stream!Eof
<1>8. Stream!Tokens = Tokens /\ Stream!Blank = Blank
  BY DEF Stream!Tokens, Tokens, Stream!Blank, Blank, Eof, Stream!Eof
<1>9. CASE ReplayFailure
  <2>1. ~CommentHead(n) /\ steps[n].failed
    BY <1>2, <1>9 DEF ReplayFailure, CommentHead
  <2>2. After(steps_pos)' = After(n)
    BY <1>2, <1>4, <1>9 DEF ReplayFailure, n
  <2>3. Stream!FailAtOpenComment
    BY <1>1, <1>3, <1>6, <1>7, <1>9, <2>1, <2>2
    DEF ReplayFailure, Return, Stream!FailAtOpenComment, Stream!Positions
  <2> QED
    BY <2>3 DEF Stream!Next
<1>10. CASE ReplayEof \/ ReplayToken
  <2>1. ~CommentHead(n) /\ ~steps[n].failed /\ steps[n].tok \in Tokens
    BY <1>2, <1>10 DEF ReplayEof, ReplayToken, CommentHead, Eof, Tokens, Blank
  <2>2. After(steps_pos)' = After(n)
    BY <1>2, <1>4, <1>10 DEF ReplayEof, ReplayToken, n
  <2>3. reply' = steps[n].tok /\ calling' = FALSE
    BY <1>2, <1>10 DEF ReplayEof, ReplayToken, Return
  <2>4. Stream!Deliver
    BY <1>1, <1>3, <1>6, <1>7, <1>8, <2>1, <2>2, <2>3 DEF Stream!Deliver, Stream!Positions
  <2> QED
    BY <2>4 DEF Stream!Next
<1>11. CASE ReplayBlank
  <2>1. ~CommentHead(n) /\ ~steps[n].failed /\ steps[n].tok \in Blank
    BY <1>2, <1>11 DEF ReplayBlank, CommentHead, Blank
  <2>2. After(steps_pos)' = After(n)
    BY <1>2, <1>4, <1>11 DEF ReplayBlank, n
  <2>3. Stream!Skip
    BY <1>1, <1>3, <1>6, <1>7, <1>8, <1>11, <2>1, <2>2
    DEF ReplayBlank, Continue, Stream!Skip, Stream!Positions
  <2> QED
    BY <2>3 DEF Stream!Next
<1>12. CASE ReplayBlockComment
  <2>1. CommentHead(n)
    BY <1>2, <1>12 DEF ReplayBlockComment, CommentHead
  <2>2. n < Len(steps) /\ steps[n + 1].tok = "nl" /\ ~steps[n + 1].failed
    BY <1>2, <2>1 DEF IInv, NewlineFollowsComment
  <2>3. PICK m \in 1..Len(steps) : m = n + 1
    BY <1>2, <2>2
  <2>4. m - 1 = n /\ m \in Nat
    BY <1>2, <2>3
  <2>5. ~CommentHead(m)
    BY <2>2, <2>3 DEF CommentHead
  <2>6. After(steps_pos) = After(m - 1)
    <3>1. StepMatches(n)
      BY <1>2 DEF IInv, LogMatchesText
    <3> QED
      BY <1>2, <2>1, <2>4, <3>1 DEF StepMatches
  <2>7. Stream!Reaches(After(m)) /\ Lexeme(After(m)) = "mlc"
    BY <2>1, <2>2, <2>3, <2>4, <2>5, <2>6, RecordedIsNext DEF StandsFor
  <2>8. After(steps_pos)' = After(m)
    BY <1>2, <1>4, <1>12, <2>3, <2>4 DEF ReplayBlockComment
  <2>9. After(m) \in 1 .. Len(input) + 1
    BY <2>7 DEF Stream!Reaches, Stream!Positions
  <2>10. Stream!Skip
    BY <1>1, <1>3, <1>7, <1>8, <1>12, <2>7, <2>8, <2>9
    DEF ReplayBlockComment, Continue, Stream!Skip, Stream!Positions, Blank
  <2> QED
    BY <2>10 DEF Stream!Next
<1> QED
  BY <1>9, <1>10, <1>11, <1>12

(* A lexeme that is logged moves the stream over it. *)
LEMMA LoggedIsPassed ==
  ASSUME IInv,
         LexEof \/ LexBlank \/ LexBlockComment \/ LexOpenComment \/ LexToken
  PROVE  /\ After(steps_pos)' = Past
         /\ Held' = Held
         /\ Reported' = Reported
<1>1. /\ Lexing /\ input' = input /\ marks' = marks /\ Pending = Lexeme(Past)
      /\ Len(steps) \in Nat /\ Len(input) \in Nat /\ reader_pos \in 0..Len(input)
      /\ steps \in Seq(StepType) /\ Past = reader_pos + 1
  BY StepFacts DEF LexEof, LexBlank, LexBlockComment, LexOpenComment, LexToken,
     IInv, TypeOK, Past, Pending
<1>2. Lexeme(Past) = Eof <=> reader_pos = Len(input)
  BY <1>1, LexingFacts
<1>3. \/ reader_pos' = reader_pos
      \/ reader_pos' = reader_pos + 1 /\ reader_pos < Len(input) /\ Lexeme(Past) # "bad"
  <2>1. CASE LexEof
    BY <2>1 DEF LexEof
  <2>2. CASE ~LexEof
    <3>1. /\ reader_pos' = reader_pos + 1
          /\ Pending \in Words \cup {"nl", "space", "slc", "mlc", "open"}
      BY <2>2 DEF LexBlank, LexBlockComment, LexOpenComment, LexToken
    <3>2. Pending # "bad" /\ Pending # Eof
      BY <3>1, WordsAssumption DEF Faulty, Eof
    <3>3. reader_pos # Len(input) /\ Lexeme(Past) # "bad"
      BY <1>1, <1>2, <3>2
    <3> QED
      BY <1>1, <3>1, <3>3
  <2> QED
    BY <2>1, <2>2
<1>4. Reported' = Reported
  BY <1>1, <1>3, ReportedKept
<1>5. reader_pos' \in reader_pos .. Len(input)
  <2>1. CASE reader_pos' = reader_pos
    BY <1>1, <2>1
  <2>2. CASE reader_pos' = reader_pos + 1 /\ reader_pos < Len(input)
    BY <1>1, <2>2
  <2> QED
    BY <1>3, <2>1, <2>2
<1>6. CASE LexBlockComment
  <2>1. PICK top \in Nat : top = Len(steps) + 2
    BY <1>1
  <2>2. /\ steps_pos' = top /\ Len(steps') = top
        /\ \A n \in 1..Len(steps) : steps'[n] = steps[n]
    BY <1>6, <2>1, PushComment
  <2>3. steps'[top] = Step("nl", FALSE, Past, Advanced)
    BY <1>6, <2>1, PushComment
  <2>4. After(top)' = Past
    BY <1>1, <2>1, <2>3 DEF After, Step
  <2>5. Held' = Held
    <3>1. Len(steps') \in Nat /\ Len(steps') >= Len(steps)
      BY <1>1, <2>1, <2>2
    <3> QED
      BY <1>1, <1>5, <2>2, <3>1, HeldKept
  <2> QED
    BY <1>4, <2>2, <2>4, <2>5 DEF After
<1>7. ASSUME NEW t \in Tokens \cup Blank, NEW f \in BOOLEAN,
             NEW w, w \subseteq Places,
             Log(Append(steps, Step(t, f, Past, w)))
      PROVE  After(steps_pos)' = Past /\ Held' = Held
  <2>1. PICK top \in Nat : top = Len(steps) + 1
    BY <1>1
  <2>2. Step(t, f, Past, w) \in StepType
    BY <1>1, <1>7 DEF Step, StepType
  <2>3. /\ Len(steps') = top /\ steps_pos' = top
        /\ \A n \in 1..Len(steps) : steps'[n] = steps[n]
        /\ steps'[top] = Step(t, f, Past, w)
    BY <1>1, <1>7, <2>1, <2>2 DEF Log
  <2>4. After(top)' = Past
    BY <1>1, <2>1, <2>3 DEF After, Step
  <2>5. Held' = Held
    <3>1. Len(steps') \in Nat /\ Len(steps') >= Len(steps)
      BY <1>1, <2>1, <2>3
    <3> QED
      BY <1>1, <1>5, <2>3, <3>1, HeldKept
  <2> QED
    BY <2>3, <2>4, <2>5 DEF After
<1>8. Advanced \subseteq Places /\ Opened \subseteq Places
  BY <1>1, PlacesCounted
<1>9. CASE LexEof
  BY <1>4, <1>7, <1>8, <1>9 DEF LexEof, Tokens
<1>10. CASE LexBlank
  BY <1>4, <1>7, <1>8, <1>10 DEF LexBlank, Blank
<1>11. CASE LexOpenComment
  BY <1>4, <1>7, <1>8, <1>11 DEF LexOpenComment, Blank
<1>12. CASE LexToken
  BY <1>4, <1>7, <1>8, <1>12 DEF LexToken, Tokens
<1> QED
  BY <1>6, <1>9, <1>10, <1>11, <1>12

(* A lexeme that is lexed is the next one of the stream. *)
LEMMA LexingRefines ==
  ASSUME IInv,
         \/ LexBad \/ LexEof \/ LexBlank \/ LexBlockComment \/ LexOpenComment
         \/ LexToken
  PROVE  Stream!Next
<1>1. /\ Lexing /\ calling /\ input' = input /\ marks' = marks
      /\ Pending = Lexeme(Past)
  BY DEF LexBad, LexEof, LexBlank, LexBlockComment, LexOpenComment, LexToken,
     Lexing, Past, Pending
<1>2. Stream!Reaches(Past) /\ Past \in Stream!Positions
  BY <1>1, PendingIsNext DEF Stream!Reaches
<1>3. \A k : Stream!Lexeme(k) = Lexeme(k)
  BY DEF Stream!Lexeme, Lexeme, LexemeAt, Stream!LexemeAt, Eof, Stream!Eof
<1>4. Stream!Tokens = Tokens /\ Stream!Blank = Blank
  BY DEF Stream!Tokens, Tokens, Stream!Blank, Blank, Eof, Stream!Eof
<1>5. CASE LexBad
  <2>1. /\ UNCHANGED <<steps, steps_pos>> /\ reader_pos' = reader_pos + 1
        /\ Lexeme(Past) = "bad" /\ calling' = FALSE /\ reply' = "error"
    BY <1>1, <1>5 DEF LexBad, Return
  <2>2. Held' = Held /\ After(steps_pos)' = After(steps_pos)
    BY <1>1, <2>1 DEF Held, After
  <2>3. Reported' = Reported \cup {Past}
    <3>1. reader_pos \in 0..Len(input) /\ Len(input) \in Nat /\ Past = reader_pos + 1
      BY StepFacts DEF IInv, TypeOK, Past
    <3>2. Lexeme(Past) # Eof
      BY <2>1 DEF Eof
    <3>3. Past \in 1..Len(input)
      BY <1>1, <3>1, <3>2, LexingFacts
    <3>4. input[Past] = "bad"
      BY <2>1, <3>1, <3>3 DEF Lexeme, LexemeAt
    <3>5. 1 .. reader_pos + 1 = (1..reader_pos) \cup {Past}
      BY <3>1
    <3> QED
      BY <1>1, <2>1, <3>4, <3>5 DEF Reported
  <2>4. Stream!FailOnce
    BY <1>1, <1>2, <1>3, <2>1, <2>2, <2>3 DEF Stream!FailOnce
  <2> QED
    BY <2>4 DEF Stream!Next
<1>6. CASE LexEof \/ LexToken
  <2>1. /\ Lexeme(Past) \in Tokens /\ calling' = FALSE /\ reply' = Lexeme(Past)
    BY <1>1, <1>6 DEF LexEof, LexToken, Return, Tokens
  <2>2. Stream!Deliver
    BY <1>1, <1>2, <1>3, <1>4, <1>6, <2>1, LoggedIsPassed DEF Stream!Deliver
  <2> QED
    BY <2>2 DEF Stream!Next
<1>7. CASE LexBlank \/ LexBlockComment
  <2>1. Lexeme(Past) \in Blank /\ calling' = calling /\ reply' = reply
    BY <1>1, <1>7 DEF LexBlank, LexBlockComment, Continue, Blank
  <2>2. Stream!Skip
    BY <1>1, <1>2, <1>3, <1>4, <1>7, <2>1, LoggedIsPassed DEF Stream!Skip
  <2> QED
    BY <2>2 DEF Stream!Next
<1>8. CASE LexOpenComment
  <2>1. Lexeme(Past) = "open" /\ calling' = FALSE /\ reply' = "error"
    BY <1>1, <1>8 DEF LexOpenComment, Return
  <2>2. Stream!FailAtOpenComment
    BY <1>1, <1>2, <1>3, <1>8, <2>1, LoggedIsPassed DEF Stream!FailAtOpenComment
  <2> QED
    BY <2>2 DEF Stream!Next
<1> QED
  BY <1>5, <1>6, <1>7, <1>8
-----------------------------------------------------------------------------
(* lexer.h's promise of lexer_rewind_to, "Undo every token after `mark`,   *)
(* without touching the Reader": whatever calls, marks and rewinds the     *)
(* parser makes, the log answers them as a stream would that reads its     *)
(* text again from the mark.                                               *)
THEOREM LogImplementsStream == Spec => ImplementsStream
<1>1. Init => Stream!Init
  <2> SUFFICES ASSUME Init PROVE Stream!Init
    OBVIOUS
  <2>1. After(steps_pos) = 0 /\ Reported = {} /\ Held = {}
    BY DEF Init, After, Reported, Held
  <2> QED
    BY <2>1 DEF Init, Stream!Init
<1>2. IInv /\ [Next]_vars => [Stream!Next]_(Stream!vars)
  BY CallsRefine, ReplayingRefines, LexingRefines DEF Next, Loop
<1> QED
  BY <1>1, <1>2, LogInvariant, PTL DEF Spec, ImplementsStream, Stream!Spec
=============================================================================
