----------------------------- MODULE OlgProofs -----------------------------
(***************************************************************************)
(* The fields of Exec follow the C stack.  Each frame that saves fields    *)
(* holds what they were when it began, which is what the frames below it   *)
(* say they are: then what a frame puts back when it returns is right, and *)
(* so is what a longjmp puts back, however many frames it leaves.          *)
(***************************************************************************)
EXTENDS OlgExec, FiniteSetTheorems, SequenceTheorems, TLAPS

IsSeq(q) == q \in Seq({q[i] : i \in DOMAIN q})

(* What a frame and Exec look like, as far as the steps depend on it. *)
Loops == {"N_LOOP", "N_CFOR", "N_IN_CLAUSE", "N_CHECK_IN"}

IsFrame(f) ==
  /\ DOMAIN f = { "fn", "node", "at", "i", "v", "vals", "cell", "own", "saved", "mark",
                  "prev", "deep" }
  /\ f.at = "part" => f.fn \in {"eval", "lvalue_cell"} \cup Builders
  /\ f.fn = "exec_stmt" /\ f.at \in {"condition", "body"} => f.node.k \in Loops

IsExec(x) ==
  /\ DOMAIN x = {"cur", "flow", "label", "ret", "catch_", "defers", "depth", "styp"}
  /\ IsSeq(x.defers)

(* The places up to k of the frames of each kind. *)
Regions(s, k)   == {j \in 1 .. k : Trying(s[j])}
Scopes(s, k)    == {j \in 1 .. k : Scope(s[j])}
Crossings(s, k) == {j \in 1 .. k : Crossing(s[j])}
Windows(s, k)   == {j \in 1 .. k : Window(s[j])}

(* What the frames up to k say of catch_, cur and depth, and that no mark  *)
(* of theirs is beyond m. *)
Latest(places, c) ==
  IF places = {} THEN c = 0 ELSE c \in places /\ \A j \in places : j <= c

Current(s, k, cur) ==
  \E p \in 0 .. k : Latest(Scopes(s, k), p) /\ cur = IF p = 0 THEN Global ELSE s[p].own

Level(s, k, catch, cur, depth) ==
  /\ Latest(Regions(s, k), catch)
  /\ Current(s, k, cur)
  /\ depth = Cardinality(Crossings(s, k))

Marked(s, k, m) == \A j \in Windows(s, k) : s[j].mark <= m

(* A frame has saved what those below it say. *)
Fits(s, k) ==
  LET f == s[k]
  IN  /\ Trying(f) => Level(s, k - 1, f.prev, f.saved, f.deep)
      /\ Scope(f)  => Current(s, k - 1, f.saved)
      /\ Window(f) => f.mark \in Nat /\ Marked(s, k - 1, f.mark)

Fitted(s, n) == \A k \in 1 .. n : IsFrame(s[k]) /\ Fits(s, k)

(* A stack whose frames agree with one another, and with the fields. *)
Linked(s, catch, cur, depth, m) ==
  /\ IsSeq(s)
  /\ Fitted(s, Len(s))
  /\ Level(s, Len(s), catch, cur, depth)
  /\ Marked(s, Len(s), m)

Sound ==
  /\ IsExec(e)
  /\ Linked(stack, e.catch_, e.cur, e.depth, Len(e.defers))
  /\ stack # <<>> /\ stack[1].fn = "exec_run"

FollowInv == ~Over => Sound
-----------------------------------------------------------------------------
(* Sequences. *)
LEMMA SeqHasRange ==
  ASSUME NEW S, NEW q \in Seq(S)
  PROVE  IsSeq(q)
<1>1. q \in Seq(Range(q)) BY SeqOfRange
<1> QED BY <1>1 DEF IsSeq, Range

LEMMA Appended ==
  ASSUME NEW s, IsSeq(s), NEW f
  PROVE  /\ IsSeq(Append(s, f)) /\ Append(s, f) # <<>>
         /\ Len(s) \in Nat /\ Len(Append(s, f)) = Len(s) + 1
         /\ Append(s, f)[Len(s) + 1] = f
         /\ \A j \in 1 .. Len(s) : Append(s, f)[j] = s[j]
         /\ Front(Append(s, f)) = s /\ Last(Append(s, f)) = f
<1> DEFINE S == {s[i] : i \in DOMAIN s} \cup {f}
<1>1. s \in Seq(S) /\ f \in S BY DEF IsSeq
<1> HIDE DEF S
<1> DEFINE a == Append(s, f)
<1>2. /\ a \in Seq(S) /\ Len(s) \in Nat /\ Len(a) = Len(s) + 1 /\ a[Len(s) + 1] = f
      /\ \A j \in 1 .. Len(s) : a[j] = s[j]
  BY <1>1
<1>3. IsSeq(a) BY <1>2, SeqHasRange
<1> HIDE DEF a
<1>4. a # <<>> BY <1>2
<1>5. Front(a) = s
  <2>1. /\ SubSeq(a, 1, Len(s)) \in Seq(S) /\ Len(SubSeq(a, 1, Len(s))) = Len(s)
        /\ \A j \in 1 .. Len(s) : SubSeq(a, 1, Len(s))[j] = a[j]
    BY <1>2
  <2>2. SubSeq(a, 1, Len(s)) = s BY <1>1, <1>2, <2>1, SeqEqual
  <2>3. Len(a) - 1 = Len(s) BY <1>2
  <2> QED BY <2>2, <2>3 DEF Front
<1>6. Last(a) = f BY <1>2 DEF Last
<1> QED BY <1>2, <1>3, <1>4, <1>5, <1>6 DEF a

LEMMA Shortened ==
  ASSUME NEW s, IsSeq(s), NEW n \in 0 .. Len(s)
  PROVE  /\ IsSeq(SubSeq(s, 1, n)) /\ Len(SubSeq(s, 1, n)) = n
         /\ \A j \in 1 .. n : SubSeq(s, 1, n)[j] = s[j]
<1> DEFINE S == {s[i] : i \in DOMAIN s}
<1>1. s \in Seq(S) BY DEF IsSeq
<1> HIDE DEF S
<1>2. SubSeq(s, 1, n) \in Seq(S) BY <1>1
<1>3. Len(SubSeq(s, 1, n)) = n /\ \A j \in 1 .. n : SubSeq(s, 1, n)[j] = s[j] BY <1>1
<1> QED BY <1>2, <1>3, SeqHasRange

LEMMA FrontOf ==
  ASSUME NEW s, IsSeq(s), s # <<>>
  PROVE  /\ IsSeq(Front(s)) /\ Len(s) \in Nat \ {0} /\ Len(Front(s)) = Len(s) - 1
         /\ \A j \in 1 .. Len(s) - 1 : Front(s)[j] = s[j]
         /\ Last(s) = s[Len(s)]
<1>1. Len(s) \in Nat \ {0} BY DEF IsSeq
<1>2. Len(s) - 1 \in 0 .. Len(s) BY <1>1
<1> QED BY <1>1, <1>2, Shortened DEF Front, Last

LEMMA TwoMore ==
  ASSUME NEW s, IsSeq(s), NEW f, NEW g
  PROVE  s \o <<f, g>> = Append(Append(s, f), g)
<1> DEFINE S == {s[i] : i \in DOMAIN s} \cup {f, g}
           a == Append(s, f)
           l == s \o <<f, g>>
           r == Append(a, g)
<1>1. s \in Seq(S) /\ f \in S /\ g \in S /\ Len(s) \in Nat BY DEF IsSeq
<1>2. <<f, g>> \in Seq(S) /\ Len(<<f, g>>) = 2 /\ <<f, g>>[1] = f /\ <<f, g>>[2] = g BY <1>1
<1>3. /\ l \in Seq(S) /\ Len(l) = Len(s) + 2
      /\ \A i \in 1 .. Len(s) + 2 : l[i] = IF i <= Len(s) THEN s[i] ELSE <<f, g>>[i - Len(s)]
  BY <1>1, <1>2, ConcatProperties
<1>4. /\ a \in Seq(S) /\ Len(a) = Len(s) + 1 /\ a[Len(s) + 1] = f
      /\ \A i \in 1 .. Len(s) : a[i] = s[i]
  BY <1>1
<1> HIDE DEF a
<1>5. /\ r \in Seq(S) /\ Len(r) = Len(s) + 2 /\ r[Len(s) + 2] = g
      /\ \A i \in 1 .. Len(s) + 1 : r[i] = a[i]
  BY <1>1, <1>4
<1> HIDE DEF l, r, S
<1>6. \A i \in 1 .. Len(s) + 2 : l[i] = r[i]
  <2> TAKE i \in 1 .. Len(s) + 2
  <2>1. CASE i \in 1 .. Len(s) BY <2>1, <1>1, <1>3, <1>4, <1>5
  <2>2. CASE i = Len(s) + 1
    <3>1. l[i] = <<f, g>>[1] BY <2>2, <1>1, <1>3
    <3> QED BY <3>1, <2>2, <1>1, <1>2, <1>4, <1>5
  <2>3. CASE i = Len(s) + 2
    <3>1. l[i] = <<f, g>>[2] BY <2>3, <1>1, <1>3
    <3> QED BY <3>1, <2>3, <1>1, <1>2, <1>5
  <2> QED BY <2>1, <2>2, <2>3, <1>1
<1>7. l = r BY <1>3, <1>5, <1>6, <1>1, SeqEqual
<1> QED BY <1>7 DEF l, r, a
-----------------------------------------------------------------------------
(* The frames below a place say the same of two stacks that agree there. *)
LEMMA SameBelow ==
  ASSUME NEW s, NEW t, NEW n \in Nat, \A j \in 1 .. n : t[j] = s[j],
         NEW k \in 0 .. n
  PROVE  /\ Regions(t, k) = Regions(s, k) /\ Scopes(t, k) = Scopes(s, k)
         /\ Crossings(t, k) = Crossings(s, k) /\ Windows(t, k) = Windows(s, k)
         /\ \A cur : Current(t, k, cur) <=> Current(s, k, cur)
         /\ \A c, cur, d : Level(t, k, c, cur, d) <=> Level(s, k, c, cur, d)
         /\ \A m : Marked(t, k, m) <=> Marked(s, k, m)
<1>1. \A j \in 1 .. k : t[j] = s[j] OBVIOUS
<1>2. /\ Regions(t, k) = Regions(s, k) /\ Scopes(t, k) = Scopes(s, k)
      /\ Crossings(t, k) = Crossings(s, k) /\ Windows(t, k) = Windows(s, k)
  BY <1>1 DEF Regions, Scopes, Crossings, Windows
<1>3. \A cur : Current(t, k, cur) <=> Current(s, k, cur)
  <2> TAKE cur
  <2>1. \A p \in 0 .. k : p # 0 => t[p] = s[p] BY <1>1
  <2> QED BY <1>2, <2>1 DEF Current
<1>4. \A c, cur, d : Level(t, k, c, cur, d) <=> Level(s, k, c, cur, d)
  BY <1>2, <1>3 DEF Level
<1>5. \A m : Marked(t, k, m) <=> Marked(s, k, m)
  BY <1>1, <1>2 DEF Marked, Windows
<1> QED BY <1>2, <1>3, <1>4, <1>5

LEMMA SameFits ==
  ASSUME NEW s, NEW t, NEW n \in Nat, \A j \in 1 .. n : t[j] = s[j], Fitted(s, n)
  PROVE  Fitted(t, n)
<1> SUFFICES ASSUME NEW k \in 1 .. n PROVE IsFrame(t[k]) /\ Fits(t, k)
  BY DEF Fitted
<1>1. t[k] = s[k] /\ IsFrame(s[k]) /\ Fits(s, k) BY DEF Fitted
<1>2. k - 1 \in 0 .. n OBVIOUS
<1>3. /\ \A cur : Current(t, k - 1, cur) <=> Current(s, k - 1, cur)
      /\ \A c, cur, d : Level(t, k - 1, c, cur, d) <=> Level(s, k - 1, c, cur, d)
      /\ \A m : Marked(t, k - 1, m) <=> Marked(s, k - 1, m)
  BY <1>2, SameBelow
<1> QED BY <1>1, <1>3 DEF Fits

(* What one more frame adds to what is said. *)
LEMMA OneMore ==
  ASSUME NEW s, NEW k \in Nat, k > 0
  PROVE  /\ Trying(s[k]) => Regions(s, k) = Regions(s, k - 1) \cup {k}
         /\ ~Trying(s[k]) => Regions(s, k) = Regions(s, k - 1)
         /\ Scope(s[k]) => Scopes(s, k) = Scopes(s, k - 1) \cup {k}
         /\ ~Scope(s[k]) => Scopes(s, k) = Scopes(s, k - 1)
         /\ Crossing(s[k]) => Crossings(s, k) = Crossings(s, k - 1) \cup {k}
         /\ ~Crossing(s[k]) => Crossings(s, k) = Crossings(s, k - 1)
         /\ Window(s[k]) => Windows(s, k) = Windows(s, k - 1) \cup {k}
         /\ ~Window(s[k]) => Windows(s, k) = Windows(s, k - 1)
<1>1. \A j : j \in 1 .. k <=> j \in 1 .. k - 1 \/ j = k OBVIOUS
<1> QED BY <1>1 DEF Regions, Scopes, Crossings, Windows

LEMMA LatestOfMore ==
  ASSUME NEW k \in Nat, k > 0, NEW P \in SUBSET (1 .. k - 1)
  PROVE  Latest(P \cup {k}, k)
BY DEF Latest

LEMMA CurrentOfMore ==
  ASSUME NEW s, NEW k \in Nat, k > 0
  PROVE  /\ Scope(s[k]) => Current(s, k, s[k].own)
         /\ ~Scope(s[k]) => \A cur : Current(s, k, cur) <=> Current(s, k - 1, cur)
<1>1. Scopes(s, k - 1) \in SUBSET (1 .. k - 1) BY DEF Scopes
<1>2. ASSUME Scope(s[k]) PROVE Current(s, k, s[k].own)
  <2>1. Latest(Scopes(s, k), k) BY <1>1, <1>2, OneMore, LatestOfMore
  <2> QED BY <2>1 DEF Current
<1>3. ASSUME ~Scope(s[k]), NEW cur PROVE Current(s, k, cur) <=> Current(s, k - 1, cur)
  <2>1. Scopes(s, k) = Scopes(s, k - 1) BY <1>3, OneMore
  <2>2. \A p : Latest(Scopes(s, k - 1), p) => p \in 0 .. k - 1 BY <1>1 DEF Latest
  <2> QED BY <2>1, <2>2 DEF Current
<1> QED BY <1>2, <1>3

LEMMA DepthOf ==
  ASSUME NEW s, NEW k \in Nat
  PROVE  /\ IsFiniteSet(Crossings(s, k)) /\ Cardinality(Crossings(s, k)) \in Nat
         /\ k > 0 => Cardinality(Crossings(s, k)) =
                       Cardinality(Crossings(s, k - 1)) + (IF Crossing(s[k]) THEN 1 ELSE 0)
<1>1. ASSUME NEW i \in Int
      PROVE  IsFiniteSet(Crossings(s, i)) /\ Cardinality(Crossings(s, i)) \in Nat
  <2>1. IsFiniteSet(1 .. i) BY FS_Interval
  <2>2. Crossings(s, i) \in SUBSET (1 .. i) BY DEF Crossings
  <2>3. IsFiniteSet(Crossings(s, i)) BY <2>1, <2>2, FS_Subset
  <2> QED BY <2>3, FS_CardinalityType
<1>2. ASSUME k > 0, Crossing(s[k])
      PROVE  Cardinality(Crossings(s, k)) = Cardinality(Crossings(s, k - 1)) + 1
  <2>1. Crossings(s, k) = Crossings(s, k - 1) \cup {k} BY <1>2, OneMore
  <2>2. k \notin Crossings(s, k - 1) BY DEF Crossings
  <2>3. IsFiniteSet(Crossings(s, k - 1)) BY <1>1
  <2> QED BY <2>1, <2>2, <2>3, FS_AddElement
<1>3. ASSUME k > 0, ~Crossing(s[k])
      PROVE  /\ Cardinality(Crossings(s, k)) = Cardinality(Crossings(s, k - 1))
             /\ Cardinality(Crossings(s, k - 1)) \in Nat
  <2>1. Crossings(s, k) = Crossings(s, k - 1) BY <1>3, OneMore
  <2> QED BY <2>1, <1>1
<1> QED BY <1>1, <1>2, <1>3
-----------------------------------------------------------------------------
(* A frame on top of a stack whose frames agree. *)
LEMMA Grows ==
  ASSUME NEW s, NEW c, NEW cur, NEW d, NEW m, Linked(s, c, cur, d, m),
         NEW f, IsFrame(f),
         Trying(f) => f.prev = c /\ f.saved = cur /\ f.deep = d,
         Scope(f)  => f.saved = cur,
         NEW c2, NEW cur2, NEW d2, NEW m2,
         Trying(f)    => c2 = Len(s) + 1,
         ~Trying(f)   => c2 = c,
         Scope(f)     => cur2 = f.own,
         ~Scope(f)    => cur2 = cur,
         Crossing(f)  => d2 = d + 1,
         ~Crossing(f) => d2 = d,
         Marked(s, Len(s), m2),
         Window(f) => f.mark \in Nat /\ Marked(s, Len(s), f.mark) /\ f.mark <= m2
  PROVE  Linked(Append(s, f), c2, cur2, d2, m2)
<1> DEFINE t == Append(s, f)
           n == Len(s)
<1>1. /\ IsSeq(s) /\ Fitted(s, n) /\ Level(s, n, c, cur, d)
  BY DEF Linked
<1>2. /\ IsSeq(t) /\ n \in Nat /\ Len(t) = n + 1 /\ t[n + 1] = f
      /\ \A j \in 1 .. n : t[j] = s[j]
  BY <1>1, Appended
<1> HIDE DEF t
<1> DEFINE k == n + 1
<1>3. k \in Nat /\ k > 0 /\ k - 1 = n /\ t[k] = f /\ n \in Nat /\ n \in 0 .. n BY <1>2
<1> HIDE DEF k, n
<1>4. /\ \A x : Current(t, n, x) <=> Current(s, n, x)
      /\ \A x, y, z : Level(t, n, x, y, z) <=> Level(s, n, x, y, z)
      /\ \A x : Marked(t, n, x) <=> Marked(s, n, x)
  <2>1. \A j \in 1 .. n : t[j] = s[j] BY <1>2 DEF n
  <2> QED BY <1>3, <2>1, SameBelow
<1>5. Level(t, n, c, cur, d) BY <1>1, <1>4
<1>6. Fitted(t, k)
  <2>1. Fitted(t, n) BY <1>1, <1>2, SameFits
  <2>2. Fits(t, k)
    <3>1. Trying(f) => Level(t, n, f.prev, f.saved, f.deep) BY <1>5
    <3>2. Scope(f) => Current(t, n, f.saved) BY <1>5 DEF Level
    <3>3. Window(f) => f.mark \in Nat /\ Marked(t, n, f.mark) BY <1>4 DEF n
    <3> QED BY <1>3, <3>1, <3>2, <3>3 DEF Fits
  <2>3. \A j \in 1 .. k : j \in 1 .. n \/ j = k BY <1>2, <1>3
  <2> QED BY <1>3, <2>1, <2>2, <2>3 DEF Fitted
<1>7. Level(t, k, c2, cur2, d2)
  <2>1. Latest(Regions(t, k), c2)
    <3>1. CASE Trying(f)
      <4>1. Regions(t, n) \in SUBSET (1 .. n) BY DEF Regions
      <4>2. Regions(t, k) = Regions(t, n) \cup {k} BY <1>3, <3>1, OneMore
      <4>3. Latest(Regions(t, n) \cup {k}, k) BY <1>3, <4>1, LatestOfMore
      <4>4. c2 = k BY <3>1 DEF k, n
      <4> QED BY <4>2, <4>3, <4>4
    <3>2. CASE ~Trying(f)
      <4>1. Regions(t, k) = Regions(t, n) BY <1>3, <3>2, OneMore
      <4> QED BY <1>5, <3>2, <4>1 DEF Level
    <3> QED BY <3>1, <3>2
  <2>2. Current(t, k, cur2)
    <3>1. CASE Scope(f)
      <4>1. Scope(t[k]) => Current(t, k, t[k].own) BY <1>3, CurrentOfMore
      <4> QED BY <1>3, <3>1, <4>1
    <3>2. CASE ~Scope(f)
      <4>1. ~Scope(t[k]) => \A x : Current(t, k, x) <=> Current(t, k - 1, x)
        BY <1>3, CurrentOfMore
      <4> QED BY <1>3, <1>5, <3>2, <4>1 DEF Level
    <3> QED BY <3>1, <3>2
  <2>3. d2 = Cardinality(Crossings(t, k))
    <3>1. Cardinality(Crossings(t, k)) =
            Cardinality(Crossings(t, k - 1)) + (IF Crossing(t[k]) THEN 1 ELSE 0)
      BY <1>3, DepthOf
    <3>2. Cardinality(Crossings(t, n)) \in Nat BY <1>2, DepthOf DEF n
    <3>3. d = Cardinality(Crossings(t, n)) BY <1>5 DEF Level
    <3>4. CASE Crossing(f) BY <1>3, <3>1, <3>2, <3>3, <3>4
    <3>5. CASE ~Crossing(f)
      <4>1. Crossings(t, k) = Crossings(t, n) BY <1>3, <3>5, OneMore
      <4> QED BY <3>3, <3>5, <4>1
    <3> QED BY <3>4, <3>5
  <2> QED BY <2>1, <2>2, <2>3 DEF Level
<1>8. Marked(t, k, m2)
  <2> SUFFICES ASSUME NEW j \in Windows(t, k) PROVE t[j].mark <= m2 BY DEF Marked
  <2>1. j \in Windows(t, n) \/ (j = k /\ Window(f)) BY <1>2, <1>3 DEF Windows
  <2>2. Marked(t, n, m2) BY <1>4 DEF n
  <2> QED BY <1>3, <2>1, <2>2 DEF Marked
<1>9. Len(t) = k BY <1>2 DEF k, n
<1> QED BY <1>2, <1>6, <1>7, <1>8, <1>9 DEF Linked, t

(* The same stack without its top. *)
LEMMA Shrinks ==
  ASSUME NEW s, NEW c, NEW cur, NEW d, NEW m, Linked(s, c, cur, d, m), s # <<>>,
         NEW f, f = Last(s),
         NEW c2, NEW cur2, NEW d2, NEW m2,
         Trying(f)    => c2 = f.prev,
         ~Trying(f)   => c2 = c,
         Scope(f)     => cur2 = f.saved,
         ~Scope(f)    => cur2 = cur,
         Crossing(f)  => d2 = d - 1,
         ~Crossing(f) => d2 = d,
         Marked(Front(s), Len(Front(s)), m2)
  PROVE  Linked(Front(s), c2, cur2, d2, m2)
<1> DEFINE t == Front(s)
           k == Len(s)
           n == k - 1
<1>1. IsSeq(s) /\ Fitted(s, k) /\ Level(s, k, c, cur, d) BY DEF Linked
<1>2. /\ IsSeq(t) /\ k \in Nat /\ k > 0 /\ Len(t) = n /\ s[k] = f
      /\ \A j \in 1 .. n : t[j] = s[j]
  BY <1>1, FrontOf
<1>3. n \in Nat /\ n = k - 1 /\ n \in 0 .. n BY <1>2
<1> HIDE DEF t, k, n
<1>4. /\ \A x : Current(t, n, x) <=> Current(s, n, x)
      /\ \A x, y, z : Level(t, n, x, y, z) <=> Level(s, n, x, y, z)
  BY <1>2, <1>3, SameBelow
<1>5. Fitted(s, n) BY <1>1, <1>2, <1>3 DEF Fitted
<1>6. Fitted(t, n) BY <1>2, <1>3, <1>5, SameFits
<1>7. Fits(s, k) BY <1>1, <1>2 DEF Fitted
<1>8. Level(s, n, c2, cur2, d2)
  <2>1. Latest(Regions(s, n), c2)
    <3>1. CASE Trying(f) BY <1>2, <1>3, <1>7, <3>1 DEF Fits, Level
    <3>2. CASE ~Trying(f)
      <4>1. Regions(s, k) = Regions(s, n) BY <1>2, <1>3, <3>2, OneMore
      <4> QED BY <1>1, <3>2, <4>1 DEF Level
    <3> QED BY <3>1, <3>2
  <2>2. Current(s, n, cur2)
    <3>1. CASE Scope(f) BY <1>2, <1>3, <1>7, <3>1 DEF Fits
    <3>2. CASE ~Scope(f)
      <4>1. ~Scope(s[k]) => \A x : Current(s, k, x) <=> Current(s, k - 1, x)
        BY <1>2, CurrentOfMore
      <4> QED BY <1>1, <1>2, <1>3, <3>2, <4>1 DEF Level
    <3> QED BY <3>1, <3>2
  <2>3. d2 = Cardinality(Crossings(s, n))
    <3>1. Cardinality(Crossings(s, k)) =
            Cardinality(Crossings(s, k - 1)) + (IF Crossing(s[k]) THEN 1 ELSE 0)
      BY <1>2, DepthOf
    <3>2. Cardinality(Crossings(s, n)) \in Nat BY <1>3, DepthOf
    <3>3. d = Cardinality(Crossings(s, k)) BY <1>1 DEF Level
    <3>4. CASE Crossing(f) BY <1>2, <1>3, <3>1, <3>2, <3>3, <3>4
    <3>5. CASE ~Crossing(f)
      <4>1. Crossings(s, k) = Crossings(s, n) BY <1>2, <1>3, <3>5, OneMore
      <4> QED BY <3>3, <3>5, <4>1
    <3> QED BY <3>4, <3>5
  <2> QED BY <2>1, <2>2, <2>3 DEF Level
<1>9. Marked(t, n, m2) BY <1>2 DEF t
<1> QED BY <1>2, <1>4, <1>6, <1>8, <1>9 DEF Linked, t

LEMMA MarksBelow ==
  ASSUME NEW s, NEW c, NEW cur, NEW d, NEW m, Linked(s, c, cur, d, m), s # <<>>
  PROVE  /\ IsFrame(Last(s))
         /\ Marked(Front(s), Len(Front(s)), m)
         /\ Window(Last(s)) =>
              /\ Last(s).mark \in Nat /\ Last(s).mark <= m
              /\ Marked(Front(s), Len(Front(s)), Last(s).mark)
<1> DEFINE t == Front(s)
           k == Len(s)
           n == k - 1
<1>1. IsSeq(s) /\ Fitted(s, k) /\ Marked(s, k, m) BY DEF Linked
<1>2. /\ IsSeq(t) /\ k \in Nat /\ k > 0 /\ Len(t) = n /\ Last(s) = s[k]
      /\ \A j \in 1 .. n : t[j] = s[j]
  BY <1>1, FrontOf
<1>3. n \in Nat /\ n = k - 1 /\ n \in 0 .. n BY <1>2
<1> HIDE DEF t, k, n
<1>4. \A x : Marked(t, n, x) <=> Marked(s, n, x) BY <1>2, <1>3, SameBelow
<1>5. IsFrame(s[k]) /\ Fits(s, k) BY <1>1, <1>2 DEF Fitted
<1>6. Marked(s, n, m) BY <1>1, <1>2, <1>3 DEF Marked, Windows
<1>7. Window(s[k]) => s[k].mark <= m BY <1>1, <1>2 DEF Marked, Windows
<1> QED BY <1>2, <1>3, <1>4, <1>5, <1>6, <1>7 DEF Fits, t

(* The top changes in what does not count. *)
Like(f, h) ==
  /\ Trying(f) <=> Trying(h)
  /\ Scope(f) <=> Scope(h)
  /\ Crossing(f) <=> Crossing(h)
  /\ Window(f) <=> Window(h)
  /\ Trying(h) => f.prev = h.prev /\ f.saved = h.saved /\ f.deep = h.deep
  /\ Scope(h)  => f.own = h.own /\ f.saved = h.saved
  /\ Window(h) => f.mark = h.mark

LEMMA Replaced ==
  ASSUME NEW s, NEW c, NEW cur, NEW d, NEW m, Linked(s, c, cur, d, m), s # <<>>,
         NEW f, IsFrame(f), Like(f, Last(s))
  PROVE  Linked(Append(Front(s), f), c, cur, d, m)
<1> DEFINE u == Front(s)
           t == Append(u, f)
           k == Len(s)
           n == k - 1
<1>1. IsSeq(s) /\ Fitted(s, k) /\ Level(s, k, c, cur, d) /\ Marked(s, k, m) BY DEF Linked
<1>2. /\ IsSeq(u) /\ k \in Nat /\ k > 0 /\ Len(u) = n /\ Last(s) = s[k]
      /\ \A j \in 1 .. n : u[j] = s[j]
  BY <1>1, FrontOf
<1>3. n \in Nat /\ n = k - 1 /\ n + 1 = k BY <1>2
<1> HIDE DEF u, k, n
<1>4. /\ IsSeq(t) /\ Len(t) = k /\ t[k] = f
      /\ \A j \in 1 .. n : t[j] = s[j]
  BY <1>2, <1>3, Appended
<1> HIDE DEF t
<1>5. Like(t[k], s[k]) /\ \A j \in 1 .. k : j \in 1 .. n \/ j = k BY <1>2, <1>3, <1>4
<1>6. /\ Regions(t, k) = Regions(s, k) /\ Scopes(t, k) = Scopes(s, k)
      /\ Crossings(t, k) = Crossings(s, k) /\ Windows(t, k) = Windows(s, k)
  BY <1>4, <1>5 DEF Regions, Scopes, Crossings, Windows, Like
<1>7. /\ \A j \in Scopes(s, k) : t[j].own = s[j].own
      /\ \A j \in Windows(s, k) : t[j].mark = s[j].mark
  BY <1>4, <1>5 DEF Like, Scopes, Windows
<1>8. Level(t, k, c, cur, d)
  <2>1. PICK p \in 0 .. k : /\ Latest(Scopes(s, k), p)
                            /\ cur = IF p = 0 THEN Global ELSE s[p].own
    BY <1>1 DEF Level, Current
  <2>2. ASSUME p # 0 PROVE t[p].own = s[p].own
    <3>1. p \in Scopes(s, k) BY <2>1, <2>2 DEF Latest
    <3> QED BY <1>7, <3>1
  <2>3. Latest(Scopes(t, k), p) BY <1>6, <2>1
  <2>4. cur = IF p = 0 THEN Global ELSE t[p].own BY <2>1, <2>2
  <2>5. Current(t, k, cur) BY <2>3, <2>4 DEF Current
  <2> QED BY <1>1, <1>6, <2>5 DEF Level
<1>9. Marked(t, k, m) BY <1>1, <1>6, <1>7 DEF Marked
<1>10. Fitted(t, k)
  <2>1. Fitted(s, n) BY <1>1, <1>5, <1>3, <1>2 DEF Fitted
  <2>2. Fitted(t, n) BY <1>3, <1>4, <2>1, SameFits
  <2>3. IsFrame(s[k]) /\ Fits(s, k) BY <1>1, <1>2 DEF Fitted
  <2>4. n \in 0 .. n BY <1>3
  <2>5. /\ \A x : Current(t, n, x) <=> Current(s, n, x)
        /\ \A x, y, z : Level(t, n, x, y, z) <=> Level(s, n, x, y, z)
        /\ \A x : Marked(t, n, x) <=> Marked(s, n, x)
    BY <1>3, <1>4, <2>4, SameBelow
  <2>6. Fits(t, k)
    <3>1. Trying(t[k]) => Level(t, k - 1, t[k].prev, t[k].saved, t[k].deep)
      BY <1>3, <1>5, <2>3, <2>5 DEF Fits, Like
    <3>2. Scope(t[k]) => Current(t, k - 1, t[k].saved)
      BY <1>3, <1>5, <2>3, <2>5 DEF Fits, Like
    <3>3. Window(t[k]) => t[k].mark \in Nat /\ Marked(t, k - 1, t[k].mark)
      BY <1>3, <1>5, <2>3, <2>5 DEF Fits, Like
    <3> QED BY <3>1, <3>2, <3>3 DEF Fits
  <2> QED BY <1>4, <1>5, <2>2, <2>6 DEF Fitted
<1> QED BY <1>4, <1>8, <1>9, <1>10 DEF Linked, t, u
-----------------------------------------------------------------------------
(* The kinds of step. *)
Bottom(s) == s # <<>> /\ s[1].fn = "exec_run"

Plain(f) == ~Trying(f) /\ ~Scope(f) /\ ~Crossing(f) /\ ~Window(f)

(* An Exec with the same fields, but for those that are not followed. *)
Same(x) ==
  /\ IsExec(x)
  /\ x.catch_ = e.catch_ /\ x.cur = e.cur /\ x.depth = e.depth
  /\ Len(x.defers) = Len(e.defers)

LEMMA Parts ==
  ASSUME Sound
  PROVE  /\ IsExec(e) /\ Len(e.defers) \in Nat
         /\ Linked(stack, e.catch_, e.cur, e.depth, Len(e.defers))
         /\ IsSeq(stack) /\ Bottom(stack) /\ stack # <<>> /\ Len(stack) \in Nat \ {0}
         /\ IsFrame(Top) /\ Top = Last(stack) /\ IsSeq(Front(stack))
         /\ Len(Front(stack)) + 1 = Len(stack)
         /\ Marked(Front(stack), Len(Front(stack)), Len(e.defers))
         /\ Window(Top) => /\ Top.mark \in Nat /\ Top.mark <= Len(e.defers)
                           /\ Marked(Front(stack), Len(Front(stack)), Top.mark)
<1>1. /\ IsExec(e) /\ stack # <<>> /\ Bottom(stack)
      /\ Linked(stack, e.catch_, e.cur, e.depth, Len(e.defers))
  BY DEF Sound, Bottom
<1>2. IsSeq(stack) BY <1>1 DEF Linked
<1>3. /\ IsSeq(Front(stack)) /\ Len(stack) \in Nat \ {0}
      /\ Len(Front(stack)) = Len(stack) - 1
  BY <1>1, <1>2, FrontOf
<1>4. Len(e.defers) \in Nat BY <1>1 DEF IsExec, IsSeq
<1>5. /\ IsFrame(Last(stack))
      /\ Marked(Front(stack), Len(Front(stack)), Len(e.defers))
      /\ Window(Last(stack)) =>
           /\ Last(stack).mark \in Nat /\ Last(stack).mark <= Len(e.defers)
           /\ Marked(Front(stack), Len(Front(stack)), Last(stack).mark)
  BY <1>1, MarksBelow
<1> QED BY <1>1, <1>2, <1>3, <1>4, <1>5 DEF Top

LEMMA BottomStays ==
  ASSUME NEW s, IsSeq(s), Bottom(s)
  PROVE  /\ \A f : f.fn = Last(s).fn => Bottom(Append(Front(s), f))
         /\ \A f : Bottom(Append(s, f))
         /\ Last(s).fn # "exec_run" => Bottom(Front(s))
<1>1. /\ IsSeq(Front(s)) /\ Len(s) \in Nat \ {0} /\ Len(Front(s)) = Len(s) - 1
      /\ \A j \in 1 .. Len(s) - 1 : Front(s)[j] = s[j]
      /\ Last(s) = s[Len(s)] /\ s[1].fn = "exec_run"
  BY FrontOf DEF Bottom
<1>2. ASSUME NEW f, f.fn = Last(s).fn PROVE Bottom(Append(Front(s), f))
  <2> DEFINE t == Append(Front(s), f)
  <2>1. /\ t # <<>> /\ t[Len(Front(s)) + 1] = f
        /\ \A j \in 1 .. Len(Front(s)) : t[j] = Front(s)[j]
    BY <1>1, Appended
  <2> HIDE DEF t
  <2>2. ASSUME Len(s) = 1 PROVE Bottom(t) BY <1>1, <1>2, <2>1, <2>2 DEF Bottom
  <2>3. ASSUME Len(s) # 1 PROVE Bottom(t)
    <3>1. 1 \in 1 .. Len(s) - 1 BY <1>1, <2>3
    <3>2. t[1] = s[1] BY <1>1, <2>1, <3>1
    <3> QED BY <1>1, <2>1, <3>2 DEF Bottom
  <2>4. Bottom(t) BY <2>2, <2>3
  <2> QED BY <2>4 DEF t
<1>3. ASSUME NEW f PROVE Bottom(Append(s, f))
  <2>1. Append(s, f) # <<>> /\ \A j \in 1 .. Len(s) : Append(s, f)[j] = s[j] BY Appended
  <2>2. Append(s, f)[1] = s[1] BY <1>1, <2>1
  <2> QED BY <1>1, <2>1, <2>2 DEF Bottom
<1>4. ASSUME Last(s).fn # "exec_run" PROVE Bottom(Front(s))
  <2>1. Len(s) # 1 BY <1>1, <1>4
  <2>2. 1 \in 1 .. Len(s) - 1 /\ Len(Front(s)) # 0 BY <1>1, <2>1
  <2>3. Front(s)[1] = s[1] BY <1>1, <2>2
  <2> QED BY <1>1, <2>2, <2>3 DEF Bottom
<1> QED BY <1>2, <1>3, <1>4

(* The top stays what it is. *)
Holds(f) == IsFrame(f) /\ f.fn = Top.fn /\ Like(f, Top)

LEMMA Stays ==
  ASSUME Sound, NEW f, NEW x, Becomes(f, x), Holds(f), Same(x)
  PROVE  Sound'
<1>1. /\ Linked(stack, x.catch_, x.cur, x.depth, Len(x.defers))
      /\ stack # <<>> /\ Bottom(stack) /\ IsSeq(stack)
      /\ IsFrame(f) /\ f.fn = Last(stack).fn /\ Like(f, Last(stack)) /\ IsExec(x)
  BY Parts DEF Holds, Same
<1>2. stack' = Append(Front(stack), f) /\ e' = x BY DEF Becomes
<1>3. Linked(stack', e'.catch_, e'.cur, e'.depth, Len(e'.defers))
  BY <1>1, <1>2, Replaced
<1>4. Bottom(stack') BY <1>1, <1>2, BottomStays
<1> QED BY <1>1, <1>2, <1>3, <1>4 DEF Sound, Bottom

(* One that was of no kind gets one, and Exec what it says. *)
Begins(f, x) ==
  /\ IsFrame(f) /\ f.fn = Top.fn /\ IsExec(x) /\ Len(x.defers) = Len(e.defers)
  /\ Trying(f)    => f.prev = e.catch_ /\ f.saved = e.cur /\ f.deep = e.depth /\ x.catch_ = Len(stack)
  /\ ~Trying(f)   => x.catch_ = e.catch_
  /\ Scope(f)     => f.saved = e.cur /\ x.cur = f.own
  /\ ~Scope(f)    => x.cur = e.cur
  /\ Crossing(f)  => x.depth = e.depth + 1
  /\ ~Crossing(f) => x.depth = e.depth
  /\ Window(f)    => f.mark = Len(e.defers)

LEMMA Below ==
  ASSUME Sound, Plain(Top)
  PROVE  Linked(Front(stack), e.catch_, e.cur, e.depth, Len(e.defers))
<1>1. /\ Linked(stack, e.catch_, e.cur, e.depth, Len(e.defers)) /\ stack # <<>>
      /\ Marked(Front(stack), Len(Front(stack)), Len(e.defers))
      /\ ~Trying(Last(stack)) /\ ~Scope(Last(stack)) /\ ~Crossing(Last(stack))
  BY Parts DEF Plain
<1> QED BY <1>1, Shrinks

LEMMA Turned ==
  ASSUME Sound, Plain(Top), NEW f, NEW x, Begins(f, x)
  PROVE  /\ Linked(Append(Front(stack), f), x.catch_, x.cur, x.depth, Len(x.defers))
         /\ Bottom(Append(Front(stack), f)) /\ IsSeq(Append(Front(stack), f))
<1>1. Linked(Front(stack), e.catch_, e.cur, e.depth, Len(e.defers)) BY Below
<1>2. /\ Len(Front(stack)) + 1 = Len(stack) /\ Len(e.defers) \in Nat /\ IsSeq(Front(stack))
      /\ Marked(Front(stack), Len(Front(stack)), Len(e.defers))
      /\ Bottom(stack) /\ IsSeq(stack) /\ f.fn = Last(stack).fn
  BY Parts DEF Begins
<1>3. Linked(Append(Front(stack), f), x.catch_, x.cur, x.depth, Len(x.defers))
  <2> DEFINE s == Front(stack)
             c == e.catch_
             cur == e.cur
             d == e.depth
             m == Len(e.defers)
             c2 == x.catch_
             cur2 == x.cur
             d2 == x.depth
             m2 == Len(x.defers)
  <2>1. /\ Linked(s, c, cur, d, m) /\ IsFrame(f)
        /\ Trying(f) => f.prev = c /\ f.saved = cur /\ f.deep = d
        /\ Scope(f)  => f.saved = cur
        /\ Trying(f)    => c2 = Len(s) + 1
        /\ ~Trying(f)   => c2 = c
        /\ Scope(f)     => cur2 = f.own
        /\ ~Scope(f)    => cur2 = cur
        /\ Crossing(f)  => d2 = d + 1
        /\ ~Crossing(f) => d2 = d
    BY <1>1, <1>2 DEF Begins
  <2>2. /\ Marked(s, Len(s), m2)
        /\ Window(f) => f.mark \in Nat /\ Marked(s, Len(s), f.mark) /\ f.mark <= m2
    BY <1>2 DEF Begins
  <2> HIDE DEF s, c, cur, d, m, c2, cur2, d2, m2
  <2>3. Linked(Append(s, f), c2, cur2, d2, m2) BY <2>1, <2>2, Grows
  <2> QED BY <2>3 DEF s, c2, cur2, d2, m2
<1> QED BY <1>2, <1>3, BottomStays, Appended

LEMMA Starts ==
  ASSUME Sound, Plain(Top), NEW f, NEW x, Becomes(f, x), Begins(f, x)
  PROVE  Sound'
<1>1. stack' = Append(Front(stack), f) /\ e' = x /\ IsExec(x) BY DEF Becomes, Begins
<1>2. /\ Linked(stack', e'.catch_, e'.cur, e'.depth, Len(e'.defers)) /\ Bottom(stack')
  BY <1>1, Turned
<1> QED BY <1>1, <1>2 DEF Sound, Bottom

(* A frame on a stack: one of no kind, or a drain of what is deferred. *)
LEMMA Pushed ==
  ASSUME NEW s, NEW c, NEW cur, NEW d, NEW m, m \in Nat, Linked(s, c, cur, d, m), Bottom(s),
         NEW g, IsFrame(g), ~Trying(g), ~Scope(g), ~Crossing(g),
         Window(g) => Window(Last(s)) /\ g.mark = Last(s).mark
  PROVE  Linked(Append(s, g), c, cur, d, m) /\ Bottom(Append(s, g))
<1>1. IsSeq(s) /\ s # <<>> BY DEF Linked, Bottom
<1>2. Marked(s, Len(s), m) BY DEF Linked
<1>3. ASSUME Window(g)
      PROVE  g.mark \in Nat /\ Marked(s, Len(s), g.mark) /\ g.mark <= m
  <2>1. /\ g.mark \in Nat /\ g.mark <= m
        /\ Marked(Front(s), Len(Front(s)), g.mark)
    BY <1>1, <1>3, MarksBelow
  <2> DEFINE k == Len(s)
  <2>2. /\ Len(Front(s)) = k - 1 /\ k \in Nat \ {0} /\ Last(s) = s[k]
        /\ \A j \in 1 .. k - 1 : Front(s)[j] = s[j]
    BY <1>1, FrontOf
  <2> HIDE DEF k
  <2>3. ASSUME NEW j \in Windows(s, k) PROVE s[j].mark <= g.mark
    <3>1. CASE j = k BY <1>3, <2>1, <2>2, <3>1
    <3>2. CASE j # k
      <4>1. j \in 1 .. k - 1 /\ Window(s[j]) BY <2>2, <3>2 DEF Windows
      <4>2. j \in Windows(Front(s), k - 1) BY <2>2, <4>1 DEF Windows
      <4> QED BY <2>1, <2>2, <4>1, <4>2 DEF Marked
    <3> QED BY <3>1, <3>2
  <2>4. Marked(s, k, g.mark) BY <2>3 DEF Marked
  <2> QED BY <2>1, <2>4 DEF k
<1>4. Linked(Append(s, g), c, cur, d, m) BY <1>2, <1>3, Grows
<1> QED BY <1>1, <1>4, BottomStays

LEMMA Calling ==
  ASSUME Sound, NEW f, NEW x, NEW g, Holds(f), Same(x),
         stack' = Front(stack) \o <<f, g>>, e' = x,
         IsFrame(g), ~Trying(g), ~Scope(g), ~Crossing(g),
         Window(g) => Window(f) /\ g.mark = f.mark
  PROVE  Sound'
<1> DEFINE t == Append(Front(stack), f)
<1>1. /\ Linked(stack, x.catch_, x.cur, x.depth, Len(x.defers))
      /\ stack # <<>> /\ Bottom(stack) /\ IsSeq(stack) /\ IsSeq(Front(stack))
      /\ IsFrame(f) /\ f.fn = Last(stack).fn /\ Like(f, Last(stack)) /\ IsExec(x)
      /\ Len(x.defers) \in Nat
  BY Parts DEF Holds, Same
<1>2. Linked(t, x.catch_, x.cur, x.depth, Len(x.defers)) BY <1>1, Replaced
<1>3. Bottom(t) /\ Last(t) = f BY <1>1, BottomStays, Appended
<1>4. stack' = Append(t, g) BY <1>1, TwoMore
<1> HIDE DEF t
<1>5. /\ Linked(stack', e'.catch_, e'.cur, e'.depth, Len(e'.defers)) /\ Bottom(stack')
  BY <1>1, <1>2, <1>3, <1>4, Pushed
<1> QED BY <1>1, <1>5 DEF Sound, Bottom

(* The top is left, and puts back what it saved. *)
LEMMA Leaving ==
  ASSUME Sound, NEW x, stack' = Front(stack), e' = x, IsExec(x), Top.fn # "exec_run",
         Trying(Top)    => x.catch_ = Top.prev,
         ~Trying(Top)   => x.catch_ = e.catch_,
         Scope(Top)     => x.cur = Top.saved,
         ~Scope(Top)    => x.cur = e.cur,
         Crossing(Top)  => x.depth = e.depth - 1,
         ~Crossing(Top) => x.depth = e.depth,
         Len(x.defers) = Len(e.defers) \/ Len(x.defers) = Len(e.defers) + 1
           \/ (Window(Top) /\ Len(x.defers) = Top.mark)
  PROVE  Sound'
<1>1. /\ Linked(stack, e.catch_, e.cur, e.depth, Len(e.defers))
      /\ stack # <<>> /\ Bottom(stack) /\ IsSeq(stack) /\ Top = Last(stack)
  BY Parts
<1>2. Marked(Front(stack), Len(Front(stack)), Len(x.defers))
  <2>1. /\ Len(e.defers) \in Nat
        /\ Marked(Front(stack), Len(Front(stack)), Len(e.defers))
        /\ Window(Top) => Marked(Front(stack), Len(Front(stack)), Top.mark)
    BY Parts
  <2> DEFINE s == Front(stack)
             n == Len(s)
             m == Len(e.defers)
  <2>2. Fitted(s, n) /\ m \in Nat
    <3>1. IsSeq(stack) /\ Fitted(stack, Len(stack)) BY <1>1 DEF Linked
    <3>2. /\ Len(stack) \in Nat \ {0} /\ n = Len(stack) - 1
          /\ \A j \in 1 .. Len(stack) - 1 : s[j] = stack[j]
      BY <1>1, FrontOf
    <3> HIDE DEF s, n, m
    <3>3. Fitted(stack, n) BY <3>1, <3>2 DEF Fitted
    <3>4. n \in Nat /\ \A j \in 1 .. n : s[j] = stack[j] BY <3>2
    <3> QED BY <2>1, <3>3, <3>4, SameFits DEF m
  <2> HIDE DEF s, n, m
  <2>3. \A j \in Windows(s, n) : s[j].mark \in Nat BY <2>2 DEF Fitted, Fits, Windows
  <2>4. Marked(s, n, m) => Marked(s, n, m + 1) BY <2>2, <2>3 DEF Marked
  <2> QED BY <2>1, <2>4 DEF s, n, m
<1>3. Linked(stack', e'.catch_, e'.cur, e'.depth, Len(e'.defers))
  BY <1>1, <1>2, Shrinks
<1>4. Bottom(stack') BY <1>1, BottomStays
<1> QED BY <1>3, <1>4 DEF Sound, Bottom
-----------------------------------------------------------------------------
(* The steps of eval and of exec_stmt. *)
Working == Top.fn \in {"eval", "exec_stmt"} /\ Top.at # "enter"

MayBeAt(at) ==
  /\ at # "enter"
  /\ at = "part" => Top.fn = "eval"
  /\ at \in {"condition", "body"} => Top.fn = "eval" \/ Top.node.k \in Loops

Moved(f) ==
  DOMAIN f = DOMAIN Top /\ f.fn = Top.fn /\ f.node = Top.node /\ MayBeAt(f.at)

Callable(fn) == fn # "defer_run_from"

Steps ==
  \/ \E msg : Fails(msg)
  \/ \E x, v : Leaves(x, v) /\ Same(x)
  \/ \E f, x, fn, node : Calls(f, x, fn, node) /\ Moved(f) /\ Same(x) /\ Callable(fn)
  \/ \E f, x : Becomes(f, x) /\ Moved(f) /\ Same(x)

LEMMA Fresh ==
  ASSUME NEW fn, NEW node
  PROVE  /\ IsFrame(Frame(fn, node)) /\ ~Trying(Frame(fn, node)) /\ ~Scope(Frame(fn, node))
         /\ ~Crossing(Frame(fn, node))
         /\ Window(Frame(fn, node)) => fn = "defer_run_from"
<1> DEFINE f == Frame(fn, node)
<1>1. /\ f.fn = fn /\ f.at = "enter"
      /\ DOMAIN f = { "fn", "node", "at", "i", "v", "vals", "cell", "own", "saved", "mark",
                      "prev", "deep" }
  BY DEF Frame
<1> HIDE DEF f
<1>2. /\ IsFrame(f) /\ ~Trying(f) /\ ~Scope(f) /\ ~Crossing(f)
      /\ Window(f) => fn = "defer_run_from"
  BY <1>1 DEF IsFrame, Trying, Scope, Crossing, Window
<1> QED BY <1>2 DEF f

LEMMA Ended ==
  ASSUME NEW msg, Fails(msg)
  PROVE  FollowInv'
<1>1. outcome' = [code |-> -1, msg |-> msg] BY DEF Fails
<1>2. outcome'.code = -1 /\ Running.code = 0 BY <1>1 DEF Running
<1>3. outcome' # Running BY <1>2
<1> QED BY <1>3 DEF FollowInv, Over

LEMMA MovedHolds ==
  ASSUME Sound, Working, NEW f, Moved(f)
  PROVE  Holds(f)
<1>1. IsFrame(Top) BY Parts
<1>2. IsFrame(f) BY <1>1 DEF IsFrame, Moved, MayBeAt, Working
<1>3. Like(f, Top)
  BY DEF Like, Moved, MayBeAt, Working, Trying, Scope, Crossing, Window
<1> QED BY <1>2, <1>3 DEF Holds, Moved

LEMMA LeavesOn ==
  ASSUME Sound, Working, NEW x, NEW v, Leaves(x, v), IsExec(x),
         x.catch_ = e.catch_, x.cur = e.cur, x.depth = e.depth,
         Len(x.defers) = Len(e.defers) \/ Len(x.defers) = Len(e.defers) + 1
  PROVE  Sound'
<1> DEFINE y == [x EXCEPT !.depth = @ - 1]
<1>1. stack' = Front(stack) /\ e' = y BY DEF Leaves, Returns
<1>2. /\ IsExec(y) /\ y.catch_ = x.catch_ /\ y.cur = x.cur /\ y.depth = x.depth - 1
      /\ y.defers = x.defers
  BY DEF IsExec
<1>3. /\ ~Trying(Top) /\ ~Scope(Top) /\ Crossing(Top) /\ Top.fn # "exec_run"
  BY DEF Working, Trying, Scope, Crossing
<1> HIDE DEF y
<1>4. /\ y.catch_ = e.catch_ /\ y.cur = e.cur /\ y.depth = e.depth - 1
      /\ Len(y.defers) = Len(e.defers) \/ Len(y.defers) = Len(e.defers) + 1
  BY <1>2
<1> QED BY <1>1, <1>2, <1>3, <1>4, Leaving

LEMMA StepsKeep ==
  ASSUME Sound, Working, Steps
  PROVE  FollowInv'
<1>1. ASSUME NEW x, NEW v, Leaves(x, v), Same(x) PROVE Sound'
  BY <1>1, LeavesOn DEF Same
<1>2. ASSUME NEW f, NEW x, NEW fn, NEW node, Calls(f, x, fn, node), Moved(f), Same(x),
             Callable(fn)
      PROVE  Sound'
  <2>1. stack' = Front(stack) \o <<f, Frame(fn, node)>> /\ e' = x BY <1>2 DEF Calls
  <2>2. Holds(f) BY <1>2, MovedHolds
  <2> DEFINE g == Frame(fn, node)
  <2>3. /\ IsFrame(g) /\ ~Trying(g) /\ ~Scope(g) /\ ~Crossing(g) /\ ~Window(g)
    BY <1>2, Fresh DEF Callable
  <2> HIDE DEF g
  <2>4. stack' = Front(stack) \o <<f, g>> BY <2>1 DEF g
  <2> QED BY <1>2, <2>1, <2>2, <2>3, <2>4, Calling
<1>3. ASSUME NEW f, NEW x, Becomes(f, x), Moved(f), Same(x) PROVE Sound'
  BY <1>3, MovedHolds, Stays
<1> QED BY <1>1, <1>2, <1>3, Ended DEF Steps, FollowInv

LEMMA SameExec ==
  ASSUME Sound
  PROVE  Same(e) /\ Same(Calm)
<1>1. IsExec(e) BY Parts
<1>2. /\ DOMAIN Calm = DOMAIN e /\ Calm.catch_ = e.catch_ /\ Calm.cur = e.cur
      /\ Calm.depth = e.depth /\ Calm.defers = e.defers
  BY <1>1 DEF Calm, IsExec
<1> QED BY <1>1, <1>2 DEF Same, IsExec

LEMMA Ways ==
  ASSUME Sound
  PROVE  /\ \A msg : Fails(msg) => Steps
         /\ \A v : Leaves(e, v) => Steps
         /\ \A v : Leaves(Calm, v) => Steps
         /\ \A f, fn, node : Calls(f, e, fn, node) /\ Moved(f) /\ Callable(fn) => Steps
         /\ \A f, fn, node : Calls(f, Calm, fn, node) /\ Moved(f) /\ Callable(fn) => Steps
         /\ \A f : Becomes(f, e) /\ Moved(f) => Steps
         /\ \A f : Becomes(f, Calm) /\ Moved(f) => Steps
BY SameExec DEF Steps

LEMMA MovesTo ==
  ASSUME Sound, Working
  PROVE  /\ Moved(Top) /\ MayBeAt(Top.at)
         /\ \A at : MayBeAt(at) => Moved([Top EXCEPT !.at = at])
         /\ Moved([Top EXCEPT !.i = @ + 1])
<1>1. IsFrame(Top) BY Parts
<1>2. MayBeAt(Top.at) BY <1>1 DEF MayBeAt, IsFrame, Working, Builders
<1>3. Moved(Top) BY <1>2 DEF Moved
<1>4. ASSUME NEW at, MayBeAt(at) PROVE Moved([Top EXCEPT !.at = at])
  BY <1>1, <1>4 DEF Moved, IsFrame
<1>5. Moved([Top EXCEPT !.i = @ + 1])
  BY <1>1, <1>2 DEF Moved, IsFrame
<1> QED BY <1>2, <1>3, <1>4, <1>5

LEMMA WaysOn ==
  ASSUME Sound, Working
  PROVE  /\ \A y, at : MayBeAt(at) /\ Evals(y, at) => Steps
         /\ \A st, at : MayBeAt(at) /\ Runs(st, at) => Steps
         /\ \A ch : RunsOne(ch) => Steps
         /\ \A v : Settles(v) => Steps
         /\ Skips => Steps
<1>1. Callable("eval") /\ Callable("exec_stmt") BY DEF Callable
<1>2. ASSUME NEW y, NEW at, MayBeAt(at), Evals(y, at) PROVE Steps
  <2>1. Calls([Top EXCEPT !.at = at], e, "eval", y) BY <1>2 DEF Evals
  <2>2. Moved([Top EXCEPT !.at = at]) BY <1>2, MovesTo
  <2> QED BY <1>1, <2>1, <2>2, Ways
<1>3. ASSUME NEW y, NEW at, MayBeAt(at), Runs(y, at) PROVE Steps
  <2>1. Calls([Top EXCEPT !.at = at], e, "exec_stmt", y) BY <1>3 DEF Runs
  <2>2. Moved([Top EXCEPT !.at = at]) BY <1>3, MovesTo
  <2> QED BY <1>1, <2>1, <2>2, Ways
<1>4. ASSUME NEW ch, RunsOne(ch) PROVE Steps
  <2>1. Calls([Top EXCEPT !.i = @ + 1], e, "exec_stmt", ch[Top.i + 1]) BY <1>4 DEF RunsOne
  <2>2. Moved([Top EXCEPT !.i = @ + 1]) BY MovesTo
  <2> QED BY <1>1, <2>1, <2>2, Ways
<1>5. ASSUME NEW v, Settles(v) PROVE Steps BY <1>5, Ways DEF Settles
<1>6. ASSUME Skips PROVE Steps BY <1>6, Ways DEF Skips
<1> QED BY <1>2, <1>3, <1>4, <1>5, <1>6

(* The steps of an expression that is at its end, or fails. *)
LEMMA ExpressionsEnd ==
  ASSUME Sound,
         \/ EvalLit \/ EvalName \/ EvalBin \/ EvalUnary \/ EvalMember \/ EvalIndex
         \/ EvalSlice \/ CallPrint \/ CallFrom \/ CallOther \/ EvalOut \/ EvalIs \/ EvalFunc
  PROVE  FollowInv'
<1> USE Ways, WaysOn
<1>1. Collecting /\ Top.fn = "eval" => Working
  BY DEF Collecting, Working, Builders
<1>2. \A k : Ready(k) => Working BY <1>1 DEF Ready
<1>3. \A k, at : Expr(k, at) /\ at # "enter" => Working BY DEF Expr, On, Working
<1>4. CASE EvalLit BY <1>3, <1>4, StepsKeep DEF EvalLit
<1>5. CASE EvalName BY <1>3, <1>5, StepsKeep DEF EvalName
<1>6. CASE EvalBin BY <1>2, <1>6, StepsKeep DEF EvalBin
<1>7. CASE EvalUnary BY <1>2, <1>7, StepsKeep DEF EvalUnary
<1>8. CASE EvalMember BY <1>2, <1>8, StepsKeep DEF EvalMember
<1>9. CASE EvalIndex BY <1>2, <1>9, StepsKeep DEF EvalIndex
<1>10. CASE EvalSlice BY <1>2, <1>10, StepsKeep DEF EvalSlice
<1>11. CASE CallPrint BY <1>2, <1>11, StepsKeep DEF CallPrint
<1>12. CASE CallFrom BY <1>2, <1>12, StepsKeep DEF CallFrom
<1>13. CASE CallOther BY <1>2, <1>13, StepsKeep DEF CallOther
<1>14. CASE EvalOut BY <1>14, StepsKeep DEF EvalOut, On, Working
<1>15. CASE EvalIs BY <1>2, <1>15, StepsKeep DEF EvalIs
<1>16. CASE EvalFunc BY <1>3, <1>16, StepsKeep DEF EvalFunc
<1> QED BY <1>4, <1>5, <1>6, <1>7, <1>8, <1>9, <1>10, <1>11, <1>12, <1>13, <1>14, <1>15, <1>16

(* The parts of an expression, of an assigned place and of an initializer. *)
LEMMA PartsKeep ==
  ASSUME Sound, EvalPart \/ TakePart \/ PartMisfits
  PROVE  FollowInv'
<1>1. IsFrame(Top) BY Parts
<1>2. CASE EvalPart
  <2> DEFINE f == [Top EXCEPT !.at = "part"]
             g == Frame("eval", Top.node.ch[Len(Top.vals) + 1])
  <2>1. stack' = Front(stack) \o <<f, g>> /\ e' = e BY <1>2 DEF EvalPart, Evals, Calls
  <2>2. DOMAIN f = DOMAIN Top /\ f.fn = Top.fn /\ f.at = "part" BY <1>1 DEF IsFrame
  <2>3. \/ Top.fn = "eval" /\ Top.at = "begin"
        \/ Top.fn \in {"lvalue_cell"} \cup Builders /\ Top.at = "enter"
    BY <1>2 DEF EvalPart, Collecting
  <2>4. IsFrame(g) /\ ~Trying(g) /\ ~Scope(g) /\ ~Crossing(g) /\ ~Window(g) BY Fresh
  <2> HIDE DEF f, g
  <2>5. IsFrame(f) BY <1>1, <2>2, <2>3 DEF IsFrame
  <2>6. Like(f, Top)
    BY <2>2, <2>3 DEF Like, Trying, Scope, Crossing, Window, Builders
  <2> QED BY <2>1, <2>2, <2>4, <2>5, <2>6, SameExec, Calling DEF Holds, FollowInv
<1>3. CASE TakePart
  <2> DEFINE f == [Top EXCEPT !.at = IF Top.fn = "eval" THEN "begin" ELSE "enter",
                              !.vals = Append(@, value)]
  <2>1. Becomes(f, e) /\ Top.at = "part" BY <1>3 DEF TakePart
  <2>2. /\ DOMAIN f = DOMAIN Top /\ f.fn = Top.fn
        /\ f.at = IF Top.fn = "eval" THEN "begin" ELSE "enter"
    BY <1>1 DEF IsFrame
  <2>3. Top.fn \in {"eval", "lvalue_cell"} \cup Builders BY <1>1, <2>1 DEF IsFrame
  <2> HIDE DEF f
  <2>4. IsFrame(f) BY <1>1, <2>2 DEF IsFrame
  <2>5. Like(f, Top)
    BY <2>1, <2>2, <2>3 DEF Like, Trying, Scope, Crossing, Window, Builders
  <2> QED BY <2>1, <2>2, <2>4, <2>5, SameExec, Stays DEF Holds, FollowInv
<1>4. CASE PartMisfits BY <1>4, Ended DEF PartMisfits
<1> QED BY <1>2, <1>3, <1>4

(* The functions that save nothing, where they return. *)
LEMMA ReturnsOn ==
  ASSUME Sound, NEW v, Returns(e, v), Plain(Top), Top.fn # "exec_run"
  PROVE  Sound'
<1>1. stack' = Front(stack) /\ e' = e BY DEF Returns
<1>2. IsExec(e) BY Parts
<1> QED BY <1>1, <1>2, Leaving DEF Plain

LEMMA BuildersKeep ==
  ASSUME Sound,
         \/ InitValue \/ ArrBuild \/ RecBuild
         \/ LvalueName \/ LvalueMember \/ LvalueIndex \/ LvalueOther
  PROVE  FollowInv'
<1>1. ASSUME Top.fn \in {"lvalue_cell"} \cup Builders
      PROVE  Plain(Top) /\ Top.fn # "exec_run"
  BY <1>1 DEF Plain, Trying, Scope, Crossing, Window, Builders
<1>2. \A env, i : Gives(env, i) => \E v : Returns(e, v) BY DEF Gives
<1>3. CASE InitValue BY <1>1, <1>3, ReturnsOn DEF InitValue, Builds, Builders, FollowInv
<1>4. CASE ArrBuild BY <1>1, <1>4, ReturnsOn DEF ArrBuild, Builds, Builders, FollowInv
<1>5. CASE RecBuild BY <1>1, <1>5, ReturnsOn DEF RecBuild, Builds, Builders, FollowInv
<1>6. CASE LvalueName
  BY <1>1, <1>2, <1>6, ReturnsOn, Ended DEF LvalueName, On, FollowInv
<1>7. CASE LvalueMember
  BY <1>1, <1>2, <1>7, ReturnsOn, Ended DEF LvalueMember, FollowInv
<1>8. CASE LvalueIndex
  BY <1>1, <1>2, <1>8, ReturnsOn, Ended DEF LvalueIndex, FollowInv
<1>9. CASE LvalueOther BY <1>9, Ended DEF LvalueOther
<1> QED BY <1>3, <1>4, <1>5, <1>6, <1>7, <1>8, <1>9

(* The depth of eval and of exec_stmt. *)
LEMMA EnterKeeps ==
  ASSUME Sound, Enter
  PROVE  FollowInv'
<1>1. IsFrame(Top) /\ IsExec(e) BY Parts
<1>2. Top.fn \in {"eval", "exec_stmt"} /\ Top.at = "enter" BY DEF Enter, On
<1>3. Plain(Top) /\ Top.fn # "exec_run"
  BY <1>2 DEF Plain, Trying, Scope, Crossing, Window
<1>4. CASE Fails("recursion limit exceeded") BY <1>4, Ended
<1>5. CASE Returns(e, Void) BY <1>3, <1>5, ReturnsOn DEF FollowInv
<1>6. CASE Becomes([Top EXCEPT !.at = "begin"], [e EXCEPT !.depth = @ + 1])
  <2> DEFINE f == [Top EXCEPT !.at = "begin"]
             x == [e EXCEPT !.depth = @ + 1]
  <2>1. DOMAIN f = DOMAIN Top /\ f.fn = Top.fn /\ f.at = "begin" BY <1>1 DEF IsFrame
  <2>2. /\ IsExec(x) /\ x.catch_ = e.catch_ /\ x.cur = e.cur /\ x.defers = e.defers
        /\ x.depth = e.depth + 1
    BY <1>1 DEF IsExec
  <2>3. Becomes(f, x) BY <1>6
  <2> HIDE DEF f, x
  <2>4. IsFrame(f) BY <1>1, <2>1 DEF IsFrame
  <2>5. Begins(f, x)
    BY <1>2, <2>1, <2>2, <2>4 DEF Begins, Trying, Scope, Crossing, Window
  <2> QED BY <1>3, <2>3, <2>5, Starts DEF FollowInv
<1> QED BY <1>4, <1>5, <1>6 DEF Enter

(* An error is raised: the frames above the region are gone, and the       *)
(* fields are what the region saved. *)
LEMMA RaisesKeep ==
  ASSUME Sound, NEW err, Raises(err)
  PROVE  FollowInv'
<1>1. CASE e.catch_ = 0 BY <1>1, Ended DEF Raises
<1>2. CASE e.catch_ # 0
  <2> DEFINE c == e.catch_
             n == Len(stack)
             f == stack[c]
             h == [f EXCEPT !.at = "handlers", !.i = 0]
             u == SubSeq(stack, 1, c - 1)
             x == Landed(e, f)
  <2>1. stack' = Append(u, h) /\ e' = x BY <1>2 DEF Raises
  <2>2. /\ IsSeq(stack) /\ Fitted(stack, n) /\ Bottom(stack)
        /\ n \in Nat /\ IsExec(e) /\ Len(e.defers) \in Nat
        /\ Level(stack, n, c, e.cur, e.depth) /\ Marked(stack, n, Len(e.defers))
    BY Parts DEF Linked
  <2>3. c \in Regions(stack, n) BY <1>2, <2>2 DEF Level, Latest
  <2>4. c \in 1 .. n /\ Trying(f) BY <2>3 DEF Regions
  <2>5. Window(f) BY <2>4 DEF Window
  <2>6. IsFrame(f) /\ Fits(stack, c) BY <2>2, <2>4 DEF Fitted
  <2>7. /\ Level(stack, c - 1, f.prev, f.saved, f.deep)
        /\ f.mark \in Nat /\ Marked(stack, c - 1, f.mark)
    BY <2>4, <2>5, <2>6 DEF Fits
  <2>8. f.mark \in 0 .. Len(e.defers)
    <3>1. c \in Windows(stack, n) BY <2>4, <2>5 DEF Windows
    <3>2. f.mark <= Len(e.defers) BY <2>2, <3>1 DEF Marked
    <3> QED BY <2>2, <2>7, <3>2
  <2>9. c # 1 BY <2>2, <2>4 DEF Bottom, Trying
  <2>10. /\ c - 1 \in 0 .. n /\ c - 1 \in Nat /\ c - 1 > 0 BY <2>2, <2>4, <2>9
  <2>11. /\ IsSeq(u) /\ Len(u) = c - 1 /\ \A j \in 1 .. c - 1 : u[j] = stack[j]
    BY <2>2, <2>10, Shortened
  <2>12. DOMAIN h = DOMAIN f /\ h.fn = f.fn /\ h.at = "handlers" BY <2>6 DEF IsFrame
  <2>13. /\ IsExec(x) /\ x.catch_ = f.prev /\ x.cur = f.saved /\ x.depth = f.deep
         /\ Len(x.defers) = f.mark
    <3>1. /\ DOMAIN x = DOMAIN e /\ x.catch_ = f.prev /\ x.cur = f.saved
          /\ x.depth = f.deep /\ x.defers = SubSeq(e.defers, 1, f.mark)
      BY <2>2 DEF Landed, IsExec
    <3>2. IsSeq(x.defers) /\ Len(x.defers) = f.mark
      BY <2>2, <2>8, <3>1, Shortened DEF IsExec
    <3> QED BY <2>2, <3>1, <3>2 DEF IsExec
  <2>14. /\ IsFrame(h) /\ ~Trying(h) /\ ~Scope(h) /\ ~Crossing(h) /\ ~Window(h)
    <3>1. f.fn = "exec_region" BY <2>4 DEF Trying
    <3> HIDE DEF h
    <3>2. IsFrame(h) BY <2>6, <2>12, <3>1 DEF IsFrame
    <3> QED BY <2>12, <3>1, <3>2 DEF Trying, Scope, Crossing, Window
  <2> HIDE DEF u, h, x, f, n
  <2>15. Linked(u, f.prev, f.saved, f.deep, f.mark)
    <3> DEFINE k == c - 1
    <3>1. Fitted(stack, k) BY <2>2, <2>4 DEF Fitted
    <3>2. k \in Nat /\ k \in 0 .. k BY <2>10
    <3>3. Level(stack, k, f.prev, f.saved, f.deep) /\ Marked(stack, k, f.mark) BY <2>7
    <3>4. Len(u) = k /\ \A j \in 1 .. k : u[j] = stack[j] BY <2>11
    <3> HIDE DEF k
    <3>5. Fitted(u, k) BY <3>1, <3>2, <3>4, SameFits
    <3>6. /\ \A y, z, w : Level(u, k, y, z, w) <=> Level(stack, k, y, z, w)
          /\ \A y : Marked(u, k, y) <=> Marked(stack, k, y)
      BY <3>2, <3>4, SameBelow
    <3> QED BY <2>11, <3>3, <3>4, <3>5, <3>6 DEF Linked
  <2>16. Bottom(u)
    <3>1. u # <<>> BY <2>10, <2>11
    <3>2. u[1] = stack[1] BY <2>10, <2>11
    <3> QED BY <2>2, <3>1, <3>2 DEF Bottom
  <2> HIDE DEF c
  <2>17. Linked(Append(u, h), f.prev, f.saved, f.deep, f.mark) /\ Bottom(Append(u, h))
    BY <2>7, <2>15, <2>16, <2>14, Pushed
  <2>18. Sound' BY <2>1, <2>13, <2>17 DEF Sound, Bottom
  <2> QED BY <2>18 DEF FollowInv
<1> QED BY <1>1, <1>2

LEMMA UnwrapKeeps ==
  ASSUME Sound, EvalUnwrap
  PROVE  FollowInv'
<1>1. Working BY DEF EvalUnwrap, Ready, Collecting, Working, Builders
<1> QED BY <1>1, Ways, StepsKeep, RaisesKeep DEF EvalUnwrap

(* The statements that evaluate, run, or are at their end. *)
LEMMA WorkingStmt ==
  ASSUME NEW k, NEW at, Stmt(k, at), at # "enter"
  PROVE  Working /\ Top.node.k = k /\ Top.fn = "exec_stmt" /\ Top.at = at
BY DEF Stmt, On, Working

LEMMA MayBe ==
  /\ MayBeAt("out") /\ MayBeAt("value") /\ MayBeAt("cell") /\ MayBeAt("guard")
  /\ MayBeAt("until") /\ MayBeAt("post") /\ MayBeAt("next") /\ MayBeAt("arms") /\ MayBeAt("label")
  /\ Top.node.k \in Loops => MayBeAt("condition") /\ MayBeAt("body")
BY DEF MayBeAt

LEMMA StatementsKeep ==
  ASSUME Sound,
         \/ StmtList \/ StmtEval \/ StmtExpr \/ StmtVar \/ VarValue \/ StmtOut \/ StmtIf
         \/ StmtCheckIf \/ StmtTry \/ StmtReturn \/ ReturnValue \/ StmtTransfer \/ StmtLabel
         \/ LabelEnds \/ StmtOther \/ StmtBlock \/ StmtRegion \/ EvalInit
  PROVE  FollowInv'
<1> USE Ways, WaysOn, MayBe
<1>1. \A k, at : Stmt(k, at) /\ at # "enter" => Working BY WorkingStmt
<1>2. \A fn : fn # "defer_run_from" => Callable(fn) BY DEF Callable
<1>3. Working => \A at : MayBeAt(at) => Moved([Top EXCEPT !.at = at]) BY MovesTo
<1>4. CASE StmtList BY <1>1, <1>4, StepsKeep DEF StmtList
<1>5. CASE StmtEval BY <1>1, <1>5, StepsKeep DEF StmtEval
<1>6. CASE StmtExpr BY <1>1, <1>6, StepsKeep DEF StmtExpr
<1>7. CASE StmtVar
  <2>1. Working BY <1>1, <1>7 DEF StmtVar
  <2>2. Callable(Builder(Top.node)) BY DEF Callable, Builder
  <2>3. Moved([Top EXCEPT !.at = "value"]) BY <1>3, <2>1
  <2> QED BY <1>7, <2>1, <2>2, <2>3, StepsKeep DEF StmtVar
<1>8. CASE VarValue BY <1>1, <1>8, StepsKeep DEF VarValue
<1>9. CASE StmtOut BY <1>9, StepsKeep DEF StmtOut, On, Working
<1>10. CASE StmtIf BY <1>1, <1>10, StepsKeep DEF StmtIf, Branches, RunsIfAny
<1>11. CASE StmtCheckIf
  <2>1. Working BY <1>1, <1>11 DEF StmtCheckIf
  <2>2. Moved([Top EXCEPT !.at = "out"]) /\ Callable("exec_stmt") BY <1>2, <1>3, <2>1
  <2> QED BY <1>11, <2>1, <2>2, StepsKeep DEF StmtCheckIf, RunsIfAny
<1>12. CASE StmtTry BY <1>1, <1>12, StepsKeep DEF StmtTry
<1>13. ASSUME NEW v, Working, Return(v) PROVE FollowInv'
  <2> DEFINE x == [e EXCEPT !.ret = v, !.flow = "FL_RETURN"]
  <2>1. Same(x) BY SameExec DEF Same, IsExec
  <2>2. Leaves(x, Void) BY <1>13 DEF Return
  <2> QED BY <1>13, <2>1, <2>2, StepsKeep DEF Steps
<1>14. CASE StmtReturn BY <1>1, <1>13, <1>14, StepsKeep DEF StmtReturn
<1>15. CASE ReturnValue BY <1>1, <1>13, <1>15 DEF ReturnValue
<1>16. CASE StmtTransfer
  <2>1. Working BY <1>1, <1>16 DEF StmtTransfer
  <2> DEFINE x == [e EXCEPT !.flow = IF Top.node.op = "break" THEN "FL_BREAK" ELSE "FL_CONTINUE",
                            !.label = Top.node.label]
  <2>2. Same(x) BY SameExec DEF Same, IsExec
  <2>3. (\E msg : Fails(msg)) \/ Leaves(x, Void) BY <1>16 DEF StmtTransfer
  <2> QED BY <2>1, <2>2, <2>3, StepsKeep DEF Steps
<1>17. CASE StmtLabel BY <1>1, <1>17, StepsKeep DEF StmtLabel
<1>18. CASE LabelEnds BY <1>1, <1>18, StepsKeep DEF LabelEnds
<1>19. CASE StmtOther BY <1>19, StepsKeep DEF StmtOther, On, Working
<1>20. CASE StmtBlock
  <2>1. Working BY <1>1, <1>20 DEF StmtBlock
  <2>2. Moved([Top EXCEPT !.at = "out"]) /\ Callable("exec_block") BY <1>2, <1>3, <2>1
  <2> QED BY <1>20, <2>1, <2>2, StepsKeep DEF StmtBlock
<1>21. CASE StmtRegion
  <2>1. Working BY <1>1, <1>21 DEF StmtRegion
  <2>2. Moved([Top EXCEPT !.at = "out"]) /\ Callable("exec_region") BY <1>2, <1>3, <2>1
  <2> QED BY <1>21, <2>1, <2>2, StepsKeep DEF StmtRegion
<1>22. CASE EvalInit
  <2>1. Working BY <1>22 DEF EvalInit, Expr, On, Working
  <2>2. Moved([Top EXCEPT !.at = "out"]) /\ Callable("init_value") /\ Callable("rec_build")
    BY <1>2, <1>3, <2>1
  <2> QED BY <1>22, <2>1, <2>2, StepsKeep DEF EvalInit
<1> QED BY <1>4, <1>5, <1>6, <1>7, <1>8, <1>9, <1>10, <1>11, <1>12, <1>14, <1>15, <1>16,
           <1>17, <1>18, <1>19, <1>20, <1>21, <1>22

(* Assignments, which keep a cell, and what is deferred. *)
LEMMA AssignmentsKeep ==
  ASSUME Sound,
         \/ StmtAssign \/ AssignCell \/ AssignValue \/ StmtSwap \/ SwapCell \/ SwapValue
         \/ StmtDefer
  PROVE  FollowInv'
<1> USE Ways, MayBe
<1>1. \A k, at : Stmt(k, at) /\ at # "enter" => Working BY WorkingStmt
<1>2. IsFrame(Top) /\ IsExec(e) /\ Len(e.defers) \in Nat BY Parts
<1>3. Callable("eval") /\ Callable("lvalue_cell") BY DEF Callable
<1>4. Working => \A at : MayBeAt(at) => Moved([Top EXCEPT !.at = at]) BY MovesTo
<1>5. CASE StmtAssign
  <2>1. Working BY <1>1, <1>5 DEF StmtAssign
  <2>2. Moved([Top EXCEPT !.at = "cell"]) BY <1>4, <2>1
  <2> QED BY <1>3, <1>5, <2>1, <2>2, StepsKeep DEF StmtAssign, Finds
<1>6. CASE AssignCell
  <2> DEFINE f == [Top EXCEPT !.at = "value", !.cell = value]
  <2>1. Working BY <1>1, <1>6 DEF AssignCell
  <2>2. Moved(f) BY <1>2 DEF Moved, IsFrame
  <2>3. Calls(f, e, "eval", Top.node.x) BY <1>6 DEF AssignCell
  <2> HIDE DEF f
  <2> QED BY <1>3, <2>1, <2>2, <2>3, StepsKeep
<1>7. CASE AssignValue BY <1>1, <1>7, StepsKeep DEF AssignValue
<1>8. CASE StmtSwap
  <2>1. Working BY <1>1, <1>8 DEF StmtSwap
  <2>2. Moved([Top EXCEPT !.at = "cell"]) BY <1>4, <2>1
  <2> QED BY <1>3, <1>8, <2>1, <2>2, StepsKeep DEF StmtSwap, Finds
<1>9. CASE SwapCell
  <2> DEFINE h == [Top EXCEPT !.cell = value]
             f == [h EXCEPT !.at = "value"]
  <2>1. Working BY <1>1, <1>9 DEF SwapCell
  <2>2. Moved(f) BY <1>2 DEF Moved, IsFrame
  <2>3. Calls(f, e, "lvalue_cell", Top.node.b) BY <1>9 DEF SwapCell, Finds
  <2> HIDE DEF f
  <2> QED BY <1>3, <2>1, <2>2, <2>3, StepsKeep
<1>10. CASE SwapValue BY <1>1, <1>10, StepsKeep DEF SwapValue
<1>11. CASE StmtDefer
  <2> DEFINE it == [st |-> Top.node.st, env |-> e.cur]
             x  == [e EXCEPT !.defers = Append(@, it)]
  <2>1. Working /\ Leaves(x, Void) BY <1>1, <1>11 DEF StmtDefer
  <2>2. IsSeq(e.defers) BY <1>2 DEF IsExec
  <2> HIDE DEF it
  <2>3. IsSeq(Append(e.defers, it)) /\ Len(Append(e.defers, it)) = Len(e.defers) + 1
    BY <2>2, Appended
  <2>4. /\ DOMAIN x = DOMAIN e /\ x.defers = Append(e.defers, it)
        /\ x.catch_ = e.catch_ /\ x.cur = e.cur /\ x.depth = e.depth
    BY <1>2 DEF IsExec
  <2> HIDE DEF x
  <2>5. IsExec(x) BY <1>2, <2>3, <2>4 DEF IsExec
  <2>6. Sound' BY <2>1, <2>3, <2>4, <2>5, LeavesOn
  <2> QED BY <2>6 DEF FollowInv
<1> QED BY <1>5, <1>6, <1>7, <1>8, <1>9, <1>10, <1>11

(* The loops, and match. *)
LEMMA BodiesRun ==
  ASSUME Sound, Working, Top.fn = "exec_stmt", Top.node.k \in Loops
  PROVE  /\ RunsBody(Top, e) => Steps
         /\ RunsBody(Top, Calm) => Steps
         /\ \A n : RunsBody([Top EXCEPT !.i = n], e) => Steps
<1>1. IsFrame(Top) BY Parts
<1>2. MayBeAt("body") BY DEF MayBeAt
<1>3. Callable(IF AtOnce(Top.node) THEN "exec_block" ELSE "exec_stmt") BY DEF Callable
<1>4. Moved([Top EXCEPT !.at = "body"]) BY <1>2, MovesTo
<1>5. ASSUME RunsBody(Top, e) PROVE Steps BY <1>3, <1>4, <1>5, Ways DEF RunsBody
<1>6. ASSUME RunsBody(Top, Calm) PROVE Steps BY <1>3, <1>4, <1>6, Ways DEF RunsBody
<1>7. ASSUME NEW n, RunsBody([Top EXCEPT !.i = n], e) PROVE Steps
  <2> DEFINE h == [Top EXCEPT !.i = n]
             f == [h EXCEPT !.at = "body"]
             fn == IF AtOnce(Top.node) THEN "exec_block" ELSE "exec_stmt"
  <2>1. Moved(f) BY <1>1, <1>2 DEF Moved, IsFrame
  <2>2. Calls(f, e, fn, Top.node.body) BY <1>7 DEF RunsBody
  <2>3. Callable(fn) BY <1>3
  <2> HIDE DEF f, fn
  <2> QED BY <2>1, <2>2, <2>3, Ways
<1> QED BY <1>5, <1>6, <1>7

LEMMA LoopStarts ==
  ASSUME Sound,
         \/ StmtLoop \/ CforInit \/ LoopCondition \/ LoopUntil \/ LoopPost \/ InValue
         \/ InNext \/ CheckInValue
  PROVE  FollowInv'
<1> USE Ways, WaysOn, MayBe
<1>1. IsFrame(Top) BY Parts
<1>2. \A k, at : Stmt(k, at) /\ at # "enter" =>
        Working /\ Top.node.k = k /\ Top.fn = "exec_stmt" /\ Top.at = at
  BY WorkingStmt
<1>3. Callable("eval") BY DEF Callable
<1>4. Working => \A at : MayBeAt(at) => Moved([Top EXCEPT !.at = at]) BY MovesTo
<1>5. CASE StmtLoop
  <2>1. Working /\ Top.fn = "exec_stmt" /\ Top.node.k \in Loops
    BY <1>2, <1>5 DEF StmtLoop, Loops
  <2> QED BY <1>5, <2>1, BodiesRun, StepsKeep DEF StmtLoop
<1>6. CASE CforInit
  <2>1. Working /\ Top.node.k \in Loops BY <1>2, <1>6 DEF CforInit, Loops
  <2>2. Moved([Top EXCEPT !.at = "condition"]) BY <1>4, <2>1
  <2> QED BY <1>3, <1>6, <2>1, <2>2, StepsKeep DEF CforInit
<1>7. CASE LoopCondition
  <2>1. Working /\ Top.fn = "exec_stmt" /\ Top.node.k \in Loops
    BY <1>1, <1>7 DEF LoopCondition, On, Working, IsFrame
  <2> QED BY <1>7, <2>1, BodiesRun, StepsKeep DEF LoopCondition, Branches
<1>8. CASE LoopUntil
  <2>1. Working /\ Top.fn = "exec_stmt" /\ Top.node.k \in Loops
    BY <1>2, <1>8 DEF LoopUntil, Loops
  <2> QED BY <1>8, <2>1, BodiesRun, StepsKeep DEF LoopUntil, Branches
<1>9. CASE LoopPost
  <2>1. Working /\ Top.node.k \in Loops BY <1>2, <1>9 DEF LoopPost, Loops
  <2> QED BY <1>9, <2>1, StepsKeep DEF LoopPost
<1>10. CASE InValue
  <2> DEFINE f == [Top EXCEPT !.at = "next", !.v = value,
                              !.i = IF value.k = "V_RANGE" THEN value.lo ELSE 0]
  <2>1. Working BY <1>2, <1>10 DEF InValue
  <2>2. Moved(f) BY <1>1 DEF Moved, IsFrame
  <2>3. (\E msg : Fails(msg)) \/ Becomes(f, e) BY <1>10 DEF InValue
  <2> HIDE DEF f
  <2> QED BY <2>1, <2>2, <2>3, StepsKeep
<1>11. CASE InNext
  <2>1. Working /\ Top.fn = "exec_stmt" /\ Top.node.k \in Loops
    BY <1>2, <1>11 DEF InNext, Loops
  <2>2. \A ord, elem, n : Turn(ord, elem, n) => RunsBody([Top EXCEPT !.i = n], e) BY DEF Turn
  <2>3. Skips \/ \E ord, elem, n : Turn(ord, elem, n) BY <1>11 DEF InNext
  <2>4. Skips \/ \E n : RunsBody([Top EXCEPT !.i = n], e) BY <2>2, <2>3
  <2> QED BY <2>1, <2>4, BodiesRun, StepsKeep
<1>12. CASE CheckInValue
  <2>1. Working /\ Top.fn = "exec_stmt" /\ Top.node.k \in Loops
    BY <1>2, <1>12 DEF CheckInValue, Loops
  <2> QED BY <1>12, <2>1, BodiesRun, StepsKeep DEF CheckInValue
<1> QED BY <1>5, <1>6, <1>7, <1>8, <1>9, <1>10, <1>11, <1>12

LEMMA LoopBodyKeeps ==
  ASSUME Sound, LoopBody
  PROVE  FollowInv'
<1>1. IsFrame(Top) BY Parts
<1>2. Working /\ Top.fn = "exec_stmt" /\ Top.at = "body" /\ Top.node.k \in Loops
  BY <1>1 DEF LoopBody, On, Working, IsFrame
<1>3. Leaves(Calm, Void) \/ Leaves(e, Void) \/ Again BY DEF LoopBody
<1>4. ASSUME Again PROVE Steps
  <2>1. Callable("eval") /\ Callable("exec_stmt") BY DEF Callable
  <2>2. Moved([Top EXCEPT !.at = "condition"]) BY <1>2, MayBe, MovesTo
  <2>3. Moved([Top EXCEPT !.at = "until"]) BY <1>2, MayBe, MovesTo
  <2>4. Moved([Top EXCEPT !.at = "post"]) BY <1>2, MayBe, MovesTo
  <2>5. Moved([Top EXCEPT !.at = "next"]) BY <1>2, MayBe, MovesTo
  <2>6. Moved([Top EXCEPT !.at = "value"]) BY <1>2, MayBe, MovesTo
  <2>7. RunsBody(Top, Calm) => Steps BY <1>2, BodiesRun
  <2>8. CASE Top.node.k = "N_LOOP"
    <3>1. \/ Calls([Top EXCEPT !.at = "condition"], Calm, "eval", Top.node.x)
          \/ Calls([Top EXCEPT !.at = "until"], Calm, "eval", Top.node.until)
          \/ RunsBody(Top, Calm)
      BY <1>4, <2>8 DEF Again
    <3> QED BY <2>1, <2>2, <2>3, <2>7, <3>1, Ways
  <2>9. CASE Top.node.k = "N_CFOR"
    <3>1. \/ Calls([Top EXCEPT !.at = "post"], Calm, "exec_stmt", Top.node.post)
          \/ Calls([Top EXCEPT !.at = "condition"], Calm, "eval", Top.node.x)
      BY <1>4, <2>9 DEF Again
    <3> QED BY <2>1, <2>2, <2>4, <3>1, Ways
  <2>10. CASE Top.node.k = "N_IN_CLAUSE"
    <3>1. Becomes([Top EXCEPT !.at = "next"], Calm) BY <1>4, <2>10 DEF Again
    <3> QED BY <2>5, <3>1, Ways
  <2>11. CASE Top.node.k = "N_CHECK_IN"
    <3>1. Calls([Top EXCEPT !.at = "value"], Calm, "eval", Top.node.x)
      BY <1>4, <2>11 DEF Again
    <3> QED BY <2>1, <2>6, <3>1, Ways
  <2> QED BY <1>2, <2>8, <2>9, <2>10, <2>11 DEF Loops
<1> QED BY <1>2, <1>3, <1>4, Ways, StepsKeep

LEMMA MatchKeeps ==
  ASSUME Sound, MatchSubject \/ MatchArm \/ MatchGuard
  PROVE  FollowInv'
<1> USE Ways, WaysOn, MayBe
<1>1. IsFrame(Top) BY Parts
<1>2. \A k, at : Stmt(k, at) /\ at # "enter" => Working BY WorkingStmt
<1>3. Working /\ TakesArm => Steps BY DEF TakesArm
<1>4. ASSUME Working, TriesNext PROVE Steps
  <2> DEFINE f == [Top EXCEPT !.at = "arms", !.i = @ + 1]
  <2>1. Moved(f) BY <1>1 DEF Moved, IsFrame
  <2>2. Becomes(f, e) BY <1>4 DEF TriesNext
  <2> HIDE DEF f
  <2> QED BY <2>1, <2>2
<1>5. \A v : Working /\ Compares(v) => Steps BY <1>3, <1>4 DEF Compares
<1>6. CASE MatchSubject
  <2> DEFINE f == [Top EXCEPT !.at = "arms", !.v = value]
  <2>1. Working BY <1>2, <1>6 DEF MatchSubject
  <2>2. Moved(f) BY <1>1 DEF Moved, IsFrame
  <2>3. Becomes(f, e) BY <1>6 DEF MatchSubject
  <2> HIDE DEF f
  <2> QED BY <2>1, <2>2, <2>3, StepsKeep
<1>7. CASE MatchArm
  <2>1. Working BY <1>2, <1>7 DEF MatchArm
  <2>2. \/ \E msg : Fails(msg) \/ TakesArm \/ TriesNext
        \/ \E v : Compares(v)
        \/ \E y : Evals(y, "guard")
    BY <1>7 DEF MatchArm
  <2> QED BY <1>3, <1>4, <1>5, <2>1, <2>2, StepsKeep
<1>8. CASE MatchGuard BY <1>2, <1>3, <1>4, <1>8, StepsKeep DEF MatchGuard, Branches
<1> QED BY <1>6, <1>7, <1>8
-----------------------------------------------------------------------------
(* The steps of the functions that save and put back. *)

(* A frame that stays of its kind, and keeps what it saved. *)
LEMMA HoldsIf ==
  ASSUME Sound, NEW f, DOMAIN f = DOMAIN Top, f.fn = Top.fn,
         f.fn \notin {"eval", "exec_stmt"}, f.at # "part",
         Trying(f) <=> Trying(Top), Scope(f) <=> Scope(Top),
         f.own = Top.own, f.saved = Top.saved, f.mark = Top.mark, f.prev = Top.prev,
         f.deep = Top.deep
  PROVE  Holds(f)
<1>1. IsFrame(Top) BY Parts
<1>2. IsFrame(f) BY <1>1 DEF IsFrame
<1>3. Like(f, Top) BY DEF Like, Crossing, Window
<1> QED BY <1>2, <1>3 DEF Holds

LEMMA CallsKeep ==
  ASSUME Sound, NEW f, NEW x, NEW fn, NEW node, Calls(f, x, fn, node), Holds(f), Same(x),
         fn # "defer_run_from"
  PROVE  Sound'
<1> DEFINE g == Frame(fn, node)
<1>1. stack' = Front(stack) \o <<f, g>> /\ e' = x BY DEF Calls
<1>2. IsFrame(g) /\ ~Trying(g) /\ ~Scope(g) /\ ~Crossing(g) /\ ~Window(g) BY Fresh
<1> HIDE DEF g
<1> QED BY <1>1, <1>2, Calling

LEMMA DrainFrame ==
  ASSUME NEW f
  PROVE  LET g == [Frame("defer_run_from", NoNode) EXCEPT !.mark = f.mark]
         IN  /\ IsFrame(g) /\ ~Trying(g) /\ ~Scope(g) /\ ~Crossing(g) /\ Window(g)
             /\ g.mark = f.mark
<1> DEFINE h == Frame("defer_run_from", NoNode)
           g == [h EXCEPT !.mark = f.mark]
<1>1. IsFrame(h) BY Fresh
<1>2. h.fn = "defer_run_from" /\ h.at = "enter" BY DEF Frame
<1> HIDE DEF h
<1>3. DOMAIN g = DOMAIN h /\ g.fn = "defer_run_from" /\ g.at = "enter" /\ g.mark = f.mark
  BY <1>1, <1>2 DEF IsFrame
<1> HIDE DEF g
<1>4. IsFrame(g) BY <1>1, <1>3 DEF IsFrame
<1>5. ~Trying(g) /\ ~Scope(g) /\ ~Crossing(g) /\ Window(g)
  BY <1>3 DEF Trying, Scope, Crossing, Window
<1> QED BY <1>3, <1>4, <1>5 DEF g, h

LEMMA DrainsKeep ==
  ASSUME Sound, NEW f, NEW h, NEW x, Drains(f, x), h = [f EXCEPT !.at = "drained"],
         Holds(h), Window(h), h.mark = f.mark, Same(x)
  PROVE  Sound'
<1> DEFINE g == [Frame("defer_run_from", NoNode) EXCEPT !.mark = f.mark]
<1>1. stack' = Front(stack) \o <<h, g>> /\ e' = x BY DEF Drains
<1>2. /\ IsFrame(g) /\ ~Trying(g) /\ ~Scope(g) /\ ~Crossing(g) /\ g.mark = h.mark
  BY DrainFrame
<1> HIDE DEF g
<1> QED BY <1>1, <1>2, Calling

LEMMA CallUserKeeps ==
  ASSUME Sound, CallUser
  PROVE  FollowInv'
<1>1. Working BY DEF CallUser, Ready, Collecting, Working, Builders
<1> DEFINE f == [Top EXCEPT !.at = "out"]
           h == Frame("invoke_user", Callee)
           g == [h EXCEPT !.vals = Arguments]
<1>2. stack' = Front(stack) \o <<f, g>> /\ e' = e BY DEF CallUser
<1>3. Holds(f) BY <1>1, MayBe, MovesTo, MovedHolds
<1>4. IsFrame(h) BY Fresh
<1>5. h.fn = "invoke_user" /\ h.at = "enter" BY DEF Frame
<1> HIDE DEF f, h
<1>6. DOMAIN g = DOMAIN h /\ g.fn = "invoke_user" /\ g.at = "enter"
  BY <1>4, <1>5 DEF IsFrame
<1> HIDE DEF g
<1>7. IsFrame(g) BY <1>4, <1>6 DEF IsFrame
<1>8. ~Trying(g) /\ ~Scope(g) /\ ~Crossing(g) /\ ~Window(g)
  BY <1>6 DEF Trying, Scope, Crossing, Window
<1>9. Sound' BY <1>2, <1>3, <1>7, <1>8, SameExec, Calling
<1> QED BY <1>9 DEF FollowInv

LEMMA RunDeferredKeeps ==
  ASSUME Sound, RunDeferred
  PROVE  FollowInv'
<1>1. IsFrame(Top) BY Parts
<1>2. Top.fn = "defer_run_from" /\ Top.at = "enter" BY DEF RunDeferred, On
<1>3. ASSUME Returns(e, Void) PROVE Sound'
  <2>1. stack' = Front(stack) /\ e' = e BY <1>3 DEF Returns
  <2>2. IsExec(e) BY Parts
  <2>3. ~Trying(Top) /\ ~Scope(Top) /\ ~Crossing(Top) /\ Top.fn # "exec_run"
    BY <1>2 DEF Trying, Scope, Crossing
  <2> QED BY <2>1, <2>2, <2>3, Leaving
<1>4. ASSUME NEW st, Calls([Top EXCEPT !.i = @ + 1], e, "exec_stmt", st) PROVE Sound'
  <2> DEFINE f == [Top EXCEPT !.i = @ + 1]
  <2>1. /\ DOMAIN f = DOMAIN Top /\ f.fn = Top.fn /\ f.at = Top.at /\ f.own = Top.own
        /\ f.saved = Top.saved /\ f.mark = Top.mark /\ f.prev = Top.prev /\ f.deep = Top.deep
    BY <1>1 DEF IsFrame
  <2>2. Calls(f, e, "exec_stmt", st) BY <1>4
  <2> HIDE DEF f
  <2>3. Holds(f) BY <1>2, <2>1, HoldsIf DEF Trying, Scope
  <2> QED BY <2>2, <2>3, CallsKeep, SameExec
<1> QED BY <1>3, <1>4 DEF RunDeferred, FollowInv

(* What a drain leaves on the list. *)
LEMMA DrainedIs ==
  ASSUME Sound, Window(Top)
  PROVE  /\ IsExec(Drained) /\ Len(Drained.defers) = Top.mark
         /\ Drained.catch_ = e.catch_ /\ Drained.cur = e.cur /\ Drained.depth = e.depth
<1>1. /\ IsExec(e) /\ Len(e.defers) \in Nat /\ Top.mark \in Nat /\ Top.mark <= Len(e.defers)
  BY Parts
<1>2. IsSeq(e.defers) /\ Top.mark \in 0 .. Len(e.defers) BY <1>1 DEF IsExec
<1>3. /\ DOMAIN Drained = DOMAIN e /\ Drained.defers = SubSeq(e.defers, 1, Top.mark)
      /\ Drained.catch_ = e.catch_ /\ Drained.cur = e.cur /\ Drained.depth = e.depth
  BY <1>1 DEF Drained, IsExec
<1>4. IsSeq(Drained.defers) /\ Len(Drained.defers) = Top.mark
  BY <1>2, <1>3, Shortened
<1> QED BY <1>1, <1>3, <1>4 DEF IsExec

(* exec_block and the end of invoke_user *)
LEMMA ScopeEnds ==
  ASSUME Sound, Scope(Top), NEW x, IsExec(x), NEW v,
         Returns([x EXCEPT !.cur = Top.saved], v),
         x.catch_ = e.catch_, x.depth = e.depth,
         Len(x.defers) = Len(e.defers) \/ Len(x.defers) = Top.mark
  PROVE  FollowInv'
<1> DEFINE y == [x EXCEPT !.cur = Top.saved]
<1>1. stack' = Front(stack) /\ e' = y BY DEF Returns
<1>2. /\ IsExec(y) /\ y.cur = Top.saved /\ y.catch_ = e.catch_ /\ y.depth = e.depth
      /\ y.defers = x.defers
  BY DEF IsExec
<1> HIDE DEF y
<1>3. /\ ~Trying(Top) /\ ~Crossing(Top) /\ Window(Top) /\ Top.fn # "exec_run"
  BY DEF Trying, Crossing, Window, Scope
<1>4. \/ Len(y.defers) = Len(e.defers)
      \/ Window(Top) /\ Len(y.defers) = Top.mark
  BY <1>2, <1>3
<1>5. Sound' BY <1>1, <1>2, <1>3, <1>4, Leaving
<1> QED BY <1>5 DEF FollowInv

LEMMA BlocksKeep ==
  ASSUME Sound, BlockEnter \/ BlockRun \/ BlockDrained
  PROVE  FollowInv'
<1>1. IsFrame(Top) /\ IsExec(e) BY Parts
<1>2. CASE BlockEnter
  <2> DEFINE f == [Top EXCEPT !.at = "run", !.own = Len(envs) + 1, !.saved = e.cur,
                              !.mark = Len(e.defers)]
             x == [e EXCEPT !.cur = Len(envs) + 1]
  <2>1. Top.fn = "exec_block" /\ Top.at = "enter" /\ Becomes(f, x)
    BY <1>2 DEF BlockEnter, On
  <2>2. Plain(Top) BY <2>1 DEF Plain, Trying, Scope, Crossing, Window
  <2>3. /\ DOMAIN f = DOMAIN Top /\ f.fn = Top.fn /\ f.at = "run" /\ f.own = Len(envs) + 1
        /\ f.saved = e.cur /\ f.mark = Len(e.defers)
    BY <1>1 DEF IsFrame
  <2>4. /\ IsExec(x) /\ x.cur = Len(envs) + 1 /\ x.catch_ = e.catch_ /\ x.depth = e.depth
        /\ x.defers = e.defers
    BY <1>1 DEF IsExec
  <2> HIDE DEF f, x
  <2>5. IsFrame(f) BY <1>1, <2>1, <2>3 DEF IsFrame
  <2>6. Begins(f, x) BY <2>1, <2>3, <2>4, <2>5 DEF Begins, Trying, Scope, Crossing
  <2> QED BY <2>1, <2>2, <2>6, Starts DEF FollowInv
<1>3. CASE BlockRun
  <2>1. Top.fn = "exec_block" /\ Top.at = "run" BY <1>3 DEF BlockRun, On
  <2>2. Scope(Top) /\ Window(Top) BY <2>1 DEF Scope, Window
  <2>3. ASSUME NEW ch, RunsOne(ch) PROVE Sound'
    <3> DEFINE f == [Top EXCEPT !.i = @ + 1]
    <3>1. /\ DOMAIN f = DOMAIN Top /\ f.fn = Top.fn /\ f.at = Top.at /\ f.own = Top.own
          /\ f.saved = Top.saved /\ f.mark = Top.mark /\ f.prev = Top.prev /\ f.deep = Top.deep
      BY <1>1 DEF IsFrame
    <3>2. Calls(f, e, "exec_stmt", ch[Top.i + 1]) BY <2>3 DEF RunsOne
    <3> HIDE DEF f
    <3>3. Holds(f) BY <2>1, <3>1, HoldsIf DEF Trying, Scope
    <3> QED BY <3>2, <3>3, CallsKeep, SameExec
  <2>4. ASSUME NEW v, Drains([Top EXCEPT !.v = v], e) PROVE Sound'
    <3> DEFINE f == [Top EXCEPT !.v = v]
               h == [f EXCEPT !.at = "drained"]
    <3>1. /\ DOMAIN h = DOMAIN Top /\ h.fn = Top.fn /\ h.at = "drained" /\ h.own = Top.own
          /\ h.saved = Top.saved /\ h.mark = Top.mark /\ h.prev = Top.prev /\ h.deep = Top.deep
          /\ f.mark = Top.mark
      BY <1>1 DEF IsFrame
    <3>2. Drains(f, e) /\ h = [f EXCEPT !.at = "drained"] BY <2>4
    <3> HIDE DEF f, h
    <3>3. Holds(h) BY <2>1, <3>1, HoldsIf DEF Trying, Scope
    <3>4. Window(h) BY <2>1, <3>1 DEF Window, Scope
    <3> QED BY <3>1, <3>2, <3>3, <3>4, DrainsKeep, SameExec
  <2>5. ASSUME NEW v, Returns([e EXCEPT !.cur = Top.saved], v) PROVE FollowInv'
    BY <1>1, <2>2, <2>5, ScopeEnds
  <2> QED BY <1>3, <2>3, <2>4, <2>5 DEF BlockRun, FollowInv
<1>4. CASE BlockDrained
  <2>1. Scope(Top) /\ Window(Top) BY <1>4 DEF BlockDrained, On, Scope, Window
  <2>2. Returns([Drained EXCEPT !.cur = Top.saved], Top.v) BY <1>4 DEF BlockDrained
  <2>3. /\ IsExec(Drained) /\ Len(Drained.defers) = Top.mark
        /\ Drained.catch_ = e.catch_ /\ Drained.depth = e.depth
    BY <2>1, DrainedIs
  <2> QED BY <2>1, <2>2, <2>3, ScopeEnds
<1> QED BY <1>2, <1>3, <1>4

LEMMA RegionEnds ==
  ASSUME Sound, Trying(Top), NEW x, IsExec(x), NEW v,
         Returns([x EXCEPT !.catch_ = Top.prev], v),
         x.cur = e.cur, x.depth = e.depth,
         Len(x.defers) = Len(e.defers) \/ Len(x.defers) = Top.mark
  PROVE  FollowInv'
<1> DEFINE y == [x EXCEPT !.catch_ = Top.prev]
<1>1. stack' = Front(stack) /\ e' = y BY DEF Returns
<1>2. /\ IsExec(y) /\ y.catch_ = Top.prev /\ y.cur = e.cur /\ y.depth = e.depth
      /\ y.defers = x.defers
  BY DEF IsExec
<1> HIDE DEF y
<1>3. /\ ~Scope(Top) /\ ~Crossing(Top) /\ Window(Top) /\ Top.fn # "exec_run"
  BY DEF Trying, Crossing, Window, Scope
<1>4. \/ Len(y.defers) = Len(e.defers)
      \/ Window(Top) /\ Len(y.defers) = Top.mark
  BY <1>2, <1>3
<1>5. Sound' BY <1>1, <1>2, <1>3, <1>4, Leaving
<1> QED BY <1>5 DEF FollowInv

LEMMA RegionsKeep ==
  ASSUME Sound, RegionEnter \/ RegionRun \/ RegionDrained \/ RegionHandlers
  PROVE  FollowInv'
<1>1. IsFrame(Top) /\ IsExec(e) BY Parts
<1>2. CASE RegionEnter
  <2> DEFINE f == [Top EXCEPT !.at = "try", !.prev = e.catch_, !.saved = e.cur,
                              !.mark = Len(e.defers), !.deep = e.depth]
             x == [e EXCEPT !.catch_ = Len(stack)]
  <2>1. Top.fn = "exec_region" /\ Top.at = "enter" /\ Becomes(f, x)
    BY <1>2 DEF RegionEnter, On
  <2>2. Plain(Top) BY <2>1 DEF Plain, Trying, Scope, Crossing, Window
  <2>3. /\ DOMAIN f = DOMAIN Top /\ f.fn = Top.fn /\ f.at = "try" /\ f.prev = e.catch_
        /\ f.saved = e.cur /\ f.mark = Len(e.defers) /\ f.deep = e.depth
    BY <1>1 DEF IsFrame
  <2>4. /\ IsExec(x) /\ x.catch_ = Len(stack) /\ x.cur = e.cur /\ x.depth = e.depth
        /\ x.defers = e.defers
    BY <1>1 DEF IsExec
  <2> HIDE DEF f, x
  <2>5. IsFrame(f) BY <1>1, <2>1, <2>3 DEF IsFrame
  <2>6. Begins(f, x) BY <2>1, <2>3, <2>4, <2>5 DEF Begins, Trying, Scope, Crossing
  <2> QED BY <2>1, <2>2, <2>6, Starts DEF FollowInv
<1>3. CASE RegionRun
  <2>1. Top.fn = "exec_region" /\ Top.at = "try" BY <1>3 DEF RegionRun, On
  <2>2. Trying(Top) /\ Window(Top) BY <2>1 DEF Trying, Window
  <2>3. ASSUME NEW ch, RunsOne(ch) PROVE Sound'
    <3> DEFINE f == [Top EXCEPT !.i = @ + 1]
    <3>1. /\ DOMAIN f = DOMAIN Top /\ f.fn = Top.fn /\ f.at = Top.at /\ f.own = Top.own
          /\ f.saved = Top.saved /\ f.mark = Top.mark /\ f.prev = Top.prev /\ f.deep = Top.deep
      BY <1>1 DEF IsFrame
    <3>2. Calls(f, e, "exec_stmt", ch[Top.i + 1]) BY <2>3 DEF RunsOne
    <3> HIDE DEF f
    <3>3. Holds(f) BY <2>1, <3>1, HoldsIf DEF Trying, Scope
    <3> QED BY <3>2, <3>3, CallsKeep, SameExec
  <2>4. ASSUME Drains(Top, e) PROVE Sound'
    <3> DEFINE h == [Top EXCEPT !.at = "drained"]
    <3>1. /\ DOMAIN h = DOMAIN Top /\ h.fn = Top.fn /\ h.at = "drained" /\ h.own = Top.own
          /\ h.saved = Top.saved /\ h.mark = Top.mark /\ h.prev = Top.prev /\ h.deep = Top.deep
      BY <1>1 DEF IsFrame
    <3>2. Drains(Top, e) /\ h = [Top EXCEPT !.at = "drained"] BY <2>4
    <3> HIDE DEF h
    <3>3. Holds(h) BY <2>1, <3>1, HoldsIf DEF Trying, Scope
    <3>4. Window(h) BY <2>1, <3>1 DEF Window, Trying
    <3> QED BY <3>1, <3>2, <3>3, <3>4, DrainsKeep, SameExec
  <2>5. ASSUME NEW v, Returns([e EXCEPT !.catch_ = Top.prev], v) PROVE FollowInv'
    BY <1>1, <2>2, <2>5, RegionEnds
  <2> QED BY <1>3, <2>3, <2>4, <2>5 DEF RegionRun, FollowInv
<1>4. CASE RegionDrained
  <2>1. Trying(Top) /\ Window(Top) BY <1>4 DEF RegionDrained, On, Trying, Window
  <2>2. Returns([Drained EXCEPT !.catch_ = Top.prev], Void) BY <1>4 DEF RegionDrained
  <2>3. /\ IsExec(Drained) /\ Len(Drained.defers) = Top.mark
        /\ Drained.cur = e.cur /\ Drained.depth = e.depth
    BY <2>1, DrainedIs
  <2> QED BY <2>1, <2>2, <2>3, RegionEnds
<1>5. CASE RegionHandlers
  <2>1. Top.fn = "exec_region" /\ Top.at = "handlers" BY <1>5 DEF RegionHandlers, On
  <2>2. Plain(Top) /\ Top.fn # "exec_run"
    BY <2>1 DEF Plain, Trying, Scope, Crossing, Window
  <2>3. ASSUME NEW ch, RunsOne(ch) PROVE Sound'
    <3> DEFINE f == [Top EXCEPT !.i = @ + 1]
    <3>1. /\ DOMAIN f = DOMAIN Top /\ f.fn = Top.fn /\ f.at = Top.at /\ f.own = Top.own
          /\ f.saved = Top.saved /\ f.mark = Top.mark /\ f.prev = Top.prev /\ f.deep = Top.deep
      BY <1>1 DEF IsFrame
    <3>2. Calls(f, e, "exec_stmt", ch[Top.i + 1]) BY <2>3 DEF RunsOne
    <3> HIDE DEF f
    <3>3. Holds(f) BY <2>1, <3>1, HoldsIf DEF Trying, Scope
    <3> QED BY <3>2, <3>3, CallsKeep, SameExec
  <2> QED BY <1>5, <2>2, <2>3, ReturnsOn DEF RegionHandlers, FollowInv
<1> QED BY <1>2, <1>3, <1>4, <1>5

(* invoke_user: it is of no kind until the body runs. *)
LEMMA PlainHolds ==
  ASSUME Sound, Plain(Top), NEW f, IsFrame(f), f.fn = Top.fn, Plain(f)
  PROVE  Holds(f)
BY DEF Holds, Like, Plain

LEMMA BeginsUnder ==
  ASSUME Sound, Plain(Top), NEW h, NEW x, Begins(h, x), NEW g,
         stack' = Front(stack) \o <<h, g>>, e' = x,
         IsFrame(g), ~Trying(g), ~Scope(g), ~Crossing(g),
         Window(g) => Window(h) /\ g.mark = h.mark
  PROVE  Sound'
<1> DEFINE t == Append(Front(stack), h)
<1>1. /\ Linked(t, x.catch_, x.cur, x.depth, Len(x.defers)) /\ Bottom(t)
  BY Turned
<1>2. IsSeq(Front(stack)) /\ IsExec(x) /\ Len(x.defers) \in Nat BY Parts DEF Begins
<1>3. Last(t) = h /\ stack' = Append(t, g) BY <1>2, Appended, TwoMore
<1> HIDE DEF t
<1>4. /\ Linked(stack', x.catch_, x.cur, x.depth, Len(x.defers)) /\ Bottom(stack')
  BY <1>1, <1>2, <1>3, Pushed
<1> QED BY <1>2, <1>4 DEF Sound, Bottom

LEMMA InvokeCallKeeps ==
  ASSUME Sound, InvokeCall
  PROVE  FollowInv'
<1> DEFINE f == [Top EXCEPT !.at = "body", !.saved = e.cur, !.mark = Len(e.defers)]
           h == [f EXCEPT !.at = "drained"]
           x == [e EXCEPT !.cur = Top.own, !.flow = "FL_NONE"]
<1>1. IsFrame(Top) /\ IsExec(e) BY Parts
<1>2. Top.fn = "invoke_user" /\ Top.at = "params" BY DEF InvokeCall, On
<1>3. Plain(Top) BY <1>2 DEF Plain, Trying, Scope, Crossing, Window
<1>4. \/ Drains(f, x)
      \/ \E fn \in {"exec_block", "exec_stmt"} : Calls(f, x, fn, Top.node.body)
  BY DEF InvokeCall
<1>5. /\ DOMAIN f = DOMAIN Top /\ f.fn = "invoke_user" /\ f.at = "body" /\ f.own = Top.own
      /\ f.saved = e.cur /\ f.mark = Len(e.defers)
  BY <1>1, <1>2 DEF IsFrame
<1>6. /\ DOMAIN h = DOMAIN Top /\ h.fn = "invoke_user" /\ h.at = "drained" /\ h.own = Top.own
      /\ h.saved = e.cur /\ h.mark = Len(e.defers)
  BY <1>1, <1>2 DEF IsFrame
<1>7. /\ DOMAIN x = DOMAIN e /\ x.cur = Top.own /\ x.catch_ = e.catch_ /\ x.depth = e.depth
      /\ x.defers = e.defers
  BY <1>1 DEF IsExec
<1>8. h = [f EXCEPT !.at = "drained"] OBVIOUS
<1> HIDE DEF f, h, x
<1>9. IsExec(x) BY <1>1, <1>7 DEF IsExec
<1>10. IsFrame(f) /\ IsFrame(h) BY <1>1, <1>5, <1>6 DEF IsFrame
<1>11. Begins(f, x)
  BY <1>2, <1>5, <1>7, <1>9, <1>10 DEF Begins, Trying, Scope, Crossing
<1>12. Begins(h, x) /\ Window(h)
  BY <1>2, <1>6, <1>7, <1>9, <1>10 DEF Begins, Trying, Scope, Crossing, Window
<1>13. ASSUME NEW fn \in {"exec_block", "exec_stmt"}, Calls(f, x, fn, Top.node.body)
       PROVE  Sound'
  <2> DEFINE g == Frame(fn, Top.node.body)
  <2>1. stack' = Front(stack) \o <<f, g>> /\ e' = x BY <1>13 DEF Calls
  <2>2. IsFrame(g) /\ ~Trying(g) /\ ~Scope(g) /\ ~Crossing(g) /\ ~Window(g) BY Fresh
  <2> HIDE DEF g
  <2> QED BY <1>3, <1>11, <2>1, <2>2, BeginsUnder
<1>14. ASSUME Drains(f, x) PROVE Sound'
  <2> DEFINE g == [Frame("defer_run_from", NoNode) EXCEPT !.mark = f.mark]
  <2>1. stack' = Front(stack) \o <<h, g>> /\ e' = x BY <1>8, <1>14 DEF Drains
  <2>2. /\ IsFrame(g) /\ ~Trying(g) /\ ~Scope(g) /\ ~Crossing(g) /\ g.mark = f.mark
    BY DrainFrame
  <2> HIDE DEF g
  <2>3. g.mark = h.mark BY <1>5, <1>6, <2>2
  <2> QED BY <1>3, <1>12, <2>1, <2>2, <2>3, BeginsUnder
<1> QED BY <1>4, <1>13, <1>14 DEF FollowInv

LEMMA InvokesKeep ==
  ASSUME Sound, InvokeEnter \/ InvokeParams \/ InvokeDefault \/ InvokeBody \/ InvokeDrained
  PROVE  FollowInv'
<1>1. IsFrame(Top) /\ IsExec(e) BY Parts
<1>2. \A at : On("invoke_user", at) /\ at \in {"enter", "params", "default"} =>
        Plain(Top) /\ Top.fn = "invoke_user"
  BY DEF On, Plain, Trying, Scope, Crossing, Window
<1>3. ASSUME NEW f, Becomes(f, e), IsFrame(f), f.fn = "invoke_user", Plain(Top),
             Top.fn = "invoke_user", f.at = "params"
      PROVE  FollowInv'
  <2>1. Plain(f) BY <1>3 DEF Plain, Trying, Scope, Crossing, Window
  <2>2. Holds(f) BY <1>3, <2>1, PlainHolds
  <2> QED BY <1>3, <2>2, Stays, SameExec DEF FollowInv
<1>4. CASE InvokeEnter
  <2> DEFINE f == [Top EXCEPT !.at = "params", !.own = Len(envs) + 1, !.i = Len(Top.vals)]
  <2>1. Plain(Top) /\ Top.fn = "invoke_user" BY <1>2, <1>4 DEF InvokeEnter
  <2>2. (\E msg : Fails(msg)) \/ Becomes(f, e) BY <1>4 DEF InvokeEnter
  <2>3. DOMAIN f = DOMAIN Top /\ f.fn = Top.fn /\ f.at = "params" BY <1>1 DEF IsFrame
  <2> HIDE DEF f
  <2>4. IsFrame(f) BY <1>1, <2>1, <2>3 DEF IsFrame
  <2> QED BY <1>3, <2>1, <2>2, <2>3, <2>4, Ended
<1>5. CASE InvokeParams
  <2> DEFINE f == [Top EXCEPT !.at = "default"]
  <2>1. Plain(Top) /\ Top.fn = "invoke_user" BY <1>2, <1>5 DEF InvokeParams
  <2>2. (\E msg : Fails(msg)) \/ Calls(f, e, "eval", NextParam.dflt)
    BY <1>5 DEF InvokeParams, Evals
  <2>3. DOMAIN f = DOMAIN Top /\ f.fn = Top.fn /\ f.at = "default" BY <1>1 DEF IsFrame
  <2> HIDE DEF f
  <2>4. IsFrame(f) BY <1>1, <2>1, <2>3 DEF IsFrame
  <2>5. Plain(f) BY <2>1, <2>3 DEF Plain, Trying, Scope, Crossing, Window
  <2>6. Holds(f) BY <2>1, <2>3, <2>4, <2>5, PlainHolds
  <2> QED BY <2>2, <2>6, Ended, CallsKeep, SameExec DEF FollowInv
<1>6. CASE InvokeDefault
  <2> DEFINE f == [Top EXCEPT !.at = "params", !.i = @ + 1]
  <2>1. Plain(Top) /\ Top.fn = "invoke_user" /\ Becomes(f, e)
    BY <1>2, <1>6 DEF InvokeDefault
  <2>2. DOMAIN f = DOMAIN Top /\ f.fn = Top.fn /\ f.at = "params" BY <1>1 DEF IsFrame
  <2> HIDE DEF f
  <2>3. IsFrame(f) BY <1>1, <2>1, <2>2 DEF IsFrame
  <2> QED BY <1>3, <2>1, <2>2, <2>3
<1>7. CASE InvokeBody
  <2> DEFINE f == [Top EXCEPT !.v = IF e.flow = "FL_RETURN" THEN e.ret ELSE value]
             h == [f EXCEPT !.at = "drained"]
  <2>1. Top.fn = "invoke_user" /\ Top.at = "body" BY <1>7 DEF InvokeBody, On
  <2>2. /\ DOMAIN h = DOMAIN Top /\ h.fn = Top.fn /\ h.at = "drained" /\ h.own = Top.own
        /\ h.saved = Top.saved /\ h.mark = Top.mark /\ h.prev = Top.prev /\ h.deep = Top.deep
        /\ f.mark = Top.mark
    BY <1>1 DEF IsFrame
  <2>3. Drains(f, Calm) /\ h = [f EXCEPT !.at = "drained"] BY <1>7 DEF InvokeBody
  <2> HIDE DEF f, h
  <2>4. Holds(h) BY <2>1, <2>2, HoldsIf DEF Trying, Scope
  <2>5. Window(h) BY <2>1, <2>2 DEF Window, Scope
  <2> QED BY <2>2, <2>3, <2>4, <2>5, DrainsKeep, SameExec DEF FollowInv
<1>8. CASE InvokeDrained
  <2>1. Scope(Top) /\ Window(Top) BY <1>8 DEF InvokeDrained, On, Scope, Window
  <2>2. Returns([Drained EXCEPT !.cur = Top.saved], Top.v) BY <1>8 DEF InvokeDrained
  <2>3. /\ IsExec(Drained) /\ Len(Drained.defers) = Top.mark
        /\ Drained.catch_ = e.catch_ /\ Drained.depth = e.depth
    BY <2>1, DrainedIs
  <2> QED BY <2>1, <2>2, <2>3, ScopeEnds
<1> QED BY <1>4, <1>5, <1>6, <1>7, <1>8

(* exec_run *)
LEMMA RunsKeep ==
  ASSUME Sound, RunItem \/ RunMain \/ RunNoMain \/ RunEnd \/ StrayChild
  PROVE  FollowInv'
<1>1. IsFrame(Top) /\ IsExec(e) BY Parts
<1>2. ASSUME NEW code, Done(code) PROVE FollowInv'
  <2>1. outcome' = [code |-> code, msg |-> "done"] BY <1>2 DEF Done
  <2>2. outcome'.msg = "done" /\ Running.msg = "running" BY <2>1 DEF Running
  <2>3. outcome' # Running BY <2>2
  <2> QED BY <2>3 DEF FollowInv, Over
<1>3. CASE RunItem
  <2> DEFINE f == [Top EXCEPT !.i = @ + 1]
  <2>1. Top.fn = "exec_run" /\ Top.at = "enter" BY <1>3 DEF RunItem, On
  <2>2. /\ DOMAIN f = DOMAIN Top /\ f.fn = Top.fn /\ f.at = Top.at /\ f.own = Top.own
        /\ f.saved = Top.saved /\ f.mark = Top.mark /\ f.prev = Top.prev /\ f.deep = Top.deep
    BY <1>1 DEF IsFrame
  <2>3. \/ Becomes(f, e)
        \/ \E st : Becomes(f, WithStruct(st))
        \/ \E st : Calls(f, e, "exec_stmt", st)
    BY <1>3, Zenon DEF RunItem, RunsOne, NextItem
  <2> HIDE DEF f
  <2>4. Holds(f) BY <2>1, <2>2, HoldsIf DEF Trying, Scope
  <2>5. \A st : Same(WithStruct(st))
    <3> SUFFICES ASSUME NEW st PROVE Same(WithStruct(st)) OBVIOUS
    <3> DEFINE x == [e EXCEPT !.styp = Append(@, st)]
    <3>1. /\ DOMAIN x = DOMAIN e /\ x.cur = e.cur /\ x.catch_ = e.catch_
          /\ x.depth = e.depth /\ x.defers = e.defers
      BY <1>1 DEF IsExec
    <3>2. WithStruct(st) = x \/ WithStruct(st) = e BY DEF WithStruct
    <3> HIDE DEF x
    <3>3. Same(x) BY <1>1, <3>1 DEF Same, IsExec
    <3> QED BY <3>2, <3>3, SameExec
  <2> QED BY <2>3, <2>4, <2>5, Stays, CallsKeep, SameExec DEF FollowInv
<1>4. CASE RunMain
  <2> DEFINE f == [Top EXCEPT !.at = "main"]
  <2>1. Top.fn = "exec_run" BY <1>4 DEF RunMain, On
  <2>2. /\ DOMAIN f = DOMAIN Top /\ f.fn = Top.fn /\ f.at = "main" /\ f.own = Top.own
        /\ f.saved = Top.saved /\ f.mark = Top.mark /\ f.prev = Top.prev /\ f.deep = Top.deep
    BY <1>1 DEF IsFrame
  <2>3. Calls(f, e, "invoke_user", At(MainPlace)) BY <1>4 DEF RunMain
  <2> HIDE DEF f
  <2>4. Holds(f) BY <2>1, <2>2, HoldsIf DEF Trying, Scope
  <2> QED BY <2>3, <2>4, CallsKeep, SameExec DEF FollowInv
<1>5. CASE RunNoMain \/ RunEnd BY <1>2, <1>5 DEF RunNoMain, RunEnd
<1>6. CASE StrayChild BY <1>6, Ended DEF StrayChild
<1> QED BY <1>3, <1>4, <1>5, <1>6
-----------------------------------------------------------------------------
LEMMA FollowInit == Init => FollowInv
<1> SUFFICES ASSUME Init PROVE Sound BY DEF FollowInv
<1> DEFINE f == Frame("exec_run", [k |-> "N_FILE", ch |-> program])
           n == Len(stack)
<1>1. /\ stack = <<f>> /\ e.catch_ = 0 /\ e.cur = Global /\ e.depth = 0 /\ e.defers = <<>>
      /\ DOMAIN e = {"cur", "flow", "label", "ret", "catch_", "defers", "depth", "styp"}
  BY DEF Init
<1>2. f.fn = "exec_run" /\ f.at = "enter" BY DEF Frame
<1>3. IsFrame(f) BY Fresh
<1> HIDE DEF f
<1>4. IsSeq(stack) /\ n = 1 /\ stack[1] = f /\ stack # <<>>
  <2>1. <<f>> \in Seq({f}) /\ <<f>>[1] = f BY <1>1
  <2>2. Len(<<f>>) = 1 OBVIOUS
  <2> QED BY <1>1, <2>1, <2>2, SeqHasRange
<1>5. IsSeq(e.defers) /\ Len(e.defers) = 0
  <2>1. <<>> \in Seq({}) OBVIOUS
  <2> QED BY <1>1, <2>1, SeqHasRange
<1> HIDE DEF n
<1>6. ~Trying(f) /\ ~Scope(f) /\ ~Crossing(f) /\ ~Window(f)
  BY <1>2 DEF Trying, Scope, Crossing, Window
<1>7. /\ Regions(stack, 1) = {} /\ Scopes(stack, 1) = {}
      /\ Crossings(stack, 1) = {} /\ Windows(stack, 1) = {}
  BY <1>4, <1>6 DEF Regions, Scopes, Crossings, Windows
<1>8. Fitted(stack, 1)
  <2>1. Fits(stack, 1) BY <1>4, <1>6 DEF Fits
  <2>2. \A k \in 1 .. 1 : k = 1 OBVIOUS
  <2> QED BY <1>3, <1>4, <2>1, <2>2 DEF Fitted
<1>9. Level(stack, 1, 0, Global, 0)
  <2>1. Latest({}, 0) BY DEF Latest
  <2>2. Current(stack, 1, Global)
    <3>1. 0 \in 0 .. 1 OBVIOUS
    <3> QED BY <1>7, <2>1, <3>1 DEF Current
  <2>3. Cardinality(Crossings(stack, 1)) = 0 BY <1>7, FS_EmptySet
  <2> QED BY <1>7, <2>1, <2>2, <2>3 DEF Level
<1>10. Marked(stack, 1, 0) BY <1>7 DEF Marked
<1>11. Linked(stack, 0, Global, 0, 0) BY <1>4, <1>8, <1>9, <1>10 DEF Linked, n
<1> QED BY <1>1, <1>2, <1>4, <1>5, <1>11 DEF Sound, IsExec

(* No step is taken once exec_run has returned. *)
LEMMA StepsRun == Next => outcome = Running
<1> SUFFICES ASSUME Next PROVE outcome = Running OBVIOUS
<1>1. /\ \A fn, at : On(fn, at) => outcome = Running
      /\ \A k, at : Expr(k, at) => outcome = Running
      /\ \A k, at : Stmt(k, at) => outcome = Running
      /\ \A k : Ready(k) => outcome = Running
      /\ \A fn : Builds(fn) => outcome = Running
      /\ Collecting => outcome = Running
  BY DEF On, Expr, Stmt, Ready, Builds, Collecting
<1>2. CASE \/ Enter \/ EvalLit \/ EvalName \/ EvalPart \/ TakePart \/ PartMisfits
           \/ EvalBin \/ EvalUnary \/ EvalMember \/ EvalIndex \/ EvalSlice \/ EvalInit
  BY <1>1, <1>2, Zenon
  DEF Enter, EvalLit, EvalName, EvalPart, TakePart, PartMisfits,
      EvalBin, EvalUnary, EvalMember, EvalIndex, EvalSlice, EvalInit
<1>3. CASE \/ InitValue \/ ArrBuild \/ RecBuild \/ CallPrint \/ CallFrom
           \/ CallUser \/ CallOther \/ EvalOut \/ EvalUnwrap \/ EvalIs \/ EvalFunc
  BY <1>1, <1>3, Zenon
  DEF InitValue, ArrBuild, RecBuild, CallPrint, CallFrom,
      CallUser, CallOther, EvalOut, EvalUnwrap, EvalIs, EvalFunc
<1>4. CASE \/ StmtBlock \/ StmtList \/ StmtEval \/ StmtExpr \/ StmtVar \/ VarValue
           \/ LvalueName \/ LvalueMember \/ LvalueIndex \/ LvalueOther
           \/ StmtAssign \/ AssignCell \/ AssignValue \/ StmtSwap \/ SwapCell \/ SwapValue
  BY <1>1, <1>4, Zenon
  DEF StmtBlock, StmtList, StmtEval, StmtExpr, StmtVar, VarValue,
      LvalueName, LvalueMember, LvalueIndex, LvalueOther,
      StmtAssign, AssignCell, AssignValue, StmtSwap, SwapCell, SwapValue
<1>5. CASE \/ StmtIf \/ StmtCheckIf \/ StmtOut
           \/ StmtLoop \/ CforInit \/ LoopCondition \/ LoopUntil \/ LoopPost \/ InValue
           \/ InNext \/ CheckInValue \/ LoopBody \/ MatchSubject \/ MatchArm \/ MatchGuard
  BY <1>1, <1>5, Zenon
  DEF StmtIf, StmtCheckIf, StmtOut,
      StmtLoop, CforInit, LoopCondition, LoopUntil, LoopPost, InValue,
      InNext, CheckInValue, LoopBody, MatchSubject, MatchArm, MatchGuard
<1>6. CASE \/ StmtTry \/ StmtDefer \/ StmtReturn \/ ReturnValue \/ StmtTransfer \/ StmtLabel
           \/ LabelEnds \/ StmtOther
           \/ RunDeferred \/ BlockEnter \/ BlockRun \/ BlockDrained
           \/ StmtRegion \/ RegionEnter \/ RegionRun \/ RegionDrained \/ RegionHandlers
  BY <1>1, <1>6, Zenon
  DEF StmtTry, StmtDefer, StmtReturn, ReturnValue, StmtTransfer, StmtLabel,
      LabelEnds, StmtOther,
      RunDeferred, BlockEnter, BlockRun, BlockDrained,
      StmtRegion, RegionEnter, RegionRun, RegionDrained, RegionHandlers
<1>7. CASE \/ InvokeEnter \/ InvokeParams \/ InvokeDefault \/ InvokeCall
           \/ InvokeBody \/ InvokeDrained \/ RunItem \/ RunMain \/ RunNoMain \/ RunEnd
  BY <1>1, <1>7, Zenon
  DEF InvokeEnter, InvokeParams, InvokeDefault, InvokeCall,
      InvokeBody, InvokeDrained, RunItem, RunMain, RunNoMain, RunEnd
<1>8. CASE StrayChild BY <1>1, <1>8, Zenon DEF StrayChild, Beyond
<1> QED BY <1>2, <1>3, <1>4, <1>5, <1>6, <1>7, <1>8, Zenon DEF Next

LEMMA FollowNext == FollowInv /\ [Next]_vars => FollowInv'
<1> SUFFICES ASSUME FollowInv, [Next]_vars PROVE FollowInv' OBVIOUS
<1>1. CASE Next
  <2>1. Sound BY <1>1, StepsRun DEF FollowInv, Over
  <2>2. CASE \/ Enter \/ EvalPart \/ TakePart \/ PartMisfits \/ EvalUnwrap \/ CallUser
             \/ InitValue \/ ArrBuild \/ RecBuild
             \/ LvalueName \/ LvalueMember \/ LvalueIndex \/ LvalueOther
    BY <2>1, <2>2, EnterKeeps, PartsKeep, UnwrapKeeps, CallUserKeeps, BuildersKeep, Zenon
  <2>3. CASE \/ EvalLit \/ EvalName \/ EvalBin \/ EvalUnary \/ EvalMember \/ EvalIndex
             \/ EvalSlice \/ CallPrint \/ CallFrom \/ CallOther \/ EvalOut \/ EvalIs \/ EvalFunc
    BY <2>1, <2>3, ExpressionsEnd, Zenon
  <2>4. CASE \/ StmtList \/ StmtEval \/ StmtExpr \/ StmtVar \/ VarValue \/ StmtOut \/ StmtIf
             \/ StmtCheckIf \/ StmtTry \/ StmtReturn \/ ReturnValue \/ StmtTransfer \/ StmtLabel
             \/ LabelEnds \/ StmtOther \/ StmtBlock \/ StmtRegion \/ EvalInit
    BY <2>1, <2>4, StatementsKeep, Zenon
  <2>5. CASE \/ StmtAssign \/ AssignCell \/ AssignValue \/ StmtSwap \/ SwapCell \/ SwapValue
             \/ StmtDefer
    BY <2>1, <2>5, AssignmentsKeep, Zenon
  <2>6. CASE \/ StmtLoop \/ CforInit \/ LoopCondition \/ LoopUntil \/ LoopPost \/ InValue
             \/ InNext \/ CheckInValue
    BY <2>1, <2>6, LoopStarts, Zenon
  <2>7. CASE LoopBody \/ MatchSubject \/ MatchArm \/ MatchGuard
    BY <2>1, <2>7, LoopBodyKeeps, MatchKeeps, Zenon
  <2>8. CASE \/ RunDeferred \/ BlockEnter \/ BlockRun \/ BlockDrained
             \/ RegionEnter \/ RegionRun \/ RegionDrained \/ RegionHandlers
    BY <2>1, <2>8, RunDeferredKeeps, BlocksKeep, RegionsKeep, Zenon
  <2>9. CASE \/ InvokeEnter \/ InvokeParams \/ InvokeDefault \/ InvokeBody \/ InvokeDrained
             \/ InvokeCall
    BY <2>1, <2>9, InvokesKeep, InvokeCallKeeps, Zenon
  <2>10. CASE RunItem \/ RunMain \/ RunNoMain \/ RunEnd \/ StrayChild
    BY <2>1, <2>10, RunsKeep, Zenon
  <2> QED
    BY <1>1, <2>2, <2>3, <2>4, <2>5, <2>6, <2>7, <2>8, <2>9, <2>10, Zenon DEF Next
<1>2. CASE UNCHANGED vars
  BY <1>2
  DEF vars, FollowInv, Over, Sound, Linked, Fitted, Fits, Level, Current, Marked,
      Regions, Scopes, Crossings, Windows
<1> QED BY <1>1, <1>2

(* What the frames say, in the words of the property. *)
LEMMA NewestIs ==
  ASSUME NEW k \in Nat, NEW P \in SUBSET (1 .. k), NEW c, Latest(P, c)
  PROVE  Newest(P) = c
<1>1. c \in {0} \cup P /\ c \in 0 .. k
  <2>1. CASE P = {} BY <2>1 DEF Latest
  <2>2. CASE P # {}
    <3>1. c \in P BY <2>2, Zenon DEF Latest
    <3> QED BY <3>1
  <2> QED BY <2>1, <2>2
<1>2. \A y \in {0} \cup P : y \in Int /\ c >= y
  <2> TAKE y \in {0} \cup P
  <2>1. CASE y \in P BY <1>1, <2>1 DEF Latest
  <2>2. CASE y = 0 BY <1>1, <2>2
  <2> QED BY <2>1, <2>2
<1>3. \A x \in {0} \cup P : (\A y \in {0} \cup P : x >= y) => x = c BY <1>1, <1>2
<1> QED BY <1>1, <1>2, <1>3 DEF Newest, Max

LEMMA FollowShows == FollowInv => FieldsFollowTheStack
<1> SUFFICES ASSUME Sound PROVE
      /\ e.catch_ = Newest(Places(Trying))
      /\ \A k \in Places(Trying) : stack[k].prev = Newest({j \in Places(Trying) : j < k})
      /\ e.cur = IF Places(Scope) = {} THEN Global ELSE stack[Newest(Places(Scope))].own
      /\ e.depth = Cardinality(Places(Crossing))
      /\ \A k \in Places(Window) :
           /\ stack[k].mark <= Len(e.defers)
           /\ \A j \in Places(Window) : j < k => stack[j].mark <= stack[k].mark
  BY DEF FollowInv, FieldsFollowTheStack
<1> DEFINE n == Len(stack)
<1>1. /\ n \in Nat /\ DOMAIN stack = 1 .. n /\ Fitted(stack, n)
      /\ Level(stack, n, e.catch_, e.cur, e.depth) /\ Marked(stack, n, Len(e.defers))
  <2>1. IsSeq(stack) /\ Linked(stack, e.catch_, e.cur, e.depth, Len(e.defers)) BY Parts
  <2>2. n \in Nat /\ DOMAIN stack = 1 .. n BY <2>1 DEF IsSeq
  <2> QED BY <2>1, <2>2 DEF Linked
<1> HIDE DEF n
<1>2. /\ Places(Trying) = Regions(stack, n) /\ Places(Scope) = Scopes(stack, n)
      /\ Places(Crossing) = Crossings(stack, n) /\ Places(Window) = Windows(stack, n)
  BY <1>1 DEF Places, Regions, Scopes, Crossings, Windows
<1>3. e.catch_ = Newest(Places(Trying))
  <2>1. Regions(stack, n) \in SUBSET (1 .. n) BY DEF Regions
  <2> QED BY <1>1, <1>2, <2>1, NewestIs DEF Level
<1>4. ASSUME NEW k \in Places(Trying)
      PROVE  stack[k].prev = Newest({j \in Places(Trying) : j < k})
  <2>1. k \in 1 .. n /\ Trying(stack[k]) BY <1>2 DEF Regions
  <2>2. Latest(Regions(stack, k - 1), stack[k].prev)
    BY <1>1, <2>1 DEF Fitted, Fits, Level
  <2>3. {j \in Places(Trying) : j < k} = Regions(stack, k - 1)
    BY <1>1, <1>2, <2>1 DEF Regions
  <2>4. Regions(stack, k - 1) \in SUBSET (1 .. k - 1) /\ k - 1 \in Nat
    BY <1>1, <2>1 DEF Regions
  <2> QED BY <2>2, <2>3, <2>4, NewestIs
<1>5. e.cur = IF Places(Scope) = {} THEN Global ELSE stack[Newest(Places(Scope))].own
  <2>1. PICK p \in 0 .. n : /\ Latest(Scopes(stack, n), p)
                            /\ e.cur = IF p = 0 THEN Global ELSE stack[p].own
    BY <1>1 DEF Level, Current
  <2>2. Scopes(stack, n) \in SUBSET (1 .. n) BY DEF Scopes
  <2>3. Newest(Scopes(stack, n)) = p BY <1>1, <2>1, <2>2, NewestIs
  <2>4. Scopes(stack, n) = {} <=> p = 0 BY <1>1, <2>1, <2>2 DEF Latest
  <2> QED BY <1>2, <2>1, <2>3, <2>4
<1>6. e.depth = Cardinality(Places(Crossing)) BY <1>1, <1>2 DEF Level
<1>7. ASSUME NEW k \in Places(Window)
      PROVE  /\ stack[k].mark <= Len(e.defers)
             /\ \A j \in Places(Window) : j < k => stack[j].mark <= stack[k].mark
  <2>1. k \in 1 .. n /\ Window(stack[k]) BY <1>2 DEF Windows
  <2>2. stack[k].mark <= Len(e.defers) BY <1>1, <1>2 DEF Marked
  <2>3. Marked(stack, k - 1, stack[k].mark) BY <1>1, <2>1 DEF Fitted, Fits
  <2>4. \A j \in Places(Window) : j < k => j \in Windows(stack, k - 1)
    BY <1>1, <1>2, <2>1 DEF Windows
  <2> QED BY <2>2, <2>3, <2>4 DEF Marked
<1> QED BY <1>3, <1>4, <1>5, <1>6, <1>7

(* Always, until exec_run returns: catch_ is the innermost guarded region  *)
(* whose try part runs, cur the environment of the innermost block or call *)
(* that runs, depth the number of calls of eval and exec_stmt under way,   *)
(* and the marks of the deferred statements grow with the stack, also when *)
(* a longjmp leaves many functions at once.  Each of those functions puts  *)
(* back only what it saved itself, and none that a longjmp leaves puts     *)
(* anything back (exec.c:81-93, 1705-1711). *)
THEOREM FieldsFollow == Spec => []FieldsFollowTheStack
BY FollowInit, FollowNext, FollowShows, PTL DEF Spec
=============================================================================
