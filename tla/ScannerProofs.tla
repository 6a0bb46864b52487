--------------------------- MODULE ScannerProofs ---------------------------
(***************************************************************************)
(* What module Scanner promises, for every text, every list of reserved    *)
(* words and every size of the blocks and of the buffer.                   *)
(*                                                                         *)
(* The proof has four parts: the token table (the search of tokens.c finds *)
(* what is in it), the lines and columns of a text (two places of it never *)
(* have the same), the reader (it gives one character after the other,     *)
(* across the blocks and after one was given back), and the invariant of   *)
(* the scanner: where the reader is, where the token it is in has started  *)
(* and what of it is in the buffer.                                        *)
(***************************************************************************)
EXTENDS Scanner, FiniteSetTheorems, NaturalsInduction, SequenceTheorems, WellFoundedInduction,
        TLAPS

(* The characters of the operators, and what an operator looks like. *)
Puncts ==
  {NL, "!", "=", "#", "%", "&", "(", ")", "*", "+",
   "-", ">", ".", "<", "/", ":", Semicolon, "~", "?", "[",
   "]", "^", Space, Open, "|", Close}

Entry(w) ==
  /\ w \in Seq(Puncts) /\ w # <<>>
  /\ \A i \in 1 .. Len(w) : w[i] = NL => w = <<NL>>

LEMMA NoNewlines == NL \notin {Space, Semicolon, Open, Close}
  BY Zenon DEF NL, Space, Semicolon, Open, Close

LEMMA BeforeWordsEntries ==
  /\ Len(BeforeWords) = 54
  /\ \A k \in 1 .. 54 : Entry(BeforeWords[k])
<1>0. \A k \in 1 .. 54 :
        \/ k = 1 \/ k = 2 \/ k = 3 \/ k = 4 \/ k = 5 \/ k = 6 \/ k = 7 \/ k = 8
        \/ k = 9 \/ k = 10 \/ k = 11 \/ k = 12 \/ k = 13 \/ k = 14 \/ k = 15 \/ k = 16
        \/ k = 17 \/ k = 18 \/ k = 19 \/ k = 20 \/ k = 21 \/ k = 22 \/ k = 23 \/ k = 24
        \/ k = 25 \/ k = 26 \/ k = 27 \/ k = 28 \/ k = 29 \/ k = 30 \/ k = 31 \/ k = 32
        \/ k = 33 \/ k = 34 \/ k = 35 \/ k = 36 \/ k = 37 \/ k = 38 \/ k = 39 \/ k = 40
        \/ k = 41 \/ k = 42 \/ k = 43 \/ k = 44 \/ k = 45 \/ k = 46 \/ k = 47 \/ k = 48
        \/ k = 49 \/ k = 50 \/ k = 51 \/ k = 52 \/ k = 53 \/ k = 54
  OBVIOUS
<1>1. Entry(BeforeWords[1]) BY DEF BeforeWords, Entry, Puncts, NL
<1>2. Entry(BeforeWords[2]) BY DEF BeforeWords, Entry, Puncts, NL
<1>3. Entry(BeforeWords[3]) BY DEF BeforeWords, Entry, Puncts, NL
<1>4. Entry(BeforeWords[4]) BY DEF BeforeWords, Entry, Puncts, NL
<1>5. Entry(BeforeWords[5]) BY DEF BeforeWords, Entry, Puncts, NL
<1>6. Entry(BeforeWords[6]) BY DEF BeforeWords, Entry, Puncts, NL
<1>7. Entry(BeforeWords[7]) BY DEF BeforeWords, Entry, Puncts, NL
<1>8. Entry(BeforeWords[8]) BY DEF BeforeWords, Entry, Puncts, NL
<1>9. Entry(BeforeWords[9]) BY DEF BeforeWords, Entry, Puncts, NL
<1>10. Entry(BeforeWords[10]) BY DEF BeforeWords, Entry, Puncts, NL
<1>11. Entry(BeforeWords[11]) BY DEF BeforeWords, Entry, Puncts, NL
<1>12. Entry(BeforeWords[12]) BY DEF BeforeWords, Entry, Puncts, NL
<1>13. Entry(BeforeWords[13]) BY DEF BeforeWords, Entry, Puncts, NL
<1>14. Entry(BeforeWords[14]) BY DEF BeforeWords, Entry, Puncts, NL
<1>15. Entry(BeforeWords[15]) BY DEF BeforeWords, Entry, Puncts, NL
<1>16. Entry(BeforeWords[16]) BY DEF BeforeWords, Entry, Puncts, NL
<1>17. Entry(BeforeWords[17]) BY DEF BeforeWords, Entry, Puncts, NL
<1>18. Entry(BeforeWords[18]) BY DEF BeforeWords, Entry, Puncts, NL
<1>19. Entry(BeforeWords[19]) BY DEF BeforeWords, Entry, Puncts, NL
<1>20. Entry(BeforeWords[20]) BY DEF BeforeWords, Entry, Puncts, NL
<1>21. Entry(BeforeWords[21]) BY DEF BeforeWords, Entry, Puncts, NL
<1>22. Entry(BeforeWords[22]) BY DEF BeforeWords, Entry, Puncts, NL
<1>23. Entry(BeforeWords[23]) BY DEF BeforeWords, Entry, Puncts, NL
<1>24. Entry(BeforeWords[24]) BY DEF BeforeWords, Entry, Puncts, NL
<1>25. Entry(BeforeWords[25]) BY DEF BeforeWords, Entry, Puncts, NL
<1>26. Entry(BeforeWords[26]) BY DEF BeforeWords, Entry, Puncts, NL
<1>27. Entry(BeforeWords[27]) BY DEF BeforeWords, Entry, Puncts, NL
<1>28. Entry(BeforeWords[28]) BY DEF BeforeWords, Entry, Puncts, NL
<1>29. Entry(BeforeWords[29]) BY DEF BeforeWords, Entry, Puncts, NL
<1>30. Entry(BeforeWords[30])
  <2>1. BeforeWords[30] = <<Semicolon>> BY DEF BeforeWords
  <2> QED BY <2>1, NoNewlines DEF Entry, Puncts
<1>31. Entry(BeforeWords[31]) BY DEF BeforeWords, Entry, Puncts, NL
<1>32. Entry(BeforeWords[32]) BY DEF BeforeWords, Entry, Puncts, NL
<1>33. Entry(BeforeWords[33]) BY DEF BeforeWords, Entry, Puncts, NL
<1>34. Entry(BeforeWords[34]) BY DEF BeforeWords, Entry, Puncts, NL
<1>35. Entry(BeforeWords[35]) BY DEF BeforeWords, Entry, Puncts, NL
<1>36. Entry(BeforeWords[36]) BY DEF BeforeWords, Entry, Puncts, NL
<1>37. Entry(BeforeWords[37]) BY DEF BeforeWords, Entry, Puncts, NL
<1>38. Entry(BeforeWords[38]) BY DEF BeforeWords, Entry, Puncts, NL
<1>39. Entry(BeforeWords[39]) BY DEF BeforeWords, Entry, Puncts, NL
<1>40. Entry(BeforeWords[40]) BY DEF BeforeWords, Entry, Puncts, NL
<1>41. Entry(BeforeWords[41]) BY DEF BeforeWords, Entry, Puncts, NL
<1>42. Entry(BeforeWords[42]) BY DEF BeforeWords, Entry, Puncts, NL
<1>43. Entry(BeforeWords[43]) BY DEF BeforeWords, Entry, Puncts, NL
<1>44. Entry(BeforeWords[44]) BY DEF BeforeWords, Entry, Puncts, NL
<1>45. Entry(BeforeWords[45]) BY DEF BeforeWords, Entry, Puncts, NL
<1>46. Entry(BeforeWords[46]) BY DEF BeforeWords, Entry, Puncts, NL
<1>47. Entry(BeforeWords[47]) BY DEF BeforeWords, Entry, Puncts, NL
<1>48. Entry(BeforeWords[48]) BY DEF BeforeWords, Entry, Puncts, NL
<1>49. Entry(BeforeWords[49]) BY DEF BeforeWords, Entry, Puncts, NL
<1>50. Entry(BeforeWords[50]) BY DEF BeforeWords, Entry, Puncts, NL
<1>51. Entry(BeforeWords[51]) BY DEF BeforeWords, Entry, Puncts, NL
<1>52. Entry(BeforeWords[52]) BY DEF BeforeWords, Entry, Puncts, NL
<1>53. Entry(BeforeWords[53]) BY DEF BeforeWords, Entry, Puncts, NL
<1>54. Entry(BeforeWords[54])
  <2>1. BeforeWords[54] = <<Space>> BY DEF BeforeWords
  <2> QED BY <2>1, NoNewlines DEF Entry, Puncts
<1>55. Len(BeforeWords) = 54 BY DEF BeforeWords
<1> QED
  BY <1>0, <1>1, <1>2, <1>3, <1>4, <1>5, <1>6, <1>7, <1>8, <1>9,
     <1>10, <1>11, <1>12, <1>13, <1>14, <1>15, <1>16, <1>17, <1>18, <1>19,
     <1>20, <1>21, <1>22, <1>23, <1>24, <1>25, <1>26, <1>27, <1>28, <1>29,
     <1>30, <1>31, <1>32, <1>33, <1>34, <1>35, <1>36, <1>37, <1>38, <1>39,
     <1>40, <1>41, <1>42, <1>43, <1>44, <1>45, <1>46, <1>47, <1>48, <1>49,
     <1>50, <1>51, <1>52, <1>53, <1>54, <1>55

LEMMA BehindWordsEntries ==
  /\ Len(BehindWords) = 6
  /\ \A k \in 1 .. 6 : Entry(BehindWords[k])
<1>0. \A k \in 1 .. 6 :
        \/ k = 1 \/ k = 2 \/ k = 3 \/ k = 4 \/ k = 5 \/ k = 6
  OBVIOUS
<1>1. Entry(BehindWords[1])
  <2>1. BehindWords[1] = <<Open>> BY DEF BehindWords
  <2> QED BY <2>1, NoNewlines DEF Entry, Puncts
<1>2. Entry(BehindWords[2]) BY DEF BehindWords, Entry, Puncts, NL
<1>3. Entry(BehindWords[3]) BY DEF BehindWords, Entry, Puncts, NL
<1>4. Entry(BehindWords[4]) BY DEF BehindWords, Entry, Puncts, NL
<1>5. Entry(BehindWords[5])
  <2>1. BehindWords[5] = <<Close>> BY DEF BehindWords
  <2> QED BY <2>1, NoNewlines DEF Entry, Puncts
<1>6. Entry(BehindWords[6]) BY DEF BehindWords, Entry, Puncts, NL
<1>7. Len(BehindWords) = 6 BY DEF BehindWords
<1> QED
  BY <1>0, <1>1, <1>2, <1>3, <1>4, <1>5, <1>6, <1>7

LEMMA FirstHeads ==
  /\ BeforeWords[1][1] = NL /\ BeforeWords[2][1] = "!"
  /\ BeforeWords[3][1] = "!" /\ BeforeWords[4][1] = "#"
  /\ BeforeWords[5][1] = "%" /\ BeforeWords[6][1] = "%"
  /\ BeforeWords[7][1] = "&" /\ BeforeWords[8][1] = "&"
  /\ BeforeWords[9][1] = "&" /\ BeforeWords[10][1] = "("
  /\ BeforeWords[11][1] = ")" /\ BeforeWords[12][1] = "*"
  /\ BeforeWords[13][1] = "*" /\ BeforeWords[14][1] = "+"
  /\ BeforeWords[15][1] = "+" /\ BeforeWords[16][1] = "+"
  /\ BeforeWords[17][1] = "-" /\ BeforeWords[18][1] = "-"
  /\ BeforeWords[19][1] = "-" /\ BeforeWords[20][1] = "-"
  BY DEF BeforeWords

LEMMA FirstSorted ==
  /\ \A k \in 1 .. 20 : BeforeWords[k][1] \in {NL, "!", "#", "%", "&", "(", ")", "*", "+", "-"}
  /\ \A j, k \in 1 .. 20 :
       j < k /\ BeforeWords[j][1] = BeforeWords[k][1] => Len(BeforeWords[j]) >= Len(BeforeWords[k])
<1>1. \A k \in 1 .. 20 :
        \/ k = 1 \/ k = 2 \/ k = 3 \/ k = 4 \/ k = 5 \/ k = 6 \/ k = 7 \/ k = 8
        \/ k = 9 \/ k = 10 \/ k = 11 \/ k = 12 \/ k = 13 \/ k = 14 \/ k = 15 \/ k = 16
        \/ k = 17 \/ k = 18 \/ k = 19 \/ k = 20
  OBVIOUS
<1> DEFINE len(k) == Len(BeforeWords[k])
<1>2. \A k \in 1 .. 20 : BeforeWords[k][1] \in {NL, "!", "#", "%", "&", "(", ")", "*", "+", "-"}
  BY <1>1, FirstHeads
<1>3. \A k \in 1 .. 20 : BeforeWords[k][1] = NL => k = 1
  BY <1>1, FirstHeads DEF NL
<1>4. \A k \in 1 .. 20 : BeforeWords[k][1] = "!" => k \in 2 .. 3
  BY <1>1, FirstHeads DEF NL
<1>5. \A j, k \in 2 .. 3 : j < k => len(j) >= len(k)
  <2>1. len(2) = 2 /\ len(3) = 1
    BY DEF BeforeWords
  <2> HIDE DEF len
  <2> QED BY <2>1
<1>6. \A k \in 1 .. 20 : BeforeWords[k][1] = "#" => k = 4
  BY <1>1, FirstHeads DEF NL
<1>7. \A k \in 1 .. 20 : BeforeWords[k][1] = "%" => k \in 5 .. 6
  BY <1>1, FirstHeads DEF NL
<1>8. \A j, k \in 5 .. 6 : j < k => len(j) >= len(k)
  <2>1. len(5) = 2 /\ len(6) = 1
    BY DEF BeforeWords
  <2> HIDE DEF len
  <2> QED BY <2>1
<1>9. \A k \in 1 .. 20 : BeforeWords[k][1] = "&" => k \in 7 .. 9
  BY <1>1, FirstHeads DEF NL
<1>10. \A j, k \in 7 .. 9 : j < k => len(j) >= len(k)
  <2>1. len(7) = 2 /\ len(8) = 2 /\ len(9) = 1
    BY DEF BeforeWords
  <2> HIDE DEF len
  <2> QED BY <2>1
<1>11. \A k \in 1 .. 20 : BeforeWords[k][1] = "(" => k = 10
  BY <1>1, FirstHeads DEF NL
<1>12. \A k \in 1 .. 20 : BeforeWords[k][1] = ")" => k = 11
  BY <1>1, FirstHeads DEF NL
<1>13. \A k \in 1 .. 20 : BeforeWords[k][1] = "*" => k \in 12 .. 13
  BY <1>1, FirstHeads DEF NL
<1>14. \A j, k \in 12 .. 13 : j < k => len(j) >= len(k)
  <2>1. len(12) = 2 /\ len(13) = 1
    BY DEF BeforeWords
  <2> HIDE DEF len
  <2> QED BY <2>1
<1>15. \A k \in 1 .. 20 : BeforeWords[k][1] = "+" => k \in 14 .. 16
  BY <1>1, FirstHeads DEF NL
<1>16. \A j, k \in 14 .. 16 : j < k => len(j) >= len(k)
  <2>1. len(14) = 2 /\ len(15) = 2 /\ len(16) = 1
    BY DEF BeforeWords
  <2> HIDE DEF len
  <2> QED BY <2>1
<1>17. \A k \in 1 .. 20 : BeforeWords[k][1] = "-" => k \in 17 .. 20
  BY <1>1, FirstHeads DEF NL
<1>18. \A j, k \in 17 .. 20 : j < k => len(j) >= len(k)
  <2>1. len(17) = 2 /\ len(18) = 2 /\ len(19) = 2 /\ len(20) = 1
    BY DEF BeforeWords
  <2> HIDE DEF len
  <2> QED BY <2>1
<1>19. \A j, k \in 1 .. 20 :
        j < k /\ BeforeWords[j][1] = BeforeWords[k][1] => len(j) >= len(k)
  <2> HIDE DEF len
  <2> QED
    BY <1>2, <1>3, <1>4, <1>5, <1>6, <1>7, <1>8, <1>9, <1>10, <1>11, <1>12,
       <1>13, <1>14, <1>15, <1>16, <1>17, <1>18
<1> QED BY <1>2, <1>19

LEMMA SecondDiffer ==
  /\ Semicolon \notin {".", "/", ":", "<"}
  BY Zenon DEF Semicolon

LEMMA SecondHeads ==
  /\ BeforeWords[21][1] = "." /\ BeforeWords[22][1] = "."
  /\ BeforeWords[23][1] = "." /\ BeforeWords[24][1] = "/"
  /\ BeforeWords[25][1] = "/" /\ BeforeWords[26][1] = "/"
  /\ BeforeWords[27][1] = "/" /\ BeforeWords[28][1] = ":"
  /\ BeforeWords[29][1] = ":" /\ BeforeWords[30][1] = Semicolon
  /\ BeforeWords[31][1] = "<" /\ BeforeWords[32][1] = "<"
  /\ BeforeWords[33][1] = "<" /\ BeforeWords[34][1] = "<"
  /\ BeforeWords[35][1] = "<" /\ BeforeWords[36][1] = "<"
  /\ BeforeWords[37][1] = "<"
  BY DEF BeforeWords

LEMMA SecondSorted ==
  /\ \A k \in 21 .. 37 : BeforeWords[k][1] \in {".", "/", ":", Semicolon, "<"}
  /\ \A j, k \in 21 .. 37 :
       j < k /\ BeforeWords[j][1] = BeforeWords[k][1] => Len(BeforeWords[j]) >= Len(BeforeWords[k])
<1>1. \A k \in 21 .. 37 :
        \/ k = 21 \/ k = 22 \/ k = 23 \/ k = 24 \/ k = 25 \/ k = 26 \/ k = 27 \/ k = 28
        \/ k = 29 \/ k = 30 \/ k = 31 \/ k = 32 \/ k = 33 \/ k = 34 \/ k = 35 \/ k = 36
        \/ k = 37
  OBVIOUS
<1> DEFINE len(k) == Len(BeforeWords[k])
<1>2. \A k \in 21 .. 37 : BeforeWords[k][1] \in {".", "/", ":", Semicolon, "<"}
  BY <1>1, SecondHeads
<1>3. \A k \in 21 .. 37 : BeforeWords[k][1] = "." => k \in 21 .. 23
  BY <1>1, SecondHeads, SecondDiffer
<1>4. \A j, k \in 21 .. 23 : j < k => len(j) >= len(k)
  <2>1. len(21) = 3 /\ len(22) = 3 /\ len(23) = 1
    BY DEF BeforeWords
  <2> HIDE DEF len
  <2> QED BY <2>1
<1>5. \A k \in 21 .. 37 : BeforeWords[k][1] = "/" => k \in 24 .. 27
  BY <1>1, SecondHeads, SecondDiffer
<1>6. \A j, k \in 24 .. 27 : j < k => len(j) >= len(k)
  <2>1. len(24) = 2 /\ len(25) = 2 /\ len(26) = 2 /\ len(27) = 1
    BY DEF BeforeWords
  <2> HIDE DEF len
  <2> QED BY <2>1
<1>7. \A k \in 21 .. 37 : BeforeWords[k][1] = ":" => k \in 28 .. 29
  BY <1>1, SecondHeads, SecondDiffer
<1>8. \A j, k \in 28 .. 29 : j < k => len(j) >= len(k)
  <2>1. len(28) = 2 /\ len(29) = 1
    BY DEF BeforeWords
  <2> HIDE DEF len
  <2> QED BY <2>1
<1>9. \A k \in 21 .. 37 : BeforeWords[k][1] = Semicolon => k = 30
  BY <1>1, SecondHeads, SecondDiffer
<1>10. \A k \in 21 .. 37 : BeforeWords[k][1] = "<" => k \in 31 .. 37
  BY <1>1, SecondHeads, SecondDiffer
<1>11. \A j, k \in 31 .. 37 : j < k => len(j) >= len(k)
  <2>1. len(31) = 3 /\ len(32) = 3 /\ len(33) = 2 /\ len(34) = 2 /\ len(35) = 2 /\ len(36) = 2 /\ len(37) = 1
    BY DEF BeforeWords
  <2> HIDE DEF len
  <2> QED BY <2>1
<1>12. \A j, k \in 21 .. 37 :
        j < k /\ BeforeWords[j][1] = BeforeWords[k][1] => len(j) >= len(k)
  <2> HIDE DEF len
  <2> QED
    BY <1>2, <1>3, <1>4, <1>5, <1>6, <1>7, <1>8, <1>9, <1>10, <1>11
<1> QED BY <1>2, <1>12

LEMMA ThirdDiffer ==
  /\ Space \notin {"=", ">", "?", "[", "]", "^"}
  BY Zenon DEF Space

LEMMA ThirdHeads ==
  /\ BeforeWords[38][1] = "=" /\ BeforeWords[39][1] = "="
  /\ BeforeWords[40][1] = "=" /\ BeforeWords[41][1] = ">"
  /\ BeforeWords[42][1] = ">" /\ BeforeWords[43][1] = ">"
  /\ BeforeWords[44][1] = ">" /\ BeforeWords[45][1] = ">"
  /\ BeforeWords[46][1] = ">" /\ BeforeWords[47][1] = ">"
  /\ BeforeWords[48][1] = "?" /\ BeforeWords[49][1] = "?"
  /\ BeforeWords[50][1] = "[" /\ BeforeWords[51][1] = "]"
  /\ BeforeWords[52][1] = "^" /\ BeforeWords[53][1] = "^"
  /\ BeforeWords[54][1] = Space
  BY DEF BeforeWords

LEMMA ThirdSorted ==
  /\ \A k \in 38 .. 54 : BeforeWords[k][1] \in {"=", ">", "?", "[", "]", "^", Space}
  /\ \A j, k \in 38 .. 54 :
       j < k /\ BeforeWords[j][1] = BeforeWords[k][1] => Len(BeforeWords[j]) >= Len(BeforeWords[k])
<1>1. \A k \in 38 .. 54 :
        \/ k = 38 \/ k = 39 \/ k = 40 \/ k = 41 \/ k = 42 \/ k = 43 \/ k = 44 \/ k = 45
        \/ k = 46 \/ k = 47 \/ k = 48 \/ k = 49 \/ k = 50 \/ k = 51 \/ k = 52 \/ k = 53
        \/ k = 54
  OBVIOUS
<1> DEFINE len(k) == Len(BeforeWords[k])
<1>2. \A k \in 38 .. 54 : BeforeWords[k][1] \in {"=", ">", "?", "[", "]", "^", Space}
  BY <1>1, ThirdHeads
<1>3. \A k \in 38 .. 54 : BeforeWords[k][1] = "=" => k \in 38 .. 40
  BY <1>1, ThirdHeads, ThirdDiffer
<1>4. \A j, k \in 38 .. 40 : j < k => len(j) >= len(k)
  <2>1. len(38) = 2 /\ len(39) = 2 /\ len(40) = 1
    BY DEF BeforeWords
  <2> HIDE DEF len
  <2> QED BY <2>1
<1>5. \A k \in 38 .. 54 : BeforeWords[k][1] = ">" => k \in 41 .. 47
  BY <1>1, ThirdHeads, ThirdDiffer
<1>6. \A j, k \in 41 .. 47 : j < k => len(j) >= len(k)
  <2>1. len(41) = 4 /\ len(42) = 3 /\ len(43) = 3 /\ len(44) = 3 /\ len(45) = 2 /\ len(46) = 2 /\ len(47) = 1
    BY DEF BeforeWords
  <2> HIDE DEF len
  <2> QED BY <2>1
<1>7. \A k \in 38 .. 54 : BeforeWords[k][1] = "?" => k \in 48 .. 49
  BY <1>1, ThirdHeads, ThirdDiffer
<1>8. \A j, k \in 48 .. 49 : j < k => len(j) >= len(k)
  <2>1. len(48) = 2 /\ len(49) = 1
    BY DEF BeforeWords
  <2> HIDE DEF len
  <2> QED BY <2>1
<1>9. \A k \in 38 .. 54 : BeforeWords[k][1] = "[" => k = 50
  BY <1>1, ThirdHeads, ThirdDiffer
<1>10. \A k \in 38 .. 54 : BeforeWords[k][1] = "]" => k = 51
  BY <1>1, ThirdHeads, ThirdDiffer
<1>11. \A k \in 38 .. 54 : BeforeWords[k][1] = "^" => k \in 52 .. 53
  BY <1>1, ThirdHeads, ThirdDiffer
<1>12. \A j, k \in 52 .. 53 : j < k => len(j) >= len(k)
  <2>1. len(52) = 2 /\ len(53) = 1
    BY DEF BeforeWords
  <2> HIDE DEF len
  <2> QED BY <2>1
<1>13. \A k \in 38 .. 54 : BeforeWords[k][1] = Space => k = 54
  BY <1>1, ThirdHeads, ThirdDiffer
<1>14. \A j, k \in 38 .. 54 :
        j < k /\ BeforeWords[j][1] = BeforeWords[k][1] => len(j) >= len(k)
  <2> HIDE DEF len
  <2> QED
    BY <1>2, <1>3, <1>4, <1>5, <1>6, <1>7, <1>8, <1>9, <1>10, <1>11, <1>12,
       <1>13
<1> QED BY <1>2, <1>14

LEMMA LastDiffer ==
  /\ Open \notin {"|", "~"}
  /\ Close \notin {"|", "~", Open}
  BY Zenon DEF Open, Close

LEMMA LastHeads ==
  /\ BehindWords[1][1] = Open /\ BehindWords[2][1] = "|"
  /\ BehindWords[3][1] = "|" /\ BehindWords[4][1] = "|"
  /\ BehindWords[5][1] = Close /\ BehindWords[6][1] = "~"
  BY DEF BehindWords

LEMMA LastSorted ==
  /\ \A k \in 1 .. 6 : BehindWords[k][1] \in {Open, "|", Close, "~"}
  /\ \A j, k \in 1 .. 6 :
       j < k /\ BehindWords[j][1] = BehindWords[k][1] => Len(BehindWords[j]) >= Len(BehindWords[k])
<1>1. \A k \in 1 .. 6 :
        \/ k = 1 \/ k = 2 \/ k = 3 \/ k = 4 \/ k = 5 \/ k = 6
  OBVIOUS
<1> DEFINE len(k) == Len(BehindWords[k])
<1>2. \A k \in 1 .. 6 : BehindWords[k][1] \in {Open, "|", Close, "~"}
  BY <1>1, LastHeads
<1>3. \A k \in 1 .. 6 : BehindWords[k][1] = Open => k = 1
  BY <1>1, LastHeads, LastDiffer
<1>4. \A k \in 1 .. 6 : BehindWords[k][1] = "|" => k \in 2 .. 4
  BY <1>1, LastHeads, LastDiffer
<1>5. \A j, k \in 2 .. 4 : j < k => len(j) >= len(k)
  <2>1. len(2) = 2 /\ len(3) = 2 /\ len(4) = 1
    BY DEF BehindWords
  <2> HIDE DEF len
  <2> QED BY <2>1
<1>6. \A k \in 1 .. 6 : BehindWords[k][1] = Close => k = 5
  BY <1>1, LastHeads, LastDiffer
<1>7. \A k \in 1 .. 6 : BehindWords[k][1] = "~" => k = 6
  BY <1>1, LastHeads, LastDiffer
<1>8. \A j, k \in 1 .. 6 :
        j < k /\ BehindWords[j][1] = BehindWords[k][1] => len(j) >= len(k)
  <2> HIDE DEF len
  <2> QED
    BY <1>2, <1>3, <1>4, <1>5, <1>6, <1>7
<1> QED BY <1>2, <1>8

(***************************************************************************)
(* The table.                                                              *)
(***************************************************************************)
LEMMA CharsDiffer ==
  /\ \A c \in Puncts : c \notin Letters /\ c \notin Digits /\ c # Quote
  /\ \A c \in Letters : c \notin Digits /\ c \notin Blanks /\ c # NL /\ c # Quote /\ c # NUL
  /\ \A c \in Digits : c \notin Blanks /\ c # NL /\ c # Quote /\ c # NUL
  /\ \A c \in Blanks : c # NL /\ c # Quote /\ c # NUL
  /\ Quote # NUL /\ Quote # NL /\ NL # NUL
  BY Zenon DEF Puncts, Letters, Digits, Blanks, NL, Quote, NUL, Space, Semicolon, Open, Close

LEMMA SequenceOf ==
  ASSUME NEW S, NEW n \in Nat, NEW f \in [1 .. n -> S]
  PROVE  f \in Seq(S) /\ Len(f) = n
  OBVIOUS

LEMMA Concatenated ==
  ASSUME NEW S, NEW s \in Seq(S), NEW t \in Seq(S)
  PROVE  /\ s \o t \in Seq(S) /\ Len(s \o t) = Len(s) + Len(t)
         /\ \A k \in 1 .. Len(s) : (s \o t)[k] = s[k]
         /\ \A k \in 1 .. Len(t) : (s \o t)[Len(s) + k] = t[k]
  OBVIOUS

WordSet == Seq(Puncts \cup Letters \cup Digits)

LEMMA TableParts ==
  /\ BeforeWords \in Seq(WordSet)
  /\ \A k \in 1 .. Len(BeforeWords) : Entry(BeforeWords[k])
  /\ BehindWords \in Seq(WordSet)
  /\ \A k \in 1 .. Len(BehindWords) : Entry(BehindWords[k])
  /\ Words \in Seq(WordSet)
<1>1. \A w : Entry(w) => w \in WordSet BY DEF Entry, WordSet
<1>2. PICK n \in Nat : n = 54 OBVIOUS
<1>3. PICK m \in Nat : m = 6 OBVIOUS
<1>4. Len(BeforeWords) = n /\ \A k \in 1 .. n : Entry(BeforeWords[k])
  BY <1>2, BeforeWordsEntries
<1>5. BeforeWords \in [1 .. n -> WordSet]
  <2>1. BeforeWords = [k \in 1 .. 54 |-> BeforeWords[k]] BY DEF BeforeWords
  <2>2. BeforeWords = [k \in 1 .. n |-> BeforeWords[k]] BY <1>2, <2>1
  <2> QED BY <2>2, <1>1, <1>4
<1>6. Len(BehindWords) = m /\ \A k \in 1 .. m : Entry(BehindWords[k])
  BY <1>3, BehindWordsEntries
<1>7. BehindWords \in [1 .. m -> WordSet]
  <2>1. BehindWords = [k \in 1 .. 6 |-> BehindWords[k]] BY DEF BehindWords
  <2>2. BehindWords = [k \in 1 .. m |-> BehindWords[k]] BY <1>3, <2>1
  <2> QED BY <2>2, <1>1, <1>6
<1>8. Seq(Letters \cup Digits) \subseteq WordSet BY DEF WordSet
<1>9. Words \in Seq(WordSet) BY <1>8, WordsAssumption
<1> HIDE <1>2, <1>3
<1> QED BY <1>4, <1>5, <1>6, <1>7, <1>9, SequenceOf

(* Where the parts start. *)
ToWords   == Len(BeforeWords)
FromWords == ToWords + Len(Words)

LEMMA KeywordAt ==
  /\ ToWords \in Nat /\ Len(Words) \in Nat /\ Len(BehindWords) \in Nat
  /\ FromWords \in Nat
  /\ Keywords \in Seq(WordSet) /\ Len(Keywords) = FromWords + Len(BehindWords)
  /\ \A k \in 1 .. ToWords : Keywords[k] = BeforeWords[k]
  /\ \A k \in 1 .. Len(Words) : Keywords[ToWords + k] = Words[k]
  /\ \A k \in 1 .. Len(BehindWords) : Keywords[FromWords + k] = BehindWords[k]
<1>1. ToWords \in Nat /\ Len(Words) \in Nat /\ Len(BehindWords) \in Nat /\ FromWords \in Nat
  BY TableParts DEF ToWords, FromWords
<1> DEFINE first == BeforeWords \o Words
<1>2. /\ first \in Seq(WordSet) /\ Len(first) = FromWords
      /\ \A k \in 1 .. ToWords : first[k] = BeforeWords[k]
      /\ \A k \in 1 .. Len(Words) : first[ToWords + k] = Words[k]
  BY TableParts, Concatenated DEF FromWords, ToWords
<1>3. Keywords = first \o BehindWords BY DEF Keywords
<1> HIDE DEF first
<1>4. /\ Keywords \in Seq(WordSet) /\ Len(Keywords) = FromWords + Len(BehindWords)
      /\ \A k \in 1 .. FromWords : Keywords[k] = first[k]
      /\ \A k \in 1 .. Len(BehindWords) : Keywords[FromWords + k] = BehindWords[k]
  <2>1. first \in Seq(WordSet) /\ BehindWords \in Seq(WordSet) BY <1>2, TableParts
  <2>2. /\ first \o BehindWords \in Seq(WordSet)
        /\ Len(first \o BehindWords) = Len(first) + Len(BehindWords)
        /\ \A k \in 1 .. Len(first) : (first \o BehindWords)[k] = first[k]
        /\ \A k \in 1 .. Len(BehindWords) : (first \o BehindWords)[Len(first) + k] = BehindWords[k]
    BY <2>1
  <2> QED BY <1>2, <1>3, <2>2, Zenon
<1>5. \A k \in 1 .. ToWords : Keywords[k] = BeforeWords[k]
  BY <1>1, <1>2, <1>4 DEF FromWords
<1>6. \A k \in 1 .. Len(Words) : Keywords[ToWords + k] = Words[k]
  <2> SUFFICES ASSUME NEW k \in 1 .. Len(Words) PROVE Keywords[ToWords + k] = Words[k]
    OBVIOUS
  <2>1. PICK i \in 1 .. FromWords : i = ToWords + k BY <1>1 DEF FromWords
  <2>2. Keywords[i] = first[i] BY <1>4
  <2>3. first[ToWords + k] = Words[k] BY <1>2
  <2> QED BY <2>1, <2>2, <2>3
<1> QED BY <1>1, <1>4, <1>5, <1>6

(* Every index is in one of the parts. *)
LEMMA KeywordIndex ==
  ASSUME NEW k \in DOMAIN Keywords
  PROVE  \/ k \in 1 .. ToWords
         \/ \E i \in 1 .. Len(Words) : k = ToWords + i
         \/ \E i \in 1 .. Len(BehindWords) : k = FromWords + i
<1>1. k \in 1 .. FromWords + Len(BehindWords)
  BY KeywordAt
<1>2. CASE k <= ToWords BY <1>1, <1>2, KeywordAt
<1>3. CASE k > ToWords /\ k <= FromWords
  <2>1. k - ToWords \in 1 .. Len(Words) /\ k = ToWords + (k - ToWords)
    BY <1>1, <1>3, KeywordAt DEF FromWords
  <2> QED BY <2>1
<1>4. CASE k > FromWords
  <2>1. k - FromWords \in 1 .. Len(BehindWords) /\ k = FromWords + (k - FromWords)
    BY <1>1, <1>4, KeywordAt
  <2> QED BY <2>1
<1> QED BY <1>1, <1>2, <1>3, <1>4, KeywordAt

LEMMA PartsDiffer ==
  /\ \A c \in {NL, "!", "#", "%", "&", "(", ")", "*", "+", "-"} :
       c \notin {".", "/", ":", Semicolon, "<"} \cup {"=", ">", "?", "[", "]", "^", Space}
  /\ \A c \in {".", "/", ":", Semicolon, "<"} : c \notin {"=", ">", "?", "[", "]", "^", Space}
  /\ \A c \in {NL, "!", "#", "%", "&", "(", ")", "*", "+", "-"}
              \cup {".", "/", ":", Semicolon, "<"} \cup {"=", ">", "?", "[", "]", "^", Space} :
       c \notin {Open, "|", Close, "~"}
  BY Zenon DEF NL, Semicolon, Space, Open, Close

Heads1 == {NL, "!", "#", "%", "&", "(", ")", "*", "+", "-"}
Heads2 == {".", "/", ":", Semicolon, "<"}
Heads3 == {"=", ">", "?", "[", "]", "^", Space}
Heads4 == {Open, "|", Close, "~"}

LEMMA BeforeWordsSorted ==
  /\ \A k \in 1 .. 54 : BeforeWords[k][1] \in Heads1 \cup Heads2 \cup Heads3
  /\ \A j, k \in 1 .. 54 :
       j < k /\ BeforeWords[j][1] = BeforeWords[k][1] => Len(BeforeWords[j]) >= Len(BeforeWords[k])
<1> DEFINE head(k) == BeforeWords[k][1]
           len(k)  == Len(BeforeWords[k])
<1>1. /\ \A k \in 1 .. 20 : head(k) \in Heads1
      /\ \A j, k \in 1 .. 20 : j < k /\ head(j) = head(k) => len(j) >= len(k)
  BY FirstSorted DEF Heads1
<1>2. /\ \A k \in 21 .. 37 : head(k) \in Heads2
      /\ \A j, k \in 21 .. 37 : j < k /\ head(j) = head(k) => len(j) >= len(k)
  BY SecondSorted DEF Heads2
<1>3. /\ \A k \in 38 .. 54 : head(k) \in Heads3
      /\ \A j, k \in 38 .. 54 : j < k /\ head(j) = head(k) => len(j) >= len(k)
  BY ThirdSorted DEF Heads3
<1>4. /\ \A c \in Heads1 : c \notin Heads2 /\ c \notin Heads3
      /\ \A c \in Heads2 : c \notin Heads3
  BY PartsDiffer DEF Heads1, Heads2, Heads3
<1>5. \A k \in 1 .. 54 : k \in 1 .. 20 \/ k \in 21 .. 37 \/ k \in 38 .. 54
  OBVIOUS
<1> HIDE DEF head, len
<1>6. \A j, k \in 1 .. 54 : j < k /\ head(j) = head(k) => len(j) >= len(k)
  <2> SUFFICES ASSUME NEW j \in 1 .. 54, NEW k \in 1 .. 54, j < k, head(j) = head(k)
               PROVE  len(j) >= len(k)
    OBVIOUS
  <2>1. CASE k \in 1 .. 20 BY <2>1, <1>1, <1>5
  <2>2. CASE k \in 21 .. 37
    <3>1. j \in 1 .. 20 \/ j \in 21 .. 37 BY <2>2
    <3> QED BY <2>2, <3>1, <1>1, <1>2, <1>4
  <2>3. CASE k \in 38 .. 54 BY <2>3, <1>1, <1>2, <1>3, <1>4, <1>5
  <2> QED BY <1>5, <2>1, <2>2, <2>3
<1>7. \A k \in 1 .. 54 : head(k) \in Heads1 \cup Heads2 \cup Heads3
  BY <1>1, <1>2, <1>3, <1>5
<1> QED BY <1>6, <1>7 DEF head, len

(* Heads1 .. Heads4 are apart, and no letter is in them. *)
LEMMA HeadsApart ==
  /\ \A c \in Heads1 \cup Heads2 \cup Heads3 : c \notin Heads4 /\ c \notin Letters
  /\ \A c \in Heads4 : c \notin Letters
<1>1. /\ \A c \in Heads1 \cup Heads2 \cup Heads3 : c \notin Heads4
      /\ Heads1 \cup Heads2 \cup Heads3 \cup Heads4 \subseteq Puncts
  <2>1. \A c \in Heads1 \cup Heads2 \cup Heads3 : c \notin Heads4
    BY PartsDiffer DEF Heads1, Heads2, Heads3, Heads4
  <2>2. Heads1 \cup Heads2 \cup Heads3 \cup Heads4 \subseteq Puncts
    BY DEF Heads1, Heads2, Heads3, Heads4, Puncts
  <2> QED BY <2>1, <2>2
<1> QED BY <1>1, CharsDiffer

(* tokens.c:12: inside the group of a first character the lengths descend. *)
LEMMA TableSorted ==
  \A j, k \in DOMAIN Keywords :
    j < k /\ Keywords[j][1] = Keywords[k][1] => Len(Keywords[j]) >= Len(Keywords[k])
<1> DEFINE head(k) == Keywords[k][1]
           len(k)  == Len(Keywords[k])
           Good(j, k) == j < k /\ head(j) = head(k) => len(j) >= len(k)
<1>0. /\ ToWords = 54 /\ Len(BehindWords) = 6
      /\ ToWords \in Nat /\ Len(Words) \in Nat /\ FromWords \in Nat
      /\ FromWords = ToWords + Len(Words)
  BY KeywordAt, BeforeWordsEntries, BehindWordsEntries DEF ToWords, FromWords
<1>1. /\ \A k \in 1 .. ToWords : head(k) \in Heads1 \cup Heads2 \cup Heads3
      /\ \A j, k \in 1 .. ToWords : Good(j, k)
  <2>1. ToWords = 54 BY <1>0
  <2> QED BY <2>1, KeywordAt, BeforeWordsSorted
<1>2. /\ \A k \in 1 .. Len(Words) : head(ToWords + k) \in Letters
      /\ \A j, k \in 1 .. Len(Words) : Good(ToWords + j, ToWords + k)
  <2>1. DOMAIN Words = 1 .. Len(Words) BY TableParts
  <2>2. \A k \in 1 .. Len(Words) : Keywords[ToWords + k] = Words[k] BY KeywordAt
  <2>3. \A k \in 1 .. Len(Words) : head(ToWords + k) \in Letters
    BY <2>1, <2>2, WordsAssumption
  <2>4. ASSUME NEW j \in 1 .. Len(Words), NEW k \in 1 .. Len(Words)
        PROVE  Good(ToWords + j, ToWords + k)
    <3>1. ToWords + j < ToWords + k <=> j < k BY <1>0
    <3>2. j < k /\ Words[j][1] = Words[k][1] => Len(Words[j]) >= Len(Words[k])
      BY <2>1, WordsAssumption
    <3> QED BY <3>1, <3>2, <2>2
  <2> QED BY <2>3, <2>4
<1>3. /\ \A k \in 1 .. Len(BehindWords) : head(FromWords + k) \in Heads4
      /\ \A j, k \in 1 .. Len(BehindWords) : Good(FromWords + j, FromWords + k)
  <2>1. \A k \in 1 .. 6 : Keywords[FromWords + k] = BehindWords[k]
    BY <1>0, KeywordAt
  <2>2. \A k \in 1 .. 6 : head(FromWords + k) \in Heads4
    BY <2>1, LastSorted DEF Heads4
  <2>3. ASSUME NEW j \in 1 .. 6, NEW k \in 1 .. 6
        PROVE  Good(FromWords + j, FromWords + k)
    <3>1. FromWords + j < FromWords + k <=> j < k BY <1>0
    <3>2. j < k /\ BehindWords[j][1] = BehindWords[k][1]
          => Len(BehindWords[j]) >= Len(BehindWords[k])
      BY LastSorted
    <3> QED BY <3>1, <3>2, <2>1
  <2> HIDE DEF head, len, Good
  <2>4. Len(BehindWords) = 6 BY <1>0
  <2> QED BY <2>2, <2>3, <2>4
<1> HIDE DEF head, len
<1>4. ASSUME NEW j \in DOMAIN Keywords, NEW k \in DOMAIN Keywords PROVE Good(j, k)
  <2>1. CASE k \in 1 .. ToWords
    <3>1. CASE j \in 1 .. ToWords BY <2>1, <3>1, <1>1
    <3>2. CASE j \notin 1 .. ToWords
      <4>1. j \in 1 .. Len(Keywords) /\ Len(Keywords) \in Nat BY KeywordAt
      <4>2. j > ToWords /\ k < j BY <4>1, <2>1, <3>2, KeywordAt
      <4> QED BY <4>1, <4>2, <2>1, KeywordAt
    <3> QED BY <3>1, <3>2
  <2>2. CASE \E i \in 1 .. Len(Words) : k = ToWords + i
    <3>1. CASE j \in 1 .. ToWords
      <4>1. head(j) \notin Letters BY <3>1, <1>1, HeadsApart
      <4>2. head(k) \in Letters BY <2>2, <1>2
      <4> QED BY <4>1, <4>2
    <3>2. CASE \E i \in 1 .. Len(Words) : j = ToWords + i
      <4> HIDE DEF Good
      <4> QED BY <2>2, <3>2, <1>2
    <3>3. CASE \E i \in 1 .. Len(BehindWords) : j = FromWords + i
      BY <2>2, <3>3, <1>2, <1>3, HeadsApart
    <3> QED BY <3>1, <3>2, <3>3, KeywordIndex
  <2>3. CASE \E i \in 1 .. Len(BehindWords) : k = FromWords + i
    <3>1. CASE j \in 1 .. ToWords BY <2>3, <3>1, <1>1, <1>3, HeadsApart
    <3>2. CASE \E i \in 1 .. Len(Words) : j = ToWords + i
      BY <2>3, <3>2, <1>2, <1>3, HeadsApart
    <3>3. CASE \E i \in 1 .. Len(BehindWords) : j = FromWords + i
      BY <2>3, <3>3, <1>3
    <3> QED BY <3>1, <3>2, <3>3, KeywordIndex
  <2> QED BY <2>1, <2>2, <2>3, KeywordIndex
<1> QED BY <1>4 DEF head, len

(* What the search of the table finds. *)
LEMMA LookupFinds ==
  ASSUME NEW w
  PROVE  Lookup(w) # {} <=> w \in Range(Keywords)
<1>1. ASSUME NEW k \in Lookup(w) PROVE w \in Range(Keywords)
  BY DEF Lookup, InRange, Range
<1>2. ASSUME NEW k \in DOMAIN Keywords, Keywords[k] = w PROVE k \in Lookup(w)
  <2>1. k \in InRange(w[1]) BY <1>2 DEF InRange
  <2>2. \A j \in InRange(w[1]) : j < k => Len(Keywords[j]) >= Len(w)
    BY <1>2, TableSorted DEF InRange
  <2> QED BY <1>2, <2>1, <2>2 DEF Lookup
<1> QED BY <1>1, <1>2 DEF Range

LEMMA OperatorsAre ==
  /\ \A w \in Operators : Entry(w)
  /\ \A w \in Range(Keywords) : w \in Operators \/ w \in Range(Words)
  /\ \A w \in Range(Words) : w \in Seq(Letters \cup Digits) /\ w # <<>> /\ w[1] \in Letters
<1>1. ASSUME NEW w \in Range(Keywords) PROVE Entry(w) \/ w \in Range(Words)
  <2>1. PICK k \in DOMAIN Keywords : Keywords[k] = w BY DEF Range
  <2>2. CASE k \in 1 .. ToWords BY <2>1, <2>2, KeywordAt, TableParts DEF ToWords
  <2>3. CASE \E i \in 1 .. Len(Words) : k = ToWords + i
    <3>1. PICK i \in 1 .. Len(Words) : k = ToWords + i BY <2>3
    <3>2. w = Words[i] /\ i \in DOMAIN Words BY <2>1, <3>1, KeywordAt, TableParts
    <3> QED BY <3>2 DEF Range
  <2>4. CASE \E i \in 1 .. Len(BehindWords) : k = FromWords + i
    BY <2>1, <2>4, KeywordAt, TableParts
  <2> QED BY <2>2, <2>3, <2>4, KeywordIndex
<1>2. ASSUME NEW w \in Range(Words)
      PROVE  w \in Seq(Letters \cup Digits) /\ w # <<>> /\ w[1] \in Letters
  <2>1. PICK k \in DOMAIN Words : w = Words[k] BY DEF Range
  <2> QED BY <2>1, WordsAssumption
<1> QED BY <1>1, <1>2 DEF Operators

(* could_be_operator asks whether the characters are an operator. *)
LEMMA CouldBeIs ==
  ASSUME NEW w
  PROVE  CouldBeOperator(w) <=> w \in Operators
<1>1. \A k \in Lookup(w) : Keywords[k] = w BY DEF Lookup
<1>2. w \in Operators => w \in Range(Keywords) BY DEF Operators
<1> QED BY <1>1, <1>2, LookupFinds DEF CouldBeOperator

(* No operator has a letter, a digit or a quote in it, and the newline is  *)
(* one on its own; what starts with a digit is no reserved word.           *)
LEMMA OperatorChars ==
  /\ \A w \in Operators :
       /\ w # <<>> /\ Len(w) \in Nat
       /\ \A i \in 1 .. Len(w) : w[i] \notin Letters /\ w[i] \notin Digits
       /\ \A i \in 1 .. Len(w) : w[i] = NL => w = <<NL>>
  /\ \A w \in Range(Keywords) : w # <<>> /\ w[1] \notin Digits
<1>1. \A w \in Operators :
        /\ w \in Seq(Puncts) /\ w # <<>>
        /\ \A i \in 1 .. Len(w) : w[i] = NL => w = <<NL>>
  BY OperatorsAre DEF Entry
<1>2. ASSUME NEW w \in Operators
      PROVE  /\ w # <<>> /\ Len(w) \in Nat
             /\ \A i \in 1 .. Len(w) : w[i] \notin Letters /\ w[i] \notin Digits
  <2>1. \A i \in 1 .. Len(w) : w[i] \in Puncts BY <1>1
  <2> QED BY <1>1, <2>1, CharsDiffer
<1>3. ASSUME NEW w \in Range(Keywords) PROVE w # <<>> /\ w[1] \notin Digits
  <2>1. CASE w \in Operators
    <3>1. w \in Seq(Puncts) /\ w # <<>> BY <1>1, <2>1
    <3>2. 1 \in 1 .. Len(w) BY <3>1
    <3> QED BY <3>1, <3>2, <2>1, <1>2
  <2>2. CASE w \in Range(Words)
    <3>1. w # <<>> /\ w[1] \in Letters BY <2>2, OperatorsAre
    <3> QED BY <3>1, CharsDiffer
  <2> QED BY <2>1, <2>2, OperatorsAre
<1> QED BY <1>1, <1>2, <1>3

(***************************************************************************)
(* Lines and columns.                                                      *)
(***************************************************************************)
LEMMA LeastOf ==
  ASSUME NEW T \in SUBSET Nat, T # {}
  PROVE  \E x \in T : \A y \in T : x <= y
<1> DEFINE less == {ss \in Nat \X Nat : ss[1] < ss[2]}
<1>1. IsWellFoundedOn(less, Nat) BY NatLessThanWellFounded, Zenon DEF OpToRel
<1>2. \A x, y \in Nat : y < x => <<y, x>> \in less OBVIOUS
<1> HIDE DEF less
<1>3. PICK x \in T : \A y \in T : <<y, x>> \notin less BY <1>1, WFMin
<1>4. ASSUME NEW y \in T PROVE x <= y
  <2>1. x \in Nat /\ y \in Nat OBVIOUS
  <2>2. ~ (y < x) BY <1>2, <1>3, <2>1, Zenon
  <2> QED BY <2>1, <2>2
<1> QED BY <1>4

LEMMA MinIs ==
  ASSUME NEW T \in SUBSET Nat, T # {}
  PROVE  Min(T) \in T /\ \A y \in T : Min(T) <= y
<1>1. \E x \in T : \A y \in T : x <= y BY LeastOf
<1> QED BY <1>1 DEF Min

LEMMA MaxIs ==
  ASSUME NEW T \in SUBSET Nat, T # {}, NEW n \in Nat, \A y \in T : y <= n
  PROVE  Max(T) \in T /\ \A y \in T : Max(T) >= y
<1> DEFINE gaps == {n - x : x \in T}
<1>1. gaps \in SUBSET Nat /\ gaps # {}
  <2>1. \A x \in T : n - x \in Nat OBVIOUS
  <2> QED BY <2>1
<1>2. PICK g \in gaps : \A h \in gaps : g <= h BY <1>1, LeastOf
<1>3. PICK x \in T : g = n - x BY <1>2
<1>4. \A y \in T : n - y \in gaps OBVIOUS
<1>5. \A y \in T : n - x <= n - y BY <1>2, <1>3, <1>4
<1>6. \A y \in T : x >= y BY <1>5
<1> HIDE DEF gaps
<1>7. \E z \in T : \A y \in T : z >= y BY <1>6
<1> QED BY <1>7 DEF Max

LEMMA MinEquals ==
  ASSUME NEW T \in SUBSET Nat, NEW x \in T, \A y \in T : x <= y
  PROVE  Min(T) = x
<1>1. Min(T) \in T /\ \A y \in T : Min(T) <= y BY MinIs
<1>2. Min(T) \in Nat /\ x \in Nat /\ x <= Min(T) /\ Min(T) <= x BY <1>1
<1> QED BY <1>2

LEMMA MaxEquals ==
  ASSUME NEW T \in SUBSET Nat, NEW x \in T, \A y \in T : x >= y
  PROVE  Max(T) = x
<1>1. Max(T) \in T /\ \A y \in T : Max(T) >= y BY MaxIs
<1>2. Max(T) \in Nat /\ x \in Nat /\ x <= Max(T) /\ Max(T) <= x BY <1>1
<1> QED BY <1>2

Newlines(p) == {k \in 1 .. p - 1 : file[k] = NL}

LEMMA NewlinesAre ==
  ASSUME NEW p \in Nat \ {0}
  PROVE  /\ IsFiniteSet(Newlines(p)) /\ Newlines(p) \in SUBSET Nat
         /\ \A k \in Newlines(p) : k < p /\ k # 0
         /\ Newlines(p + 1) = IF file[p] = NL THEN Newlines(p) \cup {p} ELSE Newlines(p)
<1>1. IsFiniteSet(1 .. p - 1) BY FS_Interval
<1>2. IsFiniteSet(Newlines(p)) BY <1>1, FS_Subset DEF Newlines
<1>3. Newlines(p) \in SUBSET Nat /\ \A k \in Newlines(p) : k < p /\ k # 0 BY DEF Newlines
<1>4. (p + 1) - 1 = p OBVIOUS
<1>5. 1 .. p = (1 .. p - 1) \cup {p} OBVIOUS
<1>6. Newlines(p + 1) = IF file[p] = NL THEN Newlines(p) \cup {p} ELSE Newlines(p)
  BY <1>4, <1>5 DEF Newlines
<1> QED BY <1>2, <1>3, <1>6

LEMMA LineAndCol ==
  ASSUME NEW p \in Nat
  PROVE  /\ LineOf(p) = 1 + Cardinality(Newlines(p))
         /\ ColOf(p) = p - Max({0} \cup Newlines(p))
  BY DEF LineOf, ColOf, Newlines

LEMMA PlacesAre ==
  ASSUME NEW p \in Nat \ {0}
  PROVE  /\ LineOf(p) \in Nat \ {0} /\ ColOf(p) \in Nat \ {0}
         /\ file[p] = NL => LineOf(p + 1) = LineOf(p) + 1 /\ ColOf(p + 1) = 1
         /\ file[p] # NL => LineOf(p + 1) = LineOf(p) /\ ColOf(p + 1) = ColOf(p) + 1
<1>1. /\ IsFiniteSet(Newlines(p)) /\ Newlines(p) \in SUBSET Nat
      /\ \A k \in Newlines(p) : k < p /\ k # 0
      /\ Newlines(p + 1) = IF file[p] = NL THEN Newlines(p) \cup {p} ELSE Newlines(p)
  BY NewlinesAre
<1>2. Cardinality(Newlines(p)) \in Nat BY <1>1, FS_CardinalityType
<1> DEFINE T == {0} \cup Newlines(p)
<1>3. T \in SUBSET Nat /\ T # {} /\ \A y \in T : y <= p BY <1>1
<1>4. Max(T) \in T /\ \A y \in T : Max(T) >= y BY <1>3, MaxIs
<1>5. Max(T) \in Nat /\ Max(T) < p BY <1>1, <1>3, <1>4
<1>6. LineOf(p) \in Nat \ {0} /\ ColOf(p) \in Nat \ {0}
  <2>1. LineOf(p) = 1 + Cardinality(Newlines(p)) /\ ColOf(p) = p - Max(T) BY LineAndCol
  <2> HIDE DEF T
  <2> QED BY <1>2, <1>5, <2>1
<1>7. CASE file[p] = NL
  <2>1. Newlines(p + 1) = Newlines(p) \cup {p} /\ p \notin Newlines(p) BY <1>1, <1>7
  <2>2. Cardinality(Newlines(p + 1)) = Cardinality(Newlines(p)) + 1
    BY <1>1, <2>1, FS_AddElement
  <2> DEFINE U == {0} \cup Newlines(p + 1)
  <2>3. U \in SUBSET Nat /\ p \in U /\ \A y \in U : p >= y BY <1>1, <2>1
  <2>4. Max(U) = p BY <2>3, MaxEquals
  <2>5. LineOf(p) = 1 + Cardinality(Newlines(p)) BY LineAndCol
  <2>6. LineOf(p + 1) = 1 + Cardinality(Newlines(p + 1)) /\ ColOf(p + 1) = (p + 1) - Max(U)
    BY LineAndCol
  <2> HIDE DEF U
  <2> QED BY <1>2, <1>6, <1>7, <2>2, <2>4, <2>5, <2>6
<1>8. CASE file[p] # NL
  <2>1. Newlines(p + 1) = Newlines(p) BY <1>1, <1>8
  <2>2. LineOf(p) = 1 + Cardinality(Newlines(p)) /\ ColOf(p) = p - Max(T) BY LineAndCol
  <2>3. LineOf(p + 1) = 1 + Cardinality(Newlines(p)) /\ ColOf(p + 1) = (p + 1) - Max(T)
    BY <2>1, LineAndCol
  <2> HIDE DEF T
  <2> QED BY <1>2, <1>5, <1>6, <1>8, <2>2, <2>3
<1> QED BY <1>6, <1>7, <1>8

LEMMA FirstPlace == LineOf(1) = 1 /\ ColOf(1) = 1
<1>1. Newlines(1) = {} BY DEF Newlines
<1>2. Cardinality(Newlines(1)) = 0 BY <1>1, FS_EmptySet
<1>3. Max({0} \cup Newlines(1)) = 0 BY <1>1, MaxEquals
<1> QED BY <1>2, <1>3, LineAndCol

(* Two places of the text differ in the line or in the column. *)
LEMMA PlacesDiffer ==
  ASSUME NEW p \in Nat \ {0}, NEW q \in Nat \ {0}, p < q
  PROVE  LineOf(p) # LineOf(q) \/ ColOf(p) # ColOf(q)
<1> SUFFICES ASSUME LineOf(p) = LineOf(q) PROVE ColOf(p) # ColOf(q) OBVIOUS
<1>1. Newlines(p) \in SUBSET Newlines(q) BY DEF Newlines
<1>2. /\ IsFiniteSet(Newlines(p)) /\ IsFiniteSet(Newlines(q))
      /\ Newlines(p) \in SUBSET Nat /\ \A k \in Newlines(p) : k < p
  BY NewlinesAre
<1>3. Cardinality(Newlines(p)) \in Nat /\ Cardinality(Newlines(q)) \in Nat
  BY <1>2, FS_CardinalityType
<1>4. Cardinality(Newlines(p)) = Cardinality(Newlines(q))
  <2>1. LineOf(p) = 1 + Cardinality(Newlines(p)) BY LineAndCol
  <2>2. LineOf(q) = 1 + Cardinality(Newlines(q)) BY LineAndCol
  <2>3. 1 + Cardinality(Newlines(p)) = 1 + Cardinality(Newlines(q)) BY <2>1, <2>2
  <2> QED BY <1>3, <2>3
<1>5. Newlines(p) = Newlines(q) BY <1>1, <1>2, <1>4, FS_Subset
<1> DEFINE T == {0} \cup Newlines(p)
<1>6. T \in SUBSET Nat /\ T # {} /\ \A y \in T : y <= p BY <1>2
<1>7. Max(T) \in Nat BY <1>6, MaxIs
<1>8. ColOf(p) = p - Max(T) BY LineAndCol
<1>9. ColOf(q) = q - Max(T) BY <1>5, LineAndCol
<1> HIDE DEF T
<1> QED BY <1>7, <1>8, <1>9

(* The line and the column of a token tell where it is. *)
LEMMA PlaceIs ==
  ASSUME Len(file) \in Nat, NEW t, NEW p \in 1 .. Len(file) + 1,
         t.line = LineOf(p), t.col = ColOf(p)
  PROVE  PlaceOf(t) = p
<1> DEFINE T == {q \in 1 .. Len(file) + 1 : LineOf(q) = t.line /\ ColOf(q) = t.col}
<1>1. T = {p}
  <2>1. ASSUME NEW q \in T PROVE q = p
    <3>1. q \in Nat \ {0} /\ p \in Nat \ {0} /\ LineOf(q) = LineOf(p) /\ ColOf(q) = ColOf(p)
      OBVIOUS
    <3>2. ~ (q < p) /\ ~ (p < q) BY <3>1, PlacesDiffer
    <3> QED BY <3>1, <3>2
  <2> QED BY <2>1
<1>2. Max({0} \cup {p}) = p
  <2>1. {0} \cup {p} \in SUBSET Nat /\ p \in {0} \cup {p} /\ \A y \in {0} \cup {p} : p >= y
    OBVIOUS
  <2> QED BY <2>1, MaxEquals
<1>3. PlaceOf(t) = Max({0} \cup T) BY DEF PlaceOf
<1> HIDE DEF T
<1> QED BY <1>1, <1>2, <1>3

(***************************************************************************)
(* The reader.                                                             *)
(***************************************************************************)
Readers ==
  [buf : Seq(Chars), pos : Nat, bufBase : Nat, unget : Seq(Chars), error : BOOLEAN]

(* The block is the part of the text it says, and what was given back is   *)
(* the last character that was taken.                                      *)
ReaderOK(f, r) ==
  /\ r \in Readers
  /\ Len(r.buf) <= BlockSize /\ r.pos <= Len(r.buf)
  /\ FilePos(r) <= Len(f)
  /\ \A i \in 1 .. Len(r.buf) : r.buf[i] = f[r.bufBase + i]
  /\ r.unget = <<>> \/ (r.pos > 0 /\ r.unget = <<f[r.bufBase + r.pos]>>)

LEMMA Sizes == BlockSize \in Nat \ {0} /\ UngetSize \in Nat \ {0} /\ BufSize \in Nat \ {0}
  BY SizesAssumption

LEMMA OneElement ==
  ASSUME NEW x
  PROVE  Last(<<x>>) = x /\ Front(<<x>>) = <<>>
  BY DEF Last, Front

LEMMA NulIsAChar == NUL \in Chars
<1>1. NUL \in Others BY DEF Others
<1> DEFINE signs == UNION {Range(word) : word \in Operators}
<1>2. Chars = Letters \cup Digits \cup Blanks \cup Others \cup signs BY DEF Chars
<1> HIDE DEF signs
<1> QED BY <1>1, <1>2

(* What ReaderOK says of the fields.                                       *)
LEMMA Fields ==
  ASSUME NEW f \in Seq(Chars), NEW r, ReaderOK(f, r)
  PROVE  /\ r.buf \in Seq(Chars) /\ Len(r.buf) \in Nat /\ Len(f) \in Nat
         /\ r.pos \in Nat /\ r.bufBase \in Nat /\ r.pos <= Len(r.buf)
         /\ FilePos(r) = r.bufBase + Len(r.buf) /\ r.bufBase + Len(r.buf) <= Len(f)
         /\ r.error \in BOOLEAN
  BY DEF ReaderOK, Readers, FilePos

(* A reader with another place in the same block.                          *)
LEMMA SameBlock ==
  ASSUME NEW f \in Seq(Chars), NEW r, ReaderOK(f, r),
         NEW q \in Readers, q.buf = r.buf, q.bufBase = r.bufBase, q.pos <= Len(r.buf),
         q.unget = <<>> \/ (q.pos > 0 /\ q.unget = <<f[r.bufBase + q.pos]>>)
  PROVE  ReaderOK(f, q) /\ Offset(q) = r.bufBase + q.pos - Len(q.unget)
<1>1. ReaderOK(f, q) BY DEF ReaderOK, FilePos
<1>2. Offset(q) = r.bufBase + q.pos - Len(q.unget) BY DEF Offset
<1> QED BY <1>1, <1>2

LEMMA BlockIs ==
  ASSUME NEW f \in Seq(Chars), NEW r, ReaderOK(f, r)
  PROVE  /\ Block(f, r) \in Seq(Chars) /\ Len(Block(f, r)) <= BlockSize
         /\ FilePos(r) \in Nat /\ FilePos(r) + Len(Block(f, r)) <= Len(f)
         /\ \A i \in 1 .. Len(Block(f, r)) : Block(f, r)[i] = f[FilePos(r) + i]
         /\ Block(f, r) = <<>> <=> FilePos(r) = Len(f)
<1> DEFINE p == FilePos(r)
           n == Min({p + BlockSize, Len(f)})
<1>1. p \in Nat /\ Len(f) \in Nat /\ p <= Len(f) /\ BlockSize \in Nat \ {0}
  BY Sizes DEF ReaderOK, Readers, FilePos
<1>2. n \in Nat /\ n <= Len(f) /\ n <= p + BlockSize /\ (n = p + BlockSize \/ n = Len(f))
  <2>1. {p + BlockSize, Len(f)} \in SUBSET Nat /\ {p + BlockSize, Len(f)} # {} BY <1>1
  <2>2. n \in {p + BlockSize, Len(f)} /\ \A y \in {p + BlockSize, Len(f)} : n <= y
    BY <2>1, MinIs
  <2> QED BY <1>1, <2>2
<1>3. Block(f, r) = SubSeq(f, p + 1, n) BY DEF Block
<1> HIDE DEF p, n
<1>4. \A i \in p + 1 .. n : f[i] \in Chars BY <1>1, <1>2
<1>5. /\ SubSeq(f, p + 1, n) \in Seq(Chars)
      /\ Len(SubSeq(f, p + 1, n)) = n - p
      /\ \A i \in 1 .. n - p : SubSeq(f, p + 1, n)[i] = f[p + i]
  BY <1>1, <1>2, <1>4
<1>6. SubSeq(f, p + 1, n) = <<>> <=> n = p
  BY <1>1, <1>2, <1>5
<1>7. n = p <=> p = Len(f) BY <1>1, <1>2
<1>8. p = FilePos(r) BY DEF p
<1>9. n - p <= BlockSize /\ p + (n - p) <= Len(f) BY <1>1, <1>2
<1> QED BY <1>1, <1>3, <1>5, <1>6, <1>7, <1>8, <1>9

(* reader_getch gives the next character of the text, or says that there   *)
(* is none.                                                                *)
LEMMA Reading ==
  ASSUME NEW f \in Seq(Chars), NEW r, ReaderOK(f, r), NEW got \in Getch(f, r)
  PROVE  /\ ReaderOK(f, got.reader) /\ got.c \in Chars /\ got.read \in BOOLEAN
         /\ Offset(r) \in Nat /\ Offset(r) <= Len(f)
         /\ got.read =>
              /\ Offset(got.reader) = Offset(r) + 1
              /\ Offset(r) < Len(f) /\ got.c = f[Offset(r) + 1]
              /\ got.reader.unget = <<>> /\ got.reader.pos > 0
              /\ got.reader.error = r.error
         /\ ~ got.read =>
              /\ got.c = NUL
              /\ ~ got.reader.error =>
                   got.reader = r /\ Offset(r) = Len(f) /\ r.unget = <<>>
<1>1. /\ r.buf \in Seq(Chars) /\ Len(r.buf) \in Nat /\ Len(f) \in Nat
      /\ r.pos \in Nat /\ r.bufBase \in Nat /\ r.pos <= Len(r.buf)
      /\ FilePos(r) = r.bufBase + Len(r.buf) /\ r.bufBase + Len(r.buf) <= Len(f)
      /\ r.error \in BOOLEAN
  BY Fields
<1>2. r \in Readers BY DEF ReaderOK
<1>3. CASE r.unget # <<>>
  <2> DEFINE c == f[r.bufBase + r.pos]
             q == [r EXCEPT !.unget = <<>>]
  <2>1. r.pos > 0 /\ r.unget = <<c>> BY <1>3 DEF ReaderOK
  <2>2. got = Got(q, c)
    <3>1. Last(r.unget) = c /\ Front(r.unget) = <<>> BY <2>1, OneElement
    <3> QED BY <1>3, <3>1 DEF Getch
  <2>3. /\ q \in Readers /\ q.buf = r.buf /\ q.bufBase = r.bufBase
        /\ q.pos = r.pos /\ q.unget = <<>> /\ q.error = r.error
    <3>1. <<>> \in Seq(Chars) OBVIOUS
    <3> QED BY <1>2, <3>1 DEF Readers
  <2>4. ReaderOK(f, q) /\ Offset(q) = r.bufBase + r.pos
    <3> HIDE DEF q
    <3>1. ReaderOK(f, q) /\ Offset(q) = r.bufBase + q.pos - Len(q.unget)
      BY <1>1, <2>3, SameBlock
    <3> QED BY <1>1, <2>3, <3>1
  <2>5. Offset(r) = r.bufBase + r.pos - 1 BY <2>1 DEF Offset
  <2>6. c \in Chars /\ r.bufBase + r.pos <= Len(f) BY <1>1, <2>1
  <2>7. got.reader = q /\ got.read = TRUE /\ got.c = c BY <2>2 DEF Got
  <2> HIDE DEF q
  <2>8. Offset(q) = Offset(r) + 1 /\ Offset(r) + 1 = r.bufBase + r.pos /\ Offset(r) \in Nat
        /\ Offset(r) < Len(f) /\ Offset(r) <= Len(f)
    BY <1>1, <2>1, <2>4, <2>5, <2>6
  <2> QED BY <2>1, <2>3, <2>4, <2>6, <2>7, <2>8
<1>4. CASE r.unget = <<>>
  <2>0. Offset(r) = r.bufBase + r.pos BY <1>1, <1>4 DEF Offset
  <2>1. CASE r.pos < Len(r.buf)
    <3> DEFINE c == r.buf[r.pos + 1]
               q == [r EXCEPT !.pos = r.pos + 1]
    <3>1. got = Got(q, c) BY <1>4, <2>1 DEF Getch
    <3>2. /\ q \in Readers /\ q.buf = r.buf /\ q.bufBase = r.bufBase
          /\ q.pos = r.pos + 1 /\ q.unget = <<>> /\ q.error = r.error
      BY <1>1, <1>2, <1>4 DEF Readers
    <3>3. ReaderOK(f, q) /\ Offset(q) = r.bufBase + (r.pos + 1)
      <4> HIDE DEF q
      <4>1. q.pos <= Len(r.buf) BY <1>1, <2>1, <3>2
      <4>2. ReaderOK(f, q) /\ Offset(q) = r.bufBase + q.pos - Len(q.unget)
        BY <3>2, <4>1, SameBlock
      <4> QED BY <1>1, <3>2, <4>2
    <3>4. got.reader = q /\ got.read = TRUE /\ got.c = c BY <3>1 DEF Got
    <3>5. /\ c = f[r.bufBase + (r.pos + 1)] /\ c \in Chars
          /\ r.bufBase + (r.pos + 1) = Offset(r) + 1
      <4>1. PICK i \in 1 .. Len(r.buf) : i = r.pos + 1 BY <1>1, <2>1
      <4>2. r.buf[i] = f[r.bufBase + i] /\ r.buf[i] \in Chars BY <1>1 DEF ReaderOK
      <4> QED BY <1>1, <2>0, <4>1, <4>2
    <3> HIDE DEF q, c
    <3>6. Offset(q) = Offset(r) + 1 /\ Offset(r) \in Nat /\ q.pos > 0
          /\ Offset(r) < Len(f) /\ Offset(r) <= Len(f)
      BY <1>1, <2>0, <2>1, <3>2, <3>3
    <3> QED BY <3>2, <3>3, <3>4, <3>5, <3>6
  <2>2. CASE ~ (r.pos < Len(r.buf))
    <3>1. /\ r.pos = Len(r.buf) /\ Offset(r) = FilePos(r)
          /\ Offset(r) \in Nat /\ Offset(r) <= Len(f)
      BY <1>1, <2>0, <2>2
    <3>2. \/ got = NotGot([r EXCEPT !.error = TRUE])
          \/ Block(f, r) = <<>> /\ got = NotGot(r)
          \/ Block(f, r) # <<>> /\ got = Got(Refill(f, r), Head(Block(f, r)))
      BY <1>4, <2>2 DEF Getch
    <3>3. CASE got = NotGot([r EXCEPT !.error = TRUE])
      <4> DEFINE q == [r EXCEPT !.error = TRUE]
      <4>1. /\ q \in Readers /\ q.buf = r.buf /\ q.bufBase = r.bufBase
            /\ q.pos = r.pos /\ q.unget = <<>> /\ q.error = TRUE
        BY <1>2, <1>4 DEF Readers
      <4>2. ReaderOK(f, q) /\ q.error = TRUE
        <5> HIDE DEF q
        <5> QED BY <1>1, <4>1, SameBlock
      <4>3. got.reader = q /\ got.read = FALSE /\ got.c = NUL BY <3>3 DEF NotGot
      <4> HIDE DEF q
      <4> QED BY <3>1, <4>2, <4>3, NulIsAChar
    <3>4. CASE Block(f, r) = <<>> /\ got = NotGot(r)
      <4>1. Offset(r) = Len(f) BY <3>1, <3>4, BlockIs
      <4>2. got.reader = r /\ got.read = FALSE /\ got.c = NUL BY <3>4 DEF NotGot
      <4> QED BY <1>4, <3>1, <4>1, <4>2, NulIsAChar
    <3>5. CASE Block(f, r) # <<>> /\ got = Got(Refill(f, r), Head(Block(f, r)))
      <4> DEFINE b == Block(f, r)
      <4>1. /\ b \in Seq(Chars) /\ Len(b) <= BlockSize /\ FilePos(r) + Len(b) <= Len(f)
            /\ \A i \in 1 .. Len(b) : b[i] = f[FilePos(r) + i]
            /\ b # <<>> /\ Len(b) \in Nat /\ Len(b) > 0 /\ Head(b) = b[1]
        BY <3>5, BlockIs
      <4>2. /\ Refill(f, r) = [r EXCEPT !.buf = b, !.bufBase = FilePos(r), !.pos = 1]
            /\ got = Got(Refill(f, r), b[1])
        BY <3>5, <4>1 DEF Refill
      <4> HIDE DEF b
      <4>3. /\ Refill(f, r) \in Readers
            /\ Refill(f, r).buf = b /\ Refill(f, r).pos = 1
            /\ Refill(f, r).bufBase = FilePos(r) /\ Refill(f, r).unget = <<>>
            /\ Refill(f, r).error = r.error
        <5> DEFINE q == Refill(f, r)
                   p == FilePos(r)
        <5>1. p \in Nat /\ b \in Seq(Chars) /\ 1 \in Nat BY <3>1, <4>1
        <5>2. q = [r EXCEPT !.buf = b, !.bufBase = p, !.pos = 1] BY <4>2
        <5> HIDE DEF q, p
        <5>3. q \in Readers BY <1>2, <5>1, <5>2 DEF Readers
        <5>4. /\ q.buf = b /\ q.pos = 1 /\ q.bufBase = p
              /\ q.unget = r.unget /\ q.error = r.error
          BY <1>2, <5>2 DEF Readers
        <5> QED BY <1>4, <5>3, <5>4 DEF q, p
      <4>4. ReaderOK(f, Refill(f, r))
        BY <4>1, <4>3 DEF ReaderOK, FilePos
      <4>5. Offset(Refill(f, r)) = FilePos(r) + 1 BY <1>1, <4>3 DEF Offset
      <4>6. b[1] = f[FilePos(r) + 1] /\ b[1] \in Chars /\ FilePos(r) < Len(f)
        BY <1>1, <4>1
      <4>8. Offset(Refill(f, r)) = Offset(r) + 1 /\ Offset(r) + 1 = FilePos(r) + 1
            /\ Offset(r) < Len(f)
        BY <3>1, <4>5, <4>6
      <4>7. got.reader = Refill(f, r) /\ got.read = TRUE /\ got.c = b[1] BY <4>2 DEF Got
      <4>9. got.reader.pos > 0 BY <4>3, <4>7
      <4> QED BY <3>1, <4>3, <4>4, <4>6, <4>7, <4>8, <4>9
    <3> QED BY <3>2, <3>3, <3>4, <3>5
  <2> QED BY <2>1, <2>2
<1> QED BY <1>3, <1>4

(* reader_ungetch goes back by the character that was taken last.          *)
LEMMA GivingBack ==
  ASSUME NEW f \in Seq(Chars), NEW r, ReaderOK(f, r), r.unget = <<>>, r.pos > 0,
         NEW c, c = f[Offset(r)]
  PROVE  /\ ReaderOK(f, Ungetch(r, c))
         /\ c # NUL => Offset(Ungetch(r, c)) = Offset(r) - 1
         /\ Ungetch(r, c).error = r.error
<1>1. /\ r.buf \in Seq(Chars) /\ Len(r.buf) \in Nat /\ Len(f) \in Nat
      /\ r.pos \in Nat /\ r.bufBase \in Nat /\ r.pos <= Len(r.buf)
      /\ r.bufBase + Len(r.buf) <= Len(f) /\ r.error \in BOOLEAN
      /\ Offset(r) = r.bufBase + r.pos
  BY Fields DEF Offset
<1>2. CASE c = NUL BY <1>2 DEF Ungetch
<1>3. CASE c # NUL
  <2> DEFINE q == Ungetch(r, c)
  <2>1. Len(r.unget) # UngetSize BY Sizes
  <2>2. q = [r EXCEPT !.unget = Append(r.unget, c)] BY <1>3, <2>1 DEF Ungetch
  <2>3. Append(r.unget, c) = <<c>> OBVIOUS
  <2>4. c \in Chars /\ <<c>> \in Seq(Chars) /\ Len(<<c>>) = 1 BY <1>1
  <2>5. /\ q \in Readers /\ q.buf = r.buf /\ q.bufBase = r.bufBase
        /\ q.pos = r.pos /\ q.unget = <<c>> /\ q.error = r.error
    BY <2>2, <2>3, <2>4 DEF ReaderOK, Readers
  <2>6. <<c>> = <<f[r.bufBase + r.pos]>> BY <1>1
  <2> HIDE DEF q
  <2>7. ReaderOK(f, q) /\ Offset(q) = r.bufBase + q.pos - Len(q.unget)
    BY <1>1, <2>5, <2>6, SameBlock
  <2>8. Offset(q) = Offset(r) - 1
    <3>1. Offset(q) = r.bufBase + r.pos - 1 BY <2>4, <2>5, <2>7
    <3> QED BY <1>1, <3>1
  <2> QED BY <2>5, <2>7, <2>8 DEF q
<1> QED BY <1>2, <1>3


(***************************************************************************)
(* The invariant: the types.                                               *)
(***************************************************************************)
States == {"main", "WS_START", "WS_WORD", "WS_DIG", "WS_OP", "WS_STRING", "line", "until", "done"}
Kinds  == {"keyword", "id", "number", "string", "space"}
Spots  == [line : Nat \ {0}, col : Nat \ {0}]
Tokens == [kind : Kinds, value : Seq(Chars), line : Nat \ {0}, col : Nat \ {0}]

Types ==
  /\ file \in Files /\ ReaderOK(file, reader)
  /\ line \in Nat \ {0} /\ col \in Nat \ {0}
  /\ state \in States
  /\ buf \in Seq(Chars) /\ Len(buf) <= BufSize
  /\ start \in Spots
  /\ tokens \in Seq(Tokens)
  /\ code \in {0, 2, 3, 4}

(* What the buffer holds outside of a token. *)
Buffers ==
  /\ state \in {"main", "line", "WS_START"} => buf = <<>>
  /\ state = "until" => buf \in {<<>>, <<"*">>}
  /\ state # "done" => code = 0

(***************************************************************************)
(* The invariant: the places, in a text without NUL.                       *)
(***************************************************************************)
Clean == NUL \notin Range(file)

(* The place of the next character.                                        *)
Here == Offset(reader) + 1

At(p)   == line = LineOf(p) /\ col = ColOf(p)
From(p) == start.line = LineOf(p) /\ start.col = ColOf(p)

IsAt(word, p) ==
  p + Len(word) <= Len(file) + 1 /\ \A i \in DOMAIN word : file[p + i - 1] = word[i]

Ends(t) == CommentEnd(t, Behind(t))

(* Where the next token is to start.                                       *)
Expected == IF tokens = <<>> THEN 1 ELSE Ends(Last(tokens))

Opens(t, sign) == t.kind = "keyword" /\ t.value = sign

LineComment  == <<"/", "/">>
BlockComment == <<"/", "*">>

InPlace(t) ==
  LET p == PlaceOf(t)
  IN  p # 0 /\ \E s \in Spellings(t) : IsPrefix(s, SubSeq(file, p, Len(file)))

Longest(t) ==
  LET p == Behind(t)
  IN  t.kind \in {"keyword", "id", "number"} =>
        /\ t.kind = "keyword" <=> t.value \in Range(Keywords)
        /\ p <= Len(file) =>
             /\ Head(t.value) \in Letters => ~IsWord(file[p])
             /\ t.kind = "number" => file[p] \notin Digits
             /\ Append(t.value, file[p]) \notin Operators

Follows(k) == PlaceOf(tokens[k]) = IF k = 1 THEN 1 ELSE Ends(tokens[k - 1])

Printed == \A k \in DOMAIN tokens : InPlace(tokens[k]) /\ Longest(tokens[k]) /\ Follows(k)

Between == state = "main" => At(Here) /\ Here = Expected

AtStart == state = "WS_START" => At(Here) /\ From(Here) /\ Here = Expected

(* A newline is a token of its own: the line goes on when it is delivered. *)
InWord ==
  state \in {"WS_WORD", "WS_DIG", "WS_OP"} =>
    /\ buf # <<>> /\ Expected \in Nat \ {0} /\ From(Expected)
    /\ IsAt(buf, Expected) /\ Here = Expected + Len(buf)
    /\ IF buf = <<NL>> THEN state = "WS_OP" /\ LineOf(Here) = line + 1 /\ ColOf(Here) = 1 ELSE At(Here)
    /\ CASE state = "WS_WORD" -> buf[1] \in Letters
         [] state = "WS_DIG"  -> \A i \in DOMAIN buf : buf[i] \in Digits
         [] state = "WS_OP"   -> ~IsWord(buf[1])

(* A string that is not closed keeps the reader at the end of the text.    *)
Stuck == reader.unget = <<>> /\ Offset(reader) = Len(file)

InString ==
  state = "WS_STRING" =>
    \/ Stuck
    \/ /\ Expected \in Nat \ {0} /\ From(Expected) /\ At(Here)
       /\ IsAt(<<Quote>>, Expected) /\ IsAt(buf, Expected + 1)
       /\ Here = Expected + 1 + Len(buf)

InLine ==
  state = "line" =>
    /\ tokens # <<>> /\ At(Here)
    /\ LET t == Last(tokens)
       IN  /\ Opens(t, LineComment)
           /\ Behind(t) \in Nat \ {0} /\ Behind(t) <= Here
           /\ \A k \in Behind(t) .. Here - 1 : file[k] # NL

InUntil ==
  state = "until" =>
    /\ tokens # <<>> /\ At(Here)
    /\ LET t == Last(tokens)
       IN  /\ Opens(t, BlockComment)
           /\ Behind(t) \in Nat \ {0} /\ Behind(t) <= Here
           /\ \A j \in Behind(t) .. Here - 2 : ~ (file[j] = "*" /\ file[j + 1] = "/")
           /\ buf = <<"*">> <=> Behind(t) < Here /\ file[Here - 1] = "*"

AtEnd ==
  state = "done" =>
    /\ code = 0 => Offset(reader) = Len(file)
    /\ code = 4 /\ ~reader.error => Expected > Len(file) + 1

Placed ==
  Clean =>
    /\ Printed
    /\ Between /\ AtStart /\ InWord /\ InString /\ InLine /\ InUntil /\ AtEnd

(***************************************************************************)
(* The types are kept.                                                     *)
(***************************************************************************)
TypeInv == Types /\ Buffers

LEMMA Taken ==
  ASSUME TypeInv, NEW got \in Getch(file, reader)
  PROVE  /\ file \in Seq(Chars) /\ ReaderOK(file, reader) /\ ReaderOK(file, got.reader)
         /\ got.c \in Chars /\ got.read \in BOOLEAN
<1>1. file \in Seq(Chars) /\ ReaderOK(file, reader) BY FilesAssumption DEF TypeInv, Types
<1> QED BY <1>1, Reading

LEMMA Kept ==
  ASSUME NEW b \in Seq(Chars), NEW c \in Chars
  PROVE  Append(b, c) \in Seq(Chars) /\ Len(Append(b, c)) = Len(b) + 1
  OBVIOUS

LEMMA OneFits == Len(<<>>) <= BufSize /\ Len(<<"*">>) <= BufSize /\ <<>> \in Seq(Chars)
<1>1. BufSize \in Nat \ {0} BY Sizes
<1>2. Len(<<>>) = 0 /\ Len(<<"*">>) = 1 /\ <<>> \in Seq(Chars) OBVIOUS
<1> QED BY <1>1, <1>2

LEMMA TokenIs ==
  ASSUME TypeInv, NEW kind \in Kinds, NEW value \in Seq(Chars)
  PROVE  /\ Token(kind, value) \in Tokens
         /\ Token(kind, value).kind = kind /\ Token(kind, value).value = value
         /\ Token(kind, value).line = start.line /\ Token(kind, value).col = start.col
  BY DEF TypeInv, Types, Token, Tokens, Spots

LEMMA WordIs ==
  ASSUME TypeInv
  PROVE  \E kind \in Kinds : ProcessWord = Token(kind, buf)
<1>1. "keyword" \in Kinds /\ "id" \in Kinds BY DEF Kinds
<1> QED BY <1>1 DEF ProcessWord

LEMMA Delivered ==
  ASSUME TypeInv, state # "done", NEW t \in Tokens, Deliver(t)
  PROVE  /\ tokens' \in Seq(Tokens) /\ tokens' = Append(tokens, t)
         /\ state' \in {"main", "line", "until"}
         /\ buf' = <<>> /\ code' = 0
  BY DEF TypeInv, Types, Buffers, Deliver

LEMMA ScannedTypes ==
  ASSUME TypeInv, NEW s \in States \ {"main", "done"}, NEW got \in Getch(file, reader), Scan(s, got)
  PROVE  /\ file' = file /\ start' = start /\ state = s
         /\ ReaderOK(file, got.reader) /\ got.c \in Chars
         /\ s \in {"WS_START", "WS_WORD", "WS_DIG", "WS_OP", "WS_STRING"} => Len(buf) < BufSize
<1>1. ReaderOK(file, got.reader) /\ got.c \in Chars BY Taken
<1>2. BufSize \in Nat /\ Len(buf) \in Nat BY Sizes DEF TypeInv, Types
<1>3. state = s /\ ~Full /\ file' = file /\ start' = start BY DEF Scan
<1>4. s \in {"WS_START", "WS_WORD", "WS_DIG", "WS_OP", "WS_STRING"} => Len(buf) < BufSize
  BY <1>2, <1>3 DEF Full, InToken
<1> QED BY <1>1, <1>3, <1>4

LEMMA KeepTypes ==
  ASSUME TypeInv, NEW s \in {"WS_START", "WS_WORD", "WS_DIG", "WS_OP"},
         NEW got \in Getch(file, reader),
         Scan(s, got), Keep(got), state' \in {"WS_WORD", "WS_DIG", "WS_OP"}
  PROVE  TypeInv'
<1>1. /\ file \in Files /\ line \in Nat \ {0} /\ col \in Nat \ {0} /\ buf \in Seq(Chars)
      /\ start \in Spots /\ tokens \in Seq(Tokens) /\ code \in {0, 2, 3, 4}
      /\ state # "done" => code = 0
  BY DEF TypeInv, Types, Buffers
<1>2. /\ file' = file /\ start' = start /\ ReaderOK(file, got.reader) /\ got.c \in Chars
      /\ Len(buf) < BufSize /\ state = s
  BY ScannedTypes DEF States
<1>3. buf' \in Seq(Chars) /\ Len(buf') <= BufSize BY <1>1, <1>2, Kept, Sizes DEF Keep
<1> QED BY <1>1, <1>2, <1>3 DEF Keep, TypeInv, Types, Buffers, States

LEMMA GivenBack ==
  ASSUME TypeInv, NEW got \in Getch(file, reader), got.read \/ ~got.reader.error
  PROVE  ReaderOK(file, Ungetch(got.reader, got.c))
<1>1. file \in Seq(Chars) /\ ReaderOK(file, reader) /\ ReaderOK(file, got.reader) BY Taken
<1>2. CASE got.read
  <2>1. /\ got.reader.unget = <<>> /\ got.reader.pos > 0
        /\ Offset(got.reader) = Offset(reader) + 1
        /\ got.c = file[Offset(reader) + 1]
    BY <1>1, <1>2, Reading
  <2>2. got.c = file[Offset(got.reader)] BY <2>1
  <2> QED BY <1>1, <2>1, <2>2, GivingBack
<1>3. CASE ~got.read
  <2>1. got.c = NUL BY <1>1, <1>3, Reading
  <2> QED BY <1>1, <2>1 DEF Ungetch
<1> QED BY <1>2, <1>3

LEMMA Two == ASSUME NEW x, NEW y PROVE Append(<<x>>, y) = <<x, y>>
<1> DEFINE a == Append(<<x>>, y)
           b == <<x, y>>
<1>1. a \in Seq({x, y}) /\ Len(a) = 2 /\ a[1] = x /\ a[2] = y OBVIOUS
<1>2. b \in Seq({x, y}) /\ Len(b) = 2 /\ b[1] = x /\ b[2] = y OBVIOUS
<1>3. Len(a) = Len(b) BY <1>1, <1>2
<1> HIDE DEF a, b
<1>4. \A i \in 1 .. 2 : i = 1 \/ i = 2 OBVIOUS
<1>5. \A i \in 1 .. Len(a) : a[i] = b[i] BY <1>1, <1>2, <1>4
<1>6. a = b BY <1>1, <1>2, <1>3, <1>5, SeqEqual
<1> QED BY <1>6 DEF a, b

LEMMA MatchedIs ==
  ASSUME NEW c, NEW b \in {<<>>, <<"*">>}
  PROVE  /\ b = <<>> => Matched(b, c) = IF c = "*" THEN <<"*">> ELSE <<>>
         /\ b = <<"*">> =>
              Matched(b, c) = IF c = "/" THEN Anchor ELSE IF c = "*" THEN <<"*">> ELSE <<>>
         /\ <<>> # Anchor /\ <<"*">> # Anchor
<1>1. Anchor[1] = "*" /\ Anchor[2] = "/" /\ Len(Anchor) = 2 BY DEF Anchor
<1>2. b = <<>> => Matched(b, c) = IF c = "*" THEN <<"*">> ELSE <<>> BY <1>1 DEF Matched
<1>3. ASSUME b = <<"*">>
      PROVE  Matched(b, c) = IF c = "/" THEN Anchor ELSE IF c = "*" THEN <<"*">> ELSE <<>>
  <2>1. Len(b) + 1 = 2 BY <1>3
  <2>2. Append(b, "/") = Anchor BY <1>3, Two DEF Anchor
  <2> QED BY <1>1, <1>3, <2>1, <2>2 DEF Matched
<1>4. <<>> # Anchor /\ <<"*">> # Anchor BY DEF Anchor
<1> QED BY <1>2, <1>3, <1>4

LEMMA InitTypes == Init => TypeInv
<1> SUFFICES ASSUME Init PROVE TypeInv OBVIOUS
<1>1. file \in Files /\ reader = NewReader /\ line = 1 /\ col = 1 /\ state = "main"
      /\ buf = <<>> /\ start = [line |-> 1, col |-> 1] /\ tokens = <<>> /\ code = 0
  BY DEF Init
<1>2. file \in Seq(Chars) BY <1>1, FilesAssumption
<1>3. ReaderOK(file, reader)
  <2>1. <<>> \in Seq(Chars) /\ Len(<<>>) = 0 /\ 0 \in Nat /\ BlockSize \in Nat /\ Len(file) \in Nat
    BY <1>2, Sizes
  <2>2. reader \in Readers /\ reader.buf = <<>> /\ reader.pos = 0 /\ reader.bufBase = 0
        /\ reader.unget = <<>>
    BY <1>1, <2>1 DEF NewReader, Readers
  <2> QED BY <2>1, <2>2 DEF ReaderOK, FilePos
<1>4. start \in Spots BY <1>1 DEF Spots
<1>5. tokens \in Seq(Tokens) BY <1>1
<1>6. Types BY <1>1, <1>3, <1>4, <1>5, OneFits DEF Types, States
<1>7. Buffers BY <1>1 DEF Buffers
<1> QED BY <1>6, <1>7 DEF TypeInv

LEMMA StepTypes == TypeInv /\ [Next]_vars => TypeInv'
<1> SUFFICES ASSUME TypeInv, [Next]_vars PROVE TypeInv' OBVIOUS
<1>0. /\ file \in Files /\ ReaderOK(file, reader)
      /\ line \in Nat \ {0} /\ col \in Nat \ {0}
      /\ state \in States
      /\ buf \in Seq(Chars) /\ Len(buf) <= BufSize
      /\ start \in Spots /\ tokens \in Seq(Tokens)
      /\ code \in {0, 2, 3, 4}
      /\ state # "done" => code = 0
  BY DEF TypeInv, Types, Buffers
<1>1. CASE NextToken
  <2>1. [line |-> line, col |-> col] \in Spots BY <1>0 DEF Spots
  <2> QED BY <1>0, <1>1, <2>1, OneFits DEF NextToken, TypeInv, Types, Buffers, States, lexer
<1>2. CASE TooLong
  <2> QED BY <1>0, <1>2, OneFits DEF TooLong, End, TypeInv, Types, Buffers, States, lexer
<1>3. CASE NonAscii
  <2>1. PICK got \in Getch(file, reader) : reader' = got.reader BY <1>3 DEF NonAscii
  <2>2. ReaderOK(file, reader') BY <2>1, Taken
  <2> QED BY <1>0, <1>3, <2>2, OneFits DEF NonAscii, End, TypeInv, Types, Buffers, States, lexer
<1>4. CASE StartEnd
  <2>1. PICK got \in Getch(file, reader) :
          /\ Scan("WS_START", got) /\ End(0) /\ reader' = got.reader /\ col' = col + 1
          /\ UNCHANGED <<line, tokens>>
    BY <1>4 DEF StartEnd
  <2>2. ReaderOK(file, reader') /\ file' = file /\ start' = start
    BY <2>1, Taken DEF Scan
  <2> QED BY <1>0, <2>1, <2>2, OneFits DEF End, TypeInv, Types, Buffers, States
<1>5. CASE StartSpace
  <2>1. PICK got \in Getch(file, reader) :
          /\ Scan("WS_START", got) /\ Deliver(Token("space", <<>>))
          /\ reader' = got.reader /\ col' = col + 1 /\ line' = line
    BY <1>5 DEF StartSpace
  <2>2. ReaderOK(file, reader') /\ file' = file /\ start' = start /\ state = "WS_START"
    BY <2>1, Taken DEF Scan
  <2>3. Token("space", <<>>) \in Tokens BY TokenIs, OneFits DEF Kinds
  <2>4. /\ tokens' \in Seq(Tokens) /\ state' \in {"main", "line", "until"}
        /\ buf' = <<>> /\ code' = 0
    BY <2>1, <2>2, <2>3, Delivered
  <2> QED BY <1>0, <2>1, <2>2, <2>4, OneFits DEF TypeInv, Types, Buffers, States
<1>6. CASE StartString
  <2>1. PICK got \in Getch(file, reader) :
          /\ Scan("WS_START", got) /\ state' = "WS_STRING"
          /\ reader' = got.reader /\ col' = col + 1
          /\ UNCHANGED <<buf, line, tokens, code>>
    BY <1>6 DEF StartString
  <2>2. ReaderOK(file, reader') /\ file' = file /\ start' = start /\ state = "WS_START"
    BY <2>1, Taken DEF Scan
  <2> QED BY <1>0, <2>1, <2>2 DEF TypeInv, Types, Buffers, States
<1>7. CASE StartOther
  <2>1. PICK got \in Getch(file, reader) :
          /\ Scan("WS_START", got) /\ Keep(got)
          /\ state' \in {"WS_WORD", "WS_DIG", "WS_OP"}
    BY <1>7 DEF StartOther
  <2> QED BY <2>1, KeepTypes DEF States
<1>8. CASE GoOn
  <2>1. PICK got \in Getch(file, reader), s \in {"WS_WORD", "WS_DIG", "WS_OP"} :
          Scan(s, got) /\ Keep(got) /\ state' = state
    BY <1>8 DEF GoOn
  <2>2. state' \in {"WS_WORD", "WS_DIG", "WS_OP"} BY <2>1 DEF Scan
  <2> QED BY <2>1, <2>2, KeepTypes DEF States
<1>9. CASE Stop
  <2>1. PICK got \in Getch(file, reader), s \in {"WS_WORD", "WS_DIG", "WS_OP"} :
          /\ Scan(s, got)
          /\ reader' = Ungetch(got.reader, got.c)
          /\ Deliver(IF state = "WS_DIG" THEN Token("number", buf) ELSE ProcessWord)
          /\ IF state = "WS_OP" /\ buf = <<NL>>
             THEN line' = line + 1 /\ col' = 1 ELSE UNCHANGED lexer
    BY <1>9 DEF Stop
  <2>2. file' = file /\ start' = start /\ state = s BY <2>1 DEF Scan
  <2>3. got.read \/ ~got.reader.error BY <2>1 DEF Scan, Reads
  <2>4. ReaderOK(file, reader') BY <2>1, <2>3, GivenBack
  <2> DEFINE t == IF state = "WS_DIG" THEN Token("number", buf) ELSE ProcessWord
  <2>5. t \in Tokens
    <3>1. "number" \in Kinds BY DEF Kinds
    <3>2. Token("number", buf) \in Tokens BY <1>0, <3>1, TokenIs
    <3>3. ProcessWord \in Tokens BY <1>0, WordIs, TokenIs
    <3> QED BY <3>2, <3>3
  <2>6. Deliver(t) BY <2>1
  <2> HIDE DEF t
  <2>7. /\ tokens' \in Seq(Tokens) /\ state' \in {"main", "line", "until"}
        /\ buf' = <<>> /\ code' = 0
    BY <2>2, <2>5, <2>6, Delivered
  <2>8. line' \in Nat \ {0} /\ col' \in Nat \ {0} BY <1>0, <2>1 DEF lexer
  <2> QED BY <1>0, <2>2, <2>4, <2>7, <2>8, OneFits DEF TypeInv, Types, Buffers, States
<1>10. CASE StringEnd
  <2>1. PICK got \in Getch(file, reader) :
          /\ Scan("WS_STRING", got) /\ Deliver(Token("string", buf))
          /\ reader' = got.reader /\ col' = col + 1 /\ line' = line
    BY <1>10 DEF StringEnd
  <2>2. ReaderOK(file, reader') /\ file' = file /\ start' = start /\ state = "WS_STRING"
    BY <2>1, Taken DEF Scan
  <2>3. Token("string", buf) \in Tokens BY <1>0, TokenIs DEF Kinds
  <2>4. /\ tokens' \in Seq(Tokens) /\ state' \in {"main", "line", "until"}
        /\ buf' = <<>> /\ code' = 0
    BY <2>1, <2>2, <2>3, Delivered
  <2> QED BY <1>0, <2>1, <2>2, <2>4, OneFits DEF TypeInv, Types, Buffers, States
<1>11. CASE StringChar
  <2>1. PICK got \in Getch(file, reader) :
          /\ Scan("WS_STRING", got)
          /\ buf' = Append(buf, got.c) /\ reader' = got.reader
          /\ IF got.c = NL THEN line' = line + 1 /\ col' = 1 ELSE col' = col + 1 /\ UNCHANGED line
          /\ UNCHANGED <<state, tokens, code>>
    BY <1>11 DEF StringChar
  <2>2. /\ ReaderOK(file, reader') /\ file' = file /\ start' = start /\ state = "WS_STRING"
        /\ got.c \in Chars /\ Len(buf) < BufSize
    BY <2>1, ScannedTypes DEF States
  <2>3. buf' \in Seq(Chars) /\ Len(buf') <= BufSize BY <1>0, <2>1, <2>2, Kept, Sizes
  <2>4. line' \in Nat \ {0} /\ col' \in Nat \ {0} BY <1>0, <2>1
  <2>5. state' = "WS_STRING" /\ tokens' = tokens /\ code' = code BY <2>1, <2>2
  <2> QED BY <1>0, <2>2, <2>3, <2>4, <2>5 DEF TypeInv, Types, Buffers
<1>12. CASE SkipLine
  <2>1. PICK got \in Getch(file, reader) :
          /\ Reads(got)
          /\ reader' \in {got.reader, Ungetch(got.reader, got.c)}
          /\ state' \in {"main", state} /\ col' \in {col, col + 1}
    BY <1>12 DEF SkipLine
  <2>2. state = "line" /\ UNCHANGED <<file, line, buf, start, tokens, code>>
    BY <1>12 DEF SkipLine
  <2>3. ReaderOK(file, reader') BY <2>1, Taken, GivenBack DEF Reads
  <2>4. buf = <<>> BY <2>2 DEF TypeInv, Buffers
  <2>5. col' \in Nat \ {0} BY <1>0, <2>1
  <2> QED BY <1>0, <2>1, <2>2, <2>3, <2>4, <2>5 DEF TypeInv, Types, Buffers, States
<1>13. CASE SkipUntil
  <2>1. PICK got \in Getch(file, reader) :
       /\ reader' = got.reader
       /\ IF ~got.read THEN End(4) /\ UNCHANGED lexer
          ELSE /\ IF got.c = NL THEN line' = line + 1 /\ col' = 1
                  ELSE col' = col + 1 /\ UNCHANGED line
               /\ IF Matched(buf, got.c) = Anchor
                  THEN state' = "main" /\ buf' = <<>>
                  ELSE buf' = Matched(buf, got.c) /\ UNCHANGED state
               /\ UNCHANGED code
    BY <1>13 DEF SkipUntil
  <2>2. state = "until" /\ UNCHANGED <<file, start, tokens>> BY <1>13 DEF SkipUntil
  <2>3. ReaderOK(file, reader') BY <2>1, Taken
  <2>4. line' \in Nat \ {0} /\ col' \in Nat \ {0} BY <1>0, <2>1 DEF lexer
  <2>5. buf \in {<<>>, <<"*">>} BY <2>2 DEF TypeInv, Buffers
  <2>6. Matched(buf, got.c) # Anchor =>
          Matched(buf, got.c) = <<>> \/ (Matched(buf, got.c) = <<"*">> /\ got.c = "*")
    BY <2>5, MatchedIs
  <2>7. CASE ~got.read
    BY <1>0, <2>1, <2>2, <2>3, <2>4, <2>7, OneFits DEF End, TypeInv, Types, Buffers, States
  <2>8. CASE got.read
    <3>1. /\ \/ state' = "main" /\ buf' = <<>>
             \/ state' = "until" /\ (buf' = <<>> \/ (buf' = <<"*">> /\ got.c = "*"))
          /\ code' = code
      BY <2>1, <2>2, <2>6, <2>8
    <3>2. got.c \in Chars BY <2>1, Taken
    <3>3. buf' = <<"*">> => buf' \in Seq(Chars) BY <3>1, <3>2
    <3>4. buf' \in Seq(Chars) /\ Len(buf') <= BufSize BY <3>1, <3>3, OneFits
    <3> QED BY <1>0, <2>2, <2>3, <2>4, <3>1, <3>4 DEF TypeInv, Types, Buffers, States
  <2> QED BY <2>7, <2>8
<1>14. CASE ReadFails
  <2>1. PICK got \in Getch(file, reader) : reader' = got.reader BY <1>14 DEF ReadFails
  <2>2. ReaderOK(file, reader') BY <2>1, Taken
  <2>3. /\ state' = "done" /\ buf' = <<>> /\ code' \in {2, 3, 4}
        /\ UNCHANGED <<file, lexer, start, tokens>>
    BY <1>14 DEF ReadFails, End
  <2> QED BY <1>0, <2>2, <2>3, OneFits DEF TypeInv, Types, Buffers, States, lexer
<1>15. CASE UNCHANGED vars
  BY <1>15 DEF vars, lexer, TypeInv, Types, Buffers
<1> QED BY <1>1, <1>2, <1>3, <1>4, <1>5, <1>6, <1>7, <1>8, <1>9, <1>10, <1>11, <1>12, <1>13,
           <1>14, <1>15 DEF Next, Lexes

(***************************************************************************)
(* The tokens that were printed.                                           *)
(***************************************************************************)
LEMMA SameFile ==
  ASSUME file' = file
  PROVE  /\ \A p : LineOf(p)' = LineOf(p) /\ ColOf(p)' = ColOf(p)
         /\ \A t : PlaceOf(t)' = PlaceOf(t) /\ Behind(t)' = Behind(t) /\ Ends(t)' = Ends(t)
         /\ \A t : InPlace(t)' <=> InPlace(t)
         /\ \A t : Longest(t)' <=> Longest(t)
         /\ \A w, p : IsAt(w, p)' <=> IsAt(w, p)
         /\ Clean' <=> Clean
<1>1. \A p : LineOf(p)' = LineOf(p) /\ ColOf(p)' = ColOf(p) BY DEF LineOf, ColOf
<1>2. \A t : PlaceOf(t)' = PlaceOf(t) BY <1>1 DEF PlaceOf
<1>3. \A t : Behind(t)' = Behind(t) BY <1>2 DEF Behind
<1>4. \A t, p : CommentEnd(t, p)' = CommentEnd(t, p) BY DEF CommentEnd
<1>5. \A t : Ends(t)' = Ends(t) BY <1>3, <1>4 DEF Ends
<1>6. \A t : InPlace(t)' <=> InPlace(t) BY <1>2 DEF InPlace
<1>7. \A t : Longest(t)' <=> Longest(t) BY <1>3 DEF Longest
<1>8. \A w, p : IsAt(w, p)' <=> IsAt(w, p) BY DEF IsAt
<1>9. Clean' <=> Clean BY DEF Clean
<1> QED BY <1>1, <1>2, <1>3, <1>5, <1>6, <1>7, <1>8, <1>9

LEMMA SameTokens ==
  ASSUME file' = file, tokens' = tokens
  PROVE  (Printed' <=> Printed) /\ Expected' = Expected
<1>1. Expected' = Expected BY SameFile DEF Expected
<1>2. \A k : Follows(k)' <=> Follows(k) BY SameFile DEF Follows
<1>3. Printed' <=> Printed BY <1>2, SameFile DEF Printed
<1> QED BY <1>1, <1>3

(* A spelling that is in the text where the token says.                    *)
LEMMA Spelled ==
  ASSUME file \in Seq(Chars), NEW t, NEW p \in Nat \ {0},
         t.line = LineOf(p), t.col = ColOf(p),
         NEW w \in Seq(Chars), IsAt(w, p), w \in Spellings(t),
         \A v \in Spellings(t) : Len(v) = Len(w)
  PROVE  PlaceOf(t) = p /\ Behind(t) = p + Len(w) /\ InPlace(t)
<1>1. Len(file) \in Nat /\ Len(w) \in Nat /\ p + Len(w) <= Len(file) + 1 BY DEF IsAt
<1>2. p \in 1 .. Len(file) + 1 BY <1>1
<1>3. PlaceOf(t) = p BY <1>1, <1>2, PlaceIs
<1>4. Behind(t) = p + Len(w)
  <2>1. (CHOOSE s \in Spellings(t) : TRUE) \in Spellings(t) OBVIOUS
  <2> QED BY <1>3, <2>1 DEF Behind
<1>5. IsPrefix(w, SubSeq(file, p, Len(file)))
  <2> DEFINE r == SubSeq(file, p, Len(file))
  <2>1. r \in Seq(Chars) /\ Len(r) = Len(file) - p + 1
        /\ \A i \in 1 .. Len(r) : r[i] = file[p + i - 1]
    BY <1>1, <1>2
  <2>2. Len(w) <= Len(r) BY <1>1, <1>2, <2>1
  <2> HIDE DEF r
  <2>3. /\ SubSeq(r, 1, Len(w)) \in Seq(Chars) /\ Len(SubSeq(r, 1, Len(w))) = Len(w)
        /\ \A i \in 1 .. Len(w) : SubSeq(r, 1, Len(w))[i] = r[i]
    BY <1>1, <2>1, <2>2
  <2>4. SubSeq(w, 1, Len(w)) = w BY <1>1
  <2>5. \A i \in 1 .. Len(w) : SubSeq(r, 1, Len(w))[i] = w[i]
    <3>1. \A i \in 1 .. Len(w) : file[p + i - 1] = w[i] BY DEF IsAt
    <3>2. \A i \in 1 .. Len(w) : i \in 1 .. Len(r) BY <1>1, <2>1, <2>2
    <3> QED BY <2>1, <2>3, <3>1, <3>2
  <2>6. SubSeq(r, 1, Len(w)) = w BY <2>3, <2>5, SeqEqual
  <2> QED BY <2>2, <2>4, <2>6 DEF r, IsPrefix
<1> QED BY <1>2, <1>3, <1>4, <1>5 DEF InPlace

LEMMA LastOf ==
  ASSUME NEW S, NEW q \in Seq(S), NEW x \in S
  PROVE  /\ Last(Append(q, x)) = x /\ Append(q, x) # <<>>
         /\ Len(q) \in Nat /\ Len(Append(q, x)) = Len(q) + 1
         /\ \A k \in DOMAIN Append(q, x) : k \in DOMAIN q \/ k = Len(q) + 1
         /\ \A k \in DOMAIN q : Append(q, x)[k] = q[k]
         /\ Append(q, x)[Len(q) + 1] = x
<1>1. Append(q, x) # <<>>
  <2>1. Len(Append(q, x)) # 0 OBVIOUS
  <2>2. Len(<<>>) = 0 OBVIOUS
  <2> QED BY <2>1, <2>2, Zenon
<1>2. Last(Append(q, x)) = x BY DEF Last
<1>3. Len(q) \in Nat /\ Len(Append(q, x)) = Len(q) + 1 OBVIOUS
<1>4. \A k \in DOMAIN Append(q, x) : k \in DOMAIN q \/ k = Len(q) + 1 OBVIOUS
<1> QED BY <1>1, <1>2, <1>3, <1>4

LEMMA LastIs ==
  ASSUME NEW S, NEW q \in Seq(S), q # <<>>
  PROVE  Len(q) \in DOMAIN q /\ Last(q) = q[Len(q)] /\ Last(q) \in S
  BY DEF Last

LEMMA NoneBehind ==
  ASSUME NEW n \in Nat \ {0}
  PROVE  (\A k \in n .. n - 1 : FALSE) /\ (\A k \in n .. n - 2 : FALSE)
  OBVIOUS

LEMMA NotSpelled ==
  /\ LineComment # BlockComment
  /\ \A t, s, r : Opens(t, s) /\ s # r => ~Opens(t, r)
<1>1. LineComment[2] # BlockComment[2] BY DEF LineComment, BlockComment
<1> QED BY <1>1 DEF Opens

(* Where the text goes on behind a token.                                  *)
LEMMA EndsAre ==
  ASSUME NEW t
  PROVE  /\ ~Opens(t, LineComment) /\ ~Opens(t, BlockComment) => Ends(t) = Behind(t)
         /\ Opens(t, LineComment) =>
              Ends(t) = Min({Len(file) + 1} \cup {k \in Behind(t) .. Len(file) : file[k] = NL})
         /\ Opens(t, BlockComment) =>
              Ends(t) = Min({Len(file) + 2} \cup
                            {k + 2 : k \in {j \in Behind(t) .. Len(file) - 1 :
                                              file[j] = "*" /\ file[j + 1] = "/"}})
<1>1. Ends(t) =
        IF Opens(t, LineComment)
        THEN Min({Len(file) + 1} \cup {k \in Behind(t) .. Len(file) : file[k] = NL})
        ELSE IF Opens(t, BlockComment)
        THEN Min({Len(file) + 2} \cup
                 {k + 2 : k \in {j \in Behind(t) .. Len(file) - 1 :
                                   file[j] = "*" /\ file[j + 1] = "/"}})
        ELSE Behind(t)
  BY DEF Ends, CommentEnd, Opens, LineComment, BlockComment
<1> QED BY <1>1, NotSpelled

(* A token that was read in its place, to its end, keeps the invariant.    *)
LEMMA Printing ==
  ASSUME TypeInv, Printed, file' = file, state # "done",
         NEW t \in Tokens, Deliver(t), InPlace(t), Longest(t),
         PlaceOf(t) = Expected, Behind(t) = Here', Here' \in Nat \ {0},
         line' = LineOf(Here') /\ col' = ColOf(Here')
  PROVE  Placed'
<1>0. tokens \in Seq(Tokens) BY DEF TypeInv, Types
<1>1. /\ tokens' \in Seq(Tokens) /\ tokens' = Append(tokens, t)
      /\ state' \in {"main", "line", "until"} /\ buf' = <<>> /\ code' = 0
  BY Delivered
<1>2. /\ Last(tokens') = t /\ tokens' # <<>> /\ Len(tokens) \in Nat
      /\ \A k \in DOMAIN tokens' : k \in DOMAIN tokens \/ k = Len(tokens) + 1
      /\ \A k \in DOMAIN tokens : tokens'[k] = tokens[k]
      /\ tokens'[Len(tokens) + 1] = t
  BY <1>0, <1>1, LastOf
<1>3. Printed'
  <2> SUFFICES ASSUME NEW k \in DOMAIN tokens'
               PROVE  /\ InPlace(tokens'[k]) /\ Longest(tokens'[k])
                      /\ PlaceOf(tokens'[k]) = IF k = 1 THEN 1 ELSE Ends(tokens'[k - 1])
    BY SameFile DEF Printed, Follows
  <2>1. CASE k \in DOMAIN tokens
    <3>1. InPlace(tokens[k]) /\ Longest(tokens[k]) /\ Follows(k) BY <2>1 DEF Printed
    <3>2. k # 1 => k - 1 \in DOMAIN tokens BY <1>0, <2>1
    <3> QED BY <1>2, <2>1, <3>1, <3>2 DEF Follows
  <2>2. CASE k = Len(tokens) + 1
    <3>1. tokens'[k] = t BY <1>2, <2>2
    <3>2. CASE tokens = <<>>
      <4>1. k = 1 BY <2>2, <3>2
      <4> QED BY <3>1, <3>2, <4>1 DEF Expected
    <3>3. CASE tokens # <<>>
      <4>1. Len(tokens) \in DOMAIN tokens /\ Last(tokens) = tokens[Len(tokens)]
        BY <1>0, <3>3, LastIs
      <4>2. k # 1 /\ k - 1 = Len(tokens) BY <1>0, <1>2, <2>2, <4>1
      <4>3. tokens'[k - 1] = Last(tokens) BY <1>2, <4>1, <4>2
      <4> QED BY <3>1, <3>3, <4>2, <4>3 DEF Expected
    <3> QED BY <3>2, <3>3
  <2> QED BY <1>2, <2>1, <2>2
<1>4. At(Here)' BY SameFile DEF At
<1>5. Between'
  <2> SUFFICES ASSUME state' = "main" PROVE Here' = Expected' BY <1>4 DEF Between
  <2>1. ~Opens(t, LineComment) /\ ~Opens(t, BlockComment)
    BY DEF Deliver, Opens, LineComment, BlockComment
  <2>2. Ends(t) = Here' BY <2>1, EndsAre
  <2> QED BY <1>2, <2>2, SameFile DEF Expected
<1>6. InLine'
  <2> SUFFICES ASSUME state' = "line"
               PROVE  /\ Opens(t, LineComment) /\ Behind(t) \in Nat \ {0} /\ Behind(t) <= Here'
                      /\ \A k \in Behind(t) .. Here' - 1 : file[k] # NL
    BY <1>2, <1>4, SameFile DEF InLine, Opens
  <2>1. Opens(t, LineComment) BY DEF Deliver, Opens, LineComment
  <2>2. \A k \in Behind(t) .. Here' - 1 : FALSE BY NoneBehind
  <2>3. Behind(t) <= Here' OBVIOUS
  <2> QED BY <2>1, <2>2, <2>3
<1>7. InUntil'
  <2> SUFFICES ASSUME state' = "until"
               PROVE  /\ Opens(t, BlockComment) /\ Behind(t) \in Nat \ {0} /\ Behind(t) <= Here'
                      /\ \A j \in Behind(t) .. Here' - 2 : ~ (file[j] = "*" /\ file[j + 1] = "/")
                      /\ ~ (Behind(t) < Here') /\ buf' # <<"*">>
    BY <1>2, <1>4, SameFile DEF InUntil, Opens
  <2>1. Opens(t, BlockComment) BY DEF Deliver, Opens, BlockComment
  <2>2. \A k \in Behind(t) .. Here' - 2 : FALSE BY NoneBehind
  <2>3. Behind(t) <= Here' /\ ~ (Behind(t) < Here') OBVIOUS
  <2>4. buf' # <<"*">> BY <1>1
  <2> QED BY <2>1, <2>2, <2>3, <2>4
<1>8. AtStart' /\ InWord' /\ InString' /\ AtEnd'
  BY <1>1 DEF AtStart, InWord, InString, AtEnd
<1> QED BY <1>3, <1>5, <1>6, <1>7, <1>8 DEF Placed

(***************************************************************************)
(* The places are kept.                                                    *)
(***************************************************************************)
LEMMA NextChar ==
  ASSUME TypeInv, Clean, NEW got \in Getch(file, reader)
  PROVE  /\ Here \in Nat \ {0} /\ Here <= Len(file) + 1 /\ Len(file) \in Nat
         /\ got.read =>
              /\ Here <= Len(file) /\ got.c = file[Here] /\ got.c # NUL
              /\ Offset(got.reader) + 1 = Here + 1
              /\ Offset(Ungetch(got.reader, got.c)) + 1 = Here
         /\ ~got.read =>
              /\ got.c = NUL
              /\ ~got.reader.error =>
                   /\ got.reader = reader /\ Ungetch(got.reader, got.c) = reader
                   /\ Here = Len(file) + 1 /\ Stuck
<1>1. file \in Seq(Chars) /\ ReaderOK(file, reader) /\ ReaderOK(file, got.reader) BY Taken
<1>2. Offset(reader) \in Nat /\ Offset(reader) <= Len(file) /\ Len(file) \in Nat
  BY <1>1, Reading
<1>3. Here \in Nat \ {0} /\ Here <= Len(file) + 1 BY <1>2 DEF Here
<1>4. ASSUME got.read
      PROVE  /\ Here <= Len(file) /\ got.c = file[Here] /\ got.c # NUL
             /\ Offset(got.reader) + 1 = Here + 1
             /\ Offset(Ungetch(got.reader, got.c)) + 1 = Here
  <2>1. /\ Offset(got.reader) = Offset(reader) + 1
        /\ Offset(reader) < Len(file) /\ got.c = file[Offset(reader) + 1]
        /\ got.reader.unget = <<>> /\ got.reader.pos > 0
    BY <1>1, <1>4, Reading
  <2>2. got.c = file[Here] /\ Here <= Len(file) BY <1>2, <2>1 DEF Here
  <2>3. got.c # NUL
    <3>1. Here \in DOMAIN file BY <1>1, <1>2, <1>3, <2>2
    <3> QED BY <2>2, <3>1 DEF Clean, Range
  <2>4. got.c = file[Offset(got.reader)] BY <2>1
  <2>5. Offset(Ungetch(got.reader, got.c)) = Offset(got.reader) - 1
    BY <1>1, <2>1, <2>3, <2>4, GivingBack
  <2> QED BY <1>2, <2>1, <2>2, <2>3, <2>5 DEF Here
<1>5. ASSUME ~got.read
      PROVE  /\ got.c = NUL
             /\ ~got.reader.error =>
                  /\ got.reader = reader /\ Ungetch(got.reader, got.c) = reader
                  /\ Here = Len(file) + 1 /\ Stuck
  <2>1. got.c = NUL BY <1>1, <1>5, Reading
  <2>2. ~got.reader.error =>
           got.reader = reader /\ Offset(reader) = Len(file) /\ reader.unget = <<>>
    BY <1>1, <1>5, Reading
  <2>3. Ungetch(got.reader, got.c) = got.reader BY <2>1 DEF Ungetch
  <2> QED BY <2>1, <2>2, <2>3 DEF Here, Stuck
<1> QED BY <1>2, <1>3, <1>4, <1>5

LEMMA Parts ==
  ASSUME Clean, Placed
  PROVE  /\ Printed
         /\ Between /\ AtStart /\ InWord /\ InString /\ InLine /\ InUntil /\ AtEnd
  BY DEF Placed

(* The line and the column move with the character.                        *)
LEMMA Moves ==
  ASSUME NEW p \in Nat \ {0}, At(p)
  PROVE  /\ file[p] # NL => line = LineOf(p + 1) /\ col + 1 = ColOf(p + 1)
         /\ file[p] = NL => line + 1 = LineOf(p + 1) /\ ColOf(p + 1) = 1
  BY PlacesAre DEF At

LEMMA Finishing ==
  ASSUME Printed, file' = file, tokens' = tokens, state' = "done",
         code' = 0 => Offset(reader') = Len(file),
         code' = 4 /\ ~reader'.error => Expected > Len(file) + 1
  PROVE  Placed'
<1>1. Printed' /\ Expected' = Expected BY SameTokens
<1>2. AtEnd' BY <1>1 DEF AtEnd
<1>3. Between' /\ AtStart' /\ InWord' /\ InString' /\ InLine' /\ InUntil'
  BY DEF Between, AtStart, InWord, InString, InLine, InUntil
<1> QED BY <1>1, <1>2, <1>3 DEF Placed

LEMMA PlacedNextToken == TypeInv /\ Clean /\ Placed /\ NextToken => Placed'
<1> SUFFICES ASSUME TypeInv, Clean, Placed, NextToken PROVE Placed' OBVIOUS
<1>1. /\ state = "main" /\ state' = "WS_START" /\ start' = [line |-> line, col |-> col]
      /\ UNCHANGED <<file, reader, lexer, tokens, code>>
  BY DEF NextToken
<1>2. At(Here) /\ Here = Expected /\ Printed BY <1>1, Parts DEF Between
<1>3. Printed' /\ Expected' = Expected /\ Here' = Here BY <1>1, <1>2, SameTokens DEF Here
<1>4. AtStart' BY <1>1, <1>2, <1>3, SameFile DEF AtStart, At, From, lexer
<1>5. Between' /\ InWord' /\ InString' /\ InLine' /\ InUntil' /\ AtEnd'
  BY <1>1 DEF Between, InWord, InString, InLine, InUntil, AtEnd
<1> QED BY <1>3, <1>4, <1>5 DEF Placed

LEMMA PlacedFailing == TypeInv /\ Clean /\ Placed /\ (TooLong \/ NonAscii \/ ReadFails) => Placed'
<1> SUFFICES ASSUME TypeInv, Clean, Placed, TooLong \/ NonAscii \/ ReadFails PROVE Placed' OBVIOUS
<1>1. Printed BY Parts
<1>2. CASE TooLong BY <1>1, <1>2, Finishing DEF TooLong, End
<1>3. CASE NonAscii BY <1>1, <1>3, Finishing DEF NonAscii, End
<1>4. CASE ReadFails
  <2>1. PICK got \in Getch(file, reader) : got.reader.error /\ reader' = got.reader
    BY <1>4 DEF ReadFails
  <2>2. file' = file /\ tokens' = tokens /\ state' = "done" /\ code' \in {2, 3, 4}
    BY <1>4 DEF ReadFails, End
  <2> QED BY <1>1, <2>1, <2>2, Finishing
<1> QED BY <1>2, <1>3, <1>4

LEMMA PlacedStartEnd == TypeInv /\ Clean /\ Placed /\ StartEnd => Placed'
<1> SUFFICES ASSUME TypeInv, Clean, Placed, StartEnd PROVE Placed' OBVIOUS
<1>1. PICK got \in Getch(file, reader) :
        /\ Scan("WS_START", got) /\ ~got.read
        /\ End(0) /\ reader' = got.reader /\ tokens' = tokens
  BY DEF StartEnd
<1>2. file' = file /\ ~got.reader.error BY <1>1 DEF Scan, Reads
<1>3. got.reader = reader /\ Offset(reader) = Len(file) BY <1>1, <1>2, NextChar DEF Stuck
<1> QED BY <1>1, <1>2, <1>3, Parts, Finishing DEF End

LEMMA OneChar ==
  ASSUME file \in Seq(Chars), NEW p \in Nat \ {0}, p <= Len(file), NEW c, file[p] = c
  PROVE  IsAt(<<c>>, p) /\ Len(<<c>>) = 1
<1>1. Len(<<c>>) = 1 /\ p + 1 <= Len(file) + 1 OBVIOUS
<1>2. \A i \in DOMAIN <<c>> : p + i - 1 = p /\ <<c>>[i] = c OBVIOUS
<1> QED BY <1>1, <1>2 DEF IsAt

LEMMA PlacedStartSpace == TypeInv /\ Clean /\ Placed /\ StartSpace => Placed'
<1> SUFFICES ASSUME TypeInv, Clean, Placed, StartSpace PROVE Placed' OBVIOUS
<1> DEFINE t == Token("space", <<>>)
<1>1. PICK got \in Getch(file, reader) :
        /\ Scan("WS_START", got) /\ got.c \in Blanks
        /\ Deliver(t) /\ reader' = got.reader /\ col' = col + 1 /\ line' = line
  BY DEF StartSpace
<1>2. file' = file /\ state = "WS_START" BY <1>1 DEF Scan
<1>3. t \in Tokens /\ t.kind = "space" /\ t.line = start.line /\ t.col = start.col
  BY TokenIs, OneFits DEF Kinds
<1> HIDE DEF t
<1>4. Printed /\ At(Here) /\ From(Here) /\ Here = Expected BY <1>2, Parts DEF AtStart
<1>5. /\ got.read /\ Here \in Nat \ {0} /\ Here <= Len(file) /\ file[Here] = got.c
      /\ Here' = Here + 1 /\ got.c # NL
  <2>1. got.c # NUL /\ got.c # NL BY <1>1, CharsDiffer
  <2> QED BY <1>1, <2>1, NextChar DEF Here
<1>6. file \in Seq(Chars) /\ got.c \in Chars BY Taken
<1>7. IsAt(<<got.c>>, Here) /\ Len(<<got.c>>) = 1 BY <1>5, <1>6, OneChar
<1>8. Spellings(t) = {<<c>> : c \in Blanks} BY <1>3 DEF Spellings
<1>9. <<got.c>> \in Spellings(t) /\ \A v \in Spellings(t) : Len(v) = Len(<<got.c>>)
  BY <1>1, <1>8
<1>10. t.line = LineOf(Here) /\ t.col = ColOf(Here) BY <1>3, <1>4 DEF From
<1>11. <<got.c>> \in Seq(Chars) BY <1>6
<1>12. PlaceOf(t) = Here /\ Behind(t) = Here + 1 /\ InPlace(t)
  BY <1>5, <1>6, <1>7, <1>9, <1>10, <1>11, Spelled
<1>13. Longest(t) BY <1>3 DEF Longest
<1>14. line' = LineOf(Here') /\ col' = ColOf(Here') BY <1>1, <1>4, <1>5, Moves
<1>15. Here' \in Nat \ {0} BY <1>5
<1> QED BY <1>1, <1>2, <1>3, <1>4, <1>5, <1>12, <1>13, <1>14, <1>15, Printing

LEMMA PlacedStartString == TypeInv /\ Clean /\ Placed /\ StartString => Placed'
<1> SUFFICES ASSUME TypeInv, Clean, Placed, StartString PROVE Placed' OBVIOUS
<1>1. PICK got \in Getch(file, reader) :
        /\ Scan("WS_START", got) /\ got.c = Quote
        /\ state' = "WS_STRING" /\ reader' = got.reader /\ col' = col + 1
        /\ UNCHANGED <<buf, line, tokens, code>>
  BY DEF StartString
<1>2. file' = file /\ start' = start /\ state = "WS_START" BY <1>1 DEF Scan
<1>3. Printed /\ At(Here) /\ From(Here) /\ Here = Expected BY <1>2, Parts DEF AtStart
<1>4. /\ got.read /\ Here \in Nat \ {0} /\ Here <= Len(file) /\ file[Here] = got.c
      /\ Here' = Here + 1 /\ got.c # NL
  <2>1. got.c # NUL /\ got.c # NL BY <1>1, CharsDiffer
  <2> QED BY <1>1, <2>1, NextChar DEF Here
<1>5. Printed' /\ Expected' = Expected BY <1>1, <1>2, <1>3, SameTokens
<1>6. file \in Seq(Chars) BY Taken
<1>7. IsAt(<<Quote>>, Here) BY <1>1, <1>4, <1>6, OneChar
<1>8. buf = <<>> BY <1>2 DEF TypeInv, Buffers
<1>9. IsAt(buf, Here + 1) /\ Len(buf) = 0
  BY <1>4, <1>6, <1>8 DEF IsAt
<1>10. line = LineOf(Here + 1) /\ col + 1 = ColOf(Here + 1) BY <1>3, <1>4, Moves
<1>11. At(Here)' BY <1>1, <1>2, <1>4, <1>10, SameFile DEF At
<1>12. From(Expected)' BY <1>2, <1>3, <1>5, SameFile DEF From
<1>13. Here' = Expected + 1 + Len(buf) BY <1>3, <1>4, <1>9
<1>14. IsAt(<<Quote>>, Expected)' /\ IsAt(buf, Expected + 1)'
  BY <1>1, <1>2, <1>3, <1>5, <1>7, <1>9, SameFile
<1>15. InString'
  BY <1>1, <1>3, <1>4, <1>5, <1>11, <1>12, <1>13, <1>14 DEF InString
<1>16. Between' /\ AtStart' /\ InWord' /\ InLine' /\ InUntil' /\ AtEnd'
  BY <1>1 DEF Between, AtStart, InWord, InLine, InUntil, AtEnd
<1> QED BY <1>5, <1>15, <1>16 DEF Placed

(* A buffer that is in the text, with the character behind it.             *)
LEMMA Grows ==
  ASSUME file \in Seq(Chars), NEW b \in Seq(Chars), NEW p \in Nat \ {0}, IsAt(b, p),
         NEW c \in Chars, p + Len(b) <= Len(file), file[p + Len(b)] = c
  PROVE  /\ IsAt(Append(b, c), p) /\ Len(Append(b, c)) = Len(b) + 1
         /\ Append(b, c) # <<>>
         /\ Append(b, c)[1] = IF b = <<>> THEN c ELSE b[1]
         /\ \A i \in DOMAIN Append(b, c) : Append(b, c)[i] = c \/ (i \in DOMAIN b /\ Append(b, c)[i] = b[i])
         /\ b # <<>> => Append(b, c) # <<NL>>
<1> DEFINE a == Append(b, c)
<1>1. /\ Len(a) = Len(b) + 1 /\ Len(b) \in Nat /\ a \in Seq(Chars)
      /\ \A i \in 1 .. Len(b) : a[i] = b[i]
      /\ a[Len(b) + 1] = c
  OBVIOUS
<1>2. \A i \in 1 .. Len(b) : file[p + i - 1] = b[i] BY DEF IsAt
<1> HIDE DEF a
<1>3. \A i \in DOMAIN a : i \in 1 .. Len(b) \/ i = Len(b) + 1 BY <1>1
<1>4. \A i \in DOMAIN a : file[p + i - 1] = a[i]
  <2> SUFFICES ASSUME NEW i \in DOMAIN a PROVE file[p + i - 1] = a[i] OBVIOUS
  <2>1. CASE i \in 1 .. Len(b) BY <1>1, <1>2, <2>1
  <2>2. CASE i = Len(b) + 1
    <3>1. p + i - 1 = p + Len(b) BY <1>1, <2>2
    <3> QED BY <1>1, <2>2, <3>1
  <2> QED BY <1>3, <2>1, <2>2
<1>5. p + Len(a) <= Len(file) + 1 BY <1>1
<1>6. IsAt(a, p) BY <1>4, <1>5 DEF IsAt
<1>7. b = <<>> => Len(b) = 0 OBVIOUS
<1>8. b # <<>> => 1 \in 1 .. Len(b) OBVIOUS
<1>9. a # <<>> BY <1>1
<1>10. a[1] = IF b = <<>> THEN c ELSE b[1] BY <1>1, <1>7, <1>8
<1>11. b # <<>> => a # <<NL>>
  <2>1. Len(<<NL>>) = 1 OBVIOUS
  <2>2. b # <<>> => Len(a) # 1 BY <1>1, <1>8
  <2> QED BY <2>1, <2>2
<1>12. \A i \in DOMAIN a : a[i] = c \/ (i \in DOMAIN b /\ a[i] = b[i]) BY <1>1, <1>3
<1> QED BY <1>1, <1>6, <1>9, <1>10, <1>11, <1>12 DEF a

LEMMA PlacedStartOther == TypeInv /\ Clean /\ Placed /\ StartOther => Placed'
<1> SUFFICES ASSUME TypeInv, Clean, Placed, StartOther PROVE Placed' OBVIOUS
<1>1. PICK got \in Getch(file, reader) :
        /\ Scan("WS_START", got) /\ got.read /\ got.c \notin Blanks \cup {Quote}
        /\ Keep(got)
        /\ state' = IF got.c \in Letters THEN "WS_WORD"
                    ELSE IF got.c \in Digits THEN "WS_DIG" ELSE "WS_OP"
  BY DEF StartOther
<1>2. file' = file /\ start' = start /\ state = "WS_START" BY <1>1 DEF Scan
<1>3. Printed /\ At(Here) /\ From(Here) /\ Here = Expected BY <1>2, Parts DEF AtStart
<1>4. /\ Here \in Nat \ {0} /\ Here <= Len(file) /\ file[Here] = got.c
      /\ Here' = Here + 1
  BY <1>1, NextChar DEF Keep, Here
<1>5. /\ buf' = Append(buf, got.c) /\ col' = col + 1 /\ UNCHANGED <<line, tokens, code>>
  BY <1>1 DEF Keep
<1>6. Printed' /\ Expected' = Expected BY <1>2, <1>3, <1>5, SameTokens
<1>7. file \in Seq(Chars) /\ got.c \in Chars BY Taken
<1>8. buf = <<>> BY <1>2 DEF TypeInv, Buffers
<1>9. buf' = <<got.c>> BY <1>5, <1>8
<1>10. IsAt(buf', Here) /\ Len(buf') = 1 BY <1>4, <1>7, <1>9, OneChar
<1>11. buf' # <<>> /\ buf'[1] = got.c /\ DOMAIN buf' = {1} BY <1>9
<1>12. buf' = <<NL>> <=> got.c = NL BY <1>9
<1>13. got.c = NL => state' = "WS_OP" BY <1>1, CharsDiffer
<1>14. IF buf' = <<NL>>
       THEN state' = "WS_OP" /\ LineOf(Here') = line' + 1 /\ ColOf(Here') = 1
       ELSE line' = LineOf(Here') /\ col' = ColOf(Here')
  BY <1>3, <1>4, <1>5, <1>12, <1>13, Moves
<1>15. /\ state' = "WS_WORD" => buf'[1] \in Letters
       /\ state' = "WS_DIG" => \A i \in DOMAIN buf' : buf'[i] \in Digits
       /\ state' = "WS_OP" => ~IsWord(buf'[1])
  BY <1>1, <1>11 DEF IsWord
<1>16. Here' = Expected + Len(buf') BY <1>3, <1>4, <1>10
<1>17. From(Expected)' BY <1>2, <1>3, <1>6, SameFile DEF From
<1>18. IsAt(buf, Expected)' BY <1>2, <1>3, <1>6, <1>10, SameFile
<1>19. InWord'
  BY <1>2, <1>3, <1>4, <1>6, <1>11, <1>14, <1>15, <1>16, <1>17, <1>18, SameFile DEF InWord, At
<1>20. Between' /\ AtStart' /\ InString' /\ InLine' /\ InUntil' /\ AtEnd'
  BY <1>1 DEF Between, AtStart, InString, InLine, InUntil, AtEnd
<1> QED BY <1>6, <1>19, <1>20 DEF Placed

LEMMA PlacedGoOn == TypeInv /\ Clean /\ Placed /\ GoOn => Placed'
<1> SUFFICES ASSUME TypeInv, Clean, Placed, GoOn PROVE Placed' OBVIOUS
<1>1. PICK got \in Getch(file, reader), s \in {"WS_WORD", "WS_DIG", "WS_OP"} :
        Scan(s, got) /\ Goes(got) /\ Keep(got) /\ state' = state
  BY DEF GoOn
<1>2. /\ file' = file /\ start' = start /\ state \in {"WS_WORD", "WS_DIG", "WS_OP"}
      /\ buf' = Append(buf, got.c) /\ col' = col + 1 /\ UNCHANGED <<line, tokens, code>>
  BY <1>1 DEF Scan, Keep
<1>3. /\ Printed /\ buf # <<>> /\ Expected \in Nat \ {0} /\ From(Expected)
      /\ IsAt(buf, Expected) /\ Here = Expected + Len(buf)
      /\ IF buf = <<NL>> THEN state = "WS_OP" /\ LineOf(Here) = line + 1 /\ ColOf(Here) = 1 ELSE At(Here)
      /\ state = "WS_WORD" => buf[1] \in Letters
      /\ state = "WS_DIG" => \A i \in DOMAIN buf : buf[i] \in Digits
      /\ state = "WS_OP" => ~IsWord(buf[1])
  BY <1>2, Parts DEF InWord
<1>4. got.c # NUL /\ got.c # NL /\ buf # <<NL>>
  <2>1. CASE state = "WS_WORD"
    <3>1. IsWord(got.c) BY <1>1, <2>1 DEF Goes
    <3> QED BY <1>3, <2>1, <3>1, CharsDiffer DEF IsWord
  <2>2. CASE state = "WS_DIG"
    <3>1. got.c \in Digits BY <1>1, <2>2 DEF Goes
    <3> QED BY <1>3, <2>2, <3>1, CharsDiffer
  <2>3. CASE state = "WS_OP"
    <3>1. got.read /\ Append(buf, got.c) \in Operators
      BY <1>1, <2>3, CouldBeIs DEF Goes, IsPunct
    <3>2. got.c # NUL BY <1>1, <3>1, NextChar
    <3>3. buf \in Seq(Chars) /\ got.c \in Chars BY Taken DEF TypeInv, Types
    <3> DEFINE a == Append(buf, got.c)
    <3>4. /\ Len(a) \in Nat /\ Len(a) > 1 /\ a[Len(a)] = got.c /\ a[1] = buf[1]
      BY <1>3, <3>3
    <3>5. a # <<NL>> BY <3>4
    <3> HIDE DEF a
    <3>6. \A i \in 1 .. Len(a) : a[i] # NL BY <3>1, <3>5, OperatorChars DEF a
    <3>7. got.c # NL /\ buf[1] # NL BY <3>4, <3>6
    <3> QED BY <3>2, <3>7
  <2> QED BY <1>2, <2>1, <2>2, <2>3
<1>5. /\ got.read /\ Here \in Nat \ {0} /\ Here <= Len(file) /\ file[Here] = got.c
      /\ Here' = Here + 1
  BY <1>1, <1>4, NextChar DEF Keep, Here
<1>6. Printed' /\ Expected' = Expected BY <1>2, <1>3, SameTokens
<1>7. file \in Seq(Chars) /\ got.c \in Chars BY Taken
<1>8. buf \in Seq(Chars) BY DEF TypeInv, Types
<1>9. /\ IsAt(buf', Expected) /\ Len(buf') = Len(buf) + 1 /\ buf' # <<>>
      /\ buf'[1] = buf[1] /\ buf' # <<NL>>
      /\ \A i \in DOMAIN buf' : buf'[i] = got.c \/ (i \in DOMAIN buf /\ buf'[i] = buf[i])
  <2> DEFINE a == Append(buf, got.c)
  <2>1. /\ file \in Seq(Chars) /\ buf \in Seq(Chars) /\ got.c \in Chars
        /\ Expected \in Nat \ {0} /\ IsAt(buf, Expected)
        /\ Expected + Len(buf) <= Len(file) /\ file[Expected + Len(buf)] = got.c
    BY <1>3, <1>5, <1>7, <1>8
  <2>2. /\ IsAt(a, Expected) /\ Len(a) = Len(buf) + 1 /\ a # <<>>
        /\ a[1] = IF buf = <<>> THEN got.c ELSE buf[1]
        /\ \A i \in DOMAIN a : a[i] = got.c \/ (i \in DOMAIN buf /\ a[i] = buf[i])
        /\ buf # <<>> => a # <<NL>>
    BY <2>1, Grows
  <2>3. buf' = a /\ buf # <<>> BY <1>2, <1>3
  <2> HIDE DEF a
  <2> QED BY <2>2, <2>3
<1>10. line' = LineOf(Here') /\ col' = ColOf(Here')
  BY <1>2, <1>3, <1>4, <1>5, Moves
<1>11. state = "WS_DIG" => got.c \in Digits BY <1>1 DEF Goes
<1>12. Here' = Expected + Len(buf') BY <1>3, <1>5, <1>8, <1>9
<1>13. From(Expected)' BY <1>2, <1>3, <1>6, SameFile DEF From
<1>14. IsAt(buf, Expected)' BY <1>2, <1>3, <1>6, <1>9, SameFile
<1>15. /\ state = "WS_WORD" => buf'[1] \in Letters
       /\ state = "WS_DIG" => \A i \in DOMAIN buf' : buf'[i] \in Digits
       /\ state = "WS_OP" => ~IsWord(buf'[1])
  BY <1>3, <1>9, <1>11
<1>16. InWord'
  BY <1>1, <1>2, <1>3, <1>6, <1>9, <1>10, <1>12, <1>13, <1>14, <1>15, SameFile DEF InWord, At
<1>17. Between' /\ AtStart' /\ InString' /\ InLine' /\ InUntil' /\ AtEnd'
  BY <1>1, <1>2 DEF Between, AtStart, InString, InLine, InUntil, AtEnd
<1> QED BY <1>6, <1>16, <1>17 DEF Placed

(* The token of a word, a number or an operator, and the character behind. *)
LEMMA StoppedToken ==
  ASSUME TypeInv, state \in {"WS_WORD", "WS_DIG", "WS_OP"},
         NEW t, t = IF state = "WS_DIG" THEN Token("number", buf) ELSE ProcessWord
  PROVE  /\ t \in Tokens /\ t.value = buf /\ t.line = start.line /\ t.col = start.col
         /\ t.kind \in {"keyword", "id", "number"} /\ Spellings(t) = {buf}
         /\ t.kind = "number" <=> state = "WS_DIG"
         /\ state # "WS_DIG" => (t.kind = "keyword" <=> buf \in Range(Keywords))
<1>1. buf \in Seq(Chars) BY DEF TypeInv, Types
<1>2. PICK kind \in {"keyword", "id", "number"} :
         /\ t = Token(kind, buf)
         /\ kind = "number" <=> state = "WS_DIG"
         /\ state # "WS_DIG" => (kind = "keyword" <=> Lookup(buf) # {})
  BY DEF ProcessWord
<1>3. kind \in Kinds BY <1>2 DEF Kinds
<1>4. t \in Tokens /\ t.kind = kind /\ t.value = buf /\ t.line = start.line /\ t.col = start.col
  BY <1>1, <1>2, <1>3, TokenIs
<1>5. Spellings(t) = {buf} BY <1>2, <1>4 DEF Spellings
<1> QED BY <1>2, <1>4, <1>5, LookupFinds

LEMMA StoppedLongest ==
  ASSUME TypeInv, state \in {"WS_WORD", "WS_DIG", "WS_OP"}, buf # <<>>,
         state = "WS_WORD" => buf[1] \in Letters,
         state = "WS_DIG" => \A i \in DOMAIN buf : buf[i] \in Digits,
         state = "WS_OP" => ~IsWord(buf[1]),
         NEW got, got.c \in Chars, ~Goes(got),
         NEW t, t = IF state = "WS_DIG" THEN Token("number", buf) ELSE ProcessWord,
         Behind(t) <= Len(file) => got.read /\ got.c = file[Behind(t)]
  PROVE  Longest(t)
<1>1. /\ t.value = buf
      /\ t.kind = "number" <=> state = "WS_DIG"
      /\ state # "WS_DIG" => (t.kind = "keyword" <=> buf \in Range(Keywords))
  BY StoppedToken
<1>2. buf \in Seq(Chars) /\ 1 \in DOMAIN buf /\ Head(buf) = buf[1] BY DEF TypeInv, Types
<1>3. state = "WS_DIG" => buf[1] \in Digits BY <1>2
<1>4. t.kind = "keyword" <=> t.value \in Range(Keywords)
  <2>1. CASE state = "WS_DIG"
    <3>1. t.kind = "number" /\ buf \notin Range(Keywords) BY <1>1, <1>3, <2>1, OperatorChars
    <3> QED BY <1>1, <3>1
  <2>2. CASE state # "WS_DIG" BY <1>1, <2>2
  <2> QED BY <2>1, <2>2
<1>5. Head(buf) \in Letters => ~IsWord(got.c)
  <2> SUFFICES ASSUME buf[1] \in Letters PROVE ~IsWord(got.c) BY <1>2
  <2>1. state = "WS_WORD" BY <1>3, CharsDiffer DEF IsWord
  <2> QED BY <2>1 DEF Goes
<1>6. t.kind = "number" => got.c \notin Digits BY <1>1 DEF Goes
<1>7. got.read => Append(buf, got.c) \notin Operators
  <2> SUFFICES ASSUME got.read, Append(buf, got.c) \in Operators PROVE FALSE OBVIOUS
  <2> DEFINE a == Append(buf, got.c)
  <2>1. Len(a) \in Nat /\ 1 \in 1 .. Len(a) /\ a[1] = buf[1]
        /\ Len(a) \in 1 .. Len(a) /\ a[Len(a)] = got.c
    BY <1>2
  <2> HIDE DEF a
  <2>2. \A i \in 1 .. Len(a) : a[i] \notin Letters /\ a[i] \notin Digits
    BY OperatorChars DEF a
  <2>3. buf[1] \notin Letters /\ buf[1] \notin Digits /\ ~IsWord(got.c)
    BY <2>1, <2>2 DEF IsWord
  <2>4. state = "WS_OP" BY <1>3, <2>3
  <2>5. CouldBeOperator(Append(buf, got.c)) BY CouldBeIs
  <2> QED BY <2>3, <2>4, <2>5 DEF Goes, IsPunct
<1> DEFINE p == Behind(t)
<1>8. p <= Len(file) => got.read /\ got.c = file[p] OBVIOUS
<1> HIDE DEF p
<1>9. p <= Len(file) =>
        /\ Head(t.value) \in Letters => ~IsWord(file[p])
        /\ t.kind = "number" => file[p] \notin Digits
        /\ Append(t.value, file[p]) \notin Operators
  BY <1>1, <1>5, <1>6, <1>7, <1>8
<1> QED BY <1>4, <1>9 DEF Longest, p

LEMMA PlacedStop == TypeInv /\ Clean /\ Placed /\ Stop => Placed'
<1> SUFFICES ASSUME TypeInv, Clean, Placed, Stop PROVE Placed' OBVIOUS
<1> DEFINE t == IF state = "WS_DIG" THEN Token("number", buf) ELSE ProcessWord
<1>1. PICK got \in Getch(file, reader), s \in {"WS_WORD", "WS_DIG", "WS_OP"} :
        /\ Scan(s, got) /\ ~Goes(got)
        /\ reader' = Ungetch(got.reader, got.c)
        /\ Deliver(t)
        /\ IF state = "WS_OP" /\ buf = <<NL>>
           THEN line' = line + 1 /\ col' = 1 ELSE UNCHANGED lexer
  BY DEF Stop
<1>2. /\ file' = file /\ state \in {"WS_WORD", "WS_DIG", "WS_OP"}
      /\ got.read \/ ~got.reader.error
  BY <1>1 DEF Scan, Reads
<1>3. /\ Printed /\ buf # <<>> /\ Expected \in Nat \ {0} /\ From(Expected)
      /\ IsAt(buf, Expected) /\ Here = Expected + Len(buf)
      /\ IF buf = <<NL>> THEN state = "WS_OP" /\ LineOf(Here) = line + 1 /\ ColOf(Here) = 1 ELSE At(Here)
      /\ state = "WS_WORD" => buf[1] \in Letters
      /\ state = "WS_DIG" => \A i \in DOMAIN buf : buf[i] \in Digits
      /\ state = "WS_OP" => ~IsWord(buf[1])
  BY <1>2, Parts DEF InWord
<1>4. /\ Here' = Here /\ Here \in Nat \ {0}
      /\ got.read => got.c = file[Here]
      /\ ~got.read => Here = Len(file) + 1
      /\ Len(file) \in Nat
  BY <1>1, <1>2, NextChar DEF Here
<1>5. file \in Seq(Chars) /\ got.c \in Chars /\ buf \in Seq(Chars) BY Taken DEF TypeInv, Types
<1> HIDE DEF t
<1>6. /\ t \in Tokens /\ t.value = buf /\ t.line = start.line /\ t.col = start.col
      /\ Spellings(t) = {buf}
  BY <1>2, StoppedToken DEF t
<1>7. t.line = LineOf(Expected) /\ t.col = ColOf(Expected) BY <1>3, <1>6 DEF From
<1>8. buf \in Spellings(t) /\ \A v \in Spellings(t) : Len(v) = Len(buf) BY <1>6
<1>9. PlaceOf(t) = Expected /\ Behind(t) = Here /\ InPlace(t)
  <2>1. PlaceOf(t) = Expected /\ Behind(t) = Expected + Len(buf) /\ InPlace(t)
    BY <1>3, <1>5, <1>7, <1>8, Spelled
  <2> QED BY <1>3, <2>1
<1>10. Behind(t) <= Len(file) => got.read /\ got.c = file[Behind(t)] BY <1>4, <1>9
<1>11. Longest(t)
  <2>1. ~Goes(got) BY <1>1
  <2> QED BY <1>2, <1>3, <1>5, <1>10, <2>1, StoppedLongest DEF t
<1>12. line' = LineOf(Here') /\ col' = ColOf(Here') BY <1>1, <1>3, <1>4 DEF At, lexer
<1>13. Deliver(t) /\ state # "done" BY <1>1, <1>2
<1> QED BY <1>2, <1>3, <1>4, <1>6, <1>9, <1>11, <1>12, <1>13, Printing

LEMMA Quoted ==
  ASSUME file \in Seq(Chars), NEW b \in Seq(Chars), NEW p \in Nat \ {0},
         IsAt(<<Quote>>, p), IsAt(b, p + 1), p + 1 + Len(b) <= Len(file),
         file[p + 1 + Len(b)] = Quote, Quote \in Chars
  PROVE  /\ IsAt(<<Quote>> \o b \o <<Quote>>, p)
         /\ <<Quote>> \o b \o <<Quote>> \in Seq(Chars)
         /\ Len(<<Quote>> \o b \o <<Quote>>) = Len(b) + 2
<1> DEFINE q == <<Quote>>
           u == q \o b
           w == u \o q
           n == Len(b)
<1>1. q \in Seq(Chars) /\ Len(q) = 1 /\ q[1] = Quote OBVIOUS
<1>2. n \in Nat /\ Len(file) \in Nat /\ \A i \in 1 .. n : file[p + 1 + i - 1] = b[i] BY DEF IsAt
<1>3. file[p] = Quote
  <2>1. 1 \in DOMAIN <<Quote>> /\ <<Quote>>[1] = Quote /\ p + 1 - 1 = p OBVIOUS
  <2> QED BY <2>1 DEF IsAt
<1>4. /\ u \in Seq(Chars) /\ Len(u) = 1 + n
      /\ u[1] = Quote /\ \A i \in 1 .. n : u[1 + i] = b[i]
  <2>1. /\ u \in Seq(Chars) /\ Len(u) = Len(q) + Len(b)
        /\ \A i \in 1 .. Len(q) : u[i] = q[i]
        /\ \A i \in 1 .. Len(b) : u[Len(q) + i] = b[i]
    BY <1>1, Concatenated
  <2> HIDE DEF u, q
  <2> QED BY <1>1, <2>1
<1>5. /\ w \in Seq(Chars) /\ Len(w) = n + 2 /\ w[n + 2] = Quote
      /\ \A i \in 1 .. n + 1 : w[i] = u[i]
  <2> HIDE DEF u
  <2>1. /\ w \in Seq(Chars) /\ Len(w) = Len(u) + Len(q)
        /\ \A i \in 1 .. Len(u) : w[i] = u[i]
        /\ \A i \in 1 .. Len(q) : w[Len(u) + i] = q[i]
    BY <1>1, <1>4, Concatenated
  <2> HIDE DEF w, q, n
  <2>2. Len(u) + 1 = n + 2 /\ Len(u) = n + 1 BY <1>2, <1>4
  <2> QED BY <1>1, <1>2, <2>1, <2>2
<1> HIDE DEF w, u, n, q
<1>6. \A i \in 1 .. n + 2 : file[p + i - 1] = w[i]
  <2> SUFFICES ASSUME NEW i \in 1 .. n + 2 PROVE file[p + i - 1] = w[i] OBVIOUS
  <2>1. CASE i = 1
    <3>1. p + i - 1 = p /\ 1 \in 1 .. n + 1 BY <1>2, <2>1
    <3> QED BY <1>3, <1>4, <1>5, <2>1, <3>1
  <2>2. CASE i = n + 2
    <3>1. p + i - 1 = p + 1 + n BY <1>2, <2>2
    <3> QED BY <1>5, <2>2, <3>1 DEF n
  <2>3. CASE i # 1 /\ i # n + 2
    <3>1. i - 1 \in 1 .. n /\ i \in 1 .. n + 1 /\ 1 + (i - 1) = i
          /\ p + 1 + (i - 1) - 1 = p + i - 1
      BY <1>2, <2>3
    <3>2. file[p + i - 1] = b[i - 1] BY <1>2, <3>1
    <3>3. w[i] = u[i] /\ u[i] = b[i - 1] BY <1>4, <1>5, <3>1
    <3> QED BY <3>2, <3>3
  <2> QED BY <2>1, <2>2, <2>3
<1>7. p + (n + 2) <= Len(file) + 1 BY <1>2 DEF n
<1>8. IsAt(w, p) BY <1>2, <1>5, <1>6, <1>7 DEF IsAt
<1> QED BY <1>5, <1>8 DEF w, u, q, n

LEMMA PlacedStringEnd == TypeInv /\ Clean /\ Placed /\ StringEnd => Placed'
<1> SUFFICES ASSUME TypeInv, Clean, Placed, StringEnd PROVE Placed' OBVIOUS
<1> DEFINE t == Token("string", buf)
           w == <<Quote>> \o buf \o <<Quote>>
<1>1. PICK got \in Getch(file, reader) :
        /\ Scan("WS_STRING", got) /\ got.c = Quote
        /\ Deliver(t) /\ reader' = got.reader /\ col' = col + 1 /\ line' = line
  BY DEF StringEnd
<1>2. file' = file /\ state = "WS_STRING" BY <1>1 DEF Scan
<1>3. file \in Seq(Chars) /\ got.c \in Chars /\ buf \in Seq(Chars) BY Taken DEF TypeInv, Types
<1>4. t \in Tokens /\ t.kind = "string" /\ t.value = buf /\ t.line = start.line /\ t.col = start.col
  BY <1>3, TokenIs DEF Kinds
<1> HIDE DEF t
<1>5. /\ got.read /\ Here \in Nat \ {0} /\ Here <= Len(file) /\ file[Here] = Quote
      /\ Here' = Here + 1 /\ Quote # NL /\ Len(file) \in Nat
  <2>1. got.c # NUL /\ Quote # NL BY <1>1, CharsDiffer
  <2> QED BY <1>1, <2>1, NextChar DEF Here
<1>6. ~Stuck BY <1>5 DEF Stuck, Here
<1>7. /\ Printed /\ Expected \in Nat \ {0} /\ From(Expected) /\ At(Here)
      /\ IsAt(<<Quote>>, Expected) /\ IsAt(buf, Expected + 1)
      /\ Here = Expected + 1 + Len(buf)
  BY <1>2, <1>6, Parts DEF InString
<1>8. Quote \in Chars BY <1>1, <1>3
<1>9. IsAt(w, Expected) /\ w \in Seq(Chars) /\ Len(w) = Len(buf) + 2
  BY <1>3, <1>5, <1>7, <1>8, Quoted
<1>10. Spellings(t) = {w} BY <1>4 DEF Spellings
<1> HIDE DEF w
<1>11. w \in Spellings(t) /\ \A v \in Spellings(t) : Len(v) = Len(w) BY <1>10
<1>12. t.line = LineOf(Expected) /\ t.col = ColOf(Expected) BY <1>4, <1>7 DEF From
<1>13. PlaceOf(t) = Expected /\ Behind(t) = Expected + Len(w) /\ InPlace(t)
  BY <1>3, <1>7, <1>9, <1>11, <1>12, Spelled
<1>14. Behind(t) = Here'
  <2>1. Len(buf) \in Nat BY <1>3
  <2> QED BY <1>5, <1>7, <1>9, <1>13, <2>1
<1>15. Longest(t) BY <1>4 DEF Longest
<1>16. line' = LineOf(Here') /\ col' = ColOf(Here') BY <1>1, <1>5, <1>7, Moves
<1>17. Here' \in Nat \ {0} /\ Deliver(t) /\ state # "done" BY <1>1, <1>2, <1>5
<1> QED BY <1>2, <1>4, <1>7, <1>13, <1>14, <1>15, <1>16, <1>17, Printing

LEMMA PlacedStringChar == TypeInv /\ Clean /\ Placed /\ StringChar => Placed'
<1> SUFFICES ASSUME TypeInv, Clean, Placed, StringChar PROVE Placed' OBVIOUS
<1>1. PICK got \in Getch(file, reader) :
        /\ Scan("WS_STRING", got) /\ got.c # Quote
        /\ buf' = Append(buf, got.c) /\ reader' = got.reader
        /\ IF got.c = NL THEN line' = line + 1 /\ col' = 1 ELSE col' = col + 1 /\ UNCHANGED line
        /\ UNCHANGED <<state, tokens, code>>
  BY DEF StringChar
<1>2. /\ file' = file /\ start' = start /\ state = "WS_STRING"
      /\ got.read \/ ~got.reader.error
  BY <1>1 DEF Scan, Reads
<1>3. Printed /\ InString BY Parts
<1>4. Printed' /\ Expected' = Expected BY <1>1, <1>2, <1>3, SameTokens
<1>5. file \in Seq(Chars) /\ got.c \in Chars /\ buf \in Seq(Chars) BY Taken DEF TypeInv, Types
<1>6. InString'
  <2>1. CASE ~got.read
    <3>1. reader' = reader /\ Stuck BY <1>1, <1>2, <2>1, NextChar
    <3>2. Stuck' BY <1>2, <3>1 DEF Stuck
    <3> QED BY <3>2 DEF InString
  <2>2. CASE got.read
    <3>1. /\ Here \in Nat \ {0} /\ Here <= Len(file) /\ file[Here] = got.c
          /\ Here' = Here + 1 /\ Len(file) \in Nat
      BY <1>1, <2>2, NextChar DEF Here
    <3>2. ~Stuck BY <3>1 DEF Stuck, Here
    <3>3. /\ Expected \in Nat \ {0} /\ From(Expected) /\ At(Here)
          /\ IsAt(<<Quote>>, Expected) /\ IsAt(buf, Expected + 1)
          /\ Here = Expected + 1 + Len(buf)
      BY <1>2, <1>3, <3>2 DEF InString
    <3>4. Expected + 1 \in Nat \ {0} /\ Len(buf) \in Nat BY <1>5, <3>3
    <3>5. IsAt(buf', Expected + 1) /\ Len(buf') = Len(buf) + 1
      <4>1. Expected + 1 + Len(buf) <= Len(file) /\ file[Expected + 1 + Len(buf)] = got.c
        BY <3>1, <3>3
      <4>2. /\ IsAt(Append(buf, got.c), Expected + 1)
            /\ Len(Append(buf, got.c)) = Len(buf) + 1
        BY <1>5, <3>3, <3>4, <4>1, Grows
      <4> QED BY <1>1, <4>2
    <3>6. line' = LineOf(Here') /\ col' = ColOf(Here') BY <1>1, <3>1, <3>3, Moves
    <3>7. Here' = Expected + 1 + Len(buf') BY <3>1, <3>3, <3>4, <3>5
    <3>8. At(Here)' /\ From(Expected)' BY <1>2, <1>4, <3>3, <3>6, SameFile DEF At, From
    <3>9. IsAt(<<Quote>>, Expected)' /\ IsAt(buf, Expected + 1)'
      BY <1>2, <1>4, <3>3, <3>5, SameFile
    <3> QED BY <1>4, <3>3, <3>7, <3>8, <3>9 DEF InString
  <2> QED BY <2>1, <2>2
<1>7. state' = "WS_STRING" BY <1>1, <1>2
<1>8. Between' /\ AtStart' /\ InWord' /\ InLine' /\ InUntil' /\ AtEnd'
  BY <1>7 DEF Between, AtStart, InWord, InLine, InUntil, AtEnd
<1> QED BY <1>4, <1>6, <1>8 DEF Placed

LEMMA LineEnds ==
  ASSUME Len(file) \in Nat, NEW t, Opens(t, LineComment), Behind(t) \in Nat \ {0},
         NEW h \in Nat \ {0}, Behind(t) <= h, h <= Len(file) + 1,
         \A k \in Behind(t) .. h - 1 : file[k] # NL,
         h = Len(file) + 1 \/ file[h] = NL
  PROVE  Ends(t) = h
<1> DEFINE m == Behind(t)
           T == {Len(file) + 1} \cup {k \in m .. Len(file) : file[k] = NL}
<1>1. Ends(t) = Min(T) BY EndsAre
<1>2. T \in SUBSET Nat BY DEF T
<1>3. h \in T
  <2>1. CASE h = Len(file) + 1 BY <2>1
  <2>2. CASE h # Len(file) + 1
    <3>1. h \in m .. Len(file) BY <2>2
    <3> QED BY <2>2, <3>1
  <2> QED BY <2>1, <2>2
<1>4. ASSUME NEW y \in T PROVE h <= y
  <2>1. CASE y = Len(file) + 1 BY <2>1
  <2>2. CASE y \in m .. Len(file) /\ file[y] = NL
    <3>1. y \notin m .. h - 1 BY <2>2
    <3> QED BY <2>2, <3>1
  <2> QED BY <2>1, <2>2
<1> HIDE DEF T
<1> QED BY <1>1, <1>2, <1>3, <1>4, MinEquals

(* The least end of a comment that is nowhere closed before h - 1.         *)
LEMMA BlockEnds ==
  ASSUME Len(file) \in Nat, NEW t, Opens(t, BlockComment), Behind(t) \in Nat \ {0},
         NEW h \in Nat \ {0}, Behind(t) <= h, h <= Len(file) + 1,
         \A j \in Behind(t) .. h - 2 : ~ (file[j] = "*" /\ file[j + 1] = "/"),
         h = Len(file) + 1 \/ (Behind(t) < h /\ file[h - 1] = "*" /\ file[h] = "/")
  PROVE  Ends(t) = h + 1
<1> DEFINE m == Behind(t)
           J == {j \in m .. Len(file) - 1 : file[j] = "*" /\ file[j + 1] = "/"}
           T == {Len(file) + 2} \cup {k + 2 : k \in J}
<1>1. Ends(t) = Min(T) BY EndsAre
<1>2. J \in SUBSET Nat OBVIOUS
<1>3. T \in SUBSET Nat BY <1>2
<1>4. h + 1 \in T
  <2>1. CASE h = Len(file) + 1
    <3>1. h + 1 = Len(file) + 2 BY <2>1
    <3> QED BY <3>1
  <2>2. CASE h # Len(file) + 1
    <3>1. h - 1 \in m .. Len(file) - 1 /\ (h - 1) + 1 = h /\ (h - 1) + 2 = h + 1 BY <2>2
    <3>2. h - 1 \in J BY <2>2, <3>1
    <3> HIDE DEF J
    <3> QED BY <3>1, <3>2
  <2> QED BY <2>1, <2>2
<1>5. ASSUME NEW y \in T PROVE h + 1 <= y
  <2>1. CASE y = Len(file) + 2 BY <2>1
  <2>2. CASE y \in {k + 2 : k \in J}
    <3>1. PICK k \in J : y = k + 2 BY <2>2
    <3>2. k \in m .. Len(file) - 1 /\ k \notin m .. h - 2 OBVIOUS
    <3>3. k >= h - 1 BY <3>2
    <3> QED BY <3>1, <3>2, <3>3
  <2> QED BY <2>1, <2>2
<1>6. h + 1 \in Nat OBVIOUS
<1> HIDE DEF T
<1> QED BY <1>1, <1>3, <1>4, <1>5, MinEquals

LEMMA PlacedSkipLine == TypeInv /\ Clean /\ Placed /\ SkipLine => Placed'
<1> SUFFICES ASSUME TypeInv, Clean, Placed, SkipLine PROVE Placed' OBVIOUS
<1> DEFINE t == Last(tokens)
<1>1. PICK got \in Getch(file, reader) :
        /\ Reads(got)
        /\ IF ~got.read THEN state' = "main" /\ reader' = got.reader /\ UNCHANGED col
           ELSE IF got.c = NL
           THEN state' = "main" /\ reader' = Ungetch(got.reader, got.c) /\ UNCHANGED col
           ELSE reader' = got.reader /\ col' = col + 1 /\ UNCHANGED state
  BY DEF SkipLine
<1>2. state = "line" /\ UNCHANGED <<file, line, buf, start, tokens, code>> BY DEF SkipLine
<1>3. /\ Printed /\ tokens # <<>> /\ At(Here) /\ Opens(t, LineComment)
      /\ Behind(t) \in Nat \ {0} /\ Behind(t) <= Here
      /\ \A k \in Behind(t) .. Here - 1 : file[k] # NL
  BY <1>2, Parts DEF InLine
<1>4. Printed' /\ Expected' = Expected BY <1>2, <1>3, SameTokens
<1>5. Expected = Ends(t) BY <1>3 DEF Expected
<1>6. t' = t BY <1>2
<1> HIDE DEF t
<1>7. Here \in Nat \ {0} /\ Here <= Len(file) + 1 /\ Len(file) \in Nat BY <1>1, NextChar
<1>8. CASE ~got.read \/ got.c = NL
  <2>1. /\ state' = "main" /\ col' = col /\ Here' = Here
        /\ Here = Len(file) + 1 \/ file[Here] = NL
    BY <1>1, <1>8, NextChar DEF Reads, Here
  <2>2. Ends(t) = Here BY <1>3, <1>7, <2>1, LineEnds
  <2>3. Between' BY <1>2, <1>3, <1>4, <1>5, <2>1, <2>2, SameFile DEF Between, At
  <2>4. AtStart' /\ InWord' /\ InString' /\ InLine' /\ InUntil' /\ AtEnd'
    BY <2>1 DEF AtStart, InWord, InString, InLine, InUntil, AtEnd
  <2> QED BY <1>4, <2>3, <2>4 DEF Placed
<1>9. CASE got.read /\ got.c # NL
  <2>1. /\ state' = "line" /\ col' = col + 1 /\ Here' = Here + 1
        /\ file[Here] # NL /\ line' = line
    BY <1>1, <1>2, <1>9, NextChar DEF Here
  <2>2. line' = LineOf(Here') /\ col' = ColOf(Here') BY <1>3, <1>7, <2>1, Moves
  <2>3. \A k \in Behind(t) .. Here' - 1 : k = Here \/ k \in Behind(t) .. Here - 1
    BY <1>3, <1>7, <2>1
  <2>4. \A k \in Behind(t) .. Here' - 1 : file[k] # NL BY <1>3, <2>1, <2>3
  <2>5. Behind(t) <= Here' BY <1>3, <1>7, <2>1
  <2>6. InLine'
    BY <1>2, <1>3, <1>6, <2>2, <2>4, <2>5, SameFile DEF InLine, At, Opens, t
  <2>7. Between' /\ AtStart' /\ InWord' /\ InString' /\ InUntil' /\ AtEnd'
    BY <2>1 DEF Between, AtStart, InWord, InString, InUntil, AtEnd
  <2> QED BY <1>4, <2>6, <2>7 DEF Placed
<1> QED BY <1>8, <1>9

LEMMA PlacedSkipUntil == TypeInv /\ Clean /\ Placed /\ SkipUntil => Placed'
<1> SUFFICES ASSUME TypeInv, Clean, Placed, SkipUntil PROVE Placed' OBVIOUS
<1> DEFINE t == Last(tokens)
<1>1. PICK got \in Getch(file, reader) :
        /\ Reads(got)
        /\ reader' = got.reader
        /\ IF ~got.read THEN End(4) /\ UNCHANGED lexer
           ELSE /\ IF got.c = NL THEN line' = line + 1 /\ col' = 1
                   ELSE col' = col + 1 /\ UNCHANGED line
                /\ IF Matched(buf, got.c) = Anchor
                   THEN state' = "main" /\ buf' = <<>>
                   ELSE buf' = Matched(buf, got.c) /\ UNCHANGED state
                /\ UNCHANGED code
  BY DEF SkipUntil
<1>2. state = "until" /\ UNCHANGED <<file, start, tokens>> BY DEF SkipUntil
<1>3. /\ Printed /\ tokens # <<>> /\ At(Here) /\ Opens(t, BlockComment)
      /\ Behind(t) \in Nat \ {0} /\ Behind(t) <= Here
      /\ \A j \in Behind(t) .. Here - 2 : ~ (file[j] = "*" /\ file[j + 1] = "/")
      /\ buf = <<"*">> <=> Behind(t) < Here /\ file[Here - 1] = "*"
  BY <1>2, Parts DEF InUntil
<1>4. Printed' /\ Expected' = Expected BY <1>2, <1>3, SameTokens
<1>5. Expected = Ends(t) BY <1>3 DEF Expected
<1>6. t' = t BY <1>2
<1> HIDE DEF t
<1>7. Here \in Nat \ {0} /\ Here <= Len(file) + 1 /\ Len(file) \in Nat BY <1>1, NextChar
<1>8. buf \in {<<>>, <<"*">>} BY <1>2 DEF TypeInv, Buffers
<1>9. CASE ~got.read
  <2>1. state' = "done" /\ code' = 4 /\ Here = Len(file) + 1
    BY <1>1, <1>9, NextChar DEF End, Reads
  <2>2. Ends(t) = Here + 1 BY <1>3, <1>7, <2>1, BlockEnds
  <2>3. Expected > Len(file) + 1 BY <1>5, <1>7, <2>1, <2>2
  <2> QED BY <1>2, <1>3, <2>1, <2>3, Finishing
<1>10. CASE got.read
  <2>1. file[Here] = got.c /\ Here' = Here + 1 /\ Here <= Len(file)
    BY <1>1, <1>10, NextChar DEF Here
  <2>2. line' = LineOf(Here') /\ col' = ColOf(Here')
    BY <1>1, <1>3, <1>7, <1>10, <2>1, Moves
  <2>3. At(Here)' BY <1>2, <2>2, SameFile DEF At
  <2>4. Matched(buf, got.c) = Anchor <=> buf = <<"*">> /\ got.c = "/"
    BY <1>8, MatchedIs
  <2>5. CASE Matched(buf, got.c) = Anchor
    <3>1. state' = "main" BY <1>1, <1>10, <2>5
    <3>2. Behind(t) < Here /\ file[Here - 1] = "*" /\ file[Here] = "/"
      BY <1>3, <2>1, <2>4, <2>5
    <3>3. Ends(t) = Here + 1 BY <1>3, <1>7, <3>2, BlockEnds
    <3>4. Between' BY <1>4, <1>5, <2>1, <2>3, <3>3 DEF Between
    <3>5. AtStart' /\ InWord' /\ InString' /\ InLine' /\ InUntil' /\ AtEnd'
      BY <3>1 DEF AtStart, InWord, InString, InLine, InUntil, AtEnd
    <3> QED BY <1>4, <3>4, <3>5 DEF Placed
  <2>6. CASE Matched(buf, got.c) # Anchor
    <3>1. state' = "until" /\ buf' = Matched(buf, got.c) BY <1>1, <1>2, <1>10, <2>6
    <3>2. ~ (buf = <<"*">> /\ got.c = "/") BY <2>4, <2>6
    <3>3. buf' = <<"*">> <=> got.c = "*"
      BY <1>8, <3>1, <3>2, MatchedIs
    <3>4. \A j \in Behind(t) .. Here' - 2 : ~ (file[j] = "*" /\ file[j + 1] = "/")
      <4> SUFFICES ASSUME NEW j \in Behind(t) .. Here' - 2
                   PROVE  ~ (file[j] = "*" /\ file[j + 1] = "/")
        OBVIOUS
      <4>1. CASE j = Here - 1
        <5>1. Behind(t) < Here /\ j + 1 = Here BY <1>3, <1>7, <2>1, <4>1
        <5> QED BY <1>3, <2>1, <3>2, <4>1, <5>1
      <4>2. CASE j # Here - 1
        <5>1. j \in Behind(t) .. Here - 2 BY <1>3, <1>7, <2>1, <4>2
        <5> QED BY <1>3, <5>1
      <4> QED BY <4>1, <4>2
    <3>5. Behind(t) <= Here' /\ Behind(t) < Here' /\ Here' - 1 = Here BY <1>3, <1>7, <2>1
    <3>6. buf' = <<"*">> <=> Behind(t) < Here' /\ file[Here' - 1] = "*"
      BY <2>1, <3>3, <3>5
    <3>7. InUntil'
      BY <1>2, <1>3, <1>6, <2>3, <3>4, <3>5, <3>6, SameFile DEF InUntil, Opens, t
    <3>8. Between' /\ AtStart' /\ InWord' /\ InString' /\ InLine' /\ AtEnd'
      BY <3>1 DEF Between, AtStart, InWord, InString, InLine, AtEnd
    <3> QED BY <1>4, <3>7, <3>8 DEF Placed
  <2> QED BY <2>5, <2>6
<1> QED BY <1>9, <1>10

LEMMA InitPlaced == Init => Placed
<1> SUFFICES ASSUME Init PROVE Placed OBVIOUS
<1>1. reader = NewReader /\ line = 1 /\ col = 1 /\ state = "main" /\ tokens = <<>> /\ code = 0
  BY DEF Init
<1>2. Here = 1
  <2>1. Len(<<>>) = 0 OBVIOUS
  <2>2. reader.bufBase = 0 /\ reader.pos = 0 /\ reader.unget = <<>> BY <1>1 DEF NewReader
  <2> QED BY <2>1, <2>2 DEF Here, Offset
<1>3. Printed BY <1>1 DEF Printed
<1>4. Between BY <1>1, <1>2, FirstPlace DEF Between, At, Expected
<1>5. AtStart /\ InWord /\ InString /\ InLine /\ InUntil /\ AtEnd
  BY <1>1 DEF AtStart, InWord, InString, InLine, InUntil, AtEnd
<1> QED BY <1>3, <1>4, <1>5 DEF Placed

LEMMA StepPlaced == TypeInv /\ Placed /\ [Next]_vars => Placed'
<1> SUFFICES ASSUME TypeInv, Placed, [Next]_vars PROVE Placed' OBVIOUS
<1>1. file' = file
  BY DEF Next, Lexes, vars, NextToken, TooLong, NonAscii, StartEnd, StartSpace, StartString,
         StartOther, GoOn, Stop, StringEnd, StringChar, SkipLine, SkipUntil, ReadFails, Scan
<1>2. CASE ~Clean
  <2>1. ~Clean' BY <1>1, <1>2, SameFile
  <2> QED BY <2>1 DEF Placed
<1>3. CASE Clean
  <2>1. CASE Next
    BY <1>3, <2>1, PlacedNextToken, PlacedFailing, PlacedStartEnd, PlacedStartSpace,
       PlacedStartString, PlacedStartOther, PlacedGoOn, PlacedStop, PlacedStringEnd,
       PlacedStringChar, PlacedSkipLine, PlacedSkipUntil
    DEF Next, Lexes
  <2>2. CASE UNCHANGED vars
    <3>1. UNCHANGED <<file, reader, line, col, state, buf, start, tokens, code>>
      BY <2>2 DEF vars, lexer
    <3>2. Printed' /\ Expected' = Expected /\ Here' = Here
      BY <1>3, <3>1, Parts, SameTokens DEF Here
    <3>3. Between' /\ AtStart' BY <1>3, <3>1, <3>2, Parts, SameFile DEF Between, AtStart, At, From
    <3>4. InWord' BY <1>3, <3>1, <3>2, Parts, SameFile DEF InWord, At, From
    <3>5. InString' BY <1>3, <3>1, <3>2, Parts, SameFile DEF InString, At, From, Stuck
    <3>6. InLine' BY <1>3, <3>1, <3>2, Parts, SameFile DEF InLine, At, Opens
    <3>7. InUntil' BY <1>3, <3>1, <3>2, Parts, SameFile DEF InUntil, At, Opens
    <3>8. AtEnd' BY <1>3, <3>1, <3>2, Parts DEF AtEnd
    <3> QED BY <3>2, <3>3, <3>4, <3>5, <3>6, <3>7, <3>8 DEF Placed
  <2> QED BY <2>1, <2>2
<1> QED BY <1>2, <1>3

LEMMA Invariant == Spec => [](TypeInv /\ Placed)
<1>1. Init => TypeInv /\ Placed BY InitTypes, InitPlaced
<1>2. (TypeInv /\ Placed) /\ [Next]_vars => (TypeInv /\ Placed)' BY StepTypes, StepPlaced
<1> QED BY <1>1, <1>2, PTL DEF Spec

(***************************************************************************)
(* The theorems.                                                           *)
(***************************************************************************)

(* The buffer of a token never holds more than its TOKEN_VALUE_MAX_SIZE    *)
(* characters (lexer.c:107), a reader has given back one character at the  *)
(* most and never stands behind its block (reader.c:12-70).                *)
THEOREM ScannerTypes == Spec => []TypeOK
<1>1. TypeInv => TypeOK
  <2> SUFFICES ASSUME TypeInv PROVE TypeOK OBVIOUS
  <2>1. /\ Len(buf) <= BufSize /\ buf \in Seq(Chars)
        /\ line \in Nat \ {0} /\ col \in Nat \ {0} /\ code \in {0, 2, 3, 4}
        /\ ReaderOK(file, reader)
    BY DEF TypeInv, Types
  <2>2. /\ reader.pos <= Len(reader.buf) /\ reader.buf \in Seq(Chars)
        /\ Len(reader.buf) <= BlockSize
    BY <2>1 DEF ReaderOK, Readers
  <2>3. Len(reader.unget) <= 1
    <3>1. Len(<<>>) <= 1 /\ \A c : Len(<<c>>) <= 1 OBVIOUS
    <3> QED BY <2>1, <3>1 DEF ReaderOK
  <2> QED BY <2>1, <2>2, <2>3 DEF TypeOK
<1> QED BY <1>1, Invariant, PTL

(* Every token is in the text at the line and the column that were printed *)
(* for it, letter for letter, whatever the text is and wherever the blocks *)
(* of the reader end (lexer.c:75-305).                                     *)
THEOREM ScannerInPlace == Spec => []TokensAreInPlace
<1>1. Placed => TokensAreInPlace BY DEF Placed, Clean, Printed, InPlace, TokensAreInPlace
<1> QED BY <1>1, Invariant, PTL

(* No character is lost or read twice: each token starts where the one     *)
(* before it, or the comment that it opens, ends, and the loop of run_lex  *)
(* returns 0 only when the text is over (main.c, lexer.c:307-390).         *)
THEOREM ScannerLosesNothing == Spec => []NothingIsLost
<1>1. TypeInv /\ Placed => NothingIsLost
  <2> SUFFICES ASSUME TypeInv, Placed, NUL \notin Range(file) PROVE NothingIsLost
    BY DEF NothingIsLost
  <2>1. Clean BY DEF Clean
  <2>2. Printed /\ Between /\ AtEnd BY <2>1, Parts
  <2>3. \A k \in DOMAIN tokens :
          PlaceOf(tokens[k]) =
            IF k = 1 THEN 1 ELSE CommentEnd(tokens[k - 1], Behind(tokens[k - 1]))
    BY <2>2 DEF Printed, Follows, Ends
  <2>4. tokens # <<>> /\ state = "main" =>
          Offset(reader) + 1 = CommentEnd(Last(tokens), Behind(Last(tokens)))
    BY <2>2 DEF Between, Here, Expected, Ends
  <2>5. state = "done" /\ code = 0 => Offset(reader) = Len(file) BY <2>2 DEF AtEnd
  <2>6. code = 4 /\ ~reader.error =>
          CommentEnd(Last(tokens), Behind(Last(tokens))) > Len(file) + 1
    <3> SUFFICES ASSUME code = 4, ~reader.error
                 PROVE  CommentEnd(Last(tokens), Behind(Last(tokens))) > Len(file) + 1
      OBVIOUS
    <3>1. state = "done" BY DEF TypeInv, Buffers
    <3>2. Expected > Len(file) + 1 BY <2>2, <3>1 DEF AtEnd
    <3>3. Len(file) \in Nat BY FilesAssumption DEF TypeInv, Types
    <3>4. Expected # 1 BY <3>2, <3>3
    <3> QED BY <3>2, <3>4 DEF Expected, Ends
  <2> QED BY <2>3, <2>4, <2>5, <2>6 DEF NothingIsLost
<1> QED BY <1>1, Invariant, PTL

(* A word, a number and an operator are as long as the text allows, over   *)
(* the search of the token table (tokens.c:193-263), and a reserved word   *)
(* is never read as a name.                                                *)
THEOREM ScannerLongest == Spec => []TokensAreLongest
<1>1. Placed => TokensAreLongest
  BY DEF Placed, Clean, Printed, Longest, TokensAreLongest
<1> QED BY <1>1, Invariant, PTL
=============================================================================
