------------------------------ MODULE Scanner ------------------------------
(***************************************************************************)
(* The scanner (lexer.c: lexer_next_token, lexer_skip_line and             *)
(* lexer_skip_until, with the table of tokens.c) under the loop of run_lex *)
(* (main.c), which prints the tokens of a file.  One action for every      *)
(* character that is read.                                                 *)
(*                                                                         *)
(* Characters are one-letter strings, of a few classes: letters, digits,   *)
(* the characters of the operators, "@" for any other one, "BAD" for a     *)
(* byte from 0x80 on.                                                      *)
(***************************************************************************)
EXTENDS Reader

CONSTANTS
  Files,   \* the texts
  Words,   \* the reserved words of those texts, in the order of the table
  BufSize  \* TOKEN_VALUE_MAX_SIZE

ASSUME SizesAssumption == {BlockSize, UngetSize, BufSize} \subseteq Nat \ {0}

VARIABLES
  file,   \* the text
  reader,
  line, col, \* Lexer.line and col
  state,  \* the state of lexer_next_token, "line" and "until" in the skipping
          \*   functions, "main" in run_lex, "done" when that has returned
  buf,    \* buf[0 .. buf_idx] of lexer_next_token; what is matched of "*/"
  start,  \* line and col at the start of the token
  tokens, \* the tokens that were printed
  code    \* error_code of run_lex

lexer == <<line, col>>
vars  == <<file, reader, lexer, state, buf, start, tokens, code>>

(* Characters with a name. *)
NL        == "\n"
Space     == " "
Quote     == "\""
Semicolon == ";"
Open      == "{"
Close     == "}"

(* TOKEN_KEYWORDS: by first character, the longer ones first; the reserved *)
(* words are between the others.                                           *)
BeforeWords ==
  << <<NL>>, <<"!","=">>, <<"!">>, <<"#">>, <<"%","=">>, <<"%">>,
     <<"&","&">>, <<"&","=">>, <<"&">>, <<"(">>, <<")">>, <<"*","=">>, <<"*">>,
     <<"+","=">>, <<"+","+">>, <<"+">>, <<"-",">">>, <<"-","-">>, <<"-","=">>, <<"-">>,
     <<".",".","=">>, <<".",".","<">>, <<".">>,
     <<"/","=">>, <<"/","*">>, <<"/","/">>, <<"/">>, <<":","=">>, <<":">>, <<Semicolon>>,
     <<"<","<","=">>, <<"<","<","~">>, <<"<","=">>, <<"<","-">>, <<"<","<">>,
     <<"<",">">>, <<"<">>, <<"=","=">>, <<"=",">">>, <<"=">>,
     <<">",">",">","=">>, <<">",">","=">>, <<">",">","~">>, <<">",">",">">>,
     <<">","=">>, <<">",">">>, <<">">>, <<"?","?">>, <<"?">>, <<"[">>, <<"]">>,
     <<"^","=">>, <<"^">>, <<Space>> >>

BehindWords == << <<Open>>, <<"|","|">>, <<"|","=">>, <<"|">>, <<Close>>, <<"~">> >>

Keywords == BeforeWords \o Words \o BehindWords

Operators == Range(Keywords) \ Range(Words)

Letters == {"a", "b", "f", "i", "n", "_"}
Digits  == {"0", "1"}
Blanks  == {Space, "\t"}
Others  == {Quote, "@", "BAD", NUL}

Chars == Letters \cup Digits \cup Blanks \cup Others
         \cup UNION {Range(word) : word \in Operators}

ASSUME FilesAssumption == \A text \in Files : text \in Seq(Chars)

(* A reserved word starts with a letter and goes on with letters and       *)
(* digits; a longer one comes before a shorter one (tokens.c:11).          *)
ASSUME WordsAssumption ==
  /\ Words \in Seq(Seq(Letters \cup Digits))
  /\ \A k \in DOMAIN Words : Words[k] # <<>> /\ Words[k][1] \in Letters
  /\ \A j, k \in DOMAIN Words :
       j < k /\ Words[j][1] = Words[k][1] => Len(Words[j]) >= Len(Words[k])

(* build_ranges, and the search in the range of the first character, which *)
(* gives up at the first entry that is shorter.                            *)
InRange(c) == {k \in DOMAIN Keywords : Keywords[k][1] = c}

Lookup(word) ==
  {k \in InRange(word[1]) :
     /\ Keywords[k] = word
     /\ \A j \in InRange(word[1]) : j < k => Len(Keywords[j]) >= Len(word)}

(* Mistake: an operator has two characters at the most. *)
CouldBeShort(word) == Len(word) <= 2 /\ \E k \in Lookup(word) : Keywords[k] \in Operators

CouldBeOperator(word) == \E k \in Lookup(word) : Keywords[k] \in Operators

Token(kind, value) == [kind |-> kind, value |-> value, line |-> start.line, col |-> start.col]

(* process_word: a keyword, whose kind says it all, or an identifier. *)
ProcessWord == Token(IF Lookup(buf) # {} THEN "keyword" ELSE "id", buf)

Init ==
  /\ file \in Files
  /\ reader = NewReader
  /\ line = 1 /\ col = 1
  /\ state = "main" /\ buf = <<>> /\ start = [line |-> 1, col |-> 1]
  /\ tokens = <<>> /\ code = 0

(* run_lex calls lexer_next_token. *)
NextToken ==
  /\ state = "main"
  /\ state' = "WS_START" /\ buf' = <<>> /\ start' = [line |-> line, col |-> col]
  /\ UNCHANGED <<file, reader, lexer, tokens, code>>

InToken == state \in {"WS_START", "WS_WORD", "WS_DIG", "WS_OP", "WS_STRING"}

End(c) == state' = "done" /\ buf' = <<>> /\ code' = c

(* Mistake: the buffer is never full. *)
NeverFull == InToken /\ Len(buf) > 4 * BufSize

Full == InToken /\ Len(buf) >= BufSize

TooLong ==
  /\ Full /\ End(2)
  /\ UNCHANGED <<file, reader, lexer, start, tokens>>

ReadFails ==
  /\ state \notin {"main", "done"} /\ ~Full
  /\ \E got \in Getch(file, reader) :
       /\ ~got.read /\ got.reader.error
       /\ reader' = got.reader
  /\ End(CASE state = "line" -> 3 [] state = "until" -> 4 [] OTHER -> 2)
  /\ UNCHANGED <<file, lexer, start, tokens>>

(* A character, or NUL at the end of the text. *)
Reads(got) == got \in Getch(file, reader) /\ (got.read \/ ~got.reader.error)

NonAscii ==
  /\ InToken /\ ~Full
  /\ \E got \in Getch(file, reader) : got.c = "BAD" /\ reader' = got.reader
  /\ End(2)
  /\ UNCHANGED <<file, lexer, start, tokens>>

(* lexer_next_token in the state s reads a character; col moves on. *)
Scan(s, got) ==
  /\ state = s /\ ~Full
  /\ Reads(got) /\ got.c # "BAD"
  /\ UNCHANGED <<file, start>>

IsWord(c)  == c \in Letters \cup Digits
IsPunct(got) == got.read /\ ~IsWord(got.c)

Keep(got) ==
  /\ buf' = Append(buf, got.c)
  /\ reader' = got.reader
  /\ col' = col + 1
  /\ UNCHANGED <<line, tokens, code>>

(* run_lex prints the token and skips a comment behind it. *)
Deliver(token) ==
  /\ tokens' = Append(tokens, token)
  /\ state' = CASE token.kind = "keyword" /\ token.value = <<"/","/">> -> "line"
                [] token.kind = "keyword" /\ token.value = <<"/","*">> -> "until"
                [] OTHER -> "main"
  /\ buf' = <<>>
  /\ UNCHANGED code

StartEnd ==
  \E got \in Getch(file, reader) :
    /\ Scan("WS_START", got) /\ ~got.read
    /\ End(0) /\ reader' = got.reader /\ col' = col + 1
    /\ UNCHANGED <<line, tokens>>

StartSpace ==
  \E got \in Getch(file, reader) :
    /\ Scan("WS_START", got) /\ got.c \in Blanks
    /\ Deliver(Token("space", <<>>)) /\ reader' = got.reader /\ col' = col + 1
    /\ UNCHANGED line

StartString ==
  \E got \in Getch(file, reader) :
    /\ Scan("WS_START", got) /\ got.c = Quote
    /\ state' = "WS_STRING" /\ reader' = got.reader /\ col' = col + 1
    /\ UNCHANGED <<buf, line, tokens, code>>

StartOther ==
  \E got \in Getch(file, reader) :
    /\ Scan("WS_START", got) /\ got.read /\ got.c \notin Blanks \cup {Quote}
    /\ Keep(got)
    /\ state' = IF got.c \in Letters THEN "WS_WORD"
                ELSE IF got.c \in Digits THEN "WS_DIG" ELSE "WS_OP"

Goes(got) ==
  \/ state = "WS_WORD" /\ IsWord(got.c)
  \/ state = "WS_DIG" /\ got.c \in Digits
  \/ state = "WS_OP" /\ IsPunct(got) /\ CouldBeOperator(Append(buf, got.c))

GoOn ==
  \E got \in Getch(file, reader) :
    /\ \E s \in {"WS_WORD", "WS_DIG", "WS_OP"} : Scan(s, got)
    /\ Goes(got) /\ Keep(got)
    /\ UNCHANGED state

(* Mistake: the character that ends a token is gone. *)
StopAndLose ==
  \E got \in Getch(file, reader) :
    /\ \E s \in {"WS_WORD", "WS_DIG", "WS_OP"} : Scan(s, got)
    /\ ~Goes(got)
    /\ reader' = got.reader
    /\ Deliver(IF state = "WS_DIG" THEN Token("number", buf) ELSE ProcessWord)
    /\ IF state = "WS_OP" /\ buf = <<NL>>
       THEN line' = line + 1 /\ col' = 1 ELSE UNCHANGED lexer

(* The token ends before the character, which is given back. *)
Stop ==
  \E got \in Getch(file, reader) :
    /\ \E s \in {"WS_WORD", "WS_DIG", "WS_OP"} : Scan(s, got)
    /\ ~Goes(got)
    /\ reader' = Ungetch(got.reader, got.c)
    /\ Deliver(IF state = "WS_DIG" THEN Token("number", buf) ELSE ProcessWord)
    /\ IF state = "WS_OP" /\ buf = <<NL>>
       THEN line' = line + 1 /\ col' = 1 ELSE UNCHANGED lexer

StringEnd ==
  \E got \in Getch(file, reader) :
    /\ Scan("WS_STRING", got) /\ got.c = Quote
    /\ Deliver(Token("string", buf)) /\ reader' = got.reader /\ col' = col + 1
    /\ UNCHANGED line

(* The end of the text is kept as well, until the buffer is full. *)
StringChar ==
  \E got \in Getch(file, reader) :
    /\ Scan("WS_STRING", got) /\ got.c # Quote
    /\ buf' = Append(buf, got.c) /\ reader' = got.reader
    /\ IF got.c = NL THEN line' = line + 1 /\ col' = 1 ELSE col' = col + 1 /\ UNCHANGED line
    /\ UNCHANGED <<state, tokens, code>>
-----------------------------------------------------------------------------
(* Mistake: the end of the text is not seen. *)
SkipToNewline ==
  /\ state = "line"
  /\ \E got \in Getch(file, reader) :
       /\ Reads(got)
       /\ IF got.c = NL
          THEN state' = "main" /\ reader' = Ungetch(got.reader, got.c) /\ UNCHANGED col
          ELSE /\ reader' = got.reader /\ UNCHANGED state
               /\ col' = IF got.read THEN col + 1 ELSE col
  /\ UNCHANGED <<file, line, buf, start, tokens, code>>

(* lexer_skip_line: up to the newline, which is left. *)
SkipLine ==
  /\ state = "line"
  /\ \E got \in Getch(file, reader) :
       /\ Reads(got)
       /\ IF ~got.read THEN state' = "main" /\ reader' = got.reader /\ UNCHANGED col
          ELSE IF got.c = NL
          THEN state' = "main" /\ reader' = Ungetch(got.reader, got.c) /\ UNCHANGED col
          ELSE reader' = got.reader /\ col' = col + 1 /\ UNCHANGED state
  /\ UNCHANGED <<file, line, buf, start, tokens, code>>

(* lexer_skip_until: behind the anchor. *)
Anchor == <<"*", "/">>

(* Mistake: a character that does not fit is not looked at again. *)
ForgetStar(matched, c) ==
  IF c = Anchor[Len(matched) + 1] THEN Append(matched, c) ELSE <<>>

Matched(matched, c) ==
  IF c = Anchor[Len(matched) + 1] THEN Append(matched, c)
  ELSE IF c = Anchor[1] THEN <<c>> ELSE <<>>

SkipUntil ==
  /\ state = "until"
  /\ \E got \in Getch(file, reader) :
       /\ Reads(got)
       /\ reader' = got.reader
       /\ IF ~got.read THEN End(4) /\ UNCHANGED lexer
          ELSE /\ IF got.c = NL THEN line' = line + 1 /\ col' = 1
                  ELSE col' = col + 1 /\ UNCHANGED line
               /\ IF Matched(buf, got.c) = Anchor
                  THEN state' = "main" /\ buf' = <<>>
                  ELSE buf' = Matched(buf, got.c) /\ UNCHANGED state
               /\ UNCHANGED code
  /\ UNCHANGED <<file, start, tokens>>

Lexes ==
  \/ NextToken \/ TooLong \/ NonAscii
  \/ StartEnd \/ StartSpace \/ StartString \/ StartOther
  \/ GoOn \/ Stop \/ StringEnd \/ StringChar
  \/ SkipLine \/ SkipUntil

Next == Lexes \/ ReadFails

(* run_lex goes on until it returns, and no file has to fail for that. *)
Spec == Init /\ [][Next]_vars /\ WF_vars(Lexes)
-----------------------------------------------------------------------------
TypeOK ==
  /\ Len(buf) <= BufSize /\ buf \in Seq(Chars)
  /\ Len(reader.unget) <= 1 /\ reader.pos <= Len(reader.buf)
  /\ reader.buf \in Seq(Chars) /\ Len(reader.buf) <= BlockSize
  /\ line \in Nat \ {0} /\ col \in Nat \ {0}
  /\ code \in {0, 2, 3, 4}

(* Where a line and a column are in the text: the character behind that    *)
(* many newlines and columns.                                              *)
LineOf(p) == 1 + Cardinality({k \in 1 .. p - 1 : file[k] = NL})
ColOf(p)  == p - Max({0} \cup {k \in 1 .. p - 1 : file[k] = NL})

PlaceOf(t) ==
  Max({0} \cup {p \in 1 .. Len(file) + 1 : LineOf(p) = t.line /\ ColOf(p) = t.col})

Spellings(t) ==
  CASE t.kind = "string" -> {<<Quote>> \o t.value \o <<Quote>>}
    [] t.kind = "space"  -> {<<c>> : c \in Blanks}
    [] OTHER             -> {t.value}

Behind(t) == PlaceOf(t) + Len(CHOOSE s \in Spellings(t) : TRUE)

(* Behind a comment: at the newline or the end, or behind the first "*/".  *)
CommentEnd(t, p) ==
  IF t.kind = "keyword" /\ t.value = <<"/","/">>
  THEN Min({Len(file) + 1} \cup {k \in p .. Len(file) : file[k] = NL})
  ELSE IF t.kind = "keyword" /\ t.value = <<"/","*">>
  THEN Min({Len(file) + 2} \cup {k + 2 : k \in {j \in p .. Len(file) - 1 : file[j] = "*" /\ file[j + 1] = "/"}})
  ELSE p

(* Every token is in the text at the line and the column it says, letter   *)
(* for letter (a text with a NUL is another matter: it cannot be given     *)
(* back, reader.c:61).                                                     *)
TokensAreInPlace ==
  NUL \notin Range(file) =>
    \A k \in DOMAIN tokens :
      LET p == PlaceOf(tokens[k])
      IN  p # 0 /\ \E s \in Spellings(tokens[k]) : IsPrefix(s, SubSeq(file, p, Len(file)))

(* Nothing of the text is lost or read twice, over the ends of the blocks  *)
(* and through the characters that are given back: the first token is at   *)
(* the start, each next one behind the last and its comment, and when      *)
(* run_lex returns 0 the text is over, when it returns 4 the comment is not *)
(* closed; in between the reader is where the last token ends.             *)
NothingIsLost ==
  NUL \notin Range(file) =>
    /\ \A k \in DOMAIN tokens :
         PlaceOf(tokens[k]) =
           IF k = 1 THEN 1 ELSE CommentEnd(tokens[k - 1], Behind(tokens[k - 1]))
    /\ tokens # <<>> /\ state = "main" =>
         Offset(reader) + 1 = CommentEnd(Last(tokens), Behind(Last(tokens)))
    /\ state = "done" /\ code = 0 => Offset(reader) = Len(file)
    /\ code = 4 /\ ~reader.error =>
         CommentEnd(Last(tokens), Behind(Last(tokens))) > Len(file) + 1

(* A name, a number and an operator are as long as they can be: no token   *)
(* goes on in the character behind it, and a reserved word is one of the   *)
(* table wherever it is in it.                                             *)
TokensAreLongest ==
  \A k \in DOMAIN tokens :
    LET t == tokens[k]
        p == Behind(t)
    IN  NUL \notin Range(file) /\ t.kind \in {"keyword", "id", "number"} =>
          /\ t.kind = "keyword" <=> t.value \in Range(Keywords)
          /\ p <= Len(file) =>
               /\ Head(t.value) \in Letters => ~IsWord(file[p])
               /\ t.kind = "number" => file[p] \notin Digits
               /\ Append(t.value, file[p]) \notin Operators

(* run_lex returns: no comment, string or word keeps it for ever.          *)
LexingEnds == <>(state = "done")
=============================================================================
