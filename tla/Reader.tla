------------------------------- MODULE Reader -------------------------------
(***************************************************************************)
(* The reader (reader.c): the characters of a file, read block by block,   *)
(* and a small stack of characters that were given back.  A reader is a    *)
(* record; the operations map one to the ones it may become.               *)
(***************************************************************************)
EXTENDS Naturals, Sequences, SequencesExt

CONSTANTS
  BlockSize, \* READER_BUFFER_SIZE
  UngetSize, \* READER_UNGET_BUF_SIZE
  Faults     \* {"read"} when reading the file may fail

NUL == "NUL" \* the character '\0'

NewReader ==
  [ buf     |-> <<>>,  \* the block, buf[0 .. available]
    pos     |-> 0,     \* what has been taken from it
    bufBase |-> 0,     \* the file offset of the block
    unget   |-> <<>>,  \* unget_buf up to its first NUL
    error   |-> FALSE ]

(* How far the file has been read. *)
FilePos(r) == r.bufBase + Len(r.buf)

(* fread: as much as there is, at most a block.  ferror stays set. *)
Block(file, r) == SubSeq(file, FilePos(r) + 1, Min({FilePos(r) + BlockSize, Len(file)}))

Refill(file, r) ==
  [r EXCEPT !.buf = Block(file, r), !.bufBase = FilePos(r), !.pos = 1]

Got(r, c) == [reader |-> r, read |-> TRUE, c |-> c]

(* At the end and after an error c is what the caller had put into it. *)
NotGot(r) == [reader |-> r, read |-> FALSE, c |-> NUL]

(* A definition marked "Mistake" is the one that follows it with a bug the *)
(* code could well have; nothing uses it but the check of the properties.  *)

(* Mistake: a character that was given back is delivered behind the block. *)
GetchLate(file, r) ==
  IF r.pos < Len(r.buf) THEN
    {Got([r EXCEPT !.pos = @ + 1], r.buf[r.pos + 1])}
  ELSE IF r.unget # <<>> THEN
    {Got([r EXCEPT !.unget = Front(@)], Last(r.unget))}
  ELSE
    (IF r.error THEN {} ELSE
       IF Block(file, r) = <<>> THEN {NotGot(r)}
       ELSE {Got(Refill(file, r), Head(Block(file, r)))})
    \cup {NotGot([r EXCEPT !.error = TRUE]) : f \in Faults}

Getch(file, r) ==
  IF r.unget # <<>> THEN
    {Got([r EXCEPT !.unget = Front(@)], Last(r.unget))}
  ELSE IF r.pos < Len(r.buf) THEN
    {Got([r EXCEPT !.pos = @ + 1], r.buf[r.pos + 1])}
  ELSE
    (IF r.error THEN {} ELSE
       IF Block(file, r) = <<>> THEN {NotGot(r)}
       ELSE {Got(Refill(file, r), Head(Block(file, r)))})
    \cup {NotGot([r EXCEPT !.error = TRUE]) : f \in Faults}

(* NUL marks an empty place, and a full stack drops what does not fit. *)
Ungetch(r, c) ==
  IF c = NUL \/ Len(r.unget) = UngetSize THEN r
  ELSE [r EXCEPT !.unget = Append(@, c)]

(* The offset of the next character, for the properties. *)
Offset(r) == r.bufBase + r.pos - Len(r.unget)
=============================================================================
