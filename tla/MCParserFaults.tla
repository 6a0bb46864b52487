--------------------------- MODULE MCParserFaults ---------------------------
(* The texts that show what a lexer error and the end of the depth do.     *)
EXTENDS Parser

BadTexts ==
  {[ kinds |-> {"echo", "number"}, faults |-> {"bad"}, tokens |-> 4, nested |-> 0,
     bad |-> 1, depth |-> 40 ]}

BracedTexts ==
  {[ kinds |-> {"if", "number", "{", ";", "}"}, faults |-> {"bad"}, tokens |-> 6, nested |-> 1,
     bad |-> 2, depth |-> 60 ]}

DeepTexts ==
  {[ kinds |-> {"echo", "number", "+", "("}, faults |-> {}, tokens |-> 7, nested |-> 1,
     bad |-> 0, depth |-> 10 ]}
=============================================================================
