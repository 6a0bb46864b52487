# A specification of xlang

TLA+ modules, model-checking configurations and machine-checked proofs for two
programs of the repository. `bootstrap/` is the compiler under construction: a
reader, a lexer, a backtracking parser, and the walker that checks, runs and frees a program;
beside it are a hash map and a stack machine. `bootstrap-olg/` is the older
prototype of the whole language, of which the interpreter is modelled.

Paths below are relative to the repository; a bare file name is in `bootstrap/`.

## 1. The system

`bs --run`, `--chk`, `--ast` and `--lex` (main.c) are pipelines over one file:

    Reader --characters--> Lexer --tokens--> Parser --tree--> Walker
           <--unget------        <--mark,           calls the operations of a
                                    rewind--        context: Exec | Checker | AstFree | dump

Everything is one thread. What makes it hard is not interleaving but state that
outlives the step that made it: positions that are restored, caches, operands
that are taken many steps after they were put, memory that is freed by walking
over it, and errors that leave by `longjmp` from the middle of all that.

| component | state | operations | what makes it correct |
|---|---|---|---|
| Reader (reader.c) | block buffer, four unget slots, file offset | `reader_getch`, `reader_ungetch` | characters come once and in order, whatever is pushed back at the end of a block |
| Scanner (lexer.c 194-417, tokens.c) | line, col, token text | `lexer_next_token`, `lexer_skip_line`, `lexer_skip_until` | every text divides into tokens; a faulty one is an error and nothing is skipped in silence |
| Token log (lexer.c 25-192) | `steps`, `steps_pos`, `at_eof`, line/col | `lexer_next_significant`, `lexer_mark`, `lexer_rewind_to` | a rewind is invisible: the same tokens again, with the same positions |
| Grammar (parser.c 61-318) | constant tables | reducers | accepted programs and their trees are those of the rules |
| Parser (parser.c 320-612) | a frame per recursive call, the current token, the newline probe | `parse_by_rule` | accepts what the grammar derives; a failed attempt leaves no trace; every node is owned once |
| Tree (ast.c) | nodes with heights | constructors | children are lower than parents, and have one |
| Walker (walker.c) | stack of tasks (node, mode, phase) | `walker_run` | the stack its callers size is big enough; operations are called in the right order |
| Interpreter (exec.c) | operand stack, scopes | 13 operations, 2 descisions | operands balance; scoping; wrapping arithmetic; errors are the program's |
| Checker (checker.c, typetab.c) | types in the nodes, scopes | the same operations | what it lets through does not fail for a reason it looks at |
| Disposal (ast-free.c) | the allocations of a tree | the same operations | each freed once, none read afterwards, none left |
| Tree dump (ast-dump.c) | depth | the same operations | layout only |
| Hash map (hmap.h) | chains in a table that doubles | put, get, compute_if_absent, remove, free | a function from names to values through every growth |
| Vector, stack (vec.h, stack.h) | a growing array | push, pop | - |
| Stack machine (vm.c) | code, pool, stack, error | 13 instructions, loading, `vm_execute` | stays within its three arrays, and what fails leaves no result |
| Logger, scripts | - | printing | - |
| Prototype (`bootstrap-olg/`) | environments, deferred statements, catch frames, a pending flow | a recursive evaluator; before it a recursive-descent parser | what is deferred runs once, in order; a jump or a raise puts every field back |

How they interact. The parser owns the marks it gives back to the lexer and
restores `current_token` and the cursor together. The parser hands the tree to
`main.c`, which hands it to a walk with one context (`WOperations`) and, when
that walk is over, successful or not, to the walk that frees it. Operations talk
to each other only through their context's stacks and through `ASTNode.type`. Scopes are hash maps.
The stack machine is used by its test only.

The hazards are listed at their lines in `PROJECT.json`, with the properties
that cover them or the reason why none does.

## 2. The modules

| module | models | extends / uses |
|---|---|---|
| `Reader` | the reader, as operators on a record | |
| `Scanner`, `MCScanner` | `lexer_next_token` and the skipping functions under `run_lex` | Reader |
| `ScannerProofs` | theorems | Scanner, TLAPS |
| `Lexemes` | texts as sequences of lexemes | |
| `TokenStream` | abstract: a stream that could read its text again from any position | Lexemes |
| `TokenLog`, `MCTokenLog` | the token log | Lexemes; TokenStream by INSTANCE |
| `TokenLogProofs` | theorems | TokenLog, TLAPS |
| `Grammar` | the rules, productions and reducers as records | |
| `Parser` | `parse_by_rule` as a machine with explicit frames | Grammar |
| `Derivations` | abstract: what the grammar derives, without a parser (recursive) | Grammar |
| `MCParser`, `MCParserFaults` | the families of texts | Parser, Derivations |
| `ParserProofs` | theorems | Parser, TLAPS |
| `Ast` | trees as the constructors make them | |
| `Walker` | the walk and its task stack; operations are parameters of its actions | Ast |
| `Exec`, `Checker`, `AstFree` | the three contexts | Walker |
| `Program` | a program checked and freed, then run and freed | Exec, Checker, AstFree |
| `Meaning` | abstract: what a program means, node by node (recursive) | Exec |
| `MCProgram` | programs with every kind of node | Program, Meaning |
| `WalkerProofs` | theorems on the task stack | Program, TLAPS |
| `ProgramProofs` | theorems on scopes, operands, the memory of a tree and accepted programs | WalkerProofs |
| `Dictionary` | abstract: a map whose calls take effect at once | |
| `HashMap`, `MCHashMap` | hmap.h, turn by turn of its loops | Dictionary by INSTANCE |
| `HashMapProofs` | theorems; the refinement | HashMap, TLAPS |
| `StackMachine`, `MCStackMachine` | vm.c | |
| `StackMachineProofs` | theorems | StackMachine, TLAPS |
| `OlgTree` | nodes and values of the prototype | |
| `OlgOperators` | its operators, by casts between two kinds of words | OlgTree |
| `OlgExec`, `MCOlg` | its interpreter, with the C stack | OlgOperators; OlgMeaning by INSTANCE |
| `OlgProofs` | theorem on the fields of `Exec` | OlgExec, TLAPS |
| `OlgMeaning` | abstract: what a program of it means, by the rules of exec.c or by those of the documents, as functions of its tree (recursive) and in exact arithmetic | OlgOperators |

Definitions marked *Mistake* are the definition that follows them with a bug the
code could well have. Nothing uses them; each property is known to be violated
when one of them takes the place of the real definition.

### Reader and Scanner

A reader is a record with the fields of the struct; `Getch` maps one to the readers it may become,
of which one is a failed read when the file may fail. `Scanner` has one action for each character that
`lexer_next_token` reads in each of its states (`WS_START`, `WS_WORD`, ...), and one for each that the skipping
functions read. The caller is `run_lex` of main.c, which prints the tokens.
`Keywords` is the token table in its order, because the search in it stops at the first shorter entry; its reserved
words are a constant (`Words`), of which the run has two. Characters are classes: letters, digits, the characters of operators, any other, a
byte from 0x80 on, NUL. How the scanner's answers become the lexemes of the token log is
`TokenLog!Pending`.

### TokenLog

One action is one iteration of the loop of `lexer_next_significant`: `Call`
enters it, `Replay...` consumes steps that are in the log, `Lex...` lexes and
appends steps, and `Mark` and `Rewind` are the parser's calls. `steps`,
`steps_pos` and `at_eof` are the fields of those names; `marks` are the positions a
caller holds, any of which it may rewind to. A closed block comment is two steps
(lexer.c:165-183), text that cannot be lexed is none.

`where` stands for line and col, which are a sum over the characters that were counted. It is the set of what was:
each lexeme has two parts, its opening (the `/*` of a comment) and the rest. `LexBad` counts nothing of
the bad text, a part or all of it, since `lexer_next_token` returns before it counts a bad byte (lexer.c:228-231) and does not put back
what it counted of a name or a string before the error (233, 303). The field `at` of a step, the lexeme it ends with, is read by the properties only.

### Parser

`frames` is the C stack: a record for each `parse_by_rule` in progress with its
production, node, checkpoint, parameters and list. One action is one node
of a production or one way to leave it: `AcceptToken`, `LookPastNewline`,
`LookedInVain`, `SwitchProduction` (the goto that keeps a shared prefix),
`NextProduction` and `NoProduction` (rollback), `Fold` (left association),
`ListItem`, `ListEnd`, `Abandon` (the depth ran out). The lexer in it is the stream
`TokenStream` promises; the text is chosen while it is read, so a run explores all texts of
each of its families.

A node of the tree is a label and what it spans (`Grammar!Node`); `over` is the set of
tokens under it, which tells whether two nodes share one.

### Walker, Exec, Checker, AstFree, Program

A tree is the sequence of its nodes in the order of their allocation, a position is
an address, 0 is NULL. `Walker!EvalSteps` is the table of phases of `walker_run`: what is pushed or
called for each kind of node. Its actions are the turns of the loop: `Descend` pushes a child,
`Called(op)` is an operation that returned, `Raised(op, error)` one that left with `longjmp`,
`Decided` the turn that asks both descisions and pushes the arms, `Skip` the
task of a missing else arm, `Misplaced` a target of an assignment that is no name.
The three contexts conjoin what their operation does to their own state with the
`Called`, `Raised` or `Decided` it is. In `Exec` an operation that fails leaves the
machine unchanged: nothing but its disposal follows. `Checker` reads a type that was never
written as any type at all, since nodes come from `malloc`. `AstFree` tracks
each allocation of the tree and notices a second free and a read of what is gone.

`Program` is `main.c` behind the parser: `run_check`, `free_ast`, `run_exec`,
`free_ast`, each walk beginning when the one before it is over, whether or not it failed.

The model of these modules was also compared with the program: all 1955 programs of
`MCProgram`, printed as text, end with the same status, message and
output under `bs --chk` and `bs --run` as in the model.

### HashMap

A node is a number, its address; `heap` holds the nodes that are allocated, `nodes` the table. One action is
one turn of a loop: of the walk along a list, of the two nested loops of a growth and of the loop to the end of the
new list in them, of freeing. A hash is a constant of a key: what FNV makes of a name matters only through
the lists that names share. The function a caller sees (`Entries`) is read off the heap, so that it is
the same in the middle of a growth.

### StackMachine

An executor is an operator from a machine to a machine, built of `Pop`, `Push` and `Fail` as the C is of
`pop_slot`, `push_slot` and `vm_set_error`; an action fetches the byte at `ip`, runs its executor, and counts a
step. Loading (`AddCommand`, `AddString`) and running alternate in any order. A word is an integer of
`2 * Half` values that wraps; an address is a byte count. `Execute` starts at the entry point each time it is called (vm.c:253), with the
operand stack of the run before. Three ends are of the code's own making: an error that does not stop the machine
(`GiveUp`), the trap of `INT64_MIN / -1`, and a wild address given to `printf("%s")`, which is undefined and kills the process here.

### OlgExec

A frame of the C stack is a record: the function, its node, where it is in it, its locals. One action runs a
function up to its next call. The fields of `Exec` are those of the C (`cur`, `flow`, `label`, `ret`,
`catch_`, `defers`, `depth`), and so is what each function saves of them and puts back. `Raises` is the `longjmp`: it
cuts the C stack at the frame of `catch_` and goes on in the branch behind its `setjmp`.
`fnframe` is left out: it is written and never read.

`OlgMeaning` has none of this: a statement is a function from states to states,
and what it deferred and did not run is part of its result. The documents of the language (README.md, GRAMMAR.md and OWNERSHIP_RULES.md of the root) and
the prototype differ at eleven points, which its constant `Documented` names: the order of deferred statements, the jumps and the failures at which they run, what `try` unwraps,
labels of `continue`, ordinals of loops, what is left out of a slice, of a checked `if` and of a function expression, cyclic shifts, equality of bools and enums. At the points in
`Documented` a program means what the documents say, at the others what exec.c does. `MCOlg` uses it with no point (`Code`), which the interpreter is found to follow (`RunsAsWritten`), and with one point
at a time (`Written`), none of which it follows (`RunsAsDocumented`). The documents are about programs with types; of those without, like one that defers a jump or never looks at an error, `OlgMeaning`
follows exec.c in any case.

An environment, an array and a record are a sequence of cells at an address in `envs`; a value that is an array
or a record is that address, so that two names share it. The operands of an expression, of an assigned place and of an initializer are
evaluated by `EvalPart` and `TakePart`, one call each, before one action (`EvalBin`, `EvalIndex`, `RecBuild`, ...) makes the
value; an error raised between two operands leaves what was evaluated behind. `lvalue_cell` returns a cell, and the right side of an
assignment is evaluated after it. The operators of `OlgOperators` work on words as the C does, by casts between `int64_t` and `uint64_t`;
`OlgMeaning` has the arithmetic and the comparisons of `int` and `uint` in exact numbers instead.

Where the C asks a node for a child that it does not have, the memory holds anything. The model goes on as if it were 0, which it mostly is, or
ends there (`StrayChild`). Where the parser pushes children without a hole for one left out, the constructors of `OlgTree` do so, too
(`Slice`, `CheckIf`, `FuncExpr`), and note in the fields `low`, `bare` and `written` what the text had; only `OlgMeaning` reads these. Floats, bytes and chars are left out, named arguments, `out.print` and `out.error`, and a
text is empty or one of two, never indexed, sliced or put together.

The model was compared with the program here as well: the programs of `MCOlg`, printed as text, give the same output and exit code, but for
what depends on the width of a word, the text of a message, and the runs of `StrayChild`.

## 3. The runs

| run | question | bounds | states |
|---|---|---|---|
| `scanner` | Does every text divide into its tokens, each at its place, and does lexing end? | five alphabets (comments; operators that are prefixes of one another; words and numbers; strings and bad bytes; NUL), 3 to 6 characters; blocks of 2, a buffer of 4, any read may fail | 145,954 |
| `token_log` | Is the log a rewindable stream, and does every call return? | all texts of up to 3 lexemes over one word, newline, space, both comments, open comment, bad text; any mark, any rewind | 74,758 |
| `parser` | Is every program of the grammar parsed to its tree, what else is accepted, and does every parse end? | eight families: statements and separators (5 tokens), chains and parentheses (6, one level, and 6, two levels), chains cut by newlines (5), both forms of if (7 each), bad text, open comments and too little depth (5 and 4) | 895,788 |
| `program` | Are programs checked, run and freed as they should be? | 1955 programs, words of 3 bits | 164,718 |
| `hash_map` | Is the map a dictionary through every growth? | 4 keys that share a list, of which the growth to 8 rows parts one; 2 values | 772,784 |
| `stack_machine` | What do failing instructions leave behind, and is every fetch and every read inside? | 3 commands, 3 strings, 2 executions; stack of 2, code of 19 bytes, pool of 25 | 1,024,039 |
| `olg` | Does the interpreter do what the tree means, on every way out of a block, with every operator and with shared arrays and records? | 3641 programs: every nesting of two constructs around eight kinds of statement; every operator on eight operands, the ends of int and uint among them; indices, slices and initializers that fit and that do not; one for each other construct. Words of 5 bits | 229,760 |
| `parser_depth`, `parser_bad`, `parser_arguments`, `program_leak`, `olg_documents` | Counterexamples: see section 6 | the smallest inputs that show it | |

Why the bounds are enough:

- A block of two characters and a longest text of six put the end of a block before, in and behind each comment anchor, each
  operator and each character that is given back; a buffer of four is filled by words, numbers and strings of the alphabets.
  The proofs of section 5 cover every text and every size.
- Three lexemes hold a block comment between two others, which is what a mark, a
  replay and an append can go wrong around. The proofs of section 5 cover every length.
- A chain of two operators needs five tokens after `echo`, an `if` with
  `else` needs seven. The depth of 40 or 60 is never reached where it is not the
  question, and 10 or 14 is reached in the middle of a chain.
  `nested` bounds parentheses and ifs because the parser's backtracking is not
  memoised: one more that is tried in vain multiplies the states by about nine,
  as it does the program's running time.
- Three bits have a least value, -4, that wraps when negated or divided by -1, and a literal, 4, that does
  not fit. The programs have every kind of node in every position the parser allows, a definition in
  both kinds of arm, a name hidden by an inner block, and a redefinition.
- The table of the hash map starts at two rows instead of eight, so that four keys make it grow twice, the second time
  with three nodes in one list: the loop to the end of the new list turns, and a list is parted. An address
  that was freed is used again at once.
- Three commands fill the code in the middle of one; a stack of two overflows and underflows; the strings
  end before, at and behind the end of the pool, and NULL is added. The proofs of section 5 cover every size.
- Two nested constructs put a deferred statement, a raise and each jump inside and behind each block, loop, region, function and
  deferred block. The guard of the recursion (`depth_max`) is 26 instead of 1024, so that one program meets it. Words of
  five bits have both ends among the operands, a shift by the width and beyond it, and a lower half, which is what `!` looks at;
  `WidthAssumption` asks for two bits.
- `CHECK_DEADLOCK FALSE` where a lexing, a parse, a session, a run or all the calls of the stack machine are over: the
  program exits there, or the bounds do. `token_log` and `hash_map` can always be called again.

What the properties say:

- `TokensAreInPlace`, `NothingIsLost`, `TokensAreLongest`: the tokens with their lines and columns are the text,
  one behind the other, and as long as they can be. Texts with a NUL are excepted:
  reader.c:61 cannot give one back. `LexingEnds`.
- `ImplementsStream`: a caller cannot tell the log from a stream that reads its text
  again; `LogMatchesText`, `MarksNeverSplitAComment`, `NewlineFollowsComment`,
  `EndIsFoundOnce` and `PositionIsRestored` are why (and what the C asserts rely on). The last says that line and column account for every lexeme that was passed
  when a replay is over, and for nothing ahead; bad text is excepted (section 6), and of an open comment the opening is what is sure to be counted.
  `EveryCallReturns`.
- `ProgramsAreParsed`: no program of the grammar is rejected, and its tree is the grammar's.
  `OnlyOperatorsAreDropped`: what else is accepted is a program of the grammar but for operators without a right operand (section 6).
- `FailureIsInvisible`: where the lexer has found no error, a rule that fails restores the lexer and the current
  token. Two rules do not, since the switch to a production that shares its first nodes moves the checkpoint
  (parser.c:501): the tail of an `if`, and a chain, which leaves its second operator, or the newline before it, to be read next.
  `ReducersGetTheirArguments`: the asserts of the reducers, all of them in such a text, and all but one in the others (section 6).
  `ProbeIsTrue`: the cached look past newlines stays right through backtracking. `ParseEnds`.
- `TasksFit`: 2 * height + 1 tasks are enough. `OperandsMatchTasks`: the operand
  stack holds exactly what the tasks in progress are owed; so no operation underflows or takes
  another's operand. `ScopesMatchTasks`: a scope for each block in progress, in both machines.
- `CheckedProgramsRun`: an accepted program fails only at its arithmetic or at a
  redefinition; programs with a definition as the arm of an `if` are excepted,
  since the checker does let those through (section 6).
- `MeansWhatItSays`: output and error are those of `Meaning`. `TreeIsFreedOnce`. `SessionEnds`.
- `IsADictionary`: callers see `Dictionary`. `OneWayToEveryNode`: at every turn of every loop one pointer leads to every node, so none is lost, doubled
  or dangling. `SizeIsTrue`, `NothingIsLeft`, `CallsReturn`.
- `FetchesCommands`: no byte of an operand is executed. `StringsAreApart`, `PoolReadsAreInside`: the test of an offset wraps for the (size_t)-1 of a
  refused string; that the refusal stopped the machine is what keeps the read inside. `FailureLeavesNoResult`: pops and pushes after
  a failure do nothing, so what is left of the stack is a prefix of what was there.
- `RunsAsWritten`: output, diagnostic and exit code are those of `OlgMeaning` by the rules of exec.c. Those of the documents are others:
  `RunsAsDocumented` says no more than that a program follows them at one point of the eleven, and is violated by one that comes to all of them. As `RunsAsWritten` holds of that program, it does at each point what exec.c
  does, and this is never what the documents say (section 6). `FieldsFollowTheStack`: the fields of `Exec` are at every step what the
  frames on the C stack say, also behind a `longjmp`. `RunEnds`.

`OperandsMatchTasks`, `CheckedProgramsRun`, `MeansWhatItSays` and the second
part of `TreeIsFreedOnce` speak of trees that are well sorted (`Ast!IsWellSorted`): a value stands where one is used, and
what is assigned to has a name. The parser builds others, too; the runs include them, and
`TasksFit`, `ScopesMatchTasks`, `SessionEnds` and the absence of double frees hold of them as well.

## 4. Fairness

One thread runs everything and nothing in it blocks: a step that is enabled is
taken. So `ParseEnds`, `SessionEnds` and `RunEnds` assume weak fairness of `Next`, and
`EveryCallReturns`, `CallsReturn` and `LexingEnds` weak fairness of the loops alone, since nothing obliges
a caller to call, mark or rewind. `RunEnds` rests on the guard of the recursion and on programs
whose loops end.

## 5. What is proved

With TLAPS, for every value of the constants:

**Scanner** (`ScannerProofs`), for every text, blocks and buffers of any size, reads that fail at any point, and every list of reserved words that
satisfies `WordsAssumption`: they are words, and of two with the same first letter the longer comes first, as the comment at tokens.c:11 asks of the table.
A property speaks of the tokens that were printed; between two of them there is the one that is being read. `Placed` says, for each state of the scanner, where
the reader is and what it has in hand: `Expected` is where the next token has to start, and in a word, a number, an operator or a string the
buffer is what the text has from there to the next character (`Here`); in a comment, the end of the comment is not behind `Here` yet. A newline needs a case of its own, since the line
is counted up when it is read and the token is delivered afterwards. `TypeInv`, with the reader's own invariant (`ReaderOK`: one character at most is given back, and what is
in the block is the text at the offset of the block), is inductive alone, `Placed` on top of it.
The rest are facts about the operators: `Lookup` finds an entry exactly when the table has it, because no longer entry comes behind a shorter one
of the same character; `PlaceOf` finds a place from a line and a column, because no two places have both the same; `CommentEnd` is
the first end there is. Texts with a NUL are excepted, as in the run, but not from `TypeOK`.

**Token log** (`TokenLogProofs`), for every set of words and
texts that satisfies `WordsAssumption` and `InputsAssumption`.
`LogInvariant` is inductive: `TypeOK`, `LogMatchesText`,
`MarksNeverSplitAComment`, `NewlineFollowsComment`, `EndIsFoundOnce`,
`PositionIsRestored`, `EndIsRecorded`, which is needed because a replay that comes to the last step
must know that an end in the log is the end of the text, and `StepsAccount`: each step has recorded a line and column that account for the text up to its lexeme, which is what
a replay puts back. It is kept because a lexeme that is read is counted on top of what the last step, or bad text behind it, has left; so what bad text adds is carried along for ever,
and `Accounts` says nothing of it. None is inductive
alone: that a rewind is right needs marks outside of comments, which needs
the newline behind each comment, which needs the log to be the text. From it follow one
theorem for each of its parts and `LogImplementsStream`: under the mapping
`cursor <- After(steps_pos)` a step of the log is a step of the stream, or stutters.

**Parser** (`ParserProofs`), for every set of families, that is, texts of any length over any of the tokens, any number of
bad lexemes and any depth. Two invariants, one on top of the other.
`ParserInv` (`ParserIsInvariant`) is about each call in progress: it is at a production and a node of the grammar, with one parameter for
every node before it; each position it may go back to is a position of the text (`Placed`); and its checkpoint is where it was entered unless a
chain folded or switched (`ChecksStay`), which is what `FailureIsInvisible` asks when a call fails. That needs `AtItsCheck`: a call
that is at its first node is also at its checkpoint, so that a switch moves the checkpoint by nothing. `ProbeIsTrue` is a part of it, since the token behind
the newlines is what the parser goes on with; it holds after a rewind because the text before the cursor does not change.
`FailuresAreInvisible` is an action property that follows from `ParserInv` at the steps of `NoProduction`.

`ReducersGetTheirArguments` needs more, since production 2 of a block in braces has a reducer of the wrong arity (parser.c:311)
and is harmless only because its end is never reached: what production 1 refuses, production 2 refuses too. That is a statement about
two attempts at the same text. `BlocksInv` says of every call in progress what it has seen of the text it was entered at (`Known`):
a call that tries production 2 has met no opening brace, or has found behind it, and behind the separators, a token that is no closing brace.
This is kept because each call says when it returns what the text looks like where it began (`Left`): `stmt_optseps`
consumes the separators and nothing else, `block` consumes nothing else before a closing brace, and nothing but these matches in front of one.
It holds as long as the lexer has reported nothing and the depth lasts, which is exactly where the property holds.

**Walker** (`WalkerProofs`), for every set of trees that satisfies `TreesAssumption`,
that is, `IsTree`: what the constructors establish, a child lower than its parent above all.
`TasksFit` is not inductive: nothing in it says how much a task may still push.
The invariant is `InOrder`: each task, at position k of the stack, has
k + 2 * height(node) <= slots. A push lands one or two above a parent whose
height is at least one more than the child's, so the sum does not grow; the two is the turn that pushes both arms.
`WalkerHasRoom` proves it of `AnyWalk`, where operations answer and fail as they like;
`ProgramIsWalks` that `Program` implements `AnyWalk`; `ProgramsFit` combines the two.

**Scopes and operands** (`ProgramProofs`), for the same trees and words of any width. Of scopes, `ScopesMatchTasks` is inductive with the task
stack's invariant: a step begins or ends a block exactly when it opens or closes a scope, which is read off a table of what the next step of a
task is (`StepsByKind`, `StepAt`); it holds of every tree. Of operands, `OperandsMatchTasks` for well-sorted trees is not: that a task is owed the value of the one
above it says nothing yet about whether that one will leave it. `OperandsInv` adds `Chained`: each task was pushed by the step the task below took last. So
when a task is popped, the one below is owed a value exactly if the popped node yields one (`IsWellSorted`). A stack overflow is excluded
because each waiting task is owed one value and there are at most `Slots` of them.

**Freeing** (`ProgramProofs`), for the same trees. What is not freed yet (`Covered`) are the nodes with a task and the trees below the children that are still to get one
(`ToCome`); both are apart, no node has two tasks, and the allocations of two nodes are different. A task that is over frees its node, and a
node that is no one's child any more is freed by nobody else, since a node has one parent (`IsTree`). At the end nothing is to come, so nothing is left,
in a well-sorted tree; in any other the walk may stop before (walker.c:98), and still nothing is freed twice.

**Accepted programs** (`ProgramProofs`, its last part), for the same trees. `CheckedProgramsRun` compares the end of the first walk with the end of the third, and
the two meet in no variable but the tree. So what the checker found out has to become a fact of the tree. `Visible` is the set of names that
can be seen from a node, the least that passes a parent's names, and those defined in front of a child (`Behind`), on to the child; `Sound` is the greatest
set of nodes below which every name that is used can be seen. Both are defined without recursion, as an intersection (of `Views`) and a union (of `Settled` sets).
`AcceptedInv` says the same of checker and machine: each task fits the one below it, and from its node can be seen just what the blocks below have defined so far (`Placed`);
the scopes are those of the blocks in progress, one to one, and have these names (`Named`). Hence a name is found by either exactly if it is visible.
What the checker is done with is sound, or has its task still above (`Within`), so that at the end the root is sound; the machine
walks sound nodes only (`AllSound`), and finds every name. `Chained` excludes the misplaced nodes and `OperandsInv` the empty or full stack. Types
play no part: an operand of the machine is a word, whatever its type. A definition that is an arm of an `if`
is excepted, as in the property: the checker walks both arms, and the invariant fails there in its `Fits`.

**Hash map** (`HashMapProofs`), for every set of keys and values, every hash function and every initial capacity but 0.
Following a list to its end takes recursion, so a list is described from outside (`IsList`): a set of nodes for which there are ranks such that
the head has the least and `next` is the node of the next rank; no node is outside, and there is no cycle. `IInv` has a part for each loop: `WhenFinding` (the nodes walked past
have other keys), `WhenGrowing` and `WhenAtTail` (the nodes that were moved are lists in the new table, the rest still lists in the old one, and up to two
nodes are in hand), `WhenFreeing`. `TypeOK`, `OneWayToEveryNode` (by counting the pointers of three tables and two locals), `SizeIsTrue` and `NothingIsLeft`
follow, and so does the refinement: `Entries` changes at the one step where the call takes effect, and every turn of a loop is a stutter.

**Stack machine** (`StackMachineProofs`), for arrays of any size, words of any width and alignment, any lengths, numbers and
step counts, under `LengthsAssumption`, `PoolAssumption` (the pool does not end beyond the addresses an integer holds) and `NumbersAssumption`.
Every property of the run is a theorem. The proof is in two halves. `Sound(m, n, over)` says what an executor makes of a machine m: another
that fits and has stepped over the operand, or one that stopped with no result; it is proved of each executor from facts about one pop
and one push, and holds of an executor of two pops because what fails behind a pop has failed
before it (`NoResultBehindPop`). `IInv` is the inductive invariant: `CodeOK` (commands follow one another without a gap, which is
why the end of one is the place of the next and `FetchesCommands` is preserved), `OperandsOK` (every offset in the code is an answer of the pool),
`AnswersOK` (every answer is the offset of a string, or the machine has stopped), `PoolOK` and `MachineOK`. `FailureLeavesNoResult` is an action property that
follows from it and `Sound`.

**Prototype** (`OlgProofs`), for every program, that is, any tree of any nodes, also ones no parser builds; every depth, room and width. `FieldsFollowTheStack` says
what the fields of `Exec` are now, and nothing of what they become when a function puts back what it saved, or when a `longjmp` puts back what the frame of `catch_` saved many
calls ago. The invariant (`FollowInv`) adds that (`Fits`): each frame that saves fields has saved what the frames below it say, and no mark below it is
beyond its own. Then leaving the top frame is right because of the frame that is left alone, and `Raises` is right because cutting the stack at a frame keeps
all that is said of the frames below (`SameBelow`). The marks stay within the list because only a frame with the newest mark cuts it, down to that mark.
Every action is one of a few kinds of step (`Stays`, `Starts`, `Calling`, `Leaving`, the cut, the end), and the proof shows for each of the 82 which.
Besides the shape of frames the invariant needs no types: values, cells and nodes may be anything.

Only model-checked:

- liveness (`EveryCallReturns`, `ParseEnds`, `SessionEnds`, `LexingEnds`, `CallsReturn`, `RunEnds`);
- what compares with `Derivations`, `Meaning` or `OlgMeaning` (`ProgramsAreParsed`, `OnlyOperatorsAreDropped`, `MeansWhatItSays`, `RunsAsWritten`, and the counterexample to `RunsAsDocumented`): the
  recursion in these is over the tree, and a proof would be an induction over data.

The invariants of the proofs were checked by TLC on the instances of the runs before they were proved.

## 6. Where the code and what is said of it differ

Each of these is a counterexample of a run, and was seen in the program as well.

1. When the depth runs out in a folded chain, a node is freed twice (`parser_depth`).
2. `echo 1` followed by a byte the lexer rejects is accepted (`parser_bad`).
3. `if true then 1 else 2` as a statement leaves its value on the operand stack, eight in a row overflow it (`program_leak`).
4. Production 2 of a block in braces hands three parameters to `reduce_empty_block`, which asserts that it gets none (parser.c:311, :181). With two lexer errors in the block
   it is reduced, and the program ends in the assertion (`parser_arguments`).
5. The interpreter of the prototype follows the documents of the language at none of these points (`olg_documents`; files of `bootstrap-olg/`, documents of the root):
   - Deferred statements run in the order they were written (exec.c:1625), while README.md:1757-1758 and OWNERSHIP_RULES.md:81 have the last one first.
   - Those of a block that is left by return, break or continue run at the end of the function (exec.c:1996, 2043), where the names of the block are unknown, against OWNERSHIP_RULES.md:81 and README.md:1755-1756.
   - Those of a region are dropped when it raises (exec.c:1709), while README.md:1061-1062 has them run before the handler.
   - `try` runs its statement and unwraps nothing (exec.c:1946-1948): an error it was to guard is bound like any value, against README.md:1038.
   - `continue` of an outer loop ends that loop (exec.c:1976), against README.md:318.
   - The ordinal of a loop over a range is the number of the range (exec.c:1885), against the count from 0 of README.md:332-333.
   - `x[:h]` means `x[h:]`, since a bound that is left out leaves no hole (parser.c:82, 937-940, against parser.c:925 and GRAMMAR.md:747).
   - For the same reason the else of a checked `if` without a then runs when the value is there, against GRAMMAR.md:532-534,
   - and a function expression without a result type has no body, against GRAMMAR.md:823.
   - `<<~` and `>>~` are no cyclic shifts (exec.c:1079-1086), against README.md:182.
   - `==` refuses bools and enums (exec.c:1314), though exec.c:258 says that `val_eq` is what it uses.

Seen while modelling, and either part of a property's wording or of the abstract specification it compares with:

- `echo 1 + 2 +` is accepted, against test/expect.txt:337: `OnlyOperatorsAreDropped` says how far this goes.
- `if true false { echo 1 }` is accepted: the switch to the next production moves the checkpoint (parser.c:501, 577); so is a comment that is
  never closed on a line of its own (parser.c:440, against test/expect.txt:442). `ProgramsAreParsed` says that what the grammar derives is accepted, not that nothing else is.
- `echo if true then echo 1` is parsed; it ends in "stack underflow". `x := if true { echo 1 } else { echo 2 }` passes
  the checker or not depending on uninitialised memory (checker.c:214).
- `x := 1; x := 2` passes the checker and fails when it runs; so does `if false then x := 1; echo x`.
- `1 = 2` is parsed, and cannot be freed: the walk fails at walker.c:98 in every context.
- typetab.c:304 says TYPE_UNKNOWN_ID is returned where TYPE_NONE_ID is.
- `..=` and `..<` are in the token table (tokens.c:33-34) and are never read: `..` is no operator, and an operator grows through operators.
- A NUL cannot be given back to the reader (reader.c:61-62), and cuts the text of a token (tokens.c:130).
- Positions behind bad text are not those of the file: a lone bad byte is never counted (lexer.c:228-231); what was read of a longer piece before the error is (233, 303), until
  a rewind and its replay take it back, if no step was logged in between. `PositionIsRestored` excepts it.
- In the prototype, a `return` in a deferred statement makes the caller return (exec.c:2042-2047). README.md:194 and 1184-1187 have a `!` outside of a guard return early from its function with the error, while
  exec.c raises to the innermost region of any caller, or ends the program. Of both the documents say too little of a program without types; `OlgMeaning` has them as the code has them.
- An assignment of the prototype looks its cell up before it evaluates its right side (exec.c:1779). When that binds a name and the
  environment's array is full, the value is written into the array of before and lost. `OlgExec` has this (`Cap`, `CellOf`, `Put`);
  no program of the run binds more than eight names in one environment, and with `FirstCap = 1` `RunsAsWritten` fails there.
- A parameter `x := d` of the prototype has no default, since its type leaves no hole either. Where a child is missing, memory is read that nobody wrote (exec.c:1815-1833, 2018).
- Its `!` asks for the bool among the bits of its operand: `!""` is false and `!4294967296` is true (exec.c:1345). `&&`, `||` and `??` evaluate both operands (exec.c:1277-1278). An inclusive range that ends at the greatest int never ends (exec.c:1881-1884), nor does the printing of an array that contains itself.
  Defaults are evaluated in the environment of the caller (exec.c:2020).

## 7. What is not modelled, and the plan

Left out for good: logging, the dump's layout, the printing of tokens and types, failed
allocations (asserted away in the code), positions in messages, the command line and exit statuses, `vec.h` and
`stack.h` (arrays whose bounds the modules that use them check), the documents of the language, the test scripts.

Not modelled yet:

1. The prototype's lexer and parser: recursive descent over an array, with a saved position here and there instead of backtracking.
2. Of the prototype's interpreter: floats, bytes and chars with their casts, texts taken apart (indices, slices, loops over them, interpolation), named arguments,
   `out.print` and `out.error`, the arena. They compute values, and are called from the same places as what is there.
3. Of `typetab.c`: the table of types itself. `Checker` has the signatures the operators are declared with.
4. The composition of `Scanner` with `TokenLog` as one state machine; the log now takes the scanner's answers as lexemes.

And to prove: that `TokenLog` takes from `Scanner` the lexemes of the text, once the two are one state machine.
