# SciLex: a verification project

SciLex is a C++ lexer library: an ordered list of rules (regular expressions of the REAL engine) becomes a
lexer, which turns a text into tokens by maximal munch, at once (`tokenize`), lazily (`scan`) or in pieces as
the text arrives (`stream`). This directory holds TLA+ modules of its scanning core, TLC configurations that
check them on small instances, and proofs, checked by TLAPS, of what holds for every instance.

Line numbers are those of `src/include/scilex/lexer.hpp` unless another file is named.

## The system

| Component | State | Operations | Interacts with |
|---|---|---|---|
| **Whole-text scan** (`lexer::tokenize`, `scan_next`, `scan_step`) | cursor (offset, line, column), mode stack, kind of the token before, open blocks; per call | one token; one of four failures (no rule, bad transition, unterminated mode, empty match); the end-of-input token | the engine (munches), the indentation |
| **Lexer construction** | the rules and what is derived from them: mode numbers, significance, units by the token before and the start of a line, dispatch by first byte, a DFA per unit, bytes of left context | constructor, which refuses bad rule lists | the engine (first bytes, `dfa_faithful`, `left_context`), the grammar parser |
| **Indentation** (Level B) | columns of the open blocks, key candidate of the line | reference of a token, update by a token, extent of a block or of continued lines | the scan, which extends a match before it advances |
| **`token_iterator`, `token_range`** | a scan's state, the current token, whether the end was given | construction, increment, equality | `scan_next` |
| **`token_stream`** | buffer, its base in the text, held-back bytes, cursor, stack, kind before, blocks, undo list, open munch, finished | `feed`, `finish`, `buffered` | the scan's own `scan_step`, under a gate that may stop it |
| **Layout pass** (Level A, `layout.hpp`) | indentation levels in two measures, the meter, the pending node, the last line reached; per call | newline, indent and dedent tokens put into a token sequence | the lexer's modes and roles |
| **Grammar parser** (`grammar.hpp`) | lines read, rules, and the names still to resolve; per call | a `.lex` text to a rule list, or the first mistake in it | the constructor |
| **Command line** (`cli/scilex.cpp`) | options, the phase of the command, what was printed; per process | options, grammar or example, input, dump, exit status | all of the above |
| **Python binding** (`_scilex.cpp`, `__init__.py`) | lexer, scan and stream capsules; a scan's deferred increment; a stream's claim, type and error context | the C++ operations, long ones with the GIL released | threads of the interpreter |
| **Reference lexer and oracle** (`fuzz/`) | none beyond a call | a text to its tokens, the plain way; the checks of a lexer against it | the lexer, as what it is compared with |
| **Examples, benchmarks, tools** | — | — | the library |
| **REAL** (regular expressions; outside the repository) | — | match, can_extend, first bytes, DFA munch | the scan |

### What is hard about it

*Sequential scan.* Three matchers have to agree: the DFA of a unit, the Pike rules beside it and the byte
dispatch. A rule may depend on the mode, on the token before and on the start of a line. Error runs, empty
matches, columns over malformed bytes and the bound of the mode stack are the edges.

*Stream.* Everything the stream returns has to be right for every text that begins with what it has seen.
A step may go over skip matches, moving the cursor and the modes, and then have to stop: it is taken back. Text
before the cursor is dropped although rules read back; a code point may be cut by a piece; a munch may be
resumed in a buffer that has moved; an error carries the tokens decided before it; an extension must be decided
before the blocks are touched.

*Iterator.* An increment may throw when skip matches have already moved the cursor and the modes, and its caller may
increment again. Equality looks at one number.

*Layout.* An INDENT may be given for a token that is long past, once a value shows the token to begin a
collection. Tabs are measured twice. Tokens span lines, and tokens of an insignificant mode have no place in it.

*Grammars and command.* Names are used before they are declared, rules exclude and refer to one another, and the
parser and the constructor each check what the other does. A text may fail after half of its tokens are printed.

*Binding.* Large pieces are lexed without the GIL, so a second thread can reach the same stream. Between any two
bytecodes, and in finalizers that an allocation runs, another thread may call: while a list of tokens is made of
lexemes that view the stream's buffer, or between an error and the call that asks for the text around it. A list
may fail to be made when the stream has already moved on.

### What makes each component correct

- **Scan**: a text has the tokens of the reference lexer, or its error, whatever the units, the dispatch, the DFAs
  and the backward column count make of it (`IteratesAsReference`); error runs are maximal (`ErrorRunsApart`), the
  stack's frames are where their openers stood (`FramesAreOpeners`), each step moves on (`ScanProgresses`).
- **Construction**: the unit the tables answer with holds the rules whose predicates allow it (`TablesAnswer`).
- **Indentation**: blocks nest (`BlocksNest`); below its match an extended token takes only
  blank lines and lines of the block the token leaves open (`ExtensionsStayInBlock`).
- **Iterator**: the tokens of the reference, one at a time; equality tells where iterators stand
  (`EqualOnlyAtTheEnd`); an error stays (`ThrowsAgain`).
- **Stream**: it gives what tokenize gives (`StreamIsTokenize`), a step that waits leaves no trace
  (`OnlyTokensCommit`, `UndoneLatestFirst`), no byte is lost or repeated (`BufferIsText`), what it keeps is
  enough for what reads back (`ContextSuffices`, `ResumedMunchIsFresh`), calls return and texts end
  (`CallReturns`, `TextEnds`).
- **Layout**: INDENTs and DEDENTs balance (`Balanced`); a reader of the tokens finds the blocks (`ReadBack`), which
  are the lines around (`LevelsAreEnclosingLines`) or the collections (`BlocksAreCollections`).
- **Grammar parser**: a grammar means what its lines say, or is refused at its first mistake (`MeansItsLines`); what
  it accepts can be built, but for two things its lines show (`AcceptedBuilds`).
- **Command line**: the output is the tokens to who reads it (`OutputReadsBack`), the status says how it went
  (`StatusTells`).
- **Binding**: the generator gives every token once, before the error (`GivenInOrder`). One call at a time on a
  stream, its claim always given back (`OneCallAtATime`), and answered (`CallsAnswered`); no lexeme is read after its
  text moved (`LexemesStayValid`); the callers together get the text's tokens in order (`TokensInOrder`); the tail
  covers the error and its context (`TailCovers`, `ContextCovered`), without outgrowing what the stream holds
  (`TailBounded`) or costing more than linear time (`FeedingLinear`).

## The modules

```
Patterns <- Indentation <- Scanner <- Reference <- Oracle <- Lexer <- TokenIterator <- PythonScan <- MCLexer
(engine)    (Level B)      (munch,                           ^
                            modes)                           | INSTANCE (refinement)
                                   TokenStream --------------+     (StreamProofs; MCTokenStream extends TokenStream)
                                        | INSTANCE (refinement: TokenStreamProofs)
                                        v
                                     HeldText
                                        ^ INSTANCE (composition)
                                   PythonStream <- MCPythonStream

Layout <- MCLayout
GrammarFile <- Construction <- CommandLine <- MCCommandLine

Proofs: ScannerProofs <- TokenStreamProofs (extends TokenStream) <- StreamProofs
        ScannerProofs <- LexerProofs (extends PythonScan)
        LayoutProofs (extends Layout)          PythonStreamProofs (extends PythonStream)
        GrammarProofs (extends CommandLine) <- CommandLineProofs
```

**Patterns** is the engine, external. A pattern is a list of alternatives `head loop* tail`, greedy or lazy,
in priority order, and a set of what may stand before. That is enough to have matches that are not the longest
(`as|assert`), late ones (`a[^z]*z`), nullable rules, lookbehinds and `^`. `MatchLength` is `match`,
`LongestLength` what a DFA finds, `CanExtend` and `Alive` are `can_extend` and the DFA's "more text may change
this". `Faithful` decides `dfa_faithful` by trying all texts up to `FidelityDepth`.

**Indentation** has the open blocks (319-396) and the two extents (429-553). The code walks lines in loops; the
module says which lines an extent takes and when it is decided.

**Scanner** has what `tokenize` and `token_stream` share. A *unit* (the rules of a mode that are active after a
given token at a given place on the line, `build_units`) is named by its mode and its rules; the code's number for
it carries nothing more. `Advance` and `ColumnStep` are the position tracker; `valid_utf8_len`'s checks of the
code point's value (overlong forms, surrogates, out of range) are the set `Malformed` of leads. `Refused` and
`Transition` are `apply_transition`, whose throw and whose effect are told apart.

**Reference** is the reference lexer of the fuzzers (`fuzz/reference.hpp`): every active rule matched at every place,
the longest match, the earliest rule; columns by one walk from the beginning. As in the harness, transitions and
extensions are the lexer's own. It is what `Lexer` implements, stated as a function of the text: `ReferenceScan`.
**Oracle** has the harness's checks of a lexer's tokens (`Check`): the same tokens, or the same error; every byte
taken once; each token the longest match of a rule of its kind.

**Lexer** is the whole-text scan. A step is one `scan_next`: `Reached` follows the skip matches, with the modes
they enter, and an action says what the turn after the last of them does. `End` is `tokenize`'s end, with the
end-of-input token when asked for. This is also the *abstract specification* of the stream.

**TokenIterator** is `token_iterator` (1860-1958): `Construct` and `Increment` do a `scan_next`, whose failures are an
exception the caller may catch. A constructor that throws leaves no iterator; an increment that throws leaves one, in
whatever state the step had reached, and `Increment` may be taken again. `wentOn` notes that, and is no part of the
program. `tokens` are the tokens it has stood on, so `StoodAt` is where a copy kept from then stands.

**PythonScan** is the generator of `Lexer.scan` (`scan_start` and `scan_next` of `_scilex.cpp`): an iterator, and
`needsAdvance`, by which an increment waits for the call after the one that returned its token. Building a token
may fail (`Yields`), which ends the generator; so does an error, after which the cursor is exhausted.

**TokenStream** is the stream. `Feed` and `Finish` are the calls up to their scan; then each step is one turn of
`scan_step`'s loop under the gate, with what `collect` does of its result: `Skip` goes on, `Emit`,
`EmitErrorRun` and `EmitUnterminated` produce a token, `Wait`, `WaitInRun` and `WaitOpen` are the places where
`scan_step` returns `pending` (and `collect` takes the step back), `NoRule`, `BadTransition`, `ZeroLength` and
`Unterminated` the errors, `End` the end. The text is chosen in `Init`, so "no text still to come" is every text
that begins with what was fed.

| Variable | Code |
|---|---|
| `buffer`, `base`, `tail` | `buffer_`, `base_`, `tail_` |
| `cursor`, `stack`, `previous`, `indents`, `undo`, `open`, `finished` | the members of those names |
| `saved`, `final`, `out` | locals of `collect` |
| `pc` | inside `collect` or between calls |
| `fed`, `returned`, `outcome` | the caller's view: what was fed, what came back, how it ended |

What is abstracted: `open.walked` stands for the DFA progress, as the text it has read; a progress that has
decided is not recorded, as the engine answers the same for it. Munch memos are left out: they only save work.
The undo list taken back latest first is stated as what it leaves of the stack (`Undone`); `UndoneLatestFirst`
says that the loop gives the same. Entry offsets of frames are kept modulo `Word`, as the code's `std::size_t`.
Calls after `finish` or after an error throw and change nothing, so they are not steps. The byte dispatch and
`may_start` work on characters. An error is its kind, its position and its mode, not its message.

**HeldText** is what a caller sees of a `token_stream`, whatever the rules: how much was fed, where the text it
holds begins, the call under way, whether the text has ended, and the error. A call commits to tokens in order
(`Take`), returns, or fails at text it has not committed, or at the place where an open mode was entered.
`TokenStream` implements it (`HoldsText`: the mapping computes where the held text begins from base and cursor,
or from the cursor that a step would go back to), and `PythonStream` is built on it, which composes the two
without the rules, the buffer and the text.

**PythonStream** is `scilex.TokenStream` (`stream_state`, `stream_claim` and the `stream_...` functions of
`src/python/src/_scilex.cpp`, with the wrapper of `src/python/scilex/__init__.py`), shared by threads. A step is
what a thread does without letting another run. A call is in three steps or more: `Feed` or `Finish`, up to the
stream; the steps of `HeldText`, under the GIL or, for a long chunk, without; and, with the GIL again, the list
and the end of the claim (`List`, `ListFails`, `Raise`, `RaiseFails`, `Refuse`). `Report` is the wrapper's second
call, which reads the window without a claim. `RefuseType` and `RefuseBusy` are the early returns, `Buffered` a
call of one step. `Acquire` and `Yield` are the interpreter's GIL, external.

| Variable | Code |
|---|---|
| `fed`, `held`, `call`, `finished`, `failure` | `stream_state::stream`, as `HeldText` has it |
| `busy`, `type` | `busy`, `is_bytes` |
| `tailBase`, `tailEnd` | `tail_base`, and `tail_base + tail.size()` |
| `gil`, `pc` | who holds the GIL; where each thread is |
| `answer`, `mine` | what a step gave its caller; the text the tokens of a thread's call lie in |
| `delivered`, `moved`, `types` | history: what the callers have, what the trims moved, the types the stream took |

A chunk is its length and its type. Allocation failures are those of the list, and of a lexeme that does not
decode; that of the tail's own `append` is left out.

**Layout** is `layout()` (`src/include/scilex/layout.hpp`). A step takes one token of the input, or, where
indentation is measured in the source, reads one character of it (`Read`, `indent_meter`). `Join` is a token on the
line of the one before, `Deepen` and `Settle` are the first token of a line, after the NEWLINE and the DEDENTs its
line gives; each ends in `Place`, which is what roles make of the token: `NodeWaits`, `EntryOpens`, `ValueOpens`
or nothing. `Finish` closes what is open. `Beyond`, `Inconsistent` and `Mixed` are the exceptions. `out`,
`levels` (with the measures of `measured`), `started`, `opens`, `pending`, `pendingAt`, `previousLine` are the locals
of those names. A token is its kind, mode, place, and where its lexeme has newlines. That the tokens lie in a text,
those after the first of a line past its first column, is `LinesAssumption`.

**GrammarFile** is `parse_grammar` (`src/include/scilex/grammar.hpp`): a line up to its options, one option at a
time, the end of the line, and the four passes over names after the last line. A line is its parts, not its
characters: what it is, its fields, its options each with the names after its "=". A refusal is a line and where in
it. In a predicate `^` is the start of input: a rule of that name, which the parser takes, is never among the kinds
(`KindsOf`). **Construction** continues into the constructor (`lexer.hpp` 652-683, 1125-1377): modes interned, rules
filed by the bytes they begin with, every throw (`InvalidKind`, `InvalidTransition`, and those of
`BuildSignificance` and `BeginUnits`), and for each mode its tables, an entry at a time. Which patterns no byte begins
is REAL's to say (`Beginless`): such a rule is in no bucket, so a mode of none but those is empty to `ModeIsEmpty`. **CommandLine** is `main` of
`src/cli/scilex.cpp` around both: words, command, grammar or example, input, dump, status. The tokens of the text are
given with the invocation, as lexing and layout are modelled above; output is a sequence of names, positions, bytes and
separators, so that what a reader makes of it can be asked. What `--version`, `--help` and `--list` write is `Told`: a
line, a line, and the examples' names.

| Variable | Code |
|---|---|
| `rules`, `names`, `insignificant` | the `parsed_grammar` |
| `pass`, `refusal`; the lists of sites | where the parse is, the `grammar_error`; `transitions`, `predicates`, `fragments`, `continuations`, `directives` |
| `modes`, `significant`, `dispatch`, `unitRules`, `unitsOf`, `inside`, `atStart` | `mode_names_`, `mode_significant_`, `per_mode_`, `unit_rules_`, `units_of_mode_`, `inside_line_`, `line_start_` |
| `argv`, `args`, `layout`, `errors`, `columns` | the words, and the locals of `main` |
| `output`, `status`, `consumed` | standard output, the exit status, standard input |

**Grammars** has the rule lists of the runs, each written to reach one part of the scan. **MCLexer** and
**MCTokenStream** give them their texts; **MCLayout** writes texts as the pieces a lexer cuts them into, and lexes
them; **MCCommandLine** gives grammars as lines, and command lines; **MCPythonStream** gives two threads and chunks
of 0 to 2.

An operator that a comment calls a mutation is a definition with a plausible mistake: put in the place of the
definition after it, the property it is listed with in `PROJECT.json` fails. It is part of no specification.

## The runs

`tlc -config <run>.cfg <module>`, the module being `MCLexer` for `Lex...`, `MCTokenStream` for
`Stream...`, `MCLayout` for `Layout...`, `MCPythonStream` for `Python...` and `MCCommandLine` for `CommandLine`.

| Run | Instance | Checks |
|---|---|---|
| `LexScan` | `scan` by a C++ caller that goes on after errors, and by the Python generator: all texts of up to 5 characters of two grammars (skip rules that push, set and pop, with a stack of 3; late, lazy and unfaithful rules), of up to 4 of one with rules by the token before, and of up to 4 fragments of a block language. Two modes on DFAs, the others on Pike | types and the stack's bound, where frames were entered; the tokens against the reference; blocks and extents; errors that stay; the generator's tokens |
| `LexRecover` | recovery, UTF-16; all texts of up to 5 characters of two grammars: lookbehind, nullable, line-start and previous-token rules and a mode left open; every byte sequence of leads, continuations and malformed leads | the tokens and columns against the reference, maximal error runs, equality, progress |
| `StreamScan` | all texts of up to 4 characters of three grammars, cut in every way into pieces of 0 to 5: that of the modes, and the late match on Pike and wholly on a DFA; the block language, with prefixes that open a block body and a continued line | undo, resumed munches, commits; refinement of `Lexer` and of `HeldText` |
| `StreamRecover` | recovery and UTF-16, texts of up to 4 and 5 characters, cut in every way | the inductive invariant, buffer, context; refinement of `Lexer` |
| `StreamLiveness` | the modes, texts of up to 3 characters, with fairness | calls return, texts end |
| `Layout` | no roles: up to 5 pieces of words, flow tokens, blanks and tokens across lines, and 4 lines at 3 columns; tabs: 3 lines at 7 indentations; roles: 2 and 3 lines of words, entries and values | balance, reading back, the enclosing lines, the collections |
| `CommandLine` | grammars: a rule with any 2 of 25 options, and up to 3 of 17 lines that refer to one another, one a rule named `^` and one a rule no byte begins; 7 commands with options around them over texts that fail or not; 13 other command lines | the grammar's meaning and refusals, construction, tables, output, what a command that lexes nothing writes, status |
| `PythonThreads` | two threads, chunks of 0 to 2 characters, both types, 4 characters in all, the GIL let go of from 2 on, a context of 1; deadlock checked, with fairness | the inductive invariant, exclusion, order, the tail, answers |
| `LexErrorRuns` | a rule active only after a word | *violation*: two error tokens touch |
| `StreamMemory` | a word and a blank of one character each, the blank skipped; pieces of one character | *violation*: blanks are kept |
| `LayoutNesting` | an entry, a token across lines or a form feed, and up to 3 words, entries and values | *violation*: a block no deeper than the one it is in |
| `PythonContext` | as `PythonThreads` | *violation*: a snippet is cut short |

**Bounds.** The interesting cases need few characters: a late match that swallows two tokens is 3 or 4; a code
point is at most 4 bytes, and 5 bytes have one before or after it; a stack of 3 is filled by three openers, which
leaves one more to be refused; a body, its content and the line that ends it are 3 fragments. A piece is as long
as a whole text, so texts arrive whole too. `Word` is 8 or 16: more than a text is long, as 2^64 is, and small
enough that the offsets of frames entered before the dropped text wrap. `FidelityDepth` is 4: the patterns' loops
and literals are shorter. Two threads are enough for a call to meet another one, before, in and after it; `PythonThreads` needs both a chunk
below the GIL's threshold and one at it, a tail of more than twice a context of 1 to have a trim, and as much text
after the trim; 4 characters give that, refused chunks included. `CHECK_DEADLOCK FALSE` is in the configurations
of all but `PythonThreads`, as a scan, a pass or a command that has ended takes no more
steps; that nothing stops before is what `CallReturns` and `TextEnds` say of the stream, and what
`IteratesAsReference`, `MeansItsLines` and `StatusTells` say of every end there is.

For `Layout`, three lines close two blocks at once and stop between two levels; an entry past an entry past an entry is
three tokens; the seven indentations hold each way the two tab measures can disagree, and one where a form feed starts
them again. The calls of `LayoutNesting`, with roles and a token that spans lines or a form feed past an entry, are left
out of `Layout`: what they do to `BlocksDeepen` and to `Balanced` is told below. For grammars, a clash, a name and its use, and a
fragment that shadows a rule each need two options or three lines.

**Fairness.** Weak fairness of `Collect`: a call is sequential code that runs on. Strong fairness of feeding a
piece that is not empty, and of finishing: the caller's part, for a text that is read to its end. Strong, because
the caller may feed any number of empty pieces between, and each call disables the others while it runs.
`CallReturns` needs only the first.

For `PythonStream`, weak fairness of a thread in the stream, which is running code; strong fairness of taking the
GIL, of letting go of it and of going on with a call: CPython makes the thread that has the GIL drop it when
another has waited for the switch interval, each that waits gets it in time, and a thread that has it again and
again gets on. Calls are not made to begin: `CallsAnswered` is about those that have.

### What the violations show

- `LexErrorRuns`. `scan_step` looks for the end of an error run with the kind of the token *before the run*
  (line 1007), and then sets that kind to the error's (1027). With rules `a`, and `b` only after an `a`, the text
  `a?b` gives an error token `?` and, touching it, an error token `b`; `docs/spec.dox:83` and
  `docs/site/guide/errors.md:34` promise one token for a maximal run. Without `after` and `not_after` rules, or
  with those of `LexRecover`, runs are maximal.
- `StreamMemory`. A step that waits goes back to before its skip matches (2210-2218), so blanks with no token
  between stay in the buffer, and are lexed again at each piece, while the next token may still change:
  `docs/site/guide/streaming.md:39` says memory follows the longest token. No rule of the run matches more than a
  character, and none has a late part: what is held at the violation is a piece of one and the blanks before it. The
  tokens are right either way.
- `LayoutNesting`. A node past an entry opens a block at its column, with no test against the block it is in
  (`layout.hpp:318`): the comment above says it is deeper. After an entry, a token may end on the next line, where
  another entry and its node lie at any column: `- "q`, then `q"- -`, indented by three, opens a block at column 2 in
  one at column 3. Under `tab_policy::python` a form feed between an entry and its node puts the node at the margin, and
  the block it opens there is never closed: that call breaks `Balanced` too. `LayoutBalanced` proves that form feeds elsewhere
  than before a line's first token are the only way to break it.
- `PythonContext`. The tail is kept for errors at the text held. A mode left open is reported where it was entered,
  which lies before: if that byte is still in the tail, with fewer than 8 before it, the snippet begins at the
  tail's first byte. It is neither tokenize's, as the comment at `_scilex.cpp:411` says, nor left out, as
  `docs/site/guide/streaming.md:64` says. The position is right either way, and what `ContextCovered` says of
  the errors at the text held holds; of a mode left open it says only that the window does not end before it.

## The proofs

Each theorem holds for every value of the constants that the assumptions of its module allow.

### The whole-text scan and its iterator

`LexerProofs` proves of `IteratorSpec`, a scan whose driver may increment it again after it
threw, for every grammar, text, bound of the stack, column unit and error policy:

| Theorem | Says |
|---|---|
| `LexesAsItsReference` | `[](IteratesAsReference /\ LexesAsReference)`: the tokens, their positions and the error are the reference lexer's |
| `ScanTyped` | `[]TypeOK`, with it the bound of the mode stack |
| `ScanMovesOn` | `ScanProgresses` |
| `EqualAtTheEnd`, `FailuresThrowAgain` | `[]EqualOnlyAtTheEnd`; `ThrowsAgain` |
| `FramesHoldOpeners` | `[]FramesAreOpeners` |
| `OpenBlocksNest` | `[]BlocksNest` |
| `ExtensionsInBlocks` | `ExtensionsStayInBlock` |
| `ErrorRunsDoNotTouch` | `[]ErrorRunsApart`, if any rule that matches somewhere is still active after an error token (`ActiveAfterErrors`) |

The hypothesis of the last is needed: `LexErrorRuns` is the run that breaks the property where a rule is active only
after a word.

**The lexer and its reference.** The two differ in everything but their result. The lexer asks a unit, built per
mode, kind before and place on the line; within it a DFA stands for some rules, a byte dispatch picks the others.
`UnitIsActive` says the unit holds the rules that are active, and `MunchIsReference` that the munch of a unit is the
longest match of the earliest rule, given `FaithfulOnTexts`. `WalksAsAdvance` does the same for positions: the
lexer looks back from each byte to tell whether it starts a column, the reference walks from the beginning, in steps of
a code point or of a malformed byte; that they agree rests on no code point beginning inside another
(`CodePoints`).

The reference's result is a function on offsets, and the lexer's a sequence of steps over a function on turns
(`Reached`). The run of the reference is put as the turns it takes (`Visited`), and the invariant says that a running scan
mirrors one of them, the text of its tokens included, and that a scan that has ended has the reference's tokens and
its failure. What is true of *every* value of such a function cannot be proved by induction here; it is proved
by the least value for which it is false (`MinOfNaturals`), which does away with the need for one.

`FaithfulOnTexts` is the assumption `Lexer` adds on its constants: a rule that is in a DFA matches, at every place of the
texts that are lexed, what the DFA finds there. `dfa_faithful`, by which the constructor admits a rule to a DFA
(1240-1262), is the engine's promise of that for all texts. In the model `Faithful` decides it by trying the texts up to
`FidelityDepth`, so for longer texts the promise has to be said; TLC evaluates it on the texts of every `Lex` run.

**Blocks.** `BlocksNest` says of each open block but the first that it lies deeper than the one around it, and that
its column is one where a rule that opens blocks matched; the invariant has to speak of the line's key candidate too,
from which a later token opens a block. `FramesAreOpeners` needs that a frame was entered at a place the scan went past,
which holds across skip matches (`Reached`) and across an increment that threw half-way.

An extent is measured before the token it belongs to moves the blocks, against a reference `indent_reference` looks
for among the blocks there are. `ReferenceIsTop` says that the block it finds is the innermost one once the token has moved
them, which rests on the blocks nesting. What is taken is then bounded by the first line that is not indented past the reference (`BlockTakes`, `LinesTake`).
`ExtensionsStayInBlock` is an action property, as a token of a refused transition moves the blocks but is not given; and it
leaves out lines of which an extent says nothing: blank ones, to which a `lines` extent counts those of tabs, and those
the match itself runs over.

**The generator.** `LexerProofs` also proves of `PythonSpec`:

| Theorem | Says |
|---|---|
| `ScanGivesInOrder` | `[]GivenInOrder` |
| `ScanYieldsReference` | `[](IteratesAsReference /\ LexesAsReference /\ ~wentOn)` |
| `ScanHolds` | what `IteratorSpec` keeps: the types, equality, frames, blocks and extents, and `ScanProgresses` |

The strengthening for the first says in which states the generator owes a token (`OwesOne`: the one its iterator
stands on, and no other) and in which it owes none. With `ScanYieldsReference` a Python caller is given the tokens of
the reference: the generator never goes on after an error, so its tokens are always a beginning of the reference's.

### The stream

`TokenStreamProofs` proves, for every grammar, text, piece size, bound of the stack, word, column unit and error
policy, from `FidelityAssumption`, `ScannerAssumption` and `StreamAssumption` alone:

| Theorem | Says |
|---|---|
| `StreamInductive` | `Safety => []Inductive` |
| `StreamTyped` | `Safety => []TypeOK` |
| `BufferCorrect` | `Safety => []BufferIsText` |
| `StackCorrect` | `Safety => []StackBounded` |
| `OnlyTokensCommitted` | `Safety => OnlyTokensCommit` |
| `UndoneAsCollected` | `Safety => []UndoneLatestFirst` |
| `StreamHoldsText` | `Safety => HoldsText` |

**The inductive invariant.** `TypeOK` says the cursor is in the buffer, which is only kept if a munch, an extent
and an error run end in it: `ScannerProofs` proves those bounds from the definitions of the engine's operators up
(`MatchBounded`, `MunchBounded`, `BlockExtentBounded`, `LinesExtentBounded`, `ExtendedBounded`).

`BufferIsText` is not inductive alone. A hold takes characters off the end of the buffer, and would break the
types if it reached before the cursor, or before what the last step began with: `HeldFromLead` says the tail held
back begins with a lead and that what was lexed ends with no lead whose code point is cut, so a later hold stops
within what is not lexed (`HoldWithinPiece`). `Accounted` ties base, buffer and tail to what was fed.

`StackBounded` speaks of the stack a step that waits goes back to: `FramesNoted` says that every frame the step
began with is still on the stack or noted in the undo list, so that taking the transitions back (`Undone`) is
defined at every depth. `WalkedIsBuffered` says the text an open munch has read is still there, and `CallsApart`
that between calls nothing is pending and that only the last call ends a text.

**Only tokens commit.** From the invariant, `NotedRestores` shows that a transition noted and made leaves what
taking back would give; `PositionShifted` and `ShiftedBack` that positions in the text are the same before and
after text is dropped, entry offsets modulo `Word` included; so each step that produces no token leaves the
committed cursor and stack as they were.

**The loop of `collect`.** `Undone` says at once what the loop does a transition at a time, the latest first. They give
the same stack because a pop lowers it by one frame only: `NotesChain` says that each depth noted is at most one past
the next, and the last at most one past the stack, so that each turn of the loop finds the frames below the one it puts
back (`BackSteps`). The loop, a recursive function, is shown to have a value at each transition by giving one
(`LoopSteps`); that it is the only one is a least counterexample again (`LoopUndoes`).

**What a caller sees.** `StreamHoldsText` is, `Safety => HoldsText`: `TokenStream` implements
`HeldText`, so that what is proved of the Python stream over `HeldText` is about the stream as it is. Most steps map
to a step or a stutter by `Inductive`; an open mode that is reported where it was entered needs in addition that no
frame was entered after the cursor, nor a frame a waiting step goes back to after the place it goes back to. Entry
offsets are relative to a buffer that has moved on, modulo `Word`: `EntriesBehind` says it of what they come to in
the text.

**What is decided.** The first part of `StreamProofs` proves, from the same assumptions:

| Theorem | Says |
|---|---|
| `BufferAlwaysServes` | `Safety => []BufferServes` |
| `ContextEnoughKept` | `Safety => []ContextSuffices` |
| `ResumedMunchesAreFresh` | `Safety => []ResumedMunchIsFresh` |

`BufferServes`, inductive together with `Inductive`, says what the buffer has: the context rules and columns look
back at, before the place a waiting step goes back to (not only before the cursor, as `ContextSuffices` asks); every code
point begun (`Settled`), unless bytes are columns; the end of the text in the last call; and, of an open munch, that
its unit is wholly on its DFA and that what it walked is the text from where it began, wherever the base has moved since.
Below it is a small theory of slices: what a part of a text decides (`LengthsDecided`, `MatchDecided`, `MunchDecided`,
`StepOnSlice`, `AdvanceOnSlice`, `BlockExtentOnSlice`, `LinesExtentOnSlice`) is so on the whole text.

**The stream is tokenize.** The second part proves `StreamRefinesTokenize`, `Safety => StreamIsTokenize`, from the same
assumptions: for every grammar, text, bound of the stack, word, column unit and error policy, and wherever the pieces
are cut, the stream's steps are those of `Lexer` on the whole text, or change nothing of it. The proof has four parts.

1. *What a turn decides in its buffer holds of the text*: the munch, whether it meets a failure, a run of error bytes,
   an extension, a position (`MunchOnText`, `MeetsOnText`, `RunOnText`, `PastOnText`). A turn that waits is one the
   buffer does not decide. This is `BufferServes` and the slices, and that open blocks have columns (`BlocksTyped`).
2. *The operators `Lexer` is written with are those the stream is* (`SameMunch`, `SameTurns`, ...).
3. *The stream's turn is one tokenize makes.* `Lexer` goes over the skip matches from a token in one step (`Reached`), the
   stream over each in a step of its own, and one that waits goes back to the last token. The invariant `Joined` says that
   the skip matches of the text lead from the last token committed to where the stream is (`NextJoined`); from there
   follows that the turn the stream makes is the one `Reached` comes to (`ReachedIsTurn`).
4. *Each action maps to one of `Lexer`* (`EmitIsText`, `ErrorRunIsText`, `FailureIsText`, `BadTransitionIsText`,
   `EmitUnterminatedIsText`, `EndIsText`), or to a stutter (`StaysInText`): the stack and the undo list, whose entries are offsets
   in a buffer modulo `Word`, are in the text the stack `Lexer` has (`StackInText`, `TransitionInText`).

With `LexesAsItsReference`, which is about the `Lexer` the stream implements: under `FaithfulOnTexts`, once a stream has
ended, by `finish` or by a failure, what it returned is the reference lexer's tokens of the text up to there.

### The layout pass

`LayoutProofs` proves, for every call, from `LayoutAssumption`, `LinesAssumption` and `ApartAssumption`, which say what
the lexer's tokens are and which TLC evaluates on the calls of both layout runs:

| Theorem | Says |
|---|---|
| `LayoutBalanced` | under `FormFeedsLead`, `Spec => []Balanced` |
| `LayoutReadsBack` | `Spec => []ReadBack` |
| `LevelsEncloseLines` | `Spec => []LevelsAreEnclosingLines` |
| `BlocksShowCollections` | `Spec => []BlocksAreCollections` |

**Balance.** The INDENTs and DEDENTs are counted by `Cardinality`; `NestsJoin` and `NestsInsert` say what joining
tokens, and inserting an INDENT anywhere in them, does to the count of every prefix. The invariant (`Inductive`) keeps
every block but the bottom one off the margin, so that the end of the text closes them all: for a node past an entry that
is so as its column is not the first (`LinesAssumption`) or its measure has gone past a character (`PastInside`), which is
where `FormFeedsLead` comes in; without it the theorem is false, as `LayoutNesting`'s calls show.

**Reading back.** The reader (`OpenAfter`) and the column of a token (`Column`) are recursive functions. What they are,
step by step, follows from one recursive function on numbers for which the existence of values is shown
(`Iterated`): `ShownSteps` unrolls the columns of the blanks of a line, `ReadingSteps` the reader's blocks. The
invariant `Readable` says that what is given is read as the blocks kept (`Reads`), that the meter is where reading the
source at once would put it (`MeterAt`), and of a node that waits that no block was opened or closed since it was given
(`Waits`), so that an INDENT put in front of it changes what is read after it and nothing before.

**Enclosing lines.** `Follows` says that what the pass keeps of the tokens before (`started`, `opens`, `previousLine`)
is what the property reads off all of them. `Encloses` says that the blocks are the enclosing lines by each measure and
rise strictly by each (`Rising`), so that closing to a shallower line leaves exactly the lines that are shallower still
(`ColumnsGrow`, `EnclosedSettles`); the same list serves both measures because a line they disagree on is refused.

**Collections.** `Ordered` says that the tokens passed are among those given, in their order and with only what the pass
adds: it is what makes "where a token is" well defined, and why no two tokens may be the same. `Collects` says of each token
passed whether its block is open, and that the node that waits is the one token not decided yet; each step either
leaves it undecided, decides it by a value on its line, or by what ends its line (`NodeGrows` and the lemmas after it).

### The grammar parser, the constructor and the command

`GrammarProofs` (the parse, and that what it accepts builds) and `CommandLineProofs` (the tables, the status and the
output) prove, for every set of grammar files and of invocations, from `FilesAssumption` (a file is a
sequence of lines, a rule's name has no tab or line feed, as `split_grammar_line` cuts a line at its tabs, and an option ending
in `=` comes with one name or with the names between its commas, as `apply_grammar_options` cuts it) and
`InvocationsAssumption` (the words of a command line are strings; a token of the text has a number for its kind, any
bytes for its lexeme, and a line and column):

| Theorem | Says |
|---|---|
| `GrammarsAsWritten` | `Spec => []ParseInv` |
| `GrammarsMeanTheirLines` | `Spec => []MeansItsLines` |
| `AcceptedGrammarsBuild` | `Spec => []AcceptedBuilds` |
| `TablesAnswerAsWritten` | `Spec => []TablesAnswer` |
| `CommandsTellTheirStatus` | `Spec => []StatusTells` |
| `OutputSaysTheTokens` | `Spec => []OutputReadsBack` |

**The lines.** `ParseInv` is what has been read so far, said of the lines: the line and the option under way
(`Place`, `LineSaid`), each rule as its line says (`RulesTo`), fragments, directives and the places of names still to be resolved
in the order of the lines (`FragmentsTo`, `DirectivesTo`, `SitesSaid`), no mistake on a line that was read; and of a
grammar refused, that it was at its first mistake (`RefusedSaid`). The operators that say it list the lines with some
feature (`Ascending`), so that a line read adds at most one to each list (`OneMore`, and the lemmas after it).

**The passes.** `PassesSaid` says of the passes done that they found nothing dangling and what they resolved, and of
the others that they changed nothing yet. That a pass refuses at the least line with a name that dangles is
`FirstBad`: sites are in the order of the lines, so the first bad site is on the first bad line. `PredicatesResolved`
and `ContinuationsResolved` are what a pass puts into the rules.

**Building.** Of what the constructor refuses, most is ruled out by the lines and the passes: kinds count from 0, a
pattern is not empty, an insignificant mode is interned and no rule has both predicates (`AcceptedNames`,
`AcceptedChecks`, `InternedHas`). What is left is what `Unbuildable` says of a line: that it skips and has a part in the
indentation, or enters a mode whose rules are all ones no byte begins (`EmptyModes`). The dispatch refuses those lines
and no others (`Buildable`), and `BuildInv` carries that with the parse's result through the passes after it.

**The tables.** `TablesSaid` follows `build_units` an entry at a time: of the modes before the one under way every
entry is filled, of that one those before `entry`, and of the modes to come none (`Filled`, `Unfilled`). An entry
is filled when its unit holds the rules active after its kind, and its dispatch files those some byte begins (`Holds`). A unit added
for one mode goes behind all that exist, so that it disturbs no other (`FilledKept`, `FiledAdds`, `EntryKeeps`); a
unit may be shared by entries of its own mode only. For what a finished table answers, two facts carry kinds
that no entry lists: kinds no predicate names allow the same rules (`SameUnnamed`), and where no rule asks for its
place on the line the place does not matter (`SameOnLine`). `AllowedMeans` then turns rules back into lines.

**The command.** `CommandInv` says what the words read so far have set (`WordsSaid`), and of each phase what must have
gone well before it (`PhasesSaid`): there is a lexer only of an example or of a grammar that was read and built, and
an input is read only after that. The status is then told from where the command ended; that something was written is
what the output says, so the two are one invariant (`CommandAsTold`).

**The output.** `OutputSaid` says that what is written for a text (`LexesText`) is a header and the lines of the first tokens wanted, and that those left
to print are the others. A reader cuts it twice, at line feeds and then at tabs, and unescapes the middle. That a
line more adds one end and leaves the lines before it is `LineAdded`; that its tabs are where it was cut and it
says its token is `LineReads`. Under both is `ReadsLexeme`: no byte written of a lexeme is a tab or a line feed, and
what is written says the lexeme. It is shown a byte at a time, from what a reader who stands between two bytes knows:
it is after no backslash that opens an escape, and in no escape (`Whole`). Reading one element more needs only where
the reader is (`ReadsOneMore`), each byte as `write_escaped` writes it leaves it between two bytes again (`ReadsByte`),
whatever the byte and whatever came before: a backslash before a letter of an escape is the case that matters.
`Written` names the literal strings of the code next to `STRING`, as no prover here knows a literal for a string.

`Ascending` and `FlattenSeq` are recursive functions; what they are step by step is shown as for the layout pass,
from one recursive function for which values exist (`Iterates`), with least counterexamples in place of an induction.

### The Python stream

`PythonStreamProofs` proves, for any threads, chunks, threshold, context and bound on the
text, from `PythonAssumption` alone:

| Theorem | Says |
|---|---|
| `PythonInductive` | `Safety => []Inductive` |
| `CallsExclude` | `Safety => []OneCallAtATime` |
| `TailKept`, `TailStaysShort`, `TrimsAmortized` | `[]TailCovers`, `[]TailBounded`, `[]FeedingLinear` |
| `TypesAgree` | `Safety => []OneType` |
| `LexemesValid`, `TokensOrdered`, `ContextKept` | `LexemesStayValid`, `TokensInOrder` and `ContextCovered`, as action properties |

Exclusion alone does not carry the tail: `CallsTracked` says that a chunk the stream did not take is in the tail
only after the last call, so that until then tail and text end at the same place and a trim, which counts from
the end, leaves what it should. `TokensAccounted` ties a call's tokens to where the last call ended, and
`ErrorCovered` keeps the tail from being trimmed past an error that is still to be shown. Each call enters alone
(`EntersAlone`), moves the stream alone (`LexesInductive`) and leaves alone (`LeavesInductive`).

### Model-checked only

Liveness (`CallReturns`, `TextEnds`, `CallsAnswered`) is out of the prover's reach; every safety invariant and every
action property of a passing run is stated by a theorem.

## Not modelled, and why

- **REAL**, beyond its interface: another project. That its DFA and Pike engines are right is taken from it.
- **The binding's entry points without state** (tokenize, layout, grammars, columns), **conversions of Python
  objects, capsules**: sequential code over what is modelled; the interpreter's reference counts are its own.
- **How a line of a grammar is cut into fields**, a **pattern's syntax**, the **texts of `--help` and `--version`**,
  a line each in the model: string handling.
- **Fuzzing drivers and corpora, examples, benchmarks, tools**: harnesses and data. The checks of the harness for
  layout and streaming are properties of `Layout` and `TokenStream`.
- Munch memos, messages of errors, the exact bytes of UTF-8, and allocation failures other than those named. One of
  those left out is C++'s own while a list is made (`_scilex.cpp:1266`): it passes the trim by, where Python's, in
  `ListFails`, does not, and `TailBounded` says nothing of it.

## Open ends

- `Layout` composed with `Lexer`: today its tokens are those of a text by assumption.
