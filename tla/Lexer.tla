------------------------------- MODULE Lexer --------------------------------
(***************************************************************************)
(* A scan over a whole text: lexer::tokenize, which calls scan_next until  *)
(* there is no more token.  A step of this machine is one scan_next: the   *)
(* skip matches at the cursor, with the mode transitions they make, and    *)
(* then whatever comes after the last of them.                             *)
(***************************************************************************)
EXTENDS Oracle

CONSTANTS
    Texts,      \* The texts to lex.
    EofPolicy   \* "omit" or "append" (eof_policy).

ASSUME LexerAssumption ==
    /\ Texts \subseteq Seq(Char)
    /\ EofPolicy \in {"omit", "append"}

\* What dfa_faithful decides of a rule holds on the texts: the depth it is decided to here is enough.
ASSUME FaithfulOnTexts ==
    \A grammar \in Grammars : \A i \in DOMAIN grammar :
        grammar[i].faithful /\ LeftContext(grammar[i].pattern) = 0
        => \A t \in Texts : \A at \in 0..Len(t) :
              MatchLength(grammar[i].pattern, t, at) = LongestLength(grammar[i].pattern, t, at)

VARIABLES
    text,       \* The source.
    cursor,     \* The position reached.
    stack,      \* The mode stack, its top last.
    previous,   \* The kind of the token before.
    indents,    \* The open blocks.
    tokens,     \* What tokenize has collected.
    outcome     \* How the scan ended, or Running.

vars == <<rules, text, cursor, stack, previous, indents, tokens, outcome>>

Running == [kind |-> "running", where |-> Beginning, mode |-> Default]

\* The scan is over: at the end, or with the lex_error of one of the four failures at a position,
\* naming a mode.
Ended(kind, where, mode) == [kind |-> kind, where |-> where, mode |-> mode]

Init ==
    /\ rules \in Grammars
    /\ text \in Texts
    /\ cursor = Beginning
    /\ stack = RootStack(Beginning)
    /\ previous = EndOfInput
    /\ indents = NoBlocks
    /\ tokens = <<>>
    /\ outcome = Running

-----------------------------------------------------------------------------
(* The skip matches.  A configuration is a cursor and a mode stack. *)

Mode(c) == Last(c.stack).mode

AtEnd(c) == c.cursor.offset = Len(text)

\* The configuration past the match m of a rule at c.
Past(c, m) ==
    [ cursor |-> Advance(text, c.cursor, m.len),
      stack  |-> Transition(rules[m.idx], c.cursor, c.stack) ]

\* A mutation: an empty match is taken like any other.
TurnTakingEmpty(c) ==
    IF AtEnd(c)
    THEN [at |-> c, meets |-> "end", munch |-> NoMunch]
    ELSE LET m == MunchAt(UnitOf(Mode(c), previous, text, c.cursor.offset), text, c.cursor.offset)
         IN  [at |-> c, munch |-> m, meets |-> IF m.have THEN "match" ELSE "nothing"]

\* A turn of scan_step's loop at c, with the munch there: a match, an empty one, or none.
Met(c, munch) ==
    [ at |-> c, munch |-> munch,
      meets |-> IF ~munch.have THEN "nothing" ELSE IF munch.len = 0 THEN "empty" ELSE "match" ]

\* What a turn of the loop meets at c: the end of the text, or the munch there.
Turn(c) ==
    IF AtEnd(c)
    THEN [at |-> c, meets |-> "end", munch |-> NoMunch]
    ELSE Met(c, MunchAt(UnitOf(Mode(c), previous, text, c.cursor.offset), text, c.cursor.offset))

Won(turn) == rules[turn.munch.idx]

Skips(turn) == turn.meets = "match" /\ Won(turn).skip /\ ~Refused(Won(turn), turn.at.stack)

\* The turn at which scan_next stops skipping: each skip match takes at least one character, so
\* there are at most Len(text) of them.
Reached ==
    LET turn[i \in 0..Len(text)] ==
          IF i = 0 THEN Turn([cursor |-> cursor, stack |-> stack])
          ELSE LET t == turn[i - 1] IN IF Skips(t) THEN Turn(Past(t.at, t.munch)) ELSE t
    IN  turn[Len(text)]

\* A mutation: a run is one character.
RunOfOne(mode, from) == from + 1

\* Where the error run that starts at offset from ends: the next place a rule matches something
\* after the token before the run, or the end of the text.
RunEnd(mode, from) ==
    Min({Len(text)} \cup
        { at \in (from + 1)..(Len(text) - 1) :
            LET unit == UnitOf(mode, previous, text, at)
            IN  MayStart(unit, text[at + 1]) /\ MunchAt(unit, text, at).len > 0 })

Token(kind, start, end, mode) ==
    [kind |-> kind, lexeme |-> SubSeq(text, start.offset + 1, end.offset), start |-> start, mode |-> mode]

-----------------------------------------------------------------------------
(* One scan_next, by the turn it reaches past the skip matches *)

\* The match of a turn, extended below its line if its rule says so.
Match(turn) ==
    [turn.munch EXCEPT !.len = Extended(Won(turn), Mode(turn.at), text, turn.at.cursor, @, indents, TRUE)]

\* A rule that is not skipped wins: its token, tagged with the mode it was lexed in.
Emit(turn) ==
    /\ turn.meets = "match"
    /\ ~Won(turn).skip /\ ~Refused(Won(turn), turn.at.stack)
    /\ indents' = Indented(Won(turn), Mode(turn.at), turn.at.cursor, indents)
    /\ \E past \in {Past(turn.at, Match(turn))} :
           /\ cursor' = past.cursor
           /\ stack' = past.stack
           /\ tokens' = Append(tokens, Token(Won(turn).kind, turn.at.cursor, past.cursor, Mode(turn.at)))
    /\ previous' = Won(turn).kind
    /\ UNCHANGED <<rules, text, outcome>>

\* No rule matches and the policy recovers: one token for the run.
EmitErrorRun(turn) ==
    /\ ErrorPolicy = "token"
    /\ turn.meets = "nothing"
    /\ \E end \in {Advance(text, turn.at.cursor, RunEnd(Mode(turn.at), turn.at.cursor.offset)
                                                 - turn.at.cursor.offset)} :
           /\ cursor' = end
           /\ tokens' = Append(tokens, Token(ErrorKind, turn.at.cursor, end, Mode(turn.at)))
    /\ stack' = turn.at.stack
    /\ previous' = ErrorKind
    /\ UNCHANGED <<rules, text, indents, outcome>>

\* A mutation: what threw counts as the token before.
FailNoted(kind, where, turn) ==
    /\ outcome' = Ended(kind, where, Mode(turn.at))
    /\ stack' = turn.at.stack
    /\ previous' = ErrorKind
    /\ UNCHANGED <<rules, text, tokens>>

\* A lex_error thrown at a position.  The cursor and the stack are the caller's: the skip matches before
\* stay taken.
Fail(kind, where, turn) ==
    /\ outcome' = Ended(kind, where, Mode(turn.at))
    /\ stack' = turn.at.stack
    /\ UNCHANGED <<rules, text, previous, tokens>>

\* Failure 1: no rule matches.
NoRule(turn) ==
    /\ ErrorPolicy = "raise"
    /\ turn.meets = "nothing"
    /\ cursor' = turn.at.cursor /\ indents' = indents
    /\ Fail("no_rule", turn.at.cursor, turn)

\* Failure 2: a pop of the root mode, or a push past the bound; the cursor and the open blocks move on
\* before the transition throws.
BadTransition(turn) ==
    /\ turn.meets = "match"
    /\ Refused(Won(turn), turn.at.stack)
    /\ cursor' = Advance(text, turn.at.cursor, Match(turn).len)
    /\ indents' = Indented(Won(turn), Mode(turn.at), turn.at.cursor, indents)
    /\ Fail("bad_transition", turn.at.cursor, turn)

\* Failure 3: the text ends inside a pushed mode, reported where the mode was entered.
Unterminated(turn) ==
    /\ ErrorPolicy = "raise"
    /\ turn.meets = "end" /\ Len(turn.at.stack) > 1
    /\ cursor' = turn.at.cursor /\ indents' = indents
    /\ Fail("unterminated", Last(turn.at.stack).entry, turn)

\* Failure 3 when the policy recovers: an empty error token, and the stack unwinds.  The kind of
\* the token before is left alone.
EmitUnterminated(turn) ==
    /\ ErrorPolicy = "token"
    /\ turn.meets = "end" /\ Len(turn.at.stack) > 1
    /\ cursor' = turn.at.cursor
    /\ stack' = SubSeq(turn.at.stack, 1, 1)
    /\ tokens' = Append(tokens, Token(ErrorKind, turn.at.cursor, turn.at.cursor, Mode(turn.at)))
    /\ UNCHANGED <<rules, text, previous, indents, outcome>>

\* Failure 4: the winning match is empty.
ZeroLength(turn) ==
    /\ turn.meets = "empty"
    /\ cursor' = turn.at.cursor /\ indents' = indents
    /\ Fail("zero_length", turn.at.cursor, turn)

\* The end of the text at the root mode; tokenize then adds the end-of-input token if asked.
End(turn) ==
    /\ turn.meets = "end" /\ Len(turn.at.stack) = 1
    /\ cursor' = turn.at.cursor
    /\ stack' = turn.at.stack
    /\ tokens' = IF EofPolicy = "append"
                 THEN Append(tokens, Token(EndOfInput, turn.at.cursor, turn.at.cursor, Default))
                 ELSE tokens
    /\ outcome' = Ended("end", turn.at.cursor, Mode(turn.at))
    /\ UNCHANGED <<rules, text, previous, indents>>

Next ==
    /\ outcome = Running
    /\ \E turn \in {Reached} :     \* bound, not a LET: TLC then evaluates it once
           \/ Emit(turn)
           \/ EmitErrorRun(turn)
           \/ NoRule(turn)
           \/ BadTransition(turn)
           \/ Unterminated(turn)
           \/ EmitUnterminated(turn)
           \/ ZeroLength(turn)
           \/ End(turn)

Spec == Init /\ [][Next]_vars

-----------------------------------------------------------------------------
(* Invariants *)

Offsets == 0..Len(text)

Positions == [offset : Offsets, line : 1..(Len(text) + 1), column : 1..(Len(text) + 1)]

\* The state has the types of the members of a scan.
TypeOK ==
    /\ cursor \in Positions
    /\ stack \in Seq([mode : ModeNames, entry : Positions]) /\ Len(stack) \in 1..MaxDepth
    /\ previous \in {EndOfInput, ErrorKind} \cup { rules[i].kind : i \in RuleIds }
    /\ tokens \in Seq([kind : {EndOfInput, ErrorKind} \cup { rules[i].kind : i \in RuleIds },
                       lexeme : Seq(Char), start : Positions, mode : ModeNames])

\* The bytes no rule can begin make one error token, as long as it can be: two of them never touch.
ErrorRunsApart ==
    \A i \in 2..Len(tokens) :
        LET before == tokens[i - 1]
            after  == tokens[i]
        IN  before.kind = ErrorKind /\ after.kind = ErrorKind /\ after.lexeme # <<>>
            => after.start.offset > before.start.offset + Len(before.lexeme)

\* A pushed mode is reported, when the text ends inside it, where the match that opened it begins:
\* every frame above the root holds the place of a match of a push rule, the outer before the inner,
\* and the cursor is past them all.
FramesAreOpeners ==
    /\ \A i \in 2..Len(stack) :
          \E r \in RuleIds :
              /\ rules[r].op = "push"
              /\ LET length == MatchLength(rules[r].pattern, text, stack[i].entry.offset)
                     before == IF i < Len(stack) THEN stack[i + 1].entry.offset ELSE cursor.offset
                 IN  length > 0 /\ stack[i].entry.offset + length <= before
    /\ outcome.kind = "unterminated" => outcome.where.offset < Len(text)

\* The tokens but for the end-of-input token that "append" adds: what "omit" gives.
Lexed == IF outcome.kind = "end" /\ EofPolicy = "append" THEN Front(tokens) ELSE tokens

\* The lexer is its reference: a text has the tokens the rules give it one by one, or fails where they
\* do, whatever the units, the first-character dispatch, the DFAs and the backward column count made of
\* it; and a text that fails has the reference's tokens up to there.  The fuzzing harness finds nothing:
\* every byte is taken once, every token is the longest match of a rule of its kind, extended or not.
LexesAsReference ==
    outcome # Running =>
        LET recovers == ErrorPolicy = "token"
            failed   == IF outcome.kind = "end" THEN Nowhere ELSE outcome.where.offset
        IN  /\ \A scan \in {ReferenceScan(text, recovers)} :
                  Check(scan, text, recovers, Lexed, failed) = "ok" /\ Lexed = scan.tokens
            /\ failed < Len(text)

\* The open blocks nest: each is deeper than the one around it, at the column, in the text, of a match of
\* an entry or a key that the scan is past, and the -1 at the bottom is never closed.
BlocksNest ==
    LET levels == indents.levels
    IN  /\ levels[1] = -1
        /\ \A i \in 2..Len(levels) : levels[i] > levels[i - 1]
        /\ \A i \in 2..Len(levels) : \E at \in 0..(cursor.offset - 1) :
              /\ \E r \in RuleIds : /\ rules[r].indent \in {"entry", "key"}
                                   /\ MatchLength(rules[r].pattern, text, at) > 0
              /\ levels[i] = Advance(text, Beginning, at).column - 1

\* What an extension takes belongs to the innermost open block, as the token leaves the blocks, the
\* token of a refused transition too: each line below its match that it takes, but for blank ones, is
\* indented past that block, although the extent is measured before the blocks are updated; and the line
\* that ends a block body is indented less than each of the body's lines.
ExtensionsStayInBlock ==
    [][ \A turn \in {Reached} :
           turn.meets = "match" /\ Won(turn).extend # "none" /\ TakesPart(Won(turn), Mode(turn.at)) =>
           LET below      == turn.at.cursor.offset + turn.munch.len
               end        == cursor'.offset
               Written(l) == IF Won(turn).extend = "block" THEN ~Blank(text, l) ELSE ~BlankToEnd(text, l)
               taken      == { l \in Lines(text, 0) : below < l /\ l < end /\ Written(l) }
           IN  \A l \in taken :
                  /\ LeadingSpaces(text, l) > Last(indents'.levels)
                  /\ (Won(turn).extend = "block" /\ end \in Lines(text, 0) /\ ~Blank(text, end))
                     => LeadingSpaces(text, l) > LeadingSpaces(text, end) ]_vars

\* Every scan ends: a scan_next that does not end it moves the cursor on, or unwinds the stack at the
\* end of the text (a match of no characters never keeps it where it is).
ScanProgresses ==
    [][outcome' = Running => \/ cursor'.offset > cursor.offset
                             \/ cursor'.offset = Len(text) /\ Len(stack') < Len(stack)]_vars

=============================================================================
