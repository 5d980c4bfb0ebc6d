---------------------------- MODULE TokenStream -----------------------------
(***************************************************************************)
(* scilex::token_stream: a text fed in pieces, its tokens returned as soon *)
(* as no text still to come can change them.                               *)
(*                                                                         *)
(* The text is chosen once, in Init, and the stream is given it piece by   *)
(* piece: whatever the stream returns before it has seen the end has to be *)
(* right for every text that begins with what it has seen.                 *)
(*                                                                         *)
(* A step of the machine is a call of feed or finish up to its scan, or    *)
(* one turn of the loop of lexer::scan_step under the stream's gate, with  *)
(* what token_stream::collect does of its result.                          *)
(***************************************************************************)
EXTENDS Scanner

CONSTANTS
    Texts,  \* The texts to lex.
    MaxPiece,\* The bound on the size of a piece.
    Word    \* The values of std::size_t, 0..Word - 1 (entry offsets are kept modulo it).

ASSUME StreamAssumption ==
    /\ MaxPiece \in Nat \ {0}
    /\ Word \in Nat \ {0}
    /\ \A t \in Texts : t \in Seq(Char) /\ Len(t) < Word

VARIABLES
    text,       \* The text being fed.
    fed,        \* How much of it has been.
    buffer,     \* buffer_: the text from the first token not yet returned, and a little before it.
    base,       \* base_: the offset of the buffer in the text.
    tail,       \* tail_: an unfinished code point held back.
    cursor,     \* cursor_: where lexing resumes, its offset in the buffer.
    stack,      \* stack_: the mode stack, entry offsets relative to the buffer.
    previous,   \* previous_: the kind of the token before the cursor.
    indents,    \* indents_: the open blocks before the cursor.
    undo,       \* undo_: the transitions of the step under way, latest last.
    open,       \* open_: the munch the last piece left open.
    finished,   \* finished_.
    pc,         \* "idle" between calls, "collect" inside collect.
    final,      \* collect's argument: the end of the buffer is the end of the text.
    saved,      \* collect's saved_cursor.
    out,        \* collect's out: the tokens of the call under way.
    returned,   \* All the tokens returned by the calls before (or carried by an error).
    outcome     \* How the text ended, or Running.

callVars   == <<pc, final, saved, out, returned>>
bufferVars == <<fed, buffer, base, tail>>
scanVars   == <<cursor, stack, previous, indents, undo, open>>
vars       == <<rules, text, bufferVars, scanVars, callVars, finished, outcome>>

Running == [kind |-> "running", where |-> Beginning, mode |-> Default]

Ended(kind, where, mode) == [kind |-> kind, where |-> where, mode |-> mode]

\* No munch is open.
NotOpen == [unit |-> [mode |-> Default, rules |-> {}], at |-> -1, walked |-> <<>>]

Init ==
    /\ rules \in Grammars
    /\ text \in Texts
    /\ fed = 0
    /\ buffer = <<>> /\ base = 0 /\ tail = <<>>
    /\ cursor = Beginning
    /\ stack = RootStack(Beginning)
    /\ previous = EndOfInput
    /\ indents = NoBlocks
    /\ undo = <<>>
    /\ open = NotOpen
    /\ finished = FALSE
    /\ pc = "idle" /\ final = FALSE /\ saved = Beginning /\ out = <<>>
    /\ returned = <<>>
    /\ outcome = Running

\* A mutation: positions are left in the buffer.
InBuffer(pos) == pos

\* in_text: a position in the buffer as a position in the text.
InText(pos) == [pos EXCEPT !.offset = (@ + base) % Word]

-----------------------------------------------------------------------------
(* The calls *)

\* A mutation: the characters a column looks back at are not kept.
DroppedBare == cursor.offset - Min({cursor.offset, ContextKept})

\* drop_returned: how many characters before the cursor go.
Dropped ==
    LET keep == IF Columns = "bytes" THEN ContextKept ELSE Max({ContextKept, 3})
    IN  cursor.offset - Min({cursor.offset, keep})

\* A mutation: only the last character is looked at.
IncompleteLast(chars, at) ==
    IF Columns # "bytes" /\ Len(chars) > at /\ Announces[Last(chars)] > 1 THEN 1 ELSE 0

\* hold_incomplete_tail: how many characters at the end of chars, lexed up to offset at, begin a
\* code point that is not all there.
Incomplete(chars, at) ==
    LET ahead    == Len(chars) - at
        leads    == { back \in 1..Min({3, ahead}) : Announces[chars[Len(chars) - back + 1]] # 0 }
        lastLead == Min(leads)
    IN  IF Columns = "bytes" \/ leads = {} THEN 0
        ELSE IF Announces[chars[Len(chars) - lastLead + 1]] > lastLead THEN lastLead ELSE 0

\* What feed and finish do before collect, and collect before its first step, with chars the text
\* after the buffer, the last hold characters of it held back.
Begin(chars, hold) ==
    LET k == Dropped
        b == SubSeq(buffer, k + 1, Len(buffer)) \o chars
    IN  /\ buffer' = SubSeq(b, 1, Len(b) - hold)
        /\ tail' = SubSeq(b, Len(b) - hold + 1, Len(b))
        /\ base' = base + k
        /\ cursor' = [cursor EXCEPT !.offset = @ - k]
        /\ stack' = [i \in DOMAIN stack |-> [stack[i] EXCEPT !.entry.offset = (@ - k) % Word]]
        /\ saved' = cursor'
        /\ undo' = <<>>
        /\ pc' = "collect"

\* A mutation: the characters held back come after the piece.
TailAfter(n) == SubSeq(text, fed + 1, fed + n) \o tail

\* The text of a call that gives the stream n more characters: those held back come first.
Arrived(n) == tail \o SubSeq(text, fed + 1, fed + n)

\* feed(chunk), with chunk the next n characters of the text.
Feed(n) ==
    /\ pc = "idle" /\ ~finished
    /\ fed + n <= Len(text)
    /\ LET k == Dropped
           b == SubSeq(buffer, k + 1, Len(buffer)) \o Arrived(n)
       IN  Begin(Arrived(n), Incomplete(b, cursor.offset - k))
    /\ fed' = fed + n
    /\ final' = FALSE
    /\ UNCHANGED <<rules, text, previous, indents, open, finished, out, returned, outcome>>

\* finish(), once the whole text has been fed.
Finish ==
    /\ pc = "idle" /\ ~finished
    /\ fed = Len(text)
    /\ Begin(tail, 0)
    /\ finished' = TRUE
    /\ final' = TRUE
    /\ UNCHANGED <<rules, text, fed, previous, indents, open, out, returned, outcome>>

-----------------------------------------------------------------------------
(* The turn of scan_step's loop at the cursor *)

At    == cursor.offset
Mode  == Last(stack).mode
Unit  == UnitOf(Mode, previous, buffer, At)
AtEnd == At = Len(buffer)

\* A mutation: any munch of the unit goes on from where the last one stood.
ResumesAnywhere == open.unit = Unit

\* gate::resumes: this munch is the one the last piece left open.
Resumes == open.unit = Unit /\ open.at = base + At

\* The text a resumed munch has read: what it had walked, then what has arrived since.
Walk == open.walked \o SubSeq(buffer, At + Len(open.walked) + 1, Len(buffer))

\* munch_here, and whether it leaves the munch open.
MunchHere == IF Resumes THEN DfaMunch(Unit, Walk, 0) ELSE MunchAt(Unit, buffer, At)

MunchOpen == IF Resumes THEN Open(Unit, Walk, 0) ELSE Open(Unit, buffer, At)

\* What the turn meets: the end of the buffer, a gate that is not ready, a munch left open, or a
\* decided munch: none, an empty one, a match whose extension waits for more lines, or a match.
Turn ==
    IF AtEnd THEN [meets |-> "end", munch |-> NoMunch]
    ELSE IF ~final /\ ~Ready(Unit, buffer, At) THEN [meets |-> "not ready", munch |-> NoMunch]
    ELSE IF ~final /\ MunchOpen THEN [meets |-> "open", munch |-> NoMunch]
    ELSE LET m == MunchHere
         IN  IF ~m.have THEN [meets |-> "nothing", munch |-> m]
             ELSE IF m.len = 0 THEN [meets |-> "empty", munch |-> m]
             ELSE LET length == Extended(rules[m.idx], Mode, buffer, cursor, m.len, indents, final)
                  IN  [ meets |-> IF length = Undecided THEN "undecided" ELSE "match",
                        munch |-> [m EXCEPT !.len = length] ]

Won(turn) == rules[turn.munch.idx]

Past(turn) == Advance(buffer, cursor, turn.munch.len)

\* An error run is tried at each offset past its first character: it ends where a rule matches
\* something, and waits where one still could.
ProbeUnit(at) == UnitOf(Mode, previous, buffer, at)

\* A mutation: a probe that a DFA leaves open is not waited for.
RunWaitsOnPike(at) == ~final /\ ~Ready(ProbeUnit(at), buffer, at)

RunWaits(at) ==
    /\ ~final
    /\ \/ ~Ready(ProbeUnit(at), buffer, at)
       \/ MayStart(ProbeUnit(at), buffer[at + 1]) /\ Open(ProbeUnit(at), buffer, at)

RunEnds(at) ==
    /\ MayStart(ProbeUnit(at), buffer[at + 1])
    /\ MunchAt(ProbeUnit(at), buffer, at).len > 0

\* Where the run stops being extended, and whether that is its end.
RunStop ==
    Min({Len(buffer)} \cup { at \in (At + 1)..(Len(buffer) - 1) : RunWaits(at) \/ RunEnds(at) })

RunDecided(stop) == IF stop = Len(buffer) THEN final ELSE ~RunWaits(stop)

Token(kind, end, mode) ==
    [ kind |-> kind, lexeme |-> SubSeq(buffer, At + 1, end.offset), start |-> InText(cursor), mode |-> mode ]

\* The step produced a token: collect keeps it and starts the next step.
Produce(token, past) ==
    /\ out' = Append(out, token)
    /\ cursor' = past
    /\ saved' = past
    /\ undo' = <<>>
    /\ UNCHANGED <<rules, text, bufferVars, open, finished, pc, final, returned, outcome>>

\* A mutation: a set is not noted, as it leaves the depth alone.
NotedByDepth(rule) ==
    IF rule.op \in {"none", "set"} THEN undo ELSE Append(undo, [depth |-> Len(stack), top |-> Last(stack)])

\* The mode stack as a transition found it: its depth and its top.
Noted(rule) == IF rule.op = "none" THEN undo ELSE Append(undo, [depth |-> Len(stack), top |-> Last(stack)])

\* A mutation: only the last transition is taken back.
UndoneLast ==
    IF undo = <<>> THEN stack ELSE Append(SubSeq(stack, 1, Last(undo).depth - 1), Last(undo).top)

\* collect takes back the transitions of a step that waits, the latest first: a frame is left as the
\* earliest of them to find it on top noted it, and the frames below are as they were.
Undone ==
    LET found(depth) == { j \in DOMAIN undo : undo[j].depth = depth }
    IN  IF undo = <<>> THEN stack
        ELSE [ depth \in 1..undo[1].depth |->
                 IF found(depth) = {} THEN stack[depth] ELSE undo[Min(found(depth))].top ]

\* A mutation: collect goes round again instead of returning.
ReturnAgain ==
    /\ returned' = returned \o out
    /\ out' = <<>>
    /\ pc' = pc

\* The call ends, with what it decided.
Return ==
    /\ returned' = returned \o out
    /\ out' = <<>>
    /\ pc' = "idle"

\* A skip rule wins: the step goes on.
Skip(turn) ==
    /\ turn.meets = "match"
    /\ Won(turn).skip /\ ~Refused(Won(turn), stack)
    /\ cursor' = Past(turn)
    /\ stack' = Transition(Won(turn), cursor, stack)
    /\ undo' = Noted(Won(turn))
    /\ UNCHANGED <<rules, text, bufferVars, previous, indents, open, callVars, finished, outcome>>

\* Another rule wins.
Emit(turn) ==
    /\ turn.meets = "match"
    /\ ~Won(turn).skip /\ ~Refused(Won(turn), stack)
    /\ stack' = Transition(Won(turn), cursor, stack)
    /\ previous' = Won(turn).kind
    /\ indents' = Indented(Won(turn), Mode, cursor, indents)
    /\ Produce(Token(Won(turn).kind, Past(turn), Mode), Past(turn))

\* No rule matches and the policy recovers: the run's token, once its end is decided.
EmitErrorRun(turn) ==
    /\ ErrorPolicy = "token"
    /\ turn.meets = "nothing"
    /\ LET stop == RunStop
           end  == Advance(buffer, cursor, stop - At)
       IN  RunDecided(stop) /\ Produce(Token(ErrorKind, end, Mode), end)
    /\ previous' = ErrorKind
    /\ UNCHANGED <<stack, indents>>

\* A mutation: the skip matches are not taken back.
PendingSkipped ==
    /\ ~final
    /\ Return
    /\ UNCHANGED <<rules, text, bufferVars, cursor, stack, undo, previous, indents, finished, final, saved, outcome>>

\* The step stops where text to come could change what it does: collect takes back the skip matches
\* it went over, and their transitions, and the call returns.
Pending ==
    /\ ~final
    /\ cursor' = saved
    /\ stack' = Undone
    /\ undo' = <<>>
    /\ Return
    /\ UNCHANGED <<rules, text, bufferVars, previous, indents, finished, final, saved, outcome>>

\* The buffer has been lexed to its end, the gate is not ready, or lines to come decide how far the
\* token extends.
Wait(turn) ==
    /\ turn.meets \in {"end", "not ready", "undecided"}
    /\ open' = open
    /\ Pending

\* An error run may go on.
WaitInRun(turn) ==
    /\ ErrorPolicy = "token"
    /\ turn.meets = "nothing"
    /\ ~RunDecided(RunStop)
    /\ open' = open
    /\ Pending

\* The DFA could go on: left_open notes where, in a unit wholly on its DFA.
WaitOpen(turn) ==
    /\ turn.meets = "open"
    /\ open' = IF Resumes
               THEN [open EXCEPT !.walked = Walk]
               ELSE IF OnPike(Unit) = {}
               THEN [unit |-> Unit, at |-> base + At, walked |-> <<>>]
               ELSE open
    /\ Pending

\* A lex_error: the stream is finished, the tokens decided before go with it.
Fail(kind, where) ==
    /\ outcome' = Ended(kind, where, Mode)
    /\ finished' = TRUE
    /\ Return
    /\ UNCHANGED <<rules, text, bufferVars, stack, previous, open, final, saved>>

NoRule(turn) ==
    /\ ErrorPolicy = "raise"
    /\ turn.meets = "nothing"
    /\ Fail("no_rule", InText(cursor))
    /\ UNCHANGED <<cursor, indents, undo>>

\* The cursor and the open blocks move on, and the transition is noted, before it throws.
BadTransition(turn) ==
    /\ turn.meets = "match"
    /\ Refused(Won(turn), stack)
    /\ cursor' = Past(turn)
    /\ indents' = Indented(Won(turn), Mode, cursor, indents)
    /\ undo' = Noted(Won(turn))
    /\ Fail("bad_transition", InText(cursor))

ZeroLength(turn) ==
    /\ turn.meets = "empty"
    /\ Fail("zero_length", InText(cursor))
    /\ UNCHANGED <<cursor, indents, undo>>

\* A mutation: a mode still open at the end is not reported.
UnterminatedIgnored(turn) == FALSE

Unterminated(turn) ==
    /\ ErrorPolicy = "raise"
    /\ turn.meets = "end" /\ final /\ Len(stack) > 1
    /\ Fail("unterminated", InText(Last(stack).entry))
    /\ UNCHANGED <<cursor, indents, undo>>

EmitUnterminated(turn) ==
    /\ ErrorPolicy = "token"
    /\ turn.meets = "end" /\ final /\ Len(stack) > 1
    /\ stack' = SubSeq(stack, 1, 1)
    /\ UNCHANGED <<previous, indents>>
    /\ Produce(Token(ErrorKind, cursor, Mode), cursor)

\* scan_status::end.
End(turn) ==
    /\ turn.meets = "end" /\ final /\ Len(stack) = 1
    /\ outcome' = Ended("end", InText(cursor), Mode)
    /\ Return
    /\ UNCHANGED <<rules, text, bufferVars, scanVars, finished, final, saved>>

Collect ==
    /\ pc = "collect"
    /\ \E turn \in {Turn} :     \* bound, not a LET: TLC then evaluates it once
           \/ Skip(turn)
           \/ Emit(turn)
           \/ EmitErrorRun(turn)
           \/ Wait(turn)
           \/ WaitInRun(turn)
           \/ WaitOpen(turn)
           \/ NoRule(turn)
           \/ BadTransition(turn)
           \/ ZeroLength(turn)
           \/ Unterminated(turn)
           \/ EmitUnterminated(turn)
           \/ End(turn)

Next ==
    \/ \E n \in 0..MaxPiece : Feed(n)
    \/ Finish
    \/ Collect

\* A call runs to its end, and the caller ends up feeding the whole text and finishing.
Fairness ==
    /\ WF_vars(Collect)
    /\ SF_vars(\E n \in 1..MaxPiece : Feed(n))
    /\ SF_vars(Finish)

Safety == Init /\ [][Next]_vars

Spec == Safety /\ Fairness

-----------------------------------------------------------------------------
(* The stream implements tokenize *)

\* Where the step under way began: what a step that waits goes back to.  A scan that ended, in an error
\* too, stays where it is.
CommittedCursor == InText(IF outcome.kind = "running" THEN saved ELSE cursor)

CommittedStack ==
    LET frames == IF outcome.kind = "running" THEN Undone ELSE stack
    IN  [ i \in DOMAIN frames |-> [frames[i] EXCEPT !.entry = InText(@)] ]

Tokenize == INSTANCE Lexer WITH
    EofPolicy <- "omit",
    cursor    <- CommittedCursor,
    stack     <- CommittedStack,
    tokens    <- returned \o out

\* Wherever the pieces are cut, the tokens the calls return are the tokens tokenize gives the whole
\* text, in its order, with its kinds, lexemes, modes and positions, and the stream fails where it
\* fails, for the same reason (the promise of token_stream).
StreamIsTokenize == Tokenize!Spec

\* What a caller sees: of the text fed, the stream holds what no step has committed.
Caller == INSTANCE HeldText WITH
    held    <- base + (IF pc = "idle" THEN cursor ELSE saved).offset,
    call    <- IF pc = "idle" THEN "none" ELSE IF final THEN "finish" ELSE "feed",
    failure <- IF outcome.kind \in {"running", "end"} THEN [kind |-> "none", at |-> 0]
               ELSE [ kind |-> IF outcome.kind = "unterminated" THEN "entry" ELSE "here",
                      at   |-> outcome.where.offset ]

\* Whatever the rules, a call commits to text in order, up to what was fed, an error is at text not
\* committed or where an open mode was entered, and no call follows the last: what the binding keeps of
\* the text for its errors rests on it (feed, finish and buffered as _scilex.cpp uses them).
HoldsText == Caller!Spec

-----------------------------------------------------------------------------
(* Invariants *)

Positions(offsets) == [offset : offsets, line : Nat, column : Nat]

\* An entry offset is kept modulo Word: it is before the buffer once the buffer has moved on.
Frames == [mode : ModeNames, entry : Positions(0..(Word - 1))]

Kinds == {ErrorKind} \cup { rules[i].kind : i \in RuleIds }

Tokens ==
    [kind : Kinds, lexeme : Seq(Char), start : Positions(0..(Word - 1)), mode : ModeNames]

TypeOK ==
    /\ rules \in Grammars /\ text \in Texts
    /\ fed \in 0..Len(text)
    /\ buffer \in Seq(Char) /\ tail \in Seq(Char)
    /\ base \in 0..Len(text)
    /\ cursor \in Positions(0..Len(buffer)) /\ saved \in Positions(0..Len(buffer))
    /\ stack \in Seq(Frames)
    /\ undo \in Seq([depth : 1..MaxDepth, top : Frames])
    /\ open = [unit |-> open.unit, at |-> open.at, walked |-> open.walked]
    /\ open.at \in Int /\ open.walked \in Seq(Char)
    /\ pc \in {"idle", "collect"}
    /\ final \in BOOLEAN /\ finished \in BOOLEAN
    /\ out \in Seq(Tokens) /\ returned \in Seq(Tokens)

\* The buffer and the tail held back are exactly the text from the buffer's base to what was fed:
\* drop_returned and hold_incomplete_tail lose no byte, repeat none and keep the order.
BufferIsText == buffer \o tail = SubSeq(text, base + 1, fed)

\* What drop_returned kept before the cursor answers every rule that reads back as the whole text
\* would: a lookbehind, a line start, the column of a byte inside a code point.
ContextSuffices ==
    ~AtEnd =>
        LET at == base + At
        IN  /\ \A i \in RuleIds : Admits(rules[i].pattern, buffer, At) = Admits(rules[i].pattern, text, at)
            /\ UnitOf(Mode, previous, buffer, At) = UnitOf(Mode, previous, text, at)
            /\ ColumnStep(buffer, At) = ColumnStep(text, at)

\* A munch that goes on from where the last piece left it answers as one read from its first byte.
ResumedMunchIsFresh ==
    ~AtEnd /\ Resumes =>
        /\ MunchHere = MunchAt(Unit, buffer, At)
        /\ MunchOpen = Open(Unit, buffer, At)

\* The mode stack always has its root and never more than max_mode_depth frames, also after a step
\* that waits has been undone.
StackBounded ==
    /\ Len(stack) \in 1..MaxDepth
    /\ Len(Undone) \in 1..MaxDepth

\* collect's loop, a turn at a time: undo the last transition, then the one before it, and so on.
UndoneFrom[i \in 1..(Len(undo) + 1)] ==
    IF i > Len(undo) THEN stack
    ELSE Append(SubSeq(UndoneFrom[i + 1], 1, undo[i].depth - 1), undo[i].top)

\* The stack the transitions are taken back to is the one collect's loop computes.
UndoneLatestFirst == Undone = UndoneFrom[1]

\* Skip matches, their transitions, the calls and a step that waits leave no trace: where the text is
\* lexed up to, in which modes, after which kind and in which blocks only changes as a token is
\* produced or the text ends.
OnlyTokensCommit ==
    [][ returned' \o out' = returned \o out /\ outcome' = outcome =>
            /\ CommittedCursor' = CommittedCursor
            /\ CommittedStack' = CommittedStack
            /\ previous' = previous /\ indents' = indents ]_vars

\* The longest token or skip match a rule makes anywhere in the text.
LongestMatch ==
    Max({0} \cup { MatchLength(rules[i].pattern, text, at) : i \in RuleIds, at \in 0..Len(text) })

\* Memory follows the longest token, not the input: between calls the stream holds (buffered) no more
\* than a piece and the token it ends inside.
MemoryFollowsTokens ==
    pc = "idle" => Len(buffer) - cursor.offset + Len(tail) <= MaxPiece + LongestMatch

-----------------------------------------------------------------------------
(* What BufferIsText, StackBounded and OnlyTokensCommit rest on *)

Accounted == base + Len(buffer) + Len(tail) = fed

\* The characters held back begin with a lead, and what is not held back ends with no lead whose code
\* point is not all there: a later hold never reaches into what was lexed.
HeldFromLead ==
    /\ tail # <<>> => Columns # "bytes" /\ Announces[tail[1]] # 0
    /\ tail = <<>> /\ ~finished /\ Columns # "bytes" =>
          \A back \in 1..3 :
              /\ back <= Len(buffer) - saved.offset
              /\ \A k \in 1..(back - 1) : Announces[buffer[Len(buffer) - k + 1]] = 0
              => Announces[buffer[Len(buffer) - back + 1]] <= back

\* What an open munch has walked is still there.
WalkedIsBuffered == open.at + Len(open.walked) <= base + Len(buffer)

\* Every frame the step began with is still on the stack or noted.
FramesNoted ==
    undo # <<>> =>
        \A depth \in 1..undo[1].depth :
            depth <= Len(stack) \/ \E j \in DOMAIN undo : undo[j].depth = depth

\* Between calls nothing is pending; only the last call, a finish or one that fails, ends the text.
CallsApart ==
    /\ pc = "collect" \/ ~finished => outcome = Running
    /\ pc = "collect" /\ final => finished
    /\ pc = "idle" /\ ~finished => cursor = saved /\ undo = <<>>

\* The inductive invariant: what the calls rely on to keep the text, the stack and the open munch.
Inductive ==
    /\ TypeOK
    /\ BufferIsText
    /\ Accounted
    /\ saved.offset <= cursor.offset
    /\ Len(stack) \in 1..MaxDepth
    /\ HeldFromLead
    /\ WalkedIsBuffered
    /\ FramesNoted
    /\ CallsApart

-----------------------------------------------------------------------------
(* Liveness *)

\* Every call returns: no turn of the scan leaves the cursor where it was.
CallReturns == pc = "collect" ~> pc = "idle"

\* A text fed to its end and finished is lexed to its end, or to its error.
TextEnds == <>(outcome # Running)

=============================================================================
