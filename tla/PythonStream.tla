---------------------------- MODULE PythonStream -----------------------------
(***************************************************************************)
(* scilex.TokenStream, the Python binding's stream: threads that share one *)
(* token_stream under the GIL, which a long call lets go of while it lexes.*)
(*                                                                         *)
(* A step is what a thread does without letting another run: a stretch of  *)
(* code under the GIL, or a step of the stream while the GIL is free. The  *)
(* stream itself is what HeldText says of it.                              *)
(***************************************************************************)
EXTENDS Integers, FiniteSets

CONSTANTS
    Threads,     \* The threads that share the stream, and the finalizers an allocation may run.
    Nobody,      \* Not a thread: the GIL is free.
    Pieces,      \* The lengths of the chunks fed.
    MaxText,     \* The bound on what is fed, refused chunks included.
    ReleaseFrom, \* gil_release_collect_min_bytes: the length from which the GIL is let go of.
    Context      \* stream_context_bytes: the text an error needs before the text held.

ASSUME PythonAssumption ==
    /\ Nobody \notin Threads
    /\ Pieces \subseteq Nat
    /\ MaxText \in Nat
    /\ ReleaseFrom \in Nat
    /\ Context \in Nat

VARIABLES
    fed, held, call, finished, failure, \* The token_stream.
    busy,       \* busy: a feed or finish is running.
    type,       \* is_bytes: "none" until the first chunk, then "str" or "bytes".
    tailBase,   \* tail_base: where the tail, the last text fed, begins.
    tailEnd,    \* Where it ends.
    gil,        \* The thread that holds the GIL, or Nobody.
    pc,         \* pc[t]: where thread t is.
    answer,     \* What the step just made gave its caller.
    mine,       \* mine[t]: from where to where the tokens of thread t's call lie.
    delivered,  \* How much of the text the callers have the tokens of, or an exception for.
    moved,      \* How much text the trims of the tail had to move.
    types       \* The types of the chunks the stream took.

streamVars == <<fed, held, call, finished, failure>>
tailVars   == <<tailBase, tailEnd, moved>>
vars       == <<streamVars, tailVars, busy, type, gil, pc, mine, answer, delivered, types>>

Stream == INSTANCE HeldText

AnswerKinds ==
    {"none", "tokens", "buffered", "window", "LexError", "error", "TypeError", "RuntimeError", "MemoryError"}

NoAnswer == [kind |-> "none", from |-> 0, to |-> 0]

\* An answer: tokens and a window have the text from one offset to another, an exception has none.
Answer(kind, from, to) == [kind |-> kind, from |-> from, to |-> to]

Raised(kind) == Answer(kind, 0, 0)

NoTokens == [from |-> 0, to |-> 0]

\* "python": outside the extension. "lexing": in token_stream's feed or finish. "listing": it returned,
\* its tokens are made into a list. "failing": it threw a lex_error, the tokens decided before are made
\* into a list. "refused": it threw as the text had ended. "reporting": the LexError is raised and the
\* wrapper has not asked for the window yet.
Places == {"python", "lexing", "listing", "failing", "refused", "reporting"}

\* Where a thread holds the stream.
InCall == {"lexing", "listing", "failing", "refused"}

Init ==
    /\ Stream!Init
    /\ busy = FALSE
    /\ type = "none"
    /\ tailBase = 0 /\ tailEnd = 0 /\ moved = 0
    /\ gil = Nobody
    /\ pc = [t \in Threads |-> "python"]
    /\ mine = [t \in Threads |-> NoTokens]
    /\ answer = NoAnswer
    /\ delivered = 0
    /\ types = {}

Goes(t, place) == pc' = [pc EXCEPT ![t] = place]

-----------------------------------------------------------------------------
(* The GIL *)

\* A thread takes the GIL, to go on with Python code or as gil_release ends.
Acquire(t) ==
    /\ gil = Nobody
    /\ pc[t] # "lexing"
    /\ gil' = t
    /\ answer' = NoAnswer
    /\ UNCHANGED <<streamVars, tailVars, busy, type, pc, mine, delivered, types>>

\* A mutation: a caller that finds the stream claimed waits for it, and keeps the GIL.
SpinsOnClaim(t) == pc[t] # "lexing" /\ (pc[t] = "python" => ~busy)

\* The interpreter lets another thread run between two bytecodes, or in a finalizer that an allocation
\* runs, so also while a list is made.
MaySwitch(t) == pc[t] # "lexing"

Yield(t) ==
    /\ gil = t
    /\ MaySwitch(t)
    /\ gil' = Nobody
    /\ answer' = NoAnswer
    /\ UNCHANGED <<streamVars, tailVars, busy, type, pc, mine, delivered, types>>

-----------------------------------------------------------------------------
(* The calls, up to the stream *)

\* A mutation: the claim is not asked for.
Anyone == TRUE

\* stream_claim::held.
Claimed == ~busy

\* A mutation: a claim that was refused gives the stream back.
GivenBack == FALSE

\* What the end of a refused claim leaves of busy.
AfterRefusal == busy

\* A mutation: only str after bytes is refused.
NotStrAfterBytes(kind) == ~(type = "bytes" /\ kind = "str")

\* A chunk is of the first one's type.
TypeFits(kind) == type \in {"none", kind}

\* The wrong type of chunk: refused before the claim is asked for.
RefuseType(t, kind) ==
    /\ gil = t /\ pc[t] = "python"
    /\ ~TypeFits(kind)
    /\ answer' = Raised("TypeError")
    /\ UNCHANGED <<streamVars, tailVars, busy, type, gil, pc, mine, delivered, types>>

\* feed, finish or buffered, of a stream that another call holds.
RefuseBusy(t) ==
    /\ gil = t /\ pc[t] = "python"
    /\ ~Claimed
    /\ busy' = AfterRefusal
    /\ answer' = Raised("RuntimeError")
    /\ UNCHANGED <<streamVars, tailVars, type, gil, pc, mine, delivered, types>>

\* A call of the stream: it throws as the text has ended, or lexes, without the GIL if it is long.
Calls(t, op, long) ==
    /\ gil' = IF long THEN Nobody ELSE t
    /\ mine' = [mine EXCEPT ![t] = [from |-> held, to |-> held]]
    /\ \/ finished /\ Goes(t, "refused") /\ UNCHANGED streamVars
       \/ op /\ Goes(t, "lexing")

\* A mutation: the chunk is not kept until the stream has lexed it.
KeptOnReturn(n) == tailEnd

\* The end of the tail as the stream is given n more characters.
TailWith(n) == tailEnd + n

\* stream_feed, of a chunk of n characters, up to token_stream::feed. The chunk is in the tail whether
\* the stream takes it or not.
Feed(t, n, kind) ==
    /\ gil = t /\ pc[t] = "python"
    /\ tailEnd + n <= MaxText
    /\ TypeFits(kind) /\ Claimed
    /\ busy' = TRUE
    /\ type' = kind
    /\ tailEnd' = TailWith(n)
    /\ Calls(t, Stream!Feed(n), n >= ReleaseFrom)
    /\ types' = IF finished THEN types ELSE types \cup {kind}
    /\ answer' = NoAnswer
    /\ UNCHANGED <<tailBase, moved, delivered>>

\* stream_finish, up to token_stream::finish.
Finish(t) ==
    /\ gil = t /\ pc[t] = "python"
    /\ Claimed
    /\ busy' = TRUE
    /\ Calls(t, Stream!Finish, Stream!Buffered >= ReleaseFrom)
    /\ answer' = NoAnswer
    /\ UNCHANGED <<tailVars, type, delivered, types>>

\* stream_buffered: claims the stream for as long as it reads a number.
Buffered(t) ==
    /\ gil = t /\ pc[t] = "python"
    /\ Claimed
    /\ answer' = Answer("buffered", 0, Stream!Buffered)
    /\ UNCHANGED <<streamVars, tailVars, busy, type, gil, pc, mine, delivered, types>>

-----------------------------------------------------------------------------
(* In token_stream, with the GIL or without *)

InStream(t, op, place) ==
    /\ pc[t] = "lexing"
    /\ op
    /\ Goes(t, place)
    /\ mine' = [mine EXCEPT ![t].to = held']
    /\ answer' = NoAnswer
    /\ UNCHANGED <<tailVars, busy, type, gil, delivered, types>>

Decides(t) == \E k \in (held + 1)..fed : InStream(t, Stream!Take(k), "lexing")

\* A mutation: the claim ends as the stream returns.
ReturnsUnclaimed(t) ==
    /\ pc[t] = "lexing"
    /\ \E k \in held..fed : Stream!Return(k)
    /\ Goes(t, "listing")
    /\ mine' = [mine EXCEPT ![t].to = held']
    /\ busy' = FALSE
    /\ answer' = NoAnswer
    /\ UNCHANGED <<tailVars, type, gil, delivered, types>>

Returns(t) == \E k \in held..fed : InStream(t, Stream!Return(k), "listing")

Fails(t) ==
    \E kind \in {"here", "entry"}, at \in 0..fed, k \in held..fed :
        InStream(t, Stream!Fail(kind, at, k), "failing")

-----------------------------------------------------------------------------
(* The calls, from the stream on *)

\* A mutation: only the text held is kept.
KeptBare == Stream!Buffered

\* keep: what the tail must have.
Kept == Stream!Buffered + Context

\* A mutation: the tail is trimmed whenever it has more than it must.
TrimsAtOnce == tailEnd - tailBase > Kept

\* The tail is only trimmed once it has twice what it must.
Trims == tailEnd - tailBase > 2 * Kept

\* feed trims the tail once its list is made, or could not be; finish does not.
Trim ==
    IF ~finished /\ Trims
    THEN tailBase' = tailEnd - Kept /\ moved' = moved + Kept
    ELSE UNCHANGED <<tailBase, moved>>

\* The end of a call: the claim's destructor gives the stream back.
Ends(t, from, place) ==
    /\ gil = t /\ pc[t] = from
    /\ busy' = FALSE
    /\ Goes(t, place)
    /\ mine' = [mine EXCEPT ![t] = NoTokens]
    /\ UNCHANGED <<streamVars, tailEnd, type, gil, types>>

\* The list of the call's tokens is returned.
List(t) ==
    /\ Ends(t, "listing", "python")
    /\ Trim
    /\ answer' = Answer("tokens", mine[t].from, mine[t].to)
    /\ delivered' = mine[t].to

\* A mutation: a list that could not be made ends the call at once.
ListFailsAtOnce(t) ==
    /\ Ends(t, "listing", "python")
    /\ answer' = Raised("MemoryError")
    /\ delivered' = mine[t].to
    /\ UNCHANGED <<tailBase, moved>>

\* The list could not be made: an allocation of Python's or a lexeme's decoding failed, and its tokens are lost.
\* An exception of C++'s own allocator, which would leave the trim out, is in no action.
ListFails(t) ==
    /\ Ends(t, "listing", "python")
    /\ Trim
    /\ answer' = Raised("MemoryError")
    /\ delivered' = mine[t].to

\* LexError is raised, with the tokens decided before it.
Raise(t) ==
    /\ Ends(t, "failing", "reporting")
    /\ answer' = Answer("LexError", mine[t].from, mine[t].to)
    /\ delivered' = mine[t].to
    /\ UNCHANGED <<tailBase, moved>>

\* Their list could not be made: that error stands, and no window is asked for.
RaiseFails(t) ==
    /\ Ends(t, "failing", "python")
    /\ answer' = Raised("MemoryError")
    /\ delivered' = mine[t].to
    /\ UNCHANGED <<tailBase, moved>>

\* A call after the last raises error, which has no offset: the window the wrapper reads goes unused.
Refuse(t) ==
    /\ Ends(t, "refused", "python")
    /\ answer' = Raised("error")
    /\ UNCHANGED <<tailBase, moved, delivered>>

\* TokenStream._attach: another call, without a claim, reads the window the snippet is cut from.
Report(t) ==
    /\ gil = t /\ pc[t] = "reporting"
    /\ Goes(t, "python")
    /\ answer' = Answer("window", tailBase, tailEnd)
    /\ UNCHANGED <<streamVars, tailVars, busy, type, gil, mine, delivered, types>>

-----------------------------------------------------------------------------
Lexes(t) == Decides(t) \/ Returns(t) \/ Fails(t)

Answers(t) == List(t) \/ ListFails(t) \/ Raise(t) \/ RaiseFails(t) \/ Refuse(t) \/ Report(t)

Begins(t) ==
    \/ \E kind \in {"str", "bytes"} : RefuseType(t, kind)
    \/ RefuseBusy(t)
    \/ \E n \in Pieces, kind \in {"str", "bytes"} : Feed(t, n, kind)
    \/ Finish(t)
    \/ Buffered(t)

Next == \E t \in Threads : Acquire(t) \/ Yield(t) \/ Begins(t) \/ Lexes(t) \/ Answers(t)

\* A thread that lexes runs; the interpreter makes the one that has the GIL let go of it while another
\* waits, and lets each that waits have it; one that has it again and again gets on with its call.
Fairness ==
    \A t \in Threads :
        /\ WF_vars(Lexes(t))
        /\ SF_vars(Acquire(t))
        /\ SF_vars(Yield(t))
        /\ SF_vars(Answers(t))

Safety == Init /\ [][Next]_vars

Spec == Safety /\ Fairness

-----------------------------------------------------------------------------
(* Invariants *)

TypeOK ==
    /\ fed \in 0..MaxText /\ held \in 0..fed
    /\ call \in {"none", "feed", "finish"}
    /\ finished \in BOOLEAN /\ busy \in BOOLEAN
    /\ failure \in [kind : {"none", "here", "entry"}, at : 0..fed]
    /\ type \in {"none", "str", "bytes"} /\ types \subseteq {"str", "bytes"}
    /\ tailEnd \in 0..MaxText /\ tailBase \in 0..tailEnd /\ moved \in Nat
    /\ gil \in Threads \cup {Nobody}
    /\ pc \in [Threads -> Places]
    /\ mine \in [Threads -> [from : Nat, to : Nat]]
    /\ answer \in [kind : AnswerKinds, from : Nat, to : Nat]
    /\ delivered \in Nat

\* The stream is one caller's at a time, and is claimed exactly while it is someone's: however threads
\* meet and whatever way a call ends, no two are in it and none leaves it claimed (stream_claim).
OneCallAtATime ==
    /\ \A t, u \in Threads : pc[t] \in InCall /\ pc[u] \in InCall => t = u
    /\ busy <=> \E t \in Threads : pc[t] \in InCall
    /\ call # "none" <=> \E t \in Threads : pc[t] = "lexing"

\* A token's lexeme views the stream's buffer: from the return of the stream until its list is made,
\* nobody touches the stream (the claim outlives the list), and buffered never reads it during a call.
LexemesStayValid ==
    [][ /\ \A t \in Threads :
              pc[t] \in {"listing", "failing"} /\ pc'[t] = pc[t] => UNCHANGED streamVars
        /\ answer'.kind = "buffered" => \A t \in Threads : pc[t] \notin InCall ]_vars

\* The calls' answers are in the order of the text and leave none of it out, whichever threads made
\* them: a list begins where the last one, or the exception in its place, ended.
TokensInOrder ==
    [][answer'.kind \in {"tokens", "LexError"} => answer'.from = delivered]_vars

\* The tail has the text the stream holds, and Context before it, whenever an error could be at it.
TailCovers ==
    /\ tailBase = 0 \/ tailBase + Context <= held
    /\ tailEnd >= fed

\* The window a LexError's snippet is cut from ends at or past the error, and begins Context before one at the
\* text held, although other threads may have called between the error and the window (stream_window).  Of a
\* mode left open, reported where it was entered, it says nothing but that the window does not end before.
ContextCovered ==
    [][ answer'.kind = "window" =>
            /\ failure.at <= answer'.to
            /\ failure.kind = "here" => answer'.from = 0 \/ answer'.from + Context <= failure.at ]_vars

\* Feeding is linear however long the held token grows: all the trims so far moved no more text than
\* was dropped.
FeedingLinear == moved <= tailBase

\* The tail does not outgrow what the stream holds: between calls it is at most twice what it must be, also
\* after a list that could not be made (stream_feed trims past a null one).
TailBounded ==
    ~finished /\ ~busy => tailEnd - tailBase <= 2 * (Stream!Buffered + Context)

\* The text is of one type, that of its first chunk, whichever threads fed it.
OneType == \A kind \in types : kind = type

-----------------------------------------------------------------------------
(* What they rest on *)

\* Only the calls before the last one move the text on, and only those after it leave a chunk in the
\* tail that the stream did not take.
CallsTracked ==
    /\ ~finished => tailEnd = fed
    /\ fed <= tailEnd
    /\ call = "feed" => ~finished
    /\ call = "finish" => finished
    /\ failure.kind # "none" => finished
    /\ \A t \in Threads : pc[t] \in {"failing", "refused", "reporting"} => finished

\* A call has the tokens from where the last one ended to where the stream stands.
TokensAccounted ==
    /\ ~busy => delivered = held
    /\ \A t \in Threads :
          /\ pc[t] \in InCall => mine[t].to = held
          /\ pc[t] \in {"lexing", "listing", "failing"} => mine[t].from = delivered
          /\ pc[t] = "refused" => delivered = held

\* The tail covers the error still to be shown.
ErrorCovered == failure.kind = "here" => tailBase = 0 \/ tailBase + Context <= failure.at

\* The inductive invariant.
Inductive ==
    /\ TypeOK
    /\ OneCallAtATime
    /\ TailCovers
    /\ FeedingLinear
    /\ TailBounded
    /\ OneType
    /\ CallsTracked
    /\ TokensAccounted
    /\ ErrorCovered

-----------------------------------------------------------------------------
(* Liveness, and what the documents say *)

\* Every call is answered: no thread waits for a claim, and one that lexes gets the GIL back.
CallsAnswered == \A t \in Threads : pc[t] # "python" ~> pc[t] = "python"

\* An error shows the text around its position the way tokenize does, or its position alone: a snippet
\* cut from the window never begins later than tokenize's (the comment of stream_state).
SnippetIsTokenizes ==
    [][ answer'.kind = "window" =>
            \/ answer'.from = 0 \/ answer'.from + Context <= failure.at
            \/ failure.at < answer'.from ]_vars

=============================================================================
