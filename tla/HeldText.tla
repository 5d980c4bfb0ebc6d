------------------------------ MODULE HeldText -------------------------------
(***************************************************************************)
(* What a caller of scilex::token_stream sees of it, whatever the rules:   *)
(* of the text it was fed, the stream holds the end. A call moves the      *)
(* place where the held text begins forward, over the tokens it decides,   *)
(* and returns, or fails at a position in the text.                        *)
(***************************************************************************)
EXTENDS Integers

VARIABLES
    fed,        \* How much text the stream was fed.
    held,       \* Where the text it holds begins.
    call,       \* The call under way: "feed", "finish" or "none".
    finished,   \* finished_: finish was called, or an error ended the text.
    failure     \* The error, or NoFailure.

vars == <<fed, held, call, finished, failure>>

\* An error is at the text being lexed ("here"), or names where a mode still open was entered ("entry").
NoFailure == [kind |-> "none", at |-> 0]

Failed(kind, at) == [kind |-> kind, at |-> at]

Init ==
    /\ fed = 0 /\ held = 0
    /\ call = "none"
    /\ finished = FALSE
    /\ failure = NoFailure

\* feed(chunk), with a chunk of n characters.
Feed(n) ==
    /\ call = "none" /\ ~finished
    /\ fed' = fed + n
    /\ call' = "feed"
    /\ UNCHANGED <<held, finished, failure>>

\* finish().
Finish ==
    /\ call = "none" /\ ~finished
    /\ call' = "finish"
    /\ finished' = TRUE
    /\ UNCHANGED <<fed, held, failure>>

\* A token is decided.
Take(k) ==
    /\ call # "none"
    /\ k \in (held + 1)..fed
    /\ held' = k
    /\ UNCHANGED <<fed, call, finished, failure>>

\* The call returns. The last one may have gone over skip matches at the end of the text.
Return(k) ==
    /\ call # "none"
    /\ k \in held..fed
    /\ k = held \/ call = "finish"
    /\ held' = k
    /\ call' = "none"
    /\ UNCHANGED <<fed, finished, failure>>

\* A lex_error. Skip matches before it are not taken back.
Fail(kind, at, k) ==
    /\ call # "none"
    /\ k \in held..fed
    /\ \/ kind = "here" /\ at \in held..k
       \/ kind = "entry" /\ call = "finish" /\ at \in 0..k
    /\ held' = k
    /\ failure' = Failed(kind, at)
    /\ call' = "none"
    /\ finished' = TRUE
    /\ UNCHANGED fed

Next ==
    \/ fed' >= fed /\ Feed(fed' - fed)
    \/ Finish
    \/ \E k \in (held + 1)..fed : Take(k)
    \/ \E k \in held..fed : Return(k)
    \/ \E kind \in {"here", "entry"}, at \in 0..fed, k \in held..fed : Fail(kind, at, k)

Spec == Init /\ [][Next]_vars

\* buffered(): what the stream holds.
Buffered == fed - held

=============================================================================
