----------------------------- MODULE PythonScan -----------------------------
(***************************************************************************)
(* scilex.Lexer.scan of the Python binding: a generator over a scan cursor *)
(* (scan_start, scan_next), a token_iterator with a flag that puts off its *)
(* increment to the call after the token it stands on was returned, so     *)
(* that an error comes after every token before it.  The GIL is held by    *)
(* each call; a generator runs one next() at a time.                       *)
(*                                                                         *)
(* Building the Python object of a token may run out of memory.            *)
(***************************************************************************)
EXTENDS TokenIterator

VARIABLES
    generator,      \* "new" until the first next(), "open", or how it ended: "end", "error", "memory".
    needsAdvance,   \* scan_state::needs_advance.
    given           \* The tokens the generator has yielded.

pythonVars == <<iteratorVars, generator, needsAdvance, given>>

PythonInit ==
    /\ IteratorInit
    /\ generator = "new"
    /\ needsAdvance = FALSE
    /\ given = <<>>

\* scan_start: the iterator is constructed when the generator is first asked, and may throw.
StartScan ==
    /\ generator = "new"
    /\ Construct
    /\ generator' = IF phase' = "lost" THEN "error" ELSE "open"
    /\ UNCHANGED <<needsAdvance, given>>

\* A mutation: the increment is not put off to the next call.
YieldsAgain(token) ==
    /\ needsAdvance' = FALSE
    /\ \/ given' = Append(given, token) /\ generator' = generator
       \/ given' = given /\ generator' = "memory"

\* The end of scan_next: the token the iterator stands on, or no memory to build it.
Yields(token) ==
    /\ needsAdvance' = TRUE
    /\ \/ given' = Append(given, token) /\ generator' = generator
       \/ given' = given /\ generator' = "memory"

\* scan_next on the token the constructor advanced to.
YieldFirst ==
    /\ generator = "open" /\ phase = "live" /\ ~needsAdvance
    /\ Yields(Last(tokens))
    /\ UNCHANGED iteratorVars

\* scan_next on the token after the one returned last.
YieldNext ==
    /\ generator = "open" /\ phase = "live" /\ needsAdvance
    /\ \E turn \in {Reached} : Shows(turn)
    /\ phase' = "live" /\ wentOn' = wentOn
    /\ Yields(Last(tokens'))

\* The increment throws: the cursor is exhausted and the error raised, which closes the generator.
Raise ==
    /\ generator = "open" /\ phase = "live" /\ needsAdvance
    /\ \E turn \in {Reached} : Throws(turn)
    /\ phase' = "done" /\ wentOn' = wentOn
    /\ generator' = "error"
    /\ UNCHANGED <<needsAdvance, given>>

\* The increment exhausts the iterator: None, and the generator returns.
Return ==
    /\ generator = "open" /\ phase = "live" /\ needsAdvance
    /\ \E turn \in {Reached} : Exhausts(turn)
    /\ phase' = "done" /\ wentOn' = wentOn
    /\ generator' = "end"
    /\ UNCHANGED <<needsAdvance, given>>

\* scan_next on an exhausted cursor.
ReturnAtOnce ==
    /\ generator = "open" /\ phase = "done"
    /\ generator' = "end"
    /\ UNCHANGED <<iteratorVars, needsAdvance, given>>

PythonNext == StartScan \/ YieldFirst \/ YieldNext \/ Raise \/ Return \/ ReturnAtOnce

PythonSpec == PythonInit /\ [][PythonNext]_pythonVars

-----------------------------------------------------------------------------
(* Properties *)

\* The tokens yielded are the ones the iterator has shown, all of them but perhaps the one it stands on;
\* all of them when the error is raised.
GivenInOrder ==
    /\ generator # "new" => IsPrefix(given, tokens) /\ Len(tokens) <= Len(given) + 1
    /\ generator \in {"error", "end"} => given = tokens
    /\ generator = "open" /\ needsAdvance => given = tokens

=============================================================================
