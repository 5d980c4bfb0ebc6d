--------------------------- MODULE TokenIterator ----------------------------
(***************************************************************************)
(* scilex::token_iterator: a scan over a whole text, a token at a time.    *)
(* The iterator carries the state of the scan that tokenize keeps in local *)
(* variables, and a caller that catches what an increment throws may       *)
(* increment again: what a throwing scan_next leaves behind matters here.  *)
(*                                                                         *)
(* Lexer's tokens are the ones the iterator has shown, the current one     *)
(* last; its outcome is what the last increment to throw threw, until the  *)
(* end of the text is reached.                                             *)
(***************************************************************************)
EXTENDS Lexer

VARIABLES
    phase,      \* "new", "live" once constructed, "done" (done_), or "lost": its constructor threw.
    eofDone,    \* eof_done_: the end-of-input token has been shown.
    wentOn      \* Whether it was incremented after an increment that threw; no part of the program.

iteratorVars == <<vars, phase, eofDone, wentOn>>

Failures == {"no_rule", "bad_transition", "unterminated", "zero_length"}

IteratorInit ==
    /\ Init
    /\ phase = "new"
    /\ eofDone = FALSE
    /\ wentOn = FALSE

-----------------------------------------------------------------------------
(* What scan_next and then advance do, by the turn reached past the skip matches *)

\* scan_next gives a token, or the end-of-input token is due.
Shows(turn) ==
    \/ /\ Emit(turn) \/ EmitErrorRun(turn) \/ EmitUnterminated(turn)
       /\ eofDone' = eofDone
    \/ /\ EofPolicy = "append" /\ ~eofDone
       /\ End(turn)
       /\ eofDone' = TRUE

Throws(turn) ==
    /\ NoRule(turn) \/ BadTransition(turn) \/ Unterminated(turn) \/ ZeroLength(turn)
    /\ eofDone' = eofDone

\* The text is exhausted, and its end has been shown if it is to be.
Exhausts(turn) ==
    /\ turn.meets = "end" /\ Len(turn.at.stack) = 1
    /\ EofPolicy = "append" => eofDone
    /\ cursor' = turn.at.cursor
    /\ stack' = turn.at.stack
    /\ outcome' = Ended("end", turn.at.cursor, Mode(turn.at))
    /\ UNCHANGED <<rules, text, previous, indents, tokens, eofDone>>

\* The constructor advances to the first token.  When that throws there is no iterator.
Construct ==
    /\ phase = "new"
    /\ \E turn \in {Reached} :
           \/ Shows(turn) /\ phase' = "live"
           \/ Throws(turn) /\ phase' = "lost"
           \/ Exhausts(turn) /\ phase' = "done"
    /\ wentOn' = wentOn

\* operator++, also after one that threw.
Increment ==
    /\ phase = "live"
    /\ \E turn \in {Reached} :
           \/ (Shows(turn) \/ Throws(turn)) /\ phase' = "live"
           \/ Exhausts(turn) /\ phase' = "done"
    /\ wentOn' = (wentOn \/ outcome.kind \in Failures)

IteratorNext == Construct \/ Increment

IteratorSpec == IteratorInit /\ [][IteratorNext]_iteratorVars

-----------------------------------------------------------------------------
(* Properties *)

\* The cursor of the iterator when it showed a token: operator== compares these.
StoodAt(i) == tokens[i].start.offset + Len(tokens[i].lexeme)

\* Lexed lazily, a text has the tokens of its reference too, and the error of its reference after them,
\* whoever drives the iterator; unless it is driven past an error.
IteratesAsReference == wentOn \/ LexesAsReference

\* Two live iterators over a text are equal when their cursors are.  A copy left behind is then equal to
\* the iterator only where what the iterator went over since is empty: at the end of the text, an
\* unterminated mode's token or the end-of-input token.
EqualOnlyAtTheEnd ==
    \A j \in DOMAIN tokens : \A i \in 1..(j - 1) :
        StoodAt(i) = StoodAt(j) => StoodAt(j) = Len(text) /\ tokens[j].lexeme = <<>>

\* An increment after one that threw throws the same again, at the same place, and shows nothing new:
\* what comes after is not lexed with what stands there left out.  Only a refused transition is gone
\* past: the next token begins after it.
ThrowsAgain ==
    [][ /\ outcome.kind \in {"no_rule", "zero_length", "unterminated"}
           => outcome' = outcome /\ tokens' = tokens
        /\ outcome.kind = "bad_transition" /\ tokens' # tokens
           => Last(tokens').start.offset > outcome.where.offset ]_iteratorVars

=============================================================================
