----------------------------- MODULE Reference ------------------------------
(***************************************************************************)
(* The reference lexer of the fuzzing harness (fuzz/reference.hpp): what   *)
(* the tokens of a text are, rule by rule, with none of the machinery that *)
(* makes scilex::lexer fast.  No unit, dispatch, DFA or gate: at each      *)
(* place every rule that is active there is matched, the longest match     *)
(* wins, the earliest rule of several.  Columns come from one walk over    *)
(* the text from its beginning, where the lexer looks back from each byte. *)
(*                                                                         *)
(* As in the harness the mode transitions and the extension of a match     *)
(* below its line are the lexer's own pieces, shared with it.  A text's    *)
(* tokens are a function of the text: Lexer and the iterators over it are  *)
(* checked against it.                                                     *)
(***************************************************************************)
EXTENDS Scanner

\* No error.
Nowhere == -1

\* rule_active_in.
RuleActiveIn(rule, mode) == IF rule.modes = {} THEN mode = Default ELSE mode \in rule.modes

\* predicate_allows.
PredicateAllows(rule, previous, text, at) ==
    /\ rule.lineStart # "any" => (rule.lineStart = "start") = LineStartsAt(text, at)
    /\ IF rule.after # {} THEN previous \in rule.after ELSE previous \notin rule.notAfter

\* column_weights: a walk from the first byte, a code point at a time, a malformed byte alone; what a
\* code point's lead is worth, and nothing for the rest of it.
ColumnWeights(text) ==
    LET steps(o)  == Max({1, ValidLength(text, o)})
        visits[o \in 0..Len(text)] ==
            o = 0 \/ \E back \in 1..Min({4, o}) : visits[o - back] /\ steps(o - back) = back
    IN  [ o \in 0..(Len(text) - 1) |->
            CASE Columns = "bytes" -> 1
              [] Columns # "bytes" /\ ~visits[o] -> 0
              [] OTHER -> IF Columns = "utf16" /\ ValidLength(text, o) = 4 THEN 2 ELSE 1 ]

\* The position n bytes past pos.
Walked(text, weights, pos, n) ==
    LET passed == pos.offset..(pos.offset + n - 1)
        breaks == { o \in passed : text[o + 1] = NewLine }
    IN  [ offset |-> pos.offset + n,
          line   |-> pos.line + Cardinality(breaks),
          column |-> (IF breaks = {} THEN pos.column ELSE 1)
                     + MapThenSumSet(LAMBDA o : weights[o],
                                     { o \in passed : \A b \in breaks : b < o }) ]

-----------------------------------------------------------------------------
(* A scan: a cursor, a mode stack, the kind before, the open blocks, the tokens, where it failed, and the *)
(* spans it took, those of skip rules too (emit_skipped)                                                  *)

Scanning == [ cursor |-> Beginning, stack |-> RootStack(Beginning), previous |-> EndOfInput,
              indents |-> NoBlocks, tokens |-> <<>>, failed |-> Nowhere, spans |-> <<>> ]

\* The matches at offset at in a mode, one rule at a time.
MatchesHere(mode, previous, text, at) ==
    { m \in { <<i, MatchLength(rules[i].pattern, text, at)>> :
                i \in { r \in RuleIds : /\ RuleActiveIn(rules[r], mode)
                                        /\ PredicateAllows(rules[r], previous, text, at) } } :
        m[2] # NoMatch }

\* reference_matches_here: some rule matches something.
SomeMatch(mode, previous, text, at) == \E m \in MatchesHere(mode, previous, text, at) : m[2] > 0

Spans(scan, length) == Append(scan.spans, [start |-> scan.cursor.offset, length |-> length])

\* The token of a scan up to a position.
Spanned(text, scan, kind, end) ==
    Append(scan.tokens, [ kind |-> kind, lexeme |-> SubSeq(text, scan.cursor.offset + 1, end.offset),
                          start |-> scan.cursor, mode |-> Last(scan.stack).mode ])

\* No rule matches: the run of such bytes becomes a token when the scan recovers.
Recovered(text, weights, scan) ==
    LET start == scan.cursor.offset
        stop  == Min({Len(text)} \cup
                     { at \in (start + 1)..(Len(text) - 1) :
                         SomeMatch(Last(scan.stack).mode, scan.previous, text, at) })
        end   == Walked(text, weights, scan.cursor, stop - start)
    IN  [scan EXCEPT !.cursor = end, !.previous = ErrorKind, !.tokens = Spanned(text, scan, ErrorKind, end),
                     !.spans = Spans(scan, stop - start)]

\* Rule won, with a match that its extension makes length.  A transition that is refused loses its token.
Taken(text, weights, scan, won, length) ==
    LET mode == Last(scan.stack).mode
        end  == Walked(text, weights, scan.cursor, length)
    IN  [ cursor   |-> end,
          stack    |-> IF Refused(won, scan.stack) THEN scan.stack
                       ELSE Transition(won, scan.cursor, scan.stack),
          previous |-> IF won.skip THEN scan.previous ELSE won.kind,
          indents  |-> Indented(won, mode, scan.cursor, scan.indents),
          tokens   |-> IF won.skip \/ Refused(won, scan.stack) THEN scan.tokens ELSE Spanned(text, scan, won.kind, end),
          failed   |-> IF Refused(won, scan.stack) THEN scan.cursor.offset ELSE Nowhere,
          spans    |-> Spans(scan, length) ]

\* A turn of the loop of reference_tokenize and reference_tokenize_recover.  The first takes an empty
\* match for none, and fails at the same place.
ReferenceTurn(text, weights, recovers, scan) ==
    LET mode    == Last(scan.stack).mode
        matches == MatchesHere(mode, scan.previous, text, scan.cursor.offset)
        best    == Winner({ m \in matches : m[2] > 0 })
        won     == rules[best.idx]
    IN  IF best.have
        THEN Taken(text, weights, scan, won,
                   Extended(won, mode, text, scan.cursor, best.len, scan.indents, TRUE))
        ELSE IF recovers /\ matches = {} THEN Recovered(text, weights, scan)
        ELSE [scan EXCEPT !.failed = scan.cursor.offset]

\* The end of the text inside a pushed mode.
ReferenceEnd(text, recovers, scan) ==
    IF scan.failed # Nowhere \/ Len(scan.stack) = 1 THEN scan
    ELSE IF recovers
    THEN [scan EXCEPT !.tokens = Spanned(text, scan, ErrorKind, scan.cursor)]
    ELSE [scan EXCEPT !.failed = Last(scan.stack).entry.offset]

\* reference_tokenize, and reference_tokenize_recover when it recovers: the scan once it is over.  Each
\* turn takes at least one character.
ReferenceScan(text, recovers) ==
    LET weights == ColumnWeights(text)
        after[turns \in 0..Len(text)] ==
            IF turns = 0 THEN Scanning
            ELSE LET scan == after[turns - 1]
                 IN  IF scan.failed # Nowhere \/ scan.cursor.offset = Len(text)
                     THEN scan
                     ELSE ReferenceTurn(text, weights, recovers, scan)
    IN  ReferenceEnd(text, recovers, after[Len(text)])

=============================================================================
