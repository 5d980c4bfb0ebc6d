------------------------------- MODULE Oracle -------------------------------
(***************************************************************************)
(* The checks of the fuzzing harness (fuzz/reference.hpp: check and        *)
(* check_recover) on what a lexer made of a text: that it is what the      *)
(* reference makes of it, that the reference takes every byte once, and    *)
(* that each token is the longest match there is for a rule of its kind.   *)
(*                                                                         *)
(* A second run of the lexer (determinism) and the lazy scan are not asked *)
(* for: a scan is one behaviour here, and its iterator the same one.       *)
(***************************************************************************)
EXTENDS Reference

\* The spans of text the reference takes, the skipped ones too, follow one another and are all of it.
Covers(text, spans) ==
    LET covered[i \in 0..Len(spans)] == IF i = 0 THEN 0 ELSE covered[i - 1] + spans[i].length
    IN  /\ \A i \in DOMAIN spans : spans[i].start = covered[i - 1]
        /\ covered[Len(spans)] = Len(text)

\* A rule of the token's kind matches the token, and none active there more: or the longest match is one
\* of its kind that was extended below its line.
Munched(text, token, previous) ==
    LET matches == { m \in MatchesHere(token.mode, previous, text, token.start.offset) : m[2] > 0 }
        longest == Max({0} \cup { m[2] : m \in matches })
        length  == Len(token.lexeme)
        OfKind  == { m \in matches : rules[m[1]].kind = token.kind }
    IN  \/ longest = length /\ \E m \in OfKind : m[2] = length
        \/ longest < length /\ \E m \in OfKind : m[2] = longest /\ rules[m[1]].extend # "none"

\* check, and check_recover for a lexer that recovers: the first check that a lexer's tokens fail beside
\* the reference's scan, or "ok"; failed is where it threw, or Nowhere.  When both throw at one place there
\* is nothing more to check.
Check(scan, text, recovers, tokens, failed) ==
    CASE (scan.failed = Nowhere) # (failed = Nowhere)             -> "equivalence"
      [] scan.failed # failed                                     -> "error position"
      [] failed >= Len(text) /\ failed # Nowhere /\ ~recovers     -> "out of bounds"
      [] failed = Nowhere /\ scan.tokens # tokens                 -> "divergence"
      [] failed = Nowhere /\ ~Covers(text, scan.spans)            -> "coverage"
      [] /\ failed = Nowhere /\ ~recovers
         /\ \E i \in DOMAIN tokens :
               ~Munched(text, tokens[i], IF i = 1 THEN EndOfInput ELSE tokens[i - 1].kind) -> "munch"
      [] OTHER                                                    -> "ok"

=============================================================================
