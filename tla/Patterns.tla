------------------------------ MODULE Patterns ------------------------------
(***************************************************************************)
(* What SciLex asks of the regular-expression engine under it (the REAL    *)
(* library, which is not part of the repository): real::regex::match,      *)
(* can_extend, left_context, may_start_with, has_first_byte_set, and       *)
(* real::dfa over a set of patterns.  Everything here is external: it is   *)
(* modelled from the calls lexer.hpp makes and what lexer.hpp says of the  *)
(* answers.                                                                *)
(*                                                                         *)
(* A pattern is a list of alternatives in priority order, each written     *)
(* head loop* tail with head and tail sequences of character sets and loop *)
(* one character set, plus the set of what may stand before the match      *)
(* (empty when the pattern does not look).                                 *)
(* That is enough for what a lexer meets: keywords, identifiers, a greedy  *)
(* a[^z]*z whose match arrives late, as|assert (its match is not its       *)
(* longest), lazy delimiters, nullable rules, ^ and lookbehinds.           *)
(***************************************************************************)
EXTENDS Integers, Sequences, FiniteSets, FiniteSetsExt, SequencesExt

CONSTANTS
    Char,           \* The characters texts are made of.
    FidelityDepth   \* Texts up to this length decide which patterns a DFA reproduces.

ASSUME FidelityAssumption == FidelityDepth \in Nat

\* What stands before the first character of a text.
Start == "start of text"

Alternative == [head : Seq(SUBSET Char), loop : SUBSET Char, tail : Seq(SUBSET Char), lazy : BOOLEAN]

Pattern == [alts : Seq(Alternative), behind : SUBSET (Char \cup {Start})]

\* A match that does not exist; a match of no characters has length 0.
NoMatch == -1

\* The items spelled by text from offset at on, one set of characters each.
Spells(items, text, at) ==
    /\ at + Len(items) <= Len(text)
    /\ \A i \in 1..Len(items) : text[at + i] \in items[i]

\* The lengths at which alternative alt matches text at offset at.
Lengths(alt, text, at) ==
    { n \in (Len(alt.head) + Len(alt.tail))..(Len(text) - at) :
        /\ Spells(alt.head, text, at)
        /\ Spells(alt.tail, text, at + n - Len(alt.tail))
        /\ \A i \in (Len(alt.head) + 1)..(n - Len(alt.tail)) : text[at + i] \in alt.loop }

\* Whether what stands before offset at is what the pattern asks for (^, \A, a lookbehind).
Admits(pattern, text, at) ==
    pattern.behind = {} \/ (IF at = 0 THEN Start ELSE text[at]) \in pattern.behind

\* The alternatives that match, by index.
Matching(pattern, text, at) ==
    { i \in DOMAIN pattern.alts : Lengths(pattern.alts[i], text, at) # {} }

\* regex::match: the first alternative that matches decides, taking as much as it can, or as
\* little when it is lazy.
MatchLength(pattern, text, at) ==
    LET matching == Matching(pattern, text, at)
    IN  IF matching = {} \/ ~Admits(pattern, text, at)
        THEN NoMatch
        ELSE LET alt == pattern.alts[Min(matching)]
                 lengths == Lengths(alt, text, at)
             IN  IF alt.lazy THEN Min(lengths) ELSE Max(lengths)

\* The longest match whatever the order of the alternatives: what a DFA computes.
LongestLength(pattern, text, at) ==
    Max({NoMatch} \cup UNION { Lengths(pattern.alts[i], text, at) : i \in DOMAIN pattern.alts })

\* Whether the rest of text, from offset at, is a proper prefix of a word of alternative alt.
Alive(alt, text, at) ==
    LET rest == Len(text) - at
        h    == Len(alt.head)
    IN  \/ /\ rest < h
           /\ Spells(SubSeq(alt.head, 1, rest), text, at)
        \/ \E k \in 0..Len(alt.tail) :     \* characters of the tail already there
              /\ h + k <= rest
              /\ k < Len(alt.tail) \/ (alt.tail = <<>> /\ alt.loop # {})
              /\ Spells(alt.head, text, at)
              /\ Spells(SubSeq(alt.tail, 1, k), text, at + rest - k)
              /\ \A i \in (h + 1)..(rest - k) : text[at + i] \in alt.loop

\* regex::can_extend: some text to come would change what match answers at offset at.
CanExtend(pattern, text, at) ==
    LET winner == Min(Matching(pattern, text, at) \cup {Len(pattern.alts) + 1})
    IN  /\ Admits(pattern, text, at)
        /\ \E i \in DOMAIN pattern.alts :
              /\ Alive(pattern.alts[i], text, at)
              /\ i < winner \/ (i = winner /\ ~pattern.alts[i].lazy)

\* has_first_byte_set() is false for a pattern that matches the empty string.
Nullable(pattern) ==
    \E i \in DOMAIN pattern.alts : pattern.alts[i].head = <<>> /\ pattern.alts[i].tail = <<>>

\* may_start_with, for a pattern that is not nullable.
FirstChars(pattern) ==
    UNION { LET alt == pattern.alts[i]
            IN  IF alt.head # <<>> THEN alt.head[1] ELSE alt.loop \cup alt.tail[1] :
            i \in DOMAIN pattern.alts }

\* left_context(): the characters before the match a pattern may read.
LeftContext(pattern) ==
    IF pattern.behind = {} THEN 0 ELSE 1

\* dfa_faithful: match is the longest match on every text.
Faithful(pattern) ==
    LET free == [pattern EXCEPT !.behind = {}]
    IN  \A n \in 0..FidelityDepth : \A text \in [1..n -> Char] :
            MatchLength(free, text, 0) = LongestLength(free, text, 0)

=============================================================================
