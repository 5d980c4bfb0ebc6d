------------------------------ MODULE Scanner -------------------------------
(***************************************************************************)
(* The parts of scilex::lexer that a scan over a whole text and a stream   *)
(* share: the rules of a grammar, the units a mode is split into, the      *)
(* first-character dispatch, the munch (a DFA for the rules it reproduces, *)
(* the rules left on Pike beside it), the indentation, mode transitions    *)
(* and the advance of a position.  Its only variable is the grammar, which *)
(* no step changes: Lexer and TokenStream are the machines built on it.    *)
(*                                                                         *)
(* An operator introduced as a mutation is the definition after it with a  *)
(* mistake in it: the properties tell the two apart.                       *)
(*                                                                         *)
(* Offsets count from 0 as in the code: the character at offset o of text  *)
(* is text[o + 1].                                                         *)
(***************************************************************************)
EXTENDS Indentation

CONSTANTS
    Grammars,   \* The rule lists a lexer is built from: sequences of the records described below.
    ErrorPolicy,\* errors_: "raise" or "token".
    DfaModes,   \* The modes tried for a DFA (every mode under dfa_policy::automatic).
    MaxDepth,   \* max_mode_depth.
    Columns,    \* columns_: "bytes", "codepoints" or "utf16".
    Announces,  \* By character: the bytes of the code point it leads, 0 for a continuation.
    Malformed,  \* The leads no code point begins with (an overlong one, one out of range).
    Insignificant   \* insignificant_modes: the modes that take no part in the indentation.

VARIABLE
    rules       \* rules_: the ordered rules, one of Grammars, fixed when the lexer is built.

(***************************************************************************)
(* A rule: kind; pattern; faithful, what real::dfa_faithful decides of it; *)
(* skip; modes, the modes it is active in (empty: the default mode only);  *)
(* op, its mode action ("none" for no action), and target; after and       *)
(* notAfter, sets of previous kinds; lineStart, "any" or the only place it *)
(* is active at; indent, its role in the indentation, extend, how it       *)
(* extends below its line, and continuation, what it continues with (its   *)
(* own pattern unless it has one for that).                                *)
(***************************************************************************)
Rule ==
    [ kind : STRING, pattern : Pattern, faithful : BOOLEAN, skip : BOOLEAN, modes : SUBSET STRING,
      op : {"none", "push", "pop", "set"}, target : STRING, after : SUBSET STRING,
      notAfter : SUBSET STRING, lineStart : {"any", "start", "inside"},
      indent : {"none", "entry", "key", "value", "reset"}, extend : {"none", "block", "lines"},
      continuation : Pattern ]

Default     == "default"
EndOfInput  == "end_of_input"
ErrorKind   == "error"
RuleIds     == DOMAIN rules

\* The rules active in a mode (rule_active_in_mode).
ModeRules(mode) ==
    { i \in RuleIds : mode \in (IF rules[i].modes = {} THEN {Default} ELSE rules[i].modes) }

Targets(rule) == IF rule.op \in {"push", "set"} THEN {rule.target} ELSE {}

ModeNames == {Default} \cup UNION { rules[i].modes \cup Targets(rules[i]) : i \in RuleIds }

\* takes_part, in a mode of the indentation.
TakesPart(rule, mode) ==
    mode \notin Insignificant /\ (rule.indent # "none" \/ rule.extend # "none")

\* What the constructor demands of its rules (validate_kinds, validate_transitions, build_units), and
\* what it finds out about them (faithful).
WellFormed(grammar) ==
    /\ grammar \in Seq(Rule)
    /\ \A i \in DOMAIN grammar :
          /\ grammar[i].faithful = Faithful(grammar[i].pattern)
          /\ grammar[i].kind \notin {EndOfInput, ErrorKind}
          /\ grammar[i].skip => grammar[i].indent = "none" /\ grammar[i].extend = "none"
          /\ grammar[i].after = {} \/ grammar[i].notAfter = {}
          /\ \A m \in Targets(grammar[i]) :
                \E k \in DOMAIN grammar : m \in grammar[k].modes \/ (m = Default /\ grammar[k].modes = {})

ASSUME ScannerAssumption ==
    /\ ErrorPolicy \in {"raise", "token"}
    /\ Columns \in {"bytes", "codepoints", "utf16"}
    /\ MaxDepth \in Nat \ {0}
    /\ Announces \in [Char -> 0..4]
    /\ Malformed \subseteq Char
    /\ \A grammar \in Grammars : WellFormed(grammar)

-----------------------------------------------------------------------------
(* Positions *)

Beginning == [offset |-> 0, line |-> 1, column |-> 1]

\* valid_utf8_len; sequences of the right shape are taken as valid.
ValidLength(text, at) ==
    LET n == Announces[text[at + 1]]
    IN  IF /\ text[at + 1] \notin Malformed
           /\ at + n <= Len(text)
           /\ \A i \in 1..(n - 1) : Announces[text[at + 1 + i]] = 0
        THEN n
        ELSE 0

\* A mutation: a continuation never moves the column, one that is part of no code point included.
ContinuationsFree(text, at) ==
    CASE Columns = "bytes" -> 1
      [] Columns # "bytes" /\ Announces[text[at + 1]] = 0 -> 0
      [] OTHER -> IF Columns = "utf16" /\ ValidLength(text, at) = 4 THEN 2 ELSE 1

\* column_step: how far the column moves over the character at offset at.
ColumnStep(text, at) ==
    IF Columns = "bytes"
    THEN 1
    ELSE IF Announces[text[at + 1]] = 0
    THEN IF \E back \in 1..Min({3, at}) : ValidLength(text, at - back) > back THEN 0 ELSE 1
    ELSE IF Columns = "utf16" /\ ValidLength(text, at) = 4 THEN 2 ELSE 1

\* advance: the position n characters past pos.  Each line break starts a line; the column counts
\* from the last one, a character of two units twice.
Advance(text, pos, n) ==
    LET passed == pos.offset..(pos.offset + n - 1)
        breaks == { o \in passed : text[o + 1] = NewLine }
        onLine == { o \in passed : \A b \in breaks : b < o }
    IN  [ offset |-> pos.offset + n,
          line   |-> pos.line + Cardinality(breaks),
          column |-> (IF breaks = {} THEN pos.column ELSE 1)
                     + Cardinality({ o \in onLine : ColumnStep(text, o) >= 1 })
                     + Cardinality({ o \in onLine : ColumnStep(text, o) = 2 }) ]

-----------------------------------------------------------------------------
(* Units and dispatch *)

\* Whether rule i is active after a token of kind previous, at the start of a line or past it.
Allowed(i, previous, lineStart) ==
    /\ rules[i].lineStart \in {"any", IF lineStart THEN "start" ELSE "inside"}
    /\ rules[i].after # {} => previous \in rules[i].after
    /\ previous \notin rules[i].notAfter

\* unit_of: the unit that munches here, named by its mode and its rules (two units of a mode
\* never have the same rules).
UnitOf(mode, previous, text, at) ==
    [ mode  |-> mode,
      rules |-> { i \in ModeRules(mode) : Allowed(i, previous, LineStartsAt(text, at)) } ]

\* A mutation: every rule goes on the DFA, whether it reproduces it or not.
AllOnDfa(unit) == { i \in unit.rules : unit.mode \in DfaModes }

\* The rules of a unit its DFA takes: match is their longest match and reads nothing before it.
OnDfa(unit) ==
    { i \in unit.rules :
        /\ unit.mode \in DfaModes
        /\ rules[i].faithful
        /\ LeftContext(rules[i].pattern) = 0 }

OnPike(unit) == unit.rules \ OnDfa(unit)

\* The rules filed under a first character, and the ones tried everywhere.
Bucket(unit, c) == { i \in unit.rules : ~Nullable(rules[i].pattern) /\ c \in FirstChars(rules[i].pattern) }

General(unit) == { i \in unit.rules : Nullable(rules[i].pattern) }

\* The rules the dispatch asks at offset at.
Candidates(unit, text, at) == Bucket(unit, text[at + 1]) \cup General(unit)

MayStart(unit, c) == Bucket(unit, c) # {} \/ General(unit) # {}

-----------------------------------------------------------------------------
(* The munch *)

NoMunch == [have |-> FALSE, idx |-> 0, len |-> 0]

\* The longest of some matches, the earliest rule of those: each match is <<rule, length>>.
Winner(matches) ==
    IF matches = {}
    THEN NoMunch
    ELSE LET longest == Max({ m[2] : m \in matches })
         IN  [have |-> TRUE, idx |-> Min({ m[1] : m \in { w \in matches : w[2] = longest } }),
              len |-> longest]

\* dfa_munch and munch_of: the longest non-empty match, else the empty match of a nullable rule.
DfaMunch(unit, text, at) ==
    LET words   == { m \in { <<i, LongestLength(rules[i].pattern, text, at)>> : i \in OnDfa(unit) } :
                        m[2] > 0 }
        empties == { <<i, 0>> : i \in { j \in OnDfa(unit) : Nullable(rules[j].pattern) } }
    IN  IF words # {} THEN Winner(words) ELSE Winner(empties)

\* pike_munch_in_mode over the rules the DFA does not answer for.
PikeMunch(unit, text, at) ==
    Winner({ m \in { <<i, MatchLength(rules[i].pattern, text, at)>> :
                        i \in Candidates(unit, text, at) \cap OnPike(unit) } : m[2] # NoMatch })

\* munch_at: the DFA's share merged with the rest.
MunchAt(unit, text, at) ==
    Winner({ <<m.idx, m.len>> :
                m \in { w \in {DfaMunch(unit, text, at), PikeMunch(unit, text, at)} : w.have } })

\* munch_result::open: the DFA was alive at the end of the text.
Open(unit, text, at) ==
    \E i \in OnDfa(unit) : \E k \in DOMAIN rules[i].pattern.alts :
        Alive(rules[i].pattern.alts[k], text, at)

\* gate::ready while more text may come: no rule on Pike could answer otherwise.
Ready(unit, text, at) ==
    \A i \in Candidates(unit, text, at) \cap OnPike(unit) : ~CanExtend(rules[i].pattern, text, at)

\* left_context_: the characters before a token any rule may read.
ContextKept ==
    Max({0} \cup { LeftContext(rules[i].pattern) : i \in RuleIds }
            \cup { IF rules[i].lineStart = "any" THEN 0 ELSE 1 : i \in RuleIds })

-----------------------------------------------------------------------------
(* Indentation *)

\* A mutation: how far a match extends is decided on the lines that have come.
ExtendedAtOnce(rule, mode, text, start, length, indents, final) ==
    LET end       == start.offset + length
        reference == IndentReference(rule.indent, start, indents)
    IN  IF ~TakesPart(rule, mode) \/ rule.extend = "none" THEN length
        ELSE (IF rule.extend = "block"
              THEN BlockExtent(text, end, SubSeq(text, start.offset + 1, end), reference, TRUE)
              ELSE LinesExtent(text, end, rule.continuation, reference, TRUE)) - start.offset

\* How far an extent reaches past a start.
Reach(extent, start) == IF extent = Undecided THEN Undecided ELSE extent - start.offset

\* The length of a match of a rule once it is extended below its line, or Undecided.
Extended(rule, mode, text, start, length, indents, final) ==
    LET end       == start.offset + length
        reference == IndentReference(rule.indent, start, indents)
    IN  IF ~TakesPart(rule, mode) \/ rule.extend = "none" THEN length
        ELSE Reach(IF rule.extend = "block"
                   THEN BlockExtent(text, end, SubSeq(text, start.offset + 1, end), reference, final)
                   ELSE LinesExtent(text, end, rule.continuation, reference, final), start)

\* The open blocks past a token of a rule at start.
Indented(rule, mode, start, indents) ==
    IF TakesPart(rule, mode) THEN ApplyIndent(rule.indent, start, indents) ELSE indents

-----------------------------------------------------------------------------
(* Modes *)

RootStack(pos) == << [mode |-> Default, entry |-> pos] >>

\* A mutation: the mode stack is not bounded.
RefusedAtRoot(rule, stack) == rule.op = "pop" /\ Len(stack) = 1

\* The transitions apply_transition refuses: a push past the bound, a pop of the root.
Refused(rule, stack) ==
    \/ rule.op = "push" /\ Len(stack) >= MaxDepth
    \/ rule.op = "pop" /\ Len(stack) = 1

\* A mutation: set moves the entry of the mode it replaces.
EntryMoved(rule, start, stack) ==
    CASE rule.op = "push" -> Append(stack, [mode |-> rule.target, entry |-> start])
      [] rule.op = "pop"  -> Front(stack)
      [] rule.op = "set"  -> Append(Front(stack), [mode |-> rule.target, entry |-> start])
      [] OTHER            -> stack

\* apply_transition for a rule that won at position start.
Transition(rule, start, stack) ==
    CASE rule.op = "push" -> Append(stack, [mode |-> rule.target, entry |-> start])
      [] rule.op = "pop"  -> Front(stack)
      [] rule.op = "set"  -> [stack EXCEPT ![Len(stack)].mode = rule.target]
      [] OTHER            -> stack

=============================================================================
