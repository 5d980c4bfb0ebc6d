----------------------------- MODULE LexerProofs ------------------------------
(***************************************************************************)
(* For every grammar and every text, whoever drives the scan (tokenize, or *)
(* a token_iterator that may be incremented after it threw): the state is  *)
(* typed and every position is what a count from the beginning of the text *)
(* gives; the scan moves on, token after token; the mode stack and the     *)
(* open blocks name places the scan went past; and what threw throws       *)
(* again.                                                                  *)
(*                                                                         *)
(* The lexer is its reference: a scan has the tokens that the reference    *)
(* lexer of the fuzzing harness gives, at the positions it gives them, or  *)
(* fails where it fails, and the harness finds nothing to say of them.     *)
(* First the munch of a unit and the column count are shown to be the      *)
(* reference's, then a running scan to mirror a turn of the reference's    *)
(* run, and what the run comes to, to be ReferenceScan.  Last, the         *)
(* generator of the Python binding yields the tokens its iterator shows,   *)
(* in their order and each once, and all of them before the error: a       *)
(* scan_next shows one token or throws, never both, and a generator never  *)
(* goes on after it threw.                                                 *)
(***************************************************************************)
EXTENDS PythonScan, ScannerProofs

-----------------------------------------------------------------------------
(* The munch *)

\* What matches here, one rule at a time, is typed.
LEMMA MatchesTyped ==
    ASSUME rules \in Grammars, text \in Seq(Char), NEW mode, NEW kind, NEW at \in 0..Len(text)
    PROVE  MatchesHere(mode, kind, text, at) \in SUBSET (RuleIds \X (0..(Len(text) - at)))
           /\ MatchesHere(mode, kind, text, at) \in MatchSets(Len(text) - at)
<1> DEFINE active == { r \in RuleIds : RuleActiveIn(rules[r], mode) /\ PredicateAllows(rules[r], kind, text, at) }
           rest   == Len(text) - at
<1>1. \A i \in active : MatchLength(rules[i].pattern, text, at) \in {NoMatch} \cup 0..rest
  BY RulesTyped, MatchBounded
<1>2. RuleIds \in SUBSET Nat
  BY RulesTyped
<1>3. ASSUME NEW m \in MatchesHere(mode, kind, text, at) PROVE m \in RuleIds \X (0..rest)
  <2>1. PICK i \in active : m = <<i, MatchLength(rules[i].pattern, text, at)>> /\ m[2] # NoMatch
    BY DEF MatchesHere
  <2> HIDE DEF rest
  <2> QED BY <1>1, <2>1
<1> QED BY <1>2, <1>3 DEF MatchSets

\* The rules of the unit at an offset are the ones that are active there, asked one by one.
LEMMA UnitIsActive ==
    ASSUME rules \in Grammars, NEW mode, NEW kind, NEW at
    PROVE  UnitOf(mode, kind, text, at).rules
           = { r \in RuleIds : RuleActiveIn(rules[r], mode) /\ PredicateAllows(rules[r], kind, text, at) }
<1>1. ASSUME NEW r \in RuleIds
      PROVE  Allowed(r, kind, LineStartsAt(text, at)) <=> PredicateAllows(rules[r], kind, text, at)
  <2>1. rules[r].lineStart \in {"any", "start", "inside"}
    BY RulesTyped DEF Rule
  <2>2. rules[r].after = {} \/ rules[r].notAfter = {}
    BY ScannerAssumption DEF WellFormed, RuleIds
  <2>3. (rules[r].lineStart \in {"any", IF LineStartsAt(text, at) THEN "start" ELSE "inside"})
        <=> (rules[r].lineStart # "any" => (rules[r].lineStart = "start") = LineStartsAt(text, at))
    BY <2>1 DEF LineStartsAt
  <2> QED BY <2>2, <2>3 DEF Allowed, PredicateAllows
<1>2. \A r \in RuleIds : r \in ModeRules(mode) <=> RuleActiveIn(rules[r], mode)
  BY DEF ModeRules, RuleActiveIn
<1> QED BY <1>1, <1>2 DEF UnitOf, ModeRules

\* The munch of a unit is the winner of the rules matched one at a time: neither the DFA, nor the choice
\* of the rules it takes, nor the first-character dispatch of the others changes what a text is lexed to.
LEMMA MunchIsReference ==
    ASSUME rules \in Grammars, text \in Texts, text \in Seq(Char),
           NEW mode, NEW kind, NEW at \in 0..(Len(text) - 1)
    PROVE  MunchAt(UnitOf(mode, kind, text, at), text, at) = Winner(MatchesHere(mode, kind, text, at))
<1> DEFINE unit  == UnitOf(mode, kind, text, at)
           all   == MatchesHere(mode, kind, text, at)
           rest  == Len(text) - at
           Of(I) == { m \in { <<i, MatchLength(rules[i].pattern, text, at)>> : i \in I } : m[2] # NoMatch }
           onDfa == OnDfa(unit)
           onPike == OnPike(unit)
<1>1. at \in 0..Len(text) /\ rest \in Nat /\ RuleIds \in SUBSET Nat
      /\ unit.rules \subseteq RuleIds /\ onDfa \subseteq unit.rules /\ onPike = unit.rules \ onDfa
  BY RulesTyped, UnitOfRules DEF OnDfa, OnPike
<1>2. all = Of(unit.rules)
  <2> HIDE DEF unit
  <2> QED BY UnitIsActive DEF MatchesHere, unit
<1>3. all \in MatchSets(rest)
  BY <1>1, MatchesTyped
<1> HIDE DEF unit, rest
<1>4. all = Of(onDfa) \cup Of(onPike)
  BY <1>1, <1>2
<1>5. /\ Of(onDfa) \in MatchSets(rest)
      /\ Of(onPike) \in MatchSets(rest)
  BY <1>3, <1>4 DEF MatchSets
<1> HIDE DEF all
\* the DFA
<1>6. DfaMunch(unit, text, at) = Winner(Of(onDfa))
  <2> DEFINE words   == { m \in { <<i, LongestLength(rules[i].pattern, text, at)>> : i \in onDfa } : m[2] > 0 }
             empties == { <<i, 0>> : i \in { j \in onDfa : Nullable(rules[j].pattern) } }
  <2>1. ASSUME NEW i \in onDfa
        PROVE  /\ MatchLength(rules[i].pattern, text, at) = LongestLength(rules[i].pattern, text, at)
               /\ MatchLength(rules[i].pattern, text, at) \in {NoMatch} \cup 0..rest
    BY <1>1, FaithfulOnTexts, RulesTyped, MatchBounded DEF OnDfa, RuleIds, rest
  <2>2. words = { m \in Of(onDfa) : m[2] > 0 }
    BY <2>1 DEF NoMatch
  <2>3. CASE words # {}
    <3>1. Winner(words) = Winner(Of(onDfa))
      <4> HIDE DEF words
      <4> QED BY <1>1, <1>5, <2>2, <2>3, WinnerOfWords
    <3> QED BY <2>3, <3>1 DEF DfaMunch
  <2>4. CASE words = {}
    <3>1. ASSUME NEW i \in onDfa
          PROVE  Nullable(rules[i].pattern) <=> MatchLength(rules[i].pattern, text, at) = 0
      <4> DEFINE p == rules[i].pattern
                 L == {NoMatch} \cup UNION { Lengths(p.alts[k], text, at) : k \in DOMAIN p.alts }
      <4>1. i \in RuleIds /\ p \in Pattern
        BY <1>1, RulesTyped
      <4>2. MatchLength(p, text, at) \in {NoMatch, 0}
        <5>1. ~(LongestLength(p, text, at) > 0)
          <6> DEFINE m == <<i, LongestLength(p, text, at)>>
          <6>1. m[2] > 0 => m \in words
            OBVIOUS
          <6> QED BY <2>4, <6>1
        <5> HIDE DEF p, rest
        <5> QED BY <1>1, <2>1, <5>1 DEF p
      <4>3. Nullable(p) <=> 0 \in L
        <5>1. 0 # NoMatch
          BY DEF NoMatch
        <5> HIDE DEF p
        <5> QED BY <1>1, <4>1, <5>1, NullableMatches
      <4>4. MatchLength(p, text, at) = Max(L)
        BY <2>1 DEF LongestLength
      <4>5. \A n \in L : n \in -1..(Len(text) - at)
        <5>1. \A k \in DOMAIN p.alts : p.alts[k] \in Alternative
          BY <4>1 DEF Pattern
        <5> HIDE DEF p
        <5> QED BY <1>1, <5>1, LengthsBounded DEF NoMatch
      <4>6. L # {} /\ -1 \in Int /\ Len(text) - at \in Int
        BY <1>1
      <4> HIDE DEF L, p
      <4>7. Max(L) \in L /\ \A y \in L : Max(L) >= y
        BY <4>5, <4>6, MaxOfIntegers
      <4>8. 0 \in L => MatchLength(p, text, at) = 0
        BY <4>2, <4>4, <4>7 DEF NoMatch
      <4>9. MatchLength(p, text, at) = 0 => 0 \in L
        BY <4>4, <4>7
      <4> QED BY <4>3, <4>8, <4>9 DEF p
    <3>2. ASSUME NEW i \in onDfa PROVE MatchLength(rules[i].pattern, text, at) \in {NoMatch, 0}
      <4>1. ~(LongestLength(rules[i].pattern, text, at) > 0)
        <5> DEFINE m == <<i, LongestLength(rules[i].pattern, text, at)>>
        <5>1. m[2] > 0 => m \in words
          OBVIOUS
        <5> QED BY <2>4, <5>1
      <4> QED BY <1>1, <2>1, <4>1
    <3>3. empties = Of(onDfa)
      <4>1. 0 # NoMatch
        BY DEF NoMatch
      <4> HIDE DEF onDfa
      <4> QED BY <3>1, <3>2, <4>1
    <3> QED BY <2>4, <3>3 DEF DfaMunch
  <2> QED BY <2>3, <2>4
\* the dispatch
<1>7. PikeMunch(unit, text, at) = Winner(Of(onPike))
  <2>1. ASSUME NEW i \in onPike, MatchLength(rules[i].pattern, text, at) # NoMatch
        PROVE  i \in Candidates(unit, text, at)
    <3>1. rules[i].pattern \in Pattern
      BY <1>1, RulesTyped
    <3>2. Nullable(rules[i].pattern) \/ text[at + 1] \in FirstChars(rules[i].pattern)
      BY <2>1, <3>1, FirstCharMatches
    <3> QED BY <1>1, <3>2 DEF Candidates, Bucket, General
  <2>2. Of(Candidates(unit, text, at) \cap onPike) = Of(onPike)
    BY <2>1
  <2> QED BY <2>2 DEF PikeMunch
<1>8. MunchAt(unit, text, at) = Winner(Of(onDfa) \cup Of(onPike))
  <2> DEFINE A == Of(onDfa)
             B == Of(onPike)
             a == DfaMunch(unit, text, at)
             b == PikeMunch(unit, text, at)
             W == { <<m.idx, m.len>> : m \in { w \in {a, b} : w.have } }
  <2>1. MunchAt(unit, text, at) = Winner(W)
    BY DEF MunchAt
  <2>2. A \in MatchSets(rest) /\ B \in MatchSets(rest) /\ rest \in Nat
    BY <1>1, <1>5
  <2>3. a = Winner(A) /\ b = Winner(B)
    BY <1>6, <1>7
  <2> HIDE DEF A, B, a, b
  <2>4. /\ a.have => <<a.idx, a.len>> \in W
        /\ b.have => <<b.idx, b.len>> \in W
        /\ \A x \in W : (a.have /\ x = <<a.idx, a.len>>) \/ (b.have /\ x = <<b.idx, b.len>>)
    OBVIOUS
  <2> HIDE DEF W
  <2>5. Winner(W) = Winner(A \cup B)
    BY <2>2, <2>3, <2>4, WinnerOfBoth
  <2> QED BY <2>1, <2>5 DEF A, B
<1> QED BY <1>4, <1>8 DEF unit, all

\* So the munch has characters where some rule matches some, and is a match of the rule that wins.
LEMMA MunchIsSome ==
    ASSUME rules \in Grammars, text \in Texts, text \in Seq(Char),
           NEW mode, NEW kind, NEW at \in 0..(Len(text) - 1)
    PROVE  LET m == MunchAt(UnitOf(mode, kind, text, at), text, at)
           IN  /\ m.have <=> MatchesHere(mode, kind, text, at) # {}
               /\ m.len > 0 <=> SomeMatch(mode, kind, text, at)
               /\ m.len > 0 => m.have
               /\ m.have => m.idx \in RuleIds /\ MatchLength(rules[m.idx].pattern, text, at) = m.len
<1> DEFINE m   == MunchAt(UnitOf(mode, kind, text, at), text, at)
           all == MatchesHere(mode, kind, text, at)
           r   == Len(text) - at
<1>1. m = Winner(all) /\ r \in Nat /\ all \in MatchSets(r) /\ all \in SUBSET (RuleIds \X (0..r))
  BY MunchIsReference, MatchesTyped
<1>2. \A x \in all : x = <<x[1], x[2]>> /\ x[1] \in RuleIds /\ x[2] = MatchLength(rules[x[1]].pattern, text, at)
  BY <1>1 DEF MatchesHere
<1>3. SomeMatch(mode, kind, text, at) <=> \E x \in all : x[2] > 0
  BY DEF SomeMatch
<1> HIDE DEF m, all, r
<1>4. CASE all = {}
  <2>1. m = NoMunch
    BY <1>1, <1>4 DEF Winner
  <2>2. ~m.have /\ m.len = 0 /\ ~(m.len > 0)
    BY <2>1 DEF NoMunch
  <2> QED BY <1>3, <1>4, <2>2 DEF m, all
<1>5. CASE all # {}
  <2>1. /\ m = [have |-> TRUE, idx |-> m.idx, len |-> m.len]
        /\ <<m.idx, m.len>> \in all /\ m.idx \in Nat /\ m.len \in 0..r
        /\ \A x \in all : x[2] <= m.len /\ (x[2] = m.len => m.idx <= x[1])
    BY <1>1, <1>5, WinnerWins
  <2>2. m.have
    BY <2>1
  <2>3. m.idx \in RuleIds /\ MatchLength(rules[m.idx].pattern, text, at) = m.len
    BY <1>2, <2>1
  <2>4. m.len > 0 => SomeMatch(mode, kind, text, at)
    <3> DEFINE x == <<m.idx, m.len>>
    <3>1. x \in all /\ x[2] = m.len
      BY <2>1
    <3> QED BY <1>3, <3>1
  <2>5. SomeMatch(mode, kind, text, at) => m.len > 0
    <3>1. \A x \in all : x[2] \in 0..r
      BY <1>1
    <3> QED BY <1>1, <1>3, <2>1, <3>1
  <2> QED BY <1>5, <2>2, <2>3, <2>4, <2>5 DEF m, all
<1> QED BY <1>4, <1>5

-----------------------------------------------------------------------------
(* The skip matches *)

\* Induction over the turns of scan_step's loop: where each skip match takes a character and leads from
\* a configuration of S to another, the turn reached is one at a configuration of S, and skips nothing.
LEMMA ReachedWithin ==
    ASSUME NEW S, Len(text) \in Nat, [cursor |-> cursor, stack |-> stack] \in S,
           \A c \in S : /\ c.cursor.offset \in 0..Len(text)
                        /\ Turn(c).at = c
                        /\ AtEnd(c) => ~Skips(Turn(c))
                        /\ Skips(Turn(c)) =>
                              /\ Past(c, Turn(c).munch) \in S
                              /\ Past(c, Turn(c).munch).cursor.offset > c.cursor.offset
    PROVE  \E c \in S : Reached = Turn(c) /\ ~Skips(Turn(c))
<1> DEFINE n       == Len(text)
           start   == [cursor |-> cursor, stack |-> stack]
           Turns   == { Turn(c) : c \in S }
           After(t) == IF Skips(t) THEN Turn(Past(t.at, t.munch)) ELSE t
           Runs(m) == { f \in [0..m -> Turns] : /\ f[0] = Turn(start)
                                                /\ \A i \in 1..m : f[i] = After(f[i - 1]) }
           Full(f) == f = [i \in 0..n |-> IF i = 0 THEN Turn(start) ELSE After(f[i - 1])]
           turn    == CHOOSE f : Full(f)
<1>1. \A t \in Turns : After(t) \in Turns
  OBVIOUS
<1>2. Turn(start) \in Turns /\ n \in Nat
  OBVIOUS
<1>3. Reached = turn[n]
  BY DEF Reached
\* there is such a function: its first values exist as far as one likes
<1>4. Runs(n) # {}
  <2> DEFINE Missing == { m \in 0..n : Runs(m) = {} }
  <2>1. SUFFICES ASSUME Missing # {} PROVE FALSE
    <3>1. n \in 0..n
      BY <1>2
    <3> HIDE DEF Runs, n
    <3> QED BY <3>1
  <2> DEFINE m == Min(Missing)
  <2>2. m \in Missing /\ \A k \in Missing : m <= k
    <3>1. Missing \in SUBSET Nat
      BY <1>2
    <3> HIDE DEF Missing
    <3> QED BY <2>1, <3>1, MinOfNaturals
  <2>3. m \in 0..n /\ Runs(m) = {}
    BY <2>2
  <2>4. m # 0
    <3> DEFINE g == [i \in 0..0 |-> Turn(start)]
    <3>1. g \in [0..0 -> Turns]
      BY <1>2
    <3>2. g[0] = Turn(start)
      OBVIOUS
    <3> HIDE DEF g, After, Turns
    <3>3. g \in Runs(0)
      BY <3>1, <3>2
    <3> HIDE DEF Runs
    <3> QED BY <2>3, <3>3
  <2>5. m - 1 \in 0..n /\ m - 1 \notin Missing /\ m \in Nat
    <3> HIDE DEF m, Missing, n
    <3> QED BY <1>2, <2>2, <2>3, <2>4
  <2>6. PICK f : f \in Runs(m - 1)
    BY <2>5
  <2> HIDE DEF m, n, Missing, After, Turns
  <2> DEFINE g == [i \in 0..m |-> IF i = m THEN After(f[m - 1]) ELSE f[i]]
  <2>7. \A i \in 0..(m - 1) : i \in 0..m /\ f[i] \in Turns
    BY <2>6, <2>5
  <2>8. \A i \in 0..m : i # m => i \in 0..(m - 1)
    BY <2>5
  <2>9. g \in [0..m -> Turns]
    <3>1. m - 1 \in 0..(m - 1)
      BY <2>4, <2>5
    <3> QED BY <1>1, <2>7, <2>8, <3>1
  <2>10. g[0] = Turn(start)
    BY <2>4, <2>5, <2>6
  <2>11. ASSUME NEW i \in 1..m PROVE g[i] = After(g[i - 1])
    <3>1. i - 1 \in 0..m /\ i - 1 # m /\ i \in 0..m /\ g[i - 1] = f[i - 1]
      BY <2>5
    <3>2. CASE i = m
      BY <3>1, <3>2
    <3>3. CASE i # m
      <4>1. i \in 1..(m - 1)
        BY <2>5, <3>3
      <4> QED BY <2>6, <3>1, <3>3, <4>1
    <3> QED BY <3>2, <3>3
  <2>12. g \in Runs(m)
    <3> HIDE DEF g
    <3> QED BY <2>9, <2>10, <2>11
  <2> HIDE DEF Runs
  <2> QED BY <2>3, <2>12
<1>5. Full(turn)
  <2>1. PICK f : f \in Runs(n)
    BY <1>4
  <2>2. Full(f)
    <3> HIDE DEF After, Turns, n
    <3>1. \A i \in 0..n : i # 0 => i \in 1..n
      BY <1>2
    <3>2. f = [i \in 0..n |-> f[i]] /\ f[0] = Turn(start) /\ \A i \in 1..n : f[i] = After(f[i - 1])
      BY <2>1
    <3> QED BY <3>1, <3>2
  <2> HIDE DEF Full
  <2> QED BY <2>2
<1>6. turn[0] = Turn(start) /\ \A i \in 1..n : turn[i] = After(turn[i - 1])
  <2> HIDE DEF turn, After, n
  <2>1. \A i \in 1..n : i \in 0..n /\ i # 0
    BY <1>2
  <2>2. turn = [i \in 0..n |-> IF i = 0 THEN Turn(start) ELSE After(turn[i - 1])]
    BY <1>5
  <2>3. 0 \in 0..n
    BY <1>2
  <2> QED BY <2>1, <2>2, <2>3
<1> HIDE DEF turn, Full, Runs
\* a turn that skips took a character at each turn before
<1> DEFINE Far(i) == \E c \in S : turn[i] = Turn(c) /\ (Skips(turn[i]) => c.cursor.offset >= i)
<1>7. \A i \in 0..n : Far(i)
  <2> DEFINE Bad == { i \in 0..n : ~Far(i) }
  <2>1. SUFFICES ASSUME Bad # {} PROVE FALSE
    OBVIOUS
  <2> DEFINE m == Min(Bad)
  <2>2. m \in Bad /\ \A k \in Bad : m <= k
    <3>1. Bad \in SUBSET Nat
      BY <1>2
    <3> HIDE DEF Bad
    <3> QED BY <2>1, <3>1, MinOfNaturals
  <2>3. m \in 0..n /\ ~Far(m)
    BY <2>2
  <2>4. Far(0)
    BY <1>6
  <2>5. m \in 1..n /\ m - 1 \in 0..n /\ m - 1 \notin Bad /\ m \in Int
    <3> HIDE DEF m, Bad, n, Far
    <3>1. m # 0
      BY <2>3, <2>4
    <3> QED BY <1>2, <2>2, <2>3, <3>1
  <2>6. Far(m - 1)
    BY <2>5
  <2>7. PICK c \in S : turn[m - 1] = Turn(c) /\ (Skips(turn[m - 1]) => c.cursor.offset >= m - 1)
    BY <2>6
  <2> HIDE DEF m, Bad, n
  <2>8. turn[m] = After(turn[m - 1])
    BY <1>6, <2>5
  <2>9. CASE Skips(turn[m - 1])
    <3> DEFINE d == Past(c, Turn(c).munch)
    <3>1. d \in S /\ d.cursor.offset > c.cursor.offset /\ turn[m] = Turn(d)
      BY <2>7, <2>8, <2>9
    <3>2. c.cursor.offset \in Int /\ d.cursor.offset \in Int
      BY <3>1
    <3>3. c.cursor.offset >= m - 1
      BY <2>7, <2>9
    <3> HIDE DEF d
    <3>4. d.cursor.offset >= m
      BY <2>5, <3>1, <3>2, <3>3
    <3> QED BY <2>3, <3>1, <3>4
  <2>10. CASE ~Skips(turn[m - 1])
    BY <2>3, <2>7, <2>8, <2>10
  <2> QED BY <2>9, <2>10
<1>8. PICK c \in S : turn[n] = Turn(c) /\ (Skips(turn[n]) => c.cursor.offset >= n)
  BY <1>2, <1>7
<1>9. ~Skips(Turn(c))
  <2>1. SUFFICES ASSUME Skips(Turn(c)) PROVE FALSE
    OBVIOUS
  <2>2. c.cursor.offset >= n /\ c.cursor.offset \in 0..n
    BY <1>8, <2>1
  <2>3. c.cursor.offset = n
    <3> HIDE DEF n
    <3> QED BY <1>2, <2>2
  <2> QED BY <2>1, <2>3 DEF AtEnd
<1> QED BY <1>3, <1>8, <1>9

-----------------------------------------------------------------------------
(* The state of a scan *)

\* The position of an offset: what a count from the beginning of the text gives.
Place(offset) == Advance(text, Beginning, offset)

Places == { Place(offset) : offset \in Offsets }

Frames == [mode : ModeNames, entry : Places]

Stacks == { frames \in Seq(Frames) : Len(frames) \in 1..MaxDepth }

Configurations == [cursor : Places, stack : Stacks]

Kinds == {EndOfInput, ErrorKind} \cup { rules[i].kind : i \in RuleIds }

Shown == [kind : Kinds, lexeme : Seq(Char), start : Places, mode : ModeNames]

\* TypeOK, with every position where a count from the beginning puts it.
Scanned ==
    /\ rules \in Grammars
    /\ text \in Texts /\ text \in Seq(Char)
    /\ cursor \in Places
    /\ stack \in Stacks
    /\ previous \in Kinds
    /\ tokens \in Seq(Shown)

\* A scan_next, whoever asks for it.
ScanStep ==
    \E turn \in {Reached} :
        \/ Emit(turn)
        \/ EmitErrorRun(turn)
        \/ NoRule(turn)
        \/ BadTransition(turn)
        \/ Unterminated(turn)
        \/ EmitUnterminated(turn)
        \/ ZeroLength(turn)
        \/ End(turn)
        \/ Exhausts(turn)

\* Past a match, a place is a place.
LEMMA PlaceMoves ==
    ASSUME text \in Seq(Char), NEW pos \in Places, NEW n \in 0..(Len(text) - pos.offset)
    PROVE  /\ pos.offset \in Offsets /\ pos \in Positions /\ Len(text) \in Nat
           /\ Advance(text, pos, n) \in Places
           /\ Advance(text, pos, n).offset = pos.offset + n
<1>1. PICK o \in Offsets : pos = Place(o)
  BY DEF Places
<1>2. pos.offset = o /\ pos \in Positions
  BY <1>1, PlaceTyped DEF Place, Offsets, Positions
<1>3. Advance(text, pos, n) = Advance(text, Beginning, o + n)
  <2>1. Beginning.offset = 0 /\ Beginning.line \in Nat /\ Beginning.column \in Nat
    BY DEF Beginning
  <2>2. o \in 0..(Len(text) - 0) /\ n \in 0..(Len(text) - 0 - o)
    BY <1>2 DEF Offsets
  <2> QED BY <1>1, <2>1, <2>2, AdvanceAdds DEF Place
<1>4. o + n \in Offsets
  BY <1>2 DEF Offsets
<1>5. Advance(text, pos, n) \in Places
  BY <1>3, <1>4 DEF Places, Place
<1>6. Advance(text, pos, n).offset = o + n
  BY <1>3, <1>4, PlaceTyped DEF Offsets
<1> QED BY <1>2, <1>5, <1>6

\* A place has the type of a position.
LEMMA PlaceIsPosition ==
    ASSUME text \in Seq(Char), NEW pos \in Places
    PROVE  pos.offset \in Offsets /\ pos \in Positions /\ Len(text) \in Nat
<1>1. PICK o \in Offsets : pos = Place(o)
  BY DEF Places
<1> QED BY <1>1, PlaceTyped DEF Place, Offsets, Positions

\* What a turn meets: a match is of a rule of the lexer, takes a character at least and lies within the
\* text.
LEMMA TurnTyped ==
    ASSUME rules \in Grammars, text \in Seq(Char), NEW c \in Configurations
    PROVE  /\ Turn(c).at = c
           /\ Turn(c).meets \in {"end", "nothing", "empty", "match"}
           /\ Turn(c).meets = "end" <=> AtEnd(c)
           /\ Turn(c).meets = "match" => /\ Turn(c).munch.idx \in RuleIds
                                         /\ Turn(c).munch.len \in 1..(Len(text) - c.cursor.offset)
<1> DEFINE unit == UnitOf(Mode(c), previous, text, c.cursor.offset)
           m    == MunchAt(unit, text, c.cursor.offset)
<1>1. c.cursor \in Places /\ c.cursor.offset \in 0..Len(text) /\ Len(text) \in Nat
  BY PlaceIsPosition DEF Configurations, Offsets
<1>2. CASE AtEnd(c)
  BY <1>2 DEF Turn
<1>3. CASE ~AtEnd(c)
  <2>1. unit.rules \subseteq RuleIds
    BY UnitOfRules
  <2>2. m.len \in 0..(Len(text) - c.cursor.offset) /\ (m.have => m.idx \in RuleIds)
    <3> HIDE DEF unit
    <3> QED BY <1>1, <2>1, MunchBounded
  <2>3. Turn(c) = Met(c, m)
    BY <1>3 DEF Turn
  <2> HIDE DEF m
  <2>4. Met(c, m) = [ at |-> c, munch |-> m,
                      meets |-> IF ~m.have THEN "nothing" ELSE IF m.len = 0 THEN "empty" ELSE "match" ]
    BY DEF Met
  <2>5. Turn(c).at = c /\ Turn(c).munch = m /\ Turn(c).meets \in {"nothing", "empty", "match"}
        /\ (Turn(c).meets = "match" => m.have /\ m.len # 0)
    BY <2>3, <2>4
  <2> QED BY <1>1, <1>3, <2>2, <2>5
<1> QED BY <1>2, <1>3

\* Past a match that its stack does not refuse, a configuration is a configuration further on.
LEMMA PastTyped ==
    ASSUME rules \in Grammars, text \in Seq(Char), NEW c \in Configurations, NEW m, m.idx \in RuleIds,
           m.len \in 1..(Len(text) - c.cursor.offset), ~Refused(rules[m.idx], c.stack)
    PROVE  Past(c, m) \in Configurations /\ Past(c, m).cursor.offset = c.cursor.offset + m.len
<1>1. c.cursor \in Places /\ c.stack \in Seq(Frames) /\ Len(c.stack) \in 1..MaxDepth
  BY DEF Configurations, Stacks
<1>2. Advance(text, c.cursor, m.len) \in Places
      /\ Advance(text, c.cursor, m.len).offset = c.cursor.offset + m.len
  <2>1. m.len \in 0..(Len(text) - c.cursor.offset)
    BY <1>1, PlaceIsPosition DEF Offsets
  <2> QED BY <1>1, <2>1, PlaceMoves
<1>3. Transition(rules[m.idx], c.cursor, c.stack) \in Stacks
  <2> DEFINE i == m.idx
             next == Transition(rules[i], c.cursor, c.stack)
  <2>1. i \in RuleIds /\ c.stack \in Seq([mode : ModeNames, entry : Places]) /\ ~Refused(rules[i], c.stack)
    BY <1>1 DEF Frames
  <2>2. next \in Seq([mode : ModeNames, entry : Places]) /\ Len(next) \in 1..MaxDepth
    <3> HIDE DEF i
    <3> QED BY <1>1, <2>1, StackMoves
  <2> HIDE DEF next
  <2>3. next \in Stacks
    BY <2>2 DEF Stacks, Frames
  <2> QED BY <2>3 DEF next
<1> QED BY <1>2, <1>3 DEF Past, Configurations

\* The turn reached is one at a configuration: the one the scan_next began at, or one further on.
LEMMA ReachedTyped ==
    ASSUME Scanned
    PROVE  /\ Reached.at \in Configurations /\ Reached = Turn(Reached.at) /\ ~Skips(Reached)
           /\ \/ Reached.at = [cursor |-> cursor, stack |-> stack]
              \/ Reached.at.cursor.offset > cursor.offset
<1> DEFINE start == [cursor |-> cursor, stack |-> stack]
           S     == { c \in Configurations : c = start \/ c.cursor.offset > cursor.offset }
<1>1. start \in S
  BY DEF Scanned, Configurations
<1>2. ASSUME NEW c \in S
      PROVE  /\ c.cursor.offset \in 0..Len(text)
             /\ Turn(c).at = c
             /\ AtEnd(c) => ~Skips(Turn(c))
             /\ Skips(Turn(c)) => /\ Past(c, Turn(c).munch) \in S
                                  /\ Past(c, Turn(c).munch).cursor.offset > c.cursor.offset
  <2>1. c.cursor \in Places /\ cursor \in Places
    BY DEF Configurations, Scanned
  <2>2. c.cursor.offset \in 0..Len(text) /\ cursor.offset \in 0..Len(text) /\ Len(text) \in Nat
    BY <2>1, PlaceIsPosition DEF Scanned, Offsets
  <2>3. Turn(c).at = c /\ (AtEnd(c) => ~Skips(Turn(c)))
    BY TurnTyped DEF Scanned, Skips
  <2>4. ASSUME Skips(Turn(c))
        PROVE  /\ Past(c, Turn(c).munch) \in S
               /\ Past(c, Turn(c).munch).cursor.offset > c.cursor.offset
    <3> DEFINE m == Turn(c).munch
    <3>1. m.idx \in RuleIds /\ m.len \in 1..(Len(text) - c.cursor.offset)
          /\ ~Refused(rules[m.idx], c.stack)
      BY <2>3, <2>4, TurnTyped DEF Scanned, Skips, Won
    <3> HIDE DEF m
    <3>2. Past(c, m) \in Configurations /\ Past(c, m).cursor.offset = c.cursor.offset + m.len
      BY <3>1, PastTyped DEF Scanned
    <3>3. c.cursor.offset + m.len > c.cursor.offset
      BY <2>2, <3>1
    <3>4. c.cursor.offset >= cursor.offset
      BY <2>2
    <3>5. c.cursor.offset + m.len > cursor.offset
      BY <2>2, <3>1, <3>4
    <3> QED BY <3>2, <3>3, <3>5 DEF m
  <2> QED BY <2>2, <2>3, <2>4
<1>3. Len(text) \in Nat
  BY DEF Scanned
<1> HIDE DEF S
<1>4. PICK c \in S : Reached = Turn(c) /\ ~Skips(Turn(c))
  BY <1>1, <1>2, <1>3, ReachedWithin
<1>5. c \in Configurations /\ (c = start \/ c.cursor.offset > cursor.offset) /\ Turn(c).at = c
  BY <1>2, <1>4 DEF S
<1> QED BY <1>4, <1>5

\* Where the scan is when it stops skipping.
LEMMA ReachedPlace ==
    ASSUME Scanned
    PROVE  /\ Reached.at.cursor \in Places /\ Reached.at.cursor.offset \in 0..Len(text)
           /\ cursor.offset \in 0..Len(text) /\ cursor.offset <= Reached.at.cursor.offset
           /\ Reached.at.stack \in Seq(Frames) /\ Len(Reached.at.stack) \in 1..MaxDepth
           /\ Mode(Reached.at) \in ModeNames
           /\ Reached.meets \in {"end", "nothing", "empty", "match"}
           /\ Reached.meets = "end" <=> Reached.at.cursor.offset = Len(text)
           /\ Len(text) \in Nat
<1> DEFINE c == Reached.at
<1>1. c \in Configurations /\ Reached = Turn(c)
      /\ (c = [cursor |-> cursor, stack |-> stack] \/ c.cursor.offset > cursor.offset)
  BY ReachedTyped
<1>2. Len(text) \in Nat /\ cursor \in Places /\ rules \in Grammars /\ text \in Seq(Char)
  BY DEF Scanned
<1> HIDE DEF c
<1>3. c.cursor \in Places /\ c.stack \in Seq(Frames) /\ Len(c.stack) \in 1..MaxDepth
  BY <1>1 DEF Configurations, Stacks
<1>4. c.cursor.offset \in 0..Len(text) /\ cursor.offset \in 0..Len(text)
  BY <1>2, <1>3, PlaceIsPosition DEF Offsets
<1>5. cursor.offset <= c.cursor.offset
  BY <1>1, <1>4
<1>6. Mode(c) \in ModeNames
  <2>1. c.stack[Len(c.stack)] \in Frames
    <3> DEFINE n == Len(c.stack)
    <3>1. n \in 1..Len(c.stack)
      BY <1>3
    <3> QED BY <1>3, <3>1
  <2> QED BY <2>1 DEF Mode, Last, Frames
<1>7. /\ Turn(c).meets \in {"end", "nothing", "empty", "match"}
      /\ Turn(c).meets = "end" <=> c.cursor.offset = Len(text)
  BY <1>1, <1>2, TurnTyped DEF AtEnd
<1> QED BY <1>1, <1>2, <1>3, <1>4, <1>5, <1>6, <1>7 DEF c

\* The match of a turn that meets one, extended or not, takes a character at least and lies within the
\* text.
LEMMA MatchTyped ==
    ASSUME Scanned, Reached.meets = "match"
    PROVE  /\ Reached.munch.idx \in RuleIds /\ Won(Reached) \in Rule
           /\ Match(Reached).idx = Reached.munch.idx
           /\ Reached.munch.len \in 1..(Len(text) - Reached.at.cursor.offset)
           /\ Match(Reached).len \in 1..(Len(text) - Reached.at.cursor.offset)
           /\ Match(Reached).len >= Reached.munch.len
<1> DEFINE c == Reached.at
           m == Reached.munch
           rest == Len(text) - c.cursor.offset
           length == Extended(Won(Reached), Mode(c), text, c.cursor, m.len, indents, TRUE)
<1>1. m.idx \in RuleIds /\ m.len \in 1..rest /\ text \in Seq(Char) /\ rules \in Grammars
  BY ReachedTyped, TurnTyped DEF Scanned
<1>2. rules[m.idx] \in Rule
  BY <1>1, RulesTyped
<1>3. rest \in Nat /\ c.cursor.offset \in 0..Len(text)
  BY ReachedPlace
<1>4. length \in m.len..rest
  <2>1. m.len \in 0..rest
    BY <1>1, <1>3
  <2> HIDE DEF c, m
  <2> QED BY <1>1, <1>2, <1>3, <2>1, ExtendedBounded DEF Won, m
<1>5. Reached.munch = [have |-> m.have, idx |-> m.idx, len |-> m.len]
  BY ReachedTyped DEF Turn, Met, MunchAt, Winner, NoMunch
<1>6. Match(Reached) = [m EXCEPT !.len = length]
  BY DEF Match
<1>7. Match(Reached).len = length /\ Match(Reached).idx = m.idx
  BY <1>5, <1>6
<1> HIDE DEF m, length, rest
<1>8. length \in 1..rest /\ length >= m.len
  BY <1>1, <1>3, <1>4
<1> QED BY <1>1, <1>2, <1>7, <1>8 DEF m, rest, Won

\* An error run takes a character at least and ends within the text.
LEMMA RunEndBounded ==
    ASSUME text \in Seq(Char), NEW mode, NEW from \in 0..(Len(text) - 1)
    PROVE  RunEnd(mode, from) \in (from + 1)..Len(text)
<1> DEFINE S == { at \in (from + 1)..(Len(text) - 1) :
                    LET unit == UnitOf(mode, previous, text, at)
                    IN  MayStart(unit, text[at + 1]) /\ MunchAt(unit, text, at).len > 0 }
<1>1. Len(text) \in Nat /\ from + 1 \in 0..Len(text)
  OBVIOUS
<1>2. \A o \in S : o \in (from + 1)..Len(text)
  OBVIOUS
<1>3. RunEnd(mode, from) = Min({Len(text)} \cup S)
  BY DEF RunEnd
<1> HIDE DEF S
<1> QED BY <1>1, <1>2, <1>3, LeastOffset

-----------------------------------------------------------------------------
(* What a scan_next does *)

\* An error run ends at the next place where some rule matches something, or at the end of the text.
LEMMA RunEndIsReference ==
    ASSUME rules \in Grammars, text \in Texts, text \in Seq(Char), NEW mode, NEW from \in 0..Len(text)
    PROVE  RunEnd(mode, from) = Min({Len(text)} \cup
                                    { at \in (from + 1)..(Len(text) - 1) : SomeMatch(mode, previous, text, at) })
<1>1. ASSUME NEW at \in (from + 1)..(Len(text) - 1)
      PROVE  LET unit == UnitOf(mode, previous, text, at)
             IN  MayStart(unit, text[at + 1]) /\ MunchAt(unit, text, at).len > 0
                 <=> SomeMatch(mode, previous, text, at)
  <2> DEFINE unit == UnitOf(mode, previous, text, at)
             m    == MunchAt(unit, text, at)
  <2>1. at \in 0..(Len(text) - 1) /\ at \in 0..Len(text)
    OBVIOUS
  <2>2. m.len > 0 <=> SomeMatch(mode, previous, text, at)
    BY <2>1, MunchIsSome
  <2>3. ASSUME m.len > 0 PROVE MayStart(unit, text[at + 1])
    <3>1. m.have /\ m.idx \in RuleIds /\ MatchLength(rules[m.idx].pattern, text, at) = m.len
      BY <2>1, <2>3, MunchIsSome
    <3>2. m.idx \in unit.rules
      BY <2>1, <3>1, MunchBounded, UnitOfRules
    <3> HIDE DEF m, unit
    <3>3. rules[m.idx].pattern \in Pattern /\ MatchLength(rules[m.idx].pattern, text, at) # NoMatch
      BY <2>3, <3>1, RulesTyped DEF NoMatch
    <3>4. Nullable(rules[m.idx].pattern) \/ text[at + 1] \in FirstChars(rules[m.idx].pattern)
      BY <2>1, <3>3, FirstCharMatches
    <3> QED BY <3>2, <3>4 DEF MayStart, Bucket, General
  <2> QED BY <2>2, <2>3
<1> QED BY <1>1 DEF RunEnd

\* A token is a piece of the text between two places.
LEMMA TokenShown ==
    ASSUME text \in Seq(Char), NEW kind \in Kinds, NEW mode \in ModeNames, NEW start \in Places, NEW end,
           end.offset \in start.offset..Len(text)
    PROVE  LET token == Token(kind, start, end, mode)
           IN  /\ token \in Shown /\ token.start = start /\ token.kind = kind
               /\ start.offset + Len(token.lexeme) = end.offset
               /\ token.lexeme = <<>> <=> start.offset = end.offset
<1> DEFINE lexeme == SubSeq(text, start.offset + 1, end.offset)
           from == start.offset
           to   == end.offset
<1>1. from \in 0..Len(text) /\ to \in from..Len(text) /\ Len(text) \in Nat
  BY PlaceIsPosition DEF Offsets
<1>2. lexeme \in Seq(Char) /\ Len(lexeme) = to - from
  <2>1. to \in 0..Len(text) /\ from \in 0..to
    BY <1>1
  <2> HIDE DEF from, to
  <2>2. SubSeq(text, from + 1, to) \in Seq(Char) /\ Len(SubSeq(text, from + 1, to)) = to - from
    BY <2>1, SliceTyped
  <2> QED BY <2>2 DEF from, to
<1>3. Token(kind, start, end, mode) = [kind |-> kind, lexeme |-> lexeme, start |-> start, mode |-> mode]
  BY DEF Token
<1> HIDE DEF lexeme, from, to
<1>4. lexeme = <<>> <=> from = to
  <2>1. lexeme = <<>> <=> Len(lexeme) = 0
    BY <1>2
  <2> QED BY <1>1, <1>2, <2>1
<1>5. from + Len(lexeme) = to
  BY <1>1, <1>2
<1> QED BY <1>2, <1>3, <1>4, <1>5 DEF Shown, from, to

\* A scan_next leaves the text alone and moves on from where it stopped skipping, to a place of the text;
\* it shows nothing, or a token that begins where it stopped skipping and ends where the scan goes on, and
\* that is empty at the end of the text only.
Moves ==
    /\ rules' = rules /\ text' = text
    /\ cursor' \in Places /\ stack' \in Stacks /\ previous' \in Kinds
    /\ cursor'.offset >= Reached.at.cursor.offset

ShowsNothing == tokens' = tokens

ShowsToken ==
    \E token \in Shown :
        /\ tokens' = Append(tokens, token)
        /\ token.start = Reached.at.cursor
        /\ token.start.offset + Len(token.lexeme) = cursor'.offset
        /\ token.lexeme = <<>> => cursor'.offset = Len(text)

\* Taking a match, extended or not, moves on.
LEMMA EmitMoves ==
    ASSUME Scanned, Emit(Reached)
    PROVE  /\ Moves /\ ShowsToken /\ cursor'.offset > Reached.at.cursor.offset
           /\ cursor'.offset = Reached.at.cursor.offset + Match(Reached).len
           /\ stack' = Transition(Won(Reached), Reached.at.cursor, Reached.at.stack)
<1> DEFINE c    == Reached.at
           past == Past(c, Match(Reached))
           n    == Match(Reached).len
           kind == Won(Reached).kind
           token == Token(kind, c.cursor, past.cursor, Mode(c))
<1>1. /\ Reached.meets = "match" /\ ~Refused(Won(Reached), c.stack)
      /\ cursor' = past.cursor /\ stack' = past.stack /\ tokens' = Append(tokens, token)
      /\ previous' = kind /\ rules' = rules /\ text' = text
  BY DEF Emit
<1>2. /\ Reached.munch.idx \in RuleIds /\ Match(Reached).idx = Reached.munch.idx
      /\ n \in 1..(Len(text) - c.cursor.offset)
  BY <1>1, MatchTyped
<1>3. c \in Configurations /\ c.cursor \in Places /\ c.cursor.offset \in 0..Len(text) /\ Len(text) \in Nat
      /\ Mode(c) \in ModeNames
  BY ReachedTyped, ReachedPlace
<1>4. past \in Configurations /\ past.cursor.offset = c.cursor.offset + n
  BY <1>1, <1>2, <1>3, PastTyped DEF Scanned, Won
<1>5. kind \in Kinds
  BY <1>2 DEF Kinds, Won
<1>6. past.stack = Transition(Won(Reached), c.cursor, c.stack)
  BY <1>2 DEF Past, Won
<1>7. past.cursor \in Places /\ past.stack \in Stacks
  BY <1>4 DEF Configurations
<1> HIDE DEF c, past, n, kind
<1>8. past.cursor.offset \in c.cursor.offset..Len(text) /\ past.cursor.offset > c.cursor.offset
  BY <1>2, <1>3, <1>4
<1>9. token \in Shown /\ token.start = c.cursor
      /\ c.cursor.offset + Len(token.lexeme) = past.cursor.offset
      /\ (token.lexeme = <<>> <=> c.cursor.offset = past.cursor.offset)
  BY <1>3, <1>5, <1>8, TokenShown DEF Scanned
<1>10. token.lexeme # <<>>
  <2>1. c.cursor.offset # past.cursor.offset
    BY <1>3, <1>8
  <2> QED BY <1>9, <2>1
<1>11. ShowsToken
  BY <1>1, <1>9, <1>10 DEF ShowsToken, c
<1>12. cursor'.offset >= c.cursor.offset
  BY <1>1, <1>3, <1>8
<1> QED BY <1>1, <1>4, <1>5, <1>6, <1>7, <1>8, <1>11, <1>12 DEF Moves, c, n

\* So does an error run.
LEMMA ErrorRunMoves ==
    ASSUME Scanned, EmitErrorRun(Reached)
    PROVE  /\ Moves /\ ShowsToken /\ cursor'.offset > Reached.at.cursor.offset
           /\ cursor'.offset = RunEnd(Mode(Reached.at), Reached.at.cursor.offset)
<1> DEFINE c   == Reached.at
           from == c.cursor.offset
           to  == RunEnd(Mode(c), from)
           end == Advance(text, c.cursor, to - from)
           token == Token(ErrorKind, c.cursor, end, Mode(c))
<1>1. /\ Reached.meets = "nothing"
      /\ cursor' = end /\ stack' = c.stack /\ tokens' = Append(tokens, token)
      /\ previous' = ErrorKind /\ rules' = rules /\ text' = text
  BY DEF EmitErrorRun
<1>2. c.cursor \in Places /\ from \in 0..Len(text) /\ from # Len(text) /\ Len(text) \in Nat
      /\ Mode(c) \in ModeNames /\ c.stack \in Stacks
  BY <1>1, ReachedPlace DEF Stacks
<1>3. to \in (from + 1)..Len(text)
  <2>1. from \in 0..(Len(text) - 1)
    BY <1>2
  <2> HIDE DEF c, from
  <2> QED BY <2>1, RunEndBounded DEF Scanned
<1>4. end \in Places /\ end.offset = from + (to - from)
  <2> HIDE DEF c, to
  <2>1. to - from \in 0..(Len(text) - c.cursor.offset)
    BY <1>2, <1>3
  <2> QED BY <1>2, <2>1, PlaceMoves DEF Scanned
<1>5. ErrorKind \in Kinds
  BY DEF Kinds
<1> HIDE DEF from, to, end
<1>6. end.offset = to /\ end.offset \in from..Len(text) /\ from # end.offset /\ end.offset > from
      /\ end.offset >= from
  BY <1>2, <1>3, <1>4
<1>7. token \in Shown /\ token.start = c.cursor
      /\ c.cursor.offset + Len(token.lexeme) = end.offset
      /\ (token.lexeme = <<>> <=> c.cursor.offset = end.offset)
  BY <1>2, <1>5, <1>6, TokenShown DEF Scanned, from
<1>8. ShowsToken
  BY <1>1, <1>6, <1>7 DEF ShowsToken, from
<1> QED BY <1>1, <1>2, <1>4, <1>5, <1>6, <1>8 DEF Moves, from, to

\* Nothing is taken: the scan stays where it stopped skipping.
LEMMA StopMoves ==
    ASSUME Scanned, rules' = rules, text' = text, cursor' = Reached.at.cursor,
           stack' \in {Reached.at.stack, SubSeq(Reached.at.stack, 1, 1)},
           previous' = previous
    PROVE  Moves
<1> DEFINE frames == Reached.at.stack
<1>1. frames \in Seq(Frames) /\ Len(frames) \in 1..MaxDepth /\ MaxDepth \in Nat
  BY ReachedPlace, ScannerAssumption
<1>2. SubSeq(frames, 1, 1) \in Seq(Frames) /\ Len(SubSeq(frames, 1, 1)) = 1
  <2> DEFINE n == 1
  <2>1. n \in 0..Len(frames)
    BY <1>1
  <2> HIDE DEF n, frames
  <2>2. SubSeq(frames, 1, n) \in Seq(Frames) /\ Len(SubSeq(frames, 1, n)) = n
    BY <1>1, <2>1, PrefixTyped
  <2> QED BY <2>2 DEF n
<1>3. 1 \in 1..MaxDepth
  BY <1>1
<1> HIDE DEF frames
<1>4. frames \in Stacks /\ SubSeq(frames, 1, 1) \in Stacks
  BY <1>1, <1>2, <1>3 DEF Stacks
<1>5. cursor'.offset >= Reached.at.cursor.offset
  BY ReachedPlace
<1> QED BY <1>4, <1>5, ReachedPlace DEF Moves, Scanned, frames

\* At the end of the text a scan shows the empty token of a mode left open, or of the end of the input.
LEMMA EndShows ==
    ASSUME Scanned, Reached.meets = "end", cursor' = Reached.at.cursor, NEW kind \in Kinds,
           NEW mode \in ModeNames,
           tokens' = Append(tokens, Token(kind, Reached.at.cursor, Reached.at.cursor, mode))
    PROVE  ShowsToken
<1> DEFINE pos == Reached.at.cursor
           token == Token(kind, pos, pos, mode)
<1>1. pos \in Places /\ pos.offset \in 0..Len(text) /\ pos.offset = Len(text) /\ Len(text) \in Nat
  BY ReachedPlace
<1> HIDE DEF pos
<1>2. pos.offset \in pos.offset..Len(text)
  BY <1>1
<1>3. token \in Shown /\ token.start = pos /\ pos.offset + Len(token.lexeme) = pos.offset
  BY <1>1, <1>2, TokenShown DEF Scanned
<1> QED BY <1>1, <1>3 DEF ShowsToken, pos

\* The match of a refused transition is taken too.
LEMMA BadTransitionMoves ==
    ASSUME Scanned, BadTransition(Reached)
    PROVE  /\ Moves /\ ShowsNothing /\ cursor'.offset > Reached.at.cursor.offset
           /\ cursor'.offset = Reached.at.cursor.offset + Match(Reached).len
<1> DEFINE c == Reached.at
           n == Match(Reached).len
<1>1. /\ Reached.meets = "match" /\ cursor' = Advance(text, c.cursor, n)
      /\ stack' = c.stack /\ previous' = previous /\ tokens' = tokens /\ rules' = rules /\ text' = text
  BY DEF BadTransition, Fail
<1>2. n \in 1..(Len(text) - c.cursor.offset)
  BY <1>1, MatchTyped
<1>3. c.cursor \in Places /\ c.cursor.offset \in 0..Len(text) /\ Len(text) \in Nat /\ c.stack \in Stacks
  BY ReachedPlace DEF Stacks
<1> HIDE DEF c, n
<1>4. n \in 0..(Len(text) - c.cursor.offset) /\ c.cursor.offset + n > c.cursor.offset
      /\ c.cursor.offset + n >= c.cursor.offset
  BY <1>2, <1>3
<1>5. cursor' \in Places /\ cursor'.offset = c.cursor.offset + n
  BY <1>1, <1>3, <1>4, PlaceMoves DEF Scanned
<1> QED BY <1>1, <1>3, <1>4, <1>5 DEF Moves, ShowsNothing, Scanned, c, n

\* Every scan_next moves so.
LEMMA StepMoves ==
    ASSUME Scanned, ScanStep
    PROVE  Moves /\ (ShowsNothing \/ ShowsToken)
<1>1. CASE Emit(Reached)
  BY <1>1, EmitMoves
<1>2. CASE EmitErrorRun(Reached)
  BY <1>2, ErrorRunMoves
<1>3. CASE BadTransition(Reached)
  BY <1>3, BadTransitionMoves
<1>4. CASE NoRule(Reached) \/ Unterminated(Reached) \/ ZeroLength(Reached) \/ Exhausts(Reached)
  <2>1. /\ rules' = rules /\ text' = text /\ cursor' = Reached.at.cursor /\ stack' = Reached.at.stack
        /\ previous' = previous /\ tokens' = tokens
    BY <1>4 DEF NoRule, Unterminated, ZeroLength, Exhausts, Fail
  <2> QED BY <2>1, StopMoves DEF ShowsNothing
<1>5. CASE EmitUnterminated(Reached)
  <2>1. /\ rules' = rules /\ text' = text /\ cursor' = Reached.at.cursor
        /\ stack' = SubSeq(Reached.at.stack, 1, 1) /\ previous' = previous /\ Reached.meets = "end"
        /\ tokens' = Append(tokens, Token(ErrorKind, Reached.at.cursor, Reached.at.cursor, Mode(Reached.at)))
    BY <1>5 DEF EmitUnterminated
  <2>2. ErrorKind \in Kinds /\ Mode(Reached.at) \in ModeNames
    BY ReachedPlace DEF Kinds
  <2> QED BY <2>1, <2>2, StopMoves, EndShows
<1>6. CASE End(Reached)
  <2>1. /\ rules' = rules /\ text' = text /\ cursor' = Reached.at.cursor /\ stack' = Reached.at.stack
        /\ previous' = previous /\ Reached.meets = "end"
        /\ \/ tokens' = tokens
           \/ tokens' = Append(tokens, Token(EndOfInput, Reached.at.cursor, Reached.at.cursor, Default))
    BY <1>6 DEF End
  <2>2. EndOfInput \in Kinds /\ Default \in ModeNames
    BY DEF Kinds, ModeNames
  <2> QED BY <2>1, <2>2, StopMoves, EndShows DEF ShowsNothing
<1> QED BY <1>1, <1>2, <1>3, <1>4, <1>5, <1>6 DEF ScanStep

-----------------------------------------------------------------------------
(* Typing *)

\* A scan begins typed, at the beginning of the text.
LEMMA InitScanned == Init => Scanned
<1> SUFFICES ASSUME Init PROVE Scanned
  OBVIOUS
<1>1. /\ rules \in Grammars /\ text \in Texts /\ text \in Seq(Char) /\ cursor = Beginning
      /\ stack = << [mode |-> Default, entry |-> Beginning] >>
      /\ previous = EndOfInput /\ tokens = <<>>
  BY LexerAssumption DEF Init, RootStack
<1>2. Beginning \in Places
  <2> DEFINE none == 0..(0 + 0 - 1)
             breaks == { o \in none : text[o + 1] = NewLine }
             onLine == { o \in none : \A b \in breaks : b < o }
             ones   == { o \in onLine : ColumnStep(text, o) >= 1 }
             twos   == { o \in onLine : ColumnStep(text, o) = 2 }
  <2>1. none = {}
    OBVIOUS
  <2>2. Place(0) = [ offset |-> 0 + 0, line |-> 1 + Cardinality(breaks),
                     column |-> (IF breaks = {} THEN 1 ELSE 1) + Cardinality(ones) + Cardinality(twos) ]
    BY DEF Place, Advance, Beginning
  <2> HIDE DEF none
  <2>3. breaks = {} /\ ones = {} /\ twos = {}
    BY <2>1
  <2>4. Place(0) = Beginning
    BY <2>2, <2>3, FS_EmptySet DEF Beginning
  <2>5. 0 \in Offsets
    BY <1>1 DEF Offsets
  <2> QED BY <2>4, <2>5 DEF Places
<1>3. stack \in Stacks
  <2>1. Default \in ModeNames
    BY DEF ModeNames
  <2>2. [mode |-> Default, entry |-> Beginning] \in Frames
    BY <1>2, <2>1 DEF Frames
  <2>3. Len(stack) = 1 /\ stack \in Seq(Frames)
    <3> DEFINE frame == [mode |-> Default, entry |-> Beginning]
    <3>1. stack = <<frame>> /\ frame \in Frames
      BY <1>1, <2>2
    <3> HIDE DEF frame
    <3> QED BY <3>1
  <2>4. 1 \in 1..MaxDepth
    BY ScannerAssumption
  <2> QED BY <2>3, <2>4 DEF Stacks
<1>4. previous \in Kinds
  BY <1>1 DEF Kinds
<1> QED BY <1>1, <1>2, <1>3, <1>4 DEF Scanned

\* The places, frames and tokens there are depend on the text and the rules only.
LEMMA SameText ==
    ASSUME rules' = rules, text' = text
    PROVE  /\ Offsets' = Offsets /\ Positions' = Positions /\ Places' = Places /\ Stacks' = Stacks
           /\ Frames' = Frames /\ Kinds' = Kinds /\ Shown' = Shown
<1>1. Offsets' = Offsets /\ Positions' = Positions
  BY DEF Offsets, Positions
<1>2. Places' = Places
  BY DEF Places, Place, Offsets
<1>3. ModeNames' = ModeNames /\ Kinds' = Kinds
  BY DEF ModeNames, Kinds, RuleIds
<1>4. Frames' = Frames
  BY <1>2, <1>3 DEF Frames
<1> QED BY <1>1, <1>2, <1>3, <1>4 DEF Stacks, Shown

\* And every scan_next keeps it so.
LEMMA StepScanned == Scanned /\ [ScanStep]_vars => Scanned'
<1> SUFFICES ASSUME Scanned, [ScanStep]_vars PROVE Scanned'
  OBVIOUS
<1>1. CASE ScanStep
  <2>1. Moves /\ (ShowsNothing \/ ShowsToken)
    BY <1>1, StepMoves
  <2>2. tokens' \in Seq(Shown)
    BY <2>1 DEF ShowsNothing, ShowsToken, Scanned
  <2> QED BY <2>1, <2>2, SameText DEF Moves, Scanned
<1>2. CASE UNCHANGED vars
  <2>1. rules' = rules /\ text' = text
    BY <1>2 DEF vars
  <2> QED BY <1>2, <2>1, SameText DEF vars, Scanned
<1> QED BY <1>1, <1>2

\* Both drivers take steps of a scan only, from its beginning.
LEMMA NextScans == [Next]_vars => [ScanStep]_vars
BY DEF Next, ScanStep

\* An iterator's step is a scan_next, after an error too.
LEMMA IncrementScans == [IteratorNext]_iteratorVars => [ScanStep]_vars
BY DEF IteratorNext, Construct, Increment, Shows, Throws, ScanStep, iteratorVars

\* The state is typed; in particular the mode stack is never empty and never deeper than its bound
\* (max_mode_depth), and no position lies outside the text.
LEMMA ScannedSuffices == Scanned => TypeOK
<1> SUFFICES ASSUME Scanned PROVE TypeOK
  OBVIOUS
<1>1. Places \subseteq Positions
  BY PlaceIsPosition DEF Scanned
<1>2. Frames \subseteq [mode : ModeNames, entry : Positions]
  BY <1>1 DEF Frames
<1>3. stack \in Seq([mode : ModeNames, entry : Positions]) /\ Len(stack) \in 1..MaxDepth
  <2> DEFINE F == [mode : ModeNames, entry : Positions]
  <2>1. stack \in Seq(Frames) /\ Len(stack) \in 1..MaxDepth
    BY DEF Scanned, Stacks
  <2>2. Frames \subseteq F
    BY <1>2
  <2> HIDE DEF F
  <2>3. stack \in Seq(F)
    BY <2>1, <2>2
  <2> QED BY <2>1, <2>3 DEF F
<1> DEFINE Typed == [kind : {EndOfInput, ErrorKind} \cup { rules[i].kind : i \in RuleIds },
                     lexeme : Seq(Char), start : Positions, mode : ModeNames]
<1>4. Shown \subseteq Typed
  BY <1>1 DEF Shown, Kinds
<1>5. tokens \in Seq(Typed)
  <2> HIDE DEF Typed
  <2> QED BY <1>4 DEF Scanned
<1> QED BY <1>1, <1>3, <1>5 DEF TypeOK, Scanned, Kinds

\* A scan's state is typed, whoever drives it: the mode stack is never empty nor deeper than its bound
\* (max_mode_depth), every token is of a kind of the lexer and lies in the text, and every position has a
\* line and a column the text is long enough for.
THEOREM ScanTyped == (Spec => []TypeOK) /\ (IteratorSpec => []TypeOK)
<1>1. Spec => []Scanned
  BY InitScanned, NextScans, StepScanned, PTL DEF Spec
<1>2. IteratorSpec => []Scanned
  <2>1. IteratorInit => Scanned
    BY InitScanned DEF IteratorInit
  <2> QED BY <2>1, IncrementScans, StepScanned, PTL DEF IteratorSpec
<1> QED BY <1>1, <1>2, ScannedSuffices, PTL

-----------------------------------------------------------------------------
(* Progress *)

\* What ScanProgresses says of a step.
Progresses ==
    outcome' = Running => \/ cursor'.offset > cursor.offset
                          \/ cursor'.offset = Len(text) /\ Len(stack') < Len(stack)

\* A scan_next that does not end the scan moves on.
LEMMA StepProgresses == Scanned /\ [ScanStep]_vars => [Progresses]_vars
<1> SUFFICES ASSUME Scanned, ScanStep PROVE Progresses
  BY DEF vars
<1>1. /\ cursor.offset \in Int /\ Reached.at.cursor.offset \in Int /\ Len(text) \in Nat
      /\ cursor.offset <= Reached.at.cursor.offset
  BY ReachedPlace
<1>2. CASE Emit(Reached) \/ EmitErrorRun(Reached)
  <2>1. cursor' \in Places' /\ cursor'.offset > Reached.at.cursor.offset /\ rules' = rules /\ text' = text
    BY <1>2, EmitMoves, ErrorRunMoves, SameText DEF Moves
  <2>2. cursor'.offset \in Int
    BY <2>1, SameText, PlaceIsPosition DEF Scanned, Offsets
  <2> QED BY <1>1, <2>1, <2>2 DEF Progresses
<1>3. CASE EmitUnterminated(Reached)
  <2>1. /\ Reached.meets = "end" /\ Len(Reached.at.stack) > 1
        /\ cursor' = Reached.at.cursor /\ stack' = SubSeq(Reached.at.stack, 1, 1)
    BY <1>3 DEF EmitUnterminated
  <2>2. cursor'.offset = Len(text)
    BY <2>1, ReachedPlace
  <2>3. Len(stack') = 1
    BY <2>1, ReachedPlace
  <2>4. \/ Reached.at = [cursor |-> cursor, stack |-> stack]
        \/ Reached.at.cursor.offset > cursor.offset
    BY ReachedTyped
  <2>5. CASE Reached.at = [cursor |-> cursor, stack |-> stack]
    BY <2>1, <2>2, <2>3, <2>5 DEF Progresses
  <2>6. CASE Reached.at.cursor.offset > cursor.offset
    BY <2>1, <2>6 DEF Progresses
  <2> QED BY <2>4, <2>5, <2>6
<1>4. CASE \/ NoRule(Reached) \/ BadTransition(Reached) \/ Unterminated(Reached) \/ ZeroLength(Reached)
           \/ End(Reached) \/ Exhausts(Reached)
  <2>1. outcome'.kind \in {"no_rule", "bad_transition", "unterminated", "zero_length", "end"}
    BY <1>4 DEF NoRule, BadTransition, Unterminated, ZeroLength, End, Exhausts, Fail, Ended
  <2>2. Running.kind = "running"
    BY DEF Running
  <2>3. outcome' # Running
    BY <2>1, <2>2
  <2> QED BY <2>3 DEF Progresses
<1> QED BY <1>2, <1>3, <1>4 DEF ScanStep

\* Every scan ends: a scan_next that does not end it moves the cursor on, or unwinds the mode stack at
\* the end of the text; there is no text and no grammar on which tokenize goes on for ever.
THEOREM ScanMovesOn == (Spec => ScanProgresses) /\ (IteratorSpec => ScanProgresses)
<1>1. Scanned /\ [ScanStep]_vars
        => [outcome' = Running => \/ cursor'.offset > cursor.offset
                                  \/ cursor'.offset = Len(text) /\ Len(stack') < Len(stack)]_vars
  BY StepProgresses DEF Progresses
<1>2. Spec => ScanProgresses
  BY <1>1, InitScanned, NextScans, StepScanned, PTL DEF Spec, ScanProgresses
<1>3. IteratorSpec => ScanProgresses
  <2>1. IteratorInit => Scanned
    BY InitScanned DEF IteratorInit
  <2> QED BY <1>1, <2>1, IncrementScans, StepScanned, PTL DEF IteratorSpec, ScanProgresses
<1> QED BY <1>2, <1>3

-----------------------------------------------------------------------------
(* The tokens shown *)

\* A sequence with a member more.
LEMMA Appended ==
    ASSUME NEW S, NEW s \in Seq(S), NEW x \in S
    PROVE  /\ Len(Append(s, x)) = Len(s) + 1 /\ Len(s) \in Nat
           /\ DOMAIN Append(s, x) = 1..(Len(s) + 1) /\ DOMAIN s = 1..Len(s)
           /\ \A i \in DOMAIN s : Append(s, x)[i] = s[i]
           /\ Append(s, x)[Len(s) + 1] = x
OBVIOUS

\* The offsets of a token shown.
LEMMA ShownOffsets ==
    ASSUME Scanned
    PROVE  /\ DOMAIN tokens = 1..Len(tokens) /\ Len(tokens) \in Nat
           /\ \A j \in DOMAIN tokens : /\ tokens[j] \in Shown
                                       /\ tokens[j].start.offset \in 0..Len(text)
                                       /\ Len(tokens[j].lexeme) \in Nat
                                       /\ tokens[j].lexeme = <<>> <=> Len(tokens[j].lexeme) = 0
<1>1. tokens \in Seq(Shown)
  BY DEF Scanned
<1>2. \A j \in DOMAIN tokens : tokens[j] \in Shown
  BY <1>1
<1>3. \A token \in Shown : token.start.offset \in 0..Len(text) /\ token.lexeme \in Seq(Char)
  BY PlaceIsPosition DEF Shown, Scanned, Offsets
<1>4. DOMAIN tokens = 1..Len(tokens) /\ Len(tokens) \in Nat
  BY <1>1
<1> QED BY <1>2, <1>3, <1>4

\* EqualOnlyAtTheEnd, with what it rests on: no token reaches past the cursor nor into the next one, and
\* an empty one stands at the end of the text.
TokensApart ==
    \A j \in DOMAIN tokens :
        /\ StoodAt(j) <= cursor.offset
        /\ tokens[j].lexeme = <<>> => tokens[j].start.offset = Len(text)
        /\ \A i \in 1..(j - 1) : StoodAt(i) <= tokens[j].start.offset

\* A scan_next adds a token past those before.
LEMMA StepApart == Scanned /\ TokensApart /\ [ScanStep]_vars => TokensApart'
<1> SUFFICES ASSUME Scanned, TokensApart, [ScanStep]_vars PROVE TokensApart'
  OBVIOUS
<1>1. CASE UNCHANGED vars
  BY <1>1 DEF vars, TokensApart, StoodAt
<1>2. CASE ScanStep
  <2> DEFINE at  == Reached.at.cursor.offset
             n   == Len(tokens)
             end == cursor'.offset
  <2>1. Moves /\ (ShowsNothing \/ ShowsToken)
    BY <1>2, StepMoves
  <2>2. /\ cursor.offset \in Nat /\ at \in Nat /\ Len(text) \in Nat /\ cursor.offset <= at
        /\ text' = text /\ end >= at
    BY <2>1, ReachedPlace DEF Moves
  <2>3. end \in Nat
    BY <2>1, PlaceIsPosition DEF Moves, Scanned, Offsets
  <2>4. /\ DOMAIN tokens = 1..n /\ n \in Nat
        /\ \A j \in DOMAIN tokens : StoodAt(j) \in Nat
    BY ShownOffsets DEF StoodAt
  <2>5. \A j \in DOMAIN tokens : StoodAt(j) <= at /\ StoodAt(j) <= end
    <3> HIDE DEF at, end
    <3> QED BY <2>2, <2>3, <2>4 DEF TokensApart
  <2>6. CASE ShowsNothing
    <3>1. \A j \in DOMAIN tokens : StoodAt(j)' = StoodAt(j)
      BY <2>6 DEF ShowsNothing, StoodAt
    <3>2. tokens' = tokens
      BY <2>6 DEF ShowsNothing
    <3> SUFFICES ASSUME NEW j \in DOMAIN tokens
                 PROVE  /\ StoodAt(j) <= end
                        /\ tokens[j].lexeme = <<>> => tokens[j].start.offset = Len(text)
                        /\ \A i \in 1..(j - 1) : StoodAt(i) <= tokens[j].start.offset
      BY <2>2, <3>2 DEF TokensApart, StoodAt
    <3> QED BY <2>5 DEF TokensApart
  <2>7. CASE ShowsToken
    <3>1. PICK token \in Shown :
            /\ tokens' = Append(tokens, token) /\ token.start.offset = at
            /\ token.start.offset + Len(token.lexeme) = end
            /\ token.lexeme = <<>> => end = Len(text)
      BY <2>7 DEF ShowsToken
    <3> HIDE DEF at, end
    <3>2. /\ DOMAIN tokens' = 1..(n + 1) /\ tokens'[n + 1] = token
          /\ \A j \in DOMAIN tokens : tokens'[j] = tokens[j]
      BY <3>1, Appended DEF Scanned
    <3> DEFINE ends(j) == tokens'[j].start.offset + Len(tokens'[j].lexeme)
    <3>3. ends(n + 1) = end /\ \A j \in DOMAIN tokens : ends(j) = StoodAt(j)
      BY <3>1, <3>2 DEF StoodAt
    <3> HIDE DEF ends
    <3>4. ASSUME NEW j \in DOMAIN tokens
          PROVE  /\ ends(j) <= end
                 /\ tokens'[j].lexeme = <<>> => tokens'[j].start.offset = Len(text)
                 /\ \A i \in 1..(j - 1) : ends(i) <= tokens'[j].start.offset
      <4>1. \A i \in 1..(j - 1) : i \in DOMAIN tokens
        BY <2>4
      <4> QED BY <2>5, <3>2, <3>3, <4>1 DEF TokensApart
    <3>5. token.lexeme = <<>> => token.start.offset = Len(text)
      <4>1. Len(<<>>) = 0
        OBVIOUS
      <4> QED BY <2>2, <3>1, <4>1
    <3>6. \A i \in 1..((n + 1) - 1) : ends(i) <= tokens'[n + 1].start.offset
      <4>1. \A i \in 1..((n + 1) - 1) : i \in DOMAIN tokens
        BY <2>4
      <4> QED BY <2>5, <3>1, <3>2, <3>3, <4>1
    <3>7. end <= end
      BY <2>3
    <3>8. ASSUME NEW j \in DOMAIN tokens'
          PROVE  /\ ends(j) <= end
                 /\ tokens'[j].lexeme = <<>> => tokens'[j].start.offset = Len(text)
                 /\ \A i \in 1..(j - 1) : ends(i) <= tokens'[j].start.offset
      <4>1. j \in DOMAIN tokens \/ j = n + 1
        BY <2>4, <3>2
      <4>2. CASE j \in DOMAIN tokens
        BY <3>4, <4>2
      <4>3. CASE j = n + 1
        BY <3>1, <3>2, <3>3, <3>5, <3>6, <3>7, <4>3
      <4> QED BY <4>1, <4>2, <4>3
    <3> QED BY <2>2, <3>8 DEF TokensApart, StoodAt, ends, end
  <2> QED BY <2>1, <2>6, <2>7
<1> QED BY <1>1, <1>2

\* So equal offsets are those of equal iterators.
LEMMA ApartSuffices == Scanned /\ TokensApart => EqualOnlyAtTheEnd
<1> SUFFICES ASSUME Scanned, TokensApart, NEW j \in DOMAIN tokens, NEW i \in 1..(j - 1),
                    StoodAt(i) = StoodAt(j)
             PROVE  StoodAt(j) = Len(text) /\ tokens[j].lexeme = <<>>
  BY DEF EqualOnlyAtTheEnd
<1>1. /\ tokens[j].start.offset \in Nat /\ Len(tokens[j].lexeme) \in Nat
      /\ tokens[j].lexeme = <<>> <=> Len(tokens[j].lexeme) = 0
  BY ShownOffsets
<1>2. StoodAt(j) = tokens[j].start.offset + Len(tokens[j].lexeme)
  BY DEF StoodAt
<1>3. StoodAt(i) <= tokens[j].start.offset
  BY DEF TokensApart
<1>4. tokens[j].lexeme = <<>> => tokens[j].start.offset = Len(text)
  BY DEF TokensApart
<1> QED BY <1>1, <1>2, <1>3, <1>4

\* Two iterators that compare equal (operator== compares their cursors) stand on the same token, unless
\* both are at the end of the text: the tokens shown never overlap, are in the order of the text, and
\* none is empty before its end; past an error too.
THEOREM EqualAtTheEnd == (Spec => []EqualOnlyAtTheEnd) /\ (IteratorSpec => []EqualOnlyAtTheEnd)
<1>1. Init => TokensApart
  BY DEF Init, TokensApart
<1>2. IteratorInit => Scanned /\ TokensApart
  BY <1>1, InitScanned DEF IteratorInit
<1>3. Spec => [](Scanned /\ TokensApart)
  BY <1>1, InitScanned, NextScans, StepScanned, StepApart, PTL DEF Spec
<1>4. IteratorSpec => [](Scanned /\ TokensApart)
  BY <1>2, IncrementScans, StepScanned, StepApart, PTL DEF IteratorSpec
<1> QED BY <1>3, <1>4, ApartSuffices, PTL

-----------------------------------------------------------------------------
(* What threw throws again *)

Stuck == {"no_rule", "zero_length", "unterminated"}

\* The failure a scan_next at c throws, where the turn there meets one.
StuckAt(c, failure) ==
    \/ ErrorPolicy = "raise" /\ Turn(c).meets = "nothing"
       /\ failure = Ended("no_rule", c.cursor, Mode(c))
    \/ Turn(c).meets = "empty"
       /\ failure = Ended("zero_length", c.cursor, Mode(c))
    \/ ErrorPolicy = "raise" /\ Turn(c).meets = "end" /\ Len(c.stack) > 1
       /\ failure = Ended("unterminated", Last(c.stack).entry, Mode(c))

\* A scan that threw stands where it would throw the same again, or past the match whose transition was
\* refused.
ThrownStays ==
    /\ outcome.kind \in Stuck
           => \E c \in Configurations : cursor = c.cursor /\ stack = c.stack /\ StuckAt(c, outcome)
    /\ outcome.kind = "bad_transition" => outcome.where.offset \in 0..(cursor.offset - 1)

\* What a turn at c meets, and what it throws, depend on the rules, the text and the kind before only.
LEMMA SameTurn ==
    ASSUME rules' = rules, text' = text, previous' = previous, NEW c, NEW failure
    PROVE  Turn(c)' = Turn(c) /\ StuckAt(c, failure)' = StuckAt(c, failure)
<1>1. Turn(c)' = Turn(c)
  <2>1. \A mode, at : UnitOf(mode, previous, text, at)' = UnitOf(mode, previous, text, at)
    BY DEF UnitOf, ModeRules, Allowed, RuleIds
  <2>2. \A unit : OnDfa(unit)' = OnDfa(unit)
    BY DEF OnDfa
  <2>3. \A unit, at : Candidates(unit, text, at)' = Candidates(unit, text, at)
    BY DEF Candidates, Bucket, General
  <2>4. \A unit, at : DfaMunch(unit, text, at)' = DfaMunch(unit, text, at)
    BY <2>2 DEF DfaMunch
  <2>5. \A unit, at : PikeMunch(unit, text, at)' = PikeMunch(unit, text, at)
    BY <2>2, <2>3 DEF PikeMunch, OnPike
  <2>6. \A unit, at : MunchAt(unit, text, at)' = MunchAt(unit, text, at)
    BY <2>4, <2>5 DEF MunchAt
  <2> QED BY <2>1, <2>6 DEF Turn, Met, AtEnd, Mode
<1> QED BY <1>1 DEF StuckAt, Mode

\* The failures of a turn are told apart by their kinds.
LEMMA FailureKinds ==
    ASSUME NEW c, NEW failure, StuckAt(c, failure)
    PROVE  /\ failure.kind \in Stuck /\ failure # Running
           /\ failure.kind = "no_rule" <=> Turn(c).meets = "nothing"
           /\ failure.kind = "zero_length" <=> Turn(c).meets = "empty"
           /\ failure.kind = "unterminated" <=> Turn(c).meets = "end"
           /\ failure.kind # "zero_length" => ErrorPolicy = "raise"
           /\ failure.kind = "unterminated" => Len(c.stack) > 1
BY DEF StuckAt, Ended, Stuck, Running

\* A scan_next where the last one threw stops at once, and throws the same.
LEMMA ThrowsThere ==
    ASSUME Scanned, ScanStep, outcome.kind \in Stuck, ThrownStays
    PROVE  /\ outcome' = outcome /\ tokens' = tokens /\ cursor' = cursor /\ stack' = stack
           /\ rules' = rules /\ text' = text /\ previous' = previous
<1>1. PICK c \in Configurations : cursor = c.cursor /\ stack = c.stack /\ StuckAt(c, outcome)
  BY DEF ThrownStays
<1>2. [cursor |-> cursor, stack |-> stack] = c
  BY <1>1 DEF Configurations
<1>3. ~Skips(Turn(c)) /\ Turn(c).at = c
  <2>1. Turn(c).meets # "match"
    BY <1>1 DEF StuckAt
  <2> QED BY <2>1, TurnTyped DEF Scanned, Skips
<1>4. Reached = Turn(c)
  <2> DEFINE S == {c}
  <2>1. [cursor |-> cursor, stack |-> stack] \in S /\ Len(text) \in Nat
    BY <1>2, ReachedPlace
  <2>2. c.cursor.offset \in 0..Len(text)
    BY <1>1, ReachedPlace
  <2>3. \E d \in S : Reached = Turn(d) /\ ~Skips(Turn(d))
    <3>1. \A d \in S : /\ d.cursor.offset \in 0..Len(text)
                       /\ Turn(d).at = d
                       /\ AtEnd(d) => ~Skips(Turn(d))
                       /\ Skips(Turn(d)) => /\ Past(d, Turn(d).munch) \in S
                                            /\ Past(d, Turn(d).munch).cursor.offset > d.cursor.offset
      BY <1>3, <2>2
    <3> HIDE DEF S
    <3> QED BY <2>1, <3>1, ReachedWithin
  <2> QED BY <2>3
<1> DEFINE turn == Turn(c)
<1>5. turn.at = c /\ cursor = c.cursor /\ stack = c.stack /\ StuckAt(c, outcome)
  BY <1>1, <1>3
<1>6. turn.meets \in {"nothing", "empty", "end"}
  BY <1>1 DEF StuckAt
<1>7. \/ Emit(turn) \/ EmitErrorRun(turn) \/ NoRule(turn) \/ BadTransition(turn) \/ Unterminated(turn)
      \/ EmitUnterminated(turn) \/ ZeroLength(turn) \/ End(turn) \/ Exhausts(turn)
  BY <1>4 DEF ScanStep
<1> HIDE DEF turn
<1>8. CASE NoRule(turn)
  <2>1. turn.meets = "nothing"
    BY <1>8 DEF NoRule
  <2>2. outcome = Ended("no_rule", c.cursor, Mode(c))
    BY <1>5, <2>1 DEF StuckAt, turn
  <2> QED BY <1>5, <1>8, <2>2 DEF NoRule, Fail
<1>9. CASE ZeroLength(turn)
  <2>1. turn.meets = "empty"
    BY <1>9 DEF ZeroLength
  <2>2. outcome = Ended("zero_length", c.cursor, Mode(c))
    BY <1>5, <2>1 DEF StuckAt, turn
  <2> QED BY <1>5, <1>9, <2>2 DEF ZeroLength, Fail
<1>10. CASE Unterminated(turn)
  <2>1. turn.meets = "end"
    BY <1>10 DEF Unterminated
  <2>2. outcome = Ended("unterminated", Last(c.stack).entry, Mode(c))
    BY <1>5, <2>1 DEF StuckAt, turn
  <2> QED BY <1>5, <1>10, <2>2 DEF Unterminated, Fail
<1>11. ~Emit(turn) /\ ~BadTransition(turn)
  BY <1>6 DEF Emit, BadTransition
<1>12. ~EmitErrorRun(turn) /\ ~EmitUnterminated(turn)
  BY <1>5, FailureKinds DEF EmitErrorRun, EmitUnterminated, turn, StuckAt
<1>13. ~End(turn) /\ ~Exhausts(turn)
  <2> DEFINE n == Len(turn.at.stack)
  <2>1. n \in Nat /\ (turn.meets = "end" => n > 1)
    BY <1>5 DEF StuckAt, turn, Configurations, Stacks
  <2> HIDE DEF n
  <2>2. ~(turn.meets = "end" /\ n = 1)
    BY <2>1
  <2> QED BY <2>2 DEF End, Exhausts, n
<1> QED BY <1>7, <1>8, <1>9, <1>10, <1>11, <1>12, <1>13

\* A scan_next never goes back.
LEMMA MovesOn ==
    ASSUME Scanned, Moves
    PROVE  /\ cursor'.offset >= cursor.offset
           /\ cursor.offset \in 0..Len(text) /\ cursor'.offset \in 0..Len(text)
           /\ cursor.offset \in Nat /\ cursor'.offset \in Nat
<1>1. cursor' \in Places /\ cursor'.offset >= Reached.at.cursor.offset
  BY DEF Moves
<1>2. cursor'.offset \in 0..Len(text) /\ Len(text) \in Nat
  BY <1>1, PlaceIsPosition DEF Scanned, Offsets
<1> QED BY <1>1, <1>2, ReachedPlace

\* What threw at the cursor throws there again.
LEMMA StepStays == Scanned /\ ThrownStays /\ [ScanStep]_vars => ThrownStays'
<1> SUFFICES ASSUME Scanned, ThrownStays, [ScanStep]_vars PROVE ThrownStays'
  OBVIOUS
\* where a failure stands does not change while nothing the turn depends on does
<1>1. ASSUME NEW c \in Configurations, rules' = rules, text' = text, previous' = previous,
             cursor' = c.cursor, stack' = c.stack, StuckAt(c, outcome')
      PROVE  ThrownStays'
  <2>1. c \in Configurations'
    BY <1>1, SameText DEF Configurations
  <2> DEFINE failure == outcome'
  <2>2. PICK f : f = failure
    OBVIOUS
  <2>3. StuckAt(c, f)' /\ f.kind # "bad_transition"
    <3>1. StuckAt(c, f) /\ f.kind \in Stuck
      BY <1>1, <2>2, FailureKinds
    <3> QED BY <1>1, <3>1, SameTurn DEF Stuck
  <2>4. StuckAt(c, outcome)'
    BY <2>2, <2>3 DEF StuckAt
  <2> QED BY <1>1, <2>1, <2>2, <2>3, <2>4 DEF ThrownStays
<1>2. CASE UNCHANGED vars
  <2>1. CASE outcome.kind \in Stuck
    <3>1. PICK c \in Configurations : cursor = c.cursor /\ stack = c.stack /\ StuckAt(c, outcome)
      BY <2>1 DEF ThrownStays
    <3> QED BY <1>1, <1>2, <3>1 DEF vars
  <2>2. CASE outcome.kind \notin Stuck
    BY <1>2, <2>2 DEF vars, ThrownStays
  <2> QED BY <2>1, <2>2
<1>3. CASE ScanStep /\ outcome.kind \in Stuck
  <2>1. PICK c \in Configurations : cursor = c.cursor /\ stack = c.stack /\ StuckAt(c, outcome)
    BY <1>3 DEF ThrownStays
  <2> QED BY <1>1, <1>3, <2>1, ThrowsThere
<1>4. CASE ScanStep /\ outcome.kind \notin Stuck
  <2> DEFINE turn == Reached
             c    == turn.at
  <2>1. c \in Configurations /\ turn = Turn(c)
    BY ReachedTyped
  <2>2. CASE NoRule(turn) \/ Unterminated(turn) \/ ZeroLength(turn)
    <3>1. /\ rules' = rules /\ text' = text /\ previous' = previous
          /\ cursor' = c.cursor /\ stack' = c.stack
      BY <2>2 DEF NoRule, Unterminated, ZeroLength, Fail
    <3>2. StuckAt(c, outcome')
      <4> HIDE DEF turn
      <4> QED BY <2>1, <2>2 DEF NoRule, Unterminated, ZeroLength, Fail, StuckAt
    <3>3. PICK d : d = c
      OBVIOUS
    <3> QED BY <1>1, <2>1, <3>1, <3>2, <3>3
  <2>3. CASE BadTransition(turn)
    <3>1. cursor'.offset > c.cursor.offset /\ outcome' = Ended("bad_transition", c.cursor, Mode(c))
      BY <2>3, BadTransitionMoves DEF BadTransition, Fail
    <3>2. c.cursor.offset \in Nat /\ cursor'.offset \in Nat
      BY <2>3, ReachedPlace, BadTransitionMoves, MatchTyped DEF BadTransition
    <3>3. outcome'.kind = "bad_transition" /\ outcome'.where.offset \in 0..(cursor'.offset - 1)
      <4> HIDE DEF turn, c
      <4> QED BY <3>1, <3>2 DEF Ended
    <3>4. outcome'.kind \notin Stuck
      BY <3>3 DEF Stuck
    <3> QED BY <3>3, <3>4 DEF ThrownStays
  <2>4. CASE End(turn) \/ Exhausts(turn)
    <3>1. outcome'.kind = "end"
      BY <2>4 DEF End, Exhausts, Ended
    <3> QED BY <3>1 DEF ThrownStays, Stuck
  <2>5. CASE Emit(turn) \/ EmitErrorRun(turn) \/ EmitUnterminated(turn)
    <3>1. outcome' = outcome
      BY <2>5 DEF Emit, EmitErrorRun, EmitUnterminated
    <3>2. cursor'.offset >= cursor.offset
      <4>1. Moves
        BY <1>4, StepMoves
      <4> QED BY <4>1, MovesOn
    <3>3. cursor.offset \in Nat /\ cursor'.offset \in Nat
      BY <1>4, StepMoves, MovesOn
    <3> QED BY <1>4, <3>1, <3>2, <3>3 DEF ThrownStays
  <2> QED BY <1>4, <2>2, <2>3, <2>4, <2>5 DEF ScanStep
<1> QED BY <1>2, <1>3, <1>4

\* An increment after one that threw throws the same again, at the same place, and shows nothing new:
\* nothing is lexed with what stands there left out.  Only the match whose mode transition was refused is
\* gone past: the next token begins after where it begins.
THEOREM FailuresThrowAgain == IteratorSpec => ThrowsAgain
<1> DEFINE Again == /\ outcome.kind \in {"no_rule", "zero_length", "unterminated"}
                          => outcome' = outcome /\ tokens' = tokens
                    /\ outcome.kind = "bad_transition" /\ tokens' # tokens
                          => Last(tokens').start.offset > outcome.where.offset
<1>1. IteratorInit => Scanned /\ ThrownStays
  BY InitScanned DEF IteratorInit, Init, ThrownStays, Stuck, Running
<1>2. ASSUME Scanned, ThrownStays, [ScanStep]_vars PROVE Again
  <2>1. CASE UNCHANGED vars
    BY <2>1 DEF vars
  <2>2. CASE ScanStep /\ outcome.kind \in Stuck
    BY <1>2, <2>2, ThrowsThere DEF Stuck
  <2>3. CASE ScanStep /\ outcome.kind \notin Stuck
    <3>1. SUFFICES ASSUME outcome.kind = "bad_transition", tokens' # tokens
                   PROVE  Last(tokens').start.offset > outcome.where.offset
      BY <2>3 DEF Stuck
    <3>2. ShowsToken
      BY <1>2, <2>3, <3>1, StepMoves DEF ShowsNothing
    <3>3. PICK token \in Shown : tokens' = Append(tokens, token) /\ token.start = Reached.at.cursor
      BY <3>2 DEF ShowsToken
    <3>4. Last(tokens') = token
      BY <1>2, <3>3, Appended DEF Last, Scanned
    <3>5. outcome.where.offset \in 0..(cursor.offset - 1)
      BY <1>2, <3>1 DEF ThrownStays
    <3>6. /\ cursor.offset \in Nat /\ token.start.offset \in Nat
          /\ cursor.offset <= token.start.offset
      BY <1>2, <3>3, ReachedPlace
    <3> QED BY <3>4, <3>5, <3>6
  <2> QED BY <1>2, <2>1, <2>2, <2>3
<1>3. Scanned /\ ThrownStays /\ [IteratorNext]_iteratorVars => [Again]_iteratorVars
  BY <1>2, IncrementScans
<1>4. Scanned /\ ThrownStays /\ [IteratorNext]_iteratorVars => (Scanned /\ ThrownStays)'
  BY IncrementScans, StepScanned, StepStays
<1> QED BY <1>1, <1>3, <1>4, PTL DEF IteratorSpec, ThrowsAgain

-----------------------------------------------------------------------------
(* The mode stack *)

\* What a turn that meets a match takes is what regex::match takes of the rule, on a DFA too.
LEMMA TurnTakesMatch ==
    ASSUME rules \in Grammars, text \in Texts, text \in Seq(Char), NEW c \in Configurations,
           Turn(c).meets = "match"
    PROVE  MatchLength(rules[Turn(c).munch.idx].pattern, text, c.cursor.offset) = Turn(c).munch.len
<1> DEFINE at   == c.cursor.offset
           unit == UnitOf(Mode(c), previous, text, at)
           m    == MunchAt(unit, text, at)
<1>1. at \in 0..(Len(text) - 1)
  <2>1. at \in 0..Len(text) /\ Len(text) \in Nat
    BY PlaceIsPosition DEF Configurations, Offsets
  <2>2. at # Len(text)
    BY DEF Turn, AtEnd
  <2> HIDE DEF at
  <2> QED BY <2>1, <2>2
<1>2. Turn(c) = Met(c, m)
  BY DEF Turn
<1>3. m.have => MatchLength(rules[m.idx].pattern, text, at) = m.len
  BY <1>1, MunchIsSome
<1> HIDE DEF m
<1>4. Met(c, m) = [ at |-> c, munch |-> m,
                    meets |-> IF ~m.have THEN "nothing" ELSE IF m.len = 0 THEN "empty" ELSE "match" ]
  BY DEF Met
<1>5. Turn(c).munch = m /\ m.have
  BY <1>2, <1>4
<1> QED BY <1>3, <1>5

Entry(c, i) == c.stack[i].entry.offset

\* What the match that opened a frame must end by: the entry of the next frame, or the cursor.
Before(c, i) == IF i < Len(c.stack) THEN Entry(c, i + 1) ELSE c.cursor.offset

\* FramesAreOpeners, of a configuration.
FramesOpen(c) ==
    \A i \in 2..Len(c.stack) : \E r \in RuleIds :
        /\ rules[r].op = "push"
        /\ MatchLength(rules[r].pattern, text, Entry(c, i)) \in 1..(Before(c, i) - Entry(c, i))

\* The places of a configuration.
LEMMA FrameEntries ==
    ASSUME text \in Seq(Char), NEW c \in Configurations
    PROVE  /\ Len(text) \in Nat /\ c.cursor.offset \in 0..Len(text)
           /\ Len(c.stack) \in Nat /\ Len(c.stack) >= 1
           /\ \A i \in 1..Len(c.stack) : c.stack[i] \in Frames /\ Entry(c, i) \in 0..Len(text)
<1>1. c.cursor \in Places /\ c.stack \in Seq(Frames) /\ Len(c.stack) \in 1..MaxDepth
  BY DEF Configurations, Stacks
<1>2. c.cursor.offset \in 0..Len(text) /\ Len(text) \in Nat
  BY <1>1, PlaceIsPosition DEF Offsets
<1>3. Len(c.stack) \in Nat /\ Len(c.stack) >= 1
  BY <1>1, ScannerAssumption
<1>4. \A i \in 1..Len(c.stack) : c.stack[i] \in Frames
  <2> DEFINE s == c.stack
  <2>1. s \in Seq(Frames)
    BY <1>1
  <2> HIDE DEF s
  <2>2. \A i \in 1..Len(s) : s[i] \in Frames
    BY <2>1
  <2> QED BY <2>2 DEF s
<1>5. \A f \in Frames : f.entry.offset \in 0..Len(text)
  BY PlaceIsPosition DEF Frames, Offsets
<1> QED BY <1>2, <1>3, <1>4, <1>5 DEF Entry

\* No frame was entered past the cursor.
LEMMA EntriesBehind ==
    ASSUME text \in Seq(Char), NEW c \in Configurations, FramesOpen(c), NEW i \in 2..Len(c.stack)
    PROVE  Entry(c, i) < Before(c, i)
<1>1. PICK r \in RuleIds : MatchLength(rules[r].pattern, text, Entry(c, i))
                           \in 1..(Before(c, i) - Entry(c, i))
  BY DEF FramesOpen
<1>2. 1..(Before(c, i) - Entry(c, i)) # {}
  BY <1>1
<1>3. Before(c, i) \in Int /\ Entry(c, i) \in Int
  <2>1. i \in 1..Len(c.stack) /\ (i < Len(c.stack) => i + 1 \in 1..Len(c.stack))
    BY FrameEntries
  <2> QED BY <2>1, FrameEntries DEF Before
<1> QED BY <1>2, <1>3

\* Frames stay open while the scan moves on.
LEMMA OpenersStay ==
    ASSUME text \in Seq(Char), NEW c \in Configurations, FramesOpen(c), NEW d \in Configurations,
           d.stack = c.stack, d.cursor.offset >= c.cursor.offset
    PROVE  FramesOpen(d)
<1> SUFFICES ASSUME NEW i \in 2..Len(c.stack)
             PROVE  \E r \in RuleIds :
                      /\ rules[r].op = "push"
                      /\ MatchLength(rules[r].pattern, text, Entry(d, i)) \in 1..(Before(d, i) - Entry(d, i))
  BY DEF FramesOpen
<1>1. PICK r \in RuleIds : /\ rules[r].op = "push"
                           /\ MatchLength(rules[r].pattern, text, Entry(c, i))
                                \in 1..(Before(c, i) - Entry(c, i))
  BY DEF FramesOpen
<1>2. Entry(d, i) = Entry(c, i) /\ Entry(d, i + 1) = Entry(c, i + 1)
  BY DEF Entry
<1>3. i \in 1..Len(c.stack) /\ (i < Len(c.stack) => i + 1 \in 1..Len(c.stack))
  BY FrameEntries
<1>4. Before(c, i) \in Int /\ Before(d, i) \in Int /\ Before(d, i) >= Before(c, i) /\ Entry(c, i) \in Int
  BY <1>2, <1>3, FrameEntries DEF Before
<1> DEFINE n == MatchLength(rules[r].pattern, text, Entry(c, i))
<1>5. n \in 1..(Before(d, i) - Entry(d, i))
  <2> HIDE DEF n
  <2> QED BY <1>1, <1>2, <1>4 DEF n
<1> QED BY <1>1, <1>2, <1>5

\* A match that is not refused, extended or not, leaves every frame where a push rule opened it: the
\* frame a push adds is where the match begins, and a pop brings back one that was.
LEMMA OpenersMove ==
    ASSUME rules \in Grammars, text \in Seq(Char), NEW c \in Configurations, FramesOpen(c),
           NEW r \in RuleIds, ~Refused(rules[r], c.stack), NEW d \in Configurations,
           d.stack = Transition(rules[r], c.cursor, c.stack),
           NEW n \in Nat, n > 0, MatchLength(rules[r].pattern, text, c.cursor.offset) = n,
           d.cursor.offset >= c.cursor.offset + n
    PROVE  FramesOpen(d)
<1> DEFINE k == Len(c.stack)
           from == c.cursor.offset
<1>1. /\ k \in Nat /\ k >= 1 /\ from \in Nat /\ c.stack \in Seq(Frames)
      /\ d.cursor.offset \in Nat /\ d.cursor.offset >= from
  BY FrameEntries DEF Configurations, Stacks
<1>2. rules[r] \in Rule
  BY RulesTyped
<1>3. CASE rules[r].op = "none"
  BY <1>1, <1>3, OpenersStay DEF Transition
<1>4. CASE rules[r].op = "push"
  <2> DEFINE frame == [mode |-> rules[r].target, entry |-> c.cursor]
  <2>1. d.stack = Append(c.stack, frame)
    BY <1>4 DEF Transition
  <2>2. /\ Len(d.stack) = k + 1 /\ d.stack[k + 1] = frame
        /\ \A i \in 1..k : d.stack[i] = c.stack[i]
    <3>1. rules[r].target \in ModeNames /\ c.cursor \in Places
      BY <1>4 DEF ModeNames, Targets, Configurations
    <3>2. frame \in Frames
      BY <3>1 DEF Frames
    <3> HIDE DEF frame
    <3> QED BY <1>1, <2>1, <3>2, Appended
  <2>3. Entry(d, k + 1) = from /\ \A i \in 1..k : Entry(d, i) = Entry(c, i)
    BY <2>2 DEF Entry
  <2>4. Before(d, k + 1) = d.cursor.offset /\ \A i \in 1..k : Before(d, i) = Before(c, i)
    <3>1. ~(k + 1 < k + 1)
      BY <1>1
    <3>2. ASSUME NEW i \in 1..k PROVE Before(d, i) = Before(c, i)
      <4>1. i < k + 1
        BY <1>1
      <4>2. CASE i < k
        <5>1. i + 1 \in 1..k
          BY <1>1, <4>2
        <5> QED BY <2>2, <2>3, <4>1, <4>2, <5>1 DEF Before
      <4>3. CASE ~(i < k)
        <5>1. i = k
          BY <1>1, <4>3
        <5> QED BY <2>2, <2>3, <4>1, <4>3, <5>1 DEF Before
      <4> QED BY <4>2, <4>3
    <3> QED BY <2>2, <3>1, <3>2 DEF Before
  <2>5. n \in 1..(Before(d, k + 1) - Entry(d, k + 1))
    BY <1>1, <2>3, <2>4
  <2> HIDE DEF k
  <2> SUFFICES ASSUME NEW i \in 2..(k + 1)
               PROVE  \E q \in RuleIds :
                        /\ rules[q].op = "push"
                        /\ MatchLength(rules[q].pattern, text, Entry(d, i))
                             \in 1..(Before(d, i) - Entry(d, i))
    BY <2>2 DEF FramesOpen
  <2>6. CASE i = k + 1
    BY <1>4, <2>3, <2>5, <2>6
  <2>7. CASE i # k + 1
    <3>1. i \in 2..k /\ i \in 1..k
      BY <1>1, <2>7
    <3> QED BY <2>3, <2>4, <3>1 DEF FramesOpen, k
  <2> QED BY <2>6, <2>7
<1>5. CASE rules[r].op = "pop"
  <2>1. d.stack = SubSeq(c.stack, 1, k - 1) /\ k # 1
    BY <1>5 DEF Transition, Front, Refused
  <2>2. Len(d.stack) = k - 1 /\ \A i \in 1..(k - 1) : d.stack[i] = c.stack[i]
    <3> DEFINE m == k - 1
    <3>1. m \in 0..Len(c.stack)
      BY <1>1
    <3> HIDE DEF m, k
    <3>2. Len(SubSeq(c.stack, 1, m)) = m /\ \A i \in 1..m : SubSeq(c.stack, 1, m)[i] = c.stack[i]
      BY <1>1, <3>1, PrefixTyped
    <3> QED BY <2>1, <3>2 DEF m
  <2>3. \A i \in 1..(k - 1) : Entry(d, i) = Entry(c, i)
    BY <2>2 DEF Entry
  <2>4. Entry(c, k) < from
    <3>1. k \in 2..k /\ ~(k < k)
      <4>1. k \in Nat /\ k >= 1 /\ k # 1
        BY <1>1, <2>1
      <4> HIDE DEF k
      <4> QED BY <4>1
    <3> QED BY <3>1, EntriesBehind DEF Before
  <2> SUFFICES ASSUME NEW i \in 2..(k - 1)
               PROVE  \E q \in RuleIds :
                        /\ rules[q].op = "push"
                        /\ MatchLength(rules[q].pattern, text, Entry(d, i))
                             \in 1..(Before(d, i) - Entry(d, i))
    BY <2>2 DEF FramesOpen
  <2>5. i \in 2..k /\ i \in 1..(k - 1) /\ i < k /\ i + 1 \in 1..k
    BY <1>1
  <2>6. PICK q \in RuleIds : /\ rules[q].op = "push"
                             /\ MatchLength(rules[q].pattern, text, Entry(c, i))
                                  \in 1..(Before(c, i) - Entry(c, i))
    BY <2>5 DEF FramesOpen
  <2>7. Before(d, i) >= Before(c, i) /\ Before(d, i) \in Int /\ Before(c, i) \in Int
    <3>1. Before(c, i) = Entry(c, i + 1) /\ Entry(c, i + 1) \in Int
      BY <2>5, FrameEntries DEF Before
    <3>2. CASE i < k - 1
      <4>1. i + 1 \in 1..(k - 1)
        BY <1>1, <3>2
      <4> QED BY <2>2, <2>3, <3>1, <3>2, <4>1 DEF Before
    <3>3. CASE ~(i < k - 1)
      <4>1. i + 1 = k
        BY <1>1, <3>3
      <4>2. Before(d, i) = d.cursor.offset
        BY <2>2, <3>3 DEF Before
      <4>3. Before(c, i) = Entry(c, k) /\ Before(c, i) \in Int
        BY <3>1, <4>1
      <4> HIDE DEF k, from
      <4> QED BY <1>1, <2>4, <4>2, <4>3
    <3> QED BY <3>2, <3>3
  <2> DEFINE m == MatchLength(rules[q].pattern, text, Entry(c, i))
  <2>8. m \in 1..(Before(d, i) - Entry(c, i))
    <3>1. Entry(c, i) \in Int
      BY <2>5, FrameEntries
    <3> HIDE DEF m
    <3> QED BY <2>6, <2>7, <3>1 DEF m
  <2> QED BY <2>3, <2>5, <2>6, <2>8
<1>6. CASE rules[r].op = "set"
  <2>1. d.stack = [c.stack EXCEPT ![k].mode = rules[r].target]
    BY <1>6 DEF Transition
  <2>2. Len(d.stack) = k /\ \A i \in 1..k : d.stack[i].entry = c.stack[i].entry
    <3>1. \A i \in 1..k : c.stack[i] \in Frames
      BY FrameEntries
    <3> QED BY <1>1, <2>1, <3>1 DEF Frames
  <2> DEFINE e == [c EXCEPT !.cursor = d.cursor]
  <2>3. e \in Configurations /\ e.stack = c.stack /\ e.cursor = d.cursor
    BY DEF Configurations
  <2>4. FramesOpen(e)
    <3> HIDE DEF e
    <3> QED BY <1>1, <2>3, OpenersStay
  <2>5. Len(e.stack) = Len(d.stack) /\ \A i \in 1..k : Entry(d, i) = Entry(e, i)
    BY <2>2, <2>3 DEF Entry
  <2> HIDE DEF e
  <2>6. ASSUME NEW i \in 2..k PROVE Entry(d, i) = Entry(e, i) /\ Before(d, i) = Before(e, i)
    <3>1. i \in 1..k /\ (i < k => i + 1 \in 1..k)
      BY <1>1
    <3> QED BY <2>2, <2>3, <2>5, <3>1 DEF Before
  <2> QED BY <2>2, <2>3, <2>4, <2>6 DEF FramesOpen
<1> QED BY <1>2, <1>3, <1>4, <1>5, <1>6 DEF Rule

\* The skip matches leave the frames open too.
LEMMA ReachedOpen ==
    ASSUME Scanned, FramesOpen([cursor |-> cursor, stack |-> stack])
    PROVE  FramesOpen(Reached.at)
<1> DEFINE start == [cursor |-> cursor, stack |-> stack]
           S     == { c \in Configurations : FramesOpen(c) }
<1>1. start \in S /\ Len(text) \in Nat
  BY DEF Scanned, Configurations
<1>2. ASSUME NEW c \in S
      PROVE  /\ c.cursor.offset \in 0..Len(text)
             /\ Turn(c).at = c
             /\ AtEnd(c) => ~Skips(Turn(c))
             /\ Skips(Turn(c)) => /\ Past(c, Turn(c).munch) \in S
                                  /\ Past(c, Turn(c).munch).cursor.offset > c.cursor.offset
  <2>1. c.cursor.offset \in 0..Len(text) /\ Len(text) \in Nat
    BY FrameEntries DEF Scanned
  <2>2. Turn(c).at = c /\ (AtEnd(c) => ~Skips(Turn(c)))
    BY TurnTyped DEF Scanned, Skips
  <2>3. ASSUME Skips(Turn(c))
        PROVE  /\ Past(c, Turn(c).munch) \in S
               /\ Past(c, Turn(c).munch).cursor.offset > c.cursor.offset
    <3> DEFINE m == Turn(c).munch
    <3>1. m.idx \in RuleIds /\ m.len \in 1..(Len(text) - c.cursor.offset)
          /\ ~Refused(rules[m.idx], c.stack)
      BY <2>2, <2>3, TurnTyped DEF Scanned, Skips, Won
    <3>2. MatchLength(rules[m.idx].pattern, text, c.cursor.offset) = m.len
      BY <2>3, TurnTakesMatch DEF Scanned, Skips
    <3> HIDE DEF m
    <3>3. Past(c, m) \in Configurations /\ Past(c, m).cursor.offset = c.cursor.offset + m.len
      BY <3>1, PastTyped DEF Scanned
    <3>4. Past(c, m).stack = Transition(rules[m.idx], c.cursor, c.stack)
      BY DEF Past
    <3>5. m.len \in Nat /\ m.len > 0 /\ c.cursor.offset + m.len > c.cursor.offset
          /\ c.cursor.offset + m.len >= c.cursor.offset + m.len
      BY <2>1, <3>1
    <3>6. FramesOpen(Past(c, m))
      <4> DEFINE d == Past(c, m)
                 r == m.idx
                 n == m.len
      <4>1. /\ d \in Configurations /\ r \in RuleIds /\ ~Refused(rules[r], c.stack) /\ FramesOpen(c)
            /\ d.stack = Transition(rules[r], c.cursor, c.stack) /\ n \in Nat /\ n > 0
            /\ MatchLength(rules[r].pattern, text, c.cursor.offset) = n
            /\ d.cursor.offset >= c.cursor.offset + n
        BY <3>1, <3>2, <3>3, <3>4, <3>5
      <4> HIDE DEF d, r, n
      <4>2. FramesOpen(d)
        BY <4>1, OpenersMove DEF Scanned
      <4> QED BY <4>2 DEF d
    <3> QED BY <3>3, <3>5, <3>6 DEF m
  <2> QED BY <2>1, <2>2, <2>3
<1> HIDE DEF S
<1>3. PICK c \in S : Reached = Turn(c) /\ ~Skips(Turn(c))
  BY <1>1, <1>2, ReachedWithin
<1> QED BY <1>2, <1>3 DEF S

\* A scan's stack is one of open frames, and where an open mode was reported lies within the text.
Nested ==
    /\ FramesOpen([cursor |-> cursor, stack |-> stack])
    /\ outcome.kind = "unterminated" => outcome.where.offset < Len(text)

\* A frame is entered at a match that the cursor goes past.
LEMMA StepNested == Scanned /\ Nested /\ [ScanStep]_vars => Nested'
<1> SUFFICES ASSUME Scanned, Nested, [ScanStep]_vars PROVE Nested'
  OBVIOUS
<1> DEFINE start == [cursor |-> cursor, stack |-> stack]
\* being open depends on the rules and the text only
<1>1. ASSUME rules' = rules, text' = text, NEW d, cursor' = d.cursor, stack' = d.stack,
             d = [cursor |-> d.cursor, stack |-> d.stack], FramesOpen(d)
      PROVE  FramesOpen(start)'
  <2>1. Len(stack') = Len(d.stack) /\ RuleIds' = RuleIds
    BY <1>1 DEF RuleIds
  <2>2. \A i : Entry(start, i)' = Entry(d, i)
    BY <1>1 DEF Entry
  <2>3. \A i : Before(start, i)' = Before(d, i)
    BY <1>1, <2>1, <2>2 DEF Before, Entry
  <2> QED BY <1>1, <2>1, <2>2, <2>3 DEF FramesOpen
<1>2. CASE UNCHANGED vars
  <2>1. FramesOpen(start)'
    <3>1. PICK d : d = start
      OBVIOUS
    <3> QED BY <1>1, <1>2, <3>1 DEF vars, Nested
  <2> QED BY <1>2, <2>1 DEF vars, Nested
<1>3. CASE ScanStep
  <2> DEFINE turn == Reached
  <2>1. PICK c \in Configurations : c = turn.at
    BY ReachedTyped
  <2>2. FramesOpen(c) /\ c.cursor.offset \in 0..Len(text) /\ Len(text) \in Nat
    BY <2>1, ReachedOpen, FrameEntries DEF Nested, Scanned
  <2>3. Moves
    BY <1>3, StepMoves
  <2>4. /\ rules' = rules /\ text' = text /\ cursor' \in Places /\ stack' \in Stacks
        /\ cursor'.offset >= c.cursor.offset
    BY <2>1, <2>3 DEF Moves
  <2>5. PICK d : d = [cursor |-> cursor', stack |-> stack']
    OBVIOUS
  <2>6. d \in Configurations /\ d.cursor = cursor' /\ d.stack = stack'
        /\ d = [cursor |-> d.cursor, stack |-> d.stack]
    BY <2>4, <2>5 DEF Configurations
  <2>7. FramesOpen(d)
    <3>1. CASE stack' = c.stack
      BY <2>2, <2>4, <2>6, <3>1, OpenersStay DEF Scanned
    <3>2. CASE Emit(turn)
      <4> DEFINE r == turn.munch.idx
                 n == turn.munch.len
      <4>1. turn.meets = "match" /\ ~Refused(rules[r], c.stack)
        BY <2>1, <3>2 DEF Emit, Won
      <4>2. /\ r \in RuleIds /\ n \in 1..(Len(text) - c.cursor.offset)
            /\ Match(turn).len \in 1..(Len(text) - c.cursor.offset) /\ Match(turn).len >= n
        BY <2>1, <4>1, MatchTyped
      <4>3. MatchLength(rules[r].pattern, text, c.cursor.offset) = n
        BY <2>1, <4>1, ReachedTyped, TurnTakesMatch DEF Scanned
      <4>4. /\ d.stack = Transition(rules[r], c.cursor, c.stack)
            /\ d.cursor.offset = c.cursor.offset + Match(turn).len
        BY <2>1, <2>6, <3>2, EmitMoves DEF Won
      <4> HIDE DEF r, n, turn
      <4>5. n \in Nat /\ n > 0 /\ d.cursor.offset >= c.cursor.offset + n
        BY <2>2, <4>2, <4>4
      <4> QED BY <2>2, <2>6, <4>1, <4>2, <4>3, <4>4, <4>5, OpenersMove DEF Scanned
    <3>3. CASE EmitUnterminated(turn)
      <4>1. stack' = SubSeq(c.stack, 1, 1)
        BY <2>1, <3>3 DEF EmitUnterminated
      <4>2. Len(d.stack) = 1
        <5>1. c.stack \in Seq(Frames) /\ Len(c.stack) >= 1
          BY FrameEntries DEF Configurations, Stacks, Scanned
        <5> QED BY <2>6, <4>1, <5>1
      <4>3. 2..Len(d.stack) = {}
        BY <4>2
      <4> QED BY <4>3 DEF FramesOpen
    <3>4. CASE \/ EmitErrorRun(turn) \/ NoRule(turn) \/ BadTransition(turn) \/ Unterminated(turn)
               \/ ZeroLength(turn) \/ End(turn) \/ Exhausts(turn)
      <4>1. stack' = c.stack
        BY <2>1, <3>4 DEF EmitErrorRun, NoRule, BadTransition, Unterminated, ZeroLength, End, Exhausts,
                          Fail
      <4> QED BY <3>1, <4>1
    <3> QED BY <1>3, <3>2, <3>3, <3>4 DEF ScanStep
  <2>8. FramesOpen(start)'
    BY <1>1, <2>4, <2>6, <2>7
  <2>9. outcome'.kind = "unterminated" => outcome'.where.offset < Len(text')
    <3>1. CASE Unterminated(turn)
      <4> DEFINE k == Len(c.stack)
      <4>1. outcome' = Ended("unterminated", c.stack[k].entry, Mode(c)) /\ k > 1
        BY <2>1, <3>1 DEF Unterminated, Fail, Last
      <4>2. k \in 2..Len(c.stack) /\ ~(k < Len(c.stack))
        <5>1. k \in Nat
          BY FrameEntries DEF Scanned
        <5> QED BY <4>1, <5>1
      <4>3. Entry(c, k) < c.cursor.offset /\ Entry(c, k) \in Int
        <5>1. k \in 1..Len(c.stack)
          BY <4>2
        <5> QED BY <2>2, <4>2, <5>1, EntriesBehind, FrameEntries DEF Before, Scanned
      <4>4. outcome'.where.offset = Entry(c, k)
        BY <4>1 DEF Ended, Entry
      <4> HIDE DEF k
      <4> QED BY <2>2, <2>4, <4>3, <4>4
    <3>2. CASE Emit(turn) \/ EmitErrorRun(turn) \/ EmitUnterminated(turn)
      <4>1. outcome' = outcome
        BY <3>2 DEF Emit, EmitErrorRun, EmitUnterminated
      <4> QED BY <2>4, <4>1 DEF Nested
    <3>3. CASE \/ NoRule(turn) \/ BadTransition(turn) \/ ZeroLength(turn) \/ End(turn)
               \/ Exhausts(turn)
      <4>1. outcome'.kind \in {"no_rule", "bad_transition", "zero_length", "end"}
        BY <3>3 DEF NoRule, BadTransition, ZeroLength, End, Exhausts, Fail, Ended
      <4> QED BY <4>1
    <3> QED BY <1>3, <3>1, <3>2, <3>3 DEF ScanStep
  <2> QED BY <2>8, <2>9 DEF Nested
<1> QED BY <1>2, <1>3

\* So the frames hold where their openers stood.
LEMMA NestedSuffices == Scanned /\ Nested => FramesAreOpeners
<1> SUFFICES ASSUME Scanned, Nested PROVE FramesAreOpeners
  OBVIOUS
<1> DEFINE c == [cursor |-> cursor, stack |-> stack]
<1>1. c \in Configurations /\ FramesOpen(c)
  BY DEF Scanned, Configurations, Nested
<1>2. ASSUME NEW i \in 2..Len(stack)
      PROVE  \E r \in RuleIds :
               /\ rules[r].op = "push"
               /\ LET length == MatchLength(rules[r].pattern, text, stack[i].entry.offset)
                      before == IF i < Len(stack) THEN stack[i + 1].entry.offset ELSE cursor.offset
                  IN  length > 0 /\ stack[i].entry.offset + length <= before
  <2>1. PICK r \in RuleIds : /\ rules[r].op = "push"
                             /\ MatchLength(rules[r].pattern, text, Entry(c, i))
                                  \in 1..(Before(c, i) - Entry(c, i))
    BY <1>1 DEF FramesOpen
  <2>2. /\ Entry(c, i) = stack[i].entry.offset
        /\ Before(c, i) = IF i < Len(stack) THEN stack[i + 1].entry.offset ELSE cursor.offset
    BY DEF Entry, Before
  <2>3. Entry(c, i) \in Int /\ Before(c, i) \in Int
    <3>1. i \in 1..Len(c.stack) /\ (i < Len(c.stack) => i + 1 \in 1..Len(c.stack))
      BY <1>1, FrameEntries DEF Scanned
    <3> QED BY <1>1, <3>1, FrameEntries DEF Before, Scanned
  <2> DEFINE n == MatchLength(rules[r].pattern, text, Entry(c, i))
             from == Entry(c, i)
             to == Before(c, i)
  <2>4. n > 0 /\ from + n <= to
    <3>1. n \in 1..(to - from) /\ from \in Int /\ to \in Int
      BY <2>1, <2>3
    <3> HIDE DEF n, from, to
    <3> QED BY <3>1
  <2> QED BY <2>1, <2>2, <2>4
<1> QED BY <1>2 DEF FramesAreOpeners, Nested

\* A scan begins with no mode open.
LEMMA InitNested == Init => Scanned /\ Nested
<1> SUFFICES ASSUME Init PROVE Scanned /\ Nested
  OBVIOUS
<1>1. Len(stack) = 1 /\ outcome.kind = "running"
  BY DEF Init, RootStack, Running
<1>2. 2..Len(stack) = {}
  BY <1>1
<1> QED BY <1>1, <1>2, InitScanned DEF Nested, FramesOpen

\* Every frame of the mode stack above the root holds the place of a match of a push rule that ends before
\* the next frame's, or before the cursor: what an unterminated mode is reported with is where it was
\* opened, however many transitions, extensions, error runs and failures came after.
THEOREM FramesHoldOpeners == (Spec => []FramesAreOpeners) /\ (IteratorSpec => []FramesAreOpeners)
<1>1. IteratorInit => Scanned /\ Nested
  BY InitNested DEF IteratorInit
<1>2. Spec => [](Scanned /\ Nested)
  BY InitNested, NextScans, StepScanned, StepNested, PTL DEF Spec
<1>3. IteratorSpec => [](Scanned /\ Nested)
  BY <1>1, IncrementScans, StepScanned, StepNested, PTL DEF IteratorSpec
<1> QED BY <1>2, <1>3, NestedSuffices, PTL

-----------------------------------------------------------------------------
(* The open blocks *)

\* Whether a rule that opens blocks matches at an offset.
Opens(at) ==
    \E r \in RuleIds : rules[r].indent \in {"entry", "key"} /\ MatchLength(rules[r].pattern, text, at) > 0

\* The columns of such matches before an offset.
OpeningColumns(limit) == { Place(at).column - 1 : at \in { o \in 0..(limit - 1) : Opens(o) } }

\* The open blocks nest, and the key candidate of the line is a key that was matched.
BlocksOpen ==
    /\ Nests(indents.levels, OpeningColumns(cursor.offset))
    /\ indents.key \in OpeningColumns(cursor.offset) \cup {-1}

\* A place's column, from 0.
LEMMA PlaceColumns ==
    ASSUME text \in Seq(Char), NEW pos \in Places
    PROVE  pos.column - 1 \in Nat /\ pos = Place(pos.offset)
<1>1. PICK o \in Offsets : pos = Place(o)
  BY DEF Places
<1>2. pos.column \in 1..(Len(text) + 1) /\ pos.offset = o
  BY <1>1, PlaceTyped DEF Place, Offsets
<1> QED BY <1>1, <1>2

\* The columns of the openings up to an offset are natural numbers.
LEMMA OpeningsTyped ==
    ASSUME text \in Seq(Char), NEW limit \in Offsets
    PROVE  OpeningColumns(limit) \in SUBSET Nat
<1> SUFFICES ASSUME NEW at \in 0..(limit - 1) PROVE Place(at).column - 1 \in Nat
  BY DEF OpeningColumns
<1>1. at \in Offsets
  BY DEF Offsets
<1> QED BY <1>1, PlaceColumns DEF Places, PlaceIsPosition

\* Further on there are no fewer of them.
LEMMA OpeningsGrow ==
    ASSUME NEW m \in Nat, NEW n \in Nat, m <= n
    PROVE  OpeningColumns(m) \subseteq OpeningColumns(n)
<1>1. \A o \in 0..(m - 1) : o \in 0..(n - 1)
  OBVIOUS
<1> QED BY <1>1 DEF OpeningColumns

\* Nesting at more columns.
LEMMA NestsAmong ==
    ASSUME NEW C, NEW D, C \subseteq D, NEW levels, Nests(levels, C)
    PROVE  Nests(levels, D)
BY DEF Nests

\* A match taken, whether its transition is refused or not, leaves the blocks nested.
LEMMA MatchNests ==
    ASSUME Scanned, BlocksOpen, Reached.meets = "match", cursor' \in Places,
           cursor'.offset > Reached.at.cursor.offset
    PROVE  LET next == Indented(Won(Reached), Mode(Reached.at), Reached.at.cursor, indents)
               C    == OpeningColumns(cursor'.offset)
           IN  Nests(next.levels, C) /\ next.key \in C \cup {-1}
<1> DEFINE pos  == Reached.at.cursor
           role == Won(Reached).indent
           C    == OpeningColumns(cursor'.offset)
           next == Indented(Won(Reached), Mode(Reached.at), pos, indents)
<1>1. /\ pos \in Places /\ pos.offset \in 0..Len(text) /\ cursor.offset \in 0..Len(text)
      /\ cursor.offset <= pos.offset /\ Len(text) \in Nat /\ text \in Seq(Char)
  BY ReachedPlace DEF Scanned
<1>2. cursor'.offset \in Offsets /\ pos.offset < cursor'.offset /\ cursor'.offset \in Nat
      /\ cursor.offset <= cursor'.offset /\ cursor.offset \in Nat /\ pos.offset \in Nat
  <2>1. cursor'.offset \in 0..Len(text)
    BY <1>1, PlaceIsPosition DEF Offsets
  <2> HIDE DEF pos
  <2> QED BY <1>1, <2>1 DEF Offsets, pos
<1>3. C \in SUBSET Nat
  BY <1>1, <1>2, OpeningsTyped
<1>4. Nests(indents.levels, C) /\ indents.key \in C \cup {-1}
  <2>1. OpeningColumns(cursor.offset) \subseteq C
    BY <1>2, OpeningsGrow
  <2> QED BY <2>1, NestsAmong DEF BlocksOpen
<1>5. pos.column - 1 \in Nat
  BY <1>1, PlaceColumns
<1>6. role \in {"entry", "key"} => pos.column - 1 \in C
  <2> SUFFICES ASSUME role \in {"entry", "key"} PROVE pos.column - 1 \in C
    OBVIOUS
  <2> DEFINE r == Reached.munch.idx
             n == Reached.munch.len
  <2>1. r \in RuleIds /\ n \in 1..(Len(text) - pos.offset)
    BY MatchTyped
  <2>2. MatchLength(rules[r].pattern, text, pos.offset) = n
    BY ReachedTyped, TurnTakesMatch DEF Scanned
  <2>3. Opens(pos.offset)
    <3>1. n > 0
      BY <2>1
    <3> HIDE DEF n
    <3> QED BY <2>1, <2>2, <3>1 DEF Opens, Won
  <2>4. pos.offset \in 0..(cursor'.offset - 1)
    BY <1>2
  <2> QED BY <1>1, <2>3, <2>4, PlaceColumns DEF OpeningColumns
<1>7. next = indents \/ next = ApplyIndent(role, pos, indents)
  BY DEF Indented
<1> HIDE DEF pos, role, C, next
<1>8. Nests(next.levels, C) /\ next.key \in C \cup {-1}
  BY <1>3, <1>4, <1>5, <1>6, <1>7, ApplyNests
<1> QED BY <1>8 DEF C, next, pos

\* A token opens a block deeper than the ones it leaves open, at an opening.
LEMMA StepNests == Scanned /\ BlocksOpen /\ [ScanStep]_vars => BlocksOpen'
<1> SUFFICES ASSUME Scanned, BlocksOpen, [ScanStep]_vars PROVE BlocksOpen'
  OBVIOUS
\* the columns depend on the rules and the text only
<1>1. ASSUME rules' = rules, text' = text, NEW C, C = OpeningColumns(cursor'.offset),
             Nests(indents'.levels, C), indents'.key \in C \cup {-1}
      PROVE  BlocksOpen'
  <2>1. PICK limit : limit = cursor'.offset
    OBVIOUS
  <2>2. OpeningColumns(limit)' = OpeningColumns(limit)
    BY <1>1 DEF OpeningColumns, Opens, RuleIds, Place
  <2>3. OpeningColumns(cursor.offset)' = C
    BY <1>1, <2>1, <2>2 DEF OpeningColumns
  <2>4. Nests(indents.levels, C)'
    BY <1>1 DEF Nests
  <2> QED BY <1>1, <2>3, <2>4 DEF BlocksOpen, Nests
<1>2. CASE UNCHANGED vars
  BY <1>1, <1>2 DEF vars, BlocksOpen
<1>3. CASE ScanStep
  <2>1. Moves /\ cursor.offset \in Nat /\ cursor'.offset \in Nat /\ cursor'.offset >= cursor.offset
    BY <1>3, StepMoves, MovesOn
  <2>2. rules' = rules /\ text' = text /\ cursor' \in Places
    BY <2>1 DEF Moves
  <2>3. CASE indents' = indents
    <3>1. OpeningColumns(cursor.offset) \subseteq OpeningColumns(cursor'.offset)
      BY <2>1, OpeningsGrow
    <3>2. Nests(indents.levels, OpeningColumns(cursor'.offset))
      BY <3>1, NestsAmong DEF BlocksOpen
    <3> QED BY <1>1, <2>2, <2>3, <3>1, <3>2 DEF BlocksOpen
  <2>4. CASE Emit(Reached) \/ BadTransition(Reached)
    <3>1. /\ Reached.meets = "match" /\ cursor'.offset > Reached.at.cursor.offset
          /\ indents' = Indented(Won(Reached), Mode(Reached.at), Reached.at.cursor, indents)
      BY <2>4, EmitMoves, BadTransitionMoves DEF Emit, BadTransition
    <3>2. /\ Nests(indents'.levels, OpeningColumns(cursor'.offset))
          /\ indents'.key \in OpeningColumns(cursor'.offset) \cup {-1}
      BY <2>2, <3>1, MatchNests
    <3> QED BY <1>1, <2>2, <3>2
  <2>5. CASE \/ EmitErrorRun(Reached) \/ NoRule(Reached) \/ Unterminated(Reached)
             \/ EmitUnterminated(Reached) \/ ZeroLength(Reached) \/ End(Reached) \/ Exhausts(Reached)
    BY <2>3, <2>5 DEF EmitErrorRun, NoRule, Unterminated, EmitUnterminated, ZeroLength, End, Exhausts
  <2> QED BY <1>3, <2>4, <2>5 DEF ScanStep
<1> QED BY <1>2, <1>3

\* So the open blocks nest.
LEMMA BlocksOpenSuffices == Scanned /\ BlocksOpen => BlocksNest
<1> SUFFICES ASSUME Scanned, BlocksOpen PROVE BlocksNest
  OBVIOUS
<1>1. ASSUME NEW i \in 2..Len(indents.levels)
      PROVE  \E at \in 0..(cursor.offset - 1) :
               /\ \E r \in RuleIds : /\ rules[r].indent \in {"entry", "key"}
                                     /\ MatchLength(rules[r].pattern, text, at) > 0
               /\ indents.levels[i] = Advance(text, Beginning, at).column - 1
  BY DEF BlocksOpen, Nests, OpeningColumns, Opens, Place
<1> QED BY <1>1 DEF BlocksOpen, Nests, BlocksNest

\* No block is open at the start.
LEMMA InitOpened == Init => Scanned /\ BlocksOpen
<1> SUFFICES ASSUME Init PROVE Scanned /\ BlocksOpen
  OBVIOUS
<1>1. indents.levels = <<-1>> /\ indents.key = -1
  BY DEF Init, NoBlocks
<1>2. /\ indents.levels \in Seq(Int) /\ Len(indents.levels) = 1 /\ indents.levels[1] = -1
      /\ 2..1 = {}
  BY <1>1
<1> QED BY <1>1, <1>2, InitScanned DEF BlocksOpen, Nests

\* The open blocks nest above the -1 that is never closed, each at the column of an entry or of a key the
\* scan matched, whatever closed between, whichever mode transition was refused, and however long a
\* caller goes on after an error.
THEOREM OpenBlocksNest == (Spec => []BlocksNest) /\ (IteratorSpec => []BlocksNest)
<1>1. Init => Scanned /\ BlocksOpen
  BY InitOpened
<1>2. IteratorInit => Scanned /\ BlocksOpen
  BY <1>1 DEF IteratorInit
<1>3. Spec => [](Scanned /\ BlocksOpen)
  BY <1>1, NextScans, StepScanned, StepNests, PTL DEF Spec
<1>4. IteratorSpec => [](Scanned /\ BlocksOpen)
  BY <1>2, IncrementScans, StepScanned, StepNests, PTL DEF IteratorSpec
<1> QED BY <1>3, <1>4, BlocksOpenSuffices, PTL

-----------------------------------------------------------------------------
(* Extensions *)

\* The greater of two.
LEMMA MaxOfTwo ==
    ASSUME NEW a \in Int, NEW b \in Int
    PROVE  Max({a, b}) = IF a < b THEN b ELSE a
<1> DEFINE m == IF a < b THEN b ELSE a
           n == IF a < b THEN a ELSE b
           S == {a, b}
<1>1. \A x \in S : x \in n..m
  OBVIOUS
<1>2. S # {} /\ m \in S /\ m \in Int /\ n \in Int
  OBVIOUS
<1>3. Max(S) \in S /\ \A y \in S : Max(S) >= y
  <2> HIDE DEF S, m, n
  <2> QED BY <1>1, <1>2, MaxOfIntegers
<1> QED BY <1>1, <1>2, <1>3

\* indent_reference says what apply_indent will do: it is the innermost block once the token has
\* updated the blocks.
LEMMA ReferenceIsTop ==
    ASSUME NEW state, Nests(state.levels, Nat), state.key \in Nat \cup {-1},
           NEW start, start.column - 1 \in Nat, NEW role
    PROVE  /\ IndentReference(role, start, state) = Last(ApplyIndent(role, start, state).levels)
           /\ IndentReference(role, start, state) \in Int
<1> DEFINE column == start.column - 1
           key    == IF start.line = state.line THEN state.key ELSE -1
           from   == IF role = "reset" THEN <<-1>> ELSE state.levels
           levels == Closed(from, column)
           top    == IF role = "reset" THEN -1 ELSE Last(Closed(state.levels, column))
           next   == ApplyIndent(role, start, state)
<1>1. column \in Nat /\ key \in Int /\ key >= -1
  OBVIOUS
<1>2. Nests(from, Nat) /\ (role = "reset" => from = <<-1>>)
  <2>1. Nests(<<-1>>, Nat)
    <3> DEFINE root == <<-1>>
    <3>1. root \in Seq(Int) /\ Len(root) = 1 /\ root[1] = -1 /\ 2..1 = {}
      OBVIOUS
    <3> HIDE DEF root
    <3> QED BY <3>1 DEF Nests, root
  <2> QED BY <2>1
<1>3. Nests(levels, Nat)
  <2> HIDE DEF from, column
  <2> QED BY <1>1, <1>2, ClosedNests
<1>4. role = "reset" => Len(levels) = 1
  <2> SUFFICES ASSUME role = "reset" PROVE Len(levels) = 1
    OBVIOUS
  <2> DEFINE root == <<-1>>
             S == { i \in DOMAIN root : root[i] <= column }
  <2>1. levels = SubSeq(root, 1, Max(S))
    BY DEF Closed
  <2>2. S = {1}
    <3>1. DOMAIN root = {1} /\ root[1] = -1
      OBVIOUS
    <3> HIDE DEF root, column
    <3> QED BY <1>1, <3>1
  <2>3. Max({1}) = 1
    <3>1. {1} = {1, 1}
      OBVIOUS
    <3> QED BY <3>1, MaxOfTwo
  <2> HIDE DEF S
  <2>4. levels = SubSeq(root, 1, 1)
    BY <2>1, <2>2, <2>3
  <2>5. Len(SubSeq(root, 1, 1)) = 1
    OBVIOUS
  <2> HIDE DEF levels
  <2> QED BY <2>4, <2>5
<1>5. top = Last(levels)
  <2>1. CASE role = "reset"
    <3> HIDE DEF levels
    <3> QED BY <1>3, <1>4, <2>1 DEF Nests, Last
  <2>2. CASE role # "reset"
    <3>1. from = state.levels /\ top = Last(Closed(state.levels, column))
      BY <2>2
    <3> HIDE DEF from, top, column
    <3> QED BY <3>1
  <2> QED BY <2>1, <2>2
<1>6. Last(levels) \in Int /\ Last(levels) >= -1
  <2> HIDE DEF levels
  <2> DEFINE n == Len(levels)
  <2>1. levels \in Seq(Int) /\ n >= 1 /\ n \in Nat /\ levels[1] = -1
    BY <1>3 DEF Nests
  <2>2. n # 1 => n \in 2..Len(levels)
    <3>1. \A k \in Nat : k >= 1 /\ k # 1 => k \in 2..k
      OBVIOUS
    <3> QED BY <2>1, <3>1
  <2>3. n # 1 => levels[n] \in Nat
    <3> HIDE DEF n
    <3> QED BY <1>3, <2>2 DEF Nests
  <2> QED BY <2>1, <2>3 DEF Last
<1>7. IndentReference(role, start, state)
      = CASE role = "entry" -> Max({top, column}) [] role = "value" -> Max({top, key}) [] OTHER -> top
  BY DEF IndentReference
<1>8. next.levels = CASE role = "entry" -> Opened(levels, column)
                      [] role = "value" /\ key >= 0 -> Opened(levels, key)
                      [] OTHER -> levels
  BY DEF ApplyIndent
<1>9. ASSUME NEW c \in Int
      PROVE  Last(Opened(levels, c)) = Max({Last(levels), c})
  <2> DEFINE a == Last(levels)
  <2>1. Max({a, c}) = IF a < c THEN c ELSE a
    <3> HIDE DEF a
    <3> QED BY <1>6, MaxOfTwo DEF a
  <2>2. CASE a < c
    <3>1. Opened(levels, c) = Append(levels, c)
      BY <2>2 DEF Opened
    <3>2. levels \in Seq(Int)
      BY <1>3 DEF Nests
    <3> HIDE DEF levels
    <3>3. Last(Append(levels, c)) = c
      BY <3>2 DEF Last
    <3> QED BY <2>1, <2>2, <3>1, <3>3
  <2>3. CASE ~(a < c)
    <3>1. Opened(levels, c) = levels
      BY <2>3 DEF Opened
    <3> QED BY <2>1, <2>3, <3>1
  <2> QED BY <2>2, <2>3
<1> HIDE DEF levels, top, next, key, column
<1>10. Max({top, key}) = IF top < key THEN key ELSE top
  BY <1>1, <1>5, <1>6, MaxOfTwo
<1>11. Max({top, column}) \in Int
  BY <1>1, <1>5, <1>6, MaxOfTwo
<1>12. CASE role = "entry"
  BY <1>1, <1>5, <1>7, <1>8, <1>9, <1>11, <1>12 DEF next
<1>13. CASE role = "value"
  <2>1. CASE key >= 0
    BY <1>1, <1>5, <1>6, <1>7, <1>8, <1>9, <1>10, <1>13, <2>1 DEF next
  <2>2. CASE ~(key >= 0)
    <3>1. Max({top, key}) = top
      BY <1>1, <1>5, <1>6, <1>10, <2>2
    <3> QED BY <1>5, <1>6, <1>7, <1>8, <1>13, <2>2, <3>1 DEF next
  <2> QED BY <2>1, <2>2
<1>14. CASE role \notin {"entry", "value"}
  BY <1>5, <1>6, <1>7, <1>8, <1>14 DEF next
<1> QED BY <1>12, <1>13, <1>14

\* A line that begins past an offset begins past the line break after it.
LEMMA LinesPast ==
    ASSUME NEW t \in Seq(Char), NEW end \in 0..Len(t), NEW l \in Lines(t, 0), end < l
    PROVE  l \in Lines(t, LineEnd(t, end) + 1) /\ l \in 0..(Len(t) - 1)
<1> DEFINE S == { o \in end..(Len(t) - 1) : t[o + 1] = NewLine }
<1>1. l \in 0..(Len(t) - 1) /\ t[l] = NewLine /\ Len(t) \in Nat
  BY DEF Lines
<1>2. l - 1 \in S
  BY <1>1
<1>3. LineEnd(t, end) <= l - 1 /\ LineEnd(t, end) \in Int
  <2> DEFINE T == {Len(t)} \cup S
  <2>1. \A o \in T : o \in Int /\ o >= end
    BY <1>1
  <2>2. l - 1 \in T
    BY <1>2
  <2> HIDE DEF T
  <2>3. Min(T) <= l - 1
    BY <2>1, <2>2, MinOfIntegers
  <2>4. LineEnd(t, end) = Min(T)
    BY DEF LineEnd, T
  <2> QED BY <2>3, <2>4, LinesBounded
<1> QED BY <1>1, <1>3 DEF Lines

\* Where the least of some lines and the end of the text is.
LEMMA LeastLine ==
    ASSUME NEW n \in Nat, NEW S, \A o \in S : o \in 0..n
    PROVE  Min({n} \cup S) \in {n} \cup S /\ \A o \in S : Min({n} \cup S) <= o
<1> DEFINE T == {n} \cup S
<1>1. \A o \in T : o \in Int /\ o >= 0
  OBVIOUS
<1>2. T # {}
  OBVIOUS
<1> HIDE DEF T
<1>3. Min(T) \in T /\ \A o \in T : Min(T) <= o
  BY <1>1, <1>2, MinOfIntegers
<1> QED BY <1>3 DEF T

\* The column of a block's body is past the block.
LEMMA ContentPast ==
    ASSUME NEW t \in Seq(Char), NEW body \in Nat, NEW match \in Seq(Char), NEW reference \in Int
    PROVE  BlockContent(t, body, match, reference) \in Int /\ BlockContent(t, body, match, reference) > reference
<1> DEFINE least   == Max({reference + 1, 1})
           digits  == { i \in DOMAIN match : match[i] \in { Digits[d] : d \in DOMAIN Digits } }
           digit   == CHOOSE d \in DOMAIN Digits : Digits[d] = match[Min(digits)]
           firsts  == { l \in Lines(t, body) : \A k \in Lines(t, body) : k < l => Blank(t, k) }
           leading == { LeadingSpaces(t, l) : l \in firsts }
<1>1. least \in Int /\ least > reference
  <2>1. reference + 1 \in Int /\ 1 \in Int
    OBVIOUS
  <2>2. Max({reference + 1, 1}) = IF reference + 1 < 1 THEN 1 ELSE reference + 1
    BY <2>1, MaxOfTwo
  <2> QED BY <2>2
<1>2. BlockContent(t, body, match, reference)
      = IF digits # {} THEN least + digit - 1 ELSE Max({least} \cup leading)
  BY DEF BlockContent
<1>3. digits # {} => digit \in 1..9
  <2> SUFFICES ASSUME digits # {} PROVE digit \in 1..9
    OBVIOUS
  <2>1. digits \in SUBSET Nat
    OBVIOUS
  <2>2. Min(digits) \in digits
    <3> HIDE DEF digits
    <3> QED BY <2>1, MinOfNaturals
  <2>3. DOMAIN Digits = 1..9
    BY DEF Digits
  <2>4. \E d \in DOMAIN Digits : Digits[d] = match[Min(digits)]
    BY <2>2
  <2>5. digit \in DOMAIN Digits
    <3> HIDE DEF digits
    <3> QED BY <2>4
  <2> QED BY <2>3, <2>5
<1>4. ASSUME NEW l \in firsts PROVE LeadingSpaces(t, l) \in 0..Len(t)
  <2>1. l \in 0..Len(t) /\ Len(t) \in Nat
    BY DEF Lines
  <2>2. PastAll(t, l, {Space}) \in l..Len(t)
    BY <2>1, LinesBounded
  <2> QED BY <2>1, <2>2 DEF LeadingSpaces
<1>5. Max({least} \cup leading) \in Int /\ Max({least} \cup leading) >= least
  <2> DEFINE S == {least} \cup leading
             m == IF least < 0 THEN least ELSE 0
             n == IF least < Len(t) THEN Len(t) ELSE least
  <2> HIDE DEF least, firsts
  <2>1. Len(t) \in Nat
    OBVIOUS
  <2>2. \A x \in S : x \in m..n
    BY <1>1, <1>4, <2>1
  <2>3. m \in Int /\ n \in Int /\ S # {} /\ least \in S
    BY <1>1, <2>1
  <2> HIDE DEF S, m, n
  <2>4. Max(S) \in S /\ \A y \in S : Max(S) >= y
    BY <2>2, <2>3, MaxOfIntegers
  <2> QED BY <2>2, <2>3, <2>4 DEF S
<1> HIDE DEF least, digits, digit, leading
<1> QED BY <1>1, <1>2, <1>3, <1>5

\* A block takes lines that are blank or indented past its reference, and the line that ends it is
\* indented less.
LEMMA BlockTakes ==
    ASSUME NEW t \in Seq(Char), NEW end \in 0..Len(t), NEW match \in Seq(Char), NEW reference \in Int,
           NEW l \in Lines(t, 0), end < l, l < BlockExtent(t, end, match, reference, TRUE), ~Blank(t, l)
    PROVE  LET stop == BlockExtent(t, end, match, reference, TRUE)
           IN  /\ LeadingSpaces(t, l) > reference
               /\ stop \in Lines(t, 0) /\ ~Blank(t, stop) => LeadingSpaces(t, l) > LeadingSpaces(t, stop)
<1> DEFINE body    == LineEnd(t, end) + 1
           content == BlockContent(t, body, match, reference)
           less    == { k \in Lines(t, body) :
                          /\ ~Blank(t, k) /\ LeadingSpaces(t, k) < content
                          /\ TRUE \/ Broken(t, k) }
           ends    == { k \in Lines(t, body) :
                          /\ Blank(t, k) /\ ~Broken(t, k)
                          /\ ~(LeadingSpaces(t, k) >= content /\ Len(t) - k > content) }
           S       == less \cup ends
           stop    == BlockExtent(t, end, match, reference, TRUE)
<1>1. body \in Nat /\ Len(t) \in Nat
  BY LinesBounded
<1>2. l \in Lines(t, body) /\ l \in 0..(Len(t) - 1)
  BY LinesPast
<1>3. content \in Int /\ content > reference
  <2> HIDE DEF body
  <2> QED BY <1>1, ContentPast
<1>4. stop = Min({Len(t)} \cup S)
  <2>1. stop = Min({Len(t)} \cup less \cup ends)
    BY DEF BlockExtent
  <2> HIDE DEF less, ends, stop
  <2>2. {Len(t)} \cup less \cup ends = {Len(t)} \cup S
    OBVIOUS
  <2> QED BY <2>1, <2>2
<1>5. \A o \in S : o \in Lines(t, body)
  OBVIOUS
<1>6. \A o \in S : o \in 0..Len(t)
  <2> HIDE DEF S, body
  <2> QED BY <1>1, <1>5 DEF Lines
<1>7. stop \in {Len(t)} \cup S /\ \A o \in S : stop <= o
  <2> HIDE DEF S, stop
  <2> QED BY <1>1, <1>4, <1>6, LeastLine
<1>8. stop \in Nat /\ l \in Nat
  <2> HIDE DEF S, stop
  <2> QED BY <1>1, <1>2, <1>6, <1>7
<1>9. l \notin S
  <2>1. l < stop
    OBVIOUS
  <2> HIDE DEF S, stop
  <2> QED BY <1>7, <1>8, <2>1
<1>10. LeadingSpaces(t, l) \in Int
  <2>1. l \in 0..Len(t)
    BY <1>1, <1>2
  <2>2. PastAll(t, l, {Space}) \in l..Len(t)
    BY <2>1, LinesBounded
  <2> QED BY <1>2, <2>2 DEF LeadingSpaces
<1>11. LeadingSpaces(t, l) >= content
  <2>1. ~(LeadingSpaces(t, l) < content)
    BY <1>2, <1>9
  <2> HIDE DEF content
  <2> QED BY <1>3, <1>10, <2>1
<1>12. ASSUME stop \in Lines(t, 0), ~Blank(t, stop) PROVE LeadingSpaces(t, stop) < content
  <2>1. stop # Len(t)
    <3> HIDE DEF stop
    <3> QED BY <1>1, <1>12 DEF Lines
  <2>2. stop \in S
    BY <1>7, <2>1
  <2> HIDE DEF stop
  <2>3. stop \in less
    BY <1>12, <2>2
  <2> QED BY <2>3
<1>13. ASSUME stop \in Lines(t, 0), ~Blank(t, stop) PROVE LeadingSpaces(t, l) > LeadingSpaces(t, stop)
  <2>1. stop \in 0..Len(t)
    <3> HIDE DEF stop
    <3> QED BY <1>1, <1>13 DEF Lines
  <2> HIDE DEF stop, content
  <2>2. PastAll(t, stop, {Space}) \in stop..Len(t)
    BY <2>1, LinesBounded
  <2>3. LeadingSpaces(t, stop) \in Int
    BY <1>1, <2>1, <2>2 DEF LeadingSpaces
  <2> QED BY <1>3, <1>10, <1>11, <1>12, <1>13, <2>3
<1>14. LeadingSpaces(t, l) > reference
  <2> HIDE DEF content
  <2> QED BY <1>3, <1>10, <1>11
<1> QED BY <1>13, <1>14

\* What the continuation pattern reads of a line is on the line.
LEMMA ReadsItsLine ==
    ASSUME NEW t \in Seq(Char), NEW line \in 0..Len(t), NEW p \in Pattern
    PROVE  ReadTo(t, line, p) <= LineEnd(t, line)
<1> DEFINE stop  == LineEnd(t, line)
           words == SubSeq(t, line + 1, stop)
           first == PastAll(words, 0, {Space, Tab})
           found == MatchLength(p, words, first)
<1>1. stop \in line..Len(t)
  BY LinesBounded
<1>2. words \in Seq(Char) /\ Len(words) = stop - line
  BY <1>1
<1>3. first \in 0..Len(words)
  <2> HIDE DEF words
  <2> QED BY <1>2, LinesBounded
<1>4. found \in {NoMatch} \cup 0..(Len(words) - first)
  <2> HIDE DEF words, first
  <2> QED BY <1>2, <1>3, MatchBounded
<1>5. ReadTo(t, line, p) = IF found > 0 THEN line + first + found ELSE line
  BY DEF ReadTo
<1> HIDE DEF stop, words, first, found
<1> QED BY <1>1, <1>2, <1>3, <1>4, <1>5 DEF NoMatch, stop

\* A line with more than blanks on it, tabs among them, is one a continued token may reach.
LEMMA WrittenIsBelow ==
    ASSUME NEW t \in Seq(Char), NEW end \in 0..Len(t), NEW l \in Lines(t, 0), end < l, ~BlankToEnd(t, l)
    PROVE  l \in Below(t, end) /\ l \in 0..(Len(t) - 1)
<1> DEFINE first == PastBlanks(t, l)
           S == { o \in l..(Len(t) - 1) : t[o + 1] = NewLine }
           T == { o \in l..(Len(t) - 1) : t[o + 1] \notin {Space, Tab, CarriageReturn} }
<1>1. l \in Lines(t, LineEnd(t, end) + 1) /\ l \in 0..(Len(t) - 1) /\ l \in 0..Len(t) /\ Len(t) \in Nat
  BY LinesPast
<1>2. first \in l..Len(t) /\ LineEnd(t, l) \in l..Len(t)
  BY <1>1, LinesBounded DEF PastBlanks
<1>3. LineEnd(t, l) = Min({Len(t)} \cup S)
  BY DEF LineEnd
<1>4. first = Min({Len(t)} \cup T)
  BY DEF PastBlanks, PastAll
<1>5. S \subseteq T
  BY DEF NewLine, Space, Tab, CarriageReturn
<1>6. \A o \in T : o \in 0..Len(t)
  BY <1>1
<1>12. \A o \in S : o \in 0..Len(t)
  BY <1>1
<1> HIDE DEF S, T
<1>7. LineEnd(t, l) \in {Len(t)} \cup S /\ \A o \in S : LineEnd(t, l) <= o
  <2>1. Min({Len(t)} \cup S) \in {Len(t)} \cup S /\ \A o \in S : Min({Len(t)} \cup S) <= o
    BY <1>1, <1>12, LeastLine
  <2> QED BY <1>3, <2>1
<1>8. first \in {Len(t)} \cup T /\ \A o \in T : first <= o
  <2> HIDE DEF first
  <2> QED BY <1>1, <1>4, <1>6, LeastLine
<1>9. first # LineEnd(t, l)
  BY DEF BlankToEnd
<1> HIDE DEF first
<1>10. first < LineEnd(t, l) /\ first < Len(t)
  <2>1. first <= LineEnd(t, l)
    BY <1>1, <1>2, <1>5, <1>7, <1>8
  <2> QED BY <1>1, <1>2, <1>9, <2>1
<1>11. t[first + 1] # NewLine
  <2>1. first \notin S
    BY <1>1, <1>2, <1>7, <1>10
  <2>2. first \in l..(Len(t) - 1)
    BY <1>1, <1>2, <1>10
  <2> QED BY <2>1, <2>2 DEF S
<1> QED BY <1>1, <1>10, <1>11 DEF Below, first

\* A continued token takes lines that are blank or indented past its reference.
LEMMA LinesTake ==
    ASSUME NEW t \in Seq(Char), NEW end \in 0..Len(t), NEW p \in Pattern, NEW reference \in Int,
           NEW l \in Lines(t, 0), end < l, l < LinesExtent(t, end, p, reference, TRUE), ~BlankToEnd(t, l)
    PROVE  LeadingSpaces(t, l) > reference
<1> DEFINE below     == Below(t, end)
           continued == { k \in below : /\ LeadingSpaces(t, k) > reference
                                        /\ ~MarksDocument(t, k)
                                        /\ ReadTo(t, k, p) > k }
           taken     == { m \in below : /\ BlankToEnd(t, end)
                                        /\ \A k \in below : k <= m => k \in continued
                                        /\ \A k \in below : k < m => BlankToEnd(t, ReadTo(t, k, p)) }
           S         == {end} \cup { ReadTo(t, k, p) : k \in taken }
<1>1. LineEnd(t, end) \in Int /\ LineEnd(t, end) >= end /\ Len(t) \in Nat
  BY LinesBounded
<1>2. \A k \in below : k \in 0..(Len(t) - 1) /\ k \in end..Len(t)
  BY <1>1 DEF Below, Lines
<1>3. \A k \in taken : k \in 0..Len(t) /\ k \in end..Len(t) /\ k \in below
  BY <1>2
<1>4. \A k \in taken : ReadTo(t, k, p) \in end..Len(t)
  <2> HIDE DEF taken
  <2>1. \A k \in taken : ReadTo(t, k, p) \in k..Len(t)
    BY <1>3, ReadToBounded
  <2> QED BY <1>3, <2>1
<1>5. \A o \in S : o \in end..Len(t)
  <2> HIDE DEF taken
  <2> QED BY <1>4
<1>6. S # {}
  OBVIOUS
<1>7. Max(S) \in S
  <2> HIDE DEF S
  <2> QED BY <1>1, <1>5, <1>6, MaxOfIntegers
<1>8. LinesExtent(t, end, p, reference, TRUE) = Max(S)
  BY DEF LinesExtent
<1>9. l \in below /\ l \in 0..(Len(t) - 1)
  BY WrittenIsBelow
<1>17. l < Max(S)
  BY <1>8
<1>10. Max(S) # end
  <2> HIDE DEF S
  <2> QED BY <1>9, <1>17
<1>11. PICK k \in taken : Max(S) = ReadTo(t, k, p)
  <2> HIDE DEF taken
  <2> QED BY <1>7, <1>10
<1>12. k \in 0..Len(t) /\ k \in below
  <2> HIDE DEF taken, below
  <2> QED BY <1>3
<1>13. l < LineEnd(t, k)
  <2> HIDE DEF S, taken, below
  <2>1. ReadTo(t, k, p) <= LineEnd(t, k) /\ ReadTo(t, k, p) \in k..Len(t) /\ LineEnd(t, k) \in k..Len(t)
    BY <1>12, ReadsItsLine, ReadToBounded, LinesBounded
  <2> QED BY <1>1, <1>9, <1>11, <1>12, <1>17, <2>1
<1>14. ~(k < l)
  <2> SUFFICES ASSUME k < l PROVE FALSE
    OBVIOUS
  <2>1. l \in Lines(t, LineEnd(t, k) + 1)
    BY <1>12, LinesPast
  <2>2. l >= LineEnd(t, k) + 1
    BY <2>1 DEF Lines
  <2>3. LineEnd(t, k) \in Int /\ l \in Int
    BY <1>9, <1>12, LinesBounded
  <2> QED BY <1>13, <2>2, <2>3
<1>15. l <= k
  <2> HIDE DEF below, taken
  <2> QED BY <1>9, <1>12, <1>14
<1>16. l \in continued
  BY <1>9, <1>15
<1> QED BY <1>16

\* Whatever takes a match with its extension leaves the lines it took in the block it leaves innermost.
LEMMA MatchStays ==
    ASSUME Scanned, BlocksOpen, Reached.meets = "match",
           cursor'.offset = Reached.at.cursor.offset + Match(Reached).len,
           indents' = Indented(Won(Reached), Mode(Reached.at), Reached.at.cursor, indents),
           Won(Reached).extend # "none", TakesPart(Won(Reached), Mode(Reached.at)),
           NEW l \in Lines(text, 0), Reached.at.cursor.offset + Reached.munch.len < l, l < cursor'.offset,
           IF Won(Reached).extend = "block" THEN ~Blank(text, l) ELSE ~BlankToEnd(text, l)
    PROVE  /\ LeadingSpaces(text, l) > Last(indents'.levels)
           /\ (Won(Reached).extend = "block" /\ cursor'.offset \in Lines(text, 0) /\ ~Blank(text, cursor'.offset))
              => LeadingSpaces(text, l) > LeadingSpaces(text, cursor'.offset)
<1> DEFINE pos       == Reached.at.cursor
           rule      == Won(Reached)
           end       == pos.offset + Reached.munch.len
           reference == IndentReference(rule.indent, pos, indents)
           match     == SubSeq(text, pos.offset + 1, end)
           extent    == IF rule.extend = "block" THEN BlockExtent(text, end, match, reference, TRUE)
                        ELSE LinesExtent(text, end, rule.continuation, reference, TRUE)
<1>1. /\ pos \in Places /\ pos.offset \in 0..Len(text) /\ Len(text) \in Nat /\ text \in Seq(Char)
      /\ rule \in Rule /\ Reached.munch.len \in 1..(Len(text) - pos.offset)
  BY ReachedPlace, MatchTyped DEF Scanned
<1>2. end \in 0..Len(text) /\ match \in Seq(Char)
  <2>1. end \in 0..Len(text)
    <3> HIDE DEF pos
    <3> QED BY <1>1
  <2>2. pos.offset + 1 >= 1 /\ pos.offset + 1 \in Nat /\ end \in Nat
    BY <1>1, <2>1
  <2> HIDE DEF end, pos
  <2> QED BY <1>1, <2>1, <2>2, SliceTyped
<1>3. reference = Last(indents'.levels) /\ reference \in Int
  <2>1. Nests(indents.levels, Nat) /\ indents.key \in Nat \cup {-1}
    <3>1. cursor.offset \in Nat /\ cursor.offset \in 0..Len(text)
      BY ReachedPlace
    <3>2. OpeningColumns(cursor.offset) \in SUBSET Nat
      BY <1>1, <3>1, OpeningsTyped DEF Offsets
    <3> QED BY <3>2, NestsAmong DEF BlocksOpen
  <2>2. pos.column - 1 \in Nat
    BY <1>1, PlaceColumns
  <2>3. indents' = ApplyIndent(rule.indent, pos, indents)
    BY DEF Indented
  <2> HIDE DEF pos, rule
  <2> QED BY <2>1, <2>2, <2>3, ReferenceIsTop DEF reference
<1>4. cursor'.offset = extent
  <2>1. Match(Reached).len = Extended(rule, Mode(Reached.at), text, pos, Reached.munch.len, indents, TRUE)
    <3>1. Reached.munch = [have |-> Reached.munch.have, idx |-> Reached.munch.idx, len |-> Reached.munch.len]
      BY ReachedTyped DEF Turn, Met, MunchAt, Winner, NoMunch
    <3>2. Match(Reached) = [Reached.munch EXCEPT !.len = Extended(rule, Mode(Reached.at), text, pos, @, indents, TRUE)]
      BY DEF Match
    <3> QED BY <3>1, <3>2
  <2>2. Extended(rule, Mode(Reached.at), text, pos, Reached.munch.len, indents, TRUE) = Reach(extent, pos)
    BY DEF Extended
  <2>3. extent \in end..Len(text)
    <3>1. rule.continuation \in Pattern
      BY <1>1 DEF Rule
    <3> HIDE DEF end, match, reference, rule
    <3> QED BY <1>1, <1>2, <3>1, BlockExtentBounded, LinesExtentBounded
  <2>4. Reach(extent, pos) = extent - pos.offset
    <3>1. extent # Undecided
      <4> HIDE DEF extent
      <4> QED BY <1>2, <2>3 DEF Undecided
    <3> HIDE DEF extent
    <3> QED BY <3>1 DEF Reach
  <2> HIDE DEF extent, end, pos
  <2>5. cursor'.offset = pos.offset + (extent - pos.offset)
    BY <2>1, <2>2, <2>4 DEF pos
  <2> QED BY <1>1, <1>2, <2>3, <2>5
<1>5. end < l /\ l < extent
  BY <1>4
<1>6. CASE rule.extend = "block"
  <2>1. extent = BlockExtent(text, end, match, reference, TRUE) /\ ~Blank(text, l)
    BY <1>6
  <2> HIDE DEF extent, end, match, reference, rule
  <2>2. /\ LeadingSpaces(text, l) > reference
        /\ extent \in Lines(text, 0) /\ ~Blank(text, extent) => LeadingSpaces(text, l) > LeadingSpaces(text, extent)
    BY <1>1, <1>2, <1>3, <1>5, <2>1, BlockTakes
  <2> QED BY <1>3, <1>4, <2>2
<1>7. CASE rule.extend # "block"
  <2>1. extent = LinesExtent(text, end, rule.continuation, reference, TRUE) /\ ~BlankToEnd(text, l)
    BY <1>7
  <2>2. rule.continuation \in Pattern
    BY <1>1 DEF Rule
  <2> HIDE DEF extent, end, match, reference
  <2>3. LeadingSpaces(text, l) > reference
    BY <1>1, <1>2, <1>3, <1>5, <2>1, <2>2, LinesTake
  <2> QED BY <1>3, <1>7, <2>3
<1> QED BY <1>6, <1>7

\* What ExtensionsStayInBlock says of a step.
StaysInBlock ==
    \A turn \in {Reached} :
        turn.meets = "match" /\ Won(turn).extend # "none" /\ TakesPart(Won(turn), Mode(turn.at)) =>
        LET below      == turn.at.cursor.offset + turn.munch.len
            end        == cursor'.offset
            Written(l) == IF Won(turn).extend = "block" THEN ~Blank(text, l) ELSE ~BlankToEnd(text, l)
            taken      == { l \in Lines(text, 0) : below < l /\ l < end /\ Written(l) }
        IN  \A l \in taken :
               /\ LeadingSpaces(text, l) > Last(indents'.levels)
               /\ (Won(turn).extend = "block" /\ end \in Lines(text, 0) /\ ~Blank(text, end))
                  => LeadingSpaces(text, l) > LeadingSpaces(text, end)

\* Only those steps take a match.
LEMMA StepStaysInBlock == Scanned /\ BlocksOpen /\ [ScanStep]_vars => [StaysInBlock]_vars
<1> SUFFICES ASSUME Scanned, BlocksOpen, ScanStep PROVE StaysInBlock
  OBVIOUS
<1>1. CASE Emit(Reached) \/ BadTransition(Reached)
  <2>1. /\ Reached.meets = "match" /\ cursor'.offset = Reached.at.cursor.offset + Match(Reached).len
        /\ indents' = Indented(Won(Reached), Mode(Reached.at), Reached.at.cursor, indents)
    BY <1>1, EmitMoves, BadTransitionMoves DEF Emit, BadTransition
  <2>2. ASSUME Won(Reached).extend # "none", TakesPart(Won(Reached), Mode(Reached.at)),
               NEW l \in Lines(text, 0), Reached.at.cursor.offset + Reached.munch.len < l, l < cursor'.offset,
               IF Won(Reached).extend = "block" THEN ~Blank(text, l) ELSE ~BlankToEnd(text, l)
        PROVE  /\ LeadingSpaces(text, l) > Last(indents'.levels)
               /\ (Won(Reached).extend = "block" /\ cursor'.offset \in Lines(text, 0) /\ ~Blank(text, cursor'.offset))
                  => LeadingSpaces(text, l) > LeadingSpaces(text, cursor'.offset)
    BY <2>1, <2>2, MatchStays
  <2> QED BY <2>2 DEF StaysInBlock
<1>2. CASE ~(Emit(Reached) \/ BadTransition(Reached))
  <2>1. Reached.meets # "match"
    BY <1>2, ReachedTyped DEF ScanStep, EmitErrorRun, NoRule, Unterminated, EmitUnterminated, ZeroLength, End, Exhausts
  <2> QED BY <2>1 DEF StaysInBlock
<1> QED BY <1>1, <1>2

\* An extended token, of a refused transition too, takes lines of the innermost block only: the block it leaves
\* innermost, though its extent is measured before the blocks are updated; and what ends a block body is indented
\* less than all of it.
THEOREM ExtensionsInBlocks == (Spec => ExtensionsStayInBlock) /\ (IteratorSpec => ExtensionsStayInBlock)
<1>1. Spec => [](Scanned /\ BlocksOpen)
  BY InitOpened, NextScans, StepScanned, StepNests, PTL DEF Spec
<1>2. IteratorSpec => [](Scanned /\ BlocksOpen)
  <2>1. IteratorInit => Scanned /\ BlocksOpen
    BY InitOpened DEF IteratorInit
  <2> QED BY <2>1, IncrementScans, StepScanned, StepNests, PTL DEF IteratorSpec
<1>3. Scanned /\ BlocksOpen /\ [Next]_vars => [StaysInBlock]_vars
  BY NextScans, StepStaysInBlock
<1>4. Scanned /\ BlocksOpen /\ [IteratorNext]_iteratorVars => [StaysInBlock]_vars
  BY IncrementScans, StepStaysInBlock
<1>5. ExtensionsStayInBlock <=> [][StaysInBlock]_vars
  BY DEF ExtensionsStayInBlock, StaysInBlock
<1> QED BY <1>1, <1>2, <1>3, <1>4, <1>5, PTL DEF Spec, IteratorSpec

-----------------------------------------------------------------------------
(* Error runs *)

\* Every rule is active after an error run.
ActiveAfterErrors ==
    \A grammar \in Grammars : \A i \in DOMAIN grammar :
        (grammar[i].after = {} \/ ErrorKind \in grammar[i].after) /\ ErrorKind \notin grammar[i].notAfter

\* Something is matched at an offset in a mode, after an error run.
Resumes(mode, at) == SomeMatch(mode, ErrorKind, text, at)

\* After an error run the scan stands at the end of the text or where a rule matches, or has moved on.
RunsEnd ==
    tokens # <<>> /\ Last(tokens).kind = ErrorKind =>
        \/ cursor.offset > StoodAt(Len(tokens))
        \/ cursor.offset = Len(text)
        \/ previous = ErrorKind /\ Resumes(Last(stack).mode, cursor.offset)

\* What matches after any other kind of token matches after an error run.
LEMMA MatchesAfterErrors ==
    ASSUME ActiveAfterErrors, rules \in Grammars, NEW mode, NEW kind, NEW at, SomeMatch(mode, kind, text, at)
    PROVE  Resumes(mode, at)
<1>1. \A r \in RuleIds : PredicateAllows(rules[r], kind, text, at) => PredicateAllows(rules[r], ErrorKind, text, at)
  BY DEF ActiveAfterErrors, PredicateAllows, RuleIds
<1>2. MatchesHere(mode, kind, text, at) \subseteq MatchesHere(mode, ErrorKind, text, at)
  BY <1>1 DEF MatchesHere
<1> QED BY <1>2 DEF SomeMatch, Resumes

\* Where an error run ends before the end of the text, a rule matches.
LEMMA RunEndResumes ==
    ASSUME ActiveAfterErrors, rules \in Grammars, text \in Texts, text \in Seq(Char), NEW mode,
           NEW from \in 0..(Len(text) - 1), RunEnd(mode, from) # Len(text)
    PROVE  Resumes(mode, RunEnd(mode, from))
<1> DEFINE S == { at \in (from + 1)..(Len(text) - 1) : SomeMatch(mode, previous, text, at) }
<1>1. Len(text) \in Nat /\ from + 1 \in 0..Len(text) /\ from \in 0..Len(text)
  OBVIOUS
<1>2. \A o \in S : o \in (from + 1)..Len(text)
  OBVIOUS
<1>3. RunEnd(mode, from) = Min({Len(text)} \cup S)
  BY <1>1, RunEndIsReference
<1>4. \A o \in S : SomeMatch(mode, previous, text, o)
  OBVIOUS
<1> HIDE DEF S
<1>5. RunEnd(mode, from) \in S
  BY <1>1, <1>2, <1>3, LeastOffset
<1> QED BY <1>4, <1>5, MatchesAfterErrors

\* A scan that stands where a rule matches does not meet nothing there.
LEMMA ResumesMeets ==
    ASSUME rules \in Grammars, text \in Texts, text \in Seq(Char), previous = ErrorKind,
           NEW c \in Configurations, Resumes(Mode(c), c.cursor.offset), ~AtEnd(c)
    PROVE  Turn(c).meets # "nothing"
<1> DEFINE at   == c.cursor.offset
           m    == MunchAt(UnitOf(Mode(c), previous, text, at), text, at)
<1>1. at \in 0..(Len(text) - 1)
  <2>1. at \in 0..Len(text) /\ Len(text) \in Nat /\ at # Len(text)
    BY PlaceIsPosition DEF Configurations, Offsets, AtEnd
  <2> HIDE DEF at
  <2> QED BY <2>1
<1>2. Turn(c) = Met(c, m)
  BY DEF Turn
<1>3. m.have
  BY <1>1, MunchIsSome DEF Resumes
<1> HIDE DEF m
<1> QED BY <1>2, <1>3 DEF Met

\* Whether a rule matches past an error run is a matter of the rules and the text alone.
LEMMA SameResumes ==
    ASSUME rules' = rules, text' = text, NEW mode, NEW at
    PROVE  Resumes(mode, at)' = Resumes(mode, at)
BY DEF Resumes, SomeMatch, MatchesHere, RuleIds

\* The scan of an error run was not where one just ended.
LEMMA NothingApart ==
    ASSUME ActiveAfterErrors, Scanned, TokensApart, RunsEnd, Reached.meets = "nothing",
           tokens # <<>>, Last(tokens).kind = ErrorKind
    PROVE  Reached.at.cursor.offset > StoodAt(Len(tokens))
<1> DEFINE c == Reached.at
           stood == StoodAt(Len(tokens))
<1>1. /\ c.cursor.offset \in 0..Len(text) /\ cursor.offset \in 0..Len(text) /\ Len(text) \in Nat
      /\ cursor.offset <= c.cursor.offset /\ c.cursor.offset # Len(text)
  BY ReachedPlace
<1>2. stood \in Nat /\ stood <= cursor.offset
  <2>1. PICK n \in DOMAIN tokens : n = Len(tokens)
    BY DEF Scanned
  <2>2. tokens[n].start.offset \in Nat /\ Len(tokens[n].lexeme) \in Nat
    BY ShownOffsets
  <2>3. StoodAt(n) \in Nat
    BY <2>2 DEF StoodAt
  <2> QED BY <2>1, <2>3 DEF TokensApart
<1>3. ASSUME c = [cursor |-> cursor, stack |-> stack] PROVE c.cursor.offset > stood
  <2>1. ~(previous = ErrorKind /\ Resumes(Last(stack).mode, cursor.offset))
    <3>1. SUFFICES ASSUME previous = ErrorKind, Resumes(Last(stack).mode, cursor.offset) PROVE FALSE
      OBVIOUS
    <3>2. c \in Configurations /\ Reached = Turn(c)
      BY ReachedTyped
    <3>3. Resumes(Mode(c), c.cursor.offset) /\ ~AtEnd(c)
      BY <1>1, <1>3, <3>1 DEF Mode, AtEnd
    <3>4. Turn(c).meets # "nothing"
      BY <3>1, <3>2, <3>3, ResumesMeets DEF Scanned
    <3> QED BY <3>2, <3>4
  <2>2. cursor.offset > stood \/ cursor.offset = Len(text)
    BY <2>1 DEF RunsEnd
  <2>3. c.cursor.offset = cursor.offset
    BY <1>3
  <2> HIDE DEF stood, c
  <2> QED BY <1>1, <1>2, <2>2, <2>3
<1>4. ASSUME c.cursor.offset > cursor.offset PROVE c.cursor.offset > stood
  <2> HIDE DEF stood, c
  <2> QED BY <1>1, <1>2, <1>4
<1> QED BY <1>3, <1>4, ReachedTyped

\* A step leaves an error run ended.
LEMMA StepRunsEnd == ActiveAfterErrors /\ Scanned /\ TokensApart /\ RunsEnd /\ [ScanStep]_vars => RunsEnd'
<1> SUFFICES ASSUME ActiveAfterErrors, Scanned, TokensApart, RunsEnd, [ScanStep]_vars PROVE RunsEnd'
  OBVIOUS
<1> DEFINE turn == Reached
<1>1. CASE UNCHANGED vars
  <2>1. PICK mode, at : mode = Last(stack).mode /\ at = cursor.offset
    OBVIOUS
  <2>2. Resumes(mode, at)' = Resumes(mode, at)
    BY <1>1, SameResumes DEF vars
  <2> QED BY <1>1, <2>1, <2>2 DEF vars, RunsEnd, StoodAt, Resumes
<1>2. CASE ScanStep
  <2>1. Moves /\ cursor.offset \in 0..Len(text) /\ cursor'.offset \in 0..Len(text)
        /\ cursor'.offset >= cursor.offset /\ Len(text) \in Nat
    BY <1>2, StepMoves, MovesOn, ReachedPlace
  <2>2. rules' = rules /\ text' = text
    BY <2>1 DEF Moves
  \* the last disjunct of RunsEnd after the step
  <2>3. ASSUME NEW mode, NEW at, Resumes(mode, at), Last(stack').mode = mode, cursor'.offset = at,
               previous' = ErrorKind
        PROVE  RunsEnd'
    BY <2>2, <2>3, SameResumes DEF RunsEnd, Resumes
  <2>4. CASE tokens' = tokens /\ tokens # <<>> /\ Last(tokens).kind = ErrorKind
    <3> DEFINE stood == StoodAt(Len(tokens))
    <3>1. stood \in Nat /\ stood <= cursor.offset
      <4>1. Len(tokens) \in DOMAIN tokens
        BY <2>4 DEF Scanned
      <4> QED BY <4>1, ShownOffsets DEF StoodAt, TokensApart
    <3>2. StoodAt(Len(tokens))' = stood
      BY <2>4 DEF StoodAt
    <3>3. CASE cursor'.offset > stood \/ cursor'.offset = Len(text)
      BY <2>2, <3>2, <3>3 DEF RunsEnd
    <3>4. CASE ~(cursor'.offset > stood) /\ cursor'.offset # Len(text)
      <4>1. cursor.offset = stood /\ cursor'.offset = stood /\ cursor.offset # Len(text)
        <5> HIDE DEF stood
        <5> QED BY <2>1, <3>1, <3>4
      <4>2. previous = ErrorKind /\ Resumes(Last(stack).mode, cursor.offset)
        <5>1. ~(stood > stood)
          BY <3>1
        <5> QED BY <2>4, <4>1, <5>1 DEF RunsEnd
      <4>3. Reached.at = [cursor |-> cursor, stack |-> stack]
        <5>1. Reached.at.cursor.offset \in Int /\ cursor'.offset >= Reached.at.cursor.offset
          BY <2>1, ReachedPlace DEF Moves
        <5>2. ~(Reached.at.cursor.offset > cursor.offset)
          <6> HIDE DEF stood
          <6> QED BY <2>1, <4>1, <5>1
        <5> QED BY <5>2, ReachedTyped
      <4>4. ~BadTransition(turn)
        <5>1. SUFFICES ASSUME BadTransition(turn) PROVE FALSE
          OBVIOUS
        <5>2. cursor'.offset > cursor.offset
          BY <4>3, <5>1, BadTransitionMoves
        <5> HIDE DEF stood
        <5> QED BY <2>1, <4>1, <5>2
      <4>5. ~(Emit(turn) \/ EmitErrorRun(turn) \/ EmitUnterminated(turn))
        <5>1. \A token \in Shown : tokens' # Append(tokens, token)
          <6> TAKE token \in Shown
          <6>1. Len(Append(tokens, token)) = Len(tokens) + 1 /\ Len(tokens) \in Nat
            BY Appended DEF Scanned
          <6> QED BY <2>4, <6>1
        <5>2. ~ShowsToken
          BY <5>1 DEF ShowsToken
        <5>3. ~(Emit(turn) \/ EmitErrorRun(turn))
          BY <5>2, EmitMoves, ErrorRunMoves
        <5>4. ~EmitUnterminated(turn)
          <6>1. SUFFICES ASSUME EmitUnterminated(turn) PROVE FALSE
            OBVIOUS
          <6>2. ErrorKind \in Kinds /\ Mode(turn.at) \in ModeNames
            BY ReachedPlace DEF Kinds
          <6> QED BY <5>2, <6>1, <6>2, EndShows DEF EmitUnterminated
        <5> QED BY <5>3, <5>4
      <4>6. stack' = stack /\ previous' = previous
        BY <1>2, <4>3, <4>4, <4>5 DEF ScanStep, NoRule, Unterminated, ZeroLength, End, Exhausts, Fail
      <4>7. PICK mode, at : mode = Last(stack).mode /\ at = cursor.offset
        OBVIOUS
      <4> QED BY <2>3, <4>1, <4>2, <4>6, <4>7
    <3> QED BY <3>3, <3>4
  <2>5. CASE tokens' = tokens /\ ~(tokens # <<>> /\ Last(tokens).kind = ErrorKind)
    BY <2>5 DEF RunsEnd
  <2>6. CASE Emit(turn)
    <3> DEFINE token == Token(Won(turn).kind, turn.at.cursor, Past(turn.at, Match(turn)).cursor, Mode(turn.at))
    <3>1. tokens' = Append(tokens, token)
      BY <2>6 DEF Emit
    <3>2. turn.munch.idx \in RuleIds
      BY <2>6, MatchTyped DEF Emit
    <3>3. Won(turn).kind # ErrorKind
      BY <3>2, ScannerAssumption DEF Scanned, WellFormed, Won, RuleIds
    <3>4. token.kind = Won(turn).kind
      BY DEF Token
    <3> HIDE DEF token
    <3>5. Len(tokens') = Len(tokens) + 1 /\ tokens'[Len(tokens) + 1] = token
      BY <3>1 DEF Scanned
    <3>6. Last(tokens').kind # ErrorKind
      BY <3>3, <3>4, <3>5 DEF Last
    <3> QED BY <3>6 DEF RunsEnd
  <2>7. CASE EmitErrorRun(turn)
    <3> DEFINE c == turn.at
    <3>1. /\ turn.meets = "nothing" /\ stack' = c.stack /\ previous' = ErrorKind
          /\ cursor'.offset = RunEnd(Mode(c), c.cursor.offset)
      BY <2>7, ErrorRunMoves DEF EmitErrorRun
    <3>2. c.cursor.offset \in 0..(Len(text) - 1)
      BY <3>1, ReachedPlace
    <3>3. CASE cursor'.offset = Len(text)
      BY <2>2, <3>3 DEF RunsEnd
    <3>4. CASE cursor'.offset # Len(text)
      <4>1. PICK mode, at : mode = Mode(c) /\ at = cursor'.offset
        OBVIOUS
      <4>2. Resumes(mode, at)
        BY <3>1, <3>2, <3>4, <4>1, RunEndResumes DEF Scanned
      <4>3. Last(stack').mode = mode
        BY <3>1, <4>1 DEF Mode
      <4> QED BY <2>3, <3>1, <4>1, <4>2, <4>3
    <3> QED BY <3>3, <3>4
  <2>8. CASE EmitUnterminated(turn)
    <3>1. cursor'.offset = Len(text)
      BY <2>8, ReachedPlace DEF EmitUnterminated
    <3> QED BY <2>2, <3>1 DEF RunsEnd
  <2>9. CASE End(turn)
    <3>1. cursor'.offset = Len(text)
      BY <2>9, ReachedPlace DEF End
    <3> QED BY <2>2, <3>1 DEF RunsEnd
  <2>10. CASE NoRule(turn) \/ BadTransition(turn) \/ Unterminated(turn) \/ ZeroLength(turn) \/ Exhausts(turn)
    <3>1. tokens' = tokens
      BY <2>10 DEF NoRule, BadTransition, Unterminated, ZeroLength, Exhausts, Fail
    <3> QED BY <2>4, <2>5, <3>1
  <2> QED BY <1>2, <2>6, <2>7, <2>8, <2>9, <2>10 DEF ScanStep
<1> QED BY <1>1, <1>2

\* Where every rule is active after an error run, the bytes no rule can begin make one error token: two of
\* them never touch.  (LexErrorRuns shows two that do, with a rule that is active after a word only.)
THEOREM ErrorRunsDoNotTouch ==
    ActiveAfterErrors => (Spec => []ErrorRunsApart) /\ (IteratorSpec => []ErrorRunsApart)
<1> SUFFICES ASSUME ActiveAfterErrors
             PROVE  (Spec => []ErrorRunsApart) /\ (IteratorSpec => []ErrorRunsApart)
  OBVIOUS
<1> DEFINE Runs == Scanned /\ TokensApart /\ RunsEnd /\ ErrorRunsApart
<1>1. Init => Runs
  <2>1. Init => TokensApart /\ RunsEnd /\ ErrorRunsApart
    BY DEF Init, TokensApart, RunsEnd, ErrorRunsApart
  <2> QED BY <2>1, InitScanned
<1>2. Runs /\ [ScanStep]_vars => Runs'
  <2> SUFFICES ASSUME Runs, [ScanStep]_vars PROVE Runs'
    OBVIOUS
  <2>1. Scanned' /\ TokensApart' /\ RunsEnd'
    BY StepScanned, StepApart, StepRunsEnd
  <2>2. ErrorRunsApart'
    <3>1. CASE tokens' = tokens
      BY <3>1 DEF ErrorRunsApart
    <3>2. CASE tokens' # tokens
      <4>1. ScanStep /\ ShowsToken
        BY <3>2, StepMoves DEF vars, ShowsNothing
      <4>2. PICK token \in Shown : /\ tokens' = Append(tokens, token) /\ token.start = Reached.at.cursor
                                  /\ token.start.offset + Len(token.lexeme) = cursor'.offset
        BY <4>1 DEF ShowsToken
      <4> DEFINE n == Len(tokens)
      <4>3. /\ n \in Nat /\ Len(tokens') = n + 1 /\ tokens'[n + 1] = token
            /\ \A i \in 1..n : tokens'[i] = tokens[i]
        BY <4>2, Appended DEF Scanned
      <4>4. ASSUME n >= 1, tokens[n].kind = ErrorKind, token.kind = ErrorKind, token.lexeme # <<>>
            PROVE  token.start.offset > tokens[n].start.offset + Len(tokens[n].lexeme)
        <5>1. Reached.meets = "nothing"
          <6>1. CASE EmitErrorRun(Reached)
            BY <6>1 DEF EmitErrorRun
          <6>2. CASE Emit(Reached)
            <7>1. Last(tokens').kind = Won(Reached).kind
              <8> DEFINE shown == Token(Won(Reached).kind, Reached.at.cursor,
                                        Past(Reached.at, Match(Reached)).cursor, Mode(Reached.at))
              <8>1. tokens' = Append(tokens, shown) /\ shown.kind = Won(Reached).kind
                BY <6>2 DEF Emit, Token
              <8> HIDE DEF shown
              <8>2. Len(tokens') = Len(tokens) + 1 /\ tokens'[Len(tokens) + 1] = shown
                BY <8>1 DEF Scanned
              <8> QED BY <8>1, <8>2 DEF Last
            <7>2. Reached.munch.idx \in RuleIds
              BY <6>2, MatchTyped DEF Emit
            <7>3. Won(Reached).kind # ErrorKind
              BY <7>2, ScannerAssumption DEF Scanned, WellFormed, Won, RuleIds
            <7> QED BY <4>3, <4>4, <7>1, <7>3 DEF Last
          <6>3. CASE EmitUnterminated(Reached) \/ End(Reached)
            <7>1. cursor'.offset = Reached.at.cursor.offset
              BY <6>3 DEF EmitUnterminated, End
            <7>2. token.start.offset \in Nat /\ token.lexeme \in Seq(Char)
              BY <4>2, ReachedPlace DEF Shown
            <7> DEFINE length == Len(token.lexeme)
            <7>3. length \in Nat /\ (length = 0 => token.lexeme = <<>>)
              BY <7>2
            <7>4. token.start.offset + length = token.start.offset
              BY <4>2, <7>1
            <7> HIDE DEF length
            <7>5. length = 0
              BY <7>2, <7>3, <7>4
            <7> QED BY <4>4, <7>3, <7>5
          <6>4. CASE \/ NoRule(Reached) \/ BadTransition(Reached) \/ Unterminated(Reached)
                     \/ ZeroLength(Reached) \/ Exhausts(Reached)
            BY <3>2, <6>4 DEF NoRule, BadTransition, Unterminated, ZeroLength, Exhausts, Fail
          <6> QED BY <4>1, <6>1, <6>2, <6>3, <6>4 DEF ScanStep
        <5>2. tokens # <<>> /\ Last(tokens).kind = ErrorKind
          BY <4>4 DEF Last
        <5> QED BY <4>2, <5>1, <5>2, NothingApart DEF StoodAt
      <4> HIDE DEF n
      <4>5. ASSUME NEW i \in 2..(n + 1)
            PROVE  tokens'[i - 1].kind = ErrorKind /\ tokens'[i].kind = ErrorKind /\ tokens'[i].lexeme # <<>>
                   => tokens'[i].start.offset > tokens'[i - 1].start.offset + Len(tokens'[i - 1].lexeme)
        <5>1. CASE i = n + 1
          <6>1. i - 1 = n /\ n \in 1..n /\ n >= 1
            BY <4>3, <5>1
          <6> QED BY <4>3, <4>4, <5>1, <6>1
        <5>2. CASE i # n + 1
          <6>1. i \in 2..n /\ i \in 1..n /\ i - 1 \in 1..n
            BY <4>3, <5>2
          <6> QED BY <4>3, <6>1 DEF ErrorRunsApart, n
        <5> QED BY <5>1, <5>2
      <4> QED BY <4>3, <4>5 DEF ErrorRunsApart
    <3> QED BY <3>1, <3>2
  <2> QED BY <2>1, <2>2
<1>3. Spec => []Runs
  BY <1>1, <1>2, NextScans, PTL DEF Spec
<1>4. IteratorSpec => []Runs
  <2>1. IteratorInit => Runs
    BY <1>1 DEF IteratorInit
  <2> QED BY <1>2, <2>1, IncrementScans, PTL DEF IteratorSpec
<1> QED BY <1>3, <1>4, PTL

-----------------------------------------------------------------------------
(* Columns: the lexer looks back from a byte, the reference walks from the beginning *)

\* A byte inside a well-formed code point begun before it.
Inside(t, o) == \E back \in 1..3 : back <= o /\ ValidLength(t, o - back) > back

\* What a code point's lead is worth, or a byte that leads none.
Steps(t, o) == Max({1, ValidLength(t, o)})

\* A code point of n bytes is its lead and n - 1 continuations.
LEMMA CodePoints ==
    ASSUME NEW t \in Seq(Char), NEW o \in 0..(Len(t) - 1)
    PROVE  /\ ValidLength(t, o) \in 0..4 /\ Announces[t[o + 1]] \in 0..4
           /\ ValidLength(t, o) # 0 => ValidLength(t, o) = Announces[t[o + 1]]
           /\ o + ValidLength(t, o) <= Len(t)
           /\ \A i \in 1..(ValidLength(t, o) - 1) : Announces[t[o + 1 + i]] = 0
<1> DEFINE n == Announces[t[o + 1]]
<1>1. o + 1 \in 1..Len(t) /\ t[o + 1] \in Char /\ Len(t) \in Nat
  OBVIOUS
<1>2. n \in 0..4
  BY <1>1, ScannerAssumption
<1>3. \/ ValidLength(t, o) = 0
      \/ ValidLength(t, o) = n /\ o + n <= Len(t) /\ \A i \in 1..(n - 1) : Announces[t[o + 1 + i]] = 0
  BY DEF ValidLength
<1> HIDE DEF n
<1>4. 1..(0 - 1) = {}
  OBVIOUS
<1> QED BY <1>1, <1>2, <1>3, <1>4 DEF n

\* Steps is the length of a code point, one at least.
LEMMA StepsAre ==
    ASSUME NEW t \in Seq(Char), NEW o \in 0..(Len(t) - 1)
    PROVE  Steps(t, o) = IF ValidLength(t, o) = 0 THEN 1 ELSE ValidLength(t, o)
<1> DEFINE S == {1, ValidLength(t, o)}
<1>1. ValidLength(t, o) \in 0..4
  BY CodePoints
<1>2. \A x \in S : x \in 0..4
  BY <1>1
<1>3. S # {}
  OBVIOUS
<1>4. 1 \in S /\ ValidLength(t, o) \in S
  OBVIOUS
<1>5. \A x \in S : x = 1 \/ x = ValidLength(t, o)
  OBVIOUS
<1> HIDE DEF S
<1>6. Max(S) \in S /\ \A y \in S : Max(S) >= y
  BY <1>2, <1>3, MaxOfIntegers
<1> QED BY <1>1, <1>4, <1>5, <1>6 DEF Steps, S

\* A byte inside a code point is a continuation, and no code point begins at it.
LEMMA InsideContinues ==
    ASSUME NEW t \in Seq(Char), NEW o \in 0..(Len(t) - 1), Inside(t, o)
    PROVE  Announces[t[o + 1]] = 0 /\ ValidLength(t, o) = 0
<1>1. PICK back \in 1..3 : back <= o /\ ValidLength(t, o - back) > back
  BY DEF Inside
<1> DEFINE p == o - back
           n == ValidLength(t, p)
<1>2. p \in 0..(Len(t) - 1) /\ Len(t) \in Nat
  BY <1>1
<1>3. n \in 0..4 /\ \A i \in 1..(n - 1) : Announces[t[p + 1 + i]] = 0
  BY <1>2, CodePoints
<1>4. back \in 1..(n - 1)
  <2> HIDE DEF n
  <2> QED BY <1>1, <1>3 DEF n
<1>5. Announces[t[p + 1 + back]] = 0
  BY <1>3, <1>4
<1>6. p + 1 + back = o + 1
  BY <1>1
<1>7. Announces[t[o + 1]] = 0
  BY <1>5, <1>6
<1> QED BY <1>7, CodePoints

\* The walk stops where no code point is gone through: at the beginning, and a step past a stop.
LEMMA WalkStops ==
    ASSUME NEW t \in Seq(Char), NEW o \in 0..Len(t)
    PROVE  ~Inside(t, o) <=>
              o = 0 \/ \E back \in 1..4 : back <= o /\ ~Inside(t, o - back) /\ Steps(t, o - back) = back
<1>1. Len(t) \in Nat
  OBVIOUS
<1>2. o = 0 => ~Inside(t, o)
  BY DEF Inside
<1>3. ASSUME o # 0, ~Inside(t, o)
      PROVE  \E back \in 1..4 : back <= o /\ ~Inside(t, o - back) /\ Steps(t, o - back) = back
  <2> DEFINE q == o - 1
             n == ValidLength(t, q)
  <2>1. q \in 0..(Len(t) - 1) /\ 1 <= o
    BY <1>1, <1>3
  <2>2. CASE ~Inside(t, q)
    <3>1. n \in 0..4 /\ ~(n > 1)
      <4>1. n \in 0..4
        BY <2>1, CodePoints
      <4> QED BY <1>3, <2>1, <4>1 DEF Inside
    <3>2. Steps(t, q) = 1
      <4>1. Steps(t, q) = IF n = 0 THEN 1 ELSE n
        BY <2>1, StepsAre
      <4> HIDE DEF n
      <4> QED BY <3>1, <4>1
    <3> QED BY <2>1, <2>2, <3>2
  <2>3. CASE Inside(t, q)
    <3>1. PICK b \in 1..3 : b <= q /\ ValidLength(t, q - b) > b
      BY <2>3 DEF Inside
    <3> DEFINE p == q - b
               m == ValidLength(t, p)
    <3>2. p \in 0..(Len(t) - 1) /\ p = o - (b + 1)
      BY <2>1, <3>1
    <3>3. m \in 0..4
      BY <3>2, CodePoints
    <3>4. m = b + 1
      <4>1. b + 1 \in 1..3 /\ b + 1 <= o => ~(m > b + 1)
        BY <1>3, <3>2 DEF Inside
      <4>2. b + 1 <= o /\ m > b
        BY <2>1, <3>1
      <4> HIDE DEF m, p
      <4> QED BY <3>3, <4>1, <4>2
    <3>5. ~Inside(t, p)
      BY <3>2, <3>4, InsideContinues
    <3>6. Steps(t, p) = b + 1
      <4>1. Steps(t, p) = IF m = 0 THEN 1 ELSE m
        BY <3>2, StepsAre
      <4> HIDE DEF m, p
      <4> QED BY <3>4, <4>1
    <3>7. b + 1 \in 1..4 /\ b + 1 <= o
      BY <2>1, <3>1
    <3> QED BY <3>2, <3>5, <3>6, <3>7
  <2> QED BY <2>2, <2>3
<1>4. ASSUME NEW back \in 1..4, back <= o, ~Inside(t, o - back), Steps(t, o - back) = back, Inside(t, o)
      PROVE  FALSE
  <2> DEFINE q == o - back
  <2>1. PICK b \in 1..3 : b <= o /\ ValidLength(t, o - b) > b
    BY <1>4 DEF Inside
  <2> DEFINE p == o - b
             m == ValidLength(t, p)
             n == ValidLength(t, q)
  <2>2. p \in 0..(Len(t) - 1) /\ q \in 0..(Len(t) - 1)
    BY <1>1, <1>4, <2>1
  <2>3. m \in 0..4 /\ n \in 0..4 /\ m > b /\ back = IF n = 0 THEN 1 ELSE n
    BY <1>4, <2>1, <2>2, CodePoints, StepsAre
  <2>4. CASE b = back
    <3> HIDE DEF m, n, p, q
    <3>1. m = n
      BY <2>4 DEF m, n, p, q
    <3> QED BY <2>3, <2>4, <3>1
  \* q inside the code point of p
  <2>5. CASE back < b
    <3>1. b - back \in 1..3 /\ b - back <= q /\ q - (b - back) = p
      BY <1>4, <2>1, <2>2, <2>5
    <3>2. m > b - back
      <4> HIDE DEF m
      <4> QED BY <2>1, <2>3
    <3>3. Inside(t, q)
      BY <3>1, <3>2 DEF Inside
    <3> QED BY <1>4, <3>3
  \* p inside the code point of q
  <2>6. CASE back > b
    <3>1. back - b \in 1..3 /\ back - b <= p /\ p - (back - b) = q
      BY <1>4, <2>1, <2>2, <2>6
    <3>2. n > back - b
      <4> HIDE DEF n, m
      <4> QED BY <2>1, <2>3, <2>6
    <3>3. Inside(t, p)
      BY <3>1, <3>2 DEF Inside
    <3>4. m = 0
      BY <2>2, <3>3, InsideContinues
    <3> HIDE DEF m
    <3> QED BY <2>1, <2>3, <3>4
  <2> QED BY <2>4, <2>5, <2>6
<1> QED BY <1>2, <1>3, <1>4

\* What a byte moves the column by is the same looked back from it and walked to.
LEMMA WeightsAreSteps ==
    ASSUME NEW t \in Seq(Char)
    PROVE  /\ ColumnWeights(t) = [ o \in 0..(Len(t) - 1) |-> ColumnStep(t, o) ]
           /\ \A o \in 0..(Len(t) - 1) : ColumnStep(t, o) \in 0..2
<1> DEFINE n == Len(t)
           Full(f) == f = [ o \in 0..n |->
                              o = 0 \/ \E back \in 1..Min({4, o}) : f[o - back] /\ Steps(t, o - back) = back ]
           visits == CHOOSE f : Full(f)
           stops  == [ o \in 0..n |-> ~Inside(t, o) ]
<1>1. n \in Nat
  OBVIOUS
<1>2. ASSUME NEW o \in 0..n PROVE \A back : back \in 1..Min({4, o}) <=> back \in 1..4 /\ back <= o
  <2> DEFINE S == {4, o}
  <2>1. S \in SUBSET Nat /\ S # {} /\ 4 \in S /\ o \in S
    BY <1>1
  <2>2. \A x \in S : x = 4 \/ x = o
    OBVIOUS
  <2> HIDE DEF S
  <2>3. Min(S) \in S /\ \A y \in S : Min(S) <= y
    BY <2>1, MinOfNaturals
  <2>4. Min(S) \in Nat /\ Min(S) <= 4 /\ Min(S) <= o /\ (Min(S) = 4 \/ Min(S) = o)
    BY <2>1, <2>2, <2>3
  <2>5. \A back : back \in 1..Min(S) <=> back \in 1..4 /\ back <= o
    BY <1>1, <2>4
  <2> QED BY <2>5 DEF S
\* where the walk stops is a solution of its equation, and the only one
<1>3. Full(stops)
  <2>1. ASSUME NEW o \in 0..n
        PROVE  stops[o] = (o = 0 \/ \E back \in 1..Min({4, o}) : stops[o - back] /\ Steps(t, o - back) = back)
    <3>1. \A back \in 1..4 : back <= o => o - back \in 0..n
      BY <1>1
    <3>2. (\E back \in 1..Min({4, o}) : stops[o - back] /\ Steps(t, o - back) = back)
          <=> \E back \in 1..4 : back <= o /\ ~Inside(t, o - back) /\ Steps(t, o - back) = back
      BY <1>2, <3>1
    <3>3. stops[o] = ~Inside(t, o)
      OBVIOUS
    <3> HIDE DEF stops
    <3> QED BY <3>2, <3>3, WalkStops
  <2> QED BY <2>1
<1>4. Full(visits)
  <2> HIDE DEF Full
  <2> QED BY <1>3
<1> HIDE DEF visits
<1>5. \A o \in 0..n : visits[o] <=> ~Inside(t, o)
  <2> DEFINE Bad == { o \in 0..n : ~(visits[o] <=> ~Inside(t, o)) }
  <2>1. SUFFICES ASSUME Bad # {} PROVE FALSE
    OBVIOUS
  <2> DEFINE m == Min(Bad)
  <2>2. m \in Bad /\ \A o \in Bad : m <= o
    <3>1. Bad \in SUBSET Nat
      BY <1>1
    <3> HIDE DEF Bad
    <3> QED BY <2>1, <3>1, MinOfNaturals
  <2>3. m \in 0..n /\ ~(visits[m] <=> ~Inside(t, m))
    BY <2>2
  <2>4. visits[m] = (m = 0 \/ \E back \in 1..Min({4, m}) : visits[m - back] /\ Steps(t, m - back) = back)
    BY <1>4, <2>3
  <2>5. ASSUME NEW back \in 1..4, back <= m PROVE visits[m - back] <=> ~Inside(t, m - back)
    <3>1. m - back \in 0..n /\ ~(m <= m - back)
      BY <1>1, <2>3, <2>5
    <3>2. m - back \notin Bad
      BY <2>2, <3>1
    <3> QED BY <3>1, <3>2
  <2> HIDE DEF m
  <2>6. visits[m] <=> m = 0 \/ \E back \in 1..4 : back <= m /\ visits[m - back] /\ Steps(t, m - back) = back
    BY <1>2, <2>3, <2>4
  <2> QED BY <2>3, <2>5, <2>6, WalkStops
\* what each byte is worth
<1>6. ASSUME NEW o \in 0..(n - 1)
      PROVE  /\ ColumnStep(t, o) \in 0..2
             /\ ColumnStep(t, o) = CASE Columns = "bytes" -> 1
                                     [] Columns # "bytes" /\ ~visits[o] -> 0
                                     [] OTHER -> IF Columns = "utf16" /\ ValidLength(t, o) = 4 THEN 2 ELSE 1
  <2>1. o \in 0..n /\ (visits[o] <=> ~Inside(t, o))
    BY <1>1, <1>5
  <2>2. (\E back \in 1..Min({3, o}) : ValidLength(t, o - back) > back) <=> Inside(t, o)
    <3> DEFINE S == {3, o}
    <3>1. S \in SUBSET Nat /\ S # {} /\ 3 \in S /\ o \in S
      BY <1>1
    <3>2. \A x \in S : x = 3 \/ x = o
      OBVIOUS
    <3> HIDE DEF S
    <3>3. Min(S) \in S /\ \A y \in S : Min(S) <= y
      BY <3>1, MinOfNaturals
    <3>4. Min(S) \in Nat /\ Min(S) <= 3 /\ Min(S) <= o /\ (Min(S) = 3 \/ Min(S) = o)
      BY <3>1, <3>2, <3>3
    <3>5. \A back : back \in 1..Min(S) <=> back \in 1..3 /\ back <= o
      BY <1>1, <3>4
    <3> QED BY <3>5 DEF S, Inside
  <2>3. Inside(t, o) => Announces[t[o + 1]] = 0
    BY InsideContinues
  <2>4. Announces[t[o + 1]] = 0 => ValidLength(t, o) # 4
    BY CodePoints
  <2>5. CASE Columns = "bytes"
    BY <2>5 DEF ColumnStep
  <2>6. CASE Columns # "bytes" /\ Announces[t[o + 1]] = 0
    <3>1. ColumnStep(t, o) = IF Inside(t, o) THEN 0 ELSE 1
      BY <2>2, <2>6 DEF ColumnStep
    <3> QED BY <2>1, <2>4, <2>6, <3>1
  <2>7. CASE Columns # "bytes" /\ Announces[t[o + 1]] # 0
    <3>1. ColumnStep(t, o) = IF Columns = "utf16" /\ ValidLength(t, o) = 4 THEN 2 ELSE 1
      BY <2>7 DEF ColumnStep
    <3> QED BY <2>1, <2>3, <2>7, <3>1
  <2> QED BY <2>5, <2>6, <2>7
<1>7. ColumnWeights(t) = [ o \in 0..(n - 1) |->
            CASE Columns = "bytes" -> 1
              [] Columns # "bytes" /\ ~visits[o] -> 0
              [] OTHER -> IF Columns = "utf16" /\ ValidLength(t, o) = 4 THEN 2 ELSE 1 ]
  BY DEF ColumnWeights, visits, Steps
<1> QED BY <1>6, <1>7

\* The sum of the weights of some bytes counts the bytes of one at least, and those of two again.
LEMMA SumOfSteps ==
    ASSUME NEW n \in Nat, NEW w, \A o \in 0..(n - 1) : w[o] \in 0..2, NEW S \in SUBSET (0..(n - 1))
    PROVE  MapThenSumSet(LAMBDA o : w[o], S)
           = Cardinality({ o \in S : w[o] >= 1 }) + Cardinality({ o \in S : w[o] = 2 })
<1> DEFINE One(s) == { o \in s : w[o] >= 1 }
           Two(s) == { o \in s : w[o] = 2 }
           Count(s) == Cardinality(One(s)) + Cardinality(Two(s))
           OneOf(s) == CHOOSE x \in s : TRUE
           Full(f) == f = [ s \in SUBSET S |-> IF s = {} THEN 0 ELSE w[OneOf(s)] + f[s \ {OneOf(s)}] ]
           sum == CHOOSE f : Full(f)
           counts == [ s \in SUBSET S |-> Count(s) ]
<1>1. MapThenSumSet(LAMBDA o : w[o], S) = sum[S]
  BY DEF MapThenSumSet, MapThenFoldSet
<1>2. \A s \in SUBSET S : IsFiniteSet(s) /\ Cardinality(s) \in Nat
  <2>1. IsFiniteSet(0..(n - 1))
    BY FS_Interval
  <2> QED BY <2>1, FS_Subset, FS_CardinalityType
<1>3. \A s \in SUBSET S : s # {} => OneOf(s) \in s /\ s \ {OneOf(s)} \in SUBSET S
  OBVIOUS
<1>4. ASSUME NEW s \in SUBSET S, NEW x \in s PROVE Count(s) = w[x] + Count(s \ {x})
  <2> DEFINE less == s \ {x}
  <2>1. /\ IsFiniteSet(One(s)) /\ IsFiniteSet(Two(s)) /\ IsFiniteSet(One(less)) /\ IsFiniteSet(Two(less))
        /\ Cardinality(One(less)) \in Nat /\ Cardinality(Two(less)) \in Nat
    BY <1>2
  <2>2. w[x] \in 0..2
    OBVIOUS
  <2>3. x \notin One(less) /\ x \notin Two(less)
    OBVIOUS
  <2>4. One(s) = IF w[x] >= 1 THEN One(less) \cup {x} ELSE One(less)
    OBVIOUS
  <2>5. Two(s) = IF w[x] = 2 THEN Two(less) \cup {x} ELSE Two(less)
    OBVIOUS
  <2>6. Cardinality(One(less) \cup {x}) = Cardinality(One(less)) + 1
        /\ Cardinality(Two(less) \cup {x}) = Cardinality(Two(less)) + 1
    BY <2>1, <2>3, FS_AddElement
  <2> HIDE DEF One, Two, less
  <2>7. Cardinality(One(s)) = IF w[x] >= 1 THEN Cardinality(One(less)) + 1 ELSE Cardinality(One(less))
    BY <2>4, <2>6
  <2>8. Cardinality(Two(s)) = IF w[x] = 2 THEN Cardinality(Two(less)) + 1 ELSE Cardinality(Two(less))
    BY <2>5, <2>6
  <2>9. Cardinality(One(s)) + Cardinality(Two(s)) = w[x] + (Cardinality(One(less)) + Cardinality(Two(less)))
    BY <2>1, <2>2, <2>7, <2>8
  <2> QED BY <2>9 DEF less
<1>5. Count({}) = 0
  BY FS_EmptySet
<1> HIDE DEF Count, OneOf
<1>6. Full(counts)
  BY <1>3, <1>4, <1>5
<1>7. Full(sum)
  <2> HIDE DEF Full
  <2> QED BY <1>6
<1> HIDE DEF sum, counts
<1>8. \A s \in SUBSET S : sum[s] = Count(s)
  <2> DEFINE Bad   == { s \in SUBSET S : sum[s] # Count(s) }
             sizes == { Cardinality(s) : s \in Bad }
  <2>1. SUFFICES ASSUME Bad # {} PROVE FALSE
    OBVIOUS
  <2> DEFINE m == Min(sizes)
  <2>2. m \in sizes /\ \A k \in sizes : m <= k
    <3>1. sizes \in SUBSET Nat /\ sizes # {}
      BY <1>2, <2>1
    <3> HIDE DEF sizes
    <3> QED BY <3>1, MinOfNaturals
  <2>3. PICK s \in Bad : m = Cardinality(s)
    BY <2>2
  <2>4. sum[s] = IF s = {} THEN 0 ELSE w[OneOf(s)] + sum[s \ {OneOf(s)}]
    BY <1>7, <2>3
  <2>5. s # {}
    BY <1>5, <2>3, <2>4
  <2> DEFINE less == s \ {OneOf(s)}
  <2>6. less \in SUBSET S /\ OneOf(s) \in s
    BY <1>3, <2>5
  <2>7. Cardinality(less) = Cardinality(s) - 1 /\ Cardinality(s) \in Nat
    <3>1. IsFiniteSet(s) /\ Cardinality(s) \in Nat
      BY <1>2
    <3> QED BY <2>6, <3>1, FS_RemoveElement
  <2>8. less \notin Bad
    <3>1. SUFFICES ASSUME less \in Bad PROVE FALSE
      OBVIOUS
    <3>2. Cardinality(less) \in sizes
      BY <3>1
    <3>3. m <= Cardinality(less)
      BY <2>2, <3>2
    <3> HIDE DEF m, less
    <3> QED BY <2>3, <2>7, <3>3
  <2>9. sum[less] = Count(less)
    BY <2>6, <2>8
  <2>10. Count(s) = w[OneOf(s)] + Count(less)
    BY <1>4, <2>6
  <2> QED BY <2>3, <2>4, <2>5, <2>9, <2>10
<1> QED BY <1>1, <1>8 DEF Count

\* The reference's walk over a text advances a position as the lexer does.
LEMMA WalksAsAdvance ==
    ASSUME NEW t \in Seq(Char), NEW pos, pos.offset \in 0..Len(t), pos.column \in Nat,
           NEW k \in 0..(Len(t) - pos.offset)
    PROVE  Walked(t, ColumnWeights(t), pos, k) = Advance(t, pos, k)
<1> DEFINE passed == pos.offset..(pos.offset + k - 1)
           breaks == { o \in passed : t[o + 1] = NewLine }
           onLine == { o \in passed : \A b \in breaks : b < o }
           w      == ColumnWeights(t)
<1>1. Len(t) \in Nat /\ onLine \in SUBSET (0..(Len(t) - 1))
  <2>1. passed \in SUBSET (0..(Len(t) - 1))
    OBVIOUS
  <2> QED BY <2>1
<1>2. \A o \in 0..(Len(t) - 1) : w[o] = ColumnStep(t, o) /\ w[o] \in 0..2
  BY WeightsAreSteps
<1> DEFINE base == IF breaks = {} THEN pos.column ELSE 1
           line == pos.line + Cardinality(breaks)
           one  == Cardinality({ o \in onLine : ColumnStep(t, o) >= 1 })
           two  == Cardinality({ o \in onLine : ColumnStep(t, o) = 2 })
           sum  == MapThenSumSet(LAMBDA o : w[o], onLine)
<1>3. Advance(t, pos, k) = [ offset |-> pos.offset + k, line |-> line, column |-> base + one + two ]
  BY DEF Advance
<1>4. Walked(t, w, pos, k) = [ offset |-> pos.offset + k, line |-> line, column |-> base + sum ]
  BY DEF Walked
<1>5. { o \in onLine : ColumnStep(t, o) >= 1 } = { o \in onLine : w[o] >= 1 }
      /\ { o \in onLine : ColumnStep(t, o) = 2 } = { o \in onLine : w[o] = 2 }
  BY <1>1, <1>2
<1>6. base \in Nat
  OBVIOUS
<1>7. one \in Nat /\ two \in Nat
  <2>1. IsFiniteSet(0..(Len(t) - 1))
    BY <1>1, FS_Interval
  <2> QED BY <1>1, <2>1, FS_Subset, FS_CardinalityType
<1> HIDE DEF w, onLine
<1>8. sum = Cardinality({ o \in onLine : w[o] >= 1 }) + Cardinality({ o \in onLine : w[o] = 2 })
  BY <1>1, <1>2, SumOfSteps
<1>9. sum = one + two
  BY <1>5, <1>8
<1> HIDE DEF base, line, one, two, sum
<1>10. base + one + two = base + sum
  BY <1>6, <1>7, <1>9
<1> QED BY <1>3, <1>4, <1>10 DEF w

-----------------------------------------------------------------------------
(* The reference's run over a text *)

Recovers == ErrorPolicy = "token"

\* The reference's scan has failed, or is at the end of the text.
Over(scan) == scan.failed # Nowhere \/ scan.cursor.offset = Len(text)

After(scan) == IF Over(scan) THEN scan ELSE ReferenceTurn(text, ColumnWeights(text), Recovers, scan)

\* f is the reference's run: the scan after each turn.
Run(f) == f = [ turns \in 0..Len(text) |-> IF turns = 0 THEN Scanning ELSE After(f[turns - 1]) ]

\* The run goes through a scan, after no more turns than it took characters while it has not failed.
Visited(scan) ==
    \E f : Run(f) /\ \E k \in 0..Len(text) : f[k] = scan /\ (scan.failed = Nowhere => k <= scan.cursor.offset)

\* There is such a run.
LEMMA RunExists ==
    ASSUME Len(text) \in Nat
    PROVE  \E f : Run(f)
<1> DEFINE n == Len(text)
           Runs(m, f) == /\ f = [ i \in 0..m |-> f[i] ]
                         /\ f[0] = Scanning
                         /\ \A i \in 1..m : f[i] = After(f[i - 1])
           Missing == { m \in 0..n : ~\E f : Runs(m, f) }
<1>1. n \in Nat /\ n \in 0..n
  OBVIOUS
<1>2. Missing = {}
  <2>1. SUFFICES ASSUME Missing # {} PROVE FALSE
    OBVIOUS
  <2> DEFINE m == Min(Missing)
  <2>2. m \in Missing /\ \A k \in Missing : m <= k
    <3>1. Missing \in SUBSET Nat
      BY <1>1
    <3> HIDE DEF Missing
    <3> QED BY <2>1, <3>1, MinOfNaturals
  <2>3. m \in 0..n /\ ~\E f : Runs(m, f)
    BY <2>2
  <2>4. m # 0
    <3> DEFINE g == [ i \in 0..0 |-> Scanning ]
    <3>1. Runs(0, g)
      OBVIOUS
    <3> HIDE DEF Runs, g, m
    <3> QED BY <2>3, <3>1
  <2>5. m - 1 \in 0..n /\ m - 1 \notin Missing /\ m \in Nat
    <3> HIDE DEF m, Missing, n
    <3> QED BY <1>1, <2>2, <2>3, <2>4
  <2>6. PICK f : Runs(m - 1, f)
    BY <2>5
  <2> HIDE DEF m, n, Missing
  <2> DEFINE g == [ i \in 0..m |-> IF i = m THEN After(f[m - 1]) ELSE f[i] ]
  <2>7. g = [ i \in 0..m |-> g[i] ]
    OBVIOUS
  <2>8. g[0] = Scanning
    BY <2>4, <2>5, <2>6
  <2>9. ASSUME NEW i \in 1..m PROVE g[i] = After(g[i - 1])
    <3>1. i - 1 \in 0..m /\ i - 1 # m /\ i \in 0..m /\ g[i - 1] = f[i - 1]
      BY <2>5
    <3>2. CASE i = m
      BY <3>1, <3>2
    <3>3. CASE i # m
      <4>1. i \in 1..(m - 1) /\ g[i] = f[i]
        BY <2>5, <3>1, <3>3
      <4> QED BY <2>6, <3>1, <4>1
    <3> QED BY <3>2, <3>3
  <2> HIDE DEF g
  <2> QED BY <2>3, <2>7, <2>8, <2>9
<1>3. PICK f : Runs(n, f)
  BY <1>1, <1>2
<1>4. \A i \in 0..n : f[i] = IF i = 0 THEN Scanning ELSE After(f[i - 1])
  BY <1>3, SMTT(60)
<1>5. f = [ i \in 0..n |-> f[i] ]
  BY <1>3
<1> HIDE DEF n, Runs
<1>6. f = [ i \in 0..n |-> IF i = 0 THEN Scanning ELSE After(f[i - 1]) ]
  BY <1>4, <1>5
<1> QED BY <1>6 DEF Run, n

\* There is only one.
LEMMA RunUnique ==
    ASSUME Len(text) \in Nat, NEW f, Run(f), NEW g, Run(g)
    PROVE  f = g
<1> DEFINE n == Len(text)
           Bad == { i \in 0..n : f[i] # g[i] }
<1>1. n \in Nat
  OBVIOUS
<1>2. f = [ i \in 0..n |-> IF i = 0 THEN Scanning ELSE After(f[i - 1]) ]
  BY DEF Run
<1>3. g = [ i \in 0..n |-> IF i = 0 THEN Scanning ELSE After(g[i - 1]) ]
  BY DEF Run
<1> HIDE DEF n
<1>4. ASSUME Bad # {} PROVE FALSE
  <2> DEFINE m == Min(Bad)
  <2>1. m \in Bad /\ \A k \in Bad : m <= k
    <3>1. Bad \in SUBSET Nat
      BY <1>1
    <3> HIDE DEF Bad
    <3> QED BY <1>4, <3>1, MinOfNaturals
  <2>2. m \in 0..n /\ f[m] # g[m]
    BY <2>1
  <2> HIDE DEF m
  <2>3. CASE m = 0
    BY <1>1, <1>2, <1>3, <2>2, <2>3
  <2>4. CASE m # 0
    <3>1. m - 1 \in 0..n /\ ~(m <= m - 1)
      BY <1>1, <2>2, <2>4
    <3>2. f[m - 1] = g[m - 1]
      BY <2>1, <3>1
    <3> QED BY <1>2, <1>3, <2>2, <2>4, <3>2
  <2> QED BY <2>3, <2>4
<1>5. \A i \in 0..n : f[i] = g[i]
  BY <1>4
<1> QED BY <1>2, <1>3, <1>5

\* What the reference makes of a text is what the run comes to.
LEMMA RunEnds ==
    ASSUME Len(text) \in Nat, NEW f, Run(f)
    PROVE  ReferenceScan(text, Recovers) = ReferenceEnd(text, Recovers, f[Len(text)])
<1> DEFINE g == CHOOSE h : Run(h)
<1>1. Run(g)
  OBVIOUS
<1>2. g = f
  <2> HIDE DEF g
  <2> QED BY <1>1, RunUnique
<1>3. ReferenceScan(text, Recovers) = ReferenceEnd(text, Recovers, g[Len(text)])
  BY DEF ReferenceScan, Run, After, Over
<1> QED BY <1>2, <1>3

\* The run begins with the scan of nothing.
LEMMA RunBegins ==
    ASSUME Len(text) \in Nat
    PROVE  Visited(Scanning)
<1>1. PICK f : Run(f)
  BY RunExists
<1>2. f[0] = Scanning /\ 0 \in 0..Len(text)
  BY <1>1 DEF Run
<1>3. Scanning.cursor.offset = 0
  BY DEF Scanning, Beginning
<1> QED BY <1>1, <1>2, <1>3 DEF Visited

\* A turn at a scan it goes through leads to another, if it takes a character or fails.
LEMMA RunContinues ==
    ASSUME Len(text) \in Nat, NEW scan, Visited(scan), scan.failed = Nowhere,
           scan.cursor.offset \in 0..(Len(text) - 1),
           NEW next, next = ReferenceTurn(text, ColumnWeights(text), Recovers, scan),
           next.failed = Nowhere => next.cursor.offset \in (scan.cursor.offset + 1)..Len(text)
    PROVE  Visited(next)
<1>1. PICK f : Run(f) /\ \E k \in 0..Len(text) : f[k] = scan /\ (scan.failed = Nowhere => k <= scan.cursor.offset)
  BY DEF Visited
<1>2. PICK k \in 0..Len(text) : f[k] = scan /\ k <= scan.cursor.offset
  BY <1>1
<1>3. k + 1 \in 0..Len(text) /\ k + 1 # 0 /\ k + 1 - 1 = k
  BY <1>2
<1>4. f[k + 1] = After(f[k])
  <2> DEFINE n == Len(text)
  <2>1. f = [ turns \in 0..n |-> IF turns = 0 THEN Scanning ELSE After(f[turns - 1]) ]
    BY <1>1 DEF Run
  <2> HIDE DEF n
  <2>2. k + 1 \in 0..n
    BY <1>3 DEF n
  <2>3. ASSUME NEW i \in 0..n PROVE f[i] = IF i = 0 THEN Scanning ELSE After(f[i - 1])
    BY <2>1
  <2> QED BY <1>3, <2>2, <2>3
<1>5. ~Over(scan)
  BY DEF Over
<1>6. f[k + 1] = next
  BY <1>2, <1>4, <1>5 DEF After
<1>7. next.failed = Nowhere => k + 1 <= next.cursor.offset
  BY <1>2
<1> QED BY <1>1, <1>3, <1>6, <1>7 DEF Visited

\* Where it is over it stays.
LEMMA RunStays ==
    ASSUME Len(text) \in Nat, NEW scan, Visited(scan), Over(scan)
    PROVE  ReferenceScan(text, Recovers) = ReferenceEnd(text, Recovers, scan)
<1> DEFINE n == Len(text)
<1>1. PICK f : Run(f) /\ \E k \in 0..n : f[k] = scan
  BY DEF Visited
<1>2. PICK k \in 0..n : f[k] = scan
  BY <1>1
<1>3. Run(f) /\ f[k] = scan /\ k \in 0..n
  BY <1>1, <1>2
<1>4. f = [ turns \in 0..n |-> IF turns = 0 THEN Scanning ELSE After(f[turns - 1]) ]
  BY <1>3 DEF Run
<1> DEFINE Left == { i \in k..n : f[i] # scan }
<1>5. n \in Nat
  OBVIOUS
<1> HIDE DEF n
<1>6. ASSUME Left # {} PROVE FALSE
  <2> DEFINE m == Min(Left)
  <2>1. m \in Left /\ \A i \in Left : m <= i
    <3>1. Left \in SUBSET Nat
      BY <1>3, <1>5
    <3> HIDE DEF Left
    <3> QED BY <1>6, <3>1, MinOfNaturals
  <2>2. m \in k..n /\ f[m] # scan
    BY <2>1
  <2> HIDE DEF m
  <2>3. m # k
    BY <1>3, <2>2
  <2>4. m - 1 \in k..n /\ m \in 0..n /\ m # 0 /\ ~(m <= m - 1)
    BY <1>3, <1>5, <2>2, <2>3
  <2>5. f[m - 1] = scan
    BY <2>1, <2>4
  <2>6. f[m] = After(f[m - 1])
    BY <1>4, <2>4
  <2> QED BY <2>2, <2>5, <2>6 DEF After
<1>7. f[n] = scan
  BY <1>3, <1>5, <1>6
<1> QED BY <1>3, <1>7, RunEnds DEF n

\* While the grammar and the text stay, so does the run.
LEMMA SameMatches ==
    ASSUME rules' = rules, text' = text, NEW mode, NEW kind, NEW at
    PROVE  /\ MatchesHere(mode, kind, text, at)' = MatchesHere(mode, kind, text, at)
           /\ SomeMatch(mode, kind, text, at)' = SomeMatch(mode, kind, text, at)
<1>1. MatchesHere(mode, kind, text, at)' = MatchesHere(mode, kind, text, at)
  BY DEF MatchesHere, RuleIds
<1> QED BY <1>1 DEF SomeMatch

\* A turn of the reference is a matter of the rules and the text alone.
LEMMA SameReferenceTurn ==
    ASSUME rules' = rules, text' = text, NEW scan
    PROVE  ReferenceTurn(text, ColumnWeights(text), Recovers, scan)'
           = ReferenceTurn(text, ColumnWeights(text), Recovers, scan)
<1> DEFINE mode  == Last(scan.stack).mode
           start == scan.cursor.offset
           w     == ColumnWeights(text)
           Meets == { at \in (start + 1)..(Len(text) - 1) : SomeMatch(mode, scan.previous, text, at) }
<1>1. MatchesHere(mode, scan.previous, text, start)' = MatchesHere(mode, scan.previous, text, start)
  BY SameMatches
<1>2. Meets' = Meets
  BY SameMatches
<1>3. Recovered(text, w, scan)' = Recovered(text, w, scan)
  BY <1>2 DEF Recovered
<1> HIDE DEF w
<1>4. w' = w
  BY DEF w
<1>5. ReferenceTurn(text, w, Recovers, scan)' = ReferenceTurn(text, w, Recovers, scan)
  BY <1>1, <1>3, <1>4 DEF ReferenceTurn
<1> QED BY <1>5 DEF w

\* And so is its run.
LEMMA SameRun ==
    ASSUME rules' = rules, text' = text, NEW scan
    PROVE  Visited(scan)' = Visited(scan)
<1>1. ASSUME NEW s PROVE After(s)' = After(s)
  BY SameReferenceTurn DEF After, Over
<1>2. ASSUME NEW f PROVE Run(f)' = Run(f)
  BY <1>1 DEF Run
<1> QED BY <1>2 DEF Visited

-----------------------------------------------------------------------------
(* The spans of the reference *)

\* Where span i ends; span 0 ends where the first begins.
SpanEnd(spans, i) == IF i = 0 THEN 0 ELSE spans[i].start + spans[i].length

\* The spans follow one another from the beginning of the text to offset n.
SpansUpTo(spans, n) ==
    /\ spans \in Seq([start : Nat, length : Nat])
    /\ \A i \in 1..Len(spans) : spans[i].start = SpanEnd(spans, i - 1)
    /\ SpanEnd(spans, Len(spans)) = n

\* A span that begins where the last one ends.
LEMMA SpansGrow ==
    ASSUME NEW spans, NEW n \in Nat, SpansUpTo(spans, n), NEW k \in Nat
    PROVE  SpansUpTo(Append(spans, [start |-> n, length |-> k]), n + k)
<1> DEFINE span == [start |-> n, length |-> k]
           more == Append(spans, span)
           last == Len(spans)
<1>1. spans \in Seq([start : Nat, length : Nat]) /\ span \in [start : Nat, length : Nat]
  BY DEF SpansUpTo
<1>2. /\ more \in Seq([start : Nat, length : Nat]) /\ Len(more) = last + 1 /\ last \in Nat
      /\ \A i \in 1..last : more[i] = spans[i]
      /\ more[last + 1] = span
  BY <1>1
<1>3. span.start = n /\ span.length = k
  OBVIOUS
<1>4. \A i \in 1..last : spans[i].start = SpanEnd(spans, i - 1)
  BY DEF SpansUpTo
<1>5. SpanEnd(spans, last) = n
  BY DEF SpansUpTo
<1> HIDE DEF more, last, span
<1>6. ASSUME NEW i \in 0..last PROVE SpanEnd(more, i) = SpanEnd(spans, i)
  BY <1>2 DEF SpanEnd
<1>7. SpanEnd(more, last + 1) = n + k
  BY <1>2, <1>3 DEF SpanEnd
<1>8. ASSUME NEW i \in 1..(last + 1) PROVE more[i].start = SpanEnd(more, i - 1)
  <2>1. CASE i \in 1..last
    <3>1. i - 1 \in 0..last
      BY <1>2, <2>1
    <3> QED BY <1>2, <1>4, <1>6, <2>1, <3>1
  <2>2. CASE i = last + 1
    <3>1. i - 1 = last /\ last \in 0..last
      <4>1. last \in Nat
        BY <1>2
      <4> QED BY <2>2, <4>1
    <3>2. SpanEnd(more, i - 1) = n
      BY <1>5, <1>6, <3>1
    <3> QED BY <1>2, <1>3, <2>2, <3>2
  <2> QED BY <1>2, <2>1, <2>2
<1>9. SpansUpTo(more, n + k)
  BY <1>2, <1>7, <1>8 DEF SpansUpTo
<1> QED BY <1>9 DEF more, span

\* Such spans are the whole text, as the oracle counts them.
LEMMA SpansCover ==
    ASSUME NEW t \in Seq(Char), NEW spans, SpansUpTo(spans, Len(t))
    PROVE  Covers(t, spans)
<1> DEFINE n       == Len(spans)
           Full(f) == f = [i \in 0..n |-> IF i = 0 THEN 0 ELSE f[i - 1] + spans[i].length]
           covered == CHOOSE f : Full(f)
           ends    == [i \in 0..n |-> SpanEnd(spans, i)]
<1>1. spans \in Seq([start : Nat, length : Nat]) /\ n \in Nat /\ DOMAIN spans = 1..n
  BY DEF SpansUpTo
<1>2. \A i \in 1..n : spans[i].start = SpanEnd(spans, i - 1)
  BY DEF SpansUpTo
<1>3. Full(ends)
  <2>1. ASSUME NEW i \in 0..n
        PROVE  SpanEnd(spans, i) = IF i = 0 THEN 0 ELSE ends[i - 1] + spans[i].length
    <3>1. CASE i = 0
      BY <3>1 DEF SpanEnd
    <3>2. CASE i # 0
      <4>1. i \in 1..n /\ i - 1 \in 0..n
        BY <1>1, <3>2
      <4>2. ends[i - 1] = spans[i].start
        BY <1>2, <4>1
      <4> QED BY <3>2, <4>2 DEF SpanEnd
    <3> QED BY <3>1, <3>2
  <2> QED BY <2>1
<1>4. Full(covered)
  <2> HIDE DEF Full, ends
  <2> QED BY <1>3
<1>5. \A i \in 0..n : covered[i] = SpanEnd(spans, i)
  <2> DEFINE Bad == { i \in 0..n : covered[i] # SpanEnd(spans, i) }
             m   == Min(Bad)
  <2>1. SUFFICES ASSUME Bad # {} PROVE FALSE
    OBVIOUS
  <2>2. m \in Bad /\ \A i \in Bad : m <= i
    <3>1. Bad \in SUBSET Nat
      BY <1>1
    <3> HIDE DEF Bad
    <3> QED BY <2>1, <3>1, MinOfNaturals
  <2>3. m \in 0..n /\ covered[m] # SpanEnd(spans, m)
    BY <2>2
  <2>4. ASSUME NEW i \in 0..n PROVE covered[i] = IF i = 0 THEN 0 ELSE covered[i - 1] + spans[i].length
    <3> HIDE DEF covered
    <3> QED BY <1>4
  <2>5. ASSUME NEW i \in 0..n
        PROVE  SpanEnd(spans, i) = IF i = 0 THEN 0 ELSE SpanEnd(spans, i - 1) + spans[i].length
    <3>1. i # 0 => i \in 1..n
      BY <1>1
    <3> QED BY <1>2, <3>1 DEF SpanEnd
  <2>6. m # 0
    BY <2>3, <2>4, <2>5
  <2>7. m - 1 \in 0..n /\ ~(m <= m - 1)
    BY <1>1, <2>3, <2>6, SMTT(60)
  <2>8. covered[m - 1] = SpanEnd(spans, m - 1)
    BY <2>2, <2>7
  <2> QED BY <2>3, <2>4, <2>5, <2>6, <2>8
<1>6. \A i \in DOMAIN spans : spans[i].start = covered[i - 1]
  <2>1. \A i \in 1..n : i - 1 \in 0..n
    BY <1>1
  <2> HIDE DEF covered
  <2> QED BY <1>1, <1>2, <1>5, <2>1
<1>7. covered[n] = Len(t)
  <2>1. n \in 0..n
    BY <1>1
  <2>2. SpanEnd(spans, n) = Len(t)
    BY DEF SpansUpTo
  <2> HIDE DEF covered
  <2> QED BY <1>5, <2>1, <2>2
<1> QED BY <1>6, <1>7 DEF Covers

-----------------------------------------------------------------------------
(* A turn of the lexer is a turn of the reference *)

\* The place is one of the lexer's: its cursor and its stack, before the end of the text.
LEMMA TurnMunch ==
    ASSUME rules \in Grammars, text \in Texts, text \in Seq(Char), NEW c \in Configurations, ~AtEnd(c)
    PROVE  LET matches == MatchesHere(Mode(c), previous, text, c.cursor.offset)
               words   == { m \in matches : m[2] > 0 }
           IN  /\ Turn(c).meets = "match" <=> words # {}
               /\ Turn(c).meets = "nothing" <=> matches = {}
               /\ Turn(c).meets = "match" => Winner(words) = Turn(c).munch /\ Turn(c).munch.have
               /\ words = {} => ~Winner(words).have
<1> DEFINE at      == c.cursor.offset
           munch   == MunchAt(UnitOf(Mode(c), previous, text, at), text, at)
           matches == MatchesHere(Mode(c), previous, text, at)
           words   == { m \in matches : m[2] > 0 }
<1>1. at \in 0..(Len(text) - 1) /\ at \in 0..Len(text) /\ Len(text) \in Nat
  BY PlaceIsPosition DEF Configurations, AtEnd, Offsets
<1>2. /\ munch.have <=> matches # {}
      /\ munch.len > 0 <=> SomeMatch(Mode(c), previous, text, at)
      /\ munch.len > 0 => munch.have
  BY <1>1, MunchIsSome
<1>3. munch = Winner(matches)
  BY <1>1, MunchIsReference
<1>4. SomeMatch(Mode(c), previous, text, at) <=> words # {}
  BY DEF SomeMatch
<1>5. Turn(c).munch = munch /\ Turn(c).meets = IF ~munch.have THEN "nothing" ELSE IF munch.len = 0 THEN "empty" ELSE "match"
  BY DEF Turn, Met
<1>6. munch.len \in 0..(Len(text) - at)
  BY <1>1, MunchBounded, UnitOfRules
<1>7. words # {} => Winner(words) = Winner(matches)
  <2>1. matches \in MatchSets(Len(text) - at)
    BY <1>1, MatchesTyped
  <2>2. Len(text) - at \in Nat
    BY <1>1
  <2> HIDE DEF matches
  <2> QED BY <2>1, <2>2, WinnerOfWords
<1>8. words = {} => ~Winner(words).have
  BY DEF Winner, NoMunch
<1> HIDE DEF munch, matches, words
<1>9. munch.len = 0 <=> ~(munch.len > 0)
  BY <1>1, <1>6
<1>10. Turn(c).meets = "match" <=> words # {}
  BY <1>2, <1>4, <1>5, <1>9
<1>11. Turn(c).meets = "nothing" <=> matches = {}
  BY <1>2, <1>5
<1>12. Turn(c).meets = "match" => Winner(words) = Turn(c).munch /\ Turn(c).munch.have
  BY <1>2, <1>3, <1>5, <1>7, <1>10
<1> QED BY <1>8, <1>10, <1>11, <1>12 DEF matches, words

\* What the reference makes of it.
LEMMA TurnIsReference ==
    ASSUME rules \in Grammars, text \in Texts, text \in Seq(Char), NEW c \in Configurations, ~AtEnd(c),
           NEW scan, scan.cursor = c.cursor, scan.stack = c.stack, scan.previous = previous
    PROVE  LET w    == ColumnWeights(text)
               next == ReferenceTurn(text, w, Recovers, scan)
               won  == Won(Turn(c))
           IN  /\ Turn(c).meets = "match" =>
                     next = Taken(text, w, scan, won,
                                  Extended(won, Mode(c), text, c.cursor, Turn(c).munch.len, scan.indents, TRUE))
               /\ Turn(c).meets = "nothing" /\ Recovers => next = Recovered(text, w, scan)
               /\ Turn(c).meets = "empty" \/ (Turn(c).meets = "nothing" /\ ~Recovers) =>
                     next = [scan EXCEPT !.failed = c.cursor.offset]
<1> DEFINE matches == MatchesHere(Mode(c), previous, text, c.cursor.offset)
           words   == { m \in matches : m[2] > 0 }
           best    == Winner(words)
<1>1. Last(scan.stack).mode = Mode(c)
  BY DEF Mode
<1>2. /\ Turn(c).meets = "match" <=> words # {}
      /\ Turn(c).meets = "nothing" <=> matches = {}
      /\ Turn(c).meets = "match" => best = Turn(c).munch /\ Turn(c).munch.have
      /\ words = {} => ~best.have
  BY TurnMunch
<1>3. ReferenceTurn(text, ColumnWeights(text), Recovers, scan) =
        IF best.have
        THEN Taken(text, ColumnWeights(text), scan, rules[best.idx],
                   Extended(rules[best.idx], Mode(c), text, c.cursor, best.len, scan.indents, TRUE))
        ELSE IF Recovers /\ matches = {} THEN Recovered(text, ColumnWeights(text), scan)
        ELSE [scan EXCEPT !.failed = c.cursor.offset]
  BY <1>1 DEF ReferenceTurn
<1> HIDE DEF matches, words, best
<1>4. Turn(c).meets = "match" => best.have /\ best = Turn(c).munch /\ rules[best.idx] = Won(Turn(c))
  BY <1>2 DEF Won
<1>5. Turn(c).meets # "match" => ~best.have
  BY <1>2
<1> QED BY <1>2, <1>3, <1>4, <1>5

\* The reference's run goes through a scan that is where the lexer is, at a place and with a stack: the
\* same tokens, the same blocks, the same kind before, and every character up to there taken once.
Mirrors(scan, c) ==
    /\ scan = [ cursor |-> c.cursor, stack |-> c.stack, previous |-> previous, indents |-> indents,
                tokens |-> tokens, failed |-> Nowhere, spans |-> scan.spans ]
    /\ SpansUpTo(scan.spans, c.cursor.offset)
    /\ Visited(scan)

\* A scan and the spans up to a place.
LEMMA MirrorFields ==
    ASSUME NEW c, NEW scan, Mirrors(scan, c)
    PROVE  /\ scan.cursor = c.cursor /\ scan.stack = c.stack /\ scan.previous = previous
           /\ scan.indents = indents /\ scan.tokens = tokens /\ scan.failed = Nowhere
           /\ SpansUpTo(scan.spans, c.cursor.offset) /\ Visited(scan)
<1> DEFINE spans == scan.spans
<1>1. scan = [ cursor |-> c.cursor, stack |-> c.stack, previous |-> previous, indents |-> indents,
               tokens |-> tokens, failed |-> Nowhere, spans |-> spans ]
  BY DEF Mirrors
<1>2. SpansUpTo(spans, c.cursor.offset) /\ Visited(scan)
  BY DEF Mirrors
<1> HIDE DEF spans
<1>3. /\ scan.cursor = c.cursor /\ scan.stack = c.stack /\ scan.previous = previous
      /\ scan.indents = indents /\ scan.tokens = tokens /\ scan.failed = Nowhere
  BY <1>1
<1> QED BY <1>2, <1>3 DEF spans

\* What a match at c makes of a scan that mirrors it: the lexer's token, blocks, stack and place, or the
\* place of a refused transition.
AfterMatch(scan, c) ==
    LET won     == Won(Turn(c))
        length  == Extended(won, Mode(c), text, c.cursor, Turn(c).munch.len, indents, TRUE)
        end     == Advance(text, c.cursor, length)
        refused == Refused(won, c.stack)
    IN  [ cursor   |-> end,
          stack    |-> IF refused THEN c.stack ELSE Transition(won, c.cursor, c.stack),
          previous |-> IF won.skip THEN previous ELSE won.kind,
          indents  |-> Indented(won, Mode(c), c.cursor, indents),
          tokens   |-> IF won.skip \/ refused THEN tokens
                       ELSE Append(tokens, Token(won.kind, c.cursor, end, Mode(c))),
          failed   |-> IF refused THEN c.cursor.offset ELSE Nowhere,
          spans    |-> Append(scan.spans, [start |-> c.cursor.offset, length |-> length]) ]

\* Where the lexer takes a match, the reference's run goes on with the same one.
LEMMA MatchMirrored ==
    ASSUME rules \in Grammars, text \in Texts, text \in Seq(Char), NEW c \in Configurations,
           Turn(c).meets = "match", NEW scan, Mirrors(scan, c)
    PROVE  /\ Visited(AfterMatch(scan, c))
           /\ SpansUpTo(AfterMatch(scan, c).spans, AfterMatch(scan, c).cursor.offset)
           /\ AfterMatch(scan, c).cursor.offset \in (c.cursor.offset + 1)..Len(text)
<1> DEFINE w      == ColumnWeights(text)
           won    == Won(Turn(c))
           at     == c.cursor.offset
           length == Extended(won, Mode(c), text, c.cursor, Turn(c).munch.len, indents, TRUE)
           end    == Advance(text, c.cursor, length)
           next   == AfterMatch(scan, c)
           span   == [start |-> at, length |-> length]
<1>1. /\ scan.cursor = c.cursor /\ scan.stack = c.stack /\ scan.previous = previous
      /\ scan.indents = indents /\ scan.tokens = tokens /\ scan.failed = Nowhere
      /\ SpansUpTo(scan.spans, at) /\ Visited(scan)
  BY MirrorFields
<1>2. ~AtEnd(c) /\ Turn(c).munch.idx \in RuleIds /\ Turn(c).munch.len \in 1..(Len(text) - at)
  BY TurnTyped
<1>3. c.cursor \in Places /\ at \in 0..Len(text) /\ Len(text) \in Nat /\ c.cursor.column \in Nat
  BY PlaceIsPosition DEF Configurations, Offsets, Positions
<1>4. length \in 1..(Len(text) - at)
  <2>1. won \in Rule
    BY <1>2, RulesTyped DEF Won
  <2>2. Turn(c).munch.len \in 0..(Len(text) - at)
    BY <1>2
  <2> DEFINE n == Turn(c).munch.len
  <2> HIDE DEF won, n
  <2>3. Extended(won, Mode(c), text, c.cursor, n, indents, TRUE) \in n..(Len(text) - at)
    BY <1>3, <2>1, <2>2, ExtendedBounded DEF n
  <2>4. n \in 1..(Len(text) - at)
    BY <1>2 DEF n
  <2>5. \A x \in n..(Len(text) - at) : x \in 1..(Len(text) - at)
    BY <1>3, <2>4
  <2> QED BY <2>3, <2>5 DEF n
<1>5. ReferenceTurn(text, w, Recovers, scan) = Taken(text, w, scan, won, length)
  BY <1>1, <1>2, TurnIsReference
<1> HIDE DEF length
<1>6. length \in Nat /\ length \in 0..(Len(text) - at) /\ at \in Nat
  BY <1>3, <1>4
<1>7. Walked(text, w, c.cursor, length) = end /\ end.offset = at + length
  <2>1. Walked(text, w, c.cursor, length) = end
    BY <1>3, <1>6, WalksAsAdvance
  <2> QED BY <2>1, <1>3, <1>6, PlaceMoves
<1>8. next = Taken(text, w, scan, won, length)
  <2>1. Last(scan.stack).mode = Mode(c)
    BY <1>1 DEF Mode
  <2> HIDE DEF end, won, w
  <2>2. Spanned(text, scan, won.kind, end) = Append(tokens, Token(won.kind, c.cursor, end, Mode(c)))
    BY <1>1, <2>1 DEF Spanned, Token
  <2>3. Spans(scan, length) = Append(scan.spans, span)
    BY <1>1 DEF Spans
  <2> HIDE DEF span
  <2>4. next = [ cursor   |-> end,
                 stack    |-> IF Refused(won, c.stack) THEN c.stack ELSE Transition(won, c.cursor, c.stack),
                 previous |-> IF won.skip THEN previous ELSE won.kind,
                 indents  |-> Indented(won, Mode(c), c.cursor, indents),
                 tokens   |-> IF won.skip \/ Refused(won, c.stack) THEN tokens
                              ELSE Append(tokens, Token(won.kind, c.cursor, end, Mode(c))),
                 failed   |-> IF Refused(won, c.stack) THEN at ELSE Nowhere,
                 spans    |-> Append(scan.spans, span) ]
    BY DEF AfterMatch, end, won, length, span
  <2> HIDE DEF next
  <2>5. Taken(text, w, scan, won, length) =
               [ cursor   |-> end,
                 stack    |-> IF Refused(won, c.stack) THEN c.stack ELSE Transition(won, c.cursor, c.stack),
                 previous |-> IF won.skip THEN previous ELSE won.kind,
                 indents  |-> Indented(won, Mode(c), c.cursor, indents),
                 tokens   |-> IF won.skip \/ Refused(won, c.stack) THEN tokens
                              ELSE Append(tokens, Token(won.kind, c.cursor, end, Mode(c))),
                 failed   |-> IF Refused(won, c.stack) THEN at ELSE Nowhere,
                 spans    |-> Append(scan.spans, span) ]
    BY <1>1, <1>7, <2>1, <2>2, <2>3 DEF Taken
  <2> QED BY <2>4, <2>5
<1>9. next.cursor = end /\ next.spans = Append(scan.spans, span)
  BY DEF AfterMatch, length
<1> HIDE DEF next, end, won, w
<1>10. next.cursor.offset \in (at + 1)..Len(text)
  BY <1>3, <1>4, <1>7, <1>9
<1>11. SpansUpTo(next.spans, next.cursor.offset)
  BY <1>1, <1>6, <1>7, <1>9, SpansGrow
<1>12. Visited(next)
  <2>1. at \in 0..(Len(text) - 1)
    BY <1>3, <1>4
  <2>2. next = ReferenceTurn(text, ColumnWeights(text), Recovers, scan)
    BY <1>5, <1>8 DEF w
  <2> HIDE DEF at
  <2> QED BY <1>1, <1>3, <1>10, <2>1, <2>2, RunContinues DEF at
<1> QED BY <1>10, <1>11, <1>12 DEF next, at

\* Where nothing matches and the policy recovers, the reference takes the lexer's error run.
AfterRun(scan, c) ==
    LET to  == RunEnd(Mode(c), c.cursor.offset)
        end == Advance(text, c.cursor, to - c.cursor.offset)
    IN  [ cursor   |-> end,
          stack    |-> c.stack,
          previous |-> ErrorKind,
          indents  |-> indents,
          tokens   |-> Append(tokens, Token(ErrorKind, c.cursor, end, Mode(c))),
          failed   |-> Nowhere,
          spans    |-> Append(scan.spans, [start |-> c.cursor.offset, length |-> to - c.cursor.offset]) ]

\* And so it does with an error run.
LEMMA RunMirrored ==
    ASSUME rules \in Grammars, text \in Texts, text \in Seq(Char), NEW c \in Configurations,
           Turn(c).meets = "nothing", Recovers, NEW scan, Mirrors(scan, c)
    PROVE  /\ Visited(AfterRun(scan, c))
           /\ SpansUpTo(AfterRun(scan, c).spans, AfterRun(scan, c).cursor.offset)
           /\ AfterRun(scan, c).cursor.offset \in (c.cursor.offset + 1)..Len(text)
<1> DEFINE w    == ColumnWeights(text)
           at   == c.cursor.offset
           to   == RunEnd(Mode(c), at)
           n    == to - at
           end  == Advance(text, c.cursor, n)
           next == AfterRun(scan, c)
           span == [start |-> at, length |-> n]
           spans == scan.spans
<1>1. /\ scan.cursor = c.cursor /\ scan.stack = c.stack /\ scan.previous = previous
      /\ scan.indents = indents /\ scan.tokens = tokens /\ scan.failed = Nowhere
      /\ SpansUpTo(spans, at) /\ Visited(scan)
  BY MirrorFields
<1>2. ~AtEnd(c)
  BY TurnTyped
<1>3. c.cursor \in Places /\ at \in 0..(Len(text) - 1) /\ at \in 0..Len(text) /\ Len(text) \in Nat
      /\ c.cursor.column \in Nat
  BY <1>2, PlaceIsPosition DEF Configurations, Offsets, Positions, AtEnd
<1>4. to \in (at + 1)..Len(text)
  BY <1>3, RunEndBounded
<1>5. to = Min({Len(text)} \cup
               { o \in (at + 1)..(Len(text) - 1) : SomeMatch(Mode(c), previous, text, o) })
  BY <1>3, RunEndIsReference
<1>6. ReferenceTurn(text, w, Recovers, scan) = Recovered(text, w, scan)
  BY <1>1, <1>2, TurnIsReference
<1> HIDE DEF to
<1>7. n \in 1..(Len(text) - at) /\ n \in Nat /\ n \in 0..(Len(text) - at) /\ at \in Nat /\ at + n = to
  BY <1>3, <1>4
<1>8. Walked(text, w, c.cursor, n) = end /\ end.offset = at + n
  <2> HIDE DEF n
  <2>1. Walked(text, w, c.cursor, n) = end
    BY <1>3, <1>7, WalksAsAdvance
  <2> QED BY <2>1, <1>3, <1>7, PlaceMoves
<1>9. next = Recovered(text, w, scan)
  <2>1. Last(scan.stack).mode = Mode(c)
    BY <1>1 DEF Mode
  <2> HIDE DEF end, w
  <2>2. Spanned(text, scan, ErrorKind, end) = Append(tokens, Token(ErrorKind, c.cursor, end, Mode(c)))
    BY <1>1, <2>1 DEF Spanned, Token
  <2>3. Spans(scan, n) = Append(spans, span)
    BY <1>1 DEF Spans
  <2>4. Recovered(text, w, scan) =
          [scan EXCEPT !.cursor = end, !.previous = ErrorKind, !.tokens = Spanned(text, scan, ErrorKind, end),
                       !.spans = Spans(scan, n)]
    BY <1>1, <1>5, <1>8, <2>1 DEF Recovered
  <2>5. scan = [ cursor |-> c.cursor, stack |-> c.stack, previous |-> previous, indents |-> indents,
                 tokens |-> tokens, failed |-> Nowhere, spans |-> spans ]
    BY DEF Mirrors
  <2> HIDE DEF span, spans, n
  <2>6. Recovered(text, w, scan) =
          [ cursor |-> end, stack |-> c.stack, previous |-> ErrorKind, indents |-> indents,
            tokens |-> Append(tokens, Token(ErrorKind, c.cursor, end, Mode(c))), failed |-> Nowhere,
            spans |-> Append(spans, span) ]
    BY <2>2, <2>3, <2>4, <2>5
  <2>7. next = [ cursor |-> end, stack |-> c.stack, previous |-> ErrorKind, indents |-> indents,
                 tokens |-> Append(tokens, Token(ErrorKind, c.cursor, end, Mode(c))), failed |-> Nowhere,
                 spans |-> Append(spans, span) ]
    BY DEF AfterRun, end, span, spans, n, to
  <2> QED BY <2>6, <2>7
<1>10. next.cursor = end /\ next.spans = Append(spans, span)
  BY DEF AfterRun, to
<1> HIDE DEF next, end, w, n
<1>11. next.cursor.offset \in (at + 1)..Len(text)
  BY <1>3, <1>7, <1>8, <1>10
<1>12. SpansUpTo(next.spans, next.cursor.offset)
  <2> HIDE DEF spans
  <2> QED BY <1>1, <1>7, <1>8, <1>10, SpansGrow
<1>13. Visited(next)
  <2>1. next = ReferenceTurn(text, ColumnWeights(text), Recovers, scan)
    BY <1>6, <1>9 DEF w
  <2> HIDE DEF at
  <2> QED BY <1>1, <1>3, <1>11, <2>1, RunContinues DEF at
<1> QED BY <1>11, <1>12, <1>13 DEF next, at

\* Where the lexer stops, no rule matching or an empty match winning, the reference fails.
LEMMA FailureMirrored ==
    ASSUME rules \in Grammars, text \in Texts, text \in Seq(Char), NEW c \in Configurations,
           Turn(c).meets = "empty" \/ (Turn(c).meets = "nothing" /\ ~Recovers), NEW scan, Mirrors(scan, c)
    PROVE  /\ Visited([scan EXCEPT !.failed = c.cursor.offset])
           /\ c.cursor.offset \in 0..(Len(text) - 1)
<1> DEFINE at   == c.cursor.offset
           next == [scan EXCEPT !.failed = at]
<1>1. /\ scan.cursor = c.cursor /\ scan.stack = c.stack /\ scan.previous = previous
      /\ scan.failed = Nowhere /\ Visited(scan)
  BY MirrorFields
<1>2. ~AtEnd(c)
  BY TurnTyped
<1>3. at \in 0..(Len(text) - 1) /\ Len(text) \in Nat
  BY <1>2, PlaceIsPosition DEF Configurations, Offsets, AtEnd
<1>4. ReferenceTurn(text, ColumnWeights(text), Recovers, scan) = next
  BY <1>1, <1>2, TurnIsReference
<1>5. next.failed = at
  <2> DEFINE spans == scan.spans
  <2>1. scan = [ cursor |-> c.cursor, stack |-> c.stack, previous |-> previous, indents |-> indents,
                 tokens |-> tokens, failed |-> Nowhere, spans |-> spans ]
    BY DEF Mirrors
  <2> HIDE DEF spans
  <2> QED BY <2>1
<1>6. next.failed # Nowhere
  BY <1>3, <1>5 DEF Nowhere
<1> HIDE DEF next
<1>7. Visited(next)
  BY <1>1, <1>3, <1>4, <1>6, RunContinues
<1> QED BY <1>3, <1>7 DEF next

-----------------------------------------------------------------------------
(* The skip matches *)

\* A skip match is the reference's too.
LEMMA SkipMirrored ==
    ASSUME Scanned, NEW c \in Configurations, Skips(Turn(c)), NEW scan, Mirrors(scan, c)
    PROVE  \E next : Mirrors(next, Past(c, Turn(c).munch))
<1> DEFINE m    == Turn(c).munch
           next == AfterMatch(scan, c)
           past == Past(c, m)
           won  == Won(Turn(c))
<1>1. Turn(c).at = c /\ Turn(c).meets = "match" /\ won.skip /\ ~Refused(won, c.stack) /\ m.idx \in RuleIds
      /\ won = rules[m.idx]
  BY TurnTyped DEF Skips, Scanned, Won
<1>2. Visited(next) /\ SpansUpTo(next.spans, next.cursor.offset)
  BY <1>1, MatchMirrored DEF Scanned
<1>3. /\ Extended(won, Mode(c), text, c.cursor, m.len, indents, TRUE) = m.len
      /\ Indented(won, Mode(c), c.cursor, indents) = indents
  <2>1. won.indent = "none" /\ won.extend = "none"
    BY <1>1, ScannerAssumption DEF Scanned, WellFormed, RuleIds
  <2> HIDE DEF won, m
  <2> QED BY <2>1 DEF Extended, Indented, TakesPart
<1>4. past.cursor = Advance(text, c.cursor, m.len) /\ past.stack = Transition(won, c.cursor, c.stack)
  BY <1>1 DEF Past
<1>5. next = [ cursor |-> past.cursor, stack |-> past.stack, previous |-> previous, indents |-> indents,
               tokens |-> tokens, failed |-> Nowhere,
               spans |-> Append(scan.spans, [start |-> c.cursor.offset, length |-> m.len]) ]
  <2> HIDE DEF past, m, won
  <2> QED BY <1>1, <1>3, <1>4 DEF AfterMatch, m, won
<1>6. next.spans = Append(scan.spans, [start |-> c.cursor.offset, length |-> m.len])
      /\ next.cursor = past.cursor
  <2> HIDE DEF next, past, m
  <2> QED BY <1>5
<1> HIDE DEF next, past, m
<1>7. Mirrors(next, past)
  BY <1>2, <1>5, <1>6 DEF Mirrors
<1> QED BY <1>7 DEF past, m

\* So the reference goes through the place where the scan stops skipping.
LEMMA ReachedMirrored ==
    ASSUME Scanned, \E scan : Mirrors(scan, [cursor |-> cursor, stack |-> stack])
    PROVE  \E scan : Mirrors(scan, Reached.at)
<1> DEFINE start == [cursor |-> cursor, stack |-> stack]
           S     == { c \in Configurations : \E scan : Mirrors(scan, c) }
<1>1. start \in S /\ Len(text) \in Nat
  BY DEF Scanned, Configurations
<1>2. ASSUME NEW c \in S
      PROVE  /\ c.cursor.offset \in 0..Len(text)
             /\ Turn(c).at = c
             /\ AtEnd(c) => ~Skips(Turn(c))
             /\ Skips(Turn(c)) => /\ Past(c, Turn(c).munch) \in S
                                  /\ Past(c, Turn(c).munch).cursor.offset > c.cursor.offset
  <2>1. c.cursor.offset \in 0..Len(text) /\ Len(text) \in Nat
    BY PlaceIsPosition DEF Scanned, Configurations, Offsets
  <2>2. Turn(c).at = c /\ (AtEnd(c) => ~Skips(Turn(c)))
    BY TurnTyped DEF Scanned, Skips
  <2>3. ASSUME Skips(Turn(c))
        PROVE  /\ Past(c, Turn(c).munch) \in S
               /\ Past(c, Turn(c).munch).cursor.offset > c.cursor.offset
    <3> DEFINE m == Turn(c).munch
    <3>1. m.idx \in RuleIds /\ m.len \in 1..(Len(text) - c.cursor.offset)
          /\ ~Refused(rules[m.idx], c.stack)
      BY <2>2, <2>3, TurnTyped DEF Scanned, Skips, Won
    <3>2. \E next : Mirrors(next, Past(c, m))
      BY <2>3, SkipMirrored
    <3> HIDE DEF m
    <3>3. Past(c, m) \in Configurations /\ Past(c, m).cursor.offset = c.cursor.offset + m.len
      BY <3>1, PastTyped DEF Scanned
    <3>4. c.cursor.offset + m.len > c.cursor.offset
      BY <2>1, <3>1
    <3> QED BY <3>2, <3>3, <3>4 DEF m
  <2> QED BY <2>1, <2>2, <2>3
<1> HIDE DEF S
<1>3. PICK c \in S : Reached = Turn(c) /\ ~Skips(Turn(c))
  BY <1>1, <1>2, ReachedWithin
<1> QED BY <1>2, <1>3 DEF S

-----------------------------------------------------------------------------
(* The lexer follows the reference *)

\* The reference's run is over with these tokens, failed there or took the whole text.
Settled(toks, failed) ==
    \E scan : /\ Visited(scan) /\ Over(scan)
              /\ ReferenceEnd(text, Recovers, scan).tokens = toks
              /\ ReferenceEnd(text, Recovers, scan).failed = failed
              /\ failed = Nowhere => SpansUpTo(ReferenceEnd(text, Recovers, scan).spans, Len(text))

\* A running scan is one the reference's goes through, or has unwound at the end of the text; one that
\* ended has the reference's tokens, and one that failed its failure.
FollowsReference ==
    \/ /\ outcome = Running
       /\ \/ \E scan : Mirrors(scan, [cursor |-> cursor, stack |-> stack])
          \/ cursor.offset = Len(text) /\ Len(stack) = 1 /\ Settled(tokens, Nowhere)
    \/ outcome.kind = "end" /\ Settled(Lexed, Nowhere)
    \/ /\ outcome.kind \in Failures
       /\ outcome.where.offset \in 0..(Len(text) - 1)
       /\ Settled(tokens, outcome.where.offset)

\* Whether a result is the one of the reference is a matter of the rules and the text.
LEMMA SameSettled ==
    ASSUME rules' = rules, text' = text, NEW toks, NEW failed
    PROVE  Settled(toks, failed)' = Settled(toks, failed)
<1>1. ASSUME NEW scan PROVE Visited(scan)' = Visited(scan) /\ Over(scan)' = Over(scan)
  BY SameRun DEF Over
<1> QED BY <1>1 DEF Settled

\* So a scan the run goes through is mirrored after a step as before it.
LEMMA SameMirrors ==
    ASSUME rules' = rules, text' = text, NEW scan, Visited(scan), NEW spans, SpansUpTo(spans, cursor'.offset),
           scan = [ cursor |-> cursor', stack |-> stack', previous |-> previous', indents |-> indents',
                    tokens |-> tokens', failed |-> Nowhere, spans |-> spans ]
    PROVE  (\E s : Mirrors(s, [cursor |-> cursor, stack |-> stack]))'
<1>1. Visited(scan)'
  BY SameRun
<1>2. scan.spans = spans
  OBVIOUS
<1>3. Mirrors(scan, [cursor |-> cursor, stack |-> stack])'
  BY <1>1, <1>2 DEF Mirrors
<1> QED BY <1>3

\* The fields of a match taken, extended or not.
LEMMA MatchIs ==
    ASSUME Scanned, Reached.meets = "match"
    PROVE  /\ Match(Reached).len = Extended(Won(Reached), Mode(Reached.at), text, Reached.at.cursor,
                                            Reached.munch.len, indents, TRUE)
           /\ Match(Reached).idx = Reached.munch.idx
<1> DEFINE m == Reached.munch
           length == Extended(Won(Reached), Mode(Reached.at), text, Reached.at.cursor, m.len, indents, TRUE)
<1>1. m = [have |-> m.have, idx |-> m.idx, len |-> m.len]
  BY ReachedTyped DEF Turn, Met, MunchAt, Winner, NoMunch
<1>2. Match(Reached) = [m EXCEPT !.len = length]
  BY DEF Match
<1> HIDE DEF m, length
<1>3. Match(Reached).len = length /\ Match(Reached).idx = m.idx
  BY <1>1, <1>2
<1> QED BY <1>3 DEF m, length

\* Unwound, a scan is at its end.
LEMMA UnwoundStops ==
    ASSUME Scanned, cursor.offset = Len(text), Len(stack) = 1
    PROVE  Reached.meets = "end" /\ Len(Reached.at.stack) = 1 /\ Reached.at.cursor = cursor
<1>1. /\ cursor.offset \in 0..Len(text) /\ Reached.at.cursor.offset \in 0..Len(text) /\ Len(text) \in Nat
      /\ Reached.meets = "end" <=> Reached.at.cursor.offset = Len(text)
  BY ReachedPlace
<1>2. Reached.at = [cursor |-> cursor, stack |-> stack]
  BY <1>1, ReachedTyped
<1> QED BY <1>1, <1>2

\* A step that shows a token the rules make.
LEMMA EmitFollows ==
    ASSUME Scanned, NEW scan, Mirrors(scan, Reached.at), Emit(Reached)
    PROVE  (\E s : Mirrors(s, [cursor |-> cursor, stack |-> stack]))'
<1> DEFINE turn == Reached
           won  == Won(turn)
           length == Extended(won, Mode(turn.at), text, turn.at.cursor, turn.munch.len, indents, TRUE)
           m    == Match(turn)
           past == Past(turn.at, m)
           token == Token(won.kind, turn.at.cursor, past.cursor, Mode(turn.at))
<1>1. /\ turn.meets = "match" /\ ~won.skip /\ ~Refused(won, turn.at.stack)
      /\ cursor' = past.cursor /\ stack' = past.stack /\ tokens' = Append(tokens, token)
      /\ indents' = Indented(won, Mode(turn.at), turn.at.cursor, indents)
      /\ previous' = won.kind /\ rules' = rules /\ text' = text
  BY DEF Emit
<1>2. m.len = length /\ m.idx = turn.munch.idx
  BY <1>1, MatchIs
<1> HIDE DEF length, m
<1>3. past.cursor = Advance(text, turn.at.cursor, length) /\ past.stack = Transition(won, turn.at.cursor, turn.at.stack)
  BY <1>2 DEF Past, Won
<1>4. PICK c \in Configurations : c = turn.at /\ turn = Turn(c)
  BY ReachedTyped
<1> DEFINE next  == AfterMatch(scan, c)
           spans == next.spans
<1>5. Visited(next) /\ SpansUpTo(spans, next.cursor.offset)
  BY <1>1, <1>4, MatchMirrored DEF Scanned
<1> DEFINE more == Append(scan.spans, [start |-> c.cursor.offset, length |-> length])
<1>6. next = [ cursor |-> cursor', stack |-> stack', previous |-> previous', indents |-> indents',
               tokens |-> tokens', failed |-> Nowhere, spans |-> more ]
  <2>1. next =
          [ cursor   |-> Advance(text, c.cursor, length),
            stack    |-> IF Refused(won, c.stack) THEN c.stack ELSE Transition(won, c.cursor, c.stack),
            previous |-> IF won.skip THEN previous ELSE won.kind,
            indents  |-> Indented(won, Mode(c), c.cursor, indents),
            tokens   |-> IF won.skip \/ Refused(won, c.stack) THEN tokens
                         ELSE Append(tokens, Token(won.kind, c.cursor, Advance(text, c.cursor, length), Mode(c))),
            failed   |-> IF Refused(won, c.stack) THEN c.cursor.offset ELSE Nowhere,
            spans    |-> more ]
    BY <1>4, ZenonT(60) DEF AfterMatch, length
  <2> HIDE DEF next, more, past, won, turn
  <2> QED BY <1>1, <1>3, <1>4, <2>1
<1>7. next.cursor = cursor' /\ spans = more
  <2> HIDE DEF next, more
  <2> QED BY <1>6
<1> HIDE DEF next, more
<1> QED BY <1>1, <1>5, <1>6, <1>7, SameMirrors

\* A step that shows an error run.
LEMMA ErrorRunFollows ==
    ASSUME Scanned, NEW scan, Mirrors(scan, Reached.at), EmitErrorRun(Reached)
    PROVE  (\E s : Mirrors(s, [cursor |-> cursor, stack |-> stack]))'
<1> DEFINE turn == Reached
<1>1. PICK c \in Configurations : c = turn.at /\ turn = Turn(c)
  BY ReachedTyped
<1> DEFINE to    == RunEnd(Mode(c), c.cursor.offset)
           end   == Advance(text, c.cursor, to - c.cursor.offset)
           token == Token(ErrorKind, c.cursor, end, Mode(c))
           next  == AfterRun(scan, c)
           more  == Append(scan.spans, [start |-> c.cursor.offset, length |-> to - c.cursor.offset])
           spans == next.spans
<1>2. /\ turn.meets = "nothing" /\ Recovers
      /\ cursor' = end /\ stack' = c.stack /\ tokens' = Append(tokens, token)
      /\ indents' = indents /\ previous' = ErrorKind /\ rules' = rules /\ text' = text
  BY <1>1 DEF EmitErrorRun, Recovers
<1>3. Visited(next) /\ SpansUpTo(spans, next.cursor.offset)
  BY <1>1, <1>2, RunMirrored DEF Scanned
<1>4. next = [ cursor |-> cursor', stack |-> stack', previous |-> previous', indents |-> indents',
               tokens |-> tokens', failed |-> Nowhere, spans |-> more ]
  <2>1. next = [ cursor |-> end, stack |-> c.stack, previous |-> ErrorKind, indents |-> indents,
                 tokens |-> Append(tokens, token), failed |-> Nowhere, spans |-> more ]
    BY DEF AfterRun
  <2> HIDE DEF next, end, token, more
  <2> QED BY <1>2, <2>1
<1>5. next.cursor = cursor' /\ spans = more
  <2> HIDE DEF next, more
  <2> QED BY <1>4
<1> HIDE DEF next, more
<1> QED BY <1>2, <1>3, <1>4, <1>5, SameMirrors

\* Three of the failures are the reference's, at its place: the tokens are the same, and nothing follows.
LEMMA FailureFollows ==
    ASSUME Scanned, NEW scan, Mirrors(scan, Reached.at),
           NoRule(Reached) \/ ZeroLength(Reached) \/ BadTransition(Reached)
    PROVE  /\ Settled(tokens, Reached.at.cursor.offset)
           /\ Reached.at.cursor.offset \in 0..(Len(text) - 1)
<1>1. PICK c \in Configurations : c = Reached.at /\ Reached = Turn(c)
  BY ReachedTyped
<1> DEFINE at == c.cursor.offset
<1>2. at \in 0..Len(text) /\ (Reached.meets = "end" <=> at = Len(text)) /\ Len(text) \in Nat
  BY <1>1, ReachedPlace
<1>3. Reached.meets # "end"
  BY DEF NoRule, ZeroLength, BadTransition
<1>4. at \in 0..(Len(text) - 1) /\ at # Nowhere
  BY <1>2, <1>3 DEF Nowhere
<1>5. ASSUME NEW failure, Visited(failure), failure.failed = at, failure.tokens = tokens
      PROVE  Settled(tokens, at)
  <2>1. Over(failure) /\ ReferenceEnd(text, Recovers, failure) = failure
    BY <1>4, <1>5 DEF Over, ReferenceEnd
  <2> QED BY <1>4, <1>5, <2>1 DEF Settled
<1>6. CASE NoRule(Reached) \/ ZeroLength(Reached)
  <2> DEFINE failure == [scan EXCEPT !.failed = at]
             spans   == scan.spans
  <2>1. Turn(c).meets = "empty" \/ (Turn(c).meets = "nothing" /\ ~Recovers)
    <3>1. Reached.meets = "empty" \/ (Reached.meets = "nothing" /\ ErrorPolicy = "raise")
      <4>1. NoRule(Reached) => Reached.meets = "nothing" /\ ErrorPolicy = "raise"
        BY DEF NoRule
      <4>2. ZeroLength(Reached) => Reached.meets = "empty"
        BY DEF ZeroLength
      <4> QED BY <1>6, <4>1, <4>2
    <3>2. "raise" # "token"
      OBVIOUS
    <3> QED BY <1>1, <3>1, <3>2 DEF Recovers
  <2>2. Visited(failure)
    BY <1>1, <2>1, FailureMirrored DEF Scanned
  <2>3. scan = [ cursor |-> c.cursor, stack |-> c.stack, previous |-> previous, indents |-> indents,
                 tokens |-> tokens, failed |-> Nowhere, spans |-> spans ]
    BY <1>1 DEF Mirrors
  <2>4. failure.failed = at /\ failure.tokens = tokens
    <3> HIDE DEF spans, at
    <3> QED BY <2>3
  <2> HIDE DEF failure
  <2>5. Settled(tokens, at)
    BY <1>5, <2>2, <2>4
  <2> QED BY <1>1, <1>4, <2>5
<1>7. CASE BadTransition(Reached)
  <2> DEFINE failure == AfterMatch(scan, c)
             won     == Won(Turn(c))
  <2>1. Turn(c).meets = "match" /\ Refused(won, c.stack)
    BY <1>1, <1>7 DEF BadTransition
  <2>2. Visited(failure)
    BY <1>1, <2>1, MatchMirrored DEF Scanned
  <2>3. failure.failed = at /\ failure.tokens = tokens
    BY <2>1 DEF AfterMatch
  <2> HIDE DEF failure
  <2>4. Settled(tokens, at)
    BY <1>5, <2>2, <2>3
  <2> QED BY <1>1, <1>4, <2>4
<1> QED BY <1>6, <1>7

\* The end of the text: at the root the tokens are the reference's; inside a pushed mode it fails where
\* the mode was entered, or shows the token the lexer shows.
LEMMA EndFollows ==
    ASSUME Scanned, NEW scan, Mirrors(scan, Reached.at), Reached.meets = "end"
    PROVE  /\ Len(Reached.at.stack) = 1 => Settled(tokens, Nowhere)
           /\ Len(Reached.at.stack) > 1 /\ Recovers =>
                 Settled(Append(tokens, Token(ErrorKind, Reached.at.cursor, Reached.at.cursor, Mode(Reached.at))),
                         Nowhere)
           /\ Len(Reached.at.stack) > 1 /\ ~Recovers => Settled(tokens, Last(Reached.at.stack).entry.offset)
<1>1. PICK c \in Configurations : c = Reached.at /\ Reached = Turn(c)
  BY ReachedTyped
<1> DEFINE spans == scan.spans
           result == ReferenceEnd(text, Recovers, scan)
           depth == Len(c.stack)
<1>2. c.cursor.offset = Len(text) /\ depth \in Nat
  BY <1>1, ReachedPlace
<1>3. scan = [ cursor |-> c.cursor, stack |-> c.stack, previous |-> previous, indents |-> indents,
               tokens |-> tokens, failed |-> Nowhere, spans |-> spans ]
      /\ SpansUpTo(spans, c.cursor.offset) /\ Visited(scan)
  BY <1>1 DEF Mirrors
<1> HIDE DEF spans
<1>4. scan.cursor = c.cursor /\ scan.stack = c.stack /\ scan.tokens = tokens /\ scan.failed = Nowhere
      /\ scan.spans = spans
  BY <1>3
<1>5. Over(scan)
  BY <1>2, <1>4 DEF Over
<1>6. Len(scan.stack) = depth
  BY <1>4
<1> HIDE DEF depth
<1>7. ASSUME depth = 1 PROVE Settled(tokens, Nowhere)
  <2>1. result = scan
    BY <1>6, <1>7 DEF ReferenceEnd
  <2> QED BY <1>2, <1>3, <1>4, <1>5, <2>1 DEF Settled
<1> DEFINE token == Token(ErrorKind, c.cursor, c.cursor, Mode(c))
           more  == Append(tokens, token)
<1>8. ASSUME depth > 1, Recovers PROVE Settled(more, Nowhere)
  <2>1. Spanned(text, scan, ErrorKind, scan.cursor) = more
    BY <1>4 DEF Spanned, Token, Mode
  <2>2. depth # 1
    BY <1>2, <1>8
  <2> HIDE DEF more
  <2>3. result = [scan EXCEPT !.tokens = more]
    BY <1>4, <1>6, <1>8, <2>1, <2>2 DEF ReferenceEnd
  <2>4. result.tokens = more /\ result.failed = Nowhere /\ result.spans = spans
    BY <1>3, <2>3
  <2> QED BY <1>2, <1>3, <1>5, <2>4 DEF Settled
<1> DEFINE where == Last(c.stack).entry.offset
<1>9. ASSUME depth > 1, ~Recovers PROVE Settled(tokens, where)
  <2>1. depth # 1
    BY <1>2, <1>9
  <2>2. result = [scan EXCEPT !.failed = where]
    BY <1>4, <1>6, <1>9, <2>1 DEF ReferenceEnd
  <2> HIDE DEF where
  <2>3. result.tokens = tokens /\ result.failed = where /\ result.spans = spans
    BY <1>3, <2>2
  <2> QED BY <1>2, <1>3, <1>5, <2>3 DEF Settled
<1> QED BY <1>1, <1>7, <1>8, <1>9 DEF depth

\* What was the reference's stays its, while the grammar and the text stay.
LEMMA SettledNow ==
    ASSUME rules' = rules, text' = text, NEW toks, NEW failed, Settled(toks, failed)
    PROVE  /\ tokens' = toks /\ failed = Nowhere => Settled(tokens, Nowhere)'
           /\ Lexed' = toks /\ failed = Nowhere => Settled(Lexed, Nowhere)'
           /\ tokens' = toks /\ outcome'.where.offset = failed => Settled(tokens, outcome.where.offset)'
<1>1. Settled(toks, failed)'
  BY SameSettled
<1>2. PICK scan :
        /\ Visited(scan)' /\ Over(scan)'
        /\ ReferenceEnd(text, Recovers, scan)'.tokens = toks
        /\ ReferenceEnd(text, Recovers, scan)'.failed = failed
        /\ failed = Nowhere => SpansUpTo(ReferenceEnd(text, Recovers, scan).spans, Len(text))'
  BY <1>1 DEF Settled
<1> QED BY <1>2 DEF Settled

\* The end-of-input token is not one of the reference's.
LEMMA LexedIs ==
    ASSUME Scanned
    PROVE  /\ outcome' # Running /\ outcome'.kind # "end" => Lexed' = tokens'
           /\ outcome'.kind = "end" /\ EofPolicy = "omit" => Lexed' = tokens'
           /\ outcome = Running => Lexed = tokens
           /\ \A token : outcome'.kind = "end" /\ EofPolicy = "append" /\ tokens' = Append(tokens, token)
                         => Lexed' = tokens
<1>1. tokens \in Seq(Shown)
  BY DEF Scanned
<1>2. ASSUME NEW token PROVE Front(Append(tokens, token)) = tokens
  <2> DEFINE S == Shown \cup {token}
  <2>1. tokens \in Seq(S) /\ token \in S
    BY <1>1
  <2> HIDE DEF S
  <2>2. \A i \in 1..Len(tokens) : Append(tokens, token)[i] = tokens[i]
    BY <2>1
  <2>3. Len(Append(tokens, token)) = Len(tokens) + 1 /\ Len(tokens) \in Nat
    BY <2>1
  <2>4. Append(tokens, token) \in Seq(S)
    BY <2>1
  <2>5. SubSeq(Append(tokens, token), 1, Len(tokens)) = tokens
    BY <2>1, <2>2, <2>3, <2>4
  <2>6. Len(Append(tokens, token)) - 1 = Len(tokens)
    BY <2>3
  <2> QED BY <2>5, <2>6 DEF Front
<1>3. Running.kind = "running"
  BY DEF Running
<1> QED BY <1>2, <1>3 DEF Lexed

\* A step of a running scan: without an end-of-input token to show, the text may be exhausted at once.
RunningStep ==
    \/ Emit(Reached)
    \/ EmitErrorRun(Reached)
    \/ NoRule(Reached)
    \/ BadTransition(Reached)
    \/ Unterminated(Reached)
    \/ EmitUnterminated(Reached)
    \/ ZeroLength(Reached)
    \/ End(Reached)
    \/ EofPolicy = "omit" /\ Exhausts(Reached)

\* A step of a scan that has not ended is a scan_next.
LEMMA RunningScans == RunningStep => ScanStep
BY DEF RunningStep, ScanStep

\* A step of a running scan follows the reference.
LEMMA StepFollows ==
    ASSUME Scanned, Nested, outcome = Running, FollowsReference, RunningStep
    PROVE  FollowsReference'
<1> DEFINE turn  == Reached
           at    == Reached.at.cursor.offset
           depth == Len(Reached.at.stack)
           Here  == \E scan : Mirrors(scan, [cursor |-> cursor, stack |-> stack])
<1>1. /\ Reached.meets \in {"end", "nothing", "empty", "match"}
      /\ Reached.meets = "end" <=> at = Len(text)
      /\ Reached.at.stack \in Seq(Frames) /\ depth \in 1..MaxDepth /\ Len(text) \in Nat
  BY ReachedPlace
<1>2. outcome.kind # "end" /\ outcome.kind \notin Failures
  BY DEF Running, Failures
<1>3. rules' = rules /\ text' = text
  BY RunningScans, StepMoves DEF Moves
<1>4. Here \/ (cursor.offset = Len(text) /\ Len(stack) = 1 /\ Settled(tokens, Nowhere))
  BY <1>2 DEF FollowsReference
<1>5. ASSUME ~Here PROVE Reached.meets = "end" /\ depth = 1 /\ Settled(tokens, Nowhere)
  BY <1>4, <1>5, UnwoundStops
<1>6. ASSUME Here PROVE \E scan : Mirrors(scan, Reached.at)
  BY <1>6, ReachedMirrored
<1>7. ASSUME Reached.meets # "end" \/ depth # 1 PROVE \E scan : Mirrors(scan, Reached.at)
  <2> HIDE DEF Here, depth
  <2> QED BY <1>5, <1>6, <1>7
\* a failure
<1>8. ASSUME NEW failed \in 0..(Len(text) - 1), Settled(tokens, failed), tokens' = tokens,
             outcome'.kind \in Failures, outcome'.where.offset = failed
      PROVE  FollowsReference'
  <2>1. Settled(tokens, outcome.where.offset)'
    <3>1. PICK toks : toks = tokens
      OBVIOUS
    <3> QED BY <1>3, <1>8, <3>1, SettledNow
  <2>2. (outcome.where.offset \in 0..(Len(text) - 1))'
    BY <1>3, <1>8
  <2>3. (outcome.kind \in Failures)'
    BY <1>8 DEF Failures
  <2> QED BY <2>1, <2>2, <2>3 DEF FollowsReference
<1>9. CASE Emit(turn)
  <2>1. PICK scan : Mirrors(scan, Reached.at)
    BY <1>7, <1>9 DEF Emit
  <2>2. Here'
    BY <1>9, <2>1, EmitFollows
  <2>3. outcome' = Running
    BY <1>9 DEF Emit
  <2>4. Running' = Running
    BY DEF Running
  <2> QED BY <2>2, <2>3, <2>4 DEF FollowsReference
<1>10. CASE EmitErrorRun(turn)
  <2>1. PICK scan : Mirrors(scan, Reached.at)
    BY <1>7, <1>10 DEF EmitErrorRun
  <2>2. Here'
    BY <1>10, <2>1, ErrorRunFollows
  <2>3. outcome' = Running
    BY <1>10 DEF EmitErrorRun
  <2>4. Running' = Running
    BY DEF Running
  <2> QED BY <2>2, <2>3, <2>4 DEF FollowsReference
<1>11. CASE NoRule(turn) \/ ZeroLength(turn) \/ BadTransition(turn)
  <2>1. PICK scan : Mirrors(scan, Reached.at)
    <3>1. turn.meets # "end"
      BY <1>11 DEF NoRule, ZeroLength, BadTransition
    <3> QED BY <1>7, <3>1
  <2>2. Settled(tokens, at) /\ at \in 0..(Len(text) - 1)
    BY <1>11, <2>1, FailureFollows
  <2>3. /\ tokens' = tokens
        /\ outcome'.kind \in {"no_rule", "zero_length", "bad_transition"}
        /\ outcome'.where.offset = at
    BY <1>11 DEF NoRule, ZeroLength, BadTransition, Fail, Ended
  <2>4. outcome'.kind \in Failures
    BY <2>3 DEF Failures
  <2> HIDE DEF at, turn
  <2> QED BY <1>8, <2>2, <2>3, <2>4
<1>12. CASE Unterminated(turn)
  <2> DEFINE failed == Last(Reached.at.stack).entry.offset
  <2>1. Reached.meets = "end" /\ depth > 1 /\ ~Recovers
    <3>1. Reached.meets = "end" /\ depth > 1 /\ ErrorPolicy = "raise"
      BY <1>12 DEF Unterminated
    <3>2. "raise" # "token"
      OBVIOUS
    <3> QED BY <3>1, <3>2 DEF Recovers
  <2>2. depth # 1
    <3> HIDE DEF depth
    <3> QED BY <1>1, <2>1
  <2>3. PICK scan : Mirrors(scan, Reached.at)
    BY <1>7, <2>2
  <2>4. Settled(tokens, failed)
    BY <2>1, <2>3, EndFollows
  <2>5. /\ tokens' = tokens /\ outcome'.kind = "unterminated" /\ outcome'.where.offset = failed
    BY <1>12 DEF Unterminated, Fail, Ended
  <2>6. failed \in 0..(Len(text) - 1)
    <3>1. Nested'
      BY RunningScans, StepNested
    <3>2. failed < Len(text)
      BY <1>3, <2>5, <3>1 DEF Nested
    <3>3. Last(Reached.at.stack) \in Frames
      BY <1>1 DEF Last
    <3>4. failed \in 0..Len(text)
      BY <3>3, PlaceIsPosition DEF Frames, Offsets, Scanned
    <3> HIDE DEF failed
    <3> QED BY <1>1, <3>2, <3>4
  <2>7. outcome'.kind \in Failures
    BY <2>5 DEF Failures
  <2> HIDE DEF failed, turn
  <2> QED BY <1>8, <2>4, <2>5, <2>6, <2>7
<1>13. CASE EmitUnterminated(turn)
  <2> DEFINE more == Append(tokens, Token(ErrorKind, Reached.at.cursor, Reached.at.cursor, Mode(Reached.at)))
  <2>1. /\ Reached.meets = "end" /\ depth > 1 /\ Recovers
        /\ cursor' = Reached.at.cursor /\ stack' = SubSeq(Reached.at.stack, 1, 1) /\ tokens' = more
        /\ outcome' = Running
    BY <1>13 DEF EmitUnterminated, Recovers
  <2>2. depth # 1
    <3> HIDE DEF depth
    <3> QED BY <1>1, <2>1
  <2>3. PICK scan : Mirrors(scan, Reached.at)
    BY <1>7, <2>2
  <2>4. Settled(more, Nowhere)
    BY <2>1, <2>3, EndFollows
  <2>5. Settled(tokens, Nowhere)'
    <3>1. PICK toks : toks = more
      OBVIOUS
    <3> QED BY <1>3, <2>1, <2>4, <3>1, SettledNow
  <2>6. cursor'.offset = Len(text') /\ Len(stack') = 1
    <3>1. cursor'.offset = Len(text')
      BY <1>1, <1>3, <2>1
    <3>2. Len(SubSeq(Reached.at.stack, 1, 1)) = 1
      BY <1>1, <2>1
    <3> QED BY <2>1, <3>1, <3>2
  <2>7. Running' = Running
    BY DEF Running
  <2> QED BY <2>1, <2>5, <2>6, <2>7 DEF FollowsReference
<1>14. CASE End(turn) \/ (EofPolicy = "omit" /\ Exhausts(turn))
  <2>1. Reached.meets = "end" /\ depth = 1
    BY <1>14 DEF End, Exhausts
  <2>2. Settled(tokens, Nowhere)
    <3>1. CASE Here
      BY <1>6, <2>1, <3>1, EndFollows
    <3>2. CASE ~Here
      BY <1>5, <3>2
    <3> QED BY <3>1, <3>2
  <2>3. outcome'.kind = "end"
    BY <1>14 DEF End, Exhausts, Ended
  <2>4. Lexed' = tokens
    <3>1. CASE End(turn) /\ EofPolicy = "append"
      <4>1. PICK token : tokens' = Append(tokens, token)
        BY <3>1 DEF End
      <4> QED BY <2>3, <3>1, <4>1, LexedIs
    <3>2. CASE EofPolicy = "omit"
      <4>1. tokens' = tokens
        BY <1>14, <3>2 DEF End, Exhausts
      <4> QED BY <2>3, <3>2, <4>1, LexedIs
    <3>3. EofPolicy \in {"omit", "append"}
      BY LexerAssumption
    <3> QED BY <1>14, <3>1, <3>2, <3>3
  <2>5. Settled(Lexed, Nowhere)'
    <3>1. PICK toks : toks = tokens
      OBVIOUS
    <3> QED BY <1>3, <2>2, <2>4, <3>1, SettledNow
  <2> QED BY <2>3, <2>5 DEF FollowsReference
<1> QED BY <1>9, <1>10, <1>11, <1>12, <1>13, <1>14 DEF RunningStep

-----------------------------------------------------------------------------
(* Every token is a longest match *)

\* The kind of the token before token i.
KindBefore(toks, i) == IF i = 1 THEN EndOfInput ELSE toks[i - 1].kind

\* The harness finds each token the longest match of a rule of its kind, extended or not.
AllMunched(toks) == \A i \in DOMAIN toks : Munched(text, toks[i], KindBefore(toks, i))

\* A lexer that raises notes the kind of each token it shows.
MunchesAll ==
    ErrorPolicy = "raise" =>
        /\ \E toks : toks = Lexed /\ AllMunched(toks)
        /\ outcome = Running => previous = KindBefore(tokens, Len(tokens) + 1)

\* Whether a token is the longest match of its kind is a matter of the rules and the text.
LEMMA SameMunched ==
    ASSUME rules' = rules, text' = text, NEW token, NEW kind
    PROVE  Munched(text, token, kind)' = Munched(text, token, kind)
<1> DEFINE matches == MatchesHere(token.mode, kind, text, token.start.offset)
<1>1. matches' = matches
  BY SameMatches
<1> QED BY <1>1 DEF Munched

\* The token of a match the lexer takes.
LEMMA TakenIsMunched ==
    ASSUME Scanned, Emit(Reached)
    PROVE  \E token \in Shown : /\ tokens' = Append(tokens, token) /\ token.kind = previous'
                                /\ Munched(text, token, previous)
<1> DEFINE turn  == Reached
           c     == Reached.at
           won   == Won(turn)
           m     == turn.munch
           n     == Match(turn).len
           end   == Past(c, Match(turn)).cursor
           token == Token(won.kind, c.cursor, end, Mode(c))
           matches == MatchesHere(Mode(c), previous, text, c.cursor.offset)
           words   == { w \in matches : w[2] > 0 }
           lengths == { w[2] : w \in words }
           longest == Max({0} \cup lengths)
           rest  == Len(text) - c.cursor.offset
<1>1. /\ turn.meets = "match" /\ tokens' = Append(tokens, token) /\ previous' = won.kind
      /\ cursor' = end
  BY DEF Emit
<1>2. /\ m.idx \in RuleIds /\ m.len \in 1..rest /\ n \in 1..rest /\ n >= m.len /\ won = rules[m.idx]
  BY <1>1, MatchTyped DEF Won
<1>3. n = Extended(won, Mode(c), text, c.cursor, m.len, indents, TRUE)
  BY <1>1, MatchIs
<1>4. c \in Configurations /\ c.cursor \in Places /\ c.cursor.offset \in 0..Len(text) /\ rest \in Nat
      /\ Mode(c) \in ModeNames /\ turn = Turn(c) /\ Len(text) \in Nat
  BY ReachedTyped, ReachedPlace
<1>5. end.offset = c.cursor.offset + n
  BY <1>1, EmitMoves
<1>6. won.kind \in Kinds
  BY <1>2 DEF Kinds
<1>7. token \in Shown /\ token.start = c.cursor /\ token.kind = won.kind /\ Len(token.lexeme) = n
      /\ token.mode = Mode(c)
  <2> HIDE DEF n, end, c, won
  <2>1. end.offset \in c.cursor.offset..Len(text)
    BY <1>2, <1>4, <1>5
  <2>2. token \in Shown /\ token.start = c.cursor /\ token.kind = won.kind
        /\ c.cursor.offset + Len(token.lexeme) = end.offset
    BY <1>4, <1>6, <2>1, TokenShown DEF Scanned
  <2>3. token.lexeme \in Seq(Char) /\ token.mode = Mode(c)
    BY <2>2 DEF Shown, Token
  <2>4. Len(token.lexeme) \in Nat
    BY <2>3
  <2> HIDE DEF token
  <2> QED BY <1>2, <1>4, <1>5, <2>2, <2>3, <2>4
\* the longest match is the lexer's
<1>8. words # {} /\ Winner(words) = m
  BY <1>1, <1>4, TurnMunch, TurnTyped DEF Scanned
<1>9. <<m.idx, m.len>> \in words /\ \A w \in words : w[2] <= m.len /\ w[2] \in 0..rest
  <2>1. matches \in MatchSets(rest)
    <3> HIDE DEF c
    <3> QED BY <1>4, MatchesTyped DEF Scanned
  <2> HIDE DEF matches
  <2>2. words \in MatchSets(rest) /\ \A w \in words : w[2] \in 0..rest
    BY <2>1 DEF MatchSets
  <2> HIDE DEF words, m
  <2> QED BY <1>4, <1>8, <2>2, WinnerWins
<1>10. longest = m.len
  <2>1. m.len \in lengths
    BY <1>9
  <2>2. \A x \in lengths : x <= m.len /\ x \in 0..rest
    BY <1>9
  <2> DEFINE S == {0} \cup lengths
  <2> HIDE DEF lengths, m, rest
  <2>3. \A x \in S : x \in 0..rest
    BY <1>4, <2>2
  <2>4. S # {} /\ rest \in Int /\ 0 \in Int
    BY <1>4
  <2> HIDE DEF S
  <2>5. Max(S) \in S /\ \A y \in S : Max(S) >= y
    BY <2>3, <2>4, MaxOfIntegers
  <2>6. Max(S) >= m.len /\ (Max(S) = 0 \/ Max(S) <= m.len) /\ Max(S) \in 0..rest
    BY <2>1, <2>2, <2>3, <2>5 DEF S
  <2>7. m.len \in 1..rest
    BY <1>2
  <2>8. Max(S) = m.len
    BY <1>4, <2>6, <2>7
  <2> QED BY <2>8 DEF S
<1> DEFINE OfKind == { w \in words : rules[w[1]].kind = token.kind }
<1>11. <<m.idx, m.len>> \in OfKind
  BY <1>2, <1>7, <1>9
<1>12. n # m.len => won.extend # "none"
  <2> HIDE DEF n, won, m, c
  <2> QED BY <1>3 DEF Extended
<1>13. \/ longest = n /\ \E w \in OfKind : w[2] = n
       \/ longest < n /\ \E w \in OfKind : w[2] = longest /\ rules[w[1]].extend # "none"
  <2> DEFINE w == <<m.idx, m.len>>
  <2>1. w \in OfKind /\ w[2] = m.len /\ rules[w[1]] = won
    BY <1>2, <1>11
  <2> HIDE DEF w, OfKind, n, won, longest, m
  <2>2. CASE n = m.len
    BY <1>10, <2>1, <2>2
  <2>3. CASE n # m.len
    <3>1. m.len < n
      <4> HIDE DEF rest
      <4> QED BY <1>2, <1>4, <2>3
    <3> QED BY <1>10, <1>12, <2>1, <2>3, <3>1
  <2> QED BY <2>2, <2>3
<1>14. Munched(text, token, previous)
  <2>1. MatchesHere(token.mode, previous, text, token.start.offset) = matches
    BY <1>7
  <2> HIDE DEF matches, n, token
  <2> QED BY <1>7, <1>13, <2>1 DEF Munched
<1> HIDE DEF token
<1> QED BY <1>1, <1>7, <1>14

\* A step of a running scan shows a longest match, or no token of a rule.
LEMMA StepMunches ==
    ASSUME Scanned, outcome = Running, MunchesAll, RunningStep
    PROVE  MunchesAll'
<1> SUFFICES ASSUME ErrorPolicy = "raise"
             PROVE  /\ \E toks : toks = Lexed' /\ AllMunched(toks)'
                    /\ (outcome' = Running => (previous = KindBefore(tokens, Len(tokens) + 1))')
  BY DEF MunchesAll, Running
<1>1. rules' = rules /\ text' = text
  BY RunningScans, StepMoves DEF Moves
<1>2. Lexed = tokens
  BY LexedIs
<1>3. AllMunched(tokens) /\ previous = KindBefore(tokens, Len(tokens) + 1)
  BY <1>2 DEF MunchesAll
<1>4. tokens \in Seq(Shown)
  BY DEF Scanned
<1>5. Running.kind = "running" /\ Running' = Running
  BY DEF Running
\* no token more
<1>6. ASSUME Lexed' = tokens PROVE \E toks : toks = Lexed' /\ AllMunched(toks)'
  <2>1. PICK toks : toks = tokens
    OBVIOUS
  <2>2. \A i \in DOMAIN toks : Munched(text, toks[i], KindBefore(toks, i))
    BY <1>3, <2>1 DEF AllMunched
  <2>3. \A i \in DOMAIN toks : Munched(text, toks[i], KindBefore(toks, i))'
    BY <1>1, <2>2, SameMunched
  <2>4. AllMunched(toks)'
    BY <2>3 DEF AllMunched
  <2> QED BY <1>6, <2>1, <2>4
<1>7. CASE Emit(Reached)
  <2>1. PICK token \in Shown : /\ tokens' = Append(tokens, token) /\ token.kind = previous'
                               /\ Munched(text, token, previous)
    BY <1>7, TakenIsMunched
  <2>2. outcome' = Running
    BY <1>7 DEF Emit
  <2>3. Lexed' = tokens'
    BY <1>5, <2>2 DEF Lexed
  <2>4. PICK toks, kind : toks = tokens /\ kind = previous
    OBVIOUS
  <2> DEFINE n    == Len(toks)
             more == Append(toks, token)
  <2>5. /\ n \in Nat /\ DOMAIN more = 1..(n + 1) /\ DOMAIN toks = 1..n /\ Len(more) = n + 1
        /\ \A i \in 1..n : more[i] = toks[i]
        /\ more[n + 1] = token
    BY <1>4, <2>4, Appended
  <2>6. \A i \in 1..n : Munched(text, toks[i], KindBefore(toks, i))
    BY <1>3, <2>4, <2>5 DEF AllMunched
  <2>7. Munched(text, token, kind) /\ kind = KindBefore(toks, n + 1)
    BY <1>3, <2>1, <2>4
  <2> HIDE DEF n, more
  <2>8. \A i \in 1..(n + 1) : KindBefore(more, i) = KindBefore(toks, i)
    <3>1. \A i \in 1..(n + 1) : i # 1 => i - 1 \in 1..n
      BY <2>5
    <3> QED BY <2>5, <3>1 DEF KindBefore
  <2>9. \A i \in 1..(n + 1) : Munched(text, more[i], KindBefore(more, i))
    <3> TAKE i \in 1..(n + 1)
    <3>1. CASE i \in 1..n
      BY <2>5, <2>6, <2>8, <3>1
    <3>2. CASE i = n + 1
      BY <2>5, <2>7, <2>8, <3>2
    <3> QED BY <2>5, <3>1, <3>2
  <2>10. \A i \in 1..(n + 1) : Munched(text, more[i], KindBefore(more, i))'
    BY <1>1, <2>9, SameMunched
  <2>11. Lexed' = more /\ tokens' = more
    BY <2>1, <2>3, <2>4 DEF more
  <2>12. AllMunched(more)'
    BY <2>5, <2>10 DEF AllMunched
  <2>13. \E all : all = Lexed' /\ AllMunched(all)'
    <3>1. PICK all : all = more
      OBVIOUS
    <3> HIDE DEF more
    <3> QED BY <2>11, <2>12, <3>1
  <2>14. KindBefore(more, n + 1 + 1) = token.kind
    <3>1. n + 1 + 1 # 1 /\ n + 1 + 1 - 1 = n + 1
      BY <2>5
    <3> QED BY <2>5, <3>1 DEF KindBefore
  <2>15. (previous = KindBefore(tokens, Len(tokens) + 1))'
    <3>1. KindBefore(tokens, Len(tokens) + 1)' = KindBefore(more, n + 1 + 1)
      BY <2>5, <2>11 DEF KindBefore
    <3> QED BY <2>1, <2>14, <3>1
  <2> QED BY <2>13, <2>15
<1>8. CASE NoRule(Reached) \/ ZeroLength(Reached) \/ BadTransition(Reached) \/ Unterminated(Reached)
  <2>1. tokens' = tokens /\ outcome'.kind \in {"no_rule", "zero_length", "bad_transition", "unterminated"}
    BY <1>8 DEF NoRule, ZeroLength, BadTransition, Unterminated, Fail, Ended
  <2>2. outcome' # Running /\ outcome'.kind # "end"
    BY <1>5, <2>1
  <2>3. Lexed' = tokens
    BY <2>1, <2>2, LexedIs
  <2> QED BY <1>5, <1>6, <2>2, <2>3
<1>9. CASE End(Reached) \/ (EofPolicy = "omit" /\ Exhausts(Reached))
  <2>1. outcome'.kind = "end"
    BY <1>9 DEF End, Exhausts, Ended
  <2>2. outcome' # Running
    BY <1>5, <2>1
  <2>3. Lexed' = tokens
    <3>1. CASE End(Reached) /\ EofPolicy = "append"
      <4>1. PICK token : tokens' = Append(tokens, token)
        BY <3>1 DEF End
      <4> QED BY <2>1, <3>1, <4>1, LexedIs
    <3>2. CASE EofPolicy = "omit"
      <4>1. tokens' = tokens
        BY <1>9, <3>2 DEF End, Exhausts
      <4> QED BY <2>1, <3>2, <4>1, LexedIs
    <3>3. EofPolicy \in {"omit", "append"}
      BY LexerAssumption
    <3> QED BY <1>9, <3>1, <3>2, <3>3
  <2> QED BY <1>5, <1>6, <2>2, <2>3
<1>10. ~EmitErrorRun(Reached) /\ ~EmitUnterminated(Reached)
  <2>1. "raise" # "token"
    OBVIOUS
  <2> QED BY <2>1 DEF EmitErrorRun, EmitUnterminated
<1> QED BY <1>7, <1>8, <1>9, <1>10 DEF RunningStep

\* A scan begins as the reference does.
LEMMA InitFollows == Init => FollowsReference /\ MunchesAll
<1> SUFFICES ASSUME Init PROVE FollowsReference /\ MunchesAll
  OBVIOUS
<1>1. Len(text) \in Nat
  BY LexerAssumption DEF Init
<1>2. /\ cursor = Beginning /\ stack = RootStack(Beginning) /\ previous = EndOfInput /\ indents = NoBlocks
      /\ tokens = <<>> /\ outcome = Running
  BY DEF Init
<1>3. Mirrors(Scanning, [cursor |-> cursor, stack |-> stack])
  <2>1. Scanning.spans = <<>>
    BY DEF Scanning
  <2>2. SpansUpTo(<<>>, 0)
    BY DEF SpansUpTo, SpanEnd
  <2>3. cursor.offset = 0
    BY <1>2 DEF Beginning
  <2>4. Scanning = [ cursor |-> cursor, stack |-> stack, previous |-> previous, indents |-> indents,
                     tokens |-> tokens, failed |-> Nowhere, spans |-> <<>> ]
    BY <1>2 DEF Scanning
  <2>5. Visited(Scanning)
    BY <1>1, RunBegins
  <2> QED BY <2>1, <2>2, <2>3, <2>4, <2>5 DEF Mirrors
<1>4. Lexed = <<>> /\ KindBefore(tokens, Len(tokens) + 1) = EndOfInput
  BY <1>2 DEF Lexed, Running, KindBefore
<1> QED BY <1>2, <1>3, <1>4 DEF FollowsReference, MunchesAll, AllMunched

-----------------------------------------------------------------------------
(* The theorem *)

\* A scan that ended as its reference passes the checks of the harness.
LEMMA FollowsSuffices == Scanned /\ FollowsReference /\ MunchesAll => LexesAsReference
<1> SUFFICES ASSUME Scanned, FollowsReference, MunchesAll, outcome # Running PROVE LexesAsReference
  BY DEF LexesAsReference
<1> DEFINE failed == IF outcome.kind = "end" THEN Nowhere ELSE outcome.where.offset
           result == ReferenceScan(text, Recovers)
<1>1. text \in Seq(Char) /\ Len(text) \in Nat
  BY DEF Scanned
<1>2. outcome.kind = "end" => failed = Nowhere
  OBVIOUS
<1>3. Nowhere < Len(text)
  BY <1>1 DEF Nowhere
\* the tokens, and where it failed
<1>4. Settled(Lexed, failed) /\ (failed = Nowhere \/ failed \in 0..(Len(text) - 1))
  <2>1. CASE outcome.kind = "end"
    BY <2>1 DEF FollowsReference, Failures, Running
  <2>2. CASE outcome.kind # "end"
    <3>1. Lexed = tokens
      BY <2>2 DEF Lexed
    <3> QED BY <2>2, <3>1 DEF FollowsReference
  <2> QED BY <2>1, <2>2
<1>5. PICK scan : /\ Visited(scan) /\ Over(scan)
                  /\ ReferenceEnd(text, Recovers, scan).tokens = Lexed
                  /\ ReferenceEnd(text, Recovers, scan).failed = failed
                  /\ failed = Nowhere => SpansUpTo(ReferenceEnd(text, Recovers, scan).spans, Len(text))
  BY <1>4 DEF Settled
<1>6. result = ReferenceEnd(text, Recovers, scan)
  BY <1>1, <1>5, RunStays
<1>7. /\ result.tokens = Lexed /\ result.failed = failed
      /\ failed = Nowhere => SpansUpTo(result.spans, Len(text))
  BY <1>5, <1>6
<1> HIDE DEF result, failed
<1>8. failed = Nowhere => Covers(text, result.spans)
  BY <1>1, <1>7, SpansCover
<1>9. ~Recovers => \A i \in DOMAIN Lexed : Munched(text, Lexed[i], IF i = 1 THEN EndOfInput ELSE Lexed[i - 1].kind)
  BY ScannerAssumption DEF MunchesAll, AllMunched, KindBefore, Recovers
<1>10. ~(failed >= Len(text) /\ failed # Nowhere)
  BY <1>1, <1>4
<1>11. Check(result, text, Recovers, Lexed, failed) = "ok"
  BY <1>7, <1>8, <1>9, <1>10 DEF Check
<1>12. failed < Len(text)
  BY <1>1, <1>3, <1>4
<1> QED BY <1>7, <1>11, <1>12 DEF LexesAsReference, result, failed, Recovers

\* An iterator that has reached the end of the text stands there, done or with the end shown; and one whose
\* constructor threw is none.
Stands ==
    /\ eofDone => outcome.kind = "end" /\ EofPolicy = "append"
    /\ outcome.kind = "end" => /\ cursor.offset = Len(text) /\ Len(stack) = 1
                               /\ phase = "done" \/ eofDone
    /\ outcome.kind \in Failures => phase # "new"

\* What holds of a scan that has not been driven past an error.
Followed == FollowsReference /\ MunchesAll

IteratorFollowed == wentOn \/ (Followed /\ Stands)

\* A stutter changes none of it.
LEMMA StaysFollowed == Followed /\ UNCHANGED vars => Followed'
<1> SUFFICES ASSUME Followed, UNCHANGED vars PROVE Followed'
  OBVIOUS
<1>1. /\ rules' = rules /\ text' = text /\ cursor' = cursor /\ stack' = stack /\ previous' = previous
      /\ indents' = indents /\ tokens' = tokens /\ outcome' = outcome
  BY DEF vars
<1>2. Lexed' = Lexed /\ Running' = Running /\ Failures' = Failures
  BY <1>1 DEF Lexed, Running, Failures
<1>3. PICK shown, kept : shown = tokens /\ kept = Lexed
  OBVIOUS
<1>4. Settled(tokens, Nowhere) => Settled(tokens, Nowhere)'
  BY <1>1, <1>3, SettledNow
<1>5. Settled(Lexed, Nowhere) => Settled(Lexed, Nowhere)'
  BY <1>1, <1>2, <1>3, SettledNow
<1>6. Settled(tokens, outcome.where.offset) => Settled(tokens, outcome.where.offset)'
  <2>1. PICK failed : failed = outcome.where.offset
    OBVIOUS
  <2> QED BY <1>1, <1>3, <2>1, SettledNow
<1>7. ASSUME NEW scan, Mirrors(scan, [cursor |-> cursor, stack |-> stack])
      PROVE  (\E s : Mirrors(s, [cursor |-> cursor, stack |-> stack]))'
  <2> DEFINE spans == scan.spans
  <2>1. /\ scan = [ cursor |-> cursor, stack |-> stack, previous |-> previous, indents |-> indents,
                    tokens |-> tokens, failed |-> Nowhere, spans |-> spans ]
        /\ SpansUpTo(spans, cursor.offset) /\ Visited(scan)
    BY <1>7 DEF Mirrors
  <2> HIDE DEF spans
  <2> QED BY <1>1, <2>1, SameMirrors
<1>8. FollowsReference'
  BY <1>1, <1>2, <1>4, <1>5, <1>6, <1>7 DEF Followed, FollowsReference
<1>9. MunchesAll'
  <2>1. SUFFICES ASSUME ErrorPolicy = "raise" PROVE MunchesAll'
    BY DEF MunchesAll
  <2>2. PICK toks : toks = Lexed /\ AllMunched(toks)
    BY <2>1 DEF Followed, MunchesAll
  <2>3. \A i \in DOMAIN toks : Munched(text, toks[i], KindBefore(toks, i))'
    BY <1>1, <2>2, SameMunched DEF AllMunched
  <2>4. AllMunched(toks)'
    BY <2>3 DEF AllMunched
  <2>5. outcome = Running => previous = KindBefore(tokens, Len(tokens) + 1)
    BY <2>1 DEF Followed, MunchesAll
  <2> QED BY <1>1, <1>2, <2>2, <2>4, <2>5 DEF MunchesAll, KindBefore
<1> QED BY <1>8, <1>9 DEF Followed

\* Nor of where an iterator stands.
LEMMA FollowedStays == Followed /\ Stands /\ UNCHANGED <<vars, phase, eofDone>> => (Followed /\ Stands)'
BY StaysFollowed DEF Stands, vars, Failures

\* A step of a running scan is followed.
LEMMA RunFollowed ==
    ASSUME Scanned, Nested, outcome = Running, Followed, RunningStep
    PROVE  Followed'
BY StepFollows, StepMunches DEF Followed

\* Every step follows the reference.
LEMMA NextFollowed == Scanned /\ Nested /\ Followed /\ [Next]_vars => Followed'
<1>1. Next => outcome = Running /\ RunningStep
  BY DEF Next, RunningStep
<1> QED BY <1>1, RunFollowed, StaysFollowed

\* Past the end there is no token: the text is exhausted.
LEMMA EndFollowed ==
    ASSUME Scanned, Followed, Stands, outcome.kind = "end", Exhausts(Reached)
    PROVE  Followed' /\ (cursor.offset = Len(text) /\ Len(stack) = 1)' /\ outcome'.kind = "end"
<1>1. Reached.meets = "end" /\ Len(Reached.at.stack) = 1 /\ Reached.at.cursor = cursor
      /\ cursor.offset = Len(text)
  BY UnwoundStops DEF Stands
<1>2. /\ rules' = rules /\ text' = text /\ tokens' = tokens
      /\ cursor' = Reached.at.cursor /\ stack' = Reached.at.stack
      /\ outcome' = Ended("end", Reached.at.cursor, Mode(Reached.at))
  BY DEF Exhausts
<1>3. outcome'.kind = "end"
  BY <1>2 DEF Ended
<1>4. Lexed' = Lexed
  BY <1>2, <1>3 DEF Lexed
<1>5. outcome # Running /\ outcome'.kind # "running" /\ outcome.kind \notin Failures
  BY <1>3 DEF Running, Failures
<1>6. Settled(Lexed, Nowhere)
  BY <1>5 DEF Followed, FollowsReference
<1>7. PICK toks : toks = Lexed
  OBVIOUS
<1>8. FollowsReference'
  <2>1. Settled(Lexed, Nowhere)'
    BY <1>2, <1>4, <1>6, <1>7, SettledNow
  <2> QED BY <1>3, <2>1 DEF FollowsReference
<1>9. MunchesAll'
  <2>1. outcome' # Running'
    BY <1>3 DEF Running
  <2>2. SUFFICES ASSUME ErrorPolicy = "raise" PROVE \E all : all = Lexed' /\ AllMunched(all)'
    BY <2>1 DEF MunchesAll
  <2>3. AllMunched(toks)
    BY <1>7, <2>2 DEF Followed, MunchesAll
  <2>4. \A i \in DOMAIN toks : Munched(text, toks[i], KindBefore(toks, i))'
    BY <1>2, <2>3, SameMunched DEF AllMunched
  <2>5. AllMunched(toks)'
    BY <2>4 DEF AllMunched
  <2> QED BY <1>4, <1>7, <2>5
<1> QED BY <1>1, <1>2, <1>3, <1>8, <1>9 DEF Followed

\* The first advance of an iterator, and an increment: a token is shown, thrown or the text exhausted.
Advances ==
    /\ phase # "done"
    /\ \/ (Shows(Reached) \/ Throws(Reached)) /\ phase' # "new"
       \/ Exhausts(Reached) /\ phase' = "done"

\* An advance of an iterator that has not thrown is followed.
LEMMA AdvanceFollowed ==
    ASSUME Scanned, Nested, Followed, Stands, outcome.kind \notin Failures, Advances
    PROVE  (Followed /\ Stands)'
<1> DEFINE turn == Reached
<1>1. \/ Shows(turn) /\ phase' # "new"
      \/ Throws(turn) /\ phase' # "new"
      \/ Exhausts(turn) /\ phase' = "done"
  BY DEF Advances
<1>2. outcome = Running \/ outcome.kind = "end"
  BY DEF Followed, FollowsReference
<1>3. CASE outcome = Running
  <2>1. ~eofDone
    BY <1>3 DEF Stands, Running
  <2>2. EofPolicy \in {"omit", "append"}
    BY LexerAssumption
  <2>3. RunningStep
    BY <1>1, <2>1, <2>2 DEF Shows, Throws, Exhausts, RunningStep
  <2>4. Followed'
    BY <1>3, <2>3, RunFollowed
  <2>5. Stands'
    <3>1. /\ rules' = rules /\ text' = text
          /\ Reached.meets = "end" => Reached.at.cursor.offset = Len(text)
      BY <2>3, RunningScans, StepMoves, ReachedPlace DEF Moves
    <3>2. Failures' = Failures /\ Running.kind # "end" /\ Running.kind \notin Failures /\ "end" \notin Failures
      BY DEF Failures, Running
    <3>3. CASE Emit(turn) \/ EmitErrorRun(turn) \/ EmitUnterminated(turn)
      <4>1. outcome' = Running
        BY <1>3, <3>3 DEF Emit, EmitErrorRun, EmitUnterminated
      <4>2. eofDone' = eofDone \/ End(turn)
        BY <1>1 DEF Shows, Throws, Exhausts
      <4>3. End(turn) => outcome'.kind = "end"
        BY DEF End, Ended
      <4> QED BY <2>1, <3>2, <4>1, <4>2, <4>3 DEF Stands
    <3>4. CASE End(turn) /\ eofDone' = TRUE /\ EofPolicy = "append"
      <4>1. cursor'.offset = Len(text') /\ Len(stack') = 1 /\ outcome'.kind = "end"
        BY <3>1, <3>4 DEF End, Ended
      <4> QED BY <3>2, <3>4, <4>1 DEF Stands
    <3>5. CASE Throws(turn) /\ phase' # "new"
      <4>1. outcome'.kind \in Failures /\ eofDone' = eofDone
        BY <3>5 DEF Throws, NoRule, BadTransition, Unterminated, ZeroLength, Fail, Ended, Failures
      <4> QED BY <2>1, <3>2, <3>5, <4>1 DEF Stands
    <3>6. CASE Exhausts(turn) /\ phase' = "done"
      <4>1. cursor'.offset = Len(text') /\ Len(stack') = 1 /\ outcome'.kind = "end" /\ eofDone' = eofDone
        BY <3>1, <3>6 DEF Exhausts, Ended
      <4> QED BY <2>1, <3>2, <3>6, <4>1 DEF Stands
    <3> QED BY <1>1, <3>3, <3>4, <3>5, <3>6 DEF Shows
  <2> QED BY <2>4, <2>5
<1>4. CASE outcome.kind = "end"
  <2>1. Reached.meets = "end" /\ Len(Reached.at.stack) = 1 /\ eofDone /\ EofPolicy = "append"
    BY <1>4, UnwoundStops DEF Stands, Advances
  <2>2. Exhausts(turn) /\ phase' = "done"
    <3>1. ~(1 > 1)
      OBVIOUS
    <3> QED BY <1>1, <2>1, <3>1 DEF Shows, Throws, Emit, EmitErrorRun, EmitUnterminated, NoRule, BadTransition,
                                    Unterminated, ZeroLength
  <2>3. Followed' /\ (cursor.offset = Len(text) /\ Len(stack) = 1)' /\ outcome'.kind = "end"
    BY <1>4, <2>2, EndFollowed
  <2>4. eofDone' = eofDone
    BY <2>2 DEF Exhausts
  <2> QED BY <2>1, <2>2, <2>3, <2>4 DEF Stands, Failures
<1> QED BY <1>2, <1>3, <1>4

\* An increment of an iterator that was not driven past an error is followed.
LEMMA IteratorStepFollowed ==
    Scanned /\ Nested /\ IteratorFollowed /\ [IteratorNext]_iteratorVars => IteratorFollowed'
<1> SUFFICES ASSUME Scanned, Nested, IteratorFollowed, [IteratorNext]_iteratorVars, ~wentOn'
             PROVE  (Followed /\ Stands)'
  BY DEF IteratorFollowed
<1>1. CASE UNCHANGED iteratorVars
  BY <1>1, FollowedStays DEF IteratorFollowed, iteratorVars
<1>2. CASE IteratorNext
  <2>1. ~wentOn /\ (phase = "new" \/ outcome.kind \notin Failures) /\ Advances
    <3>1. CASE Construct
      BY <3>1 DEF Construct, Advances
    <3>2. CASE Increment
      <4>1. ~(wentOn \/ outcome.kind \in Failures)
        BY <3>2 DEF Increment
      <4> QED BY <3>2, <4>1 DEF Increment, Advances
    <3> QED BY <1>2, <3>1, <3>2 DEF IteratorNext
  <2>2. Followed /\ Stands
    BY <2>1 DEF IteratorFollowed
  <2>3. outcome.kind \notin Failures
    BY <2>1, <2>2 DEF Stands
  <2> QED BY <2>1, <2>2, <2>3, AdvanceFollowed
<1> QED BY <1>1, <1>2

\* For every grammar, every text, every policy and every unit of columns: lexed in one go or a token at a
\* time, a text has the tokens of its reference and fails where it does, and the harness finds nothing
\* (LexesAsReference); of an iterator, unless it is driven past an error (IteratesAsReference).
THEOREM LexesAsItsReference == (Spec => []LexesAsReference) /\ (IteratorSpec => []IteratesAsReference)
<1>1. Init => Scanned /\ Nested /\ Followed
  BY InitNested, InitFollows DEF Followed
<1>2. IteratorInit => Scanned /\ Nested /\ IteratorFollowed
  <2>1. IteratorInit => Init /\ ~eofDone
    BY DEF IteratorInit
  <2>2. Init => Stands \/ eofDone
    BY DEF Init, Stands, Running, Failures
  <2> QED BY <1>1, <2>1, <2>2 DEF IteratorFollowed
<1>3. Spec => [](Scanned /\ Nested /\ Followed)
  BY <1>1, NextScans, StepScanned, StepNested, NextFollowed, PTL DEF Spec
<1>4. IteratorSpec => [](Scanned /\ Nested /\ IteratorFollowed)
  BY <1>2, IncrementScans, StepScanned, StepNested, IteratorStepFollowed, PTL DEF IteratorSpec
<1>5. Scanned /\ Followed => LexesAsReference
  BY FollowsSuffices DEF Followed
<1>6. Scanned /\ IteratorFollowed => IteratesAsReference
  BY <1>5 DEF IteratorFollowed, IteratesAsReference
<1> QED BY <1>3, <1>4, <1>5, <1>6, PTL

-----------------------------------------------------------------------------
(* The generator of the Python binding *)

\* A sequence, whatever its members.
IsSequence(s) == s \in Seq({ s[i] : i \in DOMAIN s })

\* Where the generator is in its iteration.  It owes a token when the iterator stands on one that it has
\* not yielded: the first, before the first scan_next, and the one no memory was left for.
OwesNothing ==
    \/ generator = "new"
    \/ generator \in {"error", "end"}
    \/ generator = "open" /\ (needsAdvance \/ phase = "done")

OwesOne ==
    \/ generator = "memory"
    \/ generator = "open" /\ ~needsAdvance /\ phase = "live"

\* GivenInOrder with what it rests on: before the first token the iterator has shown nothing, and the
\* generator owes at most the token the iterator stands on.
InOrder ==
    /\ IsSequence(tokens) /\ IsSequence(given)
    /\ generator \in {"new", "open", "end", "error", "memory"}
    /\ generator = "new" => tokens = <<>> /\ given = <<>> /\ needsAdvance = FALSE
    /\ generator = "open" => phase \in {"live", "done"}
    /\ needsAdvance \in BOOLEAN
    /\ OwesNothing => given = tokens
    /\ OwesOne => tokens = Append(given, Last(tokens))

-----------------------------------------------------------------------------
(* Sequences and the iterator *)

\* A token more: the sequence begins with what it was and ends with the token.
LEMMA AppendKeeps ==
    ASSUME NEW s, NEW x, IsSequence(s)
    PROVE  /\ IsSequence(Append(s, x))
           /\ Last(Append(s, x)) = x
           /\ IsPrefix(s, Append(s, x)) /\ Len(Append(s, x)) = Len(s) + 1
<1> DEFINE S == { s[i] : i \in DOMAIN s } \cup {x}
           a == Append(s, x)
<1>1. s \in Seq(S) /\ x \in S
  BY DEF IsSequence
<1> HIDE DEF S
<1>2. a \in Seq(S) /\ Len(a) = Len(s) + 1 /\ a[Len(s) + 1] = x /\ Len(s) \in Nat
  BY <1>1
<1>3. \A i \in 1..Len(s) : a[i] = s[i]
  BY <1>1
<1>4. IsSequence(a)
  BY <1>2 DEF IsSequence
<1>5. SubSeq(a, 1, Len(s)) = SubSeq(s, 1, Len(s))
  BY <1>1, <1>2, <1>3
<1> QED BY <1>2, <1>4, <1>5 DEF Last, IsPrefix

\* A sequence begins with itself.
LEMMA PrefixOfItself ==
    ASSUME NEW s, IsSequence(s)
    PROVE  IsPrefix(s, s) /\ Len(s) \in Nat
BY DEF IsPrefix, IsSequence

\* A scan_next that shows something shows one token.
LEMMA ShowsOne ==
    ASSUME NEW turn, Shows(turn)
    PROVE  \E token : tokens' = Append(tokens, token)
<1>1. CASE Emit(turn)
  BY <1>1 DEF Emit
<1>2. CASE EmitErrorRun(turn)
  BY <1>2 DEF EmitErrorRun
<1>3. CASE EmitUnterminated(turn)
  BY <1>3 DEF EmitUnterminated
<1>4. CASE EofPolicy = "append" /\ End(turn)
  BY <1>4 DEF End
<1> QED BY <1>1, <1>2, <1>3, <1>4 DEF Shows

\* One that throws shows nothing.
LEMMA ThrowsShowsNone ==
    ASSUME NEW turn, Throws(turn)
    PROVE  tokens' = tokens
BY DEF Throws, NoRule, BadTransition, Unterminated, ZeroLength, Fail

-----------------------------------------------------------------------------
(* The steps *)

\* A generator begins with nothing given and nothing owed.
LEMMA InitInOrder == PythonInit => InOrder
<1> SUFFICES ASSUME PythonInit PROVE InOrder
  OBVIOUS
<1>1. tokens = <<>> /\ given = <<>> /\ generator = "new" /\ needsAdvance = FALSE
  BY DEF PythonInit, IteratorInit, Init
<1>2. IsSequence(<<>>)
  BY DEF IsSequence
<1> QED BY <1>1, <1>2 DEF InOrder, OwesNothing, OwesOne

\* Its first scan_next may show the first token, which is then owed.
LEMMA StartKeeps == InOrder /\ StartScan => InOrder'
<1> SUFFICES ASSUME InOrder, StartScan PROVE InOrder'
  OBVIOUS
<1>1. tokens = <<>> /\ given = <<>> /\ needsAdvance = FALSE /\ given' = given
      /\ needsAdvance' = FALSE /\ IsSequence(tokens) /\ IsSequence(given)
  BY DEF InOrder, StartScan
<1>2. generator' = IF phase' = "lost" THEN "error" ELSE "open"
  BY DEF StartScan
<1>3. PICK turn : \/ Shows(turn) /\ phase' = "live"
                  \/ Throws(turn) /\ phase' = "lost"
                  \/ Exhausts(turn) /\ phase' = "done"
  BY DEF StartScan, Construct
<1>4. CASE Shows(turn) /\ phase' = "live"
  <2>1. PICK token : tokens' = Append(tokens, token)
    BY <1>4, ShowsOne
  <2>2. IsSequence(tokens') /\ Last(tokens') = token
    BY <1>1, <2>1, AppendKeeps
  <2> QED BY <1>1, <1>2, <1>4, <2>1, <2>2 DEF InOrder, OwesNothing, OwesOne
<1>5. CASE tokens' = tokens /\ phase' \in {"lost", "done"}
  BY <1>1, <1>2, <1>5 DEF InOrder, OwesNothing, OwesOne
<1> QED BY <1>3, <1>4, <1>5, ThrowsShowsNone DEF Exhausts

\* The token is yielded, or there is no memory for it.
LEMMA YieldKeeps ==
    ASSUME InOrder, NEW token, generator = "open", phase' = "live",
           tokens' = Append(given, token), IsSequence(tokens'), Last(tokens') = token, Yields(token)
    PROVE  InOrder'
<1>1. needsAdvance' = TRUE /\ IsSequence(given)
  BY DEF Yields, InOrder
<1>2. CASE given' = Append(given, token) /\ generator' = generator
  BY <1>1, <1>2 DEF InOrder, OwesNothing, OwesOne
<1>3. CASE given' = given /\ generator' = "memory"
  BY <1>1, <1>3 DEF InOrder, OwesNothing, OwesOne
<1> QED BY <1>2, <1>3 DEF Yields

\* That one is given, or no memory is left for it.
LEMMA YieldFirstKeeps == InOrder /\ YieldFirst => InOrder'
<1> SUFFICES ASSUME InOrder, YieldFirst PROVE InOrder'
  OBVIOUS
<1>1. generator = "open" /\ phase' = "live" /\ tokens' = tokens /\ Yields(Last(tokens))
  BY DEF YieldFirst, iteratorVars, vars
<1>2. tokens = Append(given, Last(tokens)) /\ IsSequence(tokens)
  BY DEF YieldFirst, InOrder, OwesOne
<1> QED BY <1>1, <1>2, YieldKeeps

\* From then on an increment comes first, and the token it shows is given.
LEMMA YieldNextKeeps == InOrder /\ YieldNext => InOrder'
<1> SUFFICES ASSUME InOrder, YieldNext PROVE InOrder'
  OBVIOUS
<1>1. generator = "open" /\ phase' = "live" /\ Yields(Last(tokens'))
  BY DEF YieldNext
<1>2. given = tokens /\ IsSequence(tokens)
  BY DEF YieldNext, InOrder, OwesNothing
<1>3. PICK token : tokens' = Append(tokens, token)
  BY ShowsOne DEF YieldNext
<1>4. IsSequence(tokens') /\ Last(tokens') = token
  BY <1>2, <1>3, AppendKeeps
<1> QED BY <1>1, <1>2, <1>3, <1>4, YieldKeeps

\* The generator ends and gives nothing more.
LEMMA EndKeeps ==
    ASSUME InOrder, tokens' = tokens, given' = given, needsAdvance' = needsAdvance,
           generator' \in {"error", "end"}, OwesNothing
    PROVE  InOrder'
BY DEF InOrder, OwesNothing, OwesOne

\* So every step keeps the order.
LEMMA NextKeeps == InOrder /\ [PythonNext]_pythonVars => InOrder'
<1> SUFFICES ASSUME InOrder, [PythonNext]_pythonVars PROVE InOrder'
  OBVIOUS
<1>1. CASE StartScan
  BY <1>1, StartKeeps
<1>2. CASE YieldFirst
  BY <1>2, YieldFirstKeeps
<1>3. CASE YieldNext
  BY <1>3, YieldNextKeeps
<1>4. CASE Raise
  BY <1>4, EndKeeps, ThrowsShowsNone DEF Raise, OwesNothing
<1>5. CASE Return
  BY <1>5, EndKeeps DEF Return, Exhausts, OwesNothing
<1>6. CASE ReturnAtOnce
  BY <1>6, EndKeeps DEF ReturnAtOnce, iteratorVars, vars, OwesNothing
<1>7. CASE UNCHANGED pythonVars
  BY <1>7 DEF pythonVars, iteratorVars, vars, InOrder, OwesNothing, OwesOne, IsSequence
<1> QED BY <1>1, <1>2, <1>3, <1>4, <1>5, <1>6, <1>7 DEF PythonNext

\* What is given is a beginning of the iterator's tokens, and all of them before an error or the end.
LEMMA InOrderSuffices == InOrder => GivenInOrder
<1> SUFFICES ASSUME InOrder PROVE GivenInOrder
  OBVIOUS
<1>1. CASE given = tokens
  BY <1>1, PrefixOfItself DEF InOrder, GivenInOrder
<1>2. CASE given # tokens
  <2>1. generator \notin {"new", "error", "end"} /\ ~(generator = "open" /\ needsAdvance)
    BY <1>2 DEF InOrder, OwesNothing
  <2>2. tokens = Append(given, Last(tokens)) /\ IsSequence(given)
    BY <1>2 DEF InOrder, OwesNothing, OwesOne
  <2>3. IsPrefix(given, tokens) /\ Len(tokens) = Len(given) + 1 /\ Len(given) \in Nat
    BY <2>2, AppendKeeps, PrefixOfItself
  <2> QED BY <2>1, <2>3 DEF GivenInOrder
<1> QED BY <1>1, <1>2

-----------------------------------------------------------------------------
(* The theorems *)

\* The generator gives the tokens its iterator shows in their order, each once, and all of them before
\* it raises or ends; the increment put off to the next call (scan_state::needs_advance) neither
\* repeats a token nor leaves one out.
THEOREM ScanGivesInOrder == PythonSpec => []GivenInOrder
<1>1. PythonSpec => []InOrder
  BY InitInOrder, NextKeeps, PTL DEF PythonSpec
<1> QED BY <1>1, InOrderSuffices, PTL

-----------------------------------------------------------------------------
(* The tokens are the reference's *)

\* A generator asks its cursor for no token after it threw: it never drives the iterator past an error, and
\* the text is lexed as the reference lexes it.
ScanFollowed ==
    /\ Scanned /\ Nested /\ Followed /\ Stands
    /\ ~wentOn
    /\ phase = "live" => outcome.kind \notin Failures

\* A step of the generator is a scan_next, or leaves the scan alone.
LEMMA PythonScans == [PythonNext]_pythonVars => [ScanStep]_vars
<1>1. [IteratorNext]_iteratorVars => [ScanStep]_vars
  BY IncrementScans
<1>2. StartScan => IteratorNext
  BY DEF StartScan, IteratorNext
<1>3. YieldFirst \/ ReturnAtOnce \/ UNCHANGED pythonVars => UNCHANGED vars
  BY DEF YieldFirst, ReturnAtOnce, pythonVars, iteratorVars
<1>4. YieldNext \/ Raise \/ Return => ScanStep
  BY DEF YieldNext, Raise, Return, Shows, Throws, Exhausts, ScanStep
<1> QED BY <1>1, <1>2, <1>3, <1>4 DEF PythonNext, iteratorVars

\* What a throw leaves is a failure; a token or the end is none.
LEMMA ThrowsFail ==
    /\ Throws(Reached) => outcome'.kind \in Failures
    /\ Shows(Reached) /\ outcome.kind \notin Failures => outcome'.kind \notin Failures
<1>1. Throws(Reached) => outcome'.kind \in Failures
  BY DEF Throws, NoRule, BadTransition, Unterminated, ZeroLength, Fail, Ended, Failures
<1>2. Emit(Reached) \/ EmitErrorRun(Reached) \/ EmitUnterminated(Reached) => outcome' = outcome
  BY DEF Emit, EmitErrorRun, EmitUnterminated
<1>3. End(Reached) => outcome'.kind = "end"
  BY DEF End, Ended
<1> QED BY <1>1, <1>2, <1>3 DEF Shows, Failures

\* The generator never increments past an error, so its scan follows the reference to the end.
LEMMA StepScanFollowed == ScanFollowed /\ [PythonNext]_pythonVars => ScanFollowed'
<1> SUFFICES ASSUME ScanFollowed, [PythonNext]_pythonVars PROVE ScanFollowed'
  OBVIOUS
<1>1. Scanned' /\ Nested'
  BY PythonScans, StepScanned, StepNested DEF ScanFollowed
<1>2. CASE YieldFirst \/ ReturnAtOnce \/ UNCHANGED pythonVars
  <2>1. UNCHANGED iteratorVars
    BY <1>2 DEF YieldFirst, ReturnAtOnce, pythonVars
  <2> QED BY <1>1, <2>1, FollowedStays DEF ScanFollowed, iteratorVars, vars, Failures
<1>3. CASE StartScan \/ YieldNext \/ Raise \/ Return
  <2>1. /\ phase = "new" \/ phase = "live"
        /\ \/ Shows(Reached) /\ phase' = "live"
           \/ Throws(Reached) /\ phase' \in {"lost", "done"}
           \/ Exhausts(Reached) /\ phase' = "done"
        /\ wentOn' = wentOn
    BY <1>3 DEF StartScan, Construct, YieldNext, Raise, Return
  <2>2. outcome.kind \notin Failures
    BY <2>1 DEF ScanFollowed, Stands
  <2>3. Advances
    BY <2>1 DEF Advances
  <2>4. (Followed /\ Stands)'
    BY <2>2, <2>3, AdvanceFollowed DEF ScanFollowed
  <2>5. phase' = "live" => outcome'.kind \notin Failures
    BY <2>1, <2>2, ThrowsFail
  <2> QED BY <1>1, <2>1, <2>4, <2>5 DEF ScanFollowed, Failures
<1> QED BY <1>2, <1>3 DEF PythonNext

\* It begins as the reference does.
LEMMA InitScanFollowed == PythonInit => ScanFollowed
<1> SUFFICES ASSUME PythonInit PROVE ScanFollowed
  OBVIOUS
<1>1. Init /\ phase = "new" /\ ~eofDone /\ ~wentOn
  BY DEF PythonInit, IteratorInit
<1>2. Stands
  BY <1>1 DEF Init, Stands, Running, Failures
<1> QED BY <1>1, <1>2, InitNested, InitFollows DEF ScanFollowed, Followed

\* For every grammar and every text, under every policy: what the generator is given is what the reference
\* makes of the text (LexesAsReference, and so IteratesAsReference), and with ScanGivesInOrder the same goes
\* for what it yields.
THEOREM ScanYieldsReference == PythonSpec => [](IteratesAsReference /\ LexesAsReference /\ ~wentOn)
<1>1. ScanFollowed => IteratesAsReference /\ LexesAsReference /\ ~wentOn
  BY FollowsSuffices DEF ScanFollowed, Followed, IteratesAsReference
<1> QED BY <1>1, InitScanFollowed, StepScanFollowed, PTL DEF PythonSpec

\* For every grammar and every text: what holds of a scan whoever drives it holds of the generator's.
THEOREM ScanHolds ==
    PythonSpec => /\ [](TypeOK /\ EqualOnlyAtTheEnd /\ FramesAreOpeners /\ BlocksNest)
                  /\ ScanProgresses /\ ExtensionsStayInBlock
<1>1. PythonInit => Scanned /\ Nested /\ TokensApart /\ BlocksOpen
  <2>1. PythonInit => Init
    BY DEF PythonInit, IteratorInit
  <2>2. Init => TokensApart
    BY DEF Init, TokensApart
  <2> QED BY <2>1, <2>2, InitNested, InitOpened
<1>2. PythonSpec => [](Scanned /\ Nested /\ TokensApart /\ BlocksOpen)
  BY <1>1, PythonScans, StepScanned, StepNested, StepApart, StepNests, PTL DEF PythonSpec
<1>3. Scanned /\ Nested /\ TokensApart /\ BlocksOpen
        => TypeOK /\ EqualOnlyAtTheEnd /\ FramesAreOpeners /\ BlocksNest
  BY ScannedSuffices, ApartSuffices, NestedSuffices, BlocksOpenSuffices
<1>4. Scanned /\ [ScanStep]_vars
        => [outcome' = Running => \/ cursor'.offset > cursor.offset
                                  \/ cursor'.offset = Len(text) /\ Len(stack') < Len(stack)]_vars
  BY StepProgresses DEF Progresses
<1>5. Scanned /\ BlocksOpen /\ [ScanStep]_vars => [StaysInBlock]_vars
  BY StepStaysInBlock
<1>6. ExtensionsStayInBlock <=> [][StaysInBlock]_vars
  BY DEF ExtensionsStayInBlock, StaysInBlock
<1> QED BY <1>1, <1>2, <1>3, <1>4, <1>5, <1>6, PythonScans, PTL DEF PythonSpec, ScanProgresses

=============================================================================
