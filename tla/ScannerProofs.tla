---------------------------- MODULE ScannerProofs ---------------------------
(***************************************************************************)
(* What the proofs about a scan need of the operators it is built from:    *)
(* that no match, munch or extension reaches past the end of the text,     *)
(* that a position depends on nothing but the text before it, and that a   *)
(* transition keeps the mode stack within its bounds.                      *)
(***************************************************************************)
EXTENDS Scanner, FiniteSetTheorems, WellFoundedInduction, TLAPS

-----------------------------------------------------------------------------
(* Least and greatest members of sets of integers *)

\* A set of naturals that is not empty has a least element, which is what Min chooses.
LEMMA MinOfNaturals ==
    ASSUME NEW S \in SUBSET Nat, S # {}
    PROVE  Min(S) \in S /\ \A y \in S : Min(S) <= y
<1>1. PICK x \in S : \A y \in S : <<y, x>> \notin OpToRel(<, Nat)
  BY NatLessThanWellFounded, WFMin
<1>2. \A y \in S : x <= y
  <2>1. TAKE y \in S
  <2>2. ~(y < x) BY <1>1 DEF OpToRel
  <2> QED BY <2>2
<1> QED BY <1>2 DEF Min

\* Likewise from any lower bound.
LEMMA MinOfIntegers ==
    ASSUME NEW S, NEW m \in Int, \A x \in S : x \in Int /\ x >= m, S # {}
    PROVE  Min(S) \in S /\ \A y \in S : Min(S) <= y
<1> DEFINE T == { x - m : x \in S }
<1>1. T \in SUBSET Nat
  OBVIOUS
<1>2. T # {}
  OBVIOUS
<1>3. Min(T) \in T /\ \A t \in T : Min(T) <= t
  <2> HIDE DEF T
  <2> QED BY <1>1, <1>2, MinOfNaturals
<1>4. PICK x \in S : Min(T) = x - m
  BY <1>3
<1>5. \A y \in S : x <= y
  <2>1. TAKE y \in S
  <2>2. y - m \in T
    OBVIOUS
  <2>3. x - m <= y - m
    BY <1>3, <1>4, <2>2
  <2>4. x \in Int /\ y \in Int
    OBVIOUS
  <2> HIDE DEF T
  <2> QED BY <2>3, <2>4
<1> QED BY <1>5 DEF Min

\* A set of integers between two bounds that is not empty has a greatest element, which is what Max
\* chooses.
LEMMA MaxOfIntegers ==
    ASSUME NEW S, NEW m \in Int, NEW n \in Int, \A x \in S : x \in m..n, S # {}
    PROVE  Max(S) \in S /\ \A y \in S : Max(S) >= y
<1> DEFINE T == { n - x : x \in S }
<1>1. T \in SUBSET Nat
  OBVIOUS
<1>2. T # {}
  OBVIOUS
<1>3. Min(T) \in T /\ \A t \in T : Min(T) <= t
  <2> HIDE DEF T
  <2> QED BY <1>1, <1>2, MinOfNaturals
<1>4. PICK x \in S : Min(T) = n - x
  BY <1>3
<1>5. \A y \in S : x >= y
  <2>1. TAKE y \in S
  <2>2. n - y \in T
    OBVIOUS
  <2>3. n - x <= n - y
    BY <1>3, <1>4, <2>2
  <2>4. x \in m..n /\ y \in m..n
    OBVIOUS
  <2> HIDE DEF T
  <2> QED BY <2>3, <2>4
<1> QED BY <1>5 DEF Max

-----------------------------------------------------------------------------
(* Pieces of sequences *)

\* What is left of a sequence past its first n members.
LEMMA SuffixTyped ==
    ASSUME NEW S, NEW s \in Seq(S), NEW n \in 0..Len(s)
    PROVE  /\ SubSeq(s, n + 1, Len(s)) \in Seq(S)
           /\ Len(SubSeq(s, n + 1, Len(s))) = Len(s) - n
           /\ \A i \in 1..(Len(s) - n) : SubSeq(s, n + 1, Len(s))[i] = s[n + i]
OBVIOUS

\* The first n members of a sequence.
LEMMA PrefixTyped ==
    ASSUME NEW S, NEW s \in Seq(S), NEW n \in 0..Len(s)
    PROVE  /\ SubSeq(s, 1, n) \in Seq(S)
           /\ Len(SubSeq(s, 1, n)) = n
           /\ \A i \in 1..n : SubSeq(s, 1, n)[i] = s[i]
OBVIOUS

\* A sequence followed by another.
LEMMA JoinTyped ==
    ASSUME NEW S, NEW s \in Seq(S), NEW t \in Seq(S)
    PROVE  /\ s \o t \in Seq(S)
           /\ Len(s \o t) = Len(s) + Len(t)
           /\ \A i \in 1..Len(s) : (s \o t)[i] = s[i]
           /\ \A i \in 1..Len(t) : (s \o t)[Len(s) + i] = t[i]
OBVIOUS

\* The members of a sequence between two offsets.
LEMMA SliceTyped ==
    ASSUME NEW S, NEW s \in Seq(S), NEW to \in 0..Len(s), NEW from \in 0..to
    PROVE  /\ SubSeq(s, from + 1, to) \in Seq(S)
           /\ Len(SubSeq(s, from + 1, to)) = to - from
           /\ \A i \in 1..(to - from) : SubSeq(s, from + 1, to)[i] = s[from + i]
OBVIOUS

-----------------------------------------------------------------------------
(* Matches *)

\* A match of an alternative lies within the text.
LEMMA LengthsBounded ==
    ASSUME NEW alt \in Alternative, NEW t \in Seq(Char), NEW at \in 0..Len(t)
    PROVE  \A n \in Lengths(alt, t, at) : n \in 0..(Len(t) - at)
<1> DEFINE head == Len(alt.head)
           tail == Len(alt.tail)
           rest == Len(t) - at
<1>1. head \in Nat /\ tail \in Nat /\ rest \in Int
  BY DEF Alternative
<1>2. \A n \in Lengths(alt, t, at) : n \in (head + tail)..rest
  BY DEF Lengths
<1>3. \A n \in (head + tail)..rest : n \in 0..rest
  <2> HIDE DEF head, tail, rest
  <2> QED BY <1>1
<1> QED BY <1>2, <1>3

\* regex::match answers a length within the text, or that there is no match.
LEMMA MatchBounded ==
    ASSUME NEW p \in Pattern, NEW t \in Seq(Char), NEW at \in 0..Len(t)
    PROVE  MatchLength(p, t, at) \in {NoMatch} \cup 0..(Len(t) - at)
<1> DEFINE matching == Matching(p, t, at)
           alt      == p.alts[Min(matching)]
           lengths  == Lengths(alt, t, at)
<1>1. CASE matching = {} \/ ~Admits(p, t, at)
  BY <1>1 DEF MatchLength
<1>2. CASE ~(matching = {} \/ ~Admits(p, t, at))
  <2>1. matching \in SUBSET Nat
    BY DEF Matching, Pattern
  <2>2. Min(matching) \in matching
    BY <1>2, <2>1, MinOfNaturals
  <2>3. Min(matching) \in DOMAIN p.alts /\ lengths # {}
    BY <2>2 DEF Matching
  <2>4. alt \in Alternative
    BY <2>3 DEF Pattern
  <2>5. \A n \in lengths : n \in 0..(Len(t) - at)
    BY <2>4, LengthsBounded
  <2>6. Min(lengths) \in lengths
    <3> HIDE DEF lengths
    <3> QED BY <2>3, <2>5, MinOfIntegers
  <2>7. Max(lengths) \in lengths
    <3> HIDE DEF lengths
    <3> QED BY <2>3, <2>5, MaxOfIntegers
  <2>8. MatchLength(p, t, at) \in {Min(lengths), Max(lengths)}
    BY <1>2 DEF MatchLength
  <2> QED BY <2>5, <2>6, <2>7, <2>8
<1> QED BY <1>1, <1>2

\* And so does a DFA.
LEMMA LongestBounded ==
    ASSUME NEW p \in Pattern, NEW t \in Seq(Char), NEW at \in 0..Len(t)
    PROVE  LongestLength(p, t, at) \in {NoMatch} \cup 0..(Len(t) - at)
<1> DEFINE L == {NoMatch} \cup UNION { Lengths(p.alts[i], t, at) : i \in DOMAIN p.alts }
<1>1. \A n \in L : n \in -1..(Len(t) - at)
  <2>1. \A i \in DOMAIN p.alts : p.alts[i] \in Alternative
    BY DEF Pattern
  <2> QED BY <2>1, LengthsBounded DEF NoMatch
<1>2. L # {}
  OBVIOUS
<1>3. Max(L) \in L
  <2> HIDE DEF L
  <2> QED BY <1>1, <1>2, MaxOfIntegers
<1>4. LongestLength(p, t, at) = Max(L)
  BY DEF LongestLength
<1>5. Max(L) \in -1..(Len(t) - at)
  BY <1>1, <1>3
<1> HIDE DEF L
<1> QED BY <1>4, <1>5 DEF NoMatch

\* A nullable pattern matches the empty word, and a pattern that matches it is nullable.
LEMMA NullableMatches ==
    ASSUME NEW p \in Pattern, NEW t \in Seq(Char), NEW at \in 0..Len(t)
    PROVE  /\ Nullable(p) => \E i \in DOMAIN p.alts : 0 \in Lengths(p.alts[i], t, at)
           /\ (\E i \in DOMAIN p.alts : 0 \in Lengths(p.alts[i], t, at)) => Nullable(p)
<1>1. \A i \in DOMAIN p.alts : p.alts[i] \in Alternative
  BY DEF Pattern
<1>2. ASSUME NEW i \in DOMAIN p.alts
      PROVE  0 \in Lengths(p.alts[i], t, at) <=> p.alts[i].head = <<>> /\ p.alts[i].tail = <<>>
  <2> DEFINE alt == p.alts[i]
             head == Len(alt.head)
             tail == Len(alt.tail)
  <2>1. /\ head \in Nat /\ tail \in Nat /\ alt.head \in Seq(SUBSET Char) /\ alt.tail \in Seq(SUBSET Char)
        /\ (head = 0 <=> alt.head = <<>>) /\ (tail = 0 <=> alt.tail = <<>>)
    BY <1>1 DEF Alternative
  <2>2. ASSUME 0 \in Lengths(alt, t, at) PROVE head = 0 /\ tail = 0
    <3>1. 0 \in (head + tail)..(Len(t) - at)
      BY <2>2 DEF Lengths
    <3> HIDE DEF head, tail
    <3> QED BY <2>1, <3>1
  <2>3. ASSUME head = 0, tail = 0 PROVE 0 \in Lengths(alt, t, at)
    <3>1. 0 \in (head + tail)..(Len(t) - at)
      BY <2>3
    <3>2. Spells(alt.head, t, at) /\ Spells(alt.tail, t, at + 0 - tail)
      BY <2>3 DEF Spells
    <3>3. (head + 1)..(0 - tail) = {}
      BY <2>3
    <3> QED BY <3>1, <3>2, <3>3 DEF Lengths
  <2> QED BY <2>1, <2>2, <2>3
<1> QED BY <1>2 DEF Nullable

\* A word that matches a pattern begins with one of its first characters.
LEMMA FirstCharMatches ==
    ASSUME NEW p \in Pattern, ~Nullable(p), NEW t \in Seq(Char), NEW at \in 0..(Len(t) - 1),
           MatchLength(p, t, at) # NoMatch
    PROVE  t[at + 1] \in FirstChars(p)
<1>1. Matching(p, t, at) # {}
  BY DEF MatchLength
<1>2. PICK i \in DOMAIN p.alts : Lengths(p.alts[i], t, at) # {}
  BY <1>1 DEF Matching
<1> DEFINE alt  == p.alts[i]
           head == Len(alt.head)
           tail == Len(alt.tail)
<1>3. PICK n : n \in Lengths(alt, t, at)
  BY <1>2
<1>4. /\ alt \in Alternative /\ alt.head \in Seq(SUBSET Char) /\ alt.tail \in Seq(SUBSET Char)
      /\ alt.head # <<>> \/ alt.tail # <<>>
  <2>1. alt \in Alternative
    BY DEF Pattern
  <2>2. alt.head # <<>> \/ alt.tail # <<>>
    BY DEF Nullable
  <2> HIDE DEF alt
  <2> QED BY <2>1, <2>2 DEF Alternative
<1>5. /\ head \in Nat /\ tail \in Nat /\ (alt.head # <<>> => head >= 1) /\ (alt.tail # <<>> => tail >= 1)
  BY <1>4
<1>6. /\ n \in (head + tail)..(Len(t) - at)
      /\ Spells(alt.head, t, at) /\ Spells(alt.tail, t, at + n - tail)
      /\ \A j \in (head + 1)..(n - tail) : t[at + j] \in alt.loop
  BY <1>3 DEF Lengths
<1>7. t[at + 1] \in (IF alt.head # <<>> THEN alt.head[1] ELSE alt.loop \cup alt.tail[1])
  <2>1. CASE alt.head # <<>>
    <3>1. 1 \in 1..Len(alt.head)
      BY <1>5, <2>1
    <3> QED BY <1>6, <2>1, <3>1 DEF Spells
  <2>2. CASE alt.head = <<>>
    <3>1. head = 0 /\ tail >= 1 /\ n >= tail /\ n \in Int
      <4>1. head = 0 /\ tail >= 1
        BY <1>4, <1>5, <2>2
      <4> HIDE DEF head, tail
      <4> QED BY <1>5, <1>6, <4>1
    <3>2. CASE n = tail
      <4>1. 1 \in 1..Len(alt.tail)
        BY <1>5, <3>1
      <4>2. t[at + n - tail + 1] \in alt.tail[1]
        BY <1>6, <4>1 DEF Spells
      <4>3. at + n - tail + 1 = at + 1
        <5> HIDE DEF tail
        <5> QED BY <1>5, <3>2
      <4> QED BY <2>2, <4>2, <4>3
    <3>3. CASE n # tail
      <4>1. 1 \in (head + 1)..(n - tail)
        <5> HIDE DEF head, tail
        <5> QED BY <1>5, <3>1, <3>3
      <4> QED BY <1>6, <2>2, <4>1
    <3> QED BY <3>2, <3>3
  <2> QED BY <2>1, <2>2
<1> QED BY <1>7 DEF FirstChars

-----------------------------------------------------------------------------
(* Munches *)

\* A unit has rules of the lexer only.
LEMMA UnitOfRules ==
    ASSUME NEW mode, NEW kind, NEW t, NEW at
    PROVE  UnitOf(mode, kind, t, at).rules \subseteq RuleIds
BY DEF UnitOf, ModeRules

\* The rules of a grammar the lexer was built from are typed.
LEMMA RulesTyped ==
    ASSUME rules \in Grammars
    PROVE  /\ RuleIds \in SUBSET Nat
           /\ \A i \in RuleIds : rules[i] \in Rule /\ rules[i].pattern \in Pattern
<1>1. rules \in Seq(Rule)
  BY ScannerAssumption DEF WellFormed
<1>2. RuleIds \in SUBSET Nat
  BY <1>1 DEF RuleIds
<1>3. \A i \in RuleIds : rules[i] \in Rule
  BY <1>1 DEF RuleIds
<1> QED BY <1>2, <1>3 DEF Rule

\* The winner of some matches is one of them.
LEMMA WinnerIsMatch ==
    ASSUME NEW M, NEW r \in Nat, \A m \in M : m[1] \in Nat /\ m[2] \in 0..r
    PROVE  /\ Winner(M).len \in 0..r
           /\ Winner(M).have <=> M # {}
           /\ Winner(M).have => \E m \in M : Winner(M).idx = m[1] /\ Winner(M).len = m[2]
<1>1. CASE M = {}
  BY <1>1 DEF Winner, NoMunch
<1>2. CASE M # {}
  <2> DEFINE lengths == { m[2] : m \in M }
             longest == { w \in M : w[2] = Max(lengths) }
             ids     == { m[1] : m \in longest }
  <2>1. Max(lengths) \in lengths
    <3>1. \A n \in lengths : n \in 0..r
      OBVIOUS
    <3>2. lengths # {}
      BY <1>2
    <3> HIDE DEF lengths
    <3> QED BY <3>1, <3>2, MaxOfIntegers
  <2>2. ids \in SUBSET Nat /\ ids # {}
    BY <2>1
  <2>3. Min(ids) \in ids
    <3> HIDE DEF ids
    <3> QED BY <2>2, MinOfNaturals
  <2>4. PICK m \in M : m[2] = Max(lengths) /\ m[1] = Min(ids)
    BY <2>3
  <2>5. Winner(M) = [have |-> TRUE, idx |-> Min(ids), len |-> Max(lengths)]
    BY <1>2 DEF Winner
  <2> HIDE DEF lengths, ids
  <2> QED BY <1>2, <2>4, <2>5
<1> QED BY <1>1, <1>2

\* No match is longer than the winner.
LEMMA WinnerIsLongest ==
    ASSUME NEW M, NEW r \in Nat, \A m \in M : m[1] \in Nat /\ m[2] \in 0..r
    PROVE  \A m \in M : Winner(M).len >= m[2]
<1> DEFINE lengths == { m[2] : m \in M }
<1>1. SUFFICES ASSUME NEW w \in M PROVE Winner(M).len >= w[2]
  OBVIOUS
<1>2. \A n \in lengths : n \in 0..r
  OBVIOUS
<1>3. w[2] \in lengths
  OBVIOUS
<1>4. Winner(M).len = Max(lengths)
  BY DEF Winner
<1> HIDE DEF lengths
<1> QED BY <1>2, <1>3, <1>4, MaxOfIntegers

\* Sets of matches, each <<rule, length>>, of at most r characters.
MatchSets(r) == SUBSET (Nat \X (0..r))

\* Of the longest matches the winner is the earliest rule's.
LEMMA WinnerIsEarliest ==
    ASSUME NEW M, NEW r \in Nat, \A m \in M : m[1] \in Nat /\ m[2] \in 0..r
    PROVE  \A m \in M : m[2] = Winner(M).len => Winner(M).idx <= m[1]
<1> SUFFICES ASSUME NEW w \in M, w[2] = Winner(M).len PROVE Winner(M).idx <= w[1]
  OBVIOUS
<1> DEFINE lengths == { m[2] : m \in M }
           longest == { m \in M : m[2] = Max(lengths) }
           ids     == { m[1] : m \in longest }
<1>1. Winner(M) = [have |-> TRUE, idx |-> Min(ids), len |-> Max(lengths)]
  BY DEF Winner
<1>2. ids \in SUBSET Nat
  OBVIOUS
<1>3. w[2] = Max(lengths)
  BY <1>1
<1>4. w[1] \in ids
  BY <1>3
<1> HIDE DEF ids, lengths
<1>5. Min(ids) <= w[1]
  BY <1>2, <1>4, MinOfNaturals
<1> QED BY <1>1, <1>5

\* The winner of some matches is one of them; none is longer, nor as long and earlier.
LEMMA WinnerWins ==
    ASSUME NEW r \in Nat, NEW M \in MatchSets(r), M # {}
    PROVE  LET w == Winner(M)
           IN  /\ w = [have |-> TRUE, idx |-> w.idx, len |-> w.len]
               /\ <<w.idx, w.len>> \in M /\ w.idx \in Nat /\ w.len \in 0..r
               /\ \A m \in M : m[2] <= w.len /\ (m[2] = w.len => w.idx <= m[1])
<1> USE DEF MatchSets
<1> DEFINE w == Winner(M)
<1>1. \A m \in M : m[1] \in Nat /\ m[2] \in 0..r /\ m = <<m[1], m[2]>>
  OBVIOUS
<1>2. /\ w.len \in 0..r /\ w.have
      /\ \E m \in M : w.idx = m[1] /\ w.len = m[2]
      /\ \A m \in M : w.len >= m[2] /\ (m[2] = w.len => w.idx <= m[1])
  BY <1>1, WinnerIsMatch, WinnerIsLongest, WinnerIsEarliest
<1>3. w = [have |-> TRUE, idx |-> w.idx, len |-> w.len]
  BY DEF Winner
<1> HIDE DEF w
<1>4. <<w.idx, w.len>> \in M /\ w.idx \in Nat
  BY <1>1, <1>2
<1>5. \A m \in M : m[2] <= w.len
  BY <1>1, <1>2
<1> QED BY <1>2, <1>3, <1>4, <1>5 DEF w

\* And there is one such match only.
LEMMA WinnerIs ==
    ASSUME NEW r \in Nat, NEW M \in MatchSets(r), NEW i, NEW n, <<i, n>> \in M,
           \A m \in M : m[2] <= n /\ (m[2] = n => i <= m[1])
    PROVE  Winner(M) = [have |-> TRUE, idx |-> i, len |-> n]
<1> USE DEF MatchSets
<1> DEFINE w == Winner(M)
           m == <<i, n>>
           v == <<w.idx, w.len>>
<1>1. /\ w = [have |-> TRUE, idx |-> w.idx, len |-> w.len]
      /\ v \in M /\ w.idx \in Nat /\ w.len \in 0..r
      /\ \A x \in M : x[2] <= w.len /\ (x[2] = w.len => w.idx <= x[1])
  BY WinnerWins
<1> HIDE DEF w
<1>2. i \in Nat /\ n \in 0..r /\ m[1] = i /\ m[2] = n /\ v[1] = w.idx /\ v[2] = w.len
  OBVIOUS
<1>3. n <= w.len /\ w.len <= n
  BY <1>1, <1>2
<1>4. n = w.len
  BY <1>1, <1>2, <1>3
<1>5. w.idx <= i /\ i <= w.idx
  BY <1>1, <1>2, <1>4
<1>6. w.idx = i
  BY <1>1, <1>2, <1>5
<1> QED BY <1>1, <1>4, <1>6 DEF w

\* The winner of the winners of two sets of matches is the winner of them all.
LEMMA WinnerOfBoth ==
    ASSUME NEW r \in Nat, NEW A \in MatchSets(r), NEW B \in MatchSets(r),
           NEW a, NEW b, a = Winner(A), b = Winner(B),
           NEW W, a.have => <<a.idx, a.len>> \in W, b.have => <<b.idx, b.len>> \in W,
           \A x \in W : (a.have /\ x = <<a.idx, a.len>>) \/ (b.have /\ x = <<b.idx, b.len>>)
    PROVE  Winner(W) = Winner(A \cup B)
<1> USE DEF MatchSets
<1> DEFINE all == A \cup B
<1>1. NoMunch.have = FALSE
  BY DEF NoMunch
<1>2. A = {} => a = NoMunch
  BY DEF Winner
<1>3. B = {} => b = NoMunch
  BY DEF Winner
<1>4. A # {} => /\ a.have /\ <<a.idx, a.len>> \in A /\ a.idx \in Nat /\ a.len \in 0..r
                /\ \A m \in A : m[2] <= a.len /\ (m[2] = a.len => a.idx <= m[1])
  BY WinnerWins
<1>5. B # {} => /\ b.have /\ <<b.idx, b.len>> \in B /\ b.idx \in Nat /\ b.len \in 0..r
                /\ \A m \in B : m[2] <= b.len /\ (m[2] = b.len => b.idx <= m[1])
  BY WinnerWins
<1>6. CASE all = {}
  <2>1. W = {}
    BY <1>1, <1>2, <1>3, <1>6
  <2> QED BY <1>6, <2>1 DEF Winner
<1>7. CASE all # {}
  <2> DEFINE w == Winner(all)
             m == <<w.idx, w.len>>
  <2>1. /\ w = [have |-> TRUE, idx |-> w.idx, len |-> w.len]
        /\ m \in all /\ w.idx \in Nat /\ w.len \in 0..r
        /\ \A x \in all : x[2] <= w.len /\ (x[2] = w.len => w.idx <= x[1])
    BY <1>7, WinnerWins
  <2>2. m[1] = w.idx /\ m[2] = w.len
    OBVIOUS
  <2> HIDE DEF w
  <2>3. m \in A => a.len = w.len /\ a.idx = w.idx /\ a.have
    <3>1. SUFFICES ASSUME m \in A PROVE a.len = w.len /\ a.idx = w.idx /\ a.have
      OBVIOUS
    <3>2. <<a.idx, a.len>> \in all /\ <<a.idx, a.len>>[1] = a.idx /\ <<a.idx, a.len>>[2] = a.len
      BY <1>4, <3>1
    <3>3. a.len <= w.len /\ w.len <= a.len /\ a.len \in 0..r
      BY <1>4, <2>1, <2>2, <3>1, <3>2
    <3>4. a.len = w.len
      BY <2>1, <3>3
    <3>5. a.idx <= w.idx /\ w.idx <= a.idx /\ a.idx \in Nat
      BY <1>4, <2>1, <2>2, <3>1, <3>2, <3>4
    <3> QED BY <1>4, <2>1, <3>1, <3>4, <3>5
  <2>4. m \in B => b.len = w.len /\ b.idx = w.idx /\ b.have
    <3>1. SUFFICES ASSUME m \in B PROVE b.len = w.len /\ b.idx = w.idx /\ b.have
      OBVIOUS
    <3>2. <<b.idx, b.len>> \in all /\ <<b.idx, b.len>>[1] = b.idx /\ <<b.idx, b.len>>[2] = b.len
      BY <1>5, <3>1
    <3>3. b.len <= w.len /\ w.len <= b.len /\ b.len \in 0..r
      BY <1>5, <2>1, <2>2, <3>1, <3>2
    <3>4. b.len = w.len
      BY <2>1, <3>3
    <3>5. b.idx <= w.idx /\ w.idx <= b.idx /\ b.idx \in Nat
      BY <1>5, <2>1, <2>2, <3>1, <3>2, <3>4
    <3> QED BY <1>5, <2>1, <3>1, <3>4, <3>5
  <2>5. m \in W
    BY <2>1, <2>3, <2>4
  <2>6. \A x \in W : x \in all /\ x \in Nat \X (0..r)
    <3> SUFFICES ASSUME NEW x \in W PROVE x \in all /\ x \in Nat \X (0..r)
      OBVIOUS
    <3>1. PICK v \in {a, b} : v.have /\ x = <<v.idx, v.len>>
      OBVIOUS
    <3> QED BY <1>1, <1>2, <1>3, <1>4, <1>5, <3>1
  <2> HIDE DEF m, all
  <2>7. Winner(W) = [have |-> TRUE, idx |-> w.idx, len |-> w.len]
    <3>1. W \in MatchSets(r)
      BY <2>6
    <3>2. \A x \in W : x[2] <= w.len /\ (x[2] = w.len => w.idx <= x[1])
      BY <2>1, <2>6
    <3>3. <<w.idx, w.len>> \in W
      BY <2>5 DEF m
    <3> QED BY <3>1, <3>2, <3>3, WinnerIs
  <2> QED BY <2>1, <2>7 DEF w, all
<1> QED BY <1>6, <1>7 DEF all

\* Empty matches do not win beside others.
LEMMA WinnerOfWords ==
    ASSUME NEW r \in Nat, NEW M \in MatchSets(r), { m \in M : m[2] > 0 } # {}
    PROVE  Winner({ m \in M : m[2] > 0 }) = Winner(M)
<1> USE DEF MatchSets
<1> DEFINE words == { m \in M : m[2] > 0 }
           w     == Winner(words)
<1>1. /\ w = [have |-> TRUE, idx |-> w.idx, len |-> w.len]
      /\ <<w.idx, w.len>> \in words /\ w.idx \in Nat /\ w.len \in 0..r
      /\ \A m \in words : m[2] <= w.len /\ (m[2] = w.len => w.idx <= m[1])
  BY WinnerWins
<1>2. <<w.idx, w.len>> \in M /\ w.len > 0
  BY <1>1
<1> HIDE DEF w
<1>3. ASSUME NEW m \in M PROVE m[2] <= w.len /\ (m[2] = w.len => w.idx <= m[1])
  <2>1. m[2] \in 0..r
    OBVIOUS
  <2>2. CASE m[2] > 0
    BY <1>1, <2>2
  <2>3. CASE ~(m[2] > 0)
    <3>1. m[2] = 0
      BY <2>1, <2>3
    <3> QED BY <1>1, <1>2, <3>1
  <2> QED BY <2>2, <2>3
<1>4. Winner(M) = [have |-> TRUE, idx |-> w.idx, len |-> w.len]
  BY <1>2, <1>3, WinnerIs
<1> QED BY <1>1, <1>4 DEF w

\* What the DFA of a unit answers lies within the text, and is a match of one of its rules.
LEMMA DfaMunchBounded ==
    ASSUME rules \in Grammars,
           NEW unit, unit.rules \subseteq RuleIds,
           NEW t \in Seq(Char), NEW at \in 0..Len(t)
    PROVE  /\ DfaMunch(unit, t, at).len \in 0..(Len(t) - at)
           /\ DfaMunch(unit, t, at).have => DfaMunch(unit, t, at).idx \in unit.rules
<1> DEFINE all     == { <<i, LongestLength(rules[i].pattern, t, at)>> : i \in OnDfa(unit) }
           words   == { m \in all : m[2] > 0 }
           empties == { <<i, 0>> : i \in { j \in OnDfa(unit) : Nullable(rules[j].pattern) } }
           rest    == Len(t) - at
<1>1. rest \in Nat
  OBVIOUS
<1>2. OnDfa(unit) \subseteq unit.rules /\ OnDfa(unit) \in SUBSET Nat
  BY RulesTyped DEF OnDfa
<1>3. \A m \in words : m[1] \in unit.rules /\ m[1] \in Nat /\ m[2] \in 0..rest
  <2>1. \A i \in OnDfa(unit) : LongestLength(rules[i].pattern, t, at) \in {NoMatch} \cup 0..rest
    BY <1>2, RulesTyped, LongestBounded
  <2>2. \A i \in OnDfa(unit) : LongestLength(rules[i].pattern, t, at) > 0
                               => LongestLength(rules[i].pattern, t, at) \in 0..rest
    BY <2>1 DEF NoMatch
  <2> QED BY <1>2, <2>2
<1>4. \A m \in empties : m[1] \in unit.rules /\ m[1] \in Nat /\ m[2] \in 0..rest
  BY <1>1, <1>2
<1>5. DfaMunch(unit, t, at) = IF words # {} THEN Winner(words) ELSE Winner(empties)
  BY DEF DfaMunch
<1> HIDE DEF words, empties, rest
<1>6. CASE words # {}
  <2>1. /\ Winner(words).len \in 0..rest
        /\ Winner(words).have => \E m \in words : Winner(words).idx = m[1]
    BY <1>1, <1>3, WinnerIsMatch
  <2> QED BY <1>3, <1>5, <1>6, <2>1 DEF rest
<1>7. CASE words = {}
  <2>1. /\ Winner(empties).len \in 0..rest
        /\ Winner(empties).have => \E m \in empties : Winner(empties).idx = m[1]
    BY <1>1, <1>4, WinnerIsMatch
  <2> QED BY <1>4, <1>5, <1>7, <2>1 DEF rest
<1> QED BY <1>6, <1>7

\* Likewise for the rules beside it.
LEMMA PikeMunchBounded ==
    ASSUME rules \in Grammars,
           NEW unit, unit.rules \subseteq RuleIds,
           NEW t \in Seq(Char), NEW at \in 0..Len(t)
    PROVE  /\ PikeMunch(unit, t, at).len \in 0..(Len(t) - at)
           /\ PikeMunch(unit, t, at).have => PikeMunch(unit, t, at).idx \in unit.rules
<1> DEFINE asked   == Candidates(unit, t, at) \cap OnPike(unit)
           all     == { <<i, MatchLength(rules[i].pattern, t, at)>> : i \in asked }
           matches == { m \in all : m[2] # NoMatch }
           rest    == Len(t) - at
<1>1. rest \in Nat
  OBVIOUS
<1>2. asked \subseteq unit.rules /\ asked \in SUBSET Nat
  BY RulesTyped DEF OnPike
<1>3. \A m \in matches : m[1] \in unit.rules /\ m[1] \in Nat /\ m[2] \in 0..rest
  <2>1. \A i \in asked : MatchLength(rules[i].pattern, t, at) \in {NoMatch} \cup 0..rest
    BY <1>2, RulesTyped, MatchBounded
  <2> HIDE DEF asked
  <2> QED BY <1>2, <2>1
<1>4. PikeMunch(unit, t, at) = Winner(matches)
  BY DEF PikeMunch
<1> HIDE DEF matches, rest
<1>5. /\ Winner(matches).len \in 0..rest
      /\ Winner(matches).have => \E m \in matches : Winner(matches).idx = m[1]
  BY <1>1, <1>3, WinnerIsMatch
<1> QED BY <1>3, <1>4, <1>5 DEF rest

\* A munch lies within the text, and is a match of a rule of its unit.
LEMMA MunchBounded ==
    ASSUME rules \in Grammars,
           NEW unit, unit.rules \subseteq RuleIds,
           NEW t \in Seq(Char), NEW at \in 0..Len(t)
    PROVE  /\ MunchAt(unit, t, at).len \in 0..(Len(t) - at)
           /\ MunchAt(unit, t, at).have => MunchAt(unit, t, at).idx \in unit.rules
<1> DEFINE dfa     == DfaMunch(unit, t, at)
           pike    == PikeMunch(unit, t, at)
           having  == { w \in {dfa, pike} : w.have }
           matches == { <<m.idx, m.len>> : m \in having }
           rest    == Len(t) - at
<1>1. rest \in Nat
  OBVIOUS
<1>2. \A m \in having : m.idx \in unit.rules /\ m.idx \in Nat /\ m.len \in 0..rest
  BY DfaMunchBounded, PikeMunchBounded, RulesTyped
<1>3. \A m \in matches : m[1] \in unit.rules /\ m[1] \in Nat /\ m[2] \in 0..rest
  <2> HIDE DEF having
  <2> QED BY <1>2
<1>4. MunchAt(unit, t, at) = Winner(matches)
  BY DEF MunchAt
<1> HIDE DEF matches, rest
<1>5. /\ Winner(matches).len \in 0..rest
      /\ Winner(matches).have => \E m \in matches : Winner(matches).idx = m[1]
  BY <1>1, <1>3, WinnerIsMatch
<1> QED BY <1>3, <1>4, <1>5 DEF rest

-----------------------------------------------------------------------------
(* Extensions *)

\* The least of some offsets of a text and its end is one of them.
LEMMA LeastOffset ==
    ASSUME NEW n \in Nat, NEW at \in 0..n, NEW S, \A o \in S : o \in at..n
    PROVE  Min({n} \cup S) \in at..n /\ Min({n} \cup S) \in {n} \cup S
<1> DEFINE T == {n} \cup S
<1>1. \A o \in T : o \in Int /\ o >= at
  OBVIOUS
<1>2. T # {}
  OBVIOUS
<1>3. \A o \in T : o \in at..n
  OBVIOUS
<1>4. Min(T) \in T
  <2> HIDE DEF T
  <2> QED BY <1>1, <1>2, MinOfIntegers
<1> QED BY <1>3, <1>4

\* Blanks end within the text, and so do lines.
LEMMA LinesBounded ==
    ASSUME NEW t \in Seq(Char), NEW at \in 0..Len(t)
    PROVE  /\ \A blanks : PastAll(t, at, blanks) \in at..Len(t)
           /\ LineEnd(t, at) \in at..Len(t)
<1>1. Len(t) \in Nat
  OBVIOUS
<1>2. ASSUME NEW blanks
      PROVE  PastAll(t, at, blanks) \in at..Len(t)
  <2> DEFINE S == { o \in at..(Len(t) - 1) : t[o + 1] \notin blanks }
  <2>1. \A o \in S : o \in at..Len(t)
    OBVIOUS
  <2> HIDE DEF S
  <2>2. Min({Len(t)} \cup S) \in at..Len(t)
    BY <1>1, <2>1, LeastOffset
  <2> QED BY <2>2 DEF PastAll, S
<1>3. LineEnd(t, at) \in at..Len(t)
  <2> DEFINE S == { o \in at..(Len(t) - 1) : t[o + 1] = NewLine }
  <2>1. \A o \in S : o \in at..Len(t)
    OBVIOUS
  <2> HIDE DEF S
  <2>2. Min({Len(t)} \cup S) \in at..Len(t)
    BY <1>1, <2>1, LeastOffset
  <2> QED BY <2>2 DEF LineEnd, S
<1> QED BY <1>2, <1>3

\* A block body begins at or after the end of its match and ends within the text.
LEMMA BlockExtentBounded ==
    ASSUME NEW t \in Seq(Char), NEW end \in 0..Len(t), NEW match, NEW reference, NEW final
    PROVE  /\ BlockExtent(t, end, match, reference, final) \in {Undecided} \cup end..Len(t)
           /\ final = TRUE => BlockExtent(t, end, match, reference, final) \in end..Len(t)
<1> DEFINE body    == LineEnd(t, end) + 1
           content == BlockContent(t, body, match, reference)
           less    == { l \in Lines(t, body) :
                          /\ ~Blank(t, l) /\ LeadingSpaces(t, l) < content
                          /\ final \/ Broken(t, l) }
           ends    == { l \in Lines(t, body) :
                          /\ Blank(t, l) /\ ~Broken(t, l)
                          /\ ~(LeadingSpaces(t, l) >= content /\ Len(t) - l > content) }
           S       == less \cup ends
<1>1. Len(t) \in Nat /\ body \in Int /\ body >= end
  BY LinesBounded
<1>2. \A l \in Lines(t, body) : l \in end..Len(t)
  <2> HIDE DEF body
  <2> QED BY <1>1 DEF Lines
<1>3. \A l \in S : l \in end..Len(t)
  BY <1>2
<1>4. {Len(t)} \cup less \cup ends = {Len(t)} \cup S
  OBVIOUS
<1>5. Min({Len(t)} \cup S) \in end..Len(t)
  <2> HIDE DEF S
  <2> QED BY <1>1, <1>3, LeastOffset
<1>6. BlockExtent(t, end, match, reference, final) \in {Undecided, Min({Len(t)} \cup less \cup ends)}
  BY DEF BlockExtent
<1>7. final = TRUE => BlockExtent(t, end, match, reference, final) = Min({Len(t)} \cup less \cup ends)
  BY DEF BlockExtent
<1> HIDE DEF less, ends
<1> QED BY <1>4, <1>5, <1>6, <1>7

\* The continuation pattern reads within the text.
LEMMA ReadToBounded ==
    ASSUME NEW t \in Seq(Char), NEW line \in 0..Len(t), NEW p \in Pattern
    PROVE  ReadTo(t, line, p) \in line..Len(t)
<1> DEFINE stop  == LineEnd(t, line)
           words == SubSeq(t, line + 1, stop)
           first == PastAll(words, 0, {Space, Tab})
           found == MatchLength(p, words, first)
<1>1. stop \in line..Len(t)
  BY LinesBounded
<1>2. words \in Seq(Char) /\ Len(words) = stop - line
  BY <1>1
<1>3. first \in 0..Len(words)
  <2> HIDE DEF words
  <2> QED BY <1>2, LinesBounded
<1>4. found \in {NoMatch} \cup 0..(Len(words) - first)
  <2> HIDE DEF words, first
  <2> QED BY <1>2, <1>3, MatchBounded
<1>5. ReadTo(t, line, p) = IF found > 0 THEN line + first + found ELSE line
  BY DEF ReadTo
<1> HIDE DEF stop, words, first, found
<1> QED BY <1>1, <1>2, <1>3, <1>4, <1>5 DEF NoMatch

\* A continued token ends at or after the end of its match and within the text.
LEMMA LinesExtentBounded ==
    ASSUME NEW t \in Seq(Char), NEW end \in 0..Len(t), NEW p \in Pattern, NEW reference, NEW final
    PROVE  /\ LinesExtent(t, end, p, reference, final) \in {Undecided} \cup end..Len(t)
           /\ final = TRUE => LinesExtent(t, end, p, reference, final) \in end..Len(t)
<1> DEFINE below     == Below(t, end)
           continued == { l \in below : /\ LeadingSpaces(t, l) > reference
                                        /\ ~MarksDocument(t, l)
                                        /\ ReadTo(t, l, p) > l }
           taken     == { l \in below : /\ BlankToEnd(t, end)
                                        /\ \A k \in below : k <= l => k \in continued
                                        /\ \A k \in below : k < l => BlankToEnd(t, ReadTo(t, k, p)) }
           S         == {end} \cup { ReadTo(t, l, p) : l \in taken }
<1>1. LineEnd(t, end) \in Int /\ LineEnd(t, end) >= end /\ Len(t) \in Nat
  BY LinesBounded
<1>2. \A l \in below : l \in end..Len(t)
  BY <1>1 DEF Below, Lines
<1>3. \A l \in taken : l \in 0..Len(t) /\ l \in end..Len(t)
  BY <1>2
<1>4. \A l \in taken : ReadTo(t, l, p) \in end..Len(t)
  <2> HIDE DEF taken
  <2>1. \A l \in taken : ReadTo(t, l, p) \in l..Len(t)
    BY <1>3, ReadToBounded
  <2> QED BY <1>3, <2>1
<1>5. \A o \in S : o \in end..Len(t)
  <2> HIDE DEF taken
  <2> QED BY <1>4
<1>6. S # {}
  OBVIOUS
<1>7. Max(S) \in S
  <2> HIDE DEF S
  <2> QED BY <1>1, <1>5, <1>6, MaxOfIntegers
<1>8. LinesExtent(t, end, p, reference, final) \in {Undecided, Max(S)}
  BY DEF LinesExtent
<1>9. final = TRUE => LinesExtent(t, end, p, reference, final) = Max(S)
  BY DEF LinesExtent
<1> HIDE DEF S
<1> QED BY <1>5, <1>7, <1>8, <1>9

\* A match is never cut short by its extension, and an extended one still ends within the text; how far
\* it extends is decided once the whole text is there.
LEMMA ExtendedBounded ==
    ASSUME NEW rule \in Rule, NEW mode, NEW t \in Seq(Char), NEW start, NEW indents, NEW final,
           start.offset \in 0..Len(t), NEW length \in 0..(Len(t) - start.offset)
    PROVE  /\ Extended(rule, mode, t, start, length, indents, final)
                \in {Undecided} \cup length..(Len(t) - start.offset)
           /\ final = TRUE => Extended(rule, mode, t, start, length, indents, final)
                                \in length..(Len(t) - start.offset)
<1> DEFINE end       == start.offset + length
           reference == IndentReference(rule.indent, start, indents)
           block     == BlockExtent(t, end, SubSeq(t, start.offset + 1, end), reference, final)
           lines     == LinesExtent(t, end, rule.continuation, reference, final)
           extended  == Extended(rule, mode, t, start, length, indents, final)
<1>1. end \in 0..Len(t) /\ Len(t) \in Nat
  OBVIOUS
<1>2. block \in {Undecided} \cup end..Len(t)
  <2> HIDE DEF end
  <2> QED BY <1>1, BlockExtentBounded
<1>3. lines \in {Undecided} \cup end..Len(t)
  <2> HIDE DEF end
  <2> QED BY <1>1, LinesExtentBounded DEF Rule
<1>4. \/ extended = length
      \/ \E extent \in {block, lines} :
            extended = IF extent = Undecided THEN Undecided ELSE extent - start.offset
  BY DEF Extended, Reach
<1> HIDE DEF block, lines, extended, reference
<1>5. ASSUME NEW extent \in {block, lines}, extent # Undecided, extended = extent - start.offset
      PROVE  extended \in length..(Len(t) - start.offset)
  <2>1. extent \in end..Len(t)
    BY <1>2, <1>3, <1>5
  <2> QED BY <1>1, <1>5, <2>1
<1>6. extended \in {Undecided} \cup length..(Len(t) - start.offset)
  <2>1. length \in length..(Len(t) - start.offset)
    OBVIOUS
  <2> QED BY <1>4, <1>5, <2>1
<1>7. final = TRUE => extended \in length..(Len(t) - start.offset)
  <2> SUFFICES ASSUME final = TRUE PROVE extended \in length..(Len(t) - start.offset)
    OBVIOUS
  <2>1. block \in end..Len(t) /\ lines \in end..Len(t)
    <3>1. block \in end..Len(t)
      <4> HIDE DEF end
      <4> QED BY <1>1, BlockExtentBounded DEF block
    <3>2. lines \in end..Len(t)
      <4> HIDE DEF end
      <4> QED BY <1>1, LinesExtentBounded DEF lines, Rule
    <3> QED BY <3>1, <3>2
  <2>2. block # Undecided /\ lines # Undecided
    <3> HIDE DEF end
    <3> QED BY <1>1, <2>1 DEF Undecided
  <2>3. length \in length..(Len(t) - start.offset)
    OBVIOUS
  <2> QED BY <1>4, <1>5, <2>2, <2>3
<1> QED BY <1>6, <1>7 DEF extended

-----------------------------------------------------------------------------
(* Positions *)

\* Advancing twice is advancing once: the line and the column of a place do not depend on where the
\* matches before it ended.
LEMMA AdvanceAdds ==
    ASSUME NEW t \in Seq(Char), NEW pos, pos.offset \in 0..Len(t), pos.line \in Nat, pos.column \in Nat,
           NEW n \in 0..(Len(t) - pos.offset), NEW m \in 0..(Len(t) - pos.offset - n)
    PROVE  Advance(t, Advance(t, pos, n), m) = Advance(t, pos, n + m)
<1> DEFINE from   == pos.offset
           mid    == Advance(t, pos, n)
           first  == from..(from + n - 1)
           second == (from + n)..(from + n + m - 1)
           all    == from..(from + (n + m) - 1)
           Breaks(S) == { o \in S : t[o + 1] = NewLine }
           OnLine(S) == { o \in S : \A b \in Breaks(S) : b < o }
           Ones(S)   == { o \in OnLine(S) : ColumnStep(t, o) >= 1 }
           Twos(S)   == { o \in OnLine(S) : ColumnStep(t, o) = 2 }
<1>1. from \in Nat /\ n \in Nat /\ m \in Nat
  OBVIOUS
<1>2. /\ all = first \cup second /\ first \cap second = {}
      /\ \A a \in first : \A b \in second : a \in Int /\ b \in Int /\ a < b
      /\ IsFiniteSet(first) /\ IsFiniteSet(second)
  <2> HIDE DEF from
  <2>1. from + n - 1 \in Int /\ from + n \in Int /\ from + n + m - 1 \in Int /\ from \in Int
    BY <1>1
  <2>2. IsFiniteSet(first) /\ IsFiniteSet(second)
    BY <2>1, FS_Interval
  <2> QED BY <1>1, <2>2
<1>3. mid = [ offset |-> from + n, line |-> pos.line + Cardinality(Breaks(first)),
              column |-> (IF Breaks(first) = {} THEN pos.column ELSE 1)
                         + Cardinality(Ones(first)) + Cardinality(Twos(first)) ]
  BY DEF Advance
<1>4. Advance(t, pos, n + m) =
        [ offset |-> from + (n + m), line |-> pos.line + Cardinality(Breaks(all)),
          column |-> (IF Breaks(all) = {} THEN pos.column ELSE 1)
                     + Cardinality(Ones(all)) + Cardinality(Twos(all)) ]
  BY DEF Advance
<1>5. Advance(t, mid, m) =
        [ offset |-> from + n + m, line |-> mid.line + Cardinality(Breaks(second)),
          column |-> (IF Breaks(second) = {} THEN mid.column ELSE 1)
                     + Cardinality(Ones(second)) + Cardinality(Twos(second)) ]
  <2>1. mid.offset = from + n
    BY <1>3
  <2> HIDE DEF mid, from
  <2> QED BY <2>1 DEF Advance
<1> HIDE DEF from, mid, first, second, all
\* the cardinalities of two disjoint parts add
<1>6. ASSUME NEW A, NEW B, A \subseteq first, B \subseteq second
      PROVE  /\ Cardinality(A) \in Nat /\ Cardinality(B) \in Nat
             /\ Cardinality(A \cup B) = Cardinality(A) + Cardinality(B)
  <2>1. IsFiniteSet(A) /\ IsFiniteSet(B) /\ A \cap B = {}
    BY <1>2, <1>6, FS_Subset
  <2>2. Cardinality(A) \in Nat /\ Cardinality(B) \in Nat /\ Cardinality({}) = 0
    BY <2>1, FS_CardinalityType, FS_EmptySet
  <2>3. Cardinality(A \cup B) = Cardinality(A) + Cardinality(B) - Cardinality({})
    BY <2>1, FS_Union
  <2> QED BY <2>2, <2>3
<1>7. Breaks(all) = Breaks(first) \cup Breaks(second)
  BY <1>2
<1>8. /\ Breaks(first) \subseteq first /\ Ones(first) \subseteq first /\ Twos(first) \subseteq first
      /\ Breaks(second) \subseteq second /\ Ones(second) \subseteq second /\ Twos(second) \subseteq second
  OBVIOUS
<1>9. CASE Breaks(second) = {}
  <2>1. OnLine(all) = OnLine(first) \cup OnLine(second)
    BY <1>2, <1>9
  <2>2. Ones(all) = Ones(first) \cup Ones(second) /\ Twos(all) = Twos(first) \cup Twos(second)
    BY <2>1
  <2>3. Breaks(all) = Breaks(first)
    BY <1>7, <1>9
  <2> DEFINE b1 == Cardinality(Breaks(first))
             o1 == Cardinality(Ones(first))
             o2 == Cardinality(Ones(second))
             w1 == Cardinality(Twos(first))
             w2 == Cardinality(Twos(second))
             s  == IF Breaks(first) = {} THEN pos.column ELSE 1
  <2>4. /\ b1 \in Nat /\ o1 \in Nat /\ o2 \in Nat /\ w1 \in Nat /\ w2 \in Nat /\ s \in Nat
        /\ Cardinality(Ones(all)) = o1 + o2 /\ Cardinality(Twos(all)) = w1 + w2
        /\ Cardinality(Breaks(second)) = 0 /\ Cardinality(Breaks(all)) = b1
    BY <1>6, <1>8, <1>9, <2>2, <2>3, FS_EmptySet, ZenonT(60)
  <2>5. mid.line = pos.line + b1 /\ mid.column = s + o1 + w1
    BY <1>3
  <2>6. Advance(t, mid, m) = [offset |-> from + n + m, line |-> mid.line + 0, column |-> mid.column + o2 + w2]
    BY <1>5, <1>9, <2>4
  <2>7. Advance(t, pos, n + m) =
          [offset |-> from + (n + m), line |-> pos.line + b1, column |-> s + (o1 + o2) + (w1 + w2)]
    BY <1>4, <2>3, <2>4
  <2> HIDE DEF b1, o1, o2, w1, w2, s, Breaks, Ones, Twos
  <2> QED BY <1>1, <2>4, <2>5, <2>6, <2>7 DEF mid
<1>10. CASE Breaks(second) # {}
  <2>1. OnLine(all) = OnLine(second)
    BY <1>2, <1>10
  <2>2. Ones(all) = Ones(second) /\ Twos(all) = Twos(second)
    BY <2>1
  <2>3. Breaks(all) # {}
    BY <1>7, <1>10
  <2> DEFINE b1 == Cardinality(Breaks(first))
             b2 == Cardinality(Breaks(second))
  <2>4. b1 \in Nat /\ b2 \in Nat /\ Cardinality(Breaks(all)) = b1 + b2
    BY <1>6, <1>7, <1>8
  <2>5. mid.line = pos.line + b1
    BY <1>3
  <2>6. Advance(t, mid, m) =
          [offset |-> from + n + m, line |-> mid.line + b2,
           column |-> 1 + Cardinality(Ones(second)) + Cardinality(Twos(second))]
    BY <1>5, <1>10
  <2>7. Advance(t, pos, n + m) =
          [offset |-> from + (n + m), line |-> pos.line + (b1 + b2),
           column |-> 1 + Cardinality(Ones(second)) + Cardinality(Twos(second))]
    BY <1>4, <2>2, <2>3, <2>4
  <2> HIDE DEF b1, b2, Breaks, Ones, Twos
  <2> QED BY <1>1, <2>4, <2>5, <2>6, <2>7 DEF mid
<1> QED BY <1>9, <1>10

\* A place in a text is on a line and at a column the text is long enough for, whatever it counts in: a
\* character counted twice is followed by one that is not counted.
LEMMA PlaceTyped ==
    ASSUME NEW t \in Seq(Char), NEW at \in 0..Len(t)
    PROVE  /\ Advance(t, Beginning, at).offset = at
           /\ Advance(t, Beginning, at).line \in 1..(Len(t) + 1)
           /\ Advance(t, Beginning, at).column \in 1..(Len(t) + 1)
           /\ Advance(t, Beginning, at)
                \in [offset : 0..Len(t), line : 1..(Len(t) + 1), column : 1..(Len(t) + 1)]
<1> DEFINE n      == Len(t)
           here   == Advance(t, Beginning, at)
           passed == 0..(0 + at - 1)
           breaks == { o \in passed : t[o + 1] = NewLine }
           onLine == { o \in passed : \A b \in breaks : b < o }
           ones   == { o \in onLine : ColumnStep(t, o) >= 1 }
           twos   == { o \in onLine : ColumnStep(t, o) = 2 }
           nexts  == { o + 1 : o \in twos }
           bytes  == 0..(n - 1)
<1>1. n \in Nat /\ at \in Nat /\ at <= n
  OBVIOUS
<1>2. /\ IsFiniteSet(bytes) /\ Cardinality(bytes) = n
      /\ IsFiniteSet(passed) /\ Cardinality(passed) = at
  <2> HIDE DEF n
  <2>1. 0 \in Int /\ n - 1 \in Int /\ 0 + at - 1 \in Int
    BY <1>1
  <2>2. /\ IsFiniteSet(bytes) /\ Cardinality(bytes) = IF 0 > n - 1 THEN 0 ELSE (n - 1) - 0 + 1
        /\ IsFiniteSet(passed) /\ Cardinality(passed) = IF 0 > 0 + at - 1 THEN 0 ELSE (0 + at - 1) - 0 + 1
    BY <2>1, FS_Interval
  <2> QED BY <1>1, <2>2
<1>3. here = [ offset |-> 0 + at, line |-> 1 + Cardinality(breaks),
               column |-> (IF breaks = {} THEN 1 ELSE 1) + Cardinality(ones) + Cardinality(twos) ]
  BY DEF Advance, Beginning
<1>4. Cardinality(breaks) \in Nat /\ Cardinality(breaks) <= n
  <2>1. breaks \subseteq passed
    OBVIOUS
  <2> HIDE DEF breaks, passed, n
  <2>2. IsFiniteSet(breaks) /\ Cardinality(breaks) <= Cardinality(passed)
    BY <1>2, <2>1, FS_Subset
  <2>3. Cardinality(breaks) \in Nat
    BY <2>2, FS_CardinalityType
  <2> QED BY <1>1, <1>2, <2>2, <2>3
\* what follows a character counted twice is a continuation, not counted
<1>5. ASSUME NEW o \in twos
      PROVE  o \in Nat /\ o + 1 < n /\ ColumnStep(t, o + 1) = 0
  <2>1. o \in Nat /\ o < n
    BY <1>1
  <2>2. Columns # "bytes" /\ ValidLength(t, o) = 4
    BY DEF ColumnStep
  <2>3. o + Announces[t[o + 1]] <= n /\ Announces[t[o + 1]] = 4
        /\ \A i \in 1..(Announces[t[o + 1]] - 1) : Announces[t[o + 1 + i]] = 0
    BY <2>2 DEF ValidLength
  <2>4. Announces[t[(o + 1) + 1]] = 0
    <3>1. 1 \in 1..(Announces[t[o + 1]] - 1)
      BY <2>3
    <3> QED BY <2>3, <3>1
  <2>5. Min({3, o + 1}) \in {3, o + 1}
    <3>1. {3, o + 1} \in SUBSET Nat /\ {3, o + 1} # {}
      BY <2>1
    <3> QED BY <3>1, MinOfNaturals
  <2>6. 1 \in 1..Min({3, o + 1}) /\ (o + 1) - 1 = o
    BY <2>1, <2>5
  <2>7. ColumnStep(t, o + 1) = 0
    BY <2>2, <2>4, <2>6 DEF ColumnStep
  <2> QED BY <2>1, <2>3, <2>7
<1>6. ones \subseteq bytes /\ nexts \subseteq bytes /\ ones \cap nexts = {}
  <2>1. ones \subseteq bytes
    BY <1>1
  <2>2. nexts \subseteq bytes
    BY <1>1, <1>5
  <2>3. ASSUME NEW o \in ones PROVE o \notin nexts
    <3>1. ColumnStep(t, o) >= 1
      OBVIOUS
    <3>2. \A x \in twos : ColumnStep(t, x + 1) = 0
      BY <1>5
    <3> QED BY <3>1, <3>2
  <2> QED BY <2>1, <2>2, <2>3
<1>7. twos \subseteq passed
  OBVIOUS
<1>8. \A x \in twos : x \in Nat
  BY <1>5
<1> DEFINE f == [o \in twos |-> o + 1]
<1>9. f \in Injection(twos, nexts)
  <2> HIDE DEF twos
  <2> QED BY <1>8 DEF Injection, IsInjective
<1> HIDE DEF n, bytes, passed, breaks, ones, twos, nexts, f
<1>10. /\ IsFiniteSet(ones) /\ IsFiniteSet(nexts) /\ IsFiniteSet(twos)
       /\ Cardinality(ones) \in Nat /\ Cardinality(nexts) \in Nat /\ Cardinality(twos) \in Nat
  <2>1. IsFiniteSet(ones) /\ IsFiniteSet(nexts) /\ IsFiniteSet(twos)
    BY <1>2, <1>6, <1>7, FS_Subset
  <2> QED BY <2>1, FS_CardinalityType
<1>11. Cardinality(ones \cup nexts) = Cardinality(ones) + Cardinality(nexts)
  <2>1. Cardinality(ones \cup nexts) = Cardinality(ones) + Cardinality(nexts) - Cardinality({})
    BY <1>6, <1>10, FS_Union
  <2> QED BY <1>10, <2>1, FS_EmptySet
<1>12. Cardinality(ones \cup nexts) <= n
  <2>1. ones \cup nexts \subseteq bytes
    BY <1>6
  <2> QED BY <1>2, <2>1, FS_Subset
<1>13. Cardinality(twos) <= Cardinality(nexts)
  BY <1>9, <1>10, FS_Injection
<1> DEFINE line   == 1 + Cardinality(breaks)
           column == 1 + Cardinality(ones) + Cardinality(twos)
<1>14. here = [offset |-> at, line |-> line, column |-> column]
  BY <1>1, <1>3
<1>15. line \in 1..(n + 1)
  BY <1>1, <1>4
<1>16. column \in 1..(n + 1)
  BY <1>1, <1>10, <1>11, <1>12, <1>13
<1>17. at \in 0..n
  BY <1>1
<1> HIDE DEF here, line, column
<1> QED BY <1>14, <1>15, <1>16, <1>17 DEF here, n

-----------------------------------------------------------------------------
(* Modes *)

\* apply_transition keeps a stack within its bounds, and touches its top only.
LEMMA StackMoves ==
    ASSUME NEW P, NEW frames \in Seq([mode : ModeNames, entry : P]), Len(frames) \in 1..MaxDepth,
           NEW i \in RuleIds, rules \in Grammars, ~Refused(rules[i], frames), NEW pos \in P
    PROVE  LET next == Transition(rules[i], pos, frames)
           IN  /\ next \in Seq([mode : ModeNames, entry : P])
               /\ Len(next) \in 1..MaxDepth
               /\ Len(next) >= Len(frames) - 1
               /\ \A depth \in 1..(Len(frames) - 1) : next[depth] = frames[depth]
               /\ rules[i].op = "none" => next = frames
<1> DEFINE n    == Len(frames)
           rule == rules[i]
           next == Transition(rule, pos, frames)
<1> DEFINE Frames == [mode : ModeNames, entry : P]
<1>0. frames \in Seq(Frames)
  OBVIOUS
<1>1. n \in Nat /\ n >= 1 /\ n <= MaxDepth /\ MaxDepth \in Nat
  BY ScannerAssumption
<1>2. rule \in Rule
  BY RulesTyped
<1>3. CASE rule.op = "push"
  <2>1. rule.target \in ModeNames
    BY <1>3 DEF ModeNames, Targets
  <2> DEFINE f == [mode |-> rule.target, entry |-> pos]
  <2>2. f \in Frames
    BY <2>1
  <2>3. next = Append(frames, f)
    BY <1>3 DEF Transition
  <2>4. n < MaxDepth
    BY <1>1, <1>3 DEF Refused
  <2> HIDE DEF f, next
  <2>5. /\ next \in Seq(Frames) /\ Len(next) = n + 1
        /\ \A depth \in 1..n : next[depth] = frames[depth]
    BY <2>2, <2>3
  <2> HIDE DEF n
  <2>6. Len(next) \in 1..MaxDepth /\ Len(next) >= n - 1
    BY <1>1, <2>4, <2>5
  <2>7. \A depth \in 1..(n - 1) : depth \in 1..n
    BY <1>1
  <2> QED BY <1>3, <2>5, <2>6, <2>7 DEF n, next
<1>4. CASE rule.op = "pop"
  <2>1. next = SubSeq(frames, 1, n - 1)
    BY <1>4 DEF Transition, Front
  <2>2. n # 1
    BY <1>4 DEF Refused
  <2>3. /\ next \in Seq(Frames) /\ Len(next) = n - 1
        /\ \A depth \in 1..(n - 1) : next[depth] = frames[depth]
    <3>1. n - 1 \in 0..Len(frames) /\ n - 1 \in Nat
      BY <1>1
    <3> DEFINE m == n - 1
    <3> HIDE DEF next, m
    <3>2. next \in Seq(Frames) /\ Len(next) = m /\ \A depth \in 1..m : next[depth] = frames[depth]
      BY <2>1, <3>1, PrefixTyped DEF m
    <3> QED BY <3>2 DEF m
  <2> HIDE DEF n, next
  <2>4. Len(next) \in 1..MaxDepth /\ Len(next) >= n - 1
    BY <1>1, <2>2, <2>3
  <2> QED BY <1>4, <2>3, <2>4 DEF n, next
<1>5. CASE rule.op = "set"
  <2>1. rule.target \in ModeNames
    BY <1>5 DEF ModeNames, Targets
  <2> DEFINE f == [frames[n] EXCEPT !.mode = rule.target]
  <2>2. frames[n] \in Frames
    <3> HIDE DEF Frames
    <3> QED BY <1>0, <1>1
  <2>3. f \in Frames
    BY <2>1, <2>2
  <2>4. next = [frames EXCEPT ![n] = f]
    BY <1>5 DEF Transition
  <2> HIDE DEF f, next
  <2>5. /\ next \in Seq(Frames) /\ Len(next) = n
        /\ \A depth \in 1..n : depth # n => next[depth] = frames[depth]
    BY <1>1, <2>3, <2>4
  <2> HIDE DEF n
  <2>6. Len(next) \in 1..MaxDepth /\ Len(next) >= n - 1
    BY <1>1, <2>5
  <2>7. \A depth \in 1..(n - 1) : depth \in 1..n /\ depth # n
    BY <1>1
  <2> QED BY <1>5, <2>5, <2>6, <2>7 DEF n, next
<1>6. CASE rule.op = "none"
  <2>1. next = frames
    BY <1>6 DEF Transition
  <2> QED BY <1>1, <2>1
<1> QED BY <1>2, <1>3, <1>4, <1>5, <1>6 DEF Rule

-----------------------------------------------------------------------------
(* The open blocks *)

\* Levels that nest above the -1, at columns of C.
Nests(levels, C) ==
    /\ levels \in Seq(Int) /\ Len(levels) >= 1
    /\ levels[1] = -1
    /\ \A i \in 2..Len(levels) : levels[i] > levels[i - 1] /\ levels[i] \in C

\* Closing the blocks deeper than a column leaves the others.
LEMMA ClosedNests ==
    ASSUME NEW C, NEW levels, Nests(levels, C), NEW column \in Nat
    PROVE  Nests(Closed(levels, column), C)
<1> DEFINE S == { i \in DOMAIN levels : levels[i] <= column }
           n == Len(levels)
           m == Max(S)
<1>1. levels \in Seq(Int) /\ n \in Nat /\ n >= 1 /\ DOMAIN levels = 1..n /\ levels[1] = -1
  BY DEF Nests
<1>2. 1 \in S
  BY <1>1
<1>3. m \in S
  <2>1. \A i \in S : i \in 1..n
    BY <1>1
  <2>2. S # {} /\ 1 \in Int /\ n \in Int
    BY <1>1, <1>2
  <2> HIDE DEF S, n
  <2> QED BY <2>1, <2>2, MaxOfIntegers
<1>4. m \in 1..n
  BY <1>1, <1>3
<1> HIDE DEF m, S
<1>5. m \in 0..Len(levels)
  BY <1>4
<1>6. Closed(levels, column) = SubSeq(levels, 1, m)
  BY DEF Closed, m, S
<1>7. /\ SubSeq(levels, 1, m) \in Seq(Int) /\ Len(SubSeq(levels, 1, m)) = m
      /\ \A i \in 1..m : SubSeq(levels, 1, m)[i] = levels[i]
  BY <1>1, <1>5, PrefixTyped
<1> DEFINE next == SubSeq(levels, 1, m)
<1> HIDE DEF next
<1>8. \A i \in 2..m : i \in 2..n /\ i \in 1..m /\ i - 1 \in 1..m
  BY <1>1, <1>4
<1>9. next \in Seq(Int) /\ Len(next) = m /\ \A i \in 1..m : next[i] = levels[i]
  BY <1>7 DEF next
<1>10. next[1] = -1 /\ Len(next) >= 1
  <2>1. 1 \in 1..m
    BY <1>4
  <2> QED BY <1>1, <1>4, <1>9, <2>1
<1>11. \A i \in 2..m : next[i] > next[i - 1] /\ next[i] \in C
  BY <1>8, <1>9 DEF Nests
<1> QED BY <1>6, <1>9, <1>10, <1>11 DEF Nests, next

\* Opening a block, unless one is open at its column or deeper, nests it in the innermost.
LEMMA OpenedNests ==
    ASSUME NEW C \in SUBSET Int, NEW levels, Nests(levels, C), NEW column \in C
    PROVE  Nests(Opened(levels, column), C)
<1> DEFINE n    == Len(levels)
           next == Append(levels, column)
<1>1. levels \in Seq(Int) /\ n \in Nat /\ n >= 1 /\ column \in Int
  BY DEF Nests
<1>2. CASE levels[n] < column
  <2>1. Opened(levels, column) = next
    BY <1>2 DEF Opened, Last
  <2>2. /\ next \in Seq(Int) /\ Len(next) = n + 1 /\ next[n + 1] = column
        /\ \A i \in 1..n : next[i] = levels[i]
    BY <1>1
  <2> HIDE DEF next, n
  <2>3. ASSUME NEW i \in 2..(n + 1) PROVE next[i] > next[i - 1] /\ next[i] \in C
    <3>1. CASE i = n + 1
      <4>1. i - 1 = n /\ n \in 1..n
        BY <1>1, <3>1
      <4>2. levels[n] \in Int
        BY <1>1, <4>1 DEF n
      <4> QED BY <1>1, <1>2, <2>2, <3>1, <4>1, <4>2
    <3>2. CASE i # n + 1
      <4>1. i \in 2..n /\ i \in 1..n /\ i - 1 \in 1..n
        BY <1>1, <3>2
      <4> QED BY <2>2, <4>1 DEF Nests, n
    <3> QED BY <3>1, <3>2
  <2>4. next[1] = -1 /\ Len(next) >= 1
    <3>1. 1 \in 1..n
      BY <1>1
    <3> QED BY <1>1, <2>2, <3>1 DEF Nests
  <2> QED BY <2>1, <2>2, <2>3, <2>4 DEF Nests
<1>3. CASE ~(levels[n] < column)
  BY <1>3 DEF Opened, Last
<1> QED BY <1>2, <1>3

\* So does what a token makes of the blocks: an entry opens one where it begins, a value where the key of
\* its line began.
LEMMA ApplyNests ==
    ASSUME NEW C \in SUBSET Nat, NEW state, Nests(state.levels, C), state.key \in C \cup {-1},
           NEW start, start.column - 1 \in Nat,
           NEW role, role \in {"entry", "key"} => start.column - 1 \in C
    PROVE  LET next == ApplyIndent(role, start, state)
           IN  Nests(next.levels, C) /\ next.key \in C \cup {-1}
<1> DEFINE column == start.column - 1
           key    == IF start.line = state.line THEN state.key ELSE -1
           from   == IF role = "reset" THEN <<-1>> ELSE state.levels
           levels == Closed(from, column)
           next   == ApplyIndent(role, start, state)
<1>1. Nests(from, C)
  <2>1. Nests(<<-1>>, C)
    <3> DEFINE root == <<-1>>
    <3>1. root \in Seq(Int) /\ Len(root) = 1 /\ root[1] = -1 /\ 2..1 = {}
      OBVIOUS
    <3> HIDE DEF root
    <3> QED BY <3>1 DEF Nests, root
  <2> QED BY <2>1
<1>2. Nests(levels, C)
  <2> HIDE DEF from, column
  <2> QED BY <1>1, ClosedNests DEF column
<1>3. key \in C \cup {-1} /\ (key >= 0 => key \in C)
  OBVIOUS
<1>4. next.levels \in {levels, Opened(levels, column), Opened(levels, key)}
      /\ (next.levels = levels \/ (role = "entry" /\ next.levels = Opened(levels, column))
          \/ (role = "value" /\ key >= 0 /\ next.levels = Opened(levels, key)))
  BY DEF ApplyIndent
<1>5. next.key \in {-1, key} \/ (role = "key" /\ next.key = column)
  BY DEF ApplyIndent
<1> HIDE DEF levels, key, column, next
<1>6. C \in SUBSET Int
  OBVIOUS
<1>7. Nests(next.levels, C)
  <2>1. CASE next.levels = levels
    BY <1>2, <2>1
  <2>2. CASE role = "entry" /\ next.levels = Opened(levels, column)
    BY <1>2, <1>6, <2>2, OpenedNests DEF column
  <2>3. CASE role = "value" /\ key >= 0 /\ next.levels = Opened(levels, key)
    BY <1>2, <1>3, <1>6, <2>3, OpenedNests
  <2> QED BY <1>4, <2>1, <2>2, <2>3
<1>8. next.key \in C \cup {-1}
  BY <1>3, <1>5 DEF column
<1> QED BY <1>7, <1>8 DEF next

=============================================================================
