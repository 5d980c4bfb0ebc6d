----------------------------- MODULE LayoutProofs -----------------------------
(***************************************************************************)
(* Of the tokens layout() gives, for every call: INDENTs and DEDENTs are   *)
(* balanced, wherever in the tokens given before an INDENT is inserted,    *)
(* if form feeds stand at the start of their lines; a reader finds the     *)
(* blocks the pass kept; with no roles these are the lines that enclose    *)
(* the last, and with roles the collections that entries and values show.  *)
(***************************************************************************)
EXTENDS Layout, FiniteSetTheorems, FunctionTheorems, SequenceTheorems, WellFoundedInduction, TLAPS

-----------------------------------------------------------------------------
(* Counting the tokens of a kind *)

Of(kind, tokens) == { i \in DOMAIN tokens : tokens[i].kind = kind }

\* A sequence has finitely many tokens of a kind, and their number is a natural one.
LEMMA CountTyped ==
    ASSUME NEW S, NEW s \in Seq(S), NEW kind
    PROVE  IsFiniteSet(Of(kind, s)) /\ Count(kind, s) \in Nat /\ Count(kind, s) = Cardinality(Of(kind, s))
<1> DEFINE n == Len(s)
<1>1. Of(kind, s) \subseteq 1..n /\ 1 \in Int /\ n \in Int
  BY DEF Of
<1>2. IsFiniteSet(1..n)
  <2> HIDE DEF n
  <2> QED BY <1>1, FS_Interval
<1>3. IsFiniteSet(Of(kind, s))
  BY <1>1, <1>2, FS_Subset
<1> QED BY <1>3, FS_CardinalityType DEF Count, Of

\* A sequence followed by another has the tokens of both.
LEMMA CountJoin ==
    ASSUME NEW S, NEW s \in Seq(S), NEW t \in Seq(S), NEW kind
    PROVE  Count(kind, s \o t) = Count(kind, s) + Count(kind, t)
<1> DEFINE n == Len(s)
           m == Len(t)
           moved == { n + i : i \in Of(kind, t) }
           shift == [i \in Of(kind, t) |-> n + i]
<1>1. n \in Nat /\ m \in Nat /\ DOMAIN s = 1..n /\ DOMAIN t = 1..m
  OBVIOUS
<1>2. s \o t \in Seq(S) /\ DOMAIN (s \o t) = 1..(n + m)
      /\ (\A i \in 1..n : (s \o t)[i] = s[i]) /\ \A i \in 1..m : (s \o t)[n + i] = t[i]
  OBVIOUS
<1>3. Of(kind, t) \subseteq 1..m /\ Of(kind, s) \subseteq 1..n
  BY <1>1 DEF Of
<1> DEFINE j == s \o t
<1> HIDE DEF n, m, j
<1>4. Of(kind, j) = Of(kind, s) \cup moved
  <2>1. ASSUME NEW x \in Of(kind, j) PROVE x \in Of(kind, s) \cup moved
    <3>1. x \in 1..(n + m) /\ j[x].kind = kind
      BY <1>2 DEF Of, j
    <3>2. CASE x \in 1..n
      BY <1>1, <1>2, <3>1, <3>2 DEF Of, j
    <3>3. CASE x \notin 1..n
      <4>1. x - n \in 1..m /\ x = n + (x - n)
        BY <1>1, <3>1, <3>3
      <4>2. j[n + (x - n)] = t[x - n]
        BY <1>2, <4>1 DEF j
      <4>3. x - n \in Of(kind, t)
        BY <1>1, <3>1, <4>1, <4>2 DEF Of
      <4> QED BY <4>1, <4>3
    <3> QED BY <3>2, <3>3
  <2>2. ASSUME NEW x \in Of(kind, s) PROVE x \in Of(kind, j)
    <3>1. x \in 1..n /\ s[x].kind = kind
      BY <1>3 DEF Of
    <3>2. x \in 1..(n + m)
      BY <1>1, <3>1
    <3> QED BY <1>2, <3>1, <3>2 DEF Of, j
  <2>3. ASSUME NEW i \in Of(kind, t) PROVE n + i \in Of(kind, j)
    <3>1. i \in 1..m /\ t[i].kind = kind
      BY <1>3 DEF Of
    <3>2. n + i \in 1..(n + m)
      BY <1>1, <3>1
    <3> QED BY <1>2, <3>1, <3>2 DEF Of, j
  <2> QED BY <2>1, <2>2, <2>3
<1>5. Of(kind, s) \cap moved = {}
  BY <1>1, <1>3
<1>6. shift \in Bijection(Of(kind, t), moved)
  <2>1. shift \in Surjection(Of(kind, t), moved)
    BY DEF Surjection
  <2>2. \A a, b \in Of(kind, t) : shift[a] = shift[b] => a = b
    BY <1>1, <1>3
  <2> HIDE DEF shift
  <2>3. shift \in [Of(kind, t) -> moved]
    BY <2>1 DEF Surjection
  <2>4. shift \in Injection(Of(kind, t), moved)
    BY <2>2, <2>3 DEF Injection, IsInjective
  <2> QED BY <2>1, <2>4 DEF Bijection
<1>7. IsFiniteSet(Of(kind, s)) /\ IsFiniteSet(Of(kind, t))
      /\ Count(kind, s) = Cardinality(Of(kind, s)) /\ Count(kind, t) = Cardinality(Of(kind, t))
      /\ Count(kind, s) \in Nat /\ Count(kind, t) \in Nat
      /\ Count(kind, j) = Cardinality(Of(kind, j))
  BY <1>2, CountTyped DEF j
<1>8. IsFiniteSet(moved) /\ Cardinality(moved) = Cardinality(Of(kind, t))
  <2>1. ExistsBijection(Of(kind, t), moved)
    BY <1>6 DEF ExistsBijection
  <2> HIDE DEF moved
  <2> QED BY <1>7, <2>1, FS_Bijection
<1>9. Cardinality({}) = 0
  BY FS_EmptySet
<1> HIDE DEF moved, shift
<1>10. Cardinality(Of(kind, j))
         = Cardinality(Of(kind, s)) + Cardinality(moved) - Cardinality(Of(kind, s) \cap moved)
  BY <1>4, <1>7, <1>8, FS_Union
<1>11. Cardinality(Of(kind, s) \cap moved) = 0
  BY <1>5, <1>9
<1>12. Count(kind, j) = Count(kind, s) + Count(kind, t)
  BY <1>7, <1>8, <1>10, <1>11
<1> QED BY <1>12 DEF j

\* How many tokens of a kind are in a sequence of one.
LEMMA CountOne ==
    ASSUME NEW x, NEW kind
    PROVE  Count(kind, <<x>>) = IF x.kind = kind THEN 1 ELSE 0
<1> DEFINE s == <<x>>
<1>1. DOMAIN s = {1} /\ s[1] = x
  OBVIOUS
<1> HIDE DEF s
<1>2. Of(kind, s) = IF x.kind = kind THEN {1} ELSE {}
  BY <1>1 DEF Of
<1>3. Cardinality({1}) = 1 /\ Cardinality({}) = 0
  BY FS_EmptySet, FS_Singleton
<1> QED BY <1>2, <1>3 DEF Count, Of, s

-----------------------------------------------------------------------------
(* Tokens that nest *)

\* Every DEDENT closes an INDENT before it, and n INDENTs are not closed.
Nests(tokens, n) ==
    /\ \A i \in 0..Len(tokens) : Count("dedent", SubSeq(tokens, 1, i)) <= Count("indent", SubSeq(tokens, 1, i))
    /\ Count("indent", tokens) - Count("dedent", tokens) = n

\* The start of a sequence followed by another.
LEMMA PrefixOfJoin ==
    ASSUME NEW S, NEW s \in Seq(S), NEW t \in Seq(S), NEW i \in 0..Len(s \o t)
    PROVE  \/ i \in 0..Len(s) /\ SubSeq(s \o t, 1, i) = SubSeq(s, 1, i)
           \/ \E j \in 0..Len(t) : i = Len(s) + j /\ SubSeq(s \o t, 1, i) = s \o SubSeq(t, 1, j)
<1>1. Len(s) \in Nat /\ Len(t) \in Nat /\ Len(s \o t) = Len(s) + Len(t)
  OBVIOUS
<1>2. CASE i <= Len(s)
  <2>1. i \in 0..Len(s)
    BY <1>1, <1>2
  <2>2. SubSeq(s \o t, 1, i) = SubSeq(s, 1, i)
    BY <1>1, <2>1
  <2> QED BY <2>1, <2>2
<1>3. CASE i > Len(s)
  <2> DEFINE j == i - Len(s)
  <2>1. j \in 0..Len(t) /\ i = Len(s) + j
    BY <1>1, <1>3
  <2> HIDE DEF j
  <2>2. SubSeq(s \o t, 1, i) = s \o SubSeq(t, 1, j)
    BY <1>1, <2>1
  <2> QED BY <2>1, <2>2
<1>4. i <= Len(s) \/ i > Len(s)
  BY <1>1
<1> QED BY <1>2, <1>3, <1>4, Zenon

\* The first i members of a sequence.
LEMMA PrefixTyped ==
    ASSUME NEW S, NEW s \in Seq(S), NEW i \in 0..Len(s)
    PROVE  SubSeq(s, 1, i) \in Seq(S) /\ Len(SubSeq(s, 1, i)) = i /\ Len(s) \in Nat
OBVIOUS

\* Tokens that close no more than those before leave open.
LEMMA NestsJoin ==
    ASSUME NEW S, NEW s \in Seq(S), NEW t \in Seq(S), NEW n, Nests(s, n),
           \A j \in 0..Len(t) :
              Count("dedent", SubSeq(t, 1, j)) <= n + Count("indent", SubSeq(t, 1, j))
    PROVE  Nests(s \o t, n + Count("indent", t) - Count("dedent", t))
<1> DEFINE is == Count("indent", s)
           ds == Count("dedent", s)
           it == Count("indent", t)
           dt == Count("dedent", t)
<1>1. is \in Nat /\ ds \in Nat /\ it \in Nat /\ dt \in Nat /\ is - ds = n
  BY CountTyped DEF Nests
<1>2. Count("indent", s \o t) = is + it /\ Count("dedent", s \o t) = ds + dt
  BY CountJoin
<1> HIDE DEF is, ds, it, dt
<1>3. Count("indent", s \o t) - Count("dedent", s \o t) = n + it - dt
  BY <1>1, <1>2
<1>4. ASSUME NEW i \in 0..Len(s \o t)
      PROVE  Count("dedent", SubSeq(s \o t, 1, i)) <= Count("indent", SubSeq(s \o t, 1, i))
  <2>1. CASE i \in 0..Len(s) /\ SubSeq(s \o t, 1, i) = SubSeq(s, 1, i)
    BY <2>1 DEF Nests
  <2>2. ASSUME NEW j \in 0..Len(t), SubSeq(s \o t, 1, i) = s \o SubSeq(t, 1, j)
        PROVE  Count("dedent", SubSeq(s \o t, 1, i)) <= Count("indent", SubSeq(s \o t, 1, i))
    <3> DEFINE p == SubSeq(t, 1, j)
    <3>1. p \in Seq(S)
      BY PrefixTyped
    <3>2. Count("dedent", p) <= n + Count("indent", p)
      OBVIOUS
    <3> HIDE DEF p
    <3>3. Count("dedent", s \o p) = ds + Count("dedent", p) /\ Count("indent", s \o p) = is + Count("indent", p)
      BY <3>1, CountJoin DEF is, ds
    <3>4. Count("dedent", p) \in Nat /\ Count("indent", p) \in Nat
      BY <3>1, CountTyped
    <3>5. Count("dedent", s \o p) <= Count("indent", s \o p)
      BY <1>1, <3>2, <3>3, <3>4
    <3> QED BY <2>2, <3>5 DEF p
  <2> QED BY <2>1, <2>2, PrefixOfJoin
<1> QED BY <1>3, <1>4 DEF Nests, it, dt

\* A token that opens nothing, and an INDENT.
LEMMA NestsAppend ==
    ASSUME NEW S, NEW s \in Seq(S), NEW x \in S, NEW n \in Nat, Nests(s, n), x.kind # "dedent"
    PROVE  /\ x.kind # "indent" => Nests(Append(s, x), n)
           /\ x.kind = "indent" => Nests(Append(s, x), n + 1)
<1> DEFINE t == <<x>>
<1>1. t \in Seq(S) /\ Len(t) = 1 /\ Append(s, x) = s \o t
  OBVIOUS
<1>2. Count("dedent", t) = 0 /\ Count("indent", t) = IF x.kind = "indent" THEN 1 ELSE 0
  BY CountOne
<1> HIDE DEF t
<1>3. SubSeq(t, 1, 0) = <<>> /\ SubSeq(t, 1, 1) = t
  <2>1. SubSeq(t, 1, Len(t)) = t
    BY <1>1, SubSeqFull
  <2>2. 0 \in 0..Len(t)
    BY <1>1
  <2>3. SubSeq(t, 1, 0) \in Seq(S) /\ Len(SubSeq(t, 1, 0)) = 0
    BY <1>1, <2>2, PrefixTyped
  <2>4. SubSeq(t, 1, 0) = <<>>
    BY <2>3, EmptySeq
  <2> QED BY <1>1, <2>1, <2>4
<1>4. Count("dedent", <<>>) = 0 /\ Count("indent", <<>>) = 0
  <2>1. \A kind : { i \in DOMAIN <<>> : <<>>[i].kind = kind } = {}
    OBVIOUS
  <2>2. Cardinality({}) = 0
    BY FS_EmptySet
  <2> QED BY <2>1, <2>2 DEF Count
<1>5. ASSUME NEW j \in 0..Len(t)
      PROVE  Count("dedent", SubSeq(t, 1, j)) <= n + Count("indent", SubSeq(t, 1, j))
  <2>1. j = 0 \/ j = 1
    BY <1>1
  <2>2. CASE j = 0
    <3>1. Count("dedent", SubSeq(t, 1, j)) = 0 /\ Count("indent", SubSeq(t, 1, j)) = 0
      BY <1>3, <1>4, <2>2
    <3> QED BY <3>1
  <2>3. CASE j = 1
    <3>1. Count("dedent", SubSeq(t, 1, j)) = 0 /\ Count("indent", SubSeq(t, 1, j)) \in Nat
      <4>1. SubSeq(t, 1, j) = t
        BY <1>3, <2>3
      <4>2. Count("indent", t) \in Nat
        BY <1>1, CountTyped
      <4> QED BY <1>2, <4>1, <4>2
    <3> QED BY <3>1
  <2> QED BY <2>1, <2>2, <2>3
<1>6. Nests(s \o t, n + Count("indent", t) - Count("dedent", t))
  BY <1>1, <1>5, NestsJoin
<1>7. CASE x.kind = "indent"
  <2>1. n + Count("indent", t) - Count("dedent", t) = n + 1
    BY <1>2, <1>7
  <2> QED BY <1>1, <1>6, <1>7, <2>1
<1>8. CASE x.kind # "indent"
  <2>1. n + Count("indent", t) - Count("dedent", t) = n
    BY <1>2, <1>8
  <2> QED BY <1>1, <1>6, <1>8, <2>1
<1> QED BY <1>7, <1>8

\* The DEDENTs of blocks that are open.
LEMMA NestsDedents ==
    ASSUME NEW S, NEW s \in Seq(S), NEW n \in Nat, Nests(s, n), NEW m \in 0..n, NEW x \in S, x.kind = "dedent",
           NEW t, t = [i \in 1..m |-> x]
    PROVE  s \o t \in Seq(S) /\ Nests(s \o t, n - m)
<1>1. t \in Seq(S) /\ Len(t) = m /\ m \in Nat
  OBVIOUS
<1>2. ASSUME NEW j \in 0..m
      PROVE  Count("dedent", SubSeq(t, 1, j)) = j /\ Count("indent", SubSeq(t, 1, j)) = 0
  <2> DEFINE p == SubSeq(t, 1, j)
  <2>1. j \in Nat /\ DOMAIN p = 1..j /\ \A i \in 1..j : p[i] = x
    BY <1>1
  <2> HIDE DEF p
  <2>2. { i \in DOMAIN p : p[i].kind = "dedent" } = 1..j /\ { i \in DOMAIN p : p[i].kind = "indent" } = {}
    BY <2>1
  <2>3. Cardinality(1..j) = j
    <3>1. 1 \in Int /\ j \in Int /\ (IF 1 > j THEN 0 ELSE j - 1 + 1) = j
      BY <2>1
    <3> QED BY <3>1, FS_Interval
  <2>4. Cardinality({}) = 0
    BY FS_EmptySet
  <2> QED BY <2>2, <2>3, <2>4 DEF Count, p
<1>3. SubSeq(t, 1, m) = t
  BY <1>1, SubSeqFull
<1>4. Count("dedent", t) = m /\ Count("indent", t) = 0
  <2>1. m \in 0..m
    OBVIOUS
  <2>2. Count("dedent", SubSeq(t, 1, m)) = m /\ Count("indent", SubSeq(t, 1, m)) = 0
    BY <1>2, <2>1
  <2> QED BY <1>3, <2>2
<1>5. ASSUME NEW j \in 0..Len(t)
      PROVE  Count("dedent", SubSeq(t, 1, j)) <= n + Count("indent", SubSeq(t, 1, j))
  <2>1. j \in 0..m /\ j <= n
    BY <1>1
  <2>2. Count("dedent", SubSeq(t, 1, j)) = j /\ Count("indent", SubSeq(t, 1, j)) = 0
    BY <1>2, <2>1
  <2> QED BY <2>1, <2>2
<1>6. Nests(s \o t, n + Count("indent", t) - Count("dedent", t))
  BY <1>1, <1>5, NestsJoin
<1>7. n + Count("indent", t) - Count("dedent", t) = n - m
  BY <1>4
<1> QED BY <1>1, <1>6, <1>7

\* An INDENT given late, before a token given already.
LEMMA NestsInsert ==
    ASSUME NEW S, NEW s \in Seq(S), NEW n \in Nat, Nests(s, n), NEW node \in 1..Len(s),
           NEW x \in S, x.kind = "indent"
    PROVE  InsertAt(s, node, x) \in Seq(S) /\ Nests(InsertAt(s, node, x), n + 1)
<1> DEFINE l == Len(s)
           p == SubSeq(s, 1, node - 1)
           q == SubSeq(s, node, l)
           k == Count("indent", p) - Count("dedent", p)
<1>1. node \in Nat /\ l \in Nat /\ node - 1 \in 0..l /\ node \in 1..l
  OBVIOUS
<1>2. p \in Seq(S) /\ q \in Seq(S) /\ Len(p) = node - 1 /\ Len(q) = l - node + 1 /\ p \o q = s
  OBVIOUS
<1> HIDE DEF p, q
<1>3. Count("indent", s) = Count("indent", p) + Count("indent", q)
      /\ Count("dedent", s) = Count("dedent", p) + Count("dedent", q)
  BY <1>2, CountJoin
<1>4. /\ Count("indent", p) \in Nat /\ Count("dedent", p) \in Nat
      /\ Count("indent", q) \in Nat /\ Count("dedent", q) \in Nat
  BY <1>2, CountTyped
<1>5. Nests(p, k) /\ k \in Nat
  <2>1. ASSUME NEW i \in 0..Len(p)
        PROVE  i \in 0..l /\ SubSeq(p, 1, i) = SubSeq(s, 1, i)
    BY <1>1, <1>2 DEF p
  <2>2. \A i \in 0..Len(p) : Count("dedent", SubSeq(p, 1, i)) <= Count("indent", SubSeq(p, 1, i))
    BY <2>1 DEF Nests
  <2>3. Len(p) \in 0..Len(p) /\ SubSeq(p, 1, Len(p)) = p
    BY <1>2, SubSeqFull
  <2>4. Count("dedent", p) <= Count("indent", p)
    BY <2>2, <2>3
  <2> QED BY <1>4, <2>2, <2>4 DEF Nests
<1>6. n = k + Count("indent", q) - Count("dedent", q)
  BY <1>3, <1>4 DEF Nests
<1>7. ASSUME NEW j \in 0..Len(q)
      PROVE  Count("dedent", SubSeq(q, 1, j)) <= k + 1 + Count("indent", SubSeq(q, 1, j))
  <2> DEFINE r == SubSeq(q, 1, j)
  <2>1. r \in Seq(S)
    BY <1>2, PrefixTyped
  <2>2. Len(p) + j \in 0..l /\ SubSeq(s, 1, Len(p) + j) = p \o r
    BY <1>1, <1>2 DEF p, q
  <2>3. Count("dedent", p \o r) <= Count("indent", p \o r)
    BY <2>2 DEF Nests
  <2> HIDE DEF r
  <2>4. Count("dedent", p \o r) = Count("dedent", p) + Count("dedent", r)
        /\ Count("indent", p \o r) = Count("indent", p) + Count("indent", r)
    BY <1>2, <2>1, CountJoin
  <2>5. Count("dedent", r) \in Nat /\ Count("indent", r) \in Nat
    BY <2>1, CountTyped
  <2>6. Count("dedent", p) + Count("dedent", r) <= Count("indent", p) + Count("indent", r)
    BY <2>3, <2>4
  <2> DEFINE dr == Count("dedent", r)
             ir == Count("indent", r)
             dp == Count("dedent", p)
             ip == Count("indent", p)
  <2>7. dr \in Nat /\ ir \in Nat /\ dp \in Nat /\ ip \in Nat /\ dp + dr <= ip + ir /\ k = ip - dp
    BY <1>4, <2>5, <2>6
  <2> HIDE DEF dr, ir, dp, ip, k
  <2>8. dr <= k + 1 + ir
    BY <2>7
  <2> QED BY <2>8 DEF r, dr, ir
<1> HIDE DEF k
<1>8. Append(p, x) \in Seq(S) /\ Nests(Append(p, x), k + 1)
  BY <1>2, <1>5, NestsAppend
<1>9. Nests(Append(p, x) \o q, k + 1 + Count("indent", q) - Count("dedent", q))
  BY <1>2, <1>7, <1>8, NestsJoin
<1>10. InsertAt(s, node, x) = Append(p, x) \o q
  BY <1>2 DEF InsertAt, p, q
<1>11. k + 1 + Count("indent", q) - Count("dedent", q) = n + 1
  BY <1>4, <1>5, <1>6
<1> QED BY <1>2, <1>8, <1>9, <1>10, <1>11

-----------------------------------------------------------------------------
(* The invariant *)

\* No token stands right after a form feed but the first of a line, whose measure the form feed starts
\* again. (A node past an entry would be measured at the margin, and no DEDENT would close its block.)
FormFeedsLead ==
    \A c \in Calls : \A i, j \in DOMAIN c.tokens :
        /\ c.tabs = "python"
        /\ i < j /\ c.tokens[j].start.line = LastLine(c.tokens[i])
        /\ c.tokens[j].start.offset <= Len(c.source)
        => /\ c.tokens[j].start.offset > 0
           /\ c.source[c.tokens[j].start.offset] \notin {"nl", "ff"}

Measure == [tab8 : Nat, tab1 : Nat]

Positions == [offset : Nat, line : Nat, column : Nat \ {0}]

\* The provers do not know that a string written out is one.
Words == STRING \cup Synthetic \cup {EndOfInput, "default"}

Given == [kind : Words, lexeme : Seq(STRING), mode : Words, start : Positions]

\* The bottom block is at the margin, and no other is.
Blocks(list) ==
    /\ list \in Seq(Measure) /\ Len(list) >= 1
    /\ list[1].tab8 = 0
    /\ \A i \in 2..Len(list) : list[i].tab8 > 0

TypeOK ==
    /\ call \in Calls /\ next \in Nat \ {0}
    /\ at \in 0..Len(call.source) /\ width \in Measure
    /\ out \in Seq(Given)
    /\ started \in BOOLEAN
    /\ pending \in 0..Len(out) /\ pendingAt \in Measure
    /\ endPosition \in Positions

\* What is measured past a character that widens a line is not at the margin, and neither is the node
\* that waits; the last line reached is that of a token taken.
Inductive ==
    /\ TypeOK
    /\ Blocks(levels)
    /\ Nests(out, Len(levels) - 1)
    /\ pending # 0 => pendingAt.tab8 > 0
    /\ started => \E i \in DOMAIN call.tokens : i < next /\ previousLine = LastLine(call.tokens[i])
    /\ at > 0 /\ call.source[at] \notin {"nl", "ff"} => width.tab8 > 0
    /\ outcome = "given" => Len(levels) = 1

-----------------------------------------------------------------------------
(* The token at hand *)

\* What the call was given.
LEMMA CallTyped ==
    ASSUME TypeOK
    PROVE  /\ call.tokens \in Seq(Given) /\ call.source \in Seq(STRING) /\ call.tabs \in {"columns", "python"}
           /\ \A i \in DOMAIN call.tokens : call.tokens[i] \in Given /\ call.tokens[i].kind \notin Synthetic
           /\ Len(call.tokens) \in Nat /\ DOMAIN call.tokens = 1..Len(call.tokens)
           /\ next \in Nat /\ next > 0
<1>1. call \in Calls /\ next \in Nat \ {0}
  BY DEF TypeOK
<1> DEFINE Token == [kind : STRING, lexeme : Seq(STRING), mode : STRING, start : Positions]
<1>2. call.tokens \in Seq(Token) /\ call.source \in Seq(STRING) /\ call.tabs \in {"columns", "python"}
      /\ \A i \in DOMAIN call.tokens : call.tokens[i].kind \notin Synthetic
  BY <1>1, LayoutAssumption DEF Positions
<1>3. Token \subseteq Given
  BY DEF Given, Words
<1> HIDE DEF Token
<1>4. call.tokens \in Seq(Given)
  BY <1>2, <1>3
<1> QED BY <1>1, <1>2, <1>4

\* The token at hand is one of the input.
LEMMA CurrentTyped ==
    ASSUME TypeOK, next <= Len(call.tokens)
    PROVE  next \in DOMAIN call.tokens /\ Current \in Given /\ Current.kind \notin Synthetic
           /\ Current.start \in Positions /\ Current = call.tokens[next]
<1>1. next \in DOMAIN call.tokens
  BY CallTyped
<1>2. Current = call.tokens[next] /\ Current \in Given /\ Current.kind \notin Synthetic
  BY <1>1, CallTyped DEF Current
<1> QED BY <1>1, <1>2 DEF Given

\* Its column is a measure.
LEMMA HereTyped ==
    ASSUME TypeOK, next <= Len(call.tokens)
    PROVE  Here \in Measure
<1>1. Current.start.column \in Nat \ {0} /\ width \in Measure
  BY CurrentTyped DEF Positions, TypeOK
<1> QED BY <1>1 DEF Here, Measure

\* A node past an entry is not at the margin.
LEMMA PastInside ==
    ASSUME FormFeedsLead, Inductive, next <= Len(call.tokens), Past, Measures => at = Current.start.offset
    PROVE  Here.tab8 > 0
<1>1. Past => started /\ Current.start.line = previousLine
  BY DEF Past, LineStart
<1>2. PICK i \in DOMAIN call.tokens : i < next /\ Current.start.line = LastLine(call.tokens[i])
  BY <1>1 DEF Inductive
<1>3. next \in DOMAIN call.tokens /\ Current = call.tokens[next] /\ call \in Calls
  BY CurrentTyped DEF Inductive, TypeOK
<1>4. CASE PythonTabs
  <2>1. at = Current.start.offset /\ call.tabs = "python" /\ at \in 0..Len(call.source)
    BY <1>4 DEF Measures, PythonTabs, Inductive, TypeOK
  <2>2. at <= Len(call.source)
    BY <2>1, CallTyped DEF Inductive
  <2>3. at > 0 /\ call.source[at] \notin {"nl", "ff"}
    BY <1>2, <1>3, <2>1, <2>2 DEF FormFeedsLead
  <2> QED BY <1>4, <2>3 DEF Inductive, Here
<1>5. CASE ~PythonTabs
  <2>1. Current.start.column > 1 /\ Current.start.column \in Nat
    BY <1>2, <1>3, LinesAssumption, CurrentTyped DEF Positions, Inductive
  <2> QED BY <1>5, <2>1 DEF Here
<1> QED BY <1>4, <1>5

\* A token the pass adds.
LEMMA MarkTyped ==
    ASSUME NEW kind \in Synthetic \cup {EndOfInput}, NEW start \in Positions
    PROVE  Mark(kind, start) \in Given /\ Mark(kind, start).kind = kind /\ Mark(kind, start).start = start
<1>1. <<>> \in Seq(STRING)
  OBVIOUS
<1>2. "default" \in Words /\ kind \in Words
  BY DEF Words
<1> DEFINE empty == <<>>
<1>3. Mark(kind, start) = [kind |-> kind, lexeme |-> empty, mode |-> "default", start |-> start]
  BY DEF Mark
<1>4. empty \in Seq(STRING)
  BY <1>1
<1> HIDE DEF empty
<1> QED BY <1>2, <1>3, <1>4 DEF Given

-----------------------------------------------------------------------------
(* The blocks *)

\* A set of depths that is not empty has a greatest one, which is what Max chooses.
LEMMA MaxOfDepths ==
    ASSUME NEW D, NEW n \in Nat, \A d \in D : d \in 0..n, D # {}
    PROVE  Max(D) \in D /\ \A d \in D : Max(D) >= d
<1> DEFINE T == { n - d : d \in D }
<1>1. T \in SUBSET Nat /\ T # {}
  OBVIOUS
<1>2. PICK t \in T : \A u \in T : <<u, t>> \notin OpToRel(<, Nat)
  <2> HIDE DEF T
  <2> QED BY <1>1, NatLessThanWellFounded, WFMin
<1>3. PICK x \in D : t = n - x
  OBVIOUS
<1>4. \A d \in D : x >= d
  <2> TAKE d \in D
  <2>1. n - d \in T
    OBVIOUS
  <2>2. n - d \in Nat /\ n - x \in Nat /\ d \in 0..n /\ x \in 0..n
    BY <1>1
  <2> HIDE DEF T
  <2>3. ~(n - d < n - x)
    BY <1>2, <1>3, <2>1, <2>2 DEF OpToRel
  <2> QED BY <2>2, <2>3
<1> QED BY <1>4 DEF Max

\* The blocks a width leaves open are blocks, the one at the margin among them.
LEMMA KeptBlocks ==
    ASSUME Blocks(levels), NEW w \in Nat
    PROVE  /\ Blocks(Kept(w)) /\ Len(Kept(w)) \in 1..Len(levels)
           /\ w = 0 => Len(Kept(w)) = 1
<1> DEFINE D == {0} \cup { d \in DOMAIN levels : levels[d].tab8 <= w }
           n == Len(levels)
           k == Depth(w)
<1>1. levels \in Seq(Measure) /\ n \in Nat /\ n >= 1 /\ DOMAIN levels = 1..n /\ levels[1].tab8 = 0
  BY DEF Blocks
<1>2. 1 \in D /\ \A d \in D : d \in 0..n
  BY <1>1
<1>3. Max(D) \in D /\ \A d \in D : Max(D) >= d
  <2> HIDE DEF D, n
  <2> QED BY <1>1, <1>2, MaxOfDepths
<1>4. k = Max(D)
  BY DEF Depth
<1>5. k \in 1..n /\ levels[k].tab8 <= w
  <2>1. k \in D /\ k >= 1 /\ k \in 0..n
    BY <1>2, <1>3, <1>4
  <2> HIDE DEF k
  <2> QED BY <1>1, <2>1
<1> HIDE DEF D, k
<1>6. /\ Kept(w) \in Seq(Measure) /\ Len(Kept(w)) = k
      /\ \A i \in 1..k : Kept(w)[i] = levels[i]
  <2>1. Kept(w) = SubSeq(levels, 1, k)
    BY DEF Kept, k
  <2> QED BY <1>1, <1>5, <2>1
<1>7. Blocks(Kept(w))
  <2>1. \A i \in 2..k : i \in 2..n /\ i \in 1..k
    BY <1>1, <1>5
  <2>2. 1 \in 1..k
    BY <1>5
  <2> QED BY <1>1, <1>5, <1>6, <2>1, <2>2 DEF Blocks
<1>8. w = 0 => k = 1
  <2> SUFFICES ASSUME w = 0, k # 1 PROVE FALSE
    OBVIOUS
  <2>1. k \in 2..n
    BY <1>5
  <2>2. levels[k].tab8 > 0
    BY <2>1 DEF Blocks
  <2>3. levels[k] \in Measure
    <3> HIDE DEF n
    <3> QED BY <1>1, <1>5
  <2>4. levels[k].tab8 \in Nat
    BY <2>3 DEF Measure
  <2> QED BY <1>5, <2>2, <2>4
<1> QED BY <1>5, <1>6, <1>7, <1>8

\* A block more, inside the margin.
LEMMA BlockOpened ==
    ASSUME NEW list, Blocks(list), NEW here \in Measure, here.tab8 > 0
    PROVE  Blocks(Append(list, here)) /\ Len(Append(list, here)) = Len(list) + 1
<1> DEFINE n == Len(list)
<1>1. list \in Seq(Measure) /\ n \in Nat /\ n >= 1
  BY DEF Blocks
<1>2. Append(list, here) \in Seq(Measure) /\ Len(Append(list, here)) = n + 1
      /\ Append(list, here)[n + 1] = here /\ \A i \in 1..n : Append(list, here)[i] = list[i]
  BY <1>1
<1>3. \A i \in 2..(n + 1) : i = n + 1 \/ i \in 2..n
  BY <1>1
<1>4. 1 \in 1..n /\ \A i \in 2..n : i \in 1..n
  BY <1>1
<1> QED BY <1>1, <1>2, <1>3, <1>4 DEF Blocks

-----------------------------------------------------------------------------
(* A token that shapes layout *)

\* What a line's beginning gives before its token: the tokens given and the blocks kept agree.
Agree(given, kept) ==
    /\ given \in Seq(Given) /\ Blocks(kept)
    /\ Nests(given, Len(kept) - 1)

\* A token that is no INDENT or DEDENT, put last, changes no nesting.
LEMMA AgreeAppend ==
    ASSUME NEW given, NEW kept, Agree(given, kept), NEW x \in Given, x.kind \notin {"indent", "dedent"}
    PROVE  Agree(Append(given, x), kept) /\ Len(Append(given, x)) = Len(given) + 1 /\ Len(given) \in Nat
<1> DEFINE n == Len(kept) - 1
<1>1. given \in Seq(Given) /\ n \in Nat /\ Nests(given, n)
  BY DEF Agree, Blocks
<1> HIDE DEF n
<1>2. Nests(Append(given, x), n)
  BY <1>1, NestsAppend
<1>3. Append(given, x) \in Seq(Given) /\ Len(Append(given, x)) = Len(given) + 1 /\ Len(given) \in Nat
  <2> HIDE DEF Given
  <2> QED BY <1>1
<1> QED BY <1>2, <1>3 DEF Agree, n

\* An INDENT put last opens a level.
LEMMA AgreeIndent ==
    ASSUME NEW given, NEW kept, Agree(given, kept), NEW x \in Given, x.kind = "indent",
           NEW here \in Measure, here.tab8 > 0
    PROVE  Agree(Append(given, x), Append(kept, here)) /\ Len(Append(given, x)) = Len(given) + 1
<1> DEFINE n == Len(kept) - 1
<1>1. given \in Seq(Given) /\ n \in Nat /\ Nests(given, n) /\ Len(kept) \in Nat
  BY DEF Agree, Blocks
<1> HIDE DEF n
<1>2. Nests(Append(given, x), n + 1)
  BY <1>1, NestsAppend
<1>3. Blocks(Append(kept, here)) /\ Len(Append(kept, here)) = Len(kept) + 1
  BY BlockOpened DEF Agree
<1>4. Append(given, x) \in Seq(Given) /\ Len(Append(given, x)) = Len(given) + 1
  BY <1>1
<1>5. Len(Append(kept, here)) - 1 = n + 1
  BY <1>1, <1>3 DEF n
<1> QED BY <1>2, <1>3, <1>4, <1>5 DEF Agree

\* And so does one put before a node given earlier.
LEMMA AgreeInsert ==
    ASSUME NEW given, NEW kept, Agree(given, kept), NEW node \in 1..Len(given),
           NEW here \in Measure, here.tab8 > 0
    PROVE  Agree(Indented(given, node), Append(kept, here))
<1> DEFINE n == Len(kept) - 1
           x == Mark("indent", given[node].start)
<1>1. given \in Seq(Given) /\ n \in Nat /\ Nests(given, n) /\ Len(kept) \in Nat
  BY DEF Agree, Blocks
<1>2. x \in Given /\ x.kind = "indent"
  <2>1. given[node] \in Given
    BY <1>1
  <2>2. given[node].start \in Positions
    BY <2>1 DEF Given
  <2>3. "indent" \in Synthetic
    BY DEF Synthetic
  <2> QED BY <2>2, <2>3, MarkTyped
<1>3. Indented(given, node) = InsertAt(given, node, x)
  BY DEF Indented
<1> HIDE DEF n, x
<1>4. InsertAt(given, node, x) \in Seq(Given) /\ Nests(InsertAt(given, node, x), n + 1)
  BY <1>1, <1>2, NestsInsert
<1>5. Blocks(Append(kept, here)) /\ Len(Append(kept, here)) = Len(kept) + 1
  BY BlockOpened DEF Agree
<1>6. Len(Append(kept, here)) - 1 = n + 1
  BY <1>1, <1>5 DEF n
<1> QED BY <1>3, <1>4, <1>5, <1>6 DEF Agree

\* What was given and the open blocks agree, and so do they with the NEWLINE that ends a line.
LEMMA EndedAgrees ==
    ASSUME Inductive, NEW start \in Positions
    PROVE  /\ Agree(out, levels)
           /\ Agree(IF started THEN Append(out, Mark("newline", start)) ELSE out, levels)
<1>1. Agree(out, levels)
  BY DEF Agree, Inductive, TypeOK
<1>2. Mark("newline", start) \in Given /\ Mark("newline", start).kind = "newline"
  <2>1. "newline" \in Synthetic
    BY DEF Synthetic
  <2> QED BY <2>1, MarkTyped
<1>3. Agree(Append(out, Mark("newline", start)), levels)
  BY <1>1, <1>2, AgreeAppend
<1> QED BY <1>1, <1>3

\* The DEDENTs of the blocks that a width does not leave open.
LEMMA DedentsAgree ==
    ASSUME NEW given, Agree(given, levels), NEW start \in Positions, NEW w \in Nat
    PROVE  Agree(given \o Dedents(start, Kept(w)), Kept(w)) /\ Len(given) <= Len(given \o Dedents(start, Kept(w)))
<1> DEFINE n == Len(levels) - 1
           m == Len(levels) - Len(Kept(w))
           x == Mark("dedent", start)
           t == [i \in 1..m |-> x]
<1>1. Blocks(levels) /\ given \in Seq(Given) /\ Nests(given, n) /\ Len(levels) \in Nat
  BY DEF Agree, Blocks
<1>2. Blocks(Kept(w)) /\ Len(Kept(w)) \in 1..Len(levels)
  BY <1>1, KeptBlocks
<1>3. n \in Nat /\ m \in 0..n /\ n - m = Len(Kept(w)) - 1
  BY <1>1, <1>2
<1>4. x \in Given /\ x.kind = "dedent"
  <2>1. "dedent" \in Synthetic
    BY DEF Synthetic
  <2> QED BY <2>1, MarkTyped
<1>5. Dedents(start, Kept(w)) = t
  BY DEF Dedents
<1> HIDE DEF n, m, x
<1>6. given \o t \in Seq(Given) /\ Nests(given \o t, n - m)
  <2> DEFINE u == t
  <2>1. u = [i \in 1..m |-> x]
    OBVIOUS
  <2> HIDE DEF u
  <2>2. given \o u \in Seq(Given) /\ Nests(given \o u, n - m)
    BY <1>1, <1>3, <1>4, <2>1, NestsDedents
  <2> QED BY <2>2 DEF u
<1>7. Len(given) <= Len(given \o t)
  <2>1. t \in Seq(Given)
    BY <1>3, <1>4
  <2> HIDE DEF t
  <2> QED BY <1>1, <2>1
<1> QED BY <1>2, <1>3, <1>5, <1>6, <1>7 DEF Agree

\* A token that shapes layout keeps the invariant, whatever of the four it does.
LEMMA PlaceKeeps ==
    ASSUME Inductive, next <= Len(call.tokens), outcome = "running",
           NEW given, NEW kept, NEW deeper \in BOOLEAN, Agree(given, kept),
           ~LineStart => given = out,
           Past \/ deeper => Here.tab8 > 0,
           Place(given, kept, deeper)
    PROVE  Inductive'
<1>1. /\ next' = next + 1 /\ call' = call /\ at' = at /\ width' = width /\ endPosition' = endPosition
      /\ outcome' = "running" /\ previousLine' = LastLine(Current) /\ started' = TRUE
  BY DEF Place, Takes, Reaches
<1>2. next \in DOMAIN call.tokens /\ Current \in Given /\ Current.kind \notin {"indent", "dedent"}
      /\ Current.start \in Positions /\ Current = call.tokens[next]
  BY CurrentTyped DEF Synthetic, Inductive
<1>3. Here \in Measure /\ pendingAt \in Measure /\ pending \in 0..Len(out) /\ out \in Seq(Given)
  BY HereTyped DEF Inductive, TypeOK
<1> DEFINE Kept1(o, l) == Agree(o, l) /\ pending' \in 0..Len(o) /\ pendingAt' \in Measure
                          /\ (pending' # 0 => pendingAt'.tab8 > 0)
<1>4. Kept1(out', levels')
  <2>1. CASE NodeWaits(given, kept, deeper)
    <3>1. Agree(Append(given, Current), kept) /\ Len(Append(given, Current)) = Len(given) + 1
          /\ Len(given) \in Nat
      BY <1>2, AgreeAppend
    <3>2. out' = Append(given, Current) /\ levels' = kept /\ pending' = Len(given) + 1 /\ pendingAt' = Here
          /\ Here.tab8 > 0
      BY <2>1 DEF NodeWaits
    <3>3. pending' \in 0..Len(out')
      BY <3>1, <3>2
    <3> QED BY <1>3, <3>1, <3>2, <3>3
  <2>2. CASE EntryOpens(given, kept, deeper)
    <3> DEFINE x == Mark("indent", Current.start)
               opened == Append(given, x)
    <3>1. x \in Given /\ x.kind = "indent"
      <4>1. "indent" \in Synthetic
        BY DEF Synthetic
      <4> QED BY <1>2, <4>1, MarkTyped
    <3>2. out' = given \o <<x, Current>> /\ levels' = Append(kept, Here) /\ pending' = 0 /\ pendingAt' = Here
          /\ Here.tab8 > 0
      BY <2>2 DEF EntryOpens
    <3> HIDE DEF x
    <3>3. given \in Seq(Given)
      BY DEF Agree
    <3>4. given \o <<x, Current>> = Append(opened, Current)
      BY <1>2, <3>1, <3>3
    <3>5. Agree(opened, Append(kept, Here))
      BY <1>3, <3>1, <3>2, AgreeIndent
    <3> HIDE DEF opened
    <3>6. Agree(Append(opened, Current), Append(kept, Here)) /\ Len(Append(opened, Current)) = Len(opened) + 1
          /\ Len(opened) \in Nat
      BY <1>2, <3>5, AgreeAppend
    <3>7. Agree(out', levels')
      BY <3>2, <3>4, <3>6
    <3>8. pending' \in 0..Len(out')
      BY <3>2, <3>4, <3>6
    <3> QED BY <1>3, <3>2, <3>7, <3>8
  <2>3. CASE ValueOpens(given, kept, deeper)
    <3> DEFINE opened == Indented(given, pending)
    <3>1. out' = Append(opened, Current) /\ levels' = Append(kept, pendingAt) /\ pending' = 0
          /\ pendingAt' = pendingAt /\ pending # 0 /\ given = out
      BY <2>3 DEF ValueOpens, ValueShows
    <3>2. pending \in 1..Len(given) /\ pendingAt.tab8 > 0
      BY <1>3, <3>1 DEF Inductive
    <3>3. Agree(opened, Append(kept, pendingAt))
      BY <1>3, <3>2, AgreeInsert
    <3> HIDE DEF opened
    <3>4. Agree(Append(opened, Current), Append(kept, pendingAt))
          /\ Len(Append(opened, Current)) = Len(opened) + 1 /\ Len(opened) \in Nat
      BY <1>2, <3>3, AgreeAppend
    <3>5. Agree(out', levels')
      BY <3>1, <3>4
    <3>6. pending' \in 0..Len(out')
      BY <3>1, <3>4
    <3> QED BY <1>3, <3>1, <3>2, <3>5, <3>6
  <2>4. CASE OpensNothing(given, kept, deeper)
    <3>1. Agree(Append(given, Current), kept) /\ Len(Append(given, Current)) = Len(given) + 1
          /\ Len(given) \in Nat
      BY <1>2, AgreeAppend
    <3>2. out' = Append(given, Current) /\ levels' = kept /\ pendingAt' = pendingAt
          /\ pending' = IF LineStart THEN 0 ELSE pending
      BY <2>4 DEF OpensNothing, PendingAfter
    <3>3. pending' \in 0..Len(out')
      <4>1. CASE LineStart
        BY <3>1, <3>2, <4>1
      <4>2. CASE ~LineStart
        BY <1>3, <3>1, <3>2, <4>2
      <4> QED BY <4>1, <4>2
    <3>4. pending' # 0 => pendingAt'.tab8 > 0
      BY <3>2 DEF Inductive
    <3> QED BY <1>3, <3>1, <3>2, <3>3, <3>4
  <2> QED BY <2>1, <2>2, <2>3, <2>4 DEF Place
<1>5. \E i \in DOMAIN call'.tokens : i < next' /\ previousLine' = LastLine(call'.tokens[i])
  <2>1. next < next'
    BY <1>1, CallTyped DEF Inductive
  <2> QED BY <1>1, <1>2, <2>1
<1>6. TypeOK'
  <2>1. next' \in Nat \ {0} /\ call' \in Calls /\ at' \in 0..Len(call'.source) /\ width' \in Measure
        /\ started' \in BOOLEAN /\ endPosition' \in Positions
    BY <1>1, CallTyped DEF Inductive, TypeOK
  <2>2. out' \in Seq(Given) /\ pending' \in 0..Len(out') /\ pendingAt' \in Measure
    BY <1>4 DEF Agree
  <2> QED BY <2>1, <2>2 DEF TypeOK
<1>7. Blocks(levels)' /\ Nests(out, Len(levels) - 1)'
  BY <1>4 DEF Agree
<1>8. (at > 0 /\ call.source[at] \notin {"nl", "ff"} => width.tab8 > 0)'
  BY <1>1 DEF Inductive
<1> QED BY <1>1, <1>4, <1>5, <1>6, <1>7, <1>8 DEF Inductive

-----------------------------------------------------------------------------
(* The actions *)

\* A call begins with the one level that is never closed.
LEMMA InitInductive ==
    ASSUME Init PROVE Inductive
<1>1. /\ call \in Calls /\ next = 1 /\ at = 0 /\ width = Zero /\ out = <<>> /\ levels = <<Zero>>
      /\ started = FALSE /\ pending = 0 /\ pendingAt = Zero /\ outcome = "running"
      /\ endPosition = [offset |-> 0, line |-> 1, column |-> 1]
  BY DEF Init
<1>2. Zero \in Measure /\ Zero.tab8 = 0 /\ endPosition \in Positions
  BY <1>1 DEF Zero, Measure, Positions
<1>3. call.source \in Seq(STRING) /\ Len(call.source) \in Nat
  BY <1>1, LayoutAssumption
<1>4. out \in Seq(Given) /\ Len(out) = 0
  BY <1>1
<1>5. TypeOK
  <2>1. at \in 0..Len(call.source) /\ pending \in 0..Len(out)
    BY <1>1, <1>3, <1>4
  <2>2. started \in BOOLEAN
    BY <1>1, Zenon
  <2>3. next \in Nat \ {0}
    BY <1>1, SMT
  <2> QED BY <1>1, <1>2, <1>4, <2>1, <2>2, <2>3, Zenon DEF TypeOK
<1>6. Blocks(levels) /\ Len(levels) = 1
  <2>1. levels \in Seq(Measure) /\ Len(levels) = 1 /\ levels[1] = Zero
    BY <1>1, <1>2
  <2> QED BY <1>2, <2>1 DEF Blocks
<1>7. Nests(out, Len(levels) - 1)
  <2>1. \A kind : { i \in DOMAIN <<>> : <<>>[i].kind = kind } = {}
    OBVIOUS
  <2>2. Count("indent", <<>>) = 0 /\ Count("dedent", <<>>) = 0
    BY <2>1, FS_EmptySet DEF Count
  <2>3. ASSUME NEW i \in 0..Len(out) PROVE SubSeq(out, 1, i) = <<>>
    <3>1. SubSeq(out, 1, i) \in Seq(Given) /\ Len(SubSeq(out, 1, i)) = i /\ i = 0
      BY <1>4, PrefixTyped
    <3> QED BY <3>1, EmptySeq
  <2>4. Count("indent", out) = 0 /\ Count("dedent", out) = 0
    BY <1>1, <2>2, Zenon
  <2>5. \A i \in 0..Len(out) :
            Count("dedent", SubSeq(out, 1, i)) = 0 /\ Count("indent", SubSeq(out, 1, i)) = 0
    BY <2>2, <2>3, Zenon
  <2> QED BY <1>6, <2>4, <2>5 DEF Nests
<1> QED BY <1>1, <1>5, <1>6, <1>7 DEF Inductive

\* The meter: past a character that widens the line, what it measures is not at the margin.
LEMMA ReadKeeps ==
    ASSUME Inductive, Read PROVE Inductive'
<1>1. /\ next <= Len(call.tokens) /\ Current.start.offset # at /\ Current.start.offset <= Len(call.source)
      /\ width' = IF From = at THEN Widened(width, call.source[at + 1]) ELSE Zero
      /\ at' = IF From = at THEN at + 1 ELSE From
      /\ UNCHANGED <<call, next, out, levels, started, opens, pending, pendingAt, previousLine, endPosition, outcome>>
  BY DEF Read, Taking
<1>2. Current.start.offset \in Nat /\ at \in Nat /\ at <= Len(call.source) /\ Len(call.source) \in Nat
      /\ width \in Measure /\ width.tab8 \in Nat /\ width.tab1 \in Nat
  <2>1. Current.start.offset \in Nat /\ Len(call.source) \in Nat
    BY <1>1, CallTyped, CurrentTyped DEF Inductive, Positions
  <2>2. at \in 0..Len(call.source) /\ width \in Measure
    BY DEF Inductive, TypeOK
  <2>3. width.tab8 \in Nat /\ width.tab1 \in Nat
    BY <2>2 DEF Measure
  <2> QED BY <2>1, <2>2, <2>3
<1>3. at' \in 0..Len(call.source) /\ width' \in Measure
      /\ (at' > 0 /\ call.source[at'] \notin {"nl", "ff"} => width'.tab8 > 0)
  <2>1. CASE From = at
    <3>1. at' = at + 1 /\ width' = Widened(width, call.source[at + 1]) /\ at < Current.start.offset
      BY <1>1, <1>2, <2>1 DEF From
    <3>2. at' \in 0..Len(call.source)
      BY <1>1, <1>2, <3>1
    <3>3. CASE call.source[at + 1] \in {"nl", "ff"}
      <4>1. width' = Zero
        BY <3>1, <3>3 DEF Widened
      <4> QED BY <3>1, <3>2, <3>3, <4>1 DEF Zero, Measure
    <3>4. CASE call.source[at + 1] \notin {"nl", "ff"}
      <4> DEFINE stop == (width.tab8 \div 8 + 1) * 8
                 wide == IF call.source[at + 1] = "tab" THEN stop ELSE width.tab8 + 1
      <4>1. stop \in Nat /\ stop > 0
        <5>1. width.tab8 \div 8 \in Nat
          BY <1>2
        <5> QED BY <5>1
      <4>2. wide \in Nat /\ wide > 0
        BY <1>2, <4>1
      <4>3. width' = [tab8 |-> wide, tab1 |-> width.tab1 + 1]
        BY <3>1, <3>4 DEF Widened
      <4> HIDE DEF stop, wide
      <4> QED BY <1>2, <3>2, <4>2, <4>3 DEF Measure
    <3> QED BY <3>3, <3>4
  <2>2. CASE From # at
    <3>1. at' = 0 /\ width' = Zero
      BY <1>1, <2>2 DEF From
    <3> QED BY <1>2, <3>1 DEF Zero, Measure
  <2> QED BY <2>1, <2>2
<1>4. TypeOK'
  BY <1>1, <1>3 DEF Inductive, TypeOK
<1>5. Blocks(levels)' /\ Nests(out, Len(levels) - 1)' /\ (pending # 0 => pendingAt.tab8 > 0)'
  BY <1>1 DEF Inductive
<1>6. (started => \E i \in DOMAIN call.tokens : i < next /\ previousLine = LastLine(call.tokens[i]))'
  BY <1>1 DEF Inductive
<1>7. (outcome = "given" => Len(levels) = 1)'
  BY <1>1 DEF Inductive
<1> QED BY <1>1, <1>3, <1>4, <1>5, <1>6, <1>7 DEF Inductive

\* An exception changes nothing but the outcome.
LEMMA FailKeeps ==
    ASSUME Inductive, NEW error, error # "given", Fail(error) PROVE Inductive'
BY DEF Fail, Inductive, TypeOK

\* The input's own end token is kept for later.
LEMMA EndTokenKeeps ==
    ASSUME Inductive, EndToken PROVE Inductive'
<1>1. next <= Len(call.tokens) /\ outcome = "running" /\ endPosition' = Current.start /\ next' = next + 1
      /\ UNCHANGED <<call, at, width, out, levels, started, opens, pending, pendingAt, previousLine, outcome>>
  BY DEF EndToken
<1>2. Current.start \in Positions /\ next \in Nat /\ next > 0
  BY <1>1, CallTyped, CurrentTyped DEF Inductive
<1>3. TypeOK'
  BY <1>1, <1>2 DEF Inductive, TypeOK
<1>4. (started => \E i \in DOMAIN call.tokens : i < next /\ previousLine = LastLine(call.tokens[i]))'
  <2> SUFFICES ASSUME started PROVE \E i \in DOMAIN call.tokens : i < next + 1 /\ previousLine = LastLine(call.tokens[i])
    BY <1>1
  <2>1. PICK i \in DOMAIN call.tokens : i < next /\ previousLine = LastLine(call.tokens[i])
    BY DEF Inductive
  <2>2. i < next + 1
    BY <1>2, <2>1, CallTyped DEF Inductive
  <2> QED BY <2>1, <2>2
<1> QED BY <1>1, <1>3, <1>4 DEF Inductive

\* A token of an insignificant mode is given as it is.
LEMMA PassThroughKeeps ==
    ASSUME Inductive, PassThrough PROVE Inductive'
<1>1. next <= Len(call.tokens) /\ outcome = "running" /\ next' = next + 1 /\ out' = Append(out, Current)
      /\ previousLine' = LastLine(Current)
      /\ UNCHANGED <<call, at, width, levels, started, pending, pendingAt, endPosition, outcome>>
  BY DEF PassThrough, Taking, Takes, Reaches
<1>2. next \in DOMAIN call.tokens /\ Current \in Given /\ Current.kind \notin {"indent", "dedent"}
      /\ Current = call.tokens[next] /\ next \in Nat /\ next > 0
  BY <1>1, CallTyped, CurrentTyped DEF Synthetic, Inductive
<1>3. Agree(out, levels)
  BY DEF Agree, Inductive, TypeOK
<1>4. Agree(out', levels) /\ Len(out') = Len(out) + 1 /\ Len(out) \in Nat
  BY <1>1, <1>2, <1>3, AgreeAppend
<1>5. TypeOK'
  <2>1. pending' \in 0..Len(out')
    BY <1>1, <1>4 DEF Inductive, TypeOK
  <2>2. out' \in Seq(Given)
    BY <1>4 DEF Agree
  <2> QED BY <1>1, <1>2, <2>1, <2>2 DEF Inductive, TypeOK
<1>6. Blocks(levels)' /\ Nests(out, Len(levels) - 1)'
  BY <1>1, <1>4 DEF Agree
<1>7. (started => \E i \in DOMAIN call.tokens : i < next /\ previousLine = LastLine(call.tokens[i]))'
  <2>1. next < next'
    BY <1>1, <1>2
  <2> QED BY <1>1, <1>2, <2>1
<1> QED BY <1>1, <1>5, <1>6, <1>7 DEF Inductive

\* A token on the line of the one before.
LEMMA JoinKeeps ==
    ASSUME FormFeedsLead, Inductive, Join PROVE Inductive'
<1>1. next <= Len(call.tokens) /\ outcome = "running" /\ ~LineStart
      /\ (Measures => at = Current.start.offset) /\ Place(out, levels, FALSE)
  BY DEF Join, Taking
<1>2. Agree(out, levels)
  BY DEF Agree, Inductive, TypeOK
<1>3. Past => Here.tab8 > 0
  BY <1>1, PastInside
<1> QED BY <1>1, <1>2, <1>3, PlaceKeeps

\* The first token of a deeper line: NEWLINE, INDENT.
LEMMA DeepenKeeps ==
    ASSUME Inductive, Deepen PROVE Inductive'
<1>1. next <= Len(call.tokens) /\ outcome = "running" /\ LineStart /\ Deeper /\ ~Past
  BY DEF Deepen, NewLine, Taking, Past
<1>2. Current.start \in Positions /\ Here \in Measure
  BY <1>1, CurrentTyped, HereTyped DEF Inductive
<1>3. Agree(Ended, levels)
  BY <1>2, EndedAgrees DEF Ended
<1>4. Here.tab8 > 0
  <2> DEFINE n == Len(levels)
  <2>1. levels \in Seq(Measure) /\ n \in Nat /\ n >= 1
    BY DEF Inductive, Blocks
  <2>2. levels[n] \in Measure /\ Last(levels) = levels[n]
    BY <2>1 DEF Last
  <2>3. levels[n].tab8 \in Nat /\ Here.tab8 \in Nat
    BY <1>2, <2>2 DEF Measure
  <2> QED BY <1>1, <2>2, <2>3 DEF Deeper
<1>5. CASE WithRoles
  <2>1. Place(Ended, levels, TRUE)
    BY <1>5 DEF Deepen
  <2> QED BY <1>1, <1>3, <1>4, <2>1, PlaceKeeps
<1>6. CASE ~WithRoles
  <2> DEFINE x == Mark("indent", Current.start)
             given == Append(Ended, x)
             kept == Append(levels, Here)
  <2>1. Place(given, kept, FALSE)
    BY <1>6 DEF Deepen
  <2>2. x \in Given /\ x.kind = "indent"
    <3>1. "indent" \in Synthetic
      BY DEF Synthetic
    <3> QED BY <1>2, <3>1, MarkTyped
  <2> HIDE DEF x
  <2>3. Agree(given, kept)
    BY <1>2, <1>3, <1>4, <2>2, AgreeIndent
  <2> HIDE DEF given, kept
  <2> QED BY <1>1, <2>1, <2>3, PlaceKeeps
<1> QED BY <1>5, <1>6

\* The first token of a line no deeper: NEWLINE, and the DEDENTs its column asks for.
LEMMA SettleKeeps ==
    ASSUME Inductive, Settle PROVE Inductive'
<1> DEFINE kept == Kept(Here.tab8)
           given == Ended \o Dedents(Current.start, kept)
<1>1. next <= Len(call.tokens) /\ outcome = "running" /\ LineStart /\ ~Past /\ Place(given, kept, FALSE)
  BY DEF Settle, NewLine, Taking, Past
<1>2. Current.start \in Positions /\ Here.tab8 \in Nat
  BY <1>1, CurrentTyped, HereTyped DEF Measure, Inductive
<1>3. Agree(Ended, levels)
  BY <1>2, EndedAgrees DEF Ended
<1>4. Agree(given, kept)
  BY <1>2, <1>3, DedentsAgree
<1> HIDE DEF given, kept
<1> QED BY <1>1, <1>4, PlaceKeeps

\* The end of the text closes what is open.
LEMMA FinishKeeps ==
    ASSUME Inductive, Finish PROVE Inductive'
<1> DEFINE ended == IF started THEN Append(out, Mark("newline", endPosition)) ELSE out
           closed == ended \o Dedents(endPosition, Kept(0))
           x == Mark(EndOfInput, endPosition)
<1>1. out' = closed \o <<x>> /\ levels' = Kept(0) /\ outcome' = "given"
      /\ UNCHANGED <<call, next, at, width, started, opens, pending, pendingAt, previousLine, endPosition>>
  BY DEF Finish
<1>2. endPosition \in Positions /\ out \in Seq(Given) /\ pending \in 0..Len(out)
  BY DEF Inductive, TypeOK
<1>3. Agree(ended, levels) /\ Len(out) <= Len(ended) /\ Len(ended) \in Nat
  <2>1. Agree(ended, levels)
    BY <1>2, EndedAgrees
  <2>2. Len(out) <= Len(ended) /\ Len(ended) \in Nat
    BY <1>2
  <2> QED BY <2>1, <2>2
<1> HIDE DEF ended
<1>4. Agree(closed, Kept(0)) /\ Len(ended) <= Len(closed)
  BY <1>2, <1>3, DedentsAgree
<1>5. x \in Given /\ x.kind \notin {"indent", "dedent"}
  <2>1. EndOfInput \notin {"indent", "dedent"}
    BY DEF EndOfInput
  <2>2. EndOfInput \in Synthetic \cup {EndOfInput}
    OBVIOUS
  <2>3. x \in Given /\ x.kind = EndOfInput
    BY <1>2, <2>2, MarkTyped, Zenon
  <2> HIDE DEF x
  <2> QED BY <2>1, <2>3
<1> HIDE DEF closed, x
<1>6. closed \o <<x>> = Append(closed, x)
  BY <1>4, <1>5 DEF Agree
<1>7. Agree(out', levels') /\ Len(out') = Len(closed) + 1 /\ Len(closed) \in Nat
  BY <1>1, <1>4, <1>5, <1>6, AgreeAppend
<1>8. TypeOK'
  <2>1. pending' \in 0..Len(out')
    BY <1>1, <1>2, <1>3, <1>4, <1>7
  <2>2. out' \in Seq(Given)
    BY <1>7 DEF Agree
  <2> QED BY <1>1, <2>1, <2>2 DEF Inductive, TypeOK
<1>9. Len(levels') = 1
  <2>1. Blocks(levels)
    BY DEF Inductive
  <2> QED BY <1>1, <2>1, KeptBlocks
<1>10. Blocks(levels)' /\ Nests(out, Len(levels) - 1)'
  BY <1>7 DEF Agree
<1>11. (started => \E i \in DOMAIN call.tokens : i < next /\ previousLine = LastLine(call.tokens[i]))'
  BY <1>1 DEF Inductive
<1> QED BY <1>1, <1>8, <1>9, <1>10, <1>11 DEF Inductive

\* layout(): every INDENT it gives is closed by a DEDENT and every DEDENT closes an INDENT, at every
\* prefix of the tokens given, and no block is open at the end.
THEOREM LayoutBalanced ==
    ASSUME FormFeedsLead PROVE Spec => []Balanced
<1>1. Init => Inductive
  BY InitInductive
<1>2. Inductive /\ [Next]_vars => Inductive'
  <2> SUFFICES ASSUME Inductive, [Next]_vars PROVE Inductive'
    OBVIOUS
  <2>1. CASE Read
    BY <2>1, ReadKeeps
  <2>2. CASE Beyond
    BY <2>2, FailKeeps DEF Beyond
  <2>3. CASE EndToken
    BY <2>3, EndTokenKeeps
  <2>4. CASE PassThrough
    BY <2>4, PassThroughKeeps
  <2>5. CASE Join
    BY <2>5, JoinKeeps
  <2>6. CASE Deepen
    BY <2>6, DeepenKeeps
  <2>7. CASE Settle
    BY <2>7, SettleKeeps
  <2>8. CASE Inconsistent
    BY <2>8, FailKeeps DEF Inconsistent
  <2>9. CASE Mixed
    BY <2>9, FailKeeps DEF Mixed
  <2>10. CASE Finish
    BY <2>10, FinishKeeps
  <2>11. CASE UNCHANGED vars
    BY <2>11 DEF vars, Inductive, TypeOK
  <2> QED BY <2>1, <2>2, <2>3, <2>4, <2>5, <2>6, <2>7, <2>8, <2>9, <2>10, <2>11 DEF Next
<1>3. Inductive => Balanced
  BY DEF Inductive, Nests, Balanced
<1> QED BY <1>1, <1>2, <1>3, PTL DEF Spec

-----------------------------------------------------------------------------
(* Functions that go on from a value *)

\* The values from x on, each by a step from its place and the value before.
Iterates(f, n, T, x, step) ==
    f \in [0..n -> T] /\ f[0] = x /\ \A i \in 1..n : f[i] = step[<<i, f[i - 1]>>]

\* Such a step can be taken n times.
LEMMA Iterated ==
    ASSUME NEW n \in Nat, NEW T, NEW x \in T, NEW step \in [(1..n) \X T -> T]
    PROVE  \E f : Iterates(f, n, T, x, step)
<1> DEFINE Runs(m) == { f \in [0..m -> T] : Iterates(f, m, T, x, step) }
           Left == { n - m : m \in { m \in 0..n : Runs(m) # {} } }
<1>1. Left \in SUBSET Nat /\ Left # {}
  <2> DEFINE g == [i \in 0..0 |-> x]
  <2>1. g \in [0..0 -> T] /\ g[0] = x
    OBVIOUS
  <2> HIDE DEF g
  <2>2. g \in Runs(0)
    BY <2>1 DEF Iterates
  <2>3. 0 \in 0..n
    OBVIOUS
  <2> HIDE DEF Runs
  <2> QED BY <2>2, <2>3
<1>2. PICK t \in Left : \A u \in Left : <<u, t>> \notin OpToRel(<, Nat)
  <2> HIDE DEF Left
  <2> QED BY <1>1, NatLessThanWellFounded, WFMin
<1> HIDE DEF Runs
<1>3. PICK m \in 0..n : t = n - m /\ Runs(m) # {}
  BY <1>2
<1>4. PICK f : f \in Runs(m)
  BY <1>3
<1>5. CASE m = n
  BY <1>4, <1>5 DEF Runs
<1>6. CASE m # n
  <2> DEFINE g == [i \in 0..(m + 1) |-> IF i = m + 1 THEN step[<<m + 1, f[m]>>] ELSE f[i]]
  <2>1. m + 1 \in 1..n /\ m \in Nat /\ m \in 0..m
    BY <1>6
  <2>2. f \in [0..m -> T] /\ f[0] = x /\ \A i \in 1..m : f[i] = step[<<i, f[i - 1]>>]
    BY <1>4 DEF Runs, Iterates
  <2>3. f[m] \in T /\ <<m + 1, f[m]>> \in (1..n) \X T
    BY <2>1, <2>2
  <2>4. \A i \in 0..(m + 1) : i = m + 1 \/ (i \in 0..m /\ i # m + 1)
    BY <2>1
  <2>5. g \in [0..(m + 1) -> T]
    BY <2>2, <2>3, <2>4
  <2>6. g[0] = x
    BY <2>1, <2>2
  <2>7. ASSUME NEW i \in 1..(m + 1) PROVE g[i] = step[<<i, g[i - 1]>>]
    <3>1. i - 1 \in 0..(m + 1) /\ i - 1 # m + 1 /\ i \in 0..(m + 1) /\ g[i - 1] = f[i - 1]
      BY <2>1
    <3>2. CASE i = m + 1
      <4>1. g[i] = step[<<m + 1, f[m]>>] /\ g[i - 1] = f[m]
        BY <2>1, <3>1, <3>2
      <4> QED BY <3>2, <4>1
    <3>3. CASE i # m + 1
      <4>1. i \in 1..m /\ g[i] = f[i]
        BY <2>1, <3>1, <3>3
      <4> QED BY <2>2, <3>1, <4>1
    <3> QED BY <3>2, <3>3
  <2> HIDE DEF g
  <2>8. g \in Runs(m + 1)
    BY <2>5, <2>6, <2>7 DEF Runs, Iterates
  <2>9. n - (m + 1) \in Left /\ n - (m + 1) < t /\ n - (m + 1) \in Nat /\ t \in Nat
    BY <1>3, <2>1, <2>8
  <2> HIDE DEF Left
  <2> QED BY <1>2, <2>9 DEF OpToRel
<1> QED BY <1>5, <1>6

-----------------------------------------------------------------------------
(* The columns of a text *)

\* Before and Column, of a call and not of the one at hand.
BeforeIn(source, offset) ==
    LET begins == { i \in 1..offset : source[i] \in {"nl", "ff"} }
    IN  SubSeq(source, Max({0} \cup begins) + 1, offset)

ShownIn(source, offset) ==
    LET blanks == BeforeIn(source, offset)
        shown[i \in 0..Len(blanks)] ==
            IF i = 0 THEN 0
            ELSE IF blanks[i] = "tab" THEN shown[i - 1] + 8 - (shown[i - 1] % 8) ELSE shown[i - 1] + 1
    IN  shown

ColumnIn(c, token) ==
    LET blanks == BeforeIn(c.source, token.start.offset)
        shown[i \in 0..Len(blanks)] ==
            IF i = 0 THEN 0
            ELSE IF blanks[i] = "tab" THEN shown[i - 1] + 8 - (shown[i - 1] % 8) ELSE shown[i - 1] + 1
    IN  IF c.tabs = "python" THEN [tab8 |-> shown[Len(blanks)], tab1 |-> Len(blanks)]
        ELSE [tab8 |-> token.start.column - 1, tab1 |-> 0]

\* What the meter says at an offset, read at once.
MeterAt(source, offset) ==
    [ tab8 |-> ShownIn(source, offset)[Len(BeforeIn(source, offset))], tab1 |-> Len(BeforeIn(source, offset)) ]

LEMMA ColumnOfCall ==
    /\ \A token : Column(token) = ColumnIn(call, token)
    /\ \A token : Column(token)' = ColumnIn(call', token)
BY DEF Column, ColumnIn, Before, BeforeIn, PythonTabs

LEMMA ColumnIsMeter ==
    ASSUME NEW c, NEW token
    PROVE  ColumnIn(c, token) = IF c.tabs = "python" THEN MeterAt(c.source, token.start.offset)
                                ELSE [tab8 |-> token.start.column - 1, tab1 |-> 0]
BY DEF ColumnIn, MeterAt, ShownIn

\* The columns of the blanks before an offset, one by one.
LEMMA ShownSteps ==
    ASSUME NEW source, NEW offset, Len(BeforeIn(source, offset)) \in Nat
    PROVE  LET n == Len(BeforeIn(source, offset))
               f == ShownIn(source, offset)
           IN  /\ f \in [0..n -> Nat] /\ f[0] = 0
               /\ \A i \in 1..n : f[i] = IF BeforeIn(source, offset)[i] = "tab" THEN f[i - 1] + 8 - (f[i - 1] % 8)
                                         ELSE f[i - 1] + 1
<1> DEFINE b == BeforeIn(source, offset)
           n == Len(b)
           step == [p \in (1..n) \X Nat |-> IF b[p[1]] = "tab" THEN p[2] + 8 - (p[2] % 8) ELSE p[2] + 1]
<1>1. step \in [(1..n) \X Nat -> Nat]
  <2>1. \A k \in Nat : k + 8 - (k % 8) \in Nat /\ k + 1 \in Nat
    OBVIOUS
  <2> HIDE DEF b, n
  <2> QED BY <2>1
<1>2. \A i \in 1..n, k \in Nat : step[<<i, k>>] = IF b[i] = "tab" THEN k + 8 - (k % 8) ELSE k + 1
  <2> HIDE DEF b, n
  <2> QED OBVIOUS
<1>3. n \in Nat /\ 0 \in Nat
  OBVIOUS
<1>4. PICK f \in [0..n -> Nat] : f[0] = 0 /\ \A i \in 1..n : f[i] = step[<<i, f[i - 1]>>]
  <2> DEFINE T == Nat
  <2>1. n \in Nat /\ 0 \in T /\ step \in [(1..n) \X T -> T]
    BY <1>1, <1>3
  <2> HIDE DEF step, n, T
  <2>2. PICK f : Iterates(f, n, T, 0, step)
    BY <2>1, Iterated
  <2> QED BY <2>2 DEF T, Iterates
<1> HIDE DEF step
<1> DEFINE Is(g) == g = [i \in 0..n |-> IF i = 0 THEN 0 ELSE IF b[i] = "tab" THEN g[i - 1] + 8 - (g[i - 1] % 8)
                                        ELSE g[i - 1] + 1]
<1>5. Is(f)
  <2> HIDE DEF b
  <2>1. n \in Nat
    BY <1>3
  <2> HIDE DEF n
  <2>2. ASSUME NEW i \in 1..n
        PROVE  i - 1 \in 0..n /\ f[i - 1] \in Nat /\ f[i] = IF b[i] = "tab" THEN f[i - 1] + 8 - (f[i - 1] % 8)
                                                            ELSE f[i - 1] + 1
    <3>1. i - 1 \in 0..n
      BY <2>1
    <3>2. f[i - 1] \in Nat
      BY <1>4, <3>1
    <3>3. f[i] = step[<<i, f[i - 1]>>]
      BY <1>4
    <3> QED BY <1>2, <3>1, <3>2, <3>3, Zenon
  <2>3. \A i \in 0..n : i = 0 \/ i \in 1..n
    BY <2>1
  <2> QED BY <1>4, <2>2, <2>3
<1>6. ShownIn(source, offset) = CHOOSE g : Is(g)
  BY DEF ShownIn
<1>7. Is(ShownIn(source, offset))
  <2> HIDE DEF Is
  <2> QED BY <1>5, <1>6
<1> DEFINE g == ShownIn(source, offset)
<1>8. DOMAIN g = 0..n /\ g[0] = 0 /\ \A i \in 1..n : g[i] = IF b[i] = "tab" THEN g[i - 1] + 8 - (g[i - 1] % 8)
                                                   ELSE g[i - 1] + 1
  <2>0. Is(g)
    BY <1>7
  <2> HIDE DEF g, b
  <2>1. n \in Nat
    BY <1>3
  <2> HIDE DEF n
  <2>2. \A i \in 1..n : i \in 0..n /\ i # 0
    BY <2>1
  <2> QED BY <2>0, <2>1, <2>2
<1>9. \A i \in 0..n : g[i] = f[i]
  <2> DEFINE Wrong == { i \in 0..n : g[i] # f[i] }
  <2>1. SUFFICES ASSUME Wrong # {} PROVE FALSE
    <3> HIDE DEF g, n
    <3> QED OBVIOUS
  <2>2. Wrong \in SUBSET Nat
    OBVIOUS
  <2>3. PICK i \in Wrong : \A k \in Wrong : <<k, i>> \notin OpToRel(<, Nat)
    <3> HIDE DEF Wrong
    <3> QED BY <2>1, <2>2, NatLessThanWellFounded, WFMin
  <2> HIDE DEF g, b
  <2>4. i \in 0..n /\ i # 0 /\ i - 1 \in 0..n /\ i \in 1..n /\ g[i] # f[i]
    <3>1. i \in 0..n /\ g[i] # f[i]
      BY <2>3
    <3> QED BY <1>3, <1>4, <1>8, <3>1
  <2>5. g[i - 1] = f[i - 1]
    <3>1. i - 1 \in Nat /\ i \in Nat /\ i - 1 < i
      BY <2>4
    <3>2. i - 1 \notin Wrong
      <4> HIDE DEF Wrong
      <4> QED BY <2>3, <3>1 DEF OpToRel
    <3> QED BY <2>4, <3>2
  <2>6. f[i - 1] \in Nat /\ f[i] = step[<<i, f[i - 1]>>]
    BY <1>4, <2>4
  <2> QED BY <1>2, <1>8, <2>4, <2>5, <2>6
<1>10. g \in [0..n -> Nat]
  <2> DEFINE G == [i \in 0..n |-> IF i = 0 THEN 0 ELSE IF b[i] = "tab" THEN g[i - 1] + 8 - (g[i - 1] % 8)
                                        ELSE g[i - 1] + 1]
  <2>1. g = G
    BY <1>7
  <2>2. \A i \in 0..n : G[i] = g[i]
    BY <2>1, Zenon
  <2>3. \A i \in 0..n : g[i] \in Nat
    <3> HIDE DEF g, n
    <3> QED BY <1>4, <1>9
  <2> HIDE DEF g, n
  <2> QED BY <2>1, <2>3
<1> QED BY <1>8, <1>10

\* What stands before the beginning of a text, and before one more character.
LEMMA BeforeSteps ==
    ASSUME NEW source \in Seq(STRING), NEW o \in 0..Len(source)
    PROVE  /\ BeforeIn(source, o) \in Seq(STRING)
           /\ o = 0 => Len(BeforeIn(source, o)) = 0
           /\ o < Len(source) /\ source[o + 1] \in {"nl", "ff"} => Len(BeforeIn(source, o + 1)) = 0
           /\ o < Len(source) /\ source[o + 1] \notin {"nl", "ff"}
                 => BeforeIn(source, o + 1) = Append(BeforeIn(source, o), source[o + 1])
<1> DEFINE D(p) == {0} \cup { i \in 1..p : source[i] \in {"nl", "ff"} }
<1>1. Len(source) \in Nat /\ o \in Nat
  OBVIOUS
<1>2. ASSUME NEW p \in 0..Len(source)
      PROVE  /\ Max(D(p)) \in D(p) /\ \A d \in D(p) : Max(D(p)) >= d
             /\ Max(D(p)) \in 0..p
  <2>1. p \in Nat /\ D(p) # {} /\ \A d \in D(p) : d \in 0..p
    BY <1>1
  <2> HIDE DEF D
  <2> QED BY <2>1, MaxOfDepths
<1>3. \A p : BeforeIn(source, p) = SubSeq(source, Max(D(p)) + 1, p)
  BY DEF BeforeIn
<1>4. o \in 0..Len(source)
  OBVIOUS
<1> HIDE DEF D
<1> DEFINE m == Max(D(o))
<1>5. m \in 0..o /\ BeforeIn(source, o) = SubSeq(source, m + 1, o)
  BY <1>2, <1>3
<1>6. BeforeIn(source, o) \in Seq(STRING) /\ Len(BeforeIn(source, o)) = o - m
  <2> HIDE DEF m
  <2> QED BY <1>1, <1>5
<1>7. o = 0 => Len(BeforeIn(source, o)) = 0
  <2> HIDE DEF m
  <2> QED BY <1>1, <1>5, <1>6
<1>8. ASSUME o < Len(source), source[o + 1] \in {"nl", "ff"} PROVE Len(BeforeIn(source, o + 1)) = 0
  <2> DEFINE n == Max(D(o + 1))
  <2>1. o + 1 \in 0..Len(source) /\ o + 1 \in D(o + 1)
    BY <1>1, <1>8 DEF D
  <2>2. n \in 0..(o + 1) /\ n >= o + 1 /\ BeforeIn(source, o + 1) = SubSeq(source, n + 1, o + 1)
    BY <1>2, <1>3, <2>1
  <2> HIDE DEF n
  <2>3. n = o + 1
    BY <1>1, <2>2
  <2> QED BY <1>1, <2>1, <2>2, <2>3
<1>9. ASSUME o < Len(source), source[o + 1] \notin {"nl", "ff"}
      PROVE  BeforeIn(source, o + 1) = Append(BeforeIn(source, o), source[o + 1])
  <2>1. D(o + 1) = D(o) /\ o + 1 \in 1..Len(source)
    <3>1. \A i \in 1..(o + 1) : i = o + 1 \/ i \in 1..o
      BY <1>1
    <3>2. \A i \in 1..o : i \in 1..(o + 1)
      BY <1>1
    <3> QED BY <1>1, <1>9, <3>1, <3>2 DEF D
  <2>2. BeforeIn(source, o + 1) = SubSeq(source, m + 1, o + 1)
    BY <1>3, <2>1
  <2> HIDE DEF m
  <2> DEFINE a == SubSeq(source, m + 1, o + 1)
             b == Append(SubSeq(source, m + 1, o), source[o + 1])
  <2>3. a \in Seq(STRING) /\ b \in Seq(STRING) /\ Len(a) = o - m + 1 /\ Len(b) = o - m + 1
    BY <1>1, <1>5, <2>1
  <2>4. \A i \in 1..(o - m + 1) : a[i] = source[m + i]
    BY <1>1, <1>5, <2>1
  <2>5. \A i \in 1..(o - m + 1) : b[i] = source[m + i]
    <3>1. SubSeq(source, m + 1, o) \in Seq(STRING) /\ Len(SubSeq(source, m + 1, o)) = o - m
          /\ \A i \in 1..(o - m) : SubSeq(source, m + 1, o)[i] = source[m + i]
      BY <1>1, <1>5
    <3> DEFINE q == SubSeq(source, m + 1, o)
    <3>2. q \in Seq(STRING) /\ Len(q) = o - m /\ \A i \in 1..(o - m) : q[i] = source[m + i]
      BY <3>1
    <3> HIDE DEF q
    <3>3. \A i \in 1..(o - m + 1) : i \in 1..(o - m) \/ i = o - m + 1
      BY <1>1, <1>5
    <3>4. m + (o - m + 1) = o + 1
      BY <1>1, <1>5
    <3>5. ASSUME NEW i \in 1..(o - m + 1) PROVE Append(q, source[o + 1])[i] = source[m + i]
      <4>1. CASE i \in 1..(o - m)
        <5>1. Append(q, source[o + 1])[i] = q[i]
          BY <1>1, <1>5, <3>2, <4>1
        <5> QED BY <3>2, <4>1, <5>1
      <4>2. CASE i = o - m + 1
        <5>1. Append(q, source[o + 1])[o - m + 1] = source[o + 1]
          BY <1>1, <1>5, <3>2
        <5> QED BY <3>4, <4>2, <5>1
      <4> QED BY <3>3, <4>1, <4>2
    <3> QED BY <3>5 DEF q
  <2> HIDE DEF a, b
  <2>6. a = b
    <3>1. Len(a) = Len(b) /\ \A i \in 1..Len(a) : a[i] = b[i]
      BY <2>3, <2>4, <2>5
    <3> QED BY <2>3, <3>1, SeqEqual
  <2> QED BY <1>5, <2>2, <2>6 DEF a, b
<1> QED BY <1>6, <1>7, <1>8, <1>9

\* What is shown up to a place does not depend on what comes after it.
LEMMA ShownAgrees ==
    ASSUME NEW source, NEW o, NEW p, NEW n \in Nat,
           Len(BeforeIn(source, o)) \in Nat, Len(BeforeIn(source, p)) \in Nat,
           n <= Len(BeforeIn(source, o)), n <= Len(BeforeIn(source, p)),
           \A i \in 1..n : BeforeIn(source, o)[i] = BeforeIn(source, p)[i]
    PROVE  \A i \in 0..n : ShownIn(source, o)[i] = ShownIn(source, p)[i]
<1> DEFINE f == ShownIn(source, o)
           g == ShownIn(source, p)
           b == BeforeIn(source, o)
           d == BeforeIn(source, p)
           Wrong == { i \in 0..n : f[i] # g[i] }
<1>1. /\ f[0] = 0 /\ \A i \in 1..Len(b) : f[i] = IF b[i] = "tab" THEN f[i - 1] + 8 - (f[i - 1] % 8) ELSE f[i - 1] + 1
      /\ g[0] = 0 /\ \A i \in 1..Len(d) : g[i] = IF d[i] = "tab" THEN g[i - 1] + 8 - (g[i - 1] % 8) ELSE g[i - 1] + 1
  <2>1. Len(b) \in Nat /\ Len(d) \in Nat
    OBVIOUS
  <2> QED BY <2>1, ShownSteps
<1>2. n <= Len(b) /\ n <= Len(d) /\ Len(b) \in Nat /\ Len(d) \in Nat /\ \A i \in 1..n : b[i] = d[i]
  OBVIOUS
<1>3. SUFFICES ASSUME Wrong # {} PROVE FALSE
  <2>1. Wrong = {} => \A i \in 0..n : f[i] = g[i]
    <3> HIDE DEF f, g
    <3> QED OBVIOUS
  <2> HIDE DEF Wrong
  <2> QED BY <2>1
<1>4. Wrong \in SUBSET Nat
  OBVIOUS
<1>5. PICK i \in Wrong : \A k \in Wrong : <<k, i>> \notin OpToRel(<, Nat)
  <2> HIDE DEF Wrong
  <2> QED BY <1>3, <1>4, NatLessThanWellFounded, WFMin
<1> HIDE DEF f, g, b, d
<1>6. i \in 0..n /\ f[i] # g[i] /\ i # 0
  BY <1>1, <1>5
<1>7. i \in 1..Len(b) /\ i \in 1..Len(d) /\ i \in 1..n /\ i - 1 \in 0..n
  BY <1>2, <1>6
<1>8. f[i - 1] = g[i - 1]
  <2>1. i - 1 \in Nat /\ i \in Nat /\ i - 1 < i
    BY <1>7
  <2>2. i - 1 \notin Wrong
    <3> HIDE DEF Wrong
    <3> QED BY <1>5, <2>1 DEF OpToRel
  <2> QED BY <1>7, <2>2
<1> QED BY <1>1, <1>2, <1>6, <1>7, <1>8

\* The meter, a character at a time, is what is read at once.
LEMMA MeterSteps ==
    ASSUME NEW source \in Seq(STRING), NEW o \in 0..Len(source)
    PROVE  /\ MeterAt(source, o) \in Measure
           /\ o = 0 => MeterAt(source, o) = Zero
           /\ o < Len(source) => MeterAt(source, o + 1) = Widened(MeterAt(source, o), source[o + 1])
<1> DEFINE b == BeforeIn(source, o)
           f == ShownIn(source, o)
<1>0. Len(source) \in Nat /\ o \in Nat
  OBVIOUS
<1>1. b \in Seq(STRING) /\ Len(b) \in Nat
  <2>1. b \in Seq(STRING)
    BY BeforeSteps
  <2> HIDE DEF b
  <2> QED BY <2>1
<1>2. f \in [0..Len(b) -> Nat] /\ f[0] = 0
  BY <1>1, ShownSteps
<1>3. MeterAt(source, o) = [tab8 |-> f[Len(b)], tab1 |-> Len(b)]
  BY DEF MeterAt
<1>4. f[Len(b)] \in Nat
  <2> HIDE DEF f, b
  <2> QED BY <1>1, <1>2
<1>5. MeterAt(source, o) \in Measure
  <2> HIDE DEF f, b
  <2> QED BY <1>1, <1>3, <1>4 DEF Measure
<1>6. o = 0 => MeterAt(source, o) = Zero
  <2>1. o = 0 => Len(b) = 0
    BY BeforeSteps
  <2> HIDE DEF f, b
  <2> QED BY <1>2, <1>3, <2>1 DEF Zero
<1>7. ASSUME o < Len(source) PROVE MeterAt(source, o + 1) = Widened(MeterAt(source, o), source[o + 1])
  <2> DEFINE c == source[o + 1]
             d == BeforeIn(source, o + 1)
             g == ShownIn(source, o + 1)
  <2>1. o + 1 \in 0..Len(source)
    BY <1>0, <1>7
  <2>2. d \in Seq(STRING) /\ Len(d) \in Nat
    <3>1. d \in Seq(STRING)
      BY <2>1, BeforeSteps
    <3> HIDE DEF d
    <3> QED BY <3>1
  <2>3. g[0] = 0 /\ \A i \in 1..Len(d) : g[i] = IF d[i] = "tab" THEN g[i - 1] + 8 - (g[i - 1] % 8) ELSE g[i - 1] + 1
    BY <2>2, ShownSteps
  <2>4. MeterAt(source, o + 1) = [tab8 |-> g[Len(d)], tab1 |-> Len(d)]
    BY DEF MeterAt
  <2>5. CASE c \in {"nl", "ff"}
    <3>1. Len(d) = 0
      BY <1>7, <2>5, BeforeSteps
    <3> HIDE DEF d, g, c
    <3>2. MeterAt(source, o + 1) = Zero
      BY <2>3, <2>4, <3>1 DEF Zero
    <3> QED BY <2>5, <3>2 DEF Widened, c
  <2>6. CASE c \notin {"nl", "ff"}
    <3>1. d = Append(b, c)
      BY <1>7, <2>6, BeforeSteps
    <3>2. Len(d) = Len(b) + 1 /\ d[Len(b) + 1] = c /\ \A i \in 1..Len(b) : d[i] = b[i]
      <4> HIDE DEF b, c, d
      <4> QED BY <1>1, <3>1
    <3>3. \A i \in 0..Len(b) : f[i] = g[i]
      <4>1. Len(b) <= Len(b) /\ Len(b) <= Len(d)
        <5> HIDE DEF b, d
        <5> QED BY <1>1, <3>2
      <4>2. \A i \in 1..Len(b) : BeforeIn(source, o)[i] = BeforeIn(source, o + 1)[i]
        BY <3>2
      <4>3. Len(b) \in Nat /\ Len(d) \in Nat
        BY <1>1, <2>2
      <4> DEFINE n == Len(b)
      <4>4. n \in Nat /\ n <= Len(BeforeIn(source, o)) /\ n <= Len(BeforeIn(source, o + 1))
            /\ \A i \in 1..n : BeforeIn(source, o)[i] = BeforeIn(source, o + 1)[i]
        BY <4>1, <4>2, <4>3
      <4> HIDE DEF n
      <4>5. \A i \in 0..n : ShownIn(source, o)[i] = ShownIn(source, o + 1)[i]
        BY <4>3, <4>4, ShownAgrees
      <4> QED BY <4>5 DEF n
    <3> HIDE DEF b, c, d, f, g
    <3> DEFINE x == f[Len(b)]
    <3>4. g[Len(b)] = x /\ x \in Nat /\ Len(b) + 1 - 1 = Len(b) /\ Len(b) + 1 \in 1..Len(d)
      BY <1>1, <1>4, <3>2, <3>3
    <3>5. g[Len(b) + 1] = IF c = "tab" THEN x + 8 - (x % 8) ELSE x + 1
      BY <2>3, <3>2, <3>4
    <3> HIDE DEF x
    <3>6. x + 8 - (x % 8) = (x \div 8 + 1) * 8
      BY <3>4
    <3>7. MeterAt(source, o) = [tab8 |-> x, tab1 |-> Len(b)]
      BY <1>3 DEF x
    <3> QED BY <2>4, <2>6, <3>2, <3>5, <3>6, <3>7 DEF Widened, c
  <2> QED BY <2>5, <2>6
<1> QED BY <1>5, <1>6, <1>7

-----------------------------------------------------------------------------
(* A reader of the tokens given *)

\* OpenAfter, of any tokens of a call.
ReadingIn(c, o) ==
    LET open[i \in 0..Len(o)] ==
            IF i = 0 THEN <<Zero>>
            ELSE CASE o[i].kind = "indent" -> Append(open[i - 1], ColumnIn(c, o[i + 1]))
                   [] o[i].kind = "dedent" -> Front(open[i - 1])
                   [] OTHER                  -> open[i - 1]
    IN  open

LEMMA ReadingOfCall == OpenAfter = ReadingIn(call, out) /\ OpenAfter' = ReadingIn(call', out')
BY DEF OpenAfter, ReadingIn, Column, ColumnIn, Before, BeforeIn, PythonTabs

\* What a token makes of the blocks open before it, with the token after it.
Opened(c, before, token, after) ==
    IF token.kind = "indent" THEN Append(before, ColumnIn(c, after))
    ELSE IF token.kind = "dedent" THEN Front(before) ELSE before

LEMMA ReadingSteps ==
    ASSUME NEW c, NEW o, Len(o) \in Nat
    PROVE  /\ ReadingIn(c, o)[0] = <<Zero>>
           /\ \A i \in 1..Len(o) : ReadingIn(c, o)[i] = Opened(c, ReadingIn(c, o)[i - 1], o[i], o[i + 1])
<1> DEFINE n == Len(o)
           M == {Zero} \cup { ColumnIn(c, o[i + 1]) : i \in 1..n }
           step == [p \in (1..n) \X Seq(M) |-> Opened(c, p[2], o[p[1]], o[p[1] + 1])]
           x == <<Zero>>
<1>1. ASSUME NEW i \in 1..n, NEW s \in Seq(M) PROVE Opened(c, s, o[i], o[i + 1]) \in Seq(M)
  <2>1. ColumnIn(c, o[i + 1]) \in M
    OBVIOUS
  <2> HIDE DEF M
  <2>2. Append(s, ColumnIn(c, o[i + 1])) \in Seq(M)
    BY <2>1
  <2>3. Front(s) \in Seq(M)
    <3>1. \A k \in 1..(Len(s) - 1) : k \in 1..Len(s)
      OBVIOUS
    <3> QED BY <3>1 DEF Front
  <2> QED BY <2>2, <2>3 DEF Opened
<1>2. step \in [(1..n) \X Seq(M) -> Seq(M)] /\ \A i \in 1..n, s \in Seq(M) : step[<<i, s>>] = Opened(c, s, o[i], o[i + 1])
  <2> HIDE DEF M, n
  <2>1. \A p \in (1..n) \X Seq(M) : p[1] \in 1..n /\ p[2] \in Seq(M)
    OBVIOUS
  <2>2. \A p \in (1..n) \X Seq(M) : Opened(c, p[2], o[p[1]], o[p[1] + 1]) \in Seq(M)
    BY <1>1, <2>1
  <2> QED BY <2>2
<1>3. n \in Nat /\ x \in Seq(M)
  <2>1. Zero \in M
    OBVIOUS
  <2> HIDE DEF M
  <2> QED BY <2>1
<1>4. PICK f : Iterates(f, n, Seq(M), x, step)
  <2> DEFINE T == Seq(M)
  <2>1. n \in Nat /\ x \in T /\ step \in [(1..n) \X T -> T]
    BY <1>2, <1>3
  <2> HIDE DEF step, n, T, x
  <2>2. \E f : Iterates(f, n, T, x, step)
    BY <2>1, Iterated
  <2> QED BY <2>2 DEF T
<1> DEFINE Is(g) == g = [i \in 0..n |->
               IF i = 0 THEN <<Zero>>
               ELSE CASE o[i].kind = "indent" -> Append(g[i - 1], ColumnIn(c, o[i + 1]))
                      [] o[i].kind = "dedent" -> Front(g[i - 1])
                      [] OTHER                  -> g[i - 1]]
<1>5. Is(f)
  <2>1. /\ f \in [0..n -> Seq(M)] /\ f[0] = x /\ \A i \in 1..n : f[i] = step[<<i, f[i - 1]>>]
    BY <1>4 DEF Iterates
  <2>2. n \in Nat
    BY <1>3
  <2> HIDE DEF n, M, step
  <2>3. ASSUME NEW i \in 1..n
        PROVE  f[i] = CASE o[i].kind = "indent" -> Append(f[i - 1], ColumnIn(c, o[i + 1]))
                        [] o[i].kind = "dedent" -> Front(f[i - 1])
                        [] OTHER                  -> f[i - 1]
    <3>1. i - 1 \in 0..n
      BY <2>2
    <3>2. f[i - 1] \in Seq(M)
      BY <2>1, <3>1
    <3>3. f[i] = Opened(c, f[i - 1], o[i], o[i + 1])
      BY <1>2, <2>1, <3>2, Zenon
    <3>4. ~("indent" = "dedent")
      OBVIOUS
    <3> QED BY <3>3, <3>4 DEF Opened
  <2>4. \A i \in 0..n : i = 0 \/ i \in 1..n
    BY <2>2
  <2> QED BY <2>1, <2>3, <2>4
<1>6. ReadingIn(c, o) = CHOOSE g : Is(g)
  BY DEF ReadingIn
<1> DEFINE g == ReadingIn(c, o)
<1>7. Is(g)
  <2>1. g = CHOOSE h : Is(h)
    BY <1>6
  <2> HIDE DEF Is, g
  <2> QED BY <1>5, <2>1
<1> HIDE DEF g
<1>8. ASSUME NEW i \in 0..n
      PROVE  g[i] = IF i = 0 THEN <<Zero>>
                    ELSE CASE o[i].kind = "indent" -> Append(g[i - 1], ColumnIn(c, o[i + 1]))
                           [] o[i].kind = "dedent" -> Front(g[i - 1])
                           [] OTHER                  -> g[i - 1]
  BY <1>7
<1>9. g[0] = <<Zero>>
  <2>1. 0 \in 0..n
    BY <1>3
  <2> QED BY <1>8, <2>1
<1>10. ASSUME NEW i \in 1..n PROVE g[i] = Opened(c, g[i - 1], o[i], o[i + 1])
  <2>1. i \in 0..n /\ i # 0
    BY <1>3
  <2>2. g[i] = CASE o[i].kind = "indent" -> Append(g[i - 1], ColumnIn(c, o[i + 1]))
                 [] o[i].kind = "dedent" -> Front(g[i - 1])
                 [] OTHER                  -> g[i - 1]
    BY <1>8, <2>1
  <2>3. ~("indent" = "dedent")
    OBVIOUS
  <2> HIDE DEF n
  <2> QED BY <2>2, <2>3 DEF Opened
<1> QED BY <1>9, <1>10 DEF g

\* What a reader makes of tokens depends on no more than them and, past an INDENT, the token it opens
\* the block of.
LEMMA ReadingAgrees ==
    ASSUME NEW c, NEW o, NEW p, NEW n \in Nat, Len(o) \in Nat, Len(p) \in Nat, n <= Len(o), n <= Len(p),
           \A i \in 1..n : o[i] = p[i] /\ (o[i].kind = "indent" => o[i + 1] = p[i + 1])
    PROVE  \A i \in 0..n : ReadingIn(c, o)[i] = ReadingIn(c, p)[i]
<1> DEFINE f == ReadingIn(c, o)
           g == ReadingIn(c, p)
           Wrong == { i \in 0..n : f[i] # g[i] }
<1>1. /\ f[0] = <<Zero>> /\ \A i \in 1..Len(o) : f[i] = Opened(c, f[i - 1], o[i], o[i + 1])
      /\ g[0] = <<Zero>> /\ \A i \in 1..Len(p) : g[i] = Opened(c, g[i - 1], p[i], p[i + 1])
  BY ReadingSteps
<1>2. SUFFICES ASSUME Wrong # {} PROVE FALSE
  <2>1. Wrong = {} => \A i \in 0..n : f[i] = g[i]
    <3> HIDE DEF f, g
    <3> QED OBVIOUS
  <2> HIDE DEF Wrong
  <2> QED BY <2>1
<1>3. Wrong \in SUBSET Nat
  OBVIOUS
<1>4. PICK i \in Wrong : \A k \in Wrong : <<k, i>> \notin OpToRel(<, Nat)
  <2> HIDE DEF Wrong
  <2> QED BY <1>2, <1>3, NatLessThanWellFounded, WFMin
<1> HIDE DEF f, g
<1>5. i \in 0..n /\ f[i] # g[i] /\ i # 0
  BY <1>1, <1>4
<1>6. i \in 1..Len(o) /\ i \in 1..Len(p) /\ i \in 1..n /\ i - 1 \in 0..n
  BY <1>5
<1>7. f[i - 1] = g[i - 1]
  <2>1. i - 1 \in Nat /\ i \in Nat /\ i - 1 < i
    BY <1>6
  <2>2. i - 1 \notin Wrong
    <3> HIDE DEF Wrong
    <3> QED BY <1>4, <2>1 DEF OpToRel
  <2> QED BY <1>6, <2>2
<1>8. f[i] = Opened(c, f[i - 1], o[i], o[i + 1]) /\ g[i] = Opened(c, g[i - 1], p[i], p[i + 1])
  BY <1>1, <1>6
<1>9. o[i] = p[i] /\ (o[i].kind = "indent" => o[i + 1] = p[i + 1])
  BY <1>6
<1> QED BY <1>5, <1>7, <1>8, <1>9 DEF Opened

\* The tokens given so far are read as the blocks kept, and no block is without its token.
Reads(c, given, kept) ==
    /\ given \in Seq(Given) /\ kept \in Seq(Measure)
    /\ Len(given) > 0 => given[Len(given)].kind # "indent"
    /\ ReadingIn(c, given)[Len(given)] = kept

\* A token that is no INDENT or DEDENT, given last, changes nothing for the reader.
LEMMA ReadsAppend ==
    ASSUME NEW c, NEW given, NEW kept, Reads(c, given, kept), NEW x \in Given, x.kind \notin {"indent", "dedent"}
    PROVE  Reads(c, Append(given, x), kept)
<1> DEFINE n == Len(given)
           p == Append(given, x)
<1>1. given \in Seq(Given) /\ n \in Nat /\ kept \in Seq(Measure)
      /\ (n > 0 => given[n].kind # "indent") /\ ReadingIn(c, given)[n] = kept
  BY DEF Reads
<1>2. p \in Seq(Given) /\ Len(p) = n + 1 /\ p[n + 1] = x /\ \A i \in 1..n : p[i] = given[i]
  <2> HIDE DEF Given
  <2> QED BY <1>1
<1> HIDE DEF p
<1>3. \A i \in 1..n : given[i] = p[i] /\ (given[i].kind = "indent" => given[i + 1] = p[i + 1])
  <2> TAKE i \in 1..n
  <2>1. CASE i = n
    BY <1>1, <1>2, <2>1
  <2>2. CASE i # n
    <3>1. i + 1 \in 1..n
      BY <1>1, <2>2
    <3> QED BY <1>2, <3>1
  <2> QED BY <2>1, <2>2
<1>4. ReadingIn(c, p)[n] = kept
  <2>1. \A i \in 0..n : ReadingIn(c, given)[i] = ReadingIn(c, p)[i]
    <3> DEFINE k == n
    <3>1. k \in Nat /\ Len(given) \in Nat /\ Len(p) \in Nat /\ k <= Len(given) /\ k <= Len(p)
          /\ \A i \in 1..k : given[i] = p[i] /\ (given[i].kind = "indent" => given[i + 1] = p[i + 1])
      BY <1>1, <1>2, <1>3
    <3> HIDE DEF k
    <3>2. \A i \in 0..k : ReadingIn(c, given)[i] = ReadingIn(c, p)[i]
      BY <3>1, ReadingAgrees
    <3> QED BY <3>2 DEF k
  <2>2. n \in 0..n
    BY <1>1
  <2> QED BY <1>1, <2>1, <2>2
<1>5. ReadingIn(c, p)[n + 1] = kept
  <2>1. n + 1 \in 1..Len(p) /\ n + 1 - 1 = n
    BY <1>1, <1>2
  <2>2. ReadingIn(c, p)[n + 1] = Opened(c, ReadingIn(c, p)[n + 1 - 1], p[n + 1], p[n + 1 + 1])
    <3>1. Len(p) \in Nat
      BY <1>1, <1>2
    <3>2. \A i \in 1..Len(p) : ReadingIn(c, p)[i] = Opened(c, ReadingIn(c, p)[i - 1], p[i], p[i + 1])
      BY <3>1, ReadingSteps
    <3> QED BY <2>1, <3>2
  <2> QED BY <1>2, <1>4, <2>1, <2>2 DEF Opened
<1> QED BY <1>1, <1>2, <1>5 DEF Reads, p

\* An INDENT and its token open a block at the column of the token.
LEMMA ReadsIndent ==
    ASSUME NEW c, NEW given, NEW kept, Reads(c, given, kept), NEW x \in Given, x.kind = "indent",
           NEW t \in Given, t.kind \notin {"indent", "dedent"}, ColumnIn(c, t) \in Measure
    PROVE  Reads(c, given \o <<x, t>>, Append(kept, ColumnIn(c, t)))
<1> DEFINE n == Len(given)
           p == given \o <<x, t>>
<1>1. given \in Seq(Given) /\ n \in Nat /\ kept \in Seq(Measure)
      /\ (n > 0 => given[n].kind # "indent") /\ ReadingIn(c, given)[n] = kept
  BY DEF Reads
<1>2. p \in Seq(Given) /\ Len(p) = n + 2 /\ p[n + 1] = x /\ p[n + 2] = t /\ \A i \in 1..n : p[i] = given[i]
  <2> HIDE DEF Given
  <2> QED BY <1>1
<1> HIDE DEF p
<1>3. \A i \in 1..n : given[i] = p[i] /\ (given[i].kind = "indent" => given[i + 1] = p[i + 1])
  <2> TAKE i \in 1..n
  <2>1. CASE i = n
    BY <1>1, <1>2, <2>1
  <2>2. CASE i # n
    <3>1. i + 1 \in 1..n
      BY <1>1, <2>2
    <3> QED BY <1>2, <3>1
  <2> QED BY <2>1, <2>2
<1>4. ReadingIn(c, p)[n] = kept
  <2>1. \A i \in 0..n : ReadingIn(c, given)[i] = ReadingIn(c, p)[i]
    <3> DEFINE k == n
    <3>1. k \in Nat /\ Len(given) \in Nat /\ Len(p) \in Nat /\ k <= Len(given) /\ k <= Len(p)
          /\ \A i \in 1..k : given[i] = p[i] /\ (given[i].kind = "indent" => given[i + 1] = p[i + 1])
      BY <1>1, <1>2, <1>3
    <3> HIDE DEF k
    <3>2. \A i \in 0..k : ReadingIn(c, given)[i] = ReadingIn(c, p)[i]
      BY <3>1, ReadingAgrees
    <3> QED BY <3>2 DEF k
  <2>2. n \in 0..n
    BY <1>1
  <2> QED BY <1>1, <2>1, <2>2
<1>5. ReadingIn(c, p)[n + 1] = Append(kept, ColumnIn(c, t))
  <2>1. n + 1 \in 1..Len(p) /\ n + 1 - 1 = n /\ n + 1 + 1 = n + 2
    BY <1>1, <1>2
  <2>2. ReadingIn(c, p)[n + 1] = Opened(c, ReadingIn(c, p)[n + 1 - 1], p[n + 1], p[n + 1 + 1])
    <3>1. Len(p) \in Nat
      BY <1>1, <1>2
    <3>2. \A i \in 1..Len(p) : ReadingIn(c, p)[i] = Opened(c, ReadingIn(c, p)[i - 1], p[i], p[i + 1])
      BY <3>1, ReadingSteps
    <3> QED BY <2>1, <3>2
  <2> QED BY <1>2, <1>4, <2>1, <2>2 DEF Opened
<1>6. ReadingIn(c, p)[n + 2] = Append(kept, ColumnIn(c, t))
  <2>1. n + 2 \in 1..Len(p) /\ n + 2 - 1 = n + 1
    BY <1>1, <1>2
  <2>2. ReadingIn(c, p)[n + 2] = Opened(c, ReadingIn(c, p)[n + 2 - 1], p[n + 2], p[n + 2 + 1])
    <3>1. Len(p) \in Nat
      BY <1>1, <1>2
    <3>2. \A i \in 1..Len(p) : ReadingIn(c, p)[i] = Opened(c, ReadingIn(c, p)[i - 1], p[i], p[i + 1])
      BY <3>1, ReadingSteps
    <3> QED BY <2>1, <3>2
  <2> QED BY <1>2, <1>5, <2>1, <2>2 DEF Opened
<1>7. Append(kept, ColumnIn(c, t)) \in Seq(Measure)
  <2> HIDE DEF Measure
  <2> QED BY <1>1
<1>8. t.kind # "indent"
  OBVIOUS
<1> QED BY <1>1, <1>2, <1>6, <1>7, <1>8 DEF Reads, p

\* Tokens that are no INDENT or DEDENT leave a reader where it was.
LEMMA ReadingRests ==
    ASSUME NEW c, NEW o, Len(o) \in Nat, NEW n \in 0..Len(o),
           \A i \in (n + 1)..Len(o) : o[i].kind \notin {"indent", "dedent"}
    PROVE  ReadingIn(c, o)[Len(o)] = ReadingIn(c, o)[n]
<1> DEFINE f == ReadingIn(c, o)
           Wrong == { i \in n..Len(o) : f[i] # f[n] }
<1>1. \A i \in 1..Len(o) : f[i] = Opened(c, f[i - 1], o[i], o[i + 1])
  BY ReadingSteps
<1> HIDE DEF f
<1>2. SUFFICES ASSUME Wrong # {} PROVE FALSE
  <2>1. Wrong = {} => f[Len(o)] = f[n]
    OBVIOUS
  <2> HIDE DEF Wrong
  <2> QED BY <2>1 DEF f
<1>3. Wrong \in SUBSET Nat
  OBVIOUS
<1>4. PICK i \in Wrong : \A k \in Wrong : <<k, i>> \notin OpToRel(<, Nat)
  <2> HIDE DEF Wrong
  <2> QED BY <1>2, <1>3, NatLessThanWellFounded, WFMin
<1>5. i \in (n + 1)..Len(o) /\ f[i] # f[n] /\ i \in 1..Len(o) /\ i - 1 \in n..Len(o)
  <2>1. i \in n..Len(o) /\ f[i] # f[n]
    BY <1>4
  <2>2. i # n
    BY <2>1
  <2> QED BY <2>1, <2>2
<1>6. f[i - 1] = f[n]
  <2>1. i - 1 \in Nat /\ i \in Nat /\ i - 1 < i
    BY <1>5
  <2>2. i - 1 \notin Wrong
    <3> HIDE DEF Wrong
    <3> QED BY <1>4, <2>1 DEF OpToRel
  <2> QED BY <1>5, <2>2
<1>7. f[i] = f[i - 1]
  BY <1>1, <1>5 DEF Opened
<1> QED BY <1>5, <1>6, <1>7

\* Two sequences joined.
LEMMA JoinTyped ==
    ASSUME NEW S, NEW s \in Seq(S), NEW t \in Seq(S)
    PROVE  /\ s \o t \in Seq(S) /\ Len(s \o t) = Len(s) + Len(t)
           /\ \A i \in 1..Len(s) : (s \o t)[i] = s[i]
           /\ \A i \in (Len(s) + 1)..(Len(s) + Len(t)) : (s \o t)[i] = t[i - Len(s)]
OBVIOUS

\* A sequence with a member put in its middle.
LEMMA InsertTyped ==
    ASSUME NEW S, NEW given \in Seq(S), NEW node \in 1..Len(given), NEW x \in S
    PROVE  /\ InsertAt(given, node, x) \in Seq(S) /\ Len(InsertAt(given, node, x)) = Len(given) + 1
           /\ InsertAt(given, node, x)[node] = x
           /\ \A i \in 1..(node - 1) : InsertAt(given, node, x)[i] = given[i]
           /\ \A i \in (node + 1)..(Len(given) + 1) : InsertAt(given, node, x)[i] = given[i - 1]
<1> DEFINE n == Len(given)
           p == InsertAt(given, node, x)
           a == SubSeq(given, 1, node - 1)
           b == SubSeq(given, node, n)
<1>1. given \in Seq(S) /\ n \in Nat /\ node \in 1..n /\ node - 1 \in 0..n
  OBVIOUS
<1>2. p = a \o <<x>> \o b
  BY DEF InsertAt
<1>3. a \in Seq(S) /\ Len(a) = node - 1 /\ \A i \in 1..(node - 1) : a[i] = given[i]
  <2> QED BY <1>1
<1>4. b \in Seq(S) /\ Len(b) = n - node + 1 /\ \A i \in 1..(n - node + 1) : b[i] = given[node - 1 + i]
  <2> QED BY <1>1
<1> HIDE DEF a, b
<1>5. p \in Seq(S) /\ Len(p) = n + 1 /\ p[node] = x
      /\ (\A i \in 1..(node - 1) : p[i] = given[i])
      /\ \A i \in (node + 1)..(n + 1) : p[i] = given[i - 1]
  <2> DEFINE d == a \o <<x>>
  <2>1. d \in Seq(S) /\ Len(d) = node /\ d[node] = x /\ \A i \in 1..(node - 1) : d[i] = a[i]
    <3> QED BY <1>1, <1>3
  <2> HIDE DEF d
  <2>2. d \o b \in Seq(S) /\ Len(d \o b) = n + 1 /\ (\A i \in 1..node : (d \o b)[i] = d[i])
        /\ \A i \in (node + 1)..(n + 1) : (d \o b)[i] = b[i - node]
    <3> DEFINE k == n - node + 1
    <3>1. k \in Nat /\ node \in Nat /\ node + k = n + 1 /\ Len(d) = node /\ Len(b) = k
      BY <1>1, <1>4, <2>1
    <3> HIDE DEF k
    <3>2. d \in Seq(S) /\ b \in Seq(S)
      BY <1>4, <2>1
    <3>3. d \o b \in Seq(S) /\ Len(d \o b) = Len(d) + Len(b)
          /\ (\A i \in 1..Len(d) : (d \o b)[i] = d[i])
          /\ \A i \in (Len(d) + 1)..(Len(d) + Len(b)) : (d \o b)[i] = b[i - Len(d)]
      BY <3>2, JoinTyped
    <3> QED BY <3>1, <3>3
  <2>3. p = d \o b
    BY <1>2 DEF d
  <2>4. \A i \in (node + 1)..(n + 1) : i - node \in 1..(n - node + 1) /\ node - 1 + (i - node) = i - 1
    BY <1>1
  <2>5. node \in 1..node /\ \A i \in 1..(node - 1) : i \in 1..node
    BY <1>1
  <2> HIDE DEF p
  <2>6. ASSUME NEW i \in (node + 1)..(n + 1) PROVE p[i] = given[i - 1]
    <3>1. i - node \in 1..(n - node + 1) /\ node - 1 + (i - node) = i - 1
      BY <2>4
    <3>2. p[i] = b[i - node]
      BY <2>2, <2>3
    <3>3. b[i - node] = given[node - 1 + (i - node)]
      BY <1>4, <3>1
    <3> QED BY <3>1, <3>2, <3>3
  <2>7. \A i \in 1..(node - 1) : p[i] = given[i]
    BY <1>3, <2>1, <2>2, <2>3, <2>5
  <2>8. p[node] = x
    BY <2>1, <2>2, <2>3, <2>5
  <2> QED BY <2>2, <2>3, <2>6, <2>7, <2>8
<1> QED BY <1>5

\* An INDENT put before a token given earlier, with no block opened or closed since, opens a block at
\* that token's column.
LEMMA ReadsInsert ==
    ASSUME NEW c, NEW given, NEW kept, Reads(c, given, kept), NEW node \in 1..Len(given),
           \A i \in node..Len(given) : given[i].kind \notin {"indent", "dedent"},
           node > 1 => given[node - 1].kind # "indent",
           NEW x \in Given, x.kind = "indent", ColumnIn(c, given[node]) \in Measure
    PROVE  Reads(c, InsertAt(given, node, x), Append(kept, ColumnIn(c, given[node])))
<1> DEFINE n == Len(given)
           p == InsertAt(given, node, x)
           here == ColumnIn(c, given[node])
<1>1. given \in Seq(Given) /\ n \in Nat /\ kept \in Seq(Measure) /\ ReadingIn(c, given)[n] = kept
      /\ node \in 1..n /\ node - 1 \in 0..n
  BY DEF Reads
<1>2. p \in Seq(Given) /\ Len(p) = n + 1 /\ p[node] = x
      /\ (\A i \in 1..(node - 1) : p[i] = given[i])
      /\ \A i \in (node + 1)..(n + 1) : p[i] = given[i - 1]
  <2>1. given \in Seq(Given) /\ n \in Nat
    BY <1>1
  <2> QED BY <2>1, InsertTyped
<1> HIDE DEF p
<1>3. ReadingIn(c, given)[node - 1] = kept
  <2> DEFINE k == node - 1
  <2>1. k \in 0..Len(given) /\ Len(given) \in Nat /\ k + 1 = node
    BY <1>1
  <2>2. \A i \in (k + 1)..Len(given) : given[i].kind \notin {"indent", "dedent"}
    BY <2>1
  <2> HIDE DEF k
  <2>3. ReadingIn(c, given)[Len(given)] = ReadingIn(c, given)[k]
    BY <2>1, <2>2, ReadingRests
  <2> QED BY <1>1, <2>3 DEF k
<1>4. ReadingIn(c, p)[node - 1] = kept
  <2> DEFINE k == node - 1
  <2>1. k \in Nat /\ Len(given) \in Nat /\ Len(p) \in Nat /\ k <= Len(given) /\ k <= Len(p) /\ k + 1 = node
    BY <1>1, <1>2
  <2>2. \A i \in 1..k : given[i] = p[i] /\ (given[i].kind = "indent" => given[i + 1] = p[i + 1])
    <3> TAKE i \in 1..k
    <3>1. CASE i = node - 1
      <4>1. node > 1 /\ given[i].kind # "indent"
        BY <1>1, <3>1
      <4> QED BY <1>2, <4>1
    <3>2. CASE i # node - 1
      <4>1. i + 1 \in 1..(node - 1)
        BY <1>1, <3>2
      <4> QED BY <1>2, <4>1
    <3> QED BY <3>1, <3>2
  <2> HIDE DEF k
  <2>3. \A i \in 0..k : ReadingIn(c, given)[i] = ReadingIn(c, p)[i]
    BY <2>1, <2>2, ReadingAgrees
  <2>4. k \in 0..k
    BY <2>1
  <2>5. ReadingIn(c, given)[k] = ReadingIn(c, p)[k]
    BY <2>3, <2>4
  <2> QED BY <1>3, <2>5 DEF k
<1>5. ReadingIn(c, p)[node] = Append(kept, here)
  <2>1. node \in 1..Len(p) /\ node + 1 \in (node + 1)..(n + 1) /\ node + 1 - 1 = node
    BY <1>1, <1>2
  <2>2. ReadingIn(c, p)[node] = Opened(c, ReadingIn(c, p)[node - 1], p[node], p[node + 1])
    <3>1. Len(p) \in Nat
      BY <1>1, <1>2
    <3>2. \A i \in 1..Len(p) : ReadingIn(c, p)[i] = Opened(c, ReadingIn(c, p)[i - 1], p[i], p[i + 1])
      BY <3>1, ReadingSteps
    <3> QED BY <2>1, <3>2
  <2>3. p[node + 1] = given[node]
    <3> DEFINE k == node + 1
    <3>1. k \in (node + 1)..(n + 1) /\ k - 1 = node
      BY <2>1
    <3> HIDE DEF k
    <3>2. p[k] = given[k - 1]
      BY <1>2, <3>1
    <3> QED BY <3>1, <3>2 DEF k
  <2> QED BY <1>2, <1>4, <2>2, <2>3 DEF Opened
<1>6. ReadingIn(c, p)[Len(p)] = Append(kept, here)
  <2>1. node \in 0..Len(p) /\ Len(p) \in Nat
    BY <1>1, <1>2
  <2>2. \A i \in (node + 1)..Len(p) : p[i].kind \notin {"indent", "dedent"}
    <3>1. ASSUME NEW i \in (node + 1)..(n + 1) PROVE p[i].kind \notin {"indent", "dedent"}
      <4>1. i - 1 \in node..n
        BY <1>1
      <4>2. p[i] = given[i - 1]
        BY <1>2
      <4> QED BY <4>1, <4>2
    <3> QED BY <1>2, <3>1, Zenon
  <2>3. ReadingIn(c, p)[Len(p)] = ReadingIn(c, p)[node]
    BY <2>1, <2>2, ReadingRests
  <2> QED BY <1>5, <2>3
<1>7. p[Len(p)].kind # "indent"
  <2>1. n + 1 \in (node + 1)..(n + 1) /\ n + 1 - 1 = n /\ n \in node..n
    BY <1>1
  <2>2. p[n + 1] = given[n]
    <3> DEFINE k == n + 1
    <3>1. k \in (node + 1)..(n + 1) /\ k - 1 = n
      BY <2>1
    <3> HIDE DEF k
    <3>2. p[k] = given[k - 1]
      BY <1>2, <3>1
    <3> QED BY <3>1, <3>2 DEF k
  <2> QED BY <1>2, <2>1, <2>2
<1>8. Append(kept, here) \in Seq(Measure)
  <2> HIDE DEF Measure
  <2> QED BY <1>1
<1> QED BY <1>2, <1>6, <1>7, <1>8 DEF Reads, p

\* A prefix, and the same less its last member.
LEMMA FrontOfPrefix ==
    ASSUME NEW S, NEW s \in Seq(S), NEW j \in 1..Len(s)
    PROVE  Front(SubSeq(s, 1, j)) = SubSeq(s, 1, j - 1)
<1> DEFINE p == SubSeq(s, 1, j)
           u == SubSeq(p, 1, j - 1)
           v == SubSeq(s, 1, j - 1)
<1>1. Len(s) \in Nat /\ j \in Nat /\ j >= 1 /\ j <= Len(s) /\ j - 1 \in 0..j
  OBVIOUS
<1>2. p \in Seq(S) /\ Len(p) = j /\ \A i \in 1..j : p[i] = s[i]
  BY <1>1
<1>3. v \in Seq(S) /\ Len(v) = j - 1 /\ \A i \in 1..(j - 1) : v[i] = s[i]
  BY <1>1
<1> HIDE DEF p, v
<1>4. u \in Seq(S) /\ Len(u) = j - 1 /\ \A i \in 1..(j - 1) : u[i] = p[i]
  BY <1>1, <1>2
<1> HIDE DEF u
<1>5. \A i \in 1..(j - 1) : i \in 1..j
  BY <1>1
<1>6. Len(u) = Len(v) /\ \A i \in 1..Len(u) : u[i] = v[i]
  BY <1>2, <1>3, <1>4, <1>5
<1>7. u = v
  BY <1>3, <1>4, <1>6, SeqEqual
<1>8. Front(p) = u
  BY <1>2 DEF Front, u
<1> QED BY <1>7, <1>8 DEF p, v

\* DEDENTs close the blocks last opened, one each.
LEMMA ReadsDedents ==
    ASSUME NEW c, NEW given, NEW kept, Reads(c, given, kept), NEW x \in Given, x.kind = "dedent",
           NEW m \in 0..Len(kept), NEW t, t = [i \in 1..m |-> x]
    PROVE  Reads(c, given \o t, SubSeq(kept, 1, Len(kept) - m))
<1> DEFINE n == Len(given)
           p == given \o t
           f == ReadingIn(c, p)
           Wrong == { k \in 0..m : f[n + k] # SubSeq(kept, 1, Len(kept) - k) }
<1>1. given \in Seq(Given) /\ n \in Nat /\ kept \in Seq(Measure) /\ ReadingIn(c, given)[n] = kept
      /\ m \in Nat /\ m <= Len(kept) /\ Len(kept) \in Nat /\ (n > 0 => given[n].kind # "indent")
  BY DEF Reads
<1>2. t \in Seq(Given) /\ Len(t) = m /\ \A i \in 1..m : t[i] = x
  BY <1>1
<1>3. p \in Seq(Given) /\ Len(p) = n + m /\ (\A i \in 1..n : p[i] = given[i]) /\ \A i \in (n + 1)..(n + m) : p[i] = x
  <2>1. p \in Seq(Given) /\ Len(p) = n + m /\ (\A i \in 1..n : p[i] = given[i])
        /\ \A i \in (n + 1)..(n + m) : p[i] = t[i - n]
    <3> HIDE DEF Given
    <3> QED BY <1>1, <1>2
  <2>2. \A i \in (n + 1)..(n + m) : i - n \in 1..m
    BY <1>1
  <2> HIDE DEF p
  <2> QED BY <1>2, <2>1, <2>2
<1> HIDE DEF p
<1>4. f[n] = kept
  <2>1. \A i \in 1..n : given[i] = p[i] /\ (given[i].kind = "indent" => given[i + 1] = p[i + 1])
    <3> TAKE i \in 1..n
    <3>1. CASE i = n
      BY <1>1, <1>3, <3>1
    <3>2. CASE i # n
      <4>1. i + 1 \in 1..n
        BY <1>1, <3>2
      <4> QED BY <1>3, <4>1
    <3> QED BY <3>1, <3>2
  <2> DEFINE k == n
  <2>2. k \in Nat /\ Len(given) \in Nat /\ Len(p) \in Nat /\ k <= Len(given) /\ k <= Len(p)
        /\ \A i \in 1..k : given[i] = p[i] /\ (given[i].kind = "indent" => given[i + 1] = p[i + 1])
    BY <1>1, <1>3, <2>1
  <2> HIDE DEF k
  <2>3. \A i \in 0..k : ReadingIn(c, given)[i] = ReadingIn(c, p)[i]
    BY <2>2, ReadingAgrees
  <2>4. k \in 0..k
    BY <2>2
  <2>5. ReadingIn(c, given)[k] = ReadingIn(c, p)[k]
    BY <2>3, <2>4
  <2> QED BY <1>1, <2>5 DEF k
<1>5. \A i \in 1..Len(p) : f[i] = Opened(c, f[i - 1], p[i], p[i + 1])
  <2>1. Len(p) \in Nat
    BY <1>1, <1>3
  <2>2. \A i \in 1..Len(p) : ReadingIn(c, p)[i] = Opened(c, ReadingIn(c, p)[i - 1], p[i], p[i + 1])
    BY <2>1, ReadingSteps
  <2> QED BY <2>2
<1> HIDE DEF f
<1>6. Wrong = {}
  <2> SUFFICES ASSUME Wrong # {} PROVE FALSE
    OBVIOUS
  <2>1. Wrong \in SUBSET Nat
    OBVIOUS
  <2>2. PICK k \in Wrong : \A j \in Wrong : <<j, k>> \notin OpToRel(<, Nat)
    <3> HIDE DEF Wrong
    <3> QED BY <2>1, NatLessThanWellFounded, WFMin
  <2>3. k \in 0..m /\ f[n + k] # SubSeq(kept, 1, Len(kept) - k)
    BY <2>2
  <2>4. k # 0
    <3>1. SubSeq(kept, 1, Len(kept) - 0) = kept
      <4> HIDE DEF Measure
      <4>1. SubSeq(kept, 1, Len(kept)) \in Seq(Measure) /\ Len(SubSeq(kept, 1, Len(kept))) = Len(kept)
            /\ \A i \in 1..Len(kept) : SubSeq(kept, 1, Len(kept))[i] = kept[i]
        BY <1>1
      <4>2. Len(kept) - 0 = Len(kept)
        BY <1>1
      <4> QED BY <1>1, <4>1, <4>2, SeqEqual
    <3>2. n + 0 = n
      BY <1>1
    <3> QED BY <1>4, <2>3, <3>1, <3>2
  <2>5. k - 1 \in 0..m /\ n + k - 1 = n + (k - 1) /\ n + k \in (n + 1)..(n + m) /\ n + k \in 1..Len(p)
    BY <1>1, <1>3, <2>3, <2>4
  <2>6. f[n + (k - 1)] = SubSeq(kept, 1, Len(kept) - (k - 1))
    <3>1. k - 1 \in Nat /\ k \in Nat /\ k - 1 < k
      BY <1>1, <2>3, <2>5
    <3>2. k - 1 \notin Wrong
      <4> HIDE DEF Wrong
      <4> QED BY <2>2, <3>1 DEF OpToRel
    <3> QED BY <2>5, <3>2
  <2>7. f[n + k] = Front(f[n + (k - 1)])
    <3>1. f[n + k] = Opened(c, f[n + k - 1], p[n + k], p[n + k + 1])
      BY <1>5, <2>5
    <3>2. p[n + k] = x
      BY <1>3, <2>5
    <3> QED BY <2>5, <3>1, <3>2 DEF Opened
  <2>8. Front(SubSeq(kept, 1, Len(kept) - (k - 1))) = SubSeq(kept, 1, Len(kept) - k)
    <3> DEFINE j == Len(kept) - (k - 1)
    <3>1. j \in 1..Len(kept) /\ j - 1 = Len(kept) - k
      <4> DEFINE l == Len(kept)
      <4>1. l \in Nat /\ m \in Nat /\ m <= l
        BY <1>1
      <4> HIDE DEF l
      <4>2. k \in 0..m /\ k # 0
        BY <2>3, <2>4
      <4>3. l - (k - 1) \in 1..l /\ l - (k - 1) - 1 = l - k
        BY <4>1, <4>2
      <4> QED BY <4>3 DEF l
    <3> HIDE DEF j, Measure
    <3>2. Front(SubSeq(kept, 1, j)) = SubSeq(kept, 1, j - 1)
      BY <1>1, <3>1, FrontOfPrefix
    <3> QED BY <3>1, <3>2 DEF j
  <2> QED BY <2>3, <2>6, <2>7, <2>8
<1>7. f[n + m] = SubSeq(kept, 1, Len(kept) - m)
  <2>1. m \in 0..m
    BY <1>1
  <2> QED BY <1>6, <2>1
<1>8. SubSeq(kept, 1, Len(kept) - m) \in Seq(Measure)
  <2> HIDE DEF Measure
  <2> QED BY <1>1
<1>9. Len(p) > 0 => p[Len(p)].kind # "indent"
  <2>1. CASE m = 0
    BY <1>1, <1>3, <2>1
  <2>2. CASE m # 0
    <3>1. n + m \in (n + 1)..(n + m)
      BY <1>1, <2>2
    <3> QED BY <1>3, <3>1
  <2> QED BY <2>1, <2>2
<1> QED BY <1>3, <1>7, <1>8, <1>9 DEF Reads, p, f

-----------------------------------------------------------------------------
(* What the pass gives, as its reader sees it *)

\* A node waits at its column, with no block opened or closed since it was given.
Waits ==
    outcome = "running" /\ pending # 0 =>
        /\ pendingAt = ColumnIn(call, out[pending])
        /\ \A i \in pending..Len(out) : out[i].kind \notin {"indent", "dedent"}
        /\ pending > 1 => out[pending - 1].kind # "indent"

\* The tokens given are read as the blocks open, and the meter says where it stands in the source.
Readable ==
    /\ TypeOK
    /\ Reads(call, out, levels)
    /\ width = MeterAt(call.source, at)
    /\ Waits

\* A sequence with one more member.
LEMMA AppendTyped ==
    ASSUME NEW S, NEW s \in Seq(S), NEW x \in S
    PROVE  /\ Append(s, x) \in Seq(S) /\ Len(s) \in Nat /\ Len(Append(s, x)) = Len(s) + 1
           /\ Append(s, x)[Len(s) + 1] = x
           /\ \A i \in 1..Len(s) : Append(s, x)[i] = s[i]
OBVIOUS

\* Where a token is measured is its column.
LEMMA HereIsColumn ==
    ASSUME Readable, next <= Len(call.tokens), PythonTabs => at = Current.start.offset
    PROVE  Here = ColumnIn(call, Current) /\ ColumnIn(call, Current) \in Measure
<1>1. Here \in Measure
  BY HereTyped DEF Readable
<1>2. CASE PythonTabs
  <2>1. Here = MeterAt(call.source, Current.start.offset)
    BY <1>2 DEF Here, Readable
  <2> QED BY <1>1, <1>2, <2>1, ColumnIsMeter DEF PythonTabs
<1>3. CASE ~PythonTabs
  <2>1. ColumnIn(call, Current) = [tab8 |-> Current.start.column - 1, tab1 |-> 0]
    BY <1>3, ColumnIsMeter DEF PythonTabs
  <2> QED BY <1>1, <1>3, <2>1 DEF Here
<1> QED BY <1>2, <1>3

\* The NEWLINE that ends a line is no block's.
LEMMA EndedReads ==
    ASSUME Readable, NEW start \in Positions
    PROVE  Reads(call, IF started THEN Append(out, Mark("newline", start)) ELSE out, levels)
<1>1. Reads(call, out, levels)
  BY DEF Readable
<1>2. Mark("newline", start) \in Given /\ Mark("newline", start).kind = "newline"
  <2>1. "newline" \in Synthetic
    BY DEF Synthetic
  <2> QED BY <2>1, MarkTyped
<1>3. Reads(call, Append(out, Mark("newline", start)), levels)
  BY <1>1, <1>2, ReadsAppend
<1> QED BY <1>1, <1>3

\* The DEDENTs a line asks for are those of the blocks its width does not leave open.
LEMMA DedentsRead ==
    ASSUME NEW c, NEW given, Reads(c, given, levels), NEW start \in Positions, NEW w
    PROVE  Reads(c, given \o Dedents(start, Kept(w)), Kept(w))
<1> DEFINE n == Len(levels)
           k == Depth(w)
           m == n - k
           x == Mark("dedent", start)
           t == [i \in 1..m |-> x]
<1>1. levels \in Seq(Measure) /\ n \in Nat
  BY DEF Reads
<1>2. k \in 0..n
  <2> DEFINE D == {0} \cup { d \in DOMAIN levels : levels[d].tab8 <= w }
  <2>1. D # {} /\ \A d \in D : d \in 0..n
    BY <1>1
  <2>2. k = Max(D)
    BY DEF Depth
  <2> HIDE DEF D, k, n
  <2> QED BY <1>1, <2>1, <2>2, MaxOfDepths
<1>3. Kept(w) = SubSeq(levels, 1, k) /\ Len(Kept(w)) = k
  <2>1. Kept(w) = SubSeq(levels, 1, k)
    BY DEF Kept
  <2> HIDE DEF k
  <2> QED BY <1>1, <1>2, <2>1
<1>4. Dedents(start, Kept(w)) = t
  <2>1. Len(levels) - Len(Kept(w)) = m
    BY <1>3
  <2> QED BY <2>1 DEF Dedents
<1>5. x \in Given /\ x.kind = "dedent"
  <2>1. "dedent" \in Synthetic
    BY DEF Synthetic
  <2> QED BY <2>1, MarkTyped
<1> HIDE DEF k, x
<1>6. m \in 0..Len(levels) /\ Len(levels) - m = k
  BY <1>1, <1>2
<1>7. Reads(c, given \o t, SubSeq(levels, 1, Len(levels) - m))
  <2> DEFINE u == t
  <2>1. u = [i \in 1..m |-> x]
    OBVIOUS
  <2> HIDE DEF u, m
  <2>2. Reads(c, given \o u, SubSeq(levels, 1, Len(levels) - m))
    BY <1>5, <1>6, <2>1, ReadsDedents
  <2> QED BY <2>2 DEF u
<1> QED BY <1>3, <1>4, <1>6, <1>7

\* A token that shapes layout leaves what is given readable, whatever of the four it does.
LEMMA PlaceReads ==
    ASSUME Readable, next <= Len(call.tokens), outcome = "running",
           NEW given, NEW kept, NEW deeper \in BOOLEAN, Reads(call, given, kept),
           ~LineStart => given = out,
           Past \/ deeper => Here = ColumnIn(call, Current),
           Place(given, kept, deeper)
    PROVE  Readable'
<1>1. /\ next' = next + 1 /\ call' = call /\ at' = at /\ width' = width /\ endPosition' = endPosition
      /\ outcome' = "running" /\ started' = TRUE
  BY DEF Place, Takes, Reaches
<1>2. Current \in Given /\ Current.kind \notin {"indent", "dedent"} /\ Current.start \in Positions
      /\ Here \in Measure /\ next \in Nat /\ next > 0
  BY CallTyped, CurrentTyped, HereTyped DEF Readable, Synthetic
<1>3. given \in Seq(Given) /\ Len(given) \in Nat /\ (Len(given) > 0 => given[Len(given)].kind # "indent")
  BY DEF Reads
<1>4. pending \in 0..Len(out) /\ out \in Seq(Given) /\ Len(out) \in Nat /\ pendingAt \in Measure
  BY DEF Readable, TypeOK
<1> DEFINE Fits1 == /\ Reads(call, out', levels') /\ pending' \in 0..Len(out') /\ pendingAt' \in Measure
                    /\ pending' # 0 =>
                          /\ pendingAt' = ColumnIn(call, out'[pending'])
                          /\ \A i \in pending'..Len(out') : out'[i].kind \notin {"indent", "dedent"}
                          /\ pending' > 1 => out'[pending' - 1].kind # "indent"
<1>5. Fits1
  <2> DEFINE p == Append(given, Current)
             n == Len(given)
  <2>1. p \in Seq(Given) /\ Len(p) = n + 1 /\ p[n + 1] = Current /\ \A i \in 1..n : p[i] = given[i]
    BY <1>2, <1>3, AppendTyped
  <2>2. Reads(call, p, kept)
    BY <1>2, ReadsAppend
  <2>3. CASE NodeWaits(given, kept, deeper)
    <3>1. out' = p /\ levels' = kept /\ pending' = n + 1 /\ pendingAt' = Here /\ Here = ColumnIn(call, Current)
      BY <2>3 DEF NodeWaits
    <3> HIDE DEF p
    <3>2. pending' \in 0..Len(out') /\ pending' - 1 = n /\ out'[pending'] = Current
      BY <1>3, <2>1, <3>1
    <3>3. \A i \in pending'..Len(out') : out'[i].kind \notin {"indent", "dedent"}
      <4>1. \A i \in pending'..Len(out') : i = n + 1
        BY <1>3, <2>1, <3>1
      <4> QED BY <1>2, <2>1, <3>1, <4>1
    <3>4. pending' > 1 => out'[pending' - 1].kind # "indent"
      <4>1. pending' > 1 => n \in 1..n /\ n > 0
        BY <1>3, <3>1
      <4> QED BY <1>3, <2>1, <3>1, <3>2, <4>1
    <3> QED BY <1>2, <2>2, <3>1, <3>2, <3>3, <3>4
  <2>4. CASE EntryOpens(given, kept, deeper)
    <3> DEFINE x == Mark("indent", Current.start)
    <3>1. x \in Given /\ x.kind = "indent"
      <4>1. "indent" \in Synthetic
        BY DEF Synthetic
      <4> QED BY <1>2, <4>1, MarkTyped
    <3>2. out' = given \o <<x, Current>> /\ levels' = Append(kept, Here) /\ pending' = 0 /\ pendingAt' = Here
          /\ Here = ColumnIn(call, Current)
      BY <2>4 DEF EntryOpens
    <3> HIDE DEF x
    <3>3. Reads(call, out', levels')
      BY <1>2, <3>1, <3>2, ReadsIndent
    <3>4. pending' \in 0..Len(out')
      <4>1. out' \in Seq(Given)
        BY <3>3 DEF Reads
      <4> QED BY <3>2, <4>1
    <3> QED BY <1>2, <3>2, <3>3, <3>4
  <2>5. CASE ValueOpens(given, kept, deeper)
    <3> DEFINE x == Mark("indent", given[pending].start)
               opened == InsertAt(given, pending, x)
    <3>1. out' = Append(Indented(given, pending), Current) /\ levels' = Append(kept, pendingAt) /\ pending' = 0
          /\ pendingAt' = pendingAt /\ pending # 0 /\ given = out
      BY <2>5 DEF ValueOpens, ValueShows
    <3>2. out' = Append(opened, Current)
      BY <3>1 DEF Indented
    <3>3. pending \in 1..Len(given) /\ given[pending] \in Given
      BY <1>4, <3>1
    <3>4. x \in Given /\ x.kind = "indent"
      <4>1. given[pending].start \in Positions
        BY <3>3 DEF Given
      <4>2. "indent" \in Synthetic
        BY DEF Synthetic
      <4> QED BY <4>1, <4>2, MarkTyped
    <3>5. /\ pendingAt = ColumnIn(call, given[pending])
          /\ \A i \in pending..Len(given) : given[i].kind \notin {"indent", "dedent"}
          /\ pending > 1 => given[pending - 1].kind # "indent"
      BY <3>1 DEF Readable, Waits
    <3> HIDE DEF x
    <3>6. Reads(call, opened, Append(kept, pendingAt))
      <4> DEFINE node == pending
      <4>1. /\ node \in 1..Len(given) /\ pendingAt = ColumnIn(call, given[node])
            /\ \A i \in node..Len(given) : given[i].kind \notin {"indent", "dedent"}
            /\ node > 1 => given[node - 1].kind # "indent"
            /\ ColumnIn(call, given[node]) \in Measure
        BY <1>4, <3>3, <3>5
      <4> HIDE DEF node
      <4>2. Reads(call, InsertAt(given, node, x), Append(kept, ColumnIn(call, given[node])))
        BY <3>4, <4>1, ReadsInsert
      <4> QED BY <4>1, <4>2 DEF node
    <3> HIDE DEF opened
    <3>7. Reads(call, out', levels')
      BY <1>2, <3>1, <3>2, <3>6, ReadsAppend
    <3>8. pending' \in 0..Len(out')
      <4>1. out' \in Seq(Given)
        BY <3>7 DEF Reads
      <4> QED BY <3>1, <4>1
    <3> QED BY <1>4, <3>1, <3>7, <3>8
  <2>6. CASE OpensNothing(given, kept, deeper)
    <3>1. out' = p /\ levels' = kept /\ pendingAt' = pendingAt /\ pending' = IF LineStart THEN 0 ELSE pending
      BY <2>6 DEF OpensNothing, PendingAfter
    <3> HIDE DEF p
    <3>2. CASE LineStart
      <4>1. pending' = 0 /\ pending' \in 0..Len(out')
        BY <1>3, <2>1, <3>1, <3>2
      <4> QED BY <1>4, <2>2, <3>1, <4>1
    <3>3. CASE ~LineStart
      <4>1. given = out /\ pending' = pending /\ pending' \in 0..Len(out')
        BY <1>3, <1>4, <2>1, <3>1, <3>3
      <4>2. ASSUME pending # 0
            PROVE  /\ out'[pending] = out[pending]
                   /\ \A i \in pending..Len(out') : out'[i].kind \notin {"indent", "dedent"}
                   /\ pending > 1 => out'[pending - 1].kind # "indent"
        <5>1. pending \in 1..n /\ (pending > 1 => pending - 1 \in 1..n)
              /\ \A i \in pending..(n + 1) : i = n + 1 \/ (i \in 1..n /\ i \in pending..n)
          BY <1>4, <4>1, <4>2
        <5>2. /\ \A i \in pending..n : given[i].kind \notin {"indent", "dedent"}
              /\ pending > 1 => given[pending - 1].kind # "indent"
          BY <4>1, <4>2 DEF Readable, Waits
        <5> QED BY <1>2, <2>1, <3>1, <4>1, <5>1, <5>2
      <4>3. pending # 0 => pendingAt = ColumnIn(call, out[pending])
        BY DEF Readable, Waits
      <4> QED BY <1>4, <2>2, <3>1, <4>1, <4>2, <4>3
    <3> QED BY <3>2, <3>3
  <2> QED BY <2>3, <2>4, <2>5, <2>6 DEF Place
<1>6. TypeOK'
  <2>1. next' \in Nat \ {0} /\ call' \in Calls /\ at' \in 0..Len(call'.source) /\ width' \in Measure
        /\ started' \in BOOLEAN /\ endPosition' \in Positions
    BY <1>1, <1>2 DEF Readable, TypeOK
  <2>2. out' \in Seq(Given) /\ pending' \in 0..Len(out') /\ pendingAt' \in Measure
    BY <1>5 DEF Reads
  <2> QED BY <2>1, <2>2 DEF TypeOK
<1>7. Reads(call, out, levels)' /\ Waits'
  BY <1>1, <1>5 DEF Waits
<1>8. (width = MeterAt(call.source, at))'
  BY <1>1 DEF Readable
<1> QED BY <1>6, <1>7, <1>8 DEF Readable

\* A call begins with nothing to read, and the bottom block.
LEMMA InitReadable ==
    ASSUME Init PROVE Readable
<1>1. Inductive
  BY InitInductive
<1>2. out = <<>> /\ levels = <<Zero>> /\ at = 0 /\ width = Zero /\ pending = 0
  BY DEF Init
<1>3. call.source \in Seq(STRING) /\ levels \in Seq(Measure) /\ out \in Seq(Given) /\ Len(out) = 0
  BY <1>1, <1>2, CallTyped DEF Inductive, Blocks, TypeOK
<1>4. ReadingIn(call, out)[Len(out)] = levels
  <2>1. Len(out) \in Nat
    BY <1>3
  <2> QED BY <1>2, <1>3, <2>1, ReadingSteps
<1>5. width = MeterAt(call.source, at)
  <2>1. at \in 0..Len(call.source)
    BY <1>1 DEF Inductive, TypeOK
  <2> QED BY <1>2, <1>3, <2>1, MeterSteps
<1> QED BY <1>1, <1>2, <1>3, <1>4, <1>5 DEF Readable, Reads, Waits, Inductive

\* The meter goes a character further in the source, or back to its beginning.
LEMMA ReadReads ==
    ASSUME Readable, Read PROVE Readable'
<1>1. /\ next <= Len(call.tokens) /\ Current.start.offset # at /\ Current.start.offset <= Len(call.source)
      /\ width' = IF From = at THEN Widened(width, call.source[at + 1]) ELSE Zero
      /\ at' = IF From = at THEN at + 1 ELSE From
      /\ UNCHANGED <<call, next, out, levels, started, pending, pendingAt, endPosition, outcome>>
  BY DEF Read, Taking
<1>2. Current.start.offset \in Nat /\ at \in 0..Len(call.source) /\ Len(call.source) \in Nat
      /\ call.source \in Seq(STRING)
  <2>1. Current.start.offset \in Nat /\ call.source \in Seq(STRING)
    BY <1>1, CallTyped, CurrentTyped DEF Readable, Positions
  <2>2. at \in 0..Len(call.source)
    BY DEF Readable, TypeOK
  <2> QED BY <2>1, <2>2
<1>3. at' \in 0..Len(call.source) /\ width' \in Measure /\ width' = MeterAt(call.source, at')
  <2>1. CASE From = at
    <3>1. at' = at + 1 /\ width' = Widened(width, call.source[at + 1]) /\ at < Len(call.source)
      BY <1>1, <1>2, <2>1 DEF From
    <3>2. at' \in 0..Len(call.source)
      BY <1>2, <3>1
    <3>3. width' = MeterAt(call.source, at')
      BY <1>2, <3>1, MeterSteps DEF Readable
    <3> QED BY <1>2, <3>2, <3>3, MeterSteps
  <2>2. CASE From # at
    <3>1. at' = 0 /\ width' = Zero
      BY <1>1, <2>2 DEF From
    <3>2. at' \in 0..Len(call.source)
      BY <1>2, <3>1
    <3> QED BY <1>2, <3>1, <3>2, MeterSteps
  <2> QED BY <2>1, <2>2
<1>4. TypeOK'
  BY <1>1, <1>3 DEF Readable, TypeOK
<1>5. Reads(call, out, levels)' /\ Waits'
  BY <1>1 DEF Readable, Waits
<1> QED BY <1>1, <1>3, <1>4, <1>5 DEF Readable

LEMMA FailReads ==
    ASSUME Readable, NEW error, error # "running", Fail(error) PROVE Readable'
BY DEF Fail, Readable, TypeOK, Waits

LEMMA EndTokenReads ==
    ASSUME Readable, EndToken PROVE Readable'
<1>1. next <= Len(call.tokens) /\ endPosition' = Current.start /\ next' = next + 1
      /\ UNCHANGED <<call, at, width, out, levels, started, opens, pending, pendingAt, previousLine, outcome>>
  BY DEF EndToken
<1>2. Current.start \in Positions /\ next \in Nat /\ next > 0
  BY <1>1, CallTyped, CurrentTyped DEF Readable
<1>3. TypeOK'
  BY <1>1, <1>2 DEF Readable, TypeOK
<1>4. Reads(call, out, levels)' /\ Waits'
  BY <1>1 DEF Readable, Waits
<1> QED BY <1>1, <1>3, <1>4 DEF Readable

\* A token of an insignificant mode opens and closes nothing, and a node goes on waiting.
LEMMA PassThroughReads ==
    ASSUME Readable, PassThrough PROVE Readable'
<1> DEFINE n == Len(out)
<1>1. next <= Len(call.tokens) /\ outcome = "running" /\ next' = next + 1 /\ out' = Append(out, Current)
      /\ UNCHANGED <<call, at, width, levels, started, pending, pendingAt, endPosition, outcome>>
  BY DEF PassThrough, Taking, Takes
<1>2. Current \in Given /\ Current.kind \notin {"indent", "dedent"} /\ next \in Nat /\ next > 0
  BY <1>1, CallTyped, CurrentTyped DEF Readable, Synthetic
<1>3. out' \in Seq(Given) /\ n \in Nat /\ Len(out') = n + 1 /\ out'[n + 1] = Current
      /\ \A i \in 1..n : out'[i] = out[i]
  BY <1>1, <1>2, AppendTyped DEF Readable, TypeOK
<1>4. Reads(call, out, levels)'
  BY <1>1, <1>2, ReadsAppend DEF Readable
<1>5. pending \in 0..n
  BY DEF Readable, TypeOK
<1>6. TypeOK'
  <2>1. pending' \in 0..Len(out')
    BY <1>1, <1>3, <1>5
  <2> QED BY <1>1, <1>2, <1>3, <2>1 DEF Readable, TypeOK
<1>7. Waits'
  <2> SUFFICES ASSUME pending # 0
      PROVE  /\ pendingAt = ColumnIn(call, out'[pending])
             /\ \A i \in pending..(n + 1) : out'[i].kind \notin {"indent", "dedent"}
             /\ pending > 1 => out'[pending - 1].kind # "indent"
    BY <1>1, <1>3 DEF Waits
  <2>1. /\ pendingAt = ColumnIn(call, out[pending])
        /\ \A i \in pending..n : out[i].kind \notin {"indent", "dedent"}
        /\ pending > 1 => out[pending - 1].kind # "indent"
    BY <1>1 DEF Readable, Waits
  <2>2. pending \in 1..n /\ (pending > 1 => pending - 1 \in 1..n)
        /\ \A i \in pending..(n + 1) : i = n + 1 \/ (i \in 1..n /\ i \in pending..n)
    BY <1>3, <1>5
  <2> QED BY <1>2, <1>3, <2>1, <2>2
<1> QED BY <1>1, <1>4, <1>6, <1>7 DEF Readable

\* A token on the line of the one before.
LEMMA JoinReads ==
    ASSUME Readable, Join PROVE Readable'
<1>1. next <= Len(call.tokens) /\ outcome = "running" /\ ~LineStart
      /\ (Measures => at = Current.start.offset) /\ Place(out, levels, FALSE)
  BY DEF Join, Taking
<1>2. Reads(call, out, levels)
  BY DEF Readable
<1>3. Past => Here = ColumnIn(call, Current)
  <2> SUFFICES ASSUME Past PROVE Here = ColumnIn(call, Current)
    OBVIOUS
  <2>1. PythonTabs => at = Current.start.offset
    BY <1>1 DEF Measures
  <2> QED BY <1>1, <2>1, HereIsColumn
<1> QED BY <1>1, <1>2, <1>3, PlaceReads

\* The first token of a deeper line: it opens a block at its column, or waits.
LEMMA DeepenReads ==
    ASSUME Readable, Deepen PROVE Readable'
<1>1. next <= Len(call.tokens) /\ outcome = "running" /\ LineStart /\ ~Past
      /\ (PythonTabs => at = Current.start.offset)
  BY DEF Deepen, NewLine, Taking, Past
<1>2. Current \in Given /\ Current.start \in Positions /\ Current.kind \notin {"indent", "dedent"}
      /\ next \in Nat /\ next > 0
  BY <1>1, CallTyped, CurrentTyped DEF Readable, Synthetic
<1>3. Here = ColumnIn(call, Current) /\ ColumnIn(call, Current) \in Measure
  BY <1>1, HereIsColumn
<1>4. Reads(call, Ended, levels)
  BY <1>2, EndedReads DEF Ended
<1>5. CASE WithRoles
  <2>1. Place(Ended, levels, TRUE)
    BY <1>5 DEF Deepen
  <2> QED BY <1>1, <1>3, <1>4, <2>1, PlaceReads
<1>6. CASE ~WithRoles
  <2> DEFINE x == Mark("indent", Current.start)
             given == Append(Ended, x)
             kept == Append(levels, Here)
  <2>1. Place(given, kept, FALSE)
    BY <1>6 DEF Deepen
  <2>2. x \in Given /\ x.kind = "indent"
    <3>1. "indent" \in Synthetic
      BY DEF Synthetic
    <3> QED BY <1>2, <3>1, MarkTyped
  <2> HIDE DEF x
  <2>3. /\ next' = next + 1 /\ call' = call /\ at' = at /\ width' = width /\ endPosition' = endPosition
        /\ outcome' = outcome /\ started' = TRUE
    BY <2>1 DEF Place, Takes
  <2>4. OpensNothing(given, kept, FALSE)
    BY <1>1, <2>1 DEF Place, NodeWaits, EntryOpens, ValueOpens, ValueShows
  <2>5. out' = Append(given, Current) /\ levels' = kept /\ pending' = 0 /\ pendingAt' = pendingAt
    BY <1>1, <2>4 DEF OpensNothing, PendingAfter
  <2>6. out' = Ended \o <<x, Current>>
    <3>1. Ended \in Seq(Given)
      BY <1>4 DEF Reads
    <3> QED BY <1>2, <2>2, <2>5, <3>1
  <2>7. Reads(call, out', levels')
    <3>1. Reads(call, Ended \o <<x, Current>>, Append(levels, ColumnIn(call, Current)))
      BY <1>2, <1>3, <1>4, <2>2, ReadsIndent
    <3> QED BY <1>3, <2>5, <2>6, <3>1
  <2> HIDE DEF given, kept
  <2>8. TypeOK'
    <3>1. out' \in Seq(Given) /\ pending' \in 0..Len(out')
      <4>1. out' \in Seq(Given)
        BY <2>7 DEF Reads
      <4> QED BY <2>5, <4>1
    <3>2. next' \in Nat \ {0} /\ started' \in BOOLEAN
      BY <1>2, <2>3
    <3> QED BY <2>3, <2>5, <3>1, <3>2 DEF Readable, TypeOK
  <2>9. Waits' /\ Reads(call, out, levels)'
    BY <2>3, <2>5, <2>7 DEF Waits
  <2> QED BY <2>3, <2>8, <2>9 DEF Readable
<1> QED BY <1>5, <1>6

\* The first token of a line no deeper, past the DEDENTs of the blocks it closes.
LEMMA SettleReads ==
    ASSUME Readable, Settle PROVE Readable'
<1> DEFINE kept == Kept(Here.tab8)
           given == Ended \o Dedents(Current.start, kept)
<1>1. next <= Len(call.tokens) /\ outcome = "running" /\ LineStart /\ ~Past /\ Place(given, kept, FALSE)
  BY DEF Settle, NewLine, Taking, Past
<1>2. Current.start \in Positions
  BY <1>1, CurrentTyped DEF Readable
<1>3. Reads(call, Ended, levels)
  BY <1>2, EndedReads DEF Ended
<1>4. Reads(call, given, kept)
  BY <1>2, <1>3, DedentsRead
<1> HIDE DEF given, kept
<1> QED BY <1>1, <1>4, PlaceReads

\* The end of the text closes what is open.
LEMMA FinishReads ==
    ASSUME Readable, Finish PROVE Readable'
<1> DEFINE ended == IF started THEN Append(out, Mark("newline", endPosition)) ELSE out
           closed == ended \o Dedents(endPosition, Kept(0))
           x == Mark(EndOfInput, endPosition)
<1>1. out' = closed \o <<x>> /\ levels' = Kept(0) /\ outcome' = "given"
      /\ UNCHANGED <<call, next, at, width, started, opens, pending, pendingAt, previousLine, endPosition>>
  BY DEF Finish
<1>2. endPosition \in Positions /\ out \in Seq(Given) /\ pending \in 0..Len(out)
  BY DEF Readable, TypeOK
<1>3. Reads(call, ended, levels) /\ Len(out) <= Len(ended)
  <2>1. Reads(call, ended, levels)
    BY <1>2, EndedReads
  <2>2. Len(out) <= Len(ended)
    BY <1>2
  <2> QED BY <2>1, <2>2
<1> HIDE DEF ended
<1>4. Reads(call, closed, Kept(0))
  BY <1>2, <1>3, DedentsRead
<1>5. Len(ended) <= Len(closed)
  <2> DEFINE d == Dedents(endPosition, Kept(0))
  <2>1. d \in Seq(Given) /\ ended \in Seq(Given)
    <3>1. "dedent" \in Synthetic
      BY DEF Synthetic
    <3>2. Mark("dedent", endPosition) \in Given
      BY <1>2, <3>1, MarkTyped
    <3>3. Len(levels) - Len(Kept(0)) \in Int
      BY <1>3, <1>4 DEF Reads
    <3> QED BY <1>3, <3>2, <3>3 DEF Dedents, Reads
  <2> HIDE DEF d
  <2>2. Len(ended \o d) = Len(ended) + Len(d) /\ Len(d) \in Nat /\ Len(ended) \in Nat
    BY <2>1
  <2> QED BY <2>2 DEF d
<1>6. x \in Given /\ x.kind \notin {"indent", "dedent"}
  <2>1. EndOfInput \notin {"indent", "dedent"}
    BY DEF EndOfInput
  <2>2. EndOfInput \in Synthetic \cup {EndOfInput}
    OBVIOUS
  <2>3. x \in Given /\ x.kind = EndOfInput
    BY <1>2, <2>2, MarkTyped, Zenon
  <2> HIDE DEF x
  <2> QED BY <2>1, <2>3
<1> HIDE DEF closed, x
<1>7. closed \o <<x>> = Append(closed, x) /\ closed \in Seq(Given) /\ Len(closed) \in Nat
  BY <1>4, <1>6 DEF Reads
<1>8. Reads(call, out', levels')
  BY <1>1, <1>4, <1>6, <1>7, ReadsAppend
<1>9. TypeOK'
  <2>1. out' \in Seq(Given) /\ Len(out') = Len(closed) + 1
    BY <1>1, <1>6, <1>7, AppendTyped
  <2>2. pending' \in 0..Len(out')
    <3>1. Len(out) \in Nat /\ Len(ended) \in Nat
      BY <1>2, <1>3 DEF Reads
    <3> QED BY <1>1, <1>2, <1>3, <1>5, <1>7, <2>1, <3>1
  <2> QED BY <1>1, <2>1, <2>2 DEF Readable, TypeOK
<1>10. Reads(call, out, levels)' /\ Waits' /\ (width = MeterAt(call.source, at))'
  BY <1>1, <1>8 DEF Readable, Waits
<1> QED BY <1>9, <1>10 DEF Readable

\* Every step leaves what is given readable.
LEMMA StepReads ==
    ASSUME Readable, [Next]_vars PROVE Readable'
<1>1. CASE Read
  BY <1>1, ReadReads
<1>2. CASE Beyond
  BY <1>2, FailReads DEF Beyond
<1>3. CASE EndToken
  BY <1>3, EndTokenReads
<1>4. CASE PassThrough
  BY <1>4, PassThroughReads
<1>5. CASE Join
  BY <1>5, JoinReads
<1>6. CASE Deepen
  BY <1>6, DeepenReads
<1>7. CASE Settle
  BY <1>7, SettleReads
<1>8. CASE Inconsistent
  BY <1>8, FailReads DEF Inconsistent
<1>9. CASE Mixed
  BY <1>9, FailReads DEF Mixed
<1>10. CASE Finish
  BY <1>10, FinishReads
<1>11. CASE UNCHANGED vars
  BY <1>11 DEF vars, Readable, TypeOK, Waits
<1> QED BY <1>1, <1>2, <1>3, <1>4, <1>5, <1>6, <1>7, <1>8, <1>9, <1>10, <1>11 DEF Next

\* layout(): a reader of the tokens given, who knows of a block only that its column is that of the
\* token its INDENT stands before, has the same blocks open as the pass, at the columns the pass
\* measured, at every prefix of the input: with an INDENT put in front of a node given tokens earlier,
\* with a meter that goes back, and whatever form feeds stand where.
THEOREM LayoutReadsBack == Spec => []ReadBack
<1>1. Init => Readable
  BY InitReadable
<1>2. Readable /\ [Next]_vars => Readable'
  BY StepReads
<1>3. Readable => ReadBack
  BY ReadingOfCall DEF Readable, Reads, ReadBack
<1> QED BY <1>1, <1>2, <1>3, PTL DEF Spec

-----------------------------------------------------------------------------
(* The lines that enclose the last *)

\* Taken, Begins and the columns of the lines, of a call and the tokens before a place.
Shapes(c, i) == c.tokens[i].kind # EndOfInput /\ c.tokens[i].mode \notin c.insignificant

TakenIn(c, n) == { i \in 1..(n - 1) : Shapes(c, i) }

PassedIn(c, i) == { j \in 1..(i - 1) : c.tokens[j].kind # EndOfInput }

BeginsIn(c, n, i) ==
    \/ \A j \in TakenIn(c, n) : j >= i
    \/ c.tokens[i].start.line # LastLine(c.tokens[Max(PassedIn(c, i))])

LinesIn(c, n) == { i \in TakenIn(c, n) : BeginsIn(c, n, i) }

ColumnsIn(c, n) == [i \in LinesIn(c, n) |-> ColumnIn(c, c.tokens[i])]

EnclosingIn(columns, tab) ==
    { columns[i] : i \in { i \in DOMAIN columns :
          /\ columns[i][tab] > 0
          /\ \A j \in DOMAIN columns : j > i => columns[j][tab] > columns[i][tab] } }

\* One line more: those it is as shallow as enclose nothing any more.
LEMMA EnclosingGrows ==
    ASSUME NEW D \in SUBSET Nat, NEW columns \in [D -> Measure], NEW n \in Nat, \A d \in D : d < n,
           NEW more \in [D \cup {n} -> Measure], \A d \in D : more[d] = columns[d],
           NEW tab \in {"tab8", "tab1"}
    PROVE  EnclosingIn(more, tab) = { e \in EnclosingIn(columns, tab) : e[tab] < more[n][tab] }
                                    \cup (IF more[n][tab] > 0 THEN {more[n]} ELSE {})
<1> DEFINE Old == { i \in D : columns[i][tab] > 0 /\ \A j \in D : j > i => columns[j][tab] > columns[i][tab] }
           New == { i \in D \cup {n} :
                      more[i][tab] > 0 /\ \A j \in D \cup {n} : j > i => more[j][tab] > more[i][tab] }
           c == more[n]
<1>1. EnclosingIn(columns, tab) = { columns[i] : i \in Old } /\ EnclosingIn(more, tab) = { more[i] : i \in New }
  BY DEF EnclosingIn
<1>2. \A m \in Measure : m[tab] \in Nat
  BY DEF Measure
<1>3. \A i \in D : columns[i][tab] \in Nat /\ more[i] = columns[i] /\ i \in Nat /\ i < n /\ ~(n > n)
  BY <1>2
<1>4. \A i \in D : i \in New <=> i \in Old /\ columns[i][tab] < c[tab]
  <2>1. c[tab] \in Nat
    BY <1>2
  <2> HIDE DEF c
  <2>2. ASSUME NEW i \in D PROVE i \in New <=> i \in Old /\ columns[i][tab] < c[tab]
    <3>1. i \in New <=> /\ columns[i][tab] > 0 /\ (n > i => c[tab] > columns[i][tab])
                        /\ \A j \in D : j > i => columns[j][tab] > columns[i][tab]
      BY <1>3 DEF c
    <3>2. i \in Old <=> /\ columns[i][tab] > 0
                        /\ \A j \in D : j > i => columns[j][tab] > columns[i][tab]
      OBVIOUS
    <3>3. n > i /\ (c[tab] > columns[i][tab] <=> columns[i][tab] < c[tab])
      BY <1>3, <2>1
    <3> QED BY <3>1, <3>2, <3>3
  <2> QED BY <2>2
<1>5. n \in New <=> c[tab] > 0
  BY <1>3
<1>6. New \subseteq D \cup {n} /\ Old \subseteq D
  OBVIOUS
<1> HIDE DEF New, Old, c
<1>7. { more[i] : i \in New } = { e \in { columns[i] : i \in Old } : e[tab] < c[tab] }
                                \cup (IF c[tab] > 0 THEN {c} ELSE {})
  BY <1>3, <1>4, <1>5, <1>6 DEF c
<1> QED BY <1>1, <1>7 DEF c

\* The blocks inside the bottom one.
Inner(list) == { list[k] : k \in 2..Len(list) }

LEMMA InnerIsTail ==
    ASSUME NEW S, NEW s \in Seq(S), Len(s) >= 1
    PROVE  ToSet(Tail(s)) = Inner(s)
<1>1. Tail(s) \in Seq(S) /\ Len(Tail(s)) = Len(s) - 1 /\ DOMAIN Tail(s) = 1..(Len(s) - 1)
      /\ \A i \in 1..(Len(s) - 1) : Tail(s)[i] = s[i + 1]
  OBVIOUS
<1>2. Len(s) \in Nat
  OBVIOUS
<1>3. \A k \in 2..Len(s) : k - 1 \in 1..(Len(s) - 1) /\ k - 1 + 1 = k
  BY <1>2
<1>4. \A k \in 1..(Len(s) - 1) : k + 1 \in 2..Len(s)
  BY <1>2
<1> DEFINE t == Tail(s)
<1> HIDE DEF t
<1>5. ToSet(t) = { t[i] : i \in 1..(Len(s) - 1) }
  BY <1>1 DEF ToSet, t
<1>6. \A e \in Inner(s) : e \in ToSet(t)
  <2> TAKE e \in Inner(s)
  <2>1. PICK k \in 2..Len(s) : e = s[k]
    BY DEF Inner
  <2>2. t[k - 1] = s[k - 1 + 1] /\ k - 1 \in 1..(Len(s) - 1) /\ k - 1 + 1 = k
    BY <1>1, <1>3 DEF t
  <2> QED BY <1>5, <2>1, <2>2
<1>7. \A e \in ToSet(t) : e \in Inner(s)
  BY <1>1, <1>4, <1>5 DEF Inner, t
<1> QED BY <1>6, <1>7 DEF t

\* Each block deeper than those around it, the bottom one at the margin.
Rising(list, tab) ==
    /\ list \in Seq(Measure) /\ Len(list) >= 1
    /\ list[1][tab] = 0
    /\ \A i, j \in 1..Len(list) : i < j => list[i][tab] < list[j][tab]

\* A deeper line is in every block.
LEMMA RisingDeepens ==
    ASSUME NEW tab \in {"tab8", "tab1"}, NEW list, Rising(list, tab), NEW c \in Measure, c[tab] > Last(list)[tab]
    PROVE  /\ Rising(Append(list, c), tab)
           /\ { e \in Inner(list) : e[tab] < c[tab] } \cup (IF c[tab] > 0 THEN {c} ELSE {}) = Inner(Append(list, c))
<1> DEFINE n == Len(list)
           p == Append(list, c)
<1>1. list \in Seq(Measure) /\ n \in Nat /\ n >= 1 /\ list[1][tab] = 0
      /\ (\A i, j \in 1..n : i < j => list[i][tab] < list[j][tab])
  BY DEF Rising
<1>2. p \in Seq(Measure) /\ Len(p) = n + 1 /\ p[n + 1] = c /\ \A i \in 1..n : p[i] = list[i]
  BY <1>1, AppendTyped
<1>3. (\A m \in Measure : m[tab] \in Nat) /\ c[tab] \in Nat
  BY DEF Measure
<1>4. \A i \in 1..n : list[i] \in Measure /\ list[i][tab] \in Nat
  BY <1>1, <1>3
<1>5. \A i \in 1..n : list[i][tab] < c[tab]
  <2>1. n \in 1..n /\ c[tab] > list[n][tab]
    BY <1>1 DEF Last
  <2> TAKE i \in 1..n
  <2>2. i = n \/ i < n
    BY <1>1
  <2>3. i < n => list[i][tab] < list[n][tab]
    BY <1>1, <2>1
  <2>4. list[i][tab] \in Nat /\ list[n][tab] \in Nat
    BY <1>4, <2>1
  <2> QED BY <1>3, <2>1, <2>2, <2>3, <2>4
<1> HIDE DEF p
<1>6. \A i \in 1..(n + 1) : i = n + 1 \/ i \in 1..n
  BY <1>1
<1>7. Rising(p, tab)
  <2>1. 1 \in 1..n
    BY <1>1
  <2>2. ASSUME NEW i \in 1..(n + 1), NEW j \in 1..(n + 1), i < j PROVE p[i][tab] < p[j][tab]
    <3>1. i \in 1..n
      BY <1>1, <2>2
    <3>2. CASE j = n + 1
      BY <1>2, <1>5, <3>1, <3>2
    <3>3. CASE j \in 1..n
      BY <1>1, <1>2, <2>2, <3>1, <3>3
    <3> QED BY <1>6, <3>2, <3>3
  <2> QED BY <1>1, <1>2, <2>1, <2>2 DEF Rising
<1>8. c[tab] > 0
  <2>1. 1 \in 1..n
    BY <1>1
  <2> QED BY <1>1, <1>3, <1>5, <2>1
<1>9. { e \in Inner(list) : e[tab] < c[tab] } = Inner(list)
  <2>1. \A k \in 2..n : k \in 1..n
    BY <1>1
  <2> QED BY <1>5, <2>1 DEF Inner
<1>10. Inner(p) = Inner(list) \cup {c}
  <2>1. \A k \in 2..(n + 1) : k = n + 1 \/ (k \in 2..n /\ k \in 1..n)
    BY <1>1
  <2>2. n + 1 \in 2..(n + 1) /\ \A k \in 2..n : k \in 2..(n + 1) /\ k \in 1..n
    BY <1>1
  <2>3. Inner(list) = { list[k] : k \in 2..n } /\ Inner(p) = { p[k] : k \in 2..(n + 1) }
    BY <1>2 DEF Inner
  <2>4. \A e \in Inner(p) : e \in Inner(list) \cup {c}
    BY <1>2, <2>1, <2>3
  <2>5. \A e \in Inner(list) \cup {c} : e \in Inner(p)
    <3>1. c \in Inner(p)
      BY <1>2, <2>2, <2>3
    <3>2. ASSUME NEW k \in 2..n PROVE list[k] \in Inner(p)
      BY <1>2, <2>2, <2>3
    <3> QED BY <2>3, <3>1, <3>2
  <2> QED BY <2>4, <2>5
<1> QED BY <1>7, <1>8, <1>9, <1>10 DEF p

\* A line at the width of a block is in those around that block, and at its column.
LEMMA RisingSettles ==
    ASSUME NEW tab \in {"tab8", "tab1"}, NEW list, Rising(list, tab), NEW d \in 1..Len(list)
    PROVE  /\ Rising(SubSeq(list, 1, d), tab)
           /\ { e \in Inner(list) : e[tab] < list[d][tab] } \cup (IF list[d][tab] > 0 THEN {list[d]} ELSE {})
              = Inner(SubSeq(list, 1, d))
<1> DEFINE n == Len(list)
           p == SubSeq(list, 1, d)
<1>1. list \in Seq(Measure) /\ n \in Nat /\ n >= 1 /\ list[1][tab] = 0
      /\ (\A i, j \in 1..n : i < j => list[i][tab] < list[j][tab]) /\ d \in 1..n /\ d \in Nat
  BY DEF Rising
<1>2. p \in Seq(Measure) /\ Len(p) = d /\ \A i \in 1..d : p[i] = list[i]
  BY <1>1
<1>3. \A i \in 1..n : list[i] \in Measure /\ list[i][tab] \in Nat
  <2>1. \A m \in Measure : m[tab] \in Nat
    BY DEF Measure
  <2> QED BY <1>1, <2>1
<1> HIDE DEF p
<1>4. \A i \in 1..d : i \in 1..n
  BY <1>1
<1>5. Rising(p, tab)
  <2>1. 1 \in 1..d
    BY <1>1
  <2>2. \A i, j \in 1..d : i < j => p[i][tab] < p[j][tab]
    BY <1>1, <1>2, <1>4
  <2> QED BY <1>1, <1>2, <2>1, <2>2 DEF Rising
<1>6. \A k \in 2..n : k \in 1..n /\ (list[k][tab] < list[d][tab] <=> k < d)
  <2> TAKE k \in 2..n
  <2>1. k \in 1..n
    BY <1>1
  <2>2. k < d \/ k = d \/ d < k
    BY <1>1
  <2>3. (k < d => list[k][tab] < list[d][tab]) /\ (d < k => list[d][tab] < list[k][tab])
    BY <1>1, <2>1
  <2>4. list[k][tab] \in Nat /\ list[d][tab] \in Nat /\ k \in Nat
    BY <1>1, <1>3, <2>1
  <2> QED BY <1>1, <2>1, <2>2, <2>3, <2>4
<1>7. list[d][tab] > 0 <=> d >= 2
  <2>1. 1 \in 1..n /\ (d = 1 \/ 1 < d) /\ (d >= 2 <=> 1 < d)
    BY <1>1
  <2>2. 1 < d => list[1][tab] < list[d][tab]
    BY <1>1, <2>1
  <2>3. list[d][tab] \in Nat
    BY <1>1, <1>3
  <2> QED BY <1>1, <2>1, <2>2, <2>3
<1>8. { e \in Inner(list) : e[tab] < list[d][tab] } = { list[k] : k \in 2..(d - 1) }
  <2>1. \A k \in 2..(d - 1) : k \in 2..n /\ k < d
    BY <1>1
  <2>2. \A k \in 2..n : k < d => k \in 2..(d - 1)
    BY <1>1
  <2>3. \A e \in { e \in Inner(list) : e[tab] < list[d][tab] } : e \in { list[k] : k \in 2..(d - 1) }
    BY <1>6, <2>2 DEF Inner
  <2>4. ASSUME NEW k \in 2..(d - 1) PROVE list[k] \in { e \in Inner(list) : e[tab] < list[d][tab] }
    BY <1>6, <2>1 DEF Inner
  <2> QED BY <2>3, <2>4
<1>9. Inner(p) = { list[k] : k \in 2..d }
  <2>1. \A k \in 2..d : k \in 1..d
    BY <1>1
  <2> QED BY <1>2, <2>1 DEF Inner
<1>10. { list[k] : k \in 2..(d - 1) } \cup (IF list[d][tab] > 0 THEN {list[d]} ELSE {}) = { list[k] : k \in 2..d }
  <2>1. \A k \in 2..d : k = d \/ k \in 2..(d - 1)
    BY <1>1
  <2>2. \A k \in 2..(d - 1) : k \in 2..d
    BY <1>1
  <2>3. d >= 2 <=> d \in 2..d
    BY <1>1
  <2> QED BY <1>7, <2>1, <2>2, <2>3
<1> QED BY <1>5, <1>8, <1>9, <1>10 DEF p

\* A token more is a line more when it shapes layout and begins one.
LEMMA LinesGrow ==
    ASSUME NEW c, NEW n \in Nat, n > 0
    PROVE  /\ TakenIn(c, n + 1) = IF Shapes(c, n) THEN TakenIn(c, n) \cup {n} ELSE TakenIn(c, n)
           /\ LinesIn(c, n + 1) = IF Shapes(c, n) /\ BeginsIn(c, n + 1, n) THEN LinesIn(c, n) \cup {n}
                                  ELSE LinesIn(c, n)
           /\ LinesIn(c, n) \in SUBSET Nat /\ \A i \in LinesIn(c, n) : i < n
           /\ BeginsIn(c, n + 1, n) <=> \/ TakenIn(c, n) = {}
                                        \/ c.tokens[n].start.line # LastLine(c.tokens[Max(PassedIn(c, n))])
<1>1. TakenIn(c, n + 1) = IF Shapes(c, n) THEN TakenIn(c, n) \cup {n} ELSE TakenIn(c, n)
  <2>1. \A i \in 1..(n + 1 - 1) : i = n \/ i \in 1..(n - 1)
    OBVIOUS
  <2>2. n \in 1..(n + 1 - 1) /\ \A i \in 1..(n - 1) : i \in 1..(n + 1 - 1)
    OBVIOUS
  <2> QED BY <2>1, <2>2 DEF TakenIn
<1>2. \A i \in TakenIn(c, n) : i \in Nat /\ i < n /\ n >= i
  BY DEF TakenIn
<1>3. \A i \in TakenIn(c, n) : BeginsIn(c, n + 1, i) <=> BeginsIn(c, n, i)
  BY <1>1, <1>2 DEF BeginsIn
<1>4. n \notin TakenIn(c, n) /\ n >= n
  BY <1>2
<1>5. LinesIn(c, n + 1) = IF Shapes(c, n) /\ BeginsIn(c, n + 1, n) THEN LinesIn(c, n) \cup {n} ELSE LinesIn(c, n)
  BY <1>1, <1>3, <1>4 DEF LinesIn
<1>6. (\A j \in TakenIn(c, n + 1) : j >= n) <=> TakenIn(c, n) = {}
  <2>1. \A j \in TakenIn(c, n) : ~(j >= n)
    BY <1>2
  <2> QED BY <1>1, <1>4, <2>1
<1>7. BeginsIn(c, n + 1, n) <=> \/ TakenIn(c, n) = {}
                                \/ c.tokens[n].start.line # LastLine(c.tokens[Max(PassedIn(c, n))])
  BY <1>6 DEF BeginsIn
<1> QED BY <1>1, <1>2, <1>5, <1>7 DEF LinesIn

\* The last token passed.
LEMMA PassedLast ==
    ASSUME NEW c, NEW n \in Nat, n > 0
    PROVE  /\ c.tokens[n].kind # EndOfInput => Max(PassedIn(c, n + 1)) = n
           /\ c.tokens[n].kind = EndOfInput => PassedIn(c, n + 1) = PassedIn(c, n)
<1>1. \A j \in 1..(n + 1 - 1) : j = n \/ j \in 1..(n - 1)
  OBVIOUS
<1>2. n \in 1..(n + 1 - 1) /\ n \notin 1..(n - 1) /\ \A j \in 1..(n - 1) : j \in 1..(n + 1 - 1)
  OBVIOUS
<1>3. c.tokens[n].kind = EndOfInput => PassedIn(c, n + 1) = PassedIn(c, n)
  BY <1>1, <1>2 DEF PassedIn
<1>4. ASSUME c.tokens[n].kind # EndOfInput PROVE Max(PassedIn(c, n + 1)) = n
  <2> DEFINE D == PassedIn(c, n + 1)
  <2>1. n \in D /\ D # {} /\ \A d \in D : d \in 0..n
    BY <1>2, <1>4 DEF PassedIn
  <2> HIDE DEF D
  <2>2. Max(D) \in D /\ \A d \in D : Max(D) >= d
    BY <2>1, MaxOfDepths
  <2>3. Max(D) >= n /\ Max(D) \in 0..n
    BY <2>1, <2>2
  <2>4. Max(D) = n
    BY <2>3
  <2> QED BY <2>4 DEF D
<1> QED BY <1>3, <1>4

\* The blocks open are the lines that enclose the last, by either measure.
Enclosed(c, n, list) ==
    /\ ColumnsIn(c, n) \in [LinesIn(c, n) -> Measure]
    /\ Rising(list, "tab8") /\ Inner(list) = EnclosingIn(ColumnsIn(c, n), "tab8")
    /\ c.tabs = "python" => Rising(list, "tab1") /\ Inner(list) = EnclosingIn(ColumnsIn(c, n), "tab1")
    /\ c.tabs # "python" => \A i \in 1..Len(list) : list[i].tab1 = 0

\* What the pass keeps of the tokens before says where a line begins and a node may stand.
ArmedIn(c, n, i) ==
    c.tokens[i].kind \in c.entries \/ (c.tokens[i].kind \in c.values /\ BeginsIn(c, n, i))

Follows ==
    outcome = "running" =>
        /\ next <= Len(call.tokens) + 1
        /\ started <=> TakenIn(call, next) # {}
        /\ started => previousLine = LastLine(call.tokens[Max(PassedIn(call, next))])
        /\ opens <=> started /\ ArmedIn(call, next, Max(TakenIn(call, next)))

\* With no roles no node waits.
Encloses ==
    ~WithRoles /\ outcome = "running" => pending = 0 /\ Enclosed(call, next, levels)

\* The columns with one line more.
LEMMA ColumnsGrow ==
    ASSUME NEW c, NEW n \in Nat, n > 0, ColumnsIn(c, n) \in [LinesIn(c, n) -> Measure],
           Shapes(c, n), BeginsIn(c, n + 1, n), ColumnIn(c, c.tokens[n]) \in Measure,
           NEW tab \in {"tab8", "tab1"}
    PROVE  LET here == ColumnIn(c, c.tokens[n])
           IN  /\ ColumnsIn(c, n + 1) \in [LinesIn(c, n + 1) -> Measure]
               /\ EnclosingIn(ColumnsIn(c, n + 1), tab)
                  = { e \in EnclosingIn(ColumnsIn(c, n), tab) : e[tab] < here[tab] }
                    \cup (IF here[tab] > 0 THEN {here} ELSE {})
<1> DEFINE D == LinesIn(c, n)
           old == ColumnsIn(c, n)
           more == ColumnsIn(c, n + 1)
           here == ColumnIn(c, c.tokens[n])
<1>1. LinesIn(c, n + 1) = D \cup {n} /\ D \in SUBSET Nat /\ \A d \in D : d < n
  BY LinesGrow
<1>2. old = [i \in D |-> ColumnIn(c, c.tokens[i])] /\ more = [i \in D \cup {n} |-> ColumnIn(c, c.tokens[i])]
  BY <1>1 DEF ColumnsIn
<1>3. old \in [D -> Measure] /\ here \in Measure
  OBVIOUS
<1> HIDE DEF D, old, more
<1>4. (\A d \in D : more[d] = old[d]) /\ more[n] = here
  BY <1>2
<1>5. more \in [D \cup {n} -> Measure]
  <2>1. \A d \in D : old[d] \in Measure
    BY <1>3
  <2>2. \A d \in D \cup {n} : more[d] \in Measure
    BY <1>3, <1>4, <2>1
  <2> HIDE DEF here
  <2> QED BY <1>2, <2>2
<1> HIDE DEF here
<1>6. EnclosingIn(more, tab) = { e \in EnclosingIn(old, tab) : e[tab] < here[tab] }
                               \cup (IF here[tab] > 0 THEN {here} ELSE {})
  BY <1>1, <1>3, <1>4, <1>5, EnclosingGrows
<1> QED BY <1>1, <1>5, <1>6 DEF D, old, more, here

LEMMA SameMeasure ==
    ASSUME NEW a \in Measure, NEW b \in Measure, a.tab8 = b.tab8, a.tab1 = b.tab1 PROVE a = b
BY DEF Measure

\* A token that begins no line encloses nothing.
LEMMA EnclosedRests ==
    ASSUME NEW c, NEW n \in Nat, n > 0, NEW list, Enclosed(c, n, list), ~(Shapes(c, n) /\ BeginsIn(c, n + 1, n))
    PROVE  Enclosed(c, n + 1, list)
<1>1. LinesIn(c, n + 1) = LinesIn(c, n)
  BY LinesGrow
<1>2. ColumnsIn(c, n + 1) = ColumnsIn(c, n)
  BY <1>1 DEF ColumnsIn
<1> QED BY <1>1, <1>2 DEF Enclosed

\* A deeper line opens a block inside all the others.
LEMMA EnclosedDeepens ==
    ASSUME NEW c, NEW n \in Nat, n > 0, NEW list, Enclosed(c, n, list), Shapes(c, n), BeginsIn(c, n + 1, n),
           NEW here \in Measure, here = ColumnIn(c, c.tokens[n]), here.tab8 > Last(list).tab8,
           c.tabs = "python" => here.tab1 > Last(list).tab1,
           c.tabs # "python" => here.tab1 = 0
    PROVE  Enclosed(c, n + 1, Append(list, here))
<1> DEFINE p == Append(list, here)
<1>1. /\ ColumnsIn(c, n + 1) \in [LinesIn(c, n + 1) -> Measure]
      /\ Rising(p, "tab8") /\ Inner(p) = EnclosingIn(ColumnsIn(c, n + 1), "tab8")
  <2> DEFINE tab == "tab8"
  <2>1. tab \in {"tab8", "tab1"} /\ Rising(list, tab) /\ here[tab] > Last(list)[tab]
        /\ Inner(list) = EnclosingIn(ColumnsIn(c, n), tab)
    BY DEF Enclosed
  <2> HIDE DEF tab
  <2>2. Rising(p, tab) /\ { e \in Inner(list) : e[tab] < here[tab] } \cup (IF here[tab] > 0 THEN {here} ELSE {}) = Inner(p)
    BY <2>1, RisingDeepens
  <2>3. /\ ColumnsIn(c, n + 1) \in [LinesIn(c, n + 1) -> Measure]
        /\ EnclosingIn(ColumnsIn(c, n + 1), tab)
           = { e \in EnclosingIn(ColumnsIn(c, n), tab) : e[tab] < here[tab] } \cup (IF here[tab] > 0 THEN {here} ELSE {})
    BY <2>1, ColumnsGrow DEF Enclosed
  <2>4. Rising(p, tab) /\ Inner(p) = EnclosingIn(ColumnsIn(c, n + 1), tab)
    BY <2>1, <2>2, <2>3
  <2> QED BY <2>3, <2>4 DEF tab
<1>2. ASSUME c.tabs = "python" PROVE Rising(p, "tab1") /\ Inner(p) = EnclosingIn(ColumnsIn(c, n + 1), "tab1")
  <2> DEFINE tab == "tab1"
  <2>1. tab \in {"tab8", "tab1"} /\ Rising(list, tab) /\ here[tab] > Last(list)[tab]
        /\ Inner(list) = EnclosingIn(ColumnsIn(c, n), tab)
    BY <1>2 DEF Enclosed
  <2> HIDE DEF tab
  <2>2. Rising(p, tab) /\ { e \in Inner(list) : e[tab] < here[tab] } \cup (IF here[tab] > 0 THEN {here} ELSE {}) = Inner(p)
    BY <2>1, RisingDeepens
  <2>3. EnclosingIn(ColumnsIn(c, n + 1), tab)
           = { e \in EnclosingIn(ColumnsIn(c, n), tab) : e[tab] < here[tab] } \cup (IF here[tab] > 0 THEN {here} ELSE {})
    BY <2>1, ColumnsGrow DEF Enclosed
  <2>4. Rising(p, tab) /\ Inner(p) = EnclosingIn(ColumnsIn(c, n + 1), tab)
    BY <2>1, <2>2, <2>3
  <2> QED BY <2>4 DEF tab
<1>3. ASSUME c.tabs # "python" PROVE \A i \in 1..Len(p) : p[i].tab1 = 0
  <2>1. list \in Seq(Measure) /\ \A i \in 1..Len(list) : list[i].tab1 = 0
    BY <1>3 DEF Enclosed, Rising
  <2>2. Len(p) = Len(list) + 1 /\ Len(list) \in Nat /\ p[Len(list) + 1] = here /\ \A i \in 1..Len(list) : p[i] = list[i]
    BY <2>1, AppendTyped
  <2> HIDE DEF p
  <2>3. \A i \in 1..(Len(list) + 1) : i = Len(list) + 1 \/ i \in 1..Len(list)
    BY <2>2
  <2> QED BY <1>3, <2>1, <2>2, <2>3
<1> QED BY <1>1, <1>2, <1>3 DEF Enclosed, p

\* A line at the width of a block closes those inside it.
LEMMA EnclosedSettles ==
    ASSUME NEW c, NEW n \in Nat, n > 0, NEW list, Enclosed(c, n, list), Shapes(c, n), BeginsIn(c, n + 1, n),
           NEW d \in 1..Len(list), list[d] = ColumnIn(c, c.tokens[n]), list[d] \in Measure
    PROVE  Enclosed(c, n + 1, SubSeq(list, 1, d))
<1> DEFINE p == SubSeq(list, 1, d)
           here == list[d]
<1>1. /\ ColumnsIn(c, n + 1) \in [LinesIn(c, n + 1) -> Measure]
      /\ Rising(p, "tab8") /\ Inner(p) = EnclosingIn(ColumnsIn(c, n + 1), "tab8")
  <2> DEFINE tab == "tab8"
  <2>1. tab \in {"tab8", "tab1"} /\ Rising(list, tab) /\ Inner(list) = EnclosingIn(ColumnsIn(c, n), tab)
    BY DEF Enclosed
  <2> HIDE DEF tab
  <2>2. Rising(p, tab) /\ { e \in Inner(list) : e[tab] < here[tab] } \cup (IF here[tab] > 0 THEN {here} ELSE {}) = Inner(p)
    BY <2>1, RisingSettles
  <2>3. /\ ColumnsIn(c, n + 1) \in [LinesIn(c, n + 1) -> Measure]
        /\ EnclosingIn(ColumnsIn(c, n + 1), tab)
           = { e \in EnclosingIn(ColumnsIn(c, n), tab) : e[tab] < here[tab] } \cup (IF here[tab] > 0 THEN {here} ELSE {})
    BY <2>1, ColumnsGrow DEF Enclosed
  <2>4. Rising(p, tab) /\ Inner(p) = EnclosingIn(ColumnsIn(c, n + 1), tab)
    BY <2>1, <2>2, <2>3
  <2> QED BY <2>3, <2>4 DEF tab
<1>2. ASSUME c.tabs = "python" PROVE Rising(p, "tab1") /\ Inner(p) = EnclosingIn(ColumnsIn(c, n + 1), "tab1")
  <2> DEFINE tab == "tab1"
  <2>1. tab \in {"tab8", "tab1"} /\ Rising(list, tab) /\ Inner(list) = EnclosingIn(ColumnsIn(c, n), tab)
    BY <1>2 DEF Enclosed
  <2> HIDE DEF tab
  <2>2. Rising(p, tab) /\ { e \in Inner(list) : e[tab] < here[tab] } \cup (IF here[tab] > 0 THEN {here} ELSE {}) = Inner(p)
    BY <2>1, RisingSettles
  <2>3. EnclosingIn(ColumnsIn(c, n + 1), tab)
           = { e \in EnclosingIn(ColumnsIn(c, n), tab) : e[tab] < here[tab] } \cup (IF here[tab] > 0 THEN {here} ELSE {})
    BY <2>1, ColumnsGrow DEF Enclosed
  <2>4. Rising(p, tab) /\ Inner(p) = EnclosingIn(ColumnsIn(c, n + 1), tab)
    BY <2>1, <2>2, <2>3
  <2> QED BY <2>4 DEF tab
<1>3. ASSUME c.tabs # "python" PROVE \A i \in 1..Len(p) : p[i].tab1 = 0
  <2>1. list \in Seq(Measure) /\ \A i \in 1..Len(list) : list[i].tab1 = 0
    BY <1>3 DEF Enclosed, Rising
  <2>2. Len(p) = d /\ \A i \in 1..d : p[i] = list[i] /\ i \in 1..Len(list)
    BY <2>1
  <2> HIDE DEF p
  <2> QED BY <2>1, <2>2
<1> QED BY <1>1, <1>2, <1>3 DEF Enclosed, p

\* A line begins where the pass finds it does.
LEMMA LineStartBegins ==
    ASSUME TypeOK, Follows, Taking, Significant(Current)
    PROVE  Shapes(call, next) /\ (LineStart <=> BeginsIn(call, next + 1, next))
<1>1. next \in Nat /\ next > 0 /\ outcome = "running" /\ Current = call.tokens[next] /\ Current.kind # EndOfInput
  BY CallTyped DEF Taking, Current
<1>2. Shapes(call, next)
  BY <1>1 DEF Shapes, Significant
<1>3. BeginsIn(call, next + 1, next)
      <=> \/ TakenIn(call, next) = {}
          \/ Current.start.line # LastLine(call.tokens[Max(PassedIn(call, next))])
  BY <1>1, LinesGrow
<1>4. LineStart <=> (~started \/ Current.start.line # previousLine)
  BY DEF LineStart
<1> QED BY <1>1, <1>2, <1>3, <1>4 DEF Follows

\* The last of the tokens taken.
LEMMA TakenLast ==
    ASSUME NEW c, NEW n \in Nat, n > 0
    PROVE  /\ TakenIn(c, n) # {} => Max(TakenIn(c, n)) \in TakenIn(c, n) /\ \A i \in TakenIn(c, n) : Max(TakenIn(c, n)) >= i
           /\ Shapes(c, n) => Max(TakenIn(c, n + 1)) = n
<1>1. \A m \in Nat : TakenIn(c, m) # {} => Max(TakenIn(c, m)) \in TakenIn(c, m)
                                          /\ \A i \in TakenIn(c, m) : Max(TakenIn(c, m)) >= i
  <2> TAKE m \in Nat
  <2> DEFINE D == TakenIn(c, m)
  <2>1. \A d \in D : d \in 0..m
    BY DEF TakenIn
  <2> HIDE DEF D
  <2>2. D # {} => Max(D) \in D /\ \A d \in D : Max(D) >= d
    BY <2>1, MaxOfDepths
  <2> QED BY <2>2 DEF D
<1>2. ASSUME Shapes(c, n) PROVE Max(TakenIn(c, n + 1)) = n
  <2> DEFINE D == TakenIn(c, n + 1)
  <2>1. n \in D /\ \A d \in D : d \in 0..n
    BY <1>2 DEF TakenIn
  <2> HIDE DEF D
  <2>2. Max(D) \in D /\ \A d \in D : Max(D) >= d
    BY <2>1, MaxOfDepths
  <2>3. Max(D) \in 0..n /\ Max(D) >= n
    BY <2>1, <2>2
  <2>4. Max(D) = n
    BY <2>3
  <2> QED BY <2>4 DEF D
<1> QED BY <1>1, <1>2

\* Where the tokens taken begin a line does not change.
LEMMA BeginsKept ==
    ASSUME NEW c, NEW n \in Nat, n > 0, NEW i \in TakenIn(c, n)
    PROVE  (BeginsIn(c, n + 1, i) <=> BeginsIn(c, n, i)) /\ (ArmedIn(c, n + 1, i) <=> ArmedIn(c, n, i))
<1>1. i \in Nat /\ i < n /\ n >= i
  BY DEF TakenIn
<1>2. TakenIn(c, n + 1) = IF Shapes(c, n) THEN TakenIn(c, n) \cup {n} ELSE TakenIn(c, n)
  BY LinesGrow
<1>3. BeginsIn(c, n + 1, i) <=> BeginsIn(c, n, i)
  BY <1>1, <1>2 DEF BeginsIn
<1> QED BY <1>3 DEF ArmedIn

\* A token taken is what the pass keeps of the tokens before the next.
LEMMA PlaceFollows ==
    ASSUME TypeOK, Follows, Taking, Significant(Current), NEW given, NEW kept, NEW deeper, Place(given, kept, deeper)
    PROVE  Follows'
<1>1. next \in Nat /\ next > 0 /\ outcome = "running" /\ Current = call.tokens[next] /\ Current.kind # EndOfInput
      /\ next <= Len(call.tokens) /\ Len(call.tokens) \in Nat
  BY CallTyped DEF Taking, Current
<1>2. next' = next + 1 /\ call' = call /\ previousLine' = LastLine(Current) /\ started' = TRUE /\ opens' = Arms
  BY DEF Place, Takes, Reaches
<1>3. Shapes(call, next) /\ (LineStart <=> BeginsIn(call, next + 1, next))
  BY LineStartBegins
<1>4. TakenIn(call, next + 1) # {} /\ Max(TakenIn(call, next + 1)) = next /\ Max(PassedIn(call, next + 1)) = next
  BY <1>1, <1>3, LinesGrow, TakenLast, PassedLast
<1>5. Arms <=> ArmedIn(call, next + 1, next)
  BY <1>1, <1>3 DEF Arms, Entry, Value, ArmedIn
<1>6. next' <= Len(call'.tokens) + 1
  BY <1>1, <1>2
<1> QED BY <1>1, <1>2, <1>4, <1>5, <1>6 DEF Follows

\* A token passed is, but for where it ends.
LEMMA PassFollows ==
    ASSUME TypeOK, Follows, EndToken \/ PassThrough PROVE Follows'
<1>1. outcome = "running" /\ next' = next + 1 /\ call' = call /\ started' = started /\ opens' = opens
      /\ next <= Len(call.tokens) /\ ~Shapes(call, next)
      /\ previousLine' = IF call.tokens[next].kind = EndOfInput THEN previousLine ELSE LastLine(call.tokens[next])
  BY DEF EndToken, PassThrough, Taking, Takes, Reaches, Shapes, Current, Significant
<1>2. next \in Nat /\ next > 0 /\ Len(call.tokens) \in Nat
  BY CallTyped
<1>3. TakenIn(call, next + 1) = TakenIn(call, next)
  BY <1>1, <1>2, LinesGrow
<1>4. TakenIn(call, next) # {} => (ArmedIn(call, next + 1, Max(TakenIn(call, next + 1)))
                                  <=> ArmedIn(call, next, Max(TakenIn(call, next))))
  BY <1>2, <1>3, TakenLast, BeginsKept
<1>5. started => previousLine' = LastLine(call.tokens[Max(PassedIn(call, next + 1))])
  BY <1>1, <1>2, PassedLast DEF Follows
<1>6. next' <= Len(call'.tokens) + 1
  BY <1>1, <1>2
<1> QED BY <1>1, <1>3, <1>4, <1>5, <1>6 DEF Follows

LEMMA NoneTaken ==
    ASSUME NEW c PROVE TakenIn(c, 1) = {} /\ LinesIn(c, 1) = {}
<1>1. 1..(1 - 1) = {}
  OBVIOUS
<1>2. TakenIn(c, 1) = {}
  BY <1>1 DEF TakenIn
<1> QED BY <1>2 DEF LinesIn

\* Every step keeps it.
LEMMA StepFollows ==
    /\ Init => Follows
    /\ TypeOK /\ Follows /\ [Next]_vars => Follows'
<1>1. ASSUME Init PROVE Follows
  <2>1. call.tokens \in Seq([kind : STRING, lexeme : Seq(STRING), mode : STRING,
                             start : [offset : Nat, line : Nat, column : Nat \ {0}]])
    BY <1>1, LayoutAssumption DEF Init
  <2>2. 1 <= Len(call.tokens) + 1
    BY <2>1
  <2> QED BY <1>1, <2>2, NoneTaken DEF Init, Follows
<1>2. ASSUME TypeOK, Follows, [Next]_vars PROVE Follows'
  <2>1. CASE Read
    BY <1>2, <2>1 DEF Read, Follows
  <2>2. CASE Beyond
    BY <2>2 DEF Beyond, Fail, Follows
  <2>3. CASE EndToken \/ PassThrough
    BY <1>2, <2>3, PassFollows
  <2>4. CASE Join
    BY <1>2, <2>4, PlaceFollows DEF Join
  <2>5. CASE Deepen
    BY <1>2, <2>5, PlaceFollows DEF Deepen, NewLine, LineStart
  <2>6. CASE Settle
    BY <1>2, <2>6, PlaceFollows DEF Settle, NewLine, LineStart
  <2>7. CASE Inconsistent
    BY <2>7 DEF Inconsistent, Fail, Follows
  <2>8. CASE Mixed
    BY <2>8 DEF Mixed, Fail, Follows
  <2>9. CASE Finish
    BY <2>9 DEF Finish, Follows
  <2>10. CASE UNCHANGED vars
    BY <1>2, <2>10 DEF vars, Follows
  <2> QED BY <1>2, <2>1, <2>2, <2>3, <2>4, <2>5, <2>6, <2>7, <2>8, <2>9, <2>10 DEF Next
<1> QED BY <1>1, <1>2

\* A token that shapes layout leaves the blocks those of the lines around it, when its line does.
LEMMA PlaceEncloses ==
    ASSUME Follows, Encloses, ~WithRoles, outcome = "running", Significant(Current), NEW given, NEW kept,
           Place(given, kept, FALSE), Enclosed(call, next + 1, kept)
    PROVE  Encloses'
<1>1. ~opens /\ pending = 0
  BY DEF Encloses, Follows, ArmedIn, WithRoles
<1>2. ~Entry(Current) /\ ~Value(Current) /\ ~Past /\ ~ValueShows
  BY <1>1 DEF WithRoles, Entry, Value, Past, ValueShows
<1>3. next' = next + 1 /\ call' = call
  BY DEF Place, Takes
<1>4. OpensNothing(given, kept, FALSE)
  BY <1>2 DEF Place, NodeWaits, EntryOpens, ValueOpens
<1>5. levels' = kept /\ pending' = 0
  BY <1>1, <1>4 DEF OpensNothing, PendingAfter
<1>6. Enclosed(call', next', levels')
  BY <1>3, <1>5
<1> QED BY <1>5, <1>6 DEF Encloses

LEMMA InitEncloses ==
    ASSUME Init PROVE Encloses
<1>1. next = 1 /\ levels = <<Zero>> /\ pending = 0
  BY DEF Init
<1>2. LinesIn(call, 1) = {}
  BY NoneTaken
<1>3. Rising(levels, "tab8") /\ Rising(levels, "tab1") /\ Inner(levels) = {} /\ \A i \in 1..Len(levels) : levels[i].tab1 = 0
  <2>1. Zero \in Measure /\ Zero["tab8"] = 0 /\ Zero["tab1"] = 0 /\ Zero.tab1 = 0
    BY DEF Zero, Measure
  <2>2. levels \in Seq(Measure) /\ Len(levels) = 1 /\ levels[1] = Zero
    BY <1>1, <2>1
  <2>3. 2..Len(levels) = {} /\ \A i \in 1..Len(levels) : i = 1
    BY <2>2
  <2>4. \A i, j \in 1..Len(levels) : ~(i < j)
    BY <2>3
  <2> QED BY <2>1, <2>2, <2>3, <2>4 DEF Rising, Inner
<1>4. ColumnsIn(call, 1) \in [LinesIn(call, 1) -> Measure] /\ DOMAIN ColumnsIn(call, 1) = {}
  BY <1>2 DEF ColumnsIn
<1>5. \A tab : EnclosingIn(ColumnsIn(call, 1), tab) = {}
  BY <1>4 DEF EnclosingIn
<1>6. Enclosed(call, next, levels)
  BY <1>1, <1>3, <1>4, <1>5 DEF Enclosed
<1> QED BY <1>1, <1>6 DEF Encloses

\* A token that does not shape layout is no line's.
LEMMA PassEncloses ==
    ASSUME TypeOK, Encloses, EndToken \/ PassThrough PROVE Encloses'
<1>1. outcome = "running" /\ next' = next + 1 /\ call' = call /\ levels' = levels /\ pending' = pending
      /\ ~Shapes(call, next)
  BY DEF EndToken, PassThrough, Taking, Takes, Shapes, Current, Significant
<1>2. next \in Nat /\ next > 0
  BY CallTyped
<1> SUFFICES ASSUME ~WithRoles PROVE Encloses'
  BY <1>1 DEF Encloses, WithRoles
<1>3. Enclosed(call, next, levels) /\ pending = 0
  BY <1>1 DEF Encloses
<1>4. Enclosed(call, next + 1, levels)
  BY <1>1, <1>2, <1>3, EnclosedRests
<1>5. Enclosed(call', next', levels')
  BY <1>1, <1>4
<1> QED BY <1>1, <1>3, <1>5 DEF Encloses

LEMMA JoinEncloses ==
    ASSUME TypeOK, Follows, Encloses, Join PROVE Encloses'
<1>1. Taking /\ Significant(Current) /\ ~LineStart /\ Place(out, levels, FALSE) /\ call' = call /\ outcome = "running"
  BY DEF Join, Taking, Place, Takes
<1> SUFFICES ASSUME ~WithRoles PROVE Encloses'
  BY <1>1 DEF Encloses, WithRoles
<1>2. next \in Nat /\ next > 0
  BY CallTyped
<1>3. Enclosed(call, next, levels)
  BY <1>1 DEF Encloses
<1>4. ~BeginsIn(call, next + 1, next)
  BY <1>1, LineStartBegins
<1>5. Enclosed(call, next + 1, levels)
  BY <1>2, <1>3, <1>4, EnclosedRests
<1> QED BY <1>1, <1>5, PlaceEncloses

LEMMA DeepenEncloses ==
    ASSUME Readable, Follows, Encloses, Deepen PROVE Encloses'
<1>1. Taking /\ Significant(Current) /\ LineStart /\ (PythonTabs => at = Current.start.offset) /\ Deeper /\ Clear
      /\ next <= Len(call.tokens) /\ outcome = "running" /\ TypeOK
  BY DEF Deepen, NewLine, LineStart, Taking, Readable
<1>2. call' = call
  BY DEF Deepen, Place, Takes
<1> SUFFICES ASSUME ~WithRoles PROVE Encloses'
  BY <1>2 DEF Encloses, WithRoles
<1>3. Place(Append(Ended, Mark("indent", Current.start)), Append(levels, Here), FALSE)
  BY DEF Deepen
<1>4. next \in Nat /\ next > 0 /\ Enclosed(call, next, levels) /\ Current = call.tokens[next]
  BY <1>1, CallTyped DEF Encloses, Current
<1>5. Shapes(call, next) /\ BeginsIn(call, next + 1, next)
  BY <1>1, LineStartBegins
<1>6. Here = ColumnIn(call, call.tokens[next]) /\ Here \in Measure
  BY <1>1, <1>4, HereIsColumn
<1>7. /\ Here.tab8 > Last(levels).tab8
      /\ call.tabs = "python" => Here.tab1 > Last(levels).tab1
      /\ call.tabs # "python" => Here.tab1 = 0
  BY <1>1 DEF Deeper, Clear, PythonTabs, Here
<1>8. Enclosed(call, next + 1, Append(levels, Here))
  BY <1>4, <1>5, <1>6, <1>7, EnclosedDeepens
<1> QED BY <1>1, <1>3, <1>8, PlaceEncloses

LEMMA SettleEncloses ==
    ASSUME Readable, Follows, Encloses, Settle PROVE Encloses'
<1> DEFINE w == Here.tab8
           d == Depth(w)
<1>1. Taking /\ Significant(Current) /\ LineStart /\ (PythonTabs => at = Current.start.offset)
      /\ ~Deeper /\ Fits /\ Clear
      /\ next <= Len(call.tokens) /\ outcome = "running" /\ TypeOK
  BY DEF Settle, NewLine, LineStart, Taking, Readable
<1>2. Place(Ended \o Dedents(Current.start, Kept(w)), Kept(w), FALSE) /\ call' = call
  BY DEF Settle, Place, Takes
<1> SUFFICES ASSUME ~WithRoles PROVE Encloses'
  BY <1>2 DEF Encloses, WithRoles
<1>3. next \in Nat /\ next > 0 /\ Enclosed(call, next, levels) /\ Current = call.tokens[next]
  BY <1>1, CallTyped DEF Encloses, Current
<1>4. Shapes(call, next) /\ BeginsIn(call, next + 1, next)
  BY <1>1, LineStartBegins
<1>5. Here = ColumnIn(call, call.tokens[next]) /\ Here \in Measure
  BY <1>1, <1>3, HereIsColumn
<1>6. levels \in Seq(Measure) /\ Len(levels) \in Nat /\ Len(levels) >= 1 /\ levels[1].tab8 = 0 /\ w \in Nat
  BY <1>3, <1>5 DEF Enclosed, Rising, Measure
<1>7. d \in 1..Len(levels)
  <2> DEFINE D == {0} \cup { k \in DOMAIN levels : levels[k].tab8 <= w }
             n == Len(levels)
  <2>1. n \in Nat /\ 1 \in D /\ \A k \in D : k \in 0..n
    BY <1>6
  <2>2. d = Max(D)
    BY DEF Depth
  <2> HIDE DEF D, n, d
  <2>3. Max(D) \in D /\ \A k \in D : Max(D) >= k
    BY <2>1, MaxOfDepths
  <2>4. d >= 1 /\ d \in 0..n
    BY <2>1, <2>2, <2>3
  <2> QED BY <2>1, <2>4 DEF n
<1>8. Kept(w) = SubSeq(levels, 1, d)
  BY DEF Kept
<1> HIDE DEF d
<1>9. Last(Kept(w)) = levels[d] /\ levels[d] \in Measure
  BY <1>6, <1>7, <1>8 DEF Last
<1>10. levels[d] = Here
  <2>1. Here.tab8 = levels[d].tab8
    BY <1>1, <1>9 DEF Fits
  <2>2. CASE PythonTabs
    <3>1. Here.tab1 = levels[d].tab1
      BY <1>1, <1>9, <2>2 DEF Clear
    <3> QED BY <1>5, <1>9, <2>1, <3>1, SameMeasure
  <2>3. CASE ~PythonTabs
    <3>1. Here.tab1 = 0 /\ levels[d].tab1 = 0
      BY <1>3, <1>7, <2>3 DEF Here, PythonTabs, Enclosed
    <3> QED BY <1>5, <1>9, <2>1, <3>1, SameMeasure
  <2> QED BY <2>2, <2>3
<1>11. Enclosed(call, next + 1, Kept(w))
  <2>1. Enclosed(call, next + 1, SubSeq(levels, 1, d))
    BY <1>3, <1>4, <1>5, <1>7, <1>10, EnclosedSettles
  <2> QED BY <1>8, <2>1
<1> HIDE DEF w
<1> QED BY <1>1, <1>2, <1>11, PlaceEncloses

\* layout(), with no roles: the blocks open after each token are the lines that enclose the line at
\* hand, outermost first, and under tab_policy::python the same lines whether a tab is worth 8 columns
\* or one.
THEOREM LevelsEncloseLines == Spec => []LevelsAreEnclosingLines
<1>1. Init => Readable /\ Follows /\ Encloses
  BY InitReadable, StepFollows, InitEncloses
<1>2. Readable /\ Follows /\ Encloses /\ [Next]_vars => Readable' /\ Follows' /\ Encloses'
  <2> SUFFICES ASSUME Readable, Follows, Encloses, [Next]_vars PROVE Encloses'
    BY StepReads, StepFollows DEF Readable
  <2>0. TypeOK
    BY DEF Readable
  <2>1. CASE Read
    BY <2>1 DEF Read, Encloses, WithRoles
  <2>2. CASE Beyond
    BY <2>2 DEF Beyond, Fail, Encloses
  <2>3. CASE EndToken \/ PassThrough
    BY <2>0, <2>3, PassEncloses
  <2>4. CASE Join
    BY <2>0, <2>4, JoinEncloses
  <2>5. CASE Deepen
    BY <2>5, DeepenEncloses
  <2>6. CASE Settle
    BY <2>6, SettleEncloses
  <2>7. CASE Inconsistent
    BY <2>7 DEF Inconsistent, Fail, Encloses
  <2>8. CASE Mixed
    BY <2>8 DEF Mixed, Fail, Encloses
  <2>9. CASE Finish
    BY <2>9 DEF Finish, Encloses
  <2>10. CASE UNCHANGED vars
    BY <2>10 DEF vars, Encloses, WithRoles
  <2> QED BY <2>1, <2>2, <2>3, <2>4, <2>5, <2>6, <2>7, <2>8, <2>9, <2>10 DEF Next
<1>3. Encloses => LevelsAreEnclosingLines
  <2> SUFFICES ASSUME Encloses, ~WithRoles, outcome = "running" PROVE LevelsAreEnclosingLines
    BY DEF LevelsAreEnclosingLines
  <2> DEFINE columns == [i \in { i \in Taken : Begins(i) } |-> Column(call.tokens[i])]
  <2>1. columns = ColumnsIn(call, next)
    <3>1. Taken = TakenIn(call, next)
      BY DEF Taken, TakenIn, Shapes, Significant
    <3>2. \A i : Begins(i) <=> BeginsIn(call, next, i)
      BY <3>1 DEF Begins, BeginsIn, PassedIn
    <3>3. { i \in Taken : Begins(i) } = LinesIn(call, next)
      BY <3>1, <3>2 DEF LinesIn
    <3>4. \A i : Column(call.tokens[i]) = ColumnIn(call, call.tokens[i])
      BY ColumnOfCall
    <3> QED BY <3>3, <3>4 DEF ColumnsIn
  <2>2. Enclosed(call, next, levels)
    BY DEF Encloses
  <2>3. levels \in Seq(Measure) /\ Len(levels) \in Nat /\ Len(levels) >= 1
        /\ \A i, j \in 1..Len(levels) : i < j => levels[i].tab8 < levels[j].tab8
    BY <2>2 DEF Enclosed, Rising
  <2>4. ToSet(Tail(levels)) = Inner(levels)
    BY <2>3, InnerIsTail
  <2>5. \A i \in 2..Len(levels) : levels[i].tab8 > levels[i - 1].tab8
    <3> TAKE i \in 2..Len(levels)
    <3>1. i \in 1..Len(levels) /\ i - 1 \in 1..Len(levels) /\ i - 1 < i
      BY <2>3
    <3>2. levels[i - 1].tab8 < levels[i].tab8 /\ levels[i] \in Measure /\ levels[i - 1] \in Measure
      BY <2>3, <3>1
    <3>3. levels[i].tab8 \in Nat /\ levels[i - 1].tab8 \in Nat
      BY <3>2 DEF Measure
    <3> QED BY <3>2, <3>3
  <2>6. ToSet(Tail(levels)) = EnclosingIn(columns, "tab8")
    BY <2>1, <2>2, <2>4 DEF Enclosed
  <2>7. PythonTabs => ToSet(Tail(levels)) = EnclosingIn(columns, "tab1")
    BY <2>1, <2>2, <2>4 DEF Enclosed, PythonTabs
  <2> QED BY <2>5, <2>6, <2>7 DEF LevelsAreEnclosingLines, EnclosingIn
<1> QED BY <1>1, <1>2, <1>3, PTL DEF Spec

-----------------------------------------------------------------------------
(* The tokens among those given *)

\* The tokens passed are among those given, in their order, and with them only what the pass adds.
Ordered(c, n, o) ==
    /\ o \in Seq(Given)
    /\ \A i \in PassedIn(c, n) : \E p \in 1..Len(o) : o[p] = c.tokens[i]
    /\ \A p \in 1..Len(o) : o[p].kind \notin Synthetic => \E i \in PassedIn(c, n) : o[p] = c.tokens[i]
    /\ \A p, q \in 1..Len(o) : \A i, j \in PassedIn(c, n) :
           o[p] = c.tokens[i] /\ o[q] = c.tokens[j] /\ p < q => i < j

\* Where a token is.
AtIn(c, o, i) == CHOOSE p \in DOMAIN o : o[p] = c.tokens[i]

LEMMA OrderedAt ==
    ASSUME NEW c, NEW n, NEW o, Ordered(c, n, o), NEW i \in PassedIn(c, n)
    PROVE  /\ AtIn(c, o, i) \in 1..Len(o) /\ o[AtIn(c, o, i)] = c.tokens[i]
           /\ \A p \in 1..Len(o) : o[p] = c.tokens[i] => AtIn(c, o, i) = p
<1>1. o \in Seq(Given) /\ DOMAIN o = 1..Len(o) /\ Len(o) \in Nat
  BY DEF Ordered
<1>2. \E p \in DOMAIN o : o[p] = c.tokens[i]
  BY <1>1 DEF Ordered
<1>3. AtIn(c, o, i) \in DOMAIN o /\ o[AtIn(c, o, i)] = c.tokens[i]
  BY <1>2 DEF AtIn
<1>4. ASSUME NEW p \in 1..Len(o), o[p] = c.tokens[i] PROVE AtIn(c, o, i) = p
  <2> DEFINE q == AtIn(c, o, i)
  <2>1. q \in 1..Len(o) /\ o[q] = c.tokens[i]
    BY <1>1, <1>3
  <2> HIDE DEF q
  <2>2. i \in Int
    BY DEF PassedIn
  <2>3. ~(p < q) /\ ~(q < p)
    BY <1>4, <2>1, <2>2 DEF Ordered
  <2>4. p = q
    BY <1>1, <2>1, <2>3
  <2> QED BY <2>4 DEF q
<1> QED BY <1>1, <1>3, <1>4

\* A token passed is one of the call's, and none the pass adds.
LEMMA PassedToken ==
    ASSUME NEW c \in Calls, NEW n \in Nat, n <= Len(c.tokens) + 1, NEW i \in PassedIn(c, n)
    PROVE  i \in DOMAIN c.tokens /\ c.tokens[i].kind \notin Synthetic /\ i < n /\ i \in Nat
<1>1. c.tokens \in Seq([kind : STRING, lexeme : Seq(STRING), mode : STRING,
                        start : [offset : Nat, line : Nat, column : Nat \ {0}]])
      /\ \A k \in DOMAIN c.tokens : c.tokens[k].kind \notin Synthetic
  BY LayoutAssumption
<1>2. Len(c.tokens) \in Nat /\ DOMAIN c.tokens = 1..Len(c.tokens)
  BY <1>1
<1>3. i \in 1..(n - 1)
  BY DEF PassedIn
<1>4. i \in 1..Len(c.tokens) /\ i < n /\ i \in Nat
  BY <1>2, <1>3
<1> QED BY <1>1, <1>2, <1>4

\* What the pass adds last is no token.
LEMMA OrderedJoin ==
    ASSUME NEW c \in Calls, NEW n \in Nat, n <= Len(c.tokens) + 1, NEW o, Ordered(c, n, o),
           NEW t \in Seq(Given), \A k \in 1..Len(t) : t[k].kind \in Synthetic
    PROVE  Ordered(c, n, o \o t)
<1> DEFINE p == o \o t
<1>1. o \in Seq(Given) /\ Len(o) \in Nat /\ Len(t) \in Nat
  BY DEF Ordered
<1>2. p \in Seq(Given) /\ Len(p) = Len(o) + Len(t) /\ (\A k \in 1..Len(o) : p[k] = o[k])
      /\ \A k \in (Len(o) + 1)..(Len(o) + Len(t)) : p[k] = t[k - Len(o)]
  BY <1>1, JoinTyped
<1> HIDE DEF p
<1>3. \A k \in 1..Len(p) : k \in 1..Len(o) \/ (k \in (Len(o) + 1)..(Len(o) + Len(t)) /\ k - Len(o) \in 1..Len(t))
  BY <1>1, <1>2
<1>4. \A k \in 1..Len(p) : p[k].kind \notin Synthetic => k \in 1..Len(o)
  BY <1>2, <1>3
<1>5. \A k \in 1..Len(o) : k \in 1..Len(p)
  BY <1>1, <1>2
<1>6. \A k \in 1..Len(p) : \A i \in PassedIn(c, n) : p[k] = c.tokens[i] => k \in 1..Len(o) /\ o[k] = c.tokens[i]
  BY <1>2, <1>4, PassedToken
<1>7. \A i \in PassedIn(c, n) : \E k \in 1..Len(p) : p[k] = c.tokens[i]
  <2> TAKE i \in PassedIn(c, n)
  <2>1. PICK k \in 1..Len(o) : o[k] = c.tokens[i]
    BY DEF Ordered
  <2> QED BY <1>2, <1>5, <2>1
<1>8. \A k \in 1..Len(p) : p[k].kind \notin Synthetic => \E i \in PassedIn(c, n) : p[k] = c.tokens[i]
  <2> SUFFICES ASSUME NEW k \in 1..Len(p), p[k].kind \notin Synthetic
      PROVE \E i \in PassedIn(c, n) : p[k] = c.tokens[i]
    OBVIOUS
  <2>1. k \in 1..Len(o)
    BY <1>4
  <2>2. p[k] = o[k]
    BY <1>2, <2>1
  <2> QED BY <2>1, <2>2 DEF Ordered
<1>9. \A k, l \in 1..Len(p) : \A i, j \in PassedIn(c, n) :
           p[k] = c.tokens[i] /\ p[l] = c.tokens[j] /\ k < l => i < j
  BY <1>6 DEF Ordered
<1> QED BY <1>2, <1>7, <1>8, <1>9 DEF Ordered, p

\* Nor is what it puts in between.
LEMMA OrderedInsert ==
    ASSUME NEW c \in Calls, NEW n \in Nat, n <= Len(c.tokens) + 1, NEW o, Ordered(c, n, o),
           NEW node \in 1..Len(o), NEW x \in Given, x.kind \in Synthetic
    PROVE  Ordered(c, n, InsertAt(o, node, x))
<1>0. o \in Seq(Given) /\ node \in 1..Len(o) /\ x \in Given
  BY DEF Ordered
<1>01. /\ InsertAt(o, node, x) \in Seq(Given) /\ Len(InsertAt(o, node, x)) = Len(o) + 1
       /\ InsertAt(o, node, x)[node] = x
       /\ \A k \in 1..(node - 1) : InsertAt(o, node, x)[k] = o[k]
       /\ \A k \in (node + 1)..(Len(o) + 1) : InsertAt(o, node, x)[k] = o[k - 1]
  BY <1>0, InsertTyped
<1> DEFINE p == InsertAt(o, node, x)
           m == Len(o)
<1>1. o \in Seq(Given) /\ m \in Nat /\ node \in Nat
  BY <1>0
<1>2. p \in Seq(Given) /\ Len(p) = m + 1 /\ p[node] = x
      /\ (\A k \in 1..(node - 1) : p[k] = o[k])
      /\ \A k \in (node + 1)..(m + 1) : p[k] = o[k - 1]
  BY <1>01
<1> HIDE DEF p
<1>3. \A k \in 1..Len(p) : k = node \/ (k \in 1..(node - 1) /\ k \in 1..m)
                           \/ (k \in (node + 1)..(m + 1) /\ k - 1 \in 1..m)
  BY <1>1, <1>2
<1> DEFINE back(k) == IF k < node THEN k ELSE k - 1
           on(k) == IF k < node THEN k ELSE k + 1
<1>4. \A k \in 1..Len(p) : k # node => back(k) \in 1..m /\ p[k] = o[back(k)]
  <2> TAKE k \in 1..Len(p)
  <2>1. CASE k \in 1..(node - 1)
    BY <1>1, <1>2, <1>3, <2>1
  <2>2. CASE k \in (node + 1)..(m + 1)
    <3>1. ~(k < node) /\ k # node
      BY <1>1, <2>2
    <3> QED BY <1>2, <1>3, <2>2, <3>1
  <2> QED BY <1>3, <2>1, <2>2
<1>5. \A k \in 1..m : on(k) \in 1..Len(p) /\ p[on(k)] = o[k]
  <2> TAKE k \in 1..m
  <2>1. CASE k < node
    <3>1. k \in 1..(node - 1) /\ k \in 1..Len(p)
      BY <1>1, <1>2, <2>1
    <3> QED BY <1>2, <2>1, <3>1
  <2>2. CASE ~(k < node)
    <3>1. k + 1 \in (node + 1)..(m + 1) /\ k + 1 \in 1..Len(p) /\ k + 1 - 1 = k
      BY <1>1, <1>2, <2>2
    <3> DEFINE l == k + 1
    <3>2. l \in (node + 1)..(m + 1) /\ l - 1 = k
      BY <3>1
    <3> HIDE DEF l
    <3>3. p[l] = o[l - 1]
      BY <1>2, <3>2
    <3> QED BY <2>2, <3>1, <3>2, <3>3 DEF l
  <2> QED BY <2>1, <2>2
<1>6. \A k, l \in 1..Len(p) : k # node /\ l # node /\ k < l => back(k) < back(l)
  BY <1>1, <1>2
<1> HIDE DEF back, on
<1>7. \A k \in 1..Len(p) : \A i \in PassedIn(c, n) : p[k] = c.tokens[i] => k # node
  BY <1>2, PassedToken
<1>8. \A i \in PassedIn(c, n) : \E k \in 1..Len(p) : p[k] = c.tokens[i]
  <2> TAKE i \in PassedIn(c, n)
  <2>1. PICK k \in 1..Len(o) : o[k] = c.tokens[i]
    BY DEF Ordered
  <2> QED BY <1>5, <2>1
<1>9. \A k \in 1..Len(p) : p[k].kind \notin Synthetic => \E i \in PassedIn(c, n) : p[k] = c.tokens[i]
  <2> SUFFICES ASSUME NEW k \in 1..Len(p), p[k].kind \notin Synthetic
      PROVE \E i \in PassedIn(c, n) : p[k] = c.tokens[i]
    OBVIOUS
  <2>1. back(k) \in 1..Len(o) /\ p[k] = o[back(k)]
    BY <1>2, <1>4
  <2> QED BY <2>1 DEF Ordered
<1>10. \A k, l \in 1..Len(p) : \A i, j \in PassedIn(c, n) :
           p[k] = c.tokens[i] /\ p[l] = c.tokens[j] /\ k < l => i < j
  <2> SUFFICES ASSUME NEW k \in 1..Len(p), NEW l \in 1..Len(p), NEW i \in PassedIn(c, n), NEW j \in PassedIn(c, n),
                      p[k] = c.tokens[i], p[l] = c.tokens[j], k < l
      PROVE i < j
    OBVIOUS
  <2>1. k # node /\ l # node
    BY <1>7
  <2>2. back(k) \in 1..Len(o) /\ back(l) \in 1..Len(o) /\ o[back(k)] = c.tokens[i] /\ o[back(l)] = c.tokens[j]
        /\ back(k) < back(l)
    BY <1>4, <1>6, <2>1
  <2> QED BY <2>2 DEF Ordered
<1> QED BY <1>2, <1>8, <1>9, <1>10 DEF Ordered, p

\* The next token is, and the last of them; the input's own end token is not given.
LEMMA OrderedToken ==
    ASSUME NEW c \in Calls, NEW n \in Nat, n > 0, n <= Len(c.tokens), NEW o, Ordered(c, n, o)
    PROVE  /\ c.tokens[n].kind # EndOfInput => Ordered(c, n + 1, Append(o, c.tokens[n]))
           /\ c.tokens[n].kind = EndOfInput => Ordered(c, n + 1, o)
<1>1. c.tokens[n].kind = EndOfInput => Ordered(c, n + 1, o)
  BY PassedLast DEF Ordered
<1>2. ASSUME c.tokens[n].kind # EndOfInput PROVE Ordered(c, n + 1, Append(o, c.tokens[n]))
  <2> DEFINE t == c.tokens[n]
             p == Append(o, t)
             m == Len(o)
  <2>1. Len(c.tokens) \in Nat /\ n \in DOMAIN c.tokens /\ t \in Given /\ t.kind \notin Synthetic
    <3> DEFINE Token == [kind : STRING, lexeme : Seq(STRING), mode : STRING, start : Positions]
    <3>1. c.tokens \in Seq(Token)
      BY LayoutAssumption DEF Positions
    <3> HIDE DEF Token
    <3>2. Len(c.tokens) \in Nat /\ n \in DOMAIN c.tokens
      BY <3>1
    <3>3. t \in Token
      BY <3>1, <3>2
    <3>4. t \in Given
      BY <3>3 DEF Token, Given, Words
    <3> QED BY <3>2, <3>4, LayoutAssumption
  <2>2. o \in Seq(Given)
    BY DEF Ordered
  <2>3. p \in Seq(Given) /\ m \in Nat /\ Len(p) = m + 1 /\ p[m + 1] = t /\ \A k \in 1..m : p[k] = o[k]
    BY <2>1, <2>2, AppendTyped
  <2>4. PassedIn(c, n + 1) = PassedIn(c, n) \cup {n} /\ \A i \in PassedIn(c, n) : i < n /\ i \in Nat /\ i \in DOMAIN c.tokens
    <3>1. \A j \in 1..(n + 1 - 1) : j = n \/ j \in 1..(n - 1)
      OBVIOUS
    <3>2. n \in 1..(n + 1 - 1) /\ \A j \in 1..(n - 1) : j \in 1..(n + 1 - 1)
      OBVIOUS
    <3>3. n <= Len(c.tokens) + 1
      BY <2>1
    <3> QED BY <1>2, <3>1, <3>2, <3>3, PassedToken DEF PassedIn
  <2>5. \A k \in 1..(m + 1) : k = m + 1 \/ k \in 1..m
    BY <2>3
  <2>6. m + 1 \in 1..Len(p) /\ \A k \in 1..m : k \in 1..Len(p)
    BY <2>3
  <2> HIDE DEF p
  <2>7. \A k \in 1..m : p[k] # t
    <3> SUFFICES ASSUME NEW k \in 1..m, o[k] = t PROVE FALSE
      BY <2>3
    <3>1. PICK i \in PassedIn(c, n) : o[k] = c.tokens[i]
      BY <2>1 DEF Ordered
    <3>2. i = n
      BY <2>1, <2>4, <3>1, ApartAssumption
    <3> QED BY <2>4, <3>2
  <2>8. \A i \in PassedIn(c, n) : c.tokens[i] # t
    BY <2>1, <2>4, ApartAssumption
  <2>9. \A i \in PassedIn(c, n + 1) : \E k \in 1..Len(p) : p[k] = c.tokens[i]
    <3> TAKE i \in PassedIn(c, n + 1)
    <3>1. CASE i = n
      BY <2>3, <2>6, <3>1
    <3>2. CASE i \in PassedIn(c, n)
      <4>1. PICK k \in 1..Len(o) : o[k] = c.tokens[i]
        BY <3>2 DEF Ordered
      <4> QED BY <2>3, <2>6, <4>1
    <3> QED BY <2>4, <3>1, <3>2
  <2>10. \A k \in 1..Len(p) : p[k].kind \notin Synthetic => \E i \in PassedIn(c, n + 1) : p[k] = c.tokens[i]
    <3> SUFFICES ASSUME NEW k \in 1..Len(p), p[k].kind \notin Synthetic
        PROVE \E i \in PassedIn(c, n + 1) : p[k] = c.tokens[i]
      OBVIOUS
    <3>1. CASE k = m + 1
      BY <2>3, <2>4, <3>1
    <3>2. CASE k \in 1..m
      <4>1. PICK i \in PassedIn(c, n) : o[k] = c.tokens[i]
        BY <2>3, <3>2 DEF Ordered
      <4> QED BY <2>3, <2>4, <3>2, <4>1
    <3> QED BY <2>3, <2>5, <3>1, <3>2
  <2>11. \A k, l \in 1..Len(p) : \A i, j \in PassedIn(c, n + 1) :
             p[k] = c.tokens[i] /\ p[l] = c.tokens[j] /\ k < l => i < j
    <3> SUFFICES ASSUME NEW k \in 1..Len(p), NEW l \in 1..Len(p), NEW i \in PassedIn(c, n + 1),
                        NEW j \in PassedIn(c, n + 1), p[k] = c.tokens[i], p[l] = c.tokens[j], k < l
        PROVE i < j
      OBVIOUS
    <3>1. k \in 1..m
      BY <2>3
    <3>2. i \in PassedIn(c, n)
      BY <2>4, <2>7, <3>1
    <3>3. CASE l = m + 1
      <4>1. j = n
        BY <2>3, <2>4, <2>8, <3>3
      <4> QED BY <2>4, <3>2, <4>1
    <3>4. CASE l \in 1..m
      <4>1. j \in PassedIn(c, n)
        BY <2>4, <2>7, <3>4
      <4>2. o[k] = c.tokens[i] /\ o[l] = c.tokens[j] /\ k \in 1..Len(o) /\ l \in 1..Len(o)
        BY <2>3, <3>1, <3>4
      <4> QED BY <3>2, <4>1, <4>2 DEF Ordered
    <3> QED BY <2>3, <2>5, <3>3, <3>4
  <2> QED BY <2>3, <2>9, <2>10, <2>11 DEF Ordered, p
<1> QED BY <1>1, <1>2

-----------------------------------------------------------------------------
(* The blocks that open *)

\* What BlocksAreCollections says of a token, of a call, the tokens before a place and those given.
OpensIn(c, o, i) == AtIn(c, o, i) > 1 /\ o[AtIn(c, o, i) - 1].kind = "indent"

AroundIn(c, o, i) == ReadingIn(c, o)[IF OpensIn(c, o, i) THEN AtIn(c, o, i) - 2 ELSE AtIn(c, o, i) - 1]

NodeIn(c, n, o, i) ==
    IF BeginsIn(c, n, i) THEN ColumnIn(c, c.tokens[i]).tab8 > Last(AroundIn(c, o, i)).tab8
    ELSE ArmedIn(c, n, Max({ j \in TakenIn(c, n) : j < i }))

Ends(c, n, o, j) == NodeIn(c, n, o, j) \/ BeginsIn(c, n, j) \/ c.tokens[j].kind \in c.values

EndsIn(c, n, o, i) == { j \in TakenIn(c, n) : j > i /\ Ends(c, n, o, j) }

KeyedIn(c, n, o, i) ==
    LET ends == EndsIn(c, n, o, i) IN ends # {} /\ ~NodeIn(c, n, o, Min(ends)) /\ ~BeginsIn(c, n, Min(ends))

\* A node that is no entry, with nothing past it that would end its key.
Undecided(c, n, o, i) == NodeIn(c, n, o, i) /\ c.tokens[i].kind \notin c.entries /\ EndsIn(c, n, o, i) = {}

\* A block opens where the property says, and the node that waits is the one not decided yet.
Collects(c, n, o, node) ==
    /\ \A i \in TakenIn(c, n) :
           OpensIn(c, o, i) <=> NodeIn(c, n, o, i) /\ (c.tokens[i].kind \in c.entries \/ KeyedIn(c, n, o, i))
    /\ node # 0 => \E i \in TakenIn(c, n) : o[node] = c.tokens[i] /\ Undecided(c, n, o, i)
    /\ \A i \in TakenIn(c, n) : Undecided(c, n, o, i) => node # 0 /\ o[node] = c.tokens[i]

\* The first of a set of places.
LEMMA MinOfPlaces ==
    ASSUME NEW D \in SUBSET Nat, D # {}
    PROVE  Min(D) \in D /\ \A d \in D : Min(D) <= d
<1>1. PICK x \in D : \A d \in D : <<d, x>> \notin OpToRel(<, Nat)
  BY NatLessThanWellFounded, WFMin
<1>2. \A d \in D : x <= d
  <2> TAKE d \in D
  <2>1. ~(d < x) /\ d \in Nat /\ x \in Nat
    BY <1>1 DEF OpToRel
  <2> QED BY <2>1
<1> DEFINE m == CHOOSE x1 \in D : \A d \in D : x1 <= d
<1>3. m \in D /\ \A d \in D : m <= d
  BY <1>2
<1> QED BY <1>3 DEF Min

\* A token past n is no reason for another to be a node.
LEMMA NodeGrows ==
    ASSUME NEW c, NEW n \in Nat, n > 0, NEW o, NEW p, NEW i \in TakenIn(c, n),
           BeginsIn(c, n, i) => AroundIn(c, p, i) = AroundIn(c, o, i)
    PROVE  NodeIn(c, n + 1, p, i) <=> NodeIn(c, n, o, i)
<1>1. BeginsIn(c, n + 1, i) <=> BeginsIn(c, n, i)
  BY BeginsKept
<1>2. i \in Nat /\ i < n
  BY DEF TakenIn
<1>3. { j \in TakenIn(c, n + 1) : j < i } = { j \in TakenIn(c, n) : j < i }
  <2>1. TakenIn(c, n + 1) = IF Shapes(c, n) THEN TakenIn(c, n) \cup {n} ELSE TakenIn(c, n)
    BY LinesGrow
  <2>2. ~(n < i)
    BY <1>2
  <2> QED BY <2>1, <2>2
<1> DEFINE D == { j \in TakenIn(c, n) : j < i }
<1>4. ASSUME ~BeginsIn(c, n, i) PROVE ArmedIn(c, n + 1, Max(D)) <=> ArmedIn(c, n, Max(D))
  <2>1. D # {}
    <3>1. PICK j \in TakenIn(c, n) : ~(j >= i)
      BY <1>4 DEF BeginsIn
    <3>2. j < i
      BY <1>2, <3>1 DEF TakenIn
    <3> QED BY <3>1, <3>2
  <2>2. \A d \in D : d \in 0..n
    BY DEF TakenIn
  <2>3. \A d \in D : d \in TakenIn(c, n)
    OBVIOUS
  <2> HIDE DEF D
  <2>4. Max(D) \in D
    BY <2>1, <2>2, MaxOfDepths
  <2> QED BY <2>3, <2>4, BeginsKept
<1> QED BY <1>1, <1>3, <1>4 DEF NodeIn

\* A node is decided once, by the first token past it that ends its key.
LEMMA EndsGrow ==
    ASSUME NEW c, NEW n \in Nat, n > 0, NEW o, NEW p,
           \A i \in TakenIn(c, n) : BeginsIn(c, n, i) => AroundIn(c, p, i) = AroundIn(c, o, i)
    PROVE  /\ \A i \in TakenIn(c, n) : NodeIn(c, n + 1, p, i) <=> NodeIn(c, n, o, i)
           /\ \A i \in TakenIn(c, n) : EndsIn(c, n + 1, p, i) =
                  EndsIn(c, n, o, i) \cup (IF Shapes(c, n) /\ Ends(c, n + 1, p, n) THEN {n} ELSE {})
           /\ \A i \in TakenIn(c, n) : EndsIn(c, n, o, i) # {} =>
                  (KeyedIn(c, n + 1, p, i) <=> KeyedIn(c, n, o, i))
           /\ \A i \in TakenIn(c, n) : EndsIn(c, n, o, i) = {} =>
                  (KeyedIn(c, n + 1, p, i) <=> /\ Shapes(c, n) /\ Ends(c, n + 1, p, n)
                                               /\ ~NodeIn(c, n + 1, p, n) /\ ~BeginsIn(c, n + 1, n))
<1>1. \A i \in TakenIn(c, n) : NodeIn(c, n + 1, p, i) <=> NodeIn(c, n, o, i)
  BY NodeGrows
<1>2. \A i \in TakenIn(c, n) : BeginsIn(c, n + 1, i) <=> BeginsIn(c, n, i)
  BY BeginsKept
<1>3. \A i \in TakenIn(c, n) : Ends(c, n + 1, p, i) <=> Ends(c, n, o, i)
  BY <1>1, <1>2 DEF Ends
<1>4. TakenIn(c, n + 1) = IF Shapes(c, n) THEN TakenIn(c, n) \cup {n} ELSE TakenIn(c, n)
  BY LinesGrow
<1>5. \A i \in TakenIn(c, n) : i \in Nat /\ i < n /\ n > i
  BY DEF TakenIn
<1>6. ASSUME NEW i \in TakenIn(c, n)
      PROVE EndsIn(c, n + 1, p, i) = EndsIn(c, n, o, i) \cup (IF Shapes(c, n) /\ Ends(c, n + 1, p, n) THEN {n} ELSE {})
  BY <1>3, <1>4, <1>5 DEF EndsIn
<1>7. ASSUME NEW i \in TakenIn(c, n), EndsIn(c, n, o, i) # {}
      PROVE  KeyedIn(c, n + 1, p, i) <=> KeyedIn(c, n, o, i)
  <2> DEFINE D == EndsIn(c, n, o, i)
             E == EndsIn(c, n + 1, p, i)
  <2>1. D \in SUBSET Nat /\ D \subseteq TakenIn(c, n) /\ D # {} /\ (E = D \/ E = D \cup {n})
    BY <1>5, <1>6, <1>7 DEF EndsIn
  <2> HIDE DEF D, E
  <2>2. Min(D) \in D /\ \A d \in D : Min(D) <= d
    BY <2>1, MinOfPlaces
  <2>3. E \in SUBSET Nat /\ E # {}
    BY <2>1
  <2>4. Min(E) \in E /\ \A d \in E : Min(E) <= d
    BY <2>3, MinOfPlaces
  <2>5. Min(E) = Min(D)
    <3>1. Min(D) \in E /\ Min(D) \in Nat /\ Min(E) \in Nat /\ Min(D) < n
      BY <1>5, <2>1, <2>2, <2>3, <2>4
    <3>2. Min(E) <= Min(D)
      BY <2>4, <3>1
    <3>3. Min(E) # n
      BY <3>1, <3>2
    <3>4. Min(E) \in D
      BY <2>1, <2>4, <3>3
    <3>5. Min(D) <= Min(E)
      BY <2>2, <3>4
    <3> QED BY <3>1, <3>2, <3>5
  <2>6. Min(D) \in TakenIn(c, n)
    BY <2>1, <2>2
  <2>7. KeyedIn(c, n, o, i) <=> ~NodeIn(c, n, o, Min(D)) /\ ~BeginsIn(c, n, Min(D))
    BY <2>1 DEF KeyedIn, D
  <2>8. KeyedIn(c, n + 1, p, i) <=> ~NodeIn(c, n + 1, p, Min(D)) /\ ~BeginsIn(c, n + 1, Min(D))
    BY <2>3, <2>5 DEF KeyedIn, E
  <2> QED BY <1>1, <1>2, <2>6, <2>7, <2>8
<1>8. ASSUME NEW i \in TakenIn(c, n), EndsIn(c, n, o, i) = {}
      PROVE  KeyedIn(c, n + 1, p, i) <=> /\ Shapes(c, n) /\ Ends(c, n + 1, p, n)
                                         /\ ~NodeIn(c, n + 1, p, n) /\ ~BeginsIn(c, n + 1, n)
  <2> DEFINE E == EndsIn(c, n + 1, p, i)
  <2>1. E = IF Shapes(c, n) /\ Ends(c, n + 1, p, n) THEN {n} ELSE {}
    BY <1>6, <1>8
  <2>2. Min({n}) = n
    <3>1. {n} \in SUBSET Nat /\ {n} # {}
      OBVIOUS
    <3> QED BY <3>1, MinOfPlaces
  <2>3. KeyedIn(c, n + 1, p, i) <=> E # {} /\ ~NodeIn(c, n + 1, p, Min(E)) /\ ~BeginsIn(c, n + 1, Min(E))
    BY DEF KeyedIn
  <2> HIDE DEF E
  <2>4. CASE Shapes(c, n) /\ Ends(c, n + 1, p, n)
    <3>1. E = {n}
      BY <2>1, <2>4
    <3> QED BY <2>2, <2>3, <2>4, <3>1
  <2>5. CASE ~(Shapes(c, n) /\ Ends(c, n + 1, p, n))
    <3>1. E = {}
      BY <2>1, <2>5
    <3> QED BY <2>3, <2>5, <3>1
  <2> QED BY <2>4, <2>5
<1> QED BY <1>1, <1>6, <1>7, <1>8

\* What a token that shapes layout does to the blocks that open: none but the node that waits opens for
\* it, and that one for a value past it, on its line, that is no node.
LEMMA TokenCollects ==
    ASSUME NEW c, NEW n \in Nat, n > 0, NEW o, NEW p, NEW node, NEW waits, NEW shows \in BOOLEAN,
           Collects(c, n, o, node), Shapes(c, n),
           \A i \in TakenIn(c, n) : BeginsIn(c, n, i) => AroundIn(c, p, i) = AroundIn(c, o, i),
           \A i, j \in TakenIn(c, n) : c.tokens[i] = c.tokens[j] => i = j,
           \A i \in TakenIn(c, n) : OpensIn(c, p, i) <=> OpensIn(c, o, i) \/ (shows /\ o[node] = c.tokens[i]),
           shows => /\ node # 0 /\ ~NodeIn(c, n + 1, p, n) /\ ~BeginsIn(c, n + 1, n)
                    /\ c.tokens[n].kind \in c.values,
           ~shows /\ node # 0 => \/ NodeIn(c, n + 1, p, n) \/ BeginsIn(c, n + 1, n)
                                 \/ c.tokens[n].kind \notin c.values,
           OpensIn(c, p, n) <=> NodeIn(c, n + 1, p, n) /\ c.tokens[n].kind \in c.entries,
           IF NodeIn(c, n + 1, p, n) /\ c.tokens[n].kind \notin c.entries THEN waits # 0 /\ p[waits] = c.tokens[n]
           ELSE IF Ends(c, n + 1, p, n) THEN waits = 0
           ELSE (waits # 0 <=> node # 0) /\ (node # 0 => p[waits] = o[node])
    PROVE  Collects(c, n + 1, p, waits)
<1>1. TakenIn(c, n + 1) = TakenIn(c, n) \cup {n} /\ \A i \in TakenIn(c, n) : i \in Nat /\ i < n /\ i # n
  BY LinesGrow DEF TakenIn
<1>2. /\ \A i \in TakenIn(c, n) : NodeIn(c, n + 1, p, i) <=> NodeIn(c, n, o, i)
      /\ \A i \in TakenIn(c, n) : EndsIn(c, n + 1, p, i) =
             EndsIn(c, n, o, i) \cup (IF Ends(c, n + 1, p, n) THEN {n} ELSE {})
      /\ \A i \in TakenIn(c, n) : EndsIn(c, n, o, i) # {} => (KeyedIn(c, n + 1, p, i) <=> KeyedIn(c, n, o, i))
      /\ \A i \in TakenIn(c, n) : EndsIn(c, n, o, i) = {} =>
             (KeyedIn(c, n + 1, p, i) <=> /\ Ends(c, n + 1, p, n)
                                          /\ ~NodeIn(c, n + 1, p, n) /\ ~BeginsIn(c, n + 1, n))
  BY EndsGrow
<1>3. EndsIn(c, n + 1, p, n) = {}
  <2>1. \A j \in TakenIn(c, n + 1) : ~(j > n)
    BY <1>1
  <2> QED BY <2>1 DEF EndsIn
<1>4. ~KeyedIn(c, n + 1, p, n)
  BY <1>3 DEF KeyedIn
<1>5. \A i \in TakenIn(c, n) : Undecided(c, n + 1, p, i) <=> Undecided(c, n, o, i) /\ ~Ends(c, n + 1, p, n)
  BY <1>2 DEF Undecided
<1>6. Undecided(c, n + 1, p, n) <=> NodeIn(c, n + 1, p, n) /\ c.tokens[n].kind \notin c.entries
  BY <1>3 DEF Undecided
<1>7. ASSUME NEW i \in TakenIn(c, n)
      PROVE  OpensIn(c, p, i) <=> NodeIn(c, n + 1, p, i) /\ (c.tokens[i].kind \in c.entries \/ KeyedIn(c, n + 1, p, i))
  <2>1. OpensIn(c, o, i) <=> NodeIn(c, n, o, i) /\ (c.tokens[i].kind \in c.entries \/ KeyedIn(c, n, o, i))
    BY DEF Collects
  <2>2. EndsIn(c, n, o, i) = {} => ~KeyedIn(c, n, o, i)
    BY DEF KeyedIn
  <2>3. CASE Undecided(c, n, o, i)
    <3>1. node # 0 /\ o[node] = c.tokens[i] /\ ~OpensIn(c, o, i) /\ c.tokens[i].kind \notin c.entries
      BY <2>1, <2>2, <2>3 DEF Collects, Undecided
    <3>2. OpensIn(c, p, i) <=> shows
      BY <3>1
    <3>3. KeyedIn(c, n + 1, p, i) <=> Ends(c, n + 1, p, n) /\ ~NodeIn(c, n + 1, p, n) /\ ~BeginsIn(c, n + 1, n)
      BY <1>2, <2>3 DEF Undecided
    <3>4. KeyedIn(c, n + 1, p, i) <=> shows
      BY <3>1, <3>3 DEF Ends
    <3> QED BY <1>2, <2>3, <3>1, <3>2, <3>4 DEF Undecided
  <2>4. CASE ~Undecided(c, n, o, i)
    <3>1. ~(shows /\ o[node] = c.tokens[i])
      <4> SUFFICES ASSUME shows, o[node] = c.tokens[i] PROVE FALSE
        OBVIOUS
      <4>1. PICK j \in TakenIn(c, n) : o[node] = c.tokens[j] /\ Undecided(c, n, o, j)
        BY DEF Collects
      <4>2. i = j
        BY <4>1
      <4> QED BY <2>4, <4>1, <4>2
    <3>2. OpensIn(c, p, i) <=> OpensIn(c, o, i)
      BY <3>1
    <3>3. CASE ~NodeIn(c, n, o, i) \/ c.tokens[i].kind \in c.entries
      BY <1>2, <2>1, <3>2, <3>3
    <3>4. CASE EndsIn(c, n, o, i) # {}
      BY <1>2, <2>1, <3>2, <3>4
    <3> QED BY <2>4, <3>3, <3>4 DEF Undecided
  <2> QED BY <2>3, <2>4
<1>8. OpensIn(c, p, n) <=> NodeIn(c, n + 1, p, n) /\ (c.tokens[n].kind \in c.entries \/ KeyedIn(c, n + 1, p, n))
  BY <1>4
<1>9. waits # 0 => \E i \in TakenIn(c, n + 1) : p[waits] = c.tokens[i] /\ Undecided(c, n + 1, p, i)
  <2>1. CASE NodeIn(c, n + 1, p, n) /\ c.tokens[n].kind \notin c.entries
    BY <1>1, <1>6, <2>1
  <2>2. CASE ~Ends(c, n + 1, p, n)
    <3> SUFFICES ASSUME waits # 0
        PROVE \E i \in TakenIn(c, n + 1) : p[waits] = c.tokens[i] /\ Undecided(c, n + 1, p, i)
      OBVIOUS
    <3>1. node # 0 /\ p[waits] = o[node]
      BY <2>2 DEF Ends
    <3>2. PICK i \in TakenIn(c, n) : o[node] = c.tokens[i] /\ Undecided(c, n, o, i)
      BY <3>1 DEF Collects
    <3> QED BY <1>1, <1>5, <2>2, <3>1, <3>2
  <2> QED BY <2>1, <2>2
<1>10. \A i \in TakenIn(c, n + 1) : Undecided(c, n + 1, p, i) => waits # 0 /\ p[waits] = c.tokens[i]
  <2> TAKE i \in TakenIn(c, n + 1)
  <2>1. CASE i = n
    BY <1>6, <2>1
  <2>2. CASE i \in TakenIn(c, n)
    <3> SUFFICES ASSUME Undecided(c, n + 1, p, i) PROVE waits # 0 /\ p[waits] = c.tokens[i]
      OBVIOUS
    <3>1. Undecided(c, n, o, i) /\ ~Ends(c, n + 1, p, n)
      BY <1>5, <2>2
    <3>2. node # 0 /\ o[node] = c.tokens[i]
      BY <2>2, <3>1 DEF Collects
    <3> QED BY <3>1, <3>2 DEF Ends
  <2> QED BY <1>1, <2>1, <2>2
<1> QED BY <1>1, <1>7, <1>8, <1>9, <1>10 DEF Collects

\* And what any other token does: nothing.
LEMMA RestCollects ==
    ASSUME NEW c, NEW n \in Nat, n > 0, NEW o, NEW p, NEW node,
           Collects(c, n, o, node), ~Shapes(c, n),
           \A i \in TakenIn(c, n) : AroundIn(c, p, i) = AroundIn(c, o, i) /\ (OpensIn(c, p, i) <=> OpensIn(c, o, i)),
           node # 0 => p[node] = o[node]
    PROVE  Collects(c, n + 1, p, node)
<1>1. TakenIn(c, n + 1) = TakenIn(c, n)
  BY LinesGrow
<1>2. /\ \A i \in TakenIn(c, n) : NodeIn(c, n + 1, p, i) <=> NodeIn(c, n, o, i)
      /\ \A i \in TakenIn(c, n) : EndsIn(c, n + 1, p, i) = EndsIn(c, n, o, i)
      /\ \A i \in TakenIn(c, n) : EndsIn(c, n, o, i) # {} => (KeyedIn(c, n + 1, p, i) <=> KeyedIn(c, n, o, i))
  <2>1. \A i \in TakenIn(c, n) : BeginsIn(c, n, i) => AroundIn(c, p, i) = AroundIn(c, o, i)
    OBVIOUS
  <2>2. /\ \A i \in TakenIn(c, n) : NodeIn(c, n + 1, p, i) <=> NodeIn(c, n, o, i)
        /\ \A i \in TakenIn(c, n) : EndsIn(c, n + 1, p, i) =
               EndsIn(c, n, o, i) \cup (IF Shapes(c, n) /\ Ends(c, n + 1, p, n) THEN {n} ELSE {})
        /\ \A i \in TakenIn(c, n) : EndsIn(c, n, o, i) # {} => (KeyedIn(c, n + 1, p, i) <=> KeyedIn(c, n, o, i))
    BY <2>1, EndsGrow
  <2>3. \A i \in TakenIn(c, n) : EndsIn(c, n + 1, p, i) = EndsIn(c, n, o, i)
    <3> TAKE i \in TakenIn(c, n)
    <3>1. EndsIn(c, n + 1, p, i) = EndsIn(c, n, o, i) \cup {}
      BY <2>2
    <3> QED BY <3>1
  <2> QED BY <2>2, <2>3
<1>3. \A i \in TakenIn(c, n) : EndsIn(c, n, o, i) = {} => ~KeyedIn(c, n + 1, p, i) /\ ~KeyedIn(c, n, o, i)
  BY <1>2 DEF KeyedIn
<1>4. \A i \in TakenIn(c, n) : Undecided(c, n + 1, p, i) <=> Undecided(c, n, o, i)
  BY <1>2 DEF Undecided
<1> QED BY <1>1, <1>2, <1>3, <1>4 DEF Collects

\* More tokens given after leave those before where they are, and what is around them.
LEMMA PlacesKept ==
    ASSUME NEW c, NEW n \in Nat, NEW m, NEW o, NEW p, Ordered(c, n, o), Ordered(c, m, p),
           Len(o) <= Len(p), \A k \in 1..Len(o) : p[k] = o[k],
           NEW i \in PassedIn(c, n), i \in PassedIn(c, m)
    PROVE  /\ OpensIn(c, p, i) <=> OpensIn(c, o, i)
           /\ AroundIn(c, p, i) = AroundIn(c, o, i)
<1> DEFINE a == AtIn(c, o, i)
<1>1. Len(o) \in Nat /\ Len(p) \in Nat
  BY DEF Ordered
<1>2. a \in 1..Len(o) /\ o[a] = c.tokens[i]
  BY OrderedAt
<1>3. AtIn(c, p, i) = a
  <2> HIDE DEF a
  <2>1. a \in 1..Len(p) /\ p[a] = c.tokens[i]
    BY <1>1, <1>2
  <2> QED BY <2>1, OrderedAt
<1> HIDE DEF a
<1>4. a > 1 => p[a - 1] = o[a - 1]
  BY <1>1, <1>2
<1>5. OpensIn(c, p, i) <=> OpensIn(c, o, i)
  BY <1>3, <1>4 DEF OpensIn, a
<1>6. ASSUME NEW k \in {a - 2, a - 1}, k >= 0 PROVE ReadingIn(c, p)[k] = ReadingIn(c, o)[k]
  <2>1. k \in Nat /\ k <= Len(o) /\ k <= Len(p) /\ \A j \in 1..k : j \in 1..Len(o) /\ j + 1 \in 1..Len(o)
    BY <1>1, <1>2, <1>6
  <2>2. \A j \in 1..k : o[j] = p[j] /\ (o[j].kind = "indent" => o[j + 1] = p[j + 1])
    BY <2>1
  <2>3. \A j \in 0..k : ReadingIn(c, o)[j] = ReadingIn(c, p)[j]
    BY <1>1, <2>1, <2>2, ReadingAgrees
  <2>4. k \in 0..k
    BY <2>1
  <2> QED BY <2>3, <2>4
<1>7. /\ AroundIn(c, p, i) = ReadingIn(c, p)[IF OpensIn(c, o, i) THEN a - 2 ELSE a - 1]
      /\ AroundIn(c, o, i) = ReadingIn(c, o)[IF OpensIn(c, o, i) THEN a - 2 ELSE a - 1]
  BY <1>3, <1>5 DEF AroundIn, a
<1>8. (OpensIn(c, o, i) => a - 2 >= 0) /\ a - 1 >= 0
  <2>1. OpensIn(c, o, i) => a > 1
    BY DEF OpensIn, a
  <2> QED BY <1>2, <2>1
<1>9. AroundIn(c, p, i) = AroundIn(c, o, i)
  <2>1. CASE OpensIn(c, o, i)
    BY <1>6, <1>7, <1>8, <2>1
  <2>2. CASE ~OpensIn(c, o, i)
    BY <1>6, <1>7, <1>8, <2>2
  <2> QED BY <2>1, <2>2
<1> QED BY <1>5, <1>9

\* Tokens with an INDENT put in front of one that no block opens at, or past it.
IndentedAt(o, p, node) ==
    /\ node \in 1..Len(o) /\ Len(p) > Len(o)
    /\ p[node].kind = "indent"
    /\ \A k \in 1..(node - 1) : p[k] = o[k]
    /\ \A k \in (node + 1)..(Len(o) + 1) : p[k] = o[k - 1]
    /\ \A k \in node..Len(o) : o[k].kind \notin {"indent", "dedent"}
    /\ node > 1 => o[node - 1].kind # "indent"

\* An INDENT put in front of a node opens that node's block and no other, and the tokens up to the node
\* have the same blocks around them.
LEMMA PlacesOpened ==
    ASSUME NEW c, NEW n \in Nat, NEW m, NEW o, NEW p, Ordered(c, n, o), Ordered(c, m, p),
           NEW node, IndentedAt(o, p, node),
           NEW v \in PassedIn(c, n), o[node] = c.tokens[v],
           NEW i \in PassedIn(c, n), i \in PassedIn(c, m)
    PROVE  /\ OpensIn(c, p, i) <=> OpensIn(c, o, i) \/ o[node] = c.tokens[i]
           /\ i <= v => AroundIn(c, p, i) = AroundIn(c, o, i)
<1> DEFINE a == AtIn(c, o, i)
<1>0. /\ node \in 1..Len(o) /\ Len(p) > Len(o)
      /\ p[node].kind = "indent"
      /\ \A k \in 1..(node - 1) : p[k] = o[k]
      /\ \A k \in (node + 1)..(Len(o) + 1) : p[k] = o[k - 1]
      /\ \A k \in node..Len(o) : o[k].kind \notin {"indent", "dedent"}
      /\ node > 1 => o[node - 1].kind # "indent"
  BY DEF IndentedAt
<1>1. Len(o) \in Nat /\ Len(p) \in Nat /\ node \in Nat /\ node \in 1..Len(o) /\ Len(p) > Len(o)
  BY <1>0 DEF Ordered
<1>2. a \in 1..Len(o) /\ o[a] = c.tokens[i] /\ (o[node] = c.tokens[i] => a = node)
  BY <1>1, OrderedAt
<1> HIDE DEF a
<1>3. ASSUME NEW k \in Nat, k <= node - 1 PROVE ReadingIn(c, p)[k] = ReadingIn(c, o)[k]
  <2>1. k <= Len(o) /\ k <= Len(p) /\ \A j \in 1..k : j \in 1..(node - 1) /\ (j = node - 1 \/ j + 1 \in 1..(node - 1))
    BY <1>1, <1>3
  <2>2. \A j \in 1..k : j = node - 1 => node > 1
    BY <1>1
  <2>3. \A j \in 1..k : o[j] = p[j] /\ (o[j].kind = "indent" => o[j + 1] = p[j + 1])
    BY <1>0, <2>1, <2>2
  <2>4. \A j \in 0..k : ReadingIn(c, o)[j] = ReadingIn(c, p)[j]
    <3>1. k \in Nat /\ Len(o) \in Nat /\ Len(p) \in Nat /\ k <= Len(o) /\ k <= Len(p)
          /\ \A j \in 1..k : o[j] = p[j] /\ (o[j].kind = "indent" => o[j + 1] = p[j + 1])
      BY <1>1, <2>1, <2>3
    <3> QED BY <3>1, ReadingAgrees
  <2>5. k \in 0..k
    OBVIOUS
  <2> QED BY <2>4, <2>5
<1>4. CASE a < node
  <2>1. a \in 1..(node - 1) /\ a \in 1..Len(p) /\ (a > 1 => a - 1 \in 1..(node - 1)) /\ a # node
    BY <1>1, <1>2, <1>4
  <2>2. AtIn(c, p, i) = a
    <3>1. p[a] = c.tokens[i]
      BY <1>0, <1>2, <2>1
    <3> QED BY <2>1, <3>1, OrderedAt
  <2>3. OpensIn(c, p, i) <=> OpensIn(c, o, i)
    BY <1>0, <2>1, <2>2 DEF OpensIn, a
  <2>4. /\ AroundIn(c, p, i) = ReadingIn(c, p)[IF OpensIn(c, o, i) THEN a - 2 ELSE a - 1]
        /\ AroundIn(c, o, i) = ReadingIn(c, o)[IF OpensIn(c, o, i) THEN a - 2 ELSE a - 1]
    BY <2>2, <2>3 DEF AroundIn, a
  <2>5. (OpensIn(c, o, i) => a - 2 \in Nat /\ a - 2 <= node - 1) /\ a - 1 \in Nat /\ a - 1 <= node - 1
    <3>1. OpensIn(c, o, i) => a > 1
      BY DEF OpensIn, a
    <3> QED BY <1>1, <1>2, <1>4, <3>1
  <2>6. AroundIn(c, p, i) = AroundIn(c, o, i)
    <3>1. CASE OpensIn(c, o, i)
      BY <1>3, <2>4, <2>5, <3>1
    <3>2. CASE ~OpensIn(c, o, i)
      BY <1>3, <2>4, <2>5, <3>2
    <3> QED BY <3>1, <3>2
  <2> QED BY <1>2, <2>1, <2>3, <2>6
<1>5. CASE a >= node
  <2> DEFINE b == a + 1
  <2>1. b \in (node + 1)..(Len(o) + 1) /\ b \in 1..Len(p) /\ b - 1 = a /\ b > 1 /\ a \in node..Len(o)
        /\ (a > node => a \in (node + 1)..(Len(o) + 1) /\ a - 1 \in node..Len(o))
    BY <1>1, <1>2, <1>5
  <2>2. AtIn(c, p, i) = b
    <3> HIDE DEF b
    <3>1. p[b] = c.tokens[i]
      BY <1>0, <1>2, <2>1
    <3> QED BY <2>1, <3>1, OrderedAt
  <2> HIDE DEF b
  <2>3. OpensIn(c, p, i) <=> p[a].kind = "indent"
    BY <2>1, <2>2 DEF OpensIn
  <2>4. ~OpensIn(c, o, i)
    <3>1. CASE a = node
      BY <1>0, <3>1 DEF OpensIn, a
    <3>2. CASE a > node
      BY <1>0, <2>1, <3>2 DEF OpensIn, a
    <3> QED BY <1>1, <1>2, <1>5, <3>1, <3>2
  <2>5. CASE a = node
    <3>1. OpensIn(c, p, i) /\ o[node] = c.tokens[i]
      BY <1>0, <1>2, <2>3, <2>5
    <3>2. AroundIn(c, p, i) = ReadingIn(c, p)[b - 2] /\ AroundIn(c, o, i) = ReadingIn(c, o)[a - 1]
      BY <2>2, <2>4, <3>1 DEF AroundIn, a
    <3>3. b - 2 = a - 1 /\ a - 1 \in Nat /\ a - 1 <= node - 1
      BY <1>1, <1>2, <2>1, <2>5
    <3>4. ReadingIn(c, p)[a - 1] = ReadingIn(c, o)[a - 1]
      BY <1>3, <3>3
    <3>5. AroundIn(c, p, i) = AroundIn(c, o, i)
      BY <3>2, <3>3, <3>4
    <3> QED BY <3>1, <3>5
  <2>6. CASE a > node
    <3>1. p[a] = o[a - 1] /\ o[a - 1].kind \notin {"indent", "dedent"}
      BY <1>0, <2>1, <2>6
    <3>2. a # node
      BY <2>6, <1>2, <1>1
    <3>3. v < i
      <4>1. a \in 1..Len(o) /\ node \in 1..Len(o) /\ o[node] = c.tokens[v] /\ o[a] = c.tokens[i] /\ node < a
        BY <1>1, <1>2, <2>6
      <4> QED BY <4>1 DEF Ordered
    <3>4. ~(i <= v)
      BY <3>3 DEF PassedIn
    <3> QED BY <1>2, <2>3, <2>4, <3>1, <3>2, <3>4
  <2> QED BY <1>1, <1>2, <1>5, <2>5, <2>6
<1> QED BY <1>1, <1>2, <1>4, <1>5

\* The token given last: whether its block opens, and the blocks around it.
LEMMA LastAround ==
    ASSUME NEW c, NEW n \in Nat, NEW given, NEW kept, Reads(c, given, kept), NEW p, Ordered(c, n, p),
           NEW i \in PassedIn(c, n), NEW opened \in BOOLEAN,
           IF opened THEN /\ Len(p) = Len(given) + 2 /\ p[Len(given) + 1].kind = "indent"
                          /\ p[Len(given) + 2] = c.tokens[i]
           ELSE Len(p) = Len(given) + 1 /\ p[Len(given) + 1] = c.tokens[i],
           \A k \in 1..Len(given) : p[k] = given[k]
    PROVE  (OpensIn(c, p, i) <=> opened) /\ AroundIn(c, p, i) = kept
<1> DEFINE k == Len(given)
           a == IF opened THEN k + 2 ELSE k + 1
<1>1. k \in Nat /\ Len(p) \in Nat /\ (k > 0 => given[k].kind # "indent") /\ ReadingIn(c, given)[k] = kept
  BY DEF Reads, Ordered
<1>2. a \in 1..Len(p) /\ p[a] = c.tokens[i]
  BY <1>1
<1>3. AtIn(c, p, i) = a
  <2> HIDE DEF a
  <2> QED BY <1>2, OrderedAt
<1>4. OpensIn(c, p, i) <=> opened
  <2>1. CASE opened
    <3>1. a > 1 /\ a - 1 = k + 1
      BY <1>1, <2>1
    <3> QED BY <1>3, <2>1, <3>1 DEF OpensIn
  <2>2. CASE ~opened
    <3>1. a - 1 = k /\ (a > 1 => k > 0 /\ k \in 1..k)
      BY <1>1, <2>2
    <3>2. a > 1 => p[k].kind # "indent"
      BY <1>1, <3>1
    <3> HIDE DEF a
    <3> QED BY <1>3, <2>2, <3>1, <3>2 DEF OpensIn
  <2> QED BY <2>1, <2>2
<1>5. AroundIn(c, p, i) = ReadingIn(c, p)[k]
  <2>1. (opened => a - 2 = k) /\ (~opened => a - 1 = k)
    BY <1>1
  <2> HIDE DEF a, k
  <2> QED BY <1>3, <1>4, <2>1 DEF AroundIn
<1>6. \A j \in 1..k : given[j] = p[j] /\ (given[j].kind = "indent" => given[j + 1] = p[j + 1])
  <2> TAKE j \in 1..k
  <2>1. j = k \/ j + 1 \in 1..k
    BY <1>1
  <2> QED BY <1>1, <2>1
<1>7. ReadingIn(c, p)[k] = ReadingIn(c, given)[k]
  <2>1. k \in Nat /\ k <= Len(given) /\ k <= Len(p) /\ Len(given) \in Nat /\ Len(p) \in Nat /\ k \in 0..k
    BY <1>1
  <2> HIDE DEF k
  <2>2. \A j \in 0..k : ReadingIn(c, given)[j] = ReadingIn(c, p)[j]
    BY <1>6, <2>1, ReadingAgrees
  <2> QED BY <2>1, <2>2
<1> QED BY <1>1, <1>4, <1>5, <1>7

\* The last token is a node where it stands past what arms it, or deeper than the blocks around it.
LEMMA LastNode ==
    ASSUME NEW c, NEW n \in Nat, n > 0, Shapes(c, n), NEW p
    PROVE  NodeIn(c, n + 1, p, n)
           <=> IF BeginsIn(c, n + 1, n) THEN ColumnIn(c, c.tokens[n]).tab8 > Last(AroundIn(c, p, n)).tab8
               ELSE ArmedIn(c, n, Max(TakenIn(c, n)))
<1>1. TakenIn(c, n + 1) = TakenIn(c, n) \cup {n} /\ \A j \in TakenIn(c, n) : j < n
  BY LinesGrow DEF TakenIn
<1>2. { j \in TakenIn(c, n + 1) : j < n } = TakenIn(c, n)
  <2>1. ~(n < n)
    OBVIOUS
  <2> QED BY <1>1, <2>1
<1>3. ~BeginsIn(c, n + 1, n) => (ArmedIn(c, n + 1, Max(TakenIn(c, n))) <=> ArmedIn(c, n, Max(TakenIn(c, n))))
  <2>1. ~BeginsIn(c, n + 1, n) => TakenIn(c, n) # {}
    BY LinesGrow
  <2>2. TakenIn(c, n) # {} => Max(TakenIn(c, n)) \in TakenIn(c, n)
    BY TakenLast
  <2> QED BY <2>1, <2>2, BeginsKept
<1> QED BY <1>2, <1>3 DEF NodeIn

\* The tokens given are those passed, and their blocks are the collections they show.
Collecting ==
    outcome = "running" /\ WithRoles =>
        Ordered(call, next, out) /\ Collects(call, next, out, pending)

\* A token of a mode that does not shape layout, or the end of the input, shows nothing.
LEMMA PassCollects ==
    ASSUME Readable, Follows, Collecting, EndToken \/ PassThrough PROVE Collecting'
<1>1. /\ outcome = "running" /\ next' = next + 1 /\ call' = call /\ pending' = pending
      /\ next <= Len(call.tokens) /\ ~Shapes(call, next)
      /\ out' = IF call.tokens[next].kind = EndOfInput THEN out ELSE Append(out, call.tokens[next])
  BY DEF EndToken, PassThrough, Taking, Takes, Shapes, Current, Significant
<1>2. next \in Nat /\ next > 0 /\ call \in Calls /\ out \in Seq(Given) /\ pending \in 0..Len(out)
      /\ call.tokens[next] \in Given
  <2>1. TypeOK
    BY DEF Readable
  <2>2. next \in Nat /\ next > 0 /\ call \in Calls /\ out \in Seq(Given) /\ pending \in 0..Len(out)
    BY <2>1, CallTyped DEF TypeOK
  <2> QED BY <1>1, <2>1, <2>2, CurrentTyped DEF Current
<1> SUFFICES ASSUME WithRoles PROVE Ordered(call, next + 1, out') /\ Collects(call, next + 1, out', pending)
  BY <1>1 DEF Collecting, WithRoles
<1>3. Ordered(call, next, out) /\ Collects(call, next, out, pending)
  BY <1>1 DEF Collecting
<1>4. Ordered(call, next + 1, out')
  BY <1>1, <1>2, <1>3, OrderedToken
<1>5. Len(out) <= Len(out') /\ \A k \in 1..Len(out) : out'[k] = out[k]
  <2>1. Len(out) \in Nat
    BY <1>2
  <2>2. Append(out, call.tokens[next]) \in Seq(Given) /\ Len(Append(out, call.tokens[next])) = Len(out) + 1
        /\ \A k \in 1..Len(out) : Append(out, call.tokens[next])[k] = out[k]
    BY <1>2, AppendTyped
  <2> QED BY <1>1, <2>1, <2>2
<1>6. \A i \in TakenIn(call, next) : i \in PassedIn(call, next) /\ i \in PassedIn(call, next + 1)
  BY <1>2 DEF TakenIn, PassedIn, Shapes
<1>7. \A i \in TakenIn(call, next) : AroundIn(call, out', i) = AroundIn(call, out, i)
                                    /\ (OpensIn(call, out', i) <=> OpensIn(call, out, i))
  BY <1>2, <1>3, <1>4, <1>5, <1>6, PlacesKept
<1>8. pending # 0 => out'[pending] = out[pending]
  BY <1>2, <1>5
<1>9. Collects(call, next + 1, out', pending)
  BY <1>1, <1>2, <1>3, <1>7, <1>8, RestCollects
<1> QED BY <1>4, <1>9

\* A token that shapes layout, after what its line gave.
Placed(given, kept, deeper) ==
    /\ Reads(call, given, kept) /\ Ordered(call, next, given)
    /\ Len(out) <= Len(given) /\ \A k \in 1..Len(out) : given[k] = out[k]
    /\ IF LineStart THEN deeper <=> ColumnIn(call, Current).tab8 > Last(kept).tab8
       ELSE given = out /\ ~deeper

\* Whether the token at hand is a node is what the pass finds it to be.
LEMMA PlaceNode ==
    ASSUME TypeOK, Follows, Taking, Significant(Current), NEW given, NEW kept, NEW deeper,
           Placed(given, kept, deeper), NEW p,
           LineStart => AroundIn(call, p, next) = kept
    PROVE  NodeIn(call, next + 1, p, next) <=> Past \/ deeper
<1>1. next \in Nat /\ next > 0 /\ outcome = "running" /\ Current = call.tokens[next]
  BY CallTyped DEF Taking, Current
<1>2. Shapes(call, next) /\ (LineStart <=> BeginsIn(call, next + 1, next))
  BY LineStartBegins
<1>3. NodeIn(call, next + 1, p, next)
      <=> IF LineStart THEN ColumnIn(call, Current).tab8 > Last(AroundIn(call, p, next)).tab8
          ELSE ArmedIn(call, next, Max(TakenIn(call, next)))
  BY <1>1, <1>2, LastNode
<1>4. CASE LineStart
  <2>1. ~Past /\ (deeper <=> ColumnIn(call, Current).tab8 > Last(kept).tab8)
    BY <1>4 DEF Past, Placed
  <2> QED BY <1>3, <1>4, <2>1
<1>5. CASE ~LineStart
  <2>1. started /\ ~deeper /\ (Past <=> opens)
    BY <1>5 DEF Past, LineStart, Placed
  <2> QED BY <1>1, <1>3, <1>5, <2>1 DEF Follows
<1> QED BY <1>4, <1>5

\* A value that opens the block of the node that waits.
LEMMA ShownCollects ==
    ASSUME Readable, Follows, Collecting, WithRoles, Taking, Significant(Current),
           NEW given, NEW kept, NEW deeper, Placed(given, kept, deeper), ValueOpens(given, kept, deeper)
    PROVE  Ordered(call, next + 1, out') /\ Collects(call, next + 1, out', pending')
<1> DEFINE c == call
           n == next
           x == Mark("indent", out[pending].start)
           q == InsertAt(out, pending, x)
           t == c.tokens[n]
           p == Append(q, t)
<1>0. TypeOK /\ outcome = "running" /\ next <= Len(call.tokens) /\ Current.kind # EndOfInput
  BY DEF Readable, Taking
<1>1. n \in Nat /\ n > 0 /\ c \in Calls /\ out \in Seq(Given) /\ pending \in 0..Len(out) /\ Current = t
      /\ t \in Given /\ t.kind # EndOfInput /\ n <= Len(c.tokens) /\ n <= Len(c.tokens) + 1
      /\ Len(c.tokens) \in Nat
  BY <1>0, CallTyped, CurrentTyped DEF TypeOK, Current
<1>2. pending # 0 /\ Value(Current) /\ ~LineStart /\ ~Past /\ ~deeper /\ given = out
      /\ pending' = 0 /\ out' = p
  BY <1>1 DEF ValueOpens, ValueShows, Indented, Placed
<1>3. Ordered(c, n, out) /\ Collects(c, n, out, pending)
  BY <1>0 DEF Collecting
<1>4. pending \in 1..Len(out) /\ Len(out) \in Nat
  BY <1>1, <1>2
<1>5. x \in Given /\ x.kind = "indent" /\ x.kind \in Synthetic
  <2>1. out[pending] \in Given
    BY <1>1, <1>4
  <2>2. out[pending].start \in Positions
    BY <2>1 DEF Given
  <2>3. "indent" \in Synthetic
    BY DEF Synthetic
  <2> QED BY <2>2, <2>3, MarkTyped
<1> HIDE DEF x
<1>6. q \in Seq(Given) /\ Len(q) = Len(out) + 1 /\ q[pending] = x
      /\ (\A k \in 1..(pending - 1) : q[k] = out[k])
      /\ \A k \in (pending + 1)..(Len(out) + 1) : q[k] = out[k - 1]
  BY <1>1, <1>4, <1>5, InsertTyped
<1>7. Ordered(c, n, q)
  BY <1>1, <1>3, <1>4, <1>5, OrderedInsert
<1> HIDE DEF q
<1>8. Ordered(c, n + 1, p)
  BY <1>1, <1>7, OrderedToken
<1>9. p \in Seq(Given) /\ Len(p) = Len(out) + 2 /\ p[Len(out) + 2] = t /\ \A k \in 1..(Len(out) + 1) : p[k] = q[k]
  <2>1. p \in Seq(Given) /\ Len(q) \in Nat /\ Len(p) = Len(q) + 1 /\ p[Len(q) + 1] = t /\ \A k \in 1..Len(q) : p[k] = q[k]
    BY <1>1, <1>6, AppendTyped
  <2>2. Len(out) + 1 + 1 = Len(out) + 2
    BY <1>4
  <2> QED BY <1>6, <2>1, <2>2
<1> HIDE DEF p
<1>10. Len(p) > Len(out) /\ p[pending] = x
       /\ (\A k \in 1..(pending - 1) : p[k] = out[k])
       /\ \A k \in (pending + 1)..(Len(out) + 1) : p[k] = out[k - 1]
  <2>1. \A k \in 1..(pending - 1) : k \in 1..(Len(out) + 1)
    BY <1>4
  <2>2. \A k \in (pending + 1)..(Len(out) + 1) : k \in 1..(Len(out) + 1)
    BY <1>4
  <2>3. Len(p) > Len(out) /\ pending \in 1..(Len(out) + 1)
    BY <1>4, <1>9
  <2> QED BY <1>6, <1>9, <2>1, <2>2, <2>3
<1>11. /\ \A k \in pending..Len(out) : out[k].kind \notin {"indent", "dedent"}
       /\ pending > 1 => out[pending - 1].kind # "indent"
  BY <1>0, <1>2 DEF Readable, Waits
<1>12. PICK v \in TakenIn(c, n) : out[pending] = c.tokens[v] /\ Undecided(c, n, out, v)
  BY <1>2, <1>3 DEF Collects
<1>13. \A i \in TakenIn(c, n) : i \in PassedIn(c, n) /\ i \in PassedIn(c, n + 1) /\ i \in Nat
  BY <1>1 DEF TakenIn, PassedIn, Shapes
<1>14. \A i \in TakenIn(c, n) : /\ OpensIn(c, p, i) <=> OpensIn(c, out, i) \/ out[pending] = c.tokens[i]
                                /\ i <= v => AroundIn(c, p, i) = AroundIn(c, out, i)
  <2> TAKE i \in TakenIn(c, n)
  <2> DEFINE m == n + 1
             o == out
             node == pending
  <2>1. v \in PassedIn(c, n) /\ i \in PassedIn(c, n) /\ i \in PassedIn(c, m)
    BY <1>12, <1>13
  <2>2. Ordered(c, n, o) /\ Ordered(c, m, p)
    BY <1>3, <1>8
  <2>3. IndentedAt(o, p, node)
    BY <1>4, <1>5, <1>10, <1>11 DEF IndentedAt
  <2>4. n \in Nat /\ o[node] = c.tokens[v]
    BY <1>1, <1>12
  <2> HIDE DEF m, o, node, c, n
  <2>6. /\ OpensIn(c, p, i) <=> OpensIn(c, o, i) \/ o[node] = c.tokens[i]
        /\ i <= v => AroundIn(c, p, i) = AroundIn(c, o, i)
    BY <2>1, <2>2, <2>3, <2>4, PlacesOpened
  <2> QED BY <2>6 DEF o, node, c, n
<1>15. \A i \in TakenIn(c, n) : BeginsIn(c, n, i) => AroundIn(c, p, i) = AroundIn(c, out, i)
  <2> TAKE i \in TakenIn(c, n)
  <2>1. i > v => ~BeginsIn(c, n, i)
    BY <1>12 DEF Undecided, EndsIn, Ends
  <2>2. i > v \/ i <= v
    BY <1>12, <1>13
  <2> QED BY <1>14, <2>1, <2>2
<1>16. Shapes(c, n) /\ ~BeginsIn(c, n + 1, n) /\ c.tokens[n].kind \in c.values
  <2>1. Shapes(c, n) /\ (LineStart <=> BeginsIn(c, n + 1, n))
    BY <1>0, LineStartBegins
  <2> QED BY <1>1, <1>2, <2>1 DEF Value
<1>17. ~NodeIn(c, n + 1, p, n)
  <2>1. NodeIn(call, next + 1, p, next) <=> Past \/ deeper
    BY <1>0, <1>2, PlaceNode
  <2> QED BY <1>2, <2>1
<1>18. ~OpensIn(c, p, n)
  <2>1. n \in PassedIn(c, n + 1)
    BY <1>1 DEF PassedIn
  <2>2. Len(out) + 2 \in 1..Len(p) /\ p[Len(out) + 2] = c.tokens[n]
    BY <1>4, <1>9
  <2>3. AtIn(c, p, n) = Len(out) + 2
    BY <1>8, <2>1, <2>2, OrderedAt
  <2>4. Len(out) + 2 - 1 = Len(out) + 1 /\ Len(out) + 1 \in 1..(Len(out) + 1)
        /\ Len(out) + 1 \in (pending + 1)..(Len(out) + 1) /\ Len(out) + 1 - 1 = Len(out) /\ Len(out) \in pending..Len(out)
    BY <1>4
  <2>5. p[Len(out) + 1] = out[Len(out)] /\ out[Len(out)].kind # "indent"
    <3> DEFINE k == Len(out) + 1
    <3>1. k \in (pending + 1)..(Len(out) + 1) /\ k - 1 = Len(out)
      BY <2>4
    <3> HIDE DEF k
    <3>2. p[k] = out[k - 1]
      BY <1>10, <3>1
    <3> QED BY <1>11, <2>4, <3>1, <3>2 DEF k
  <2> QED BY <2>3, <2>4, <2>5 DEF OpensIn
<1>19. \A i, j \in TakenIn(c, n) : c.tokens[i] = c.tokens[j] => i = j
  BY <1>1, <1>13, PassedToken, ApartAssumption
<1>20. Ends(c, n + 1, p, n)
  BY <1>16 DEF Ends
<1>21. Collects(c, n + 1, p, 0)
  <2> DEFINE o == out
             node == pending
             shows == TRUE
             waits == 0
  <2>1. n \in Nat /\ n > 0 /\ shows \in BOOLEAN /\ Collects(c, n, o, node) /\ Shapes(c, n)
    BY <1>1, <1>3, <1>16
  <2>2. \A i \in TakenIn(c, n) : BeginsIn(c, n, i) => AroundIn(c, p, i) = AroundIn(c, o, i)
    BY <1>15
  <2>3. \A i, j \in TakenIn(c, n) : c.tokens[i] = c.tokens[j] => i = j
    BY <1>19
  <2>4. \A i \in TakenIn(c, n) : OpensIn(c, p, i) <=> OpensIn(c, o, i) \/ (shows /\ o[node] = c.tokens[i])
    BY <1>14
  <2>5. shows => /\ node # 0 /\ ~NodeIn(c, n + 1, p, n) /\ ~BeginsIn(c, n + 1, n) /\ c.tokens[n].kind \in c.values
    BY <1>2, <1>16, <1>17
  <2>6. ~shows /\ node # 0 => \/ NodeIn(c, n + 1, p, n) \/ BeginsIn(c, n + 1, n)
                              \/ c.tokens[n].kind \notin c.values
    OBVIOUS
  <2>7. OpensIn(c, p, n) <=> NodeIn(c, n + 1, p, n) /\ c.tokens[n].kind \in c.entries
    BY <1>17, <1>18
  <2>8. IF NodeIn(c, n + 1, p, n) /\ c.tokens[n].kind \notin c.entries THEN waits # 0 /\ p[waits] = c.tokens[n]
        ELSE IF Ends(c, n + 1, p, n) THEN waits = 0
        ELSE (waits # 0 <=> node # 0) /\ (node # 0 => p[waits] = o[node])
    BY <1>17, <1>20
  <2> HIDE DEF c, n, o, node, shows, waits
  <2>9. Collects(c, n + 1, p, waits)
    BY <2>1, <2>2, <2>3, <2>4, <2>5, <2>6, <2>7, <2>8, TokenCollects
  <2> QED BY <2>9 DEF waits
<1> QED BY <1>2, <1>8, <1>21

\* Any of the four things a token may do leaves the blocks the collections shown.
LEMMA PlaceCollects ==
    ASSUME Readable, Follows, Collecting, WithRoles, Taking, Significant(Current),
           NEW given, NEW kept, NEW deeper \in BOOLEAN, Placed(given, kept, deeper), Place(given, kept, deeper),
           Past \/ deeper => Here = ColumnIn(call, Current)
    PROVE  Ordered(call, next + 1, out') /\ Collects(call, next + 1, out', pending')
<1> DEFINE c == call
           n == next
           t == c.tokens[n]
<1>0. TypeOK /\ outcome = "running" /\ next <= Len(call.tokens) /\ Current.kind # EndOfInput
  BY DEF Readable, Taking
<1>1. n \in Nat /\ n > 0 /\ c \in Calls /\ out \in Seq(Given) /\ pending \in 0..Len(out) /\ Current = t
      /\ t \in Given /\ t.kind # EndOfInput /\ n <= Len(c.tokens) /\ n <= Len(c.tokens) + 1
      /\ Current.start \in Positions /\ Current \in Given
  BY <1>0, CallTyped, CurrentTyped DEF TypeOK, Current
<1>2. Ordered(c, n, out) /\ Collects(c, n, out, pending)
  BY <1>0 DEF Collecting
<1>3. given \in Seq(Given) /\ Len(given) \in Nat /\ Len(out) \in Nat /\ Ordered(c, n, given)
      /\ Len(out) <= Len(given) /\ (\A k \in 1..Len(out) : given[k] = out[k]) /\ Reads(c, given, kept)
      /\ \A k \in 1..Len(out) : k \in 1..Len(given)
  <2>1. given \in Seq(Given)
    BY DEF Placed, Reads
  <2> QED BY <1>1, <2>1 DEF Placed
<1>4. Shapes(c, n) /\ (LineStart <=> BeginsIn(c, n + 1, n)) /\ n \in PassedIn(c, n + 1)
  <2>1. n \in PassedIn(c, n + 1)
    BY <1>1 DEF PassedIn
  <2> QED BY <1>0, <2>1, LineStartBegins
<1>5. CASE ValueOpens(given, kept, deeper)
  BY <1>5, ShownCollects
<1>6. ASSUME ~ValueOpens(given, kept, deeper) PROVE Ordered(c, n + 1, out') /\ Collects(c, n + 1, out', pending')
  <2> DEFINE p == out'
             waits == pending'
             opened == (Past \/ deeper) /\ Entry(Current)
  <2>1. /\ NodeWaits(given, kept, deeper) \/ EntryOpens(given, kept, deeper) \/ OpensNothing(given, kept, deeper)
    BY <1>6 DEF Place
  <2>2. IF opened THEN out' = given \o <<Mark("indent", Current.start), Current>> ELSE out' = Append(given, Current)
    BY <2>1 DEF NodeWaits, EntryOpens, OpensNothing
  <2>3. /\ Ordered(c, n + 1, p)
        /\ \A k \in 1..Len(given) : p[k] = given[k]
        /\ IF opened THEN /\ Len(p) = Len(given) + 2 /\ p[Len(given) + 1].kind = "indent"
                          /\ p[Len(given) + 2] = t
           ELSE Len(p) = Len(given) + 1 /\ p[Len(given) + 1] = t
    <3>1. CASE opened
      <4> DEFINE x == Mark("indent", Current.start)
                 q == given \o <<x>>
      <4>1. x \in Given /\ x.kind = "indent" /\ x.kind \in Synthetic
        <5>1. "indent" \in Synthetic
          BY DEF Synthetic
        <5> QED BY <1>1, <5>1, MarkTyped
      <4>2. p = given \o <<x, Current>>
        BY <2>2, <3>1
      <4> HIDE DEF x
      <4>3. p = Append(q, t) /\ Len(p) = Len(given) + 2 /\ p[Len(given) + 1] = x /\ p[Len(given) + 2] = t
            /\ \A k \in 1..Len(given) : p[k] = given[k]
        BY <1>1, <1>3, <4>1, <4>2
      <4>4. Ordered(c, n, q)
        <5>1. <<x>> \in Seq(Given) /\ \A k \in 1..Len(<<x>>) : <<x>>[k].kind \in Synthetic
          BY <4>1
        <5> QED BY <1>1, <1>3, <5>1, OrderedJoin
      <4> HIDE DEF q
      <4>5. Ordered(c, n + 1, Append(q, t))
        BY <1>1, <4>4, OrderedToken
      <4> QED BY <3>1, <4>1, <4>3, <4>5
    <3>2. CASE ~opened
      <4>1. p = Append(given, t)
        BY <1>1, <2>2, <3>2
      <4>2. Ordered(c, n + 1, p)
        BY <1>1, <1>3, <4>1, OrderedToken
      <4>3. Len(p) = Len(given) + 1 /\ p[Len(given) + 1] = t /\ \A k \in 1..Len(given) : p[k] = given[k]
        BY <1>1, <1>3, <4>1, AppendTyped
      <4> QED BY <3>2, <4>2, <4>3
    <3> QED BY <3>1, <3>2
  <2>4. (OpensIn(c, p, n) <=> opened) /\ AroundIn(c, p, n) = kept
    <3> DEFINE m == n + 1
               o == opened
    <3>1. m \in Nat /\ o \in BOOLEAN /\ Ordered(c, m, p) /\ n \in PassedIn(c, m) /\ Reads(c, given, kept)
      BY <1>1, <1>3, <1>4, <2>3
    <3>2. IF o THEN /\ Len(p) = Len(given) + 2 /\ p[Len(given) + 1].kind = "indent"
                    /\ p[Len(given) + 2] = c.tokens[n]
          ELSE Len(p) = Len(given) + 1 /\ p[Len(given) + 1] = c.tokens[n]
      BY <2>3
    <3>3. \A k \in 1..Len(given) : p[k] = given[k]
      BY <2>3
    <3> HIDE DEF m, o, p
    <3>4. (OpensIn(c, p, n) <=> o) /\ AroundIn(c, p, n) = kept
      BY <3>1, <3>2, <3>3, LastAround
    <3> QED BY <3>4 DEF o
  <2>5. NodeIn(c, n + 1, p, n) <=> Past \/ deeper
    BY <1>0, <2>4, PlaceNode
  <2>6. Len(out) <= Len(p) /\ (\A k \in 1..Len(out) : p[k] = out[k])
    <3>1. Len(given) <= Len(p)
      BY <1>3, <2>3
    <3>2. Len(p) \in Nat
      BY <2>3 DEF Ordered
    <3> HIDE DEF p
    <3> QED BY <1>3, <2>3, <3>1, <3>2
  <2>7. \A i \in TakenIn(c, n) : i \in PassedIn(c, n) /\ i \in PassedIn(c, n + 1)
    BY <1>1 DEF TakenIn, PassedIn, Shapes
  <2>8. \A i \in TakenIn(c, n) : AroundIn(c, p, i) = AroundIn(c, out, i)
                                /\ (OpensIn(c, p, i) <=> OpensIn(c, out, i))
    BY <1>1, <1>2, <2>3, <2>6, <2>7, PlacesKept
  <2>9. \A i, j \in TakenIn(c, n) : c.tokens[i] = c.tokens[j] => i = j
    BY <1>1, <2>7, PassedToken, ApartAssumption
  <2>10. Entry(Current) <=> t.kind \in c.entries
    BY <1>1 DEF Entry
  <2>11. pending # 0 => \/ NodeIn(c, n + 1, p, n) \/ BeginsIn(c, n + 1, n) \/ t.kind \notin c.values
    <3>1. OpensNothing(given, kept, deeper) => ~(pending # 0 /\ Value(Current) /\ ~LineStart)
      BY DEF OpensNothing, ValueShows
    <3>2. NodeWaits(given, kept, deeper) \/ EntryOpens(given, kept, deeper) => Past \/ deeper
      BY DEF NodeWaits, EntryOpens
    <3> QED BY <1>1, <1>4, <2>1, <2>5, <3>1, <3>2 DEF Value
  <2>12. IF NodeIn(c, n + 1, p, n) /\ t.kind \notin c.entries THEN waits # 0 /\ p[waits] = t
         ELSE IF Ends(c, n + 1, p, n) THEN waits = 0
         ELSE (waits # 0 <=> pending # 0) /\ (pending # 0 => p[waits] = out[pending])
    <3>1. CASE NodeWaits(given, kept, deeper)
      <4>1. (Past \/ deeper) /\ ~Entry(Current) /\ pending' = Len(given) + 1 /\ ~opened
        BY <3>1 DEF NodeWaits
      <4>2. waits # 0 /\ p[waits] = t
        BY <1>3, <2>3, <4>1
      <4> QED BY <2>5, <2>10, <4>1, <4>2
    <3>2. CASE EntryOpens(given, kept, deeper)
      <4>1. (Past \/ deeper) /\ Entry(Current) /\ pending' = 0
        BY <3>2 DEF EntryOpens
      <4> QED BY <2>5, <2>10, <4>1 DEF Ends
    <3>3. CASE OpensNothing(given, kept, deeper)
      <4>1. ~Past /\ ~deeper /\ ~(pending # 0 /\ Value(Current) /\ ~LineStart)
            /\ pending' = IF LineStart THEN 0 ELSE pending
        BY <3>3 DEF OpensNothing, ValueShows, PendingAfter
      <4>2. ~NodeIn(c, n + 1, p, n)
        BY <2>5, <4>1
      <4>3. Ends(c, n + 1, p, n) <=> LineStart \/ Value(Current)
        BY <1>1, <1>4, <4>2 DEF Ends, Value
      <4>4. pending # 0 => p[pending] = out[pending]
        <5>1. pending # 0 => pending \in 1..Len(out)
          BY <1>1, <1>3
        <5> QED BY <2>6, <5>1
      <4>5. CASE LineStart
        BY <4>1, <4>2, <4>3, <4>5
      <4>6. CASE ~LineStart
        BY <4>1, <4>2, <4>3, <4>4, <4>6
      <4> QED BY <4>5, <4>6
    <3> QED BY <2>1, <3>1, <3>2, <3>3
  <2>13. Collects(c, n + 1, p, waits)
    <3> DEFINE o == out
               node == pending
               shows == FALSE
               r == p
               w == waits
    <3>1. n \in Nat /\ n > 0 /\ shows \in BOOLEAN /\ Collects(c, n, o, node) /\ Shapes(c, n)
      BY <1>1, <1>2, <1>4
    <3>2. \A i \in TakenIn(c, n) : BeginsIn(c, n, i) => AroundIn(c, r, i) = AroundIn(c, o, i)
      BY <2>8
    <3>3. \A i, j \in TakenIn(c, n) : c.tokens[i] = c.tokens[j] => i = j
      BY <2>9
    <3>4. \A i \in TakenIn(c, n) : OpensIn(c, r, i) <=> OpensIn(c, o, i) \/ (shows /\ o[node] = c.tokens[i])
      BY <2>8
    <3>5. shows => /\ node # 0 /\ ~NodeIn(c, n + 1, r, n) /\ ~BeginsIn(c, n + 1, n) /\ c.tokens[n].kind \in c.values
      OBVIOUS
    <3>6. ~shows /\ node # 0 => \/ NodeIn(c, n + 1, r, n) \/ BeginsIn(c, n + 1, n)
                                \/ c.tokens[n].kind \notin c.values
      BY <2>11
    <3>7. OpensIn(c, r, n) <=> NodeIn(c, n + 1, r, n) /\ c.tokens[n].kind \in c.entries
      BY <2>4, <2>5, <2>10
    <3>8. IF NodeIn(c, n + 1, r, n) /\ c.tokens[n].kind \notin c.entries THEN w # 0 /\ r[w] = c.tokens[n]
          ELSE IF Ends(c, n + 1, r, n) THEN w = 0
          ELSE (w # 0 <=> node # 0) /\ (node # 0 => r[w] = o[node])
      BY <2>12
    <3> HIDE DEF c, n, o, node, shows, r, w
    <3>9. Collects(c, n + 1, r, w)
      BY <3>1, <3>2, <3>3, <3>4, <3>5, <3>6, <3>7, <3>8, TokenCollects
    <3> QED BY <3>9 DEF r, w
  <2> QED BY <2>3, <2>13
<1> QED BY <1>5, <1>6

\* What that is of the state past it.
LEMMA PlaceKeepsCollecting ==
    ASSUME Readable, Follows, Collecting, WithRoles, Taking, Significant(Current),
           NEW given, NEW kept, NEW deeper \in BOOLEAN, Placed(given, kept, deeper), Place(given, kept, deeper),
           Past \/ deeper => Here = ColumnIn(call, Current)
    PROVE  Collecting'
<1>1. next' = next + 1 /\ call' = call
  BY DEF Place, Takes
<1>2. Ordered(call, next + 1, out') /\ Collects(call, next + 1, out', pending')
  BY PlaceCollects
<1> QED BY <1>1, <1>2 DEF Collecting

\* A token on the line of the one before.
LEMMA JoinCollects ==
    ASSUME Readable, Follows, Collecting, Join, WithRoles PROVE Collecting'
<1>1. Taking /\ Significant(Current) /\ ~LineStart /\ Place(out, levels, FALSE) /\ (Measures => at = Current.start.offset)
      /\ next <= Len(call.tokens) /\ outcome = "running" /\ TypeOK
  BY DEF Join, Taking, Readable
<1>2. Past => Here = ColumnIn(call, Current)
  <2> SUFFICES ASSUME Past PROVE Here = ColumnIn(call, Current)
    OBVIOUS
  <2>1. PythonTabs => at = Current.start.offset
    BY <1>1 DEF Measures
  <2> QED BY <1>1, <2>1, HereIsColumn
<1>3. out \in Seq(Given) /\ Len(out) <= Len(out)
  <2>1. out \in Seq(Given)
    BY DEF Readable, TypeOK
  <2> QED BY <2>1
<1>4. Placed(out, levels, FALSE)
  BY <1>1, <1>3 DEF Placed, Collecting, Readable
<1> QED BY <1>1, <1>2, <1>4, PlaceKeepsCollecting

\* What ends the line before is no token.
LEMMA EndedOrdered ==
    ASSUME Readable, Collecting, WithRoles, Taking
    PROVE  /\ Ordered(call, next, Ended) /\ Reads(call, Ended, levels)
           /\ Len(out) <= Len(Ended) /\ \A k \in 1..Len(out) : Ended[k] = out[k]
<1>1. next \in Nat /\ next <= Len(call.tokens) + 1 /\ next <= Len(call.tokens) /\ call \in Calls /\ out \in Seq(Given)
      /\ Current.start \in Positions /\ outcome = "running"
  BY CallTyped, CurrentTyped DEF Readable, TypeOK, Taking
<1>2. Ordered(call, next, out)
  BY <1>1 DEF Collecting
<1>3. Reads(call, Ended, levels)
  BY <1>1, EndedReads DEF Ended
<1>4. CASE started
  <2> DEFINE x == Mark("newline", Current.start)
  <2>1. x \in Given /\ x.kind \in Synthetic
    <3>1. "newline" \in Synthetic
      BY DEF Synthetic
    <3> QED BY <1>1, <3>1, MarkTyped
  <2>2. Ended = Append(out, x)
    BY <1>4 DEF Ended
  <2> HIDE DEF x
  <2>3. Append(out, x) = out \o <<x>> /\ <<x>> \in Seq(Given) /\ \A k \in 1..Len(<<x>>) : <<x>>[k].kind \in Synthetic
    BY <1>1, <2>1
  <2>4. Ordered(call, next, Ended)
    BY <1>1, <1>2, <2>2, <2>3, OrderedJoin
  <2>5. Len(out) \in Nat /\ Len(Ended) = Len(out) + 1 /\ \A k \in 1..Len(out) : Ended[k] = out[k]
    BY <1>1, <2>1, <2>2, AppendTyped
  <2> QED BY <1>3, <2>4, <2>5
<1>5. CASE ~started
  <2>1. Ended = out /\ Len(out) \in Nat
    BY <1>1, <1>5 DEF Ended
  <2> QED BY <1>2, <1>3, <2>1
<1> QED BY <1>4, <1>5

\* A deeper line's first token.
LEMMA DeepenCollects ==
    ASSUME Readable, Follows, Collecting, Deepen, WithRoles PROVE Collecting'
<1>1. Taking /\ Significant(Current) /\ LineStart /\ (PythonTabs => at = Current.start.offset) /\ Deeper
      /\ next <= Len(call.tokens) /\ Place(Ended, levels, TRUE)
  BY DEF Deepen, NewLine, LineStart, Taking
<1>2. Here = ColumnIn(call, Current)
  BY <1>1, HereIsColumn
<1>3. Placed(Ended, levels, TRUE)
  BY <1>1, <1>2, EndedOrdered DEF Placed, Deeper
<1> QED BY <1>1, <1>2, <1>3, PlaceKeepsCollecting

\* The first token of a line no deeper.
LEMMA SettleCollects ==
    ASSUME Readable, Follows, Collecting, Settle, WithRoles PROVE Collecting'
<1> DEFINE kept == Kept(Here.tab8)
           d == Dedents(Current.start, kept)
           given == Ended \o d
<1>1. Taking /\ Significant(Current) /\ LineStart /\ (PythonTabs => at = Current.start.offset) /\ Fits
      /\ next <= Len(call.tokens) /\ Place(given, kept, FALSE)
  BY DEF Settle, NewLine, LineStart, Taking
<1>2. Here = ColumnIn(call, Current) /\ Here \in Measure
  BY <1>1, HereIsColumn
<1>3. next \in Nat /\ next <= Len(call.tokens) + 1 /\ call \in Calls /\ out \in Seq(Given)
      /\ Current.start \in Positions
  BY <1>1, CallTyped, CurrentTyped DEF Readable, TypeOK
<1>4. Ordered(call, next, Ended) /\ Reads(call, Ended, levels)
      /\ Len(out) <= Len(Ended) /\ \A k \in 1..Len(out) : Ended[k] = out[k]
  BY <1>1, EndedOrdered
<1>5. Reads(call, given, kept)
  BY <1>3, <1>4, DedentsRead
<1>6. d \in Seq(Given) /\ \A k \in 1..Len(d) : d[k].kind \in Synthetic
  <2> DEFINE m == Len(levels) - Len(kept)
             x == Mark("dedent", Current.start)
  <2>1. x \in Given /\ x.kind \in Synthetic
    <3>1. "dedent" \in Synthetic
      BY DEF Synthetic
    <3> QED BY <1>3, <3>1, MarkTyped
  <2>2. m \in Int
    BY <1>4, <1>5 DEF Reads
  <2>3. d = [i \in 1..m |-> x]
    BY DEF Dedents
  <2> HIDE DEF m, x, d
  <2>4. d \in Seq(Given)
    BY <2>1, <2>2, <2>3
  <2>5. DOMAIN d = 1..Len(d) /\ DOMAIN d = 1..m
    <3>1. DOMAIN d = 1..Len(d)
      BY <2>4
    <3>2. DOMAIN d = 1..m
      BY <2>3
    <3> QED BY <3>1, <3>2
  <2>6. \A k \in 1..m : d[k] = x
    BY <2>3
  <2> QED BY <2>1, <2>4, <2>5, <2>6
<1> HIDE DEF d
<1>7. Ordered(call, next, given)
  BY <1>3, <1>4, <1>6, OrderedJoin
<1>8. Len(out) <= Len(given) /\ \A k \in 1..Len(out) : given[k] = out[k]
  <2>1. Ended \in Seq(Given)
    BY <1>4 DEF Reads
  <2>2. Len(given) = Len(Ended) + Len(d) /\ \A k \in 1..Len(Ended) : given[k] = Ended[k]
    BY <1>6, <2>1, JoinTyped
  <2>3. Len(Ended) \in Nat /\ Len(d) \in Nat /\ Len(out) \in Nat
    BY <1>3, <1>6, <2>1
  <2>4. \A k \in 1..Len(out) : k \in 1..Len(Ended)
    BY <1>4, <2>3
  <2> QED BY <1>4, <2>2, <2>3, <2>4
<1>9. ~(ColumnIn(call, Current).tab8 > Last(kept).tab8)
  <2>1. Here.tab8 = Last(kept).tab8 /\ Here.tab8 \in Nat
    BY <1>1, <1>2 DEF Fits, Measure
  <2> QED BY <1>2, <2>1
<1> HIDE DEF given, kept
<1>10. Placed(given, kept, FALSE)
  BY <1>1, <1>5, <1>7, <1>8, <1>9 DEF Placed
<1> QED BY <1>1, <1>2, <1>10, PlaceKeepsCollecting

LEMMA InitCollects ==
    ASSUME Init PROVE Collecting
<1>1. next = 1 /\ out = <<>> /\ pending = 0
  BY DEF Init
<1>2. PassedIn(call, 1) = {} /\ TakenIn(call, 1) = {}
  <2>1. 1..(1 - 1) = {}
    OBVIOUS
  <2> QED BY <2>1, NoneTaken DEF PassedIn
<1>3. out \in Seq(Given) /\ 1..Len(out) = {}
  BY <1>1
<1>4. Ordered(call, next, out)
  BY <1>1, <1>2, <1>3 DEF Ordered
<1>5. Collects(call, next, out, pending)
  BY <1>1, <1>2 DEF Collects
<1> QED BY <1>4, <1>5 DEF Collecting

\* layout(), with roles: a block opens at a token exactly where it is an entry, or the first node of a
\* line or past an entry that a value makes the first key of a collection, and stands past an entry or
\* deeper than the blocks around it: however long the token waited for that value, whatever tokens came
\* between, and with the INDENT put in front of a token already given.
THEOREM BlocksShowCollections == Spec => []BlocksAreCollections
<1>1. Init => Readable /\ Follows /\ Collecting
  BY InitReadable, StepFollows, InitCollects
<1>2. Readable /\ Follows /\ Collecting /\ [Next]_vars => Readable' /\ Follows' /\ Collecting'
  <2> SUFFICES ASSUME Readable, Follows, Collecting, [Next]_vars PROVE Collecting'
    BY StepReads, StepFollows DEF Readable
  <2> SUFFICES ASSUME WithRoles PROVE Collecting'
    <3>1. call' = call
      BY DEF Next, vars, Read, Beyond, Fail, EndToken, PassThrough, Join, Deepen, Settle, Inconsistent, Mixed,
             Finish, Place, Takes
    <3> QED BY <3>1 DEF Collecting, WithRoles
  <2>1. CASE Read
    BY <2>1 DEF Read, Collecting, WithRoles
  <2>2. CASE Beyond
    BY <2>2 DEF Beyond, Fail, Collecting
  <2>3. CASE EndToken \/ PassThrough
    BY <2>3, PassCollects
  <2>4. CASE Join
    BY <2>4, JoinCollects
  <2>5. CASE Deepen
    BY <2>5, DeepenCollects
  <2>6. CASE Settle
    BY <2>6, SettleCollects
  <2>7. CASE Inconsistent
    BY <2>7 DEF Inconsistent, Fail, Collecting
  <2>8. CASE Mixed
    BY <2>8 DEF Mixed, Fail, Collecting
  <2>9. CASE Finish
    BY <2>9 DEF Finish, Collecting
  <2>10. CASE UNCHANGED vars
    BY <2>10 DEF vars, Collecting, WithRoles
  <2> QED BY <2>1, <2>2, <2>3, <2>4, <2>5, <2>6, <2>7, <2>8, <2>9, <2>10 DEF Next
<1>3. Collecting => BlocksAreCollections
  <2> SUFFICES ASSUME Collecting, WithRoles, outcome = "running" PROVE BlocksAreCollections
    BY DEF BlocksAreCollections
  <2>1. Taken = TakenIn(call, next)
    BY DEF Taken, TakenIn, Shapes, Significant
  <2>2. \A i : Begins(i) <=> BeginsIn(call, next, i)
    BY <2>1 DEF Begins, BeginsIn, PassedIn
  <2>3. OpenAfter = ReadingIn(call, out)
    BY ReadingOfCall
  <2>4. \A i : Column(call.tokens[i]) = ColumnIn(call, call.tokens[i])
    BY ColumnOfCall
  <2>5. Collects(call, next, out, pending)
    BY DEF Collecting
  <2>6. \A i \in TakenIn(call, next) :
            OpensIn(call, out, i) <=> NodeIn(call, next, out, i) /\ (call.tokens[i].kind \in call.entries
                                                                    \/ KeyedIn(call, next, out, i))
    BY <2>5 DEF Collects
  <2> DEFINE At(i)      == CHOOSE p \in DOMAIN out : out[p] = call.tokens[i]
             Opens(i)   == At(i) > 1 /\ out[At(i) - 1].kind = "indent"
             Around(i)  == OpenAfter[IF Opens(i) THEN At(i) - 2 ELSE At(i) - 1]
             IsArmed(i) == Entry(call.tokens[i]) \/ (Value(call.tokens[i]) /\ Begins(i))
             IsNode(i) ==
                 IF Begins(i) THEN Column(call.tokens[i]).tab8 > Last(Around(i)).tab8
                 ELSE IsArmed(Max({ j \in Taken : j < i }))
             EndsOf(i) == { j \in Taken : j > i /\ (IsNode(j) \/ Begins(j) \/ Value(call.tokens[j])) }
             Keyed(i) == EndsOf(i) # {} /\ ~IsNode(Min(EndsOf(i))) /\ ~Begins(Min(EndsOf(i)))
  <2>7. \A i : Opens(i) <=> OpensIn(call, out, i)
    BY DEF OpensIn, AtIn
  <2>8. \A i : Around(i) = AroundIn(call, out, i)
    BY <2>3 DEF OpensIn, AroundIn, AtIn
  <2>9. \A i : IsArmed(i) <=> ArmedIn(call, next, i)
    BY <2>2 DEF ArmedIn, Entry, Value
  <2> HIDE DEF At, Opens, Around, IsArmed
  <2>10. \A i : IsNode(i) <=> NodeIn(call, next, out, i)
    BY <2>1, <2>2, <2>4, <2>8, <2>9 DEF NodeIn
  <2> HIDE DEF IsNode
  <2>11. \A i : EndsOf(i) = EndsIn(call, next, out, i)
    BY <2>1, <2>2, <2>10 DEF EndsIn, Ends, Value
  <2> HIDE DEF EndsOf
  <2>12. \A i : Keyed(i) <=> KeyedIn(call, next, out, i)
    BY <2>2, <2>10, <2>11 DEF KeyedIn
  <2> HIDE DEF Keyed
  <2>13. \A i \in Taken : Opens(i) <=> IsNode(i) /\ (Entry(call.tokens[i]) \/ Keyed(i))
    BY <2>1, <2>6, <2>7, <2>10, <2>12 DEF Entry
  <2> QED BY <2>13 DEF BlocksAreCollections, Opens, At, Around, IsArmed, IsNode, EndsOf, Keyed
<1> QED BY <1>1, <1>2, <1>3, PTL DEF Spec

=============================================================================
