---------------------------- MODULE StreamProofs -----------------------------
(***************************************************************************)
(* For every grammar, every text and every way of cutting it into pieces:  *)
(* what a stream decides on its buffer is decided, and a stream is         *)
(* tokenize on the whole text.                                             *)
(*                                                                         *)
(* A slice of a text is what the stream has of it.  A munch, an extent, a  *)
(* column that the slice settles is the same on the text; the buffer is a  *)
(* slice that has all a step reads, behind the cursor too, and what an     *)
(* open munch walked is the text from where it began, so that a munch that *)
(* goes on is the munch made anew.                                         *)
(*                                                                         *)
(* tokenize goes over the skip matches from a token in one step, a stream  *)
(* over each in a step of its own, in a buffer.  So the proof goes in four *)
(* parts: what a turn of the stream decides holds of the text; the         *)
(* operators tokenize is written with are those the stream is; the skip    *)
(* matches of the text lead from the last token to where the stream is     *)
(* (Joined), so that tokenize reaches the turn the stream makes there; and *)
(* each action of the stream is one of tokenize, or changes nothing of it. *)
(***************************************************************************)
EXTENDS TokenStreamProofs

\* The characters of b are those of t from offset o on.
Slice(b, t, o) ==
    /\ b \in Seq(Char) /\ t \in Seq(Char)
    /\ o \in Nat /\ o + Len(b) <= Len(t)
    /\ \A i \in 1..Len(b) : b[i] = t[o + i]

\* It has them to the end of t.
Whole(b, t, o) == o + Len(b) = Len(t)

-----------------------------------------------------------------------------
(* A pattern on a slice *)

\* Items that end within the slice.
LEMMA SpellsOnSlice ==
    ASSUME NEW b, NEW t, NEW o, Slice(b, t, o), NEW items, Len(items) \in Nat,
           NEW at \in Nat, at + Len(items) <= Len(b)
    PROVE  Spells(items, b, at) <=> Spells(items, t, o + at)
<1>1. Len(b) \in Nat /\ Len(t) \in Nat /\ o \in Nat /\ o + Len(b) <= Len(t)
  BY DEF Slice
<1>2. \A i \in 1..Len(items) : b[at + i] = t[(o + at) + i]
  <2> SUFFICES ASSUME NEW i \in 1..Len(items) PROVE b[at + i] = t[(o + at) + i]
    OBVIOUS
  <2>1. at + i \in 1..Len(b) /\ o + (at + i) = (o + at) + i
    BY <1>1
  <2> QED BY <2>1 DEF Slice
<1>3. (o + at) + Len(items) <= Len(t)
  BY <1>1
<1> QED BY <1>2, <1>3 DEF Spells

\* An alternative matches the lengths that end within the slice.
LEMMA LengthsOnSlice ==
    ASSUME NEW b, NEW t, NEW o, Slice(b, t, o), NEW alt \in Alternative, NEW at \in 0..Len(b)
    PROVE  Lengths(alt, b, at) = { n \in Lengths(alt, t, o + at) : n <= Len(b) - at }
<1> DEFINE h == Len(alt.head)
           l == Len(alt.tail)
           s == h + l
<1>1. /\ Len(b) \in Nat /\ Len(t) \in Nat /\ o \in Nat /\ o + Len(b) <= Len(t)
      /\ h \in Nat /\ l \in Nat /\ at \in Nat /\ at <= Len(b) /\ s = h + l
  BY DEF Slice, Alternative
<1>2. ASSUME NEW n \in Int, s <= n, n <= Len(b) - at
      PROVE  n \in Lengths(alt, b, at) <=> n \in Lengths(alt, t, o + at)
  <2>1. n \in (h + l)..(Len(b) - at) /\ n \in (h + l)..(Len(t) - (o + at))
    <3> HIDE DEF h, l, s
    <3> QED BY <1>1, <1>2
  <2>2. Spells(alt.head, b, at) <=> Spells(alt.head, t, o + at)
    <3>1. at + h <= Len(b)
      <4> HIDE DEF h, l, s
      <4> QED BY <1>1, <1>2
    <3> QED BY <1>1, <3>1, SpellsOnSlice
  <2>3. Spells(alt.tail, b, at + n - l) <=> Spells(alt.tail, t, o + at + n - l)
    <3> DEFINE k == at + n - l
    <3>1. k \in Nat /\ k + l <= Len(b) /\ o + k = o + at + n - l
      <4> HIDE DEF h, l, s
      <4> QED BY <1>1, <1>2
    <3> HIDE DEF k
    <3>2. Spells(alt.tail, b, k) <=> Spells(alt.tail, t, o + k)
      BY <1>1, <3>1, SpellsOnSlice
    <3> QED BY <3>1, <3>2 DEF k
  <2>4. \A i \in (h + 1)..(n - l) : b[at + i] = t[o + at + i]
    <3> SUFFICES ASSUME NEW i \in (h + 1)..(n - l) PROVE b[at + i] = t[o + at + i]
      OBVIOUS
    <3>1. at + i \in 1..Len(b) /\ o + (at + i) = o + at + i
      <4> HIDE DEF h, l, s
      <4> QED BY <1>1, <1>2
    <3> QED BY <3>1 DEF Slice
  <2> QED BY <2>1, <2>2, <2>3, <2>4 DEF Lengths
<1>3. /\ \A n \in Lengths(alt, b, at) : n \in Int /\ s <= n /\ n <= Len(b) - at
      /\ \A n \in Lengths(alt, t, o + at) : n \in Int /\ s <= n
  <2>1. /\ \A n \in Lengths(alt, b, at) : n \in (h + l)..(Len(b) - at)
        /\ \A n \in Lengths(alt, t, o + at) : n \in (h + l)..(Len(t) - (o + at))
    BY DEF Lengths
  <2> HIDE DEF h, l, s
  <2> QED BY <1>1, <2>1
<1> HIDE DEF s
<1> QED BY <1>2, <1>3

\* An alternative that no text to come makes a longer word of: what matches on the text matches here.
LEMMA LengthsDecided ==
    ASSUME NEW b, NEW t, NEW o, Slice(b, t, o), NEW alt \in Alternative, NEW at \in 0..Len(b),
           Whole(b, t, o) \/ ~Alive(alt, b, at)
    PROVE  Lengths(alt, t, o + at) = Lengths(alt, b, at)
<1> DEFINE h    == Len(alt.head)
           l    == Len(alt.tail)
           rest == Len(b) - at
<1>1. /\ Len(b) \in Nat /\ Len(t) \in Nat /\ o \in Nat /\ o + Len(b) <= Len(t)
      /\ h \in Nat /\ l \in Nat /\ at \in Nat /\ at <= Len(b) /\ rest \in Nat
  BY DEF Slice, Alternative
<1>2. SUFFICES ASSUME NEW n \in Lengths(alt, t, o + at) PROVE n <= rest
  <2>1. Lengths(alt, b, at) = { n \in Lengths(alt, t, o + at) : n <= Len(b) - at }
    BY LengthsOnSlice
  <2> QED BY <2>1
<1>3. /\ n \in Int /\ h + l <= n /\ n <= Len(t) - (o + at)
      /\ Spells(alt.head, t, o + at)
      /\ Spells(alt.tail, t, o + at + n - l)
      /\ \A i \in (h + 1)..(n - l) : t[o + at + i] \in alt.loop
  <2>1. n \in (h + l)..(Len(t) - (o + at))
    BY DEF Lengths
  <2>2. n \in Int /\ h + l <= n /\ n <= Len(t) - (o + at)
    <3> HIDE DEF h, l
    <3> QED BY <1>1, <2>1
  <2> QED BY <2>2 DEF Lengths
<1>4. CASE Whole(b, t, o)
  BY <1>1, <1>3, <1>4 DEF Whole
<1>5. CASE ~Whole(b, t, o)
  <2>1. SUFFICES ASSUME n > rest PROVE Alive(alt, b, at)
    BY <1>1, <1>3, <1>5
  <2>2. \A i \in 1..rest : b[at + i] = t[o + at + i]
    <3> SUFFICES ASSUME NEW i \in 1..rest PROVE b[at + i] = t[o + at + i]
      OBVIOUS
    <3>1. at + i \in 1..Len(b) /\ o + (at + i) = o + at + i
      BY <1>1
    <3> QED BY <3>1 DEF Slice
  <2>3. CASE rest < h
    <3> DEFINE short == SubSeq(alt.head, 1, rest)
    <3>1. alt.head \in Seq(SUBSET Char) /\ rest \in 0..Len(alt.head)
      BY <1>1, <2>3 DEF Alternative
    <3>2. Len(short) = rest /\ \A i \in 1..rest : short[i] = alt.head[i]
      BY <3>1, PrefixTyped
    <3> HIDE DEF short
    <3>3. \A i \in 1..rest : t[o + at + i] \in alt.head[i]
      <4>1. \A i \in 1..rest : i \in 1..h
        <5> HIDE DEF h, rest
        <5> QED BY <1>1, <2>3
      <4> QED BY <1>3, <4>1 DEF Spells
    <3>4. at + Len(short) <= Len(b)
      BY <1>1, <3>2
    <3>5. Spells(short, b, at)
      BY <2>2, <3>2, <3>3, <3>4 DEF Spells
    <3> QED BY <2>3, <3>5 DEF Alive, short
  <2>4. CASE rest >= h
    <3> DEFINE k == IF rest <= n - l THEN 0 ELSE rest - (n - l)
    <3>1. k \in 0..l /\ h + k <= rest /\ k \in Nat
      <4> HIDE DEF h, l, rest
      <4> QED BY SMTT(20), <1>1, <1>3, <2>1, <2>4
    <3>2. k < l \/ (alt.tail = <<>> /\ alt.loop # {})
      <4>1. CASE l = 0
        <5>1. alt.tail = <<>>
          BY <4>1 DEF Alternative
        <5>2. rest + 1 \in (h + 1)..(n - l)
          BY <1>1, <1>3, <2>1, <2>4, <4>1
        <5> QED BY <1>3, <5>1, <5>2
      <4>2. CASE l # 0
        BY <1>1, <1>3, <2>1, <2>4, <4>2
      <4> QED BY <4>1, <4>2
    <3>3. Spells(alt.head, b, at)
      <4>1. at + h <= Len(b)
        BY <1>1, <2>4
      <4>2. Spells(alt.head, b, at) <=> Spells(alt.head, t, o + at)
        BY <1>1, <4>1, SpellsOnSlice
      <4> QED BY <1>3, <4>2
    <3> DEFINE begun == SubSeq(alt.tail, 1, k)
    <3>4. Spells(begun, b, at + rest - k)
      <4>1. alt.tail \in Seq(SUBSET Char) /\ k \in 0..Len(alt.tail)
        BY <3>1 DEF Alternative
      <4>2. Len(begun) = k /\ \A i \in 1..k : begun[i] = alt.tail[i]
        BY <4>1, PrefixTyped
      <4>3. \A i \in 1..l : t[(o + at + n - l) + i] \in alt.tail[i]
        BY <1>3 DEF Spells
      <4>4. ASSUME NEW i \in 1..k PROVE b[(at + rest - k) + i] \in begun[i]
        <5>1. k = rest - (n - l) /\ i \in 1..l
          <6> HIDE DEF h, l, rest, begun
          <6> QED BY <1>1, <1>3, <3>1, <4>4
        <5>2. /\ (at + rest - k) + i = at + ((n - l) + i)
              /\ (n - l) + i \in 1..rest
              /\ o + at + ((n - l) + i) = (o + at + n - l) + i
          <6> DEFINE d == n - l
          <6>1. d \in Int /\ k = rest - d /\ o + at + n - l = o + at + d
            BY <1>1, <1>3, <5>1
          <6>2. /\ at \in Int /\ o \in Int /\ rest \in Int /\ k \in Int
                /\ i \in Int /\ i >= 1 /\ i <= k /\ d + 1 >= 1
            <7>1. at \in Int /\ o \in Int /\ rest \in Int /\ k \in Int
              BY <1>1, <3>1
            <7>2. i \in Int /\ i >= 1 /\ i <= k
              BY <4>4, <7>1
            <7>3. d >= 0
              <8>1. h \in Nat /\ l \in Nat /\ n \in Int /\ h + l <= n
                BY <1>1, <1>3
              <8> HIDE DEF h, l
              <8> QED BY <8>1
            <7> HIDE DEF k, rest, d
            <7> QED BY <7>1, <7>2, <7>3, <6>1
          <6> HIDE DEF d, h, l, rest, begun, k
          <6>3. d + i \in 1..rest
            BY <6>1, <6>2
          <6>4. (at + rest - k) + i = at + (d + i) /\ o + at + (d + i) = (o + at + d) + i
            BY <6>1, <6>2
          <6> QED BY <6>1, <6>3, <6>4 DEF d
        <5> HIDE DEF k, begun, h, l, rest
        <5>3. b[at + ((n - l) + i)] = t[o + at + ((n - l) + i)]
          BY <2>2, <5>2
        <5> QED BY <4>2, <4>3, <5>1, <5>2, <5>3
      <4>5. (at + rest - k) + Len(begun) <= Len(b)
        <5> HIDE DEF begun, k
        <5> QED BY <1>1, <3>1, <4>2
      <4> HIDE DEF begun, k, rest
      <4> QED BY <4>2, <4>4, <4>5 DEF Spells
    <3>5. \A i \in (h + 1)..(rest - k) : b[at + i] \in alt.loop
      <4> SUFFICES ASSUME NEW i \in (h + 1)..(rest - k) PROVE b[at + i] \in alt.loop
        OBVIOUS
      <4>1. i \in 1..rest /\ i \in (h + 1)..(n - l)
        <5> HIDE DEF h, l, rest
        <5> QED BY <1>1, <1>3, <3>1, <2>4
      <4> QED BY <1>3, <2>2, <4>1
    <3> HIDE DEF k
    <3> QED BY <3>1, <3>2, <3>3, <3>4, <3>5 DEF Alive
  <2> QED BY <1>1, <2>3, <2>4
<1> QED BY <1>4, <1>5

\* What stands before a place is the same, if the slice has it or the text begins there.
LEMMA AdmitsOnSlice ==
    ASSUME NEW b, NEW t, NEW o, Slice(b, t, o), NEW p, NEW at \in 0..Len(b),
           at >= LeftContext(p) \/ o = 0
    PROVE  Admits(p, t, o + at) = Admits(p, b, at)
<1>1. Len(b) \in Nat /\ o \in Nat
  BY DEF Slice
<1>2. CASE p.behind = {}
  BY <1>2 DEF Admits
<1>3. CASE p.behind # {} /\ at >= 1
  <2>1. at \in 1..Len(b) /\ at # 0 /\ o + at # 0
    BY <1>1, <1>3
  <2>2. b[at] = t[o + at]
    BY <2>1 DEF Slice
  <2> QED BY <2>1, <2>2 DEF Admits
<1>4. CASE o = 0 /\ at = 0
  BY <1>4 DEF Admits
<1> QED BY <1>1, <1>2, <1>3, <1>4 DEF LeftContext

\* A match that no text to come can change is the text's.
LEMMA MatchDecided ==
    ASSUME NEW b, NEW t, NEW o, Slice(b, t, o), NEW p \in Pattern, NEW at \in 0..Len(b),
           at >= LeftContext(p) \/ o = 0,
           Whole(b, t, o) \/ ~CanExtend(p, b, at)
    PROVE  MatchLength(p, t, o + at) = MatchLength(p, b, at)
<1> DEFINE here  == Matching(p, b, at)
           there == Matching(p, t, o + at)
           L(i)  == Lengths(p.alts[i], b, at)
           M(i)  == Lengths(p.alts[i], t, o + at)
<1>1. Admits(p, t, o + at) = Admits(p, b, at)
  BY AdmitsOnSlice
<1>2. /\ DOMAIN p.alts \in SUBSET Nat /\ Len(p.alts) \in Nat /\ DOMAIN p.alts = 1..Len(p.alts)
      /\ \A i \in DOMAIN p.alts : p.alts[i] \in Alternative
  BY DEF Pattern
<1>3. here \in SUBSET Nat /\ there \in SUBSET Nat /\ here \subseteq DOMAIN p.alts /\ there \subseteq DOMAIN p.alts
  BY <1>2 DEF Matching
<1>4. \A i \in DOMAIN p.alts : L(i) = { n \in M(i) : n <= Len(b) - at }
  BY <1>2, LengthsOnSlice
<1>5. here \subseteq there
  BY <1>2, <1>4 DEF Matching
<1>6. \A i \in DOMAIN p.alts : Whole(b, t, o) \/ ~Alive(p.alts[i], b, at) => M(i) = L(i)
  BY <1>2, LengthsDecided
<1>7. CASE ~Admits(p, b, at)
  BY <1>1, <1>7 DEF MatchLength
<1>8. CASE Admits(p, b, at) /\ here = {}
  <2>1. \A i \in DOMAIN p.alts : M(i) = L(i)
    <3>1. CASE Whole(b, t, o)
      BY <1>6, <3>1
    <3>2. CASE ~CanExtend(p, b, at)
      <4>1. Min(here \cup {Len(p.alts) + 1}) = Len(p.alts) + 1
        <5>1. here \cup {Len(p.alts) + 1} = {Len(p.alts) + 1} /\ Len(p.alts) + 1 \in Nat
          BY <1>2, <1>8
        <5>2. \A m \in Nat : Min({m}) = m
          <6> TAKE m \in Nat
          <6>1. {m} \in SUBSET Nat /\ {m} # {}
            OBVIOUS
          <6>2. Min({m}) \in {m}
            BY <6>1, MinOfNaturals
          <6> QED BY <6>2
        <5> QED BY <5>1, <5>2
      <4>2. \A i \in DOMAIN p.alts : i < Len(p.alts) + 1
        BY <1>2
      <4>3. \A i \in DOMAIN p.alts : ~Alive(p.alts[i], b, at)
        BY <1>8, <3>2, <4>1, <4>2 DEF CanExtend
      <4> QED BY <1>6, <4>3
    <3> QED BY <3>1, <3>2
  <2>2. there = {}
    BY <1>8, <2>1 DEF Matching
  <2> QED BY <1>8, <2>2 DEF MatchLength
<1>9. CASE Admits(p, b, at) /\ here # {}
  <2> DEFINE w == Min(here)
  <2>1. w \in here /\ \A i \in here : w <= i
    BY <1>3, <1>9, MinOfNaturals
  <2>2. w \in DOMAIN p.alts /\ w \in Nat /\ w \in there /\ L(w) # {}
    BY <1>3, <1>5, <2>1 DEF Matching
  <2> HIDE DEF w
  <2>3. ~Whole(b, t, o) => \A i \in DOMAIN p.alts : Alive(p.alts[i], b, at)
                              => ~(i < w) /\ ~(i = w /\ ~p.alts[i].lazy)
    <3>1. Min(here \cup {Len(p.alts) + 1}) = w
      <4>1. w \in here \cup {Len(p.alts) + 1} /\ \A i \in here \cup {Len(p.alts) + 1} : w <= i
        BY <1>2, <2>1, <2>2
      <4>2. here \cup {Len(p.alts) + 1} \in SUBSET Nat
        BY <1>2, <1>3
      <4> DEFINE S == here \cup {Len(p.alts) + 1}
      <4>3. w \in S /\ (\A i \in S : w <= i) /\ S \in SUBSET Nat /\ S # {}
        BY <4>1, <4>2
      <4> HIDE DEF S
      <4>4. Min(S) \in S /\ \A i \in S : Min(S) <= i
        BY <4>3, MinOfNaturals
      <4> DEFINE x == Min(S)
      <4>5. x \in Nat /\ w \in Nat /\ x <= w /\ w <= x
        BY <4>3, <4>4
      <4> HIDE DEF x
      <4>6. x = w
        BY <4>5
      <4> QED BY <4>6 DEF S, x
    <3> QED BY <1>9, <3>1 DEF CanExtend
  <2>4. \A i \in DOMAIN p.alts : i < w => M(i) = L(i)
    BY <1>6, <2>3
  <2>5. \A i \in there : w <= i
    <3> SUFFICES ASSUME NEW i \in there, i < w PROVE FALSE
      BY <1>3, <2>2
    <3>1. i \in here
      BY <1>3, <2>4 DEF Matching
    <3> QED BY <1>3, <2>1, <2>2, <3>1
  <2>6. Min(there) = w
    <3>1. Min(there) \in there /\ \A i \in there : Min(there) <= i
      BY <1>3, <2>2, MinOfNaturals
    <3> HIDE DEF there
    <3>2. Min(there) <= w /\ w <= Min(there) /\ Min(there) \in Nat
      BY <1>3, <2>2, <2>5, <3>1
    <3> QED BY <2>2, <3>2
  <2>7. CASE M(w) = L(w)
    BY <1>1, <1>9, <2>2, <2>6, <2>7 DEF MatchLength, w
  <2>8. CASE M(w) # L(w)
    <3>1. p.alts[w].lazy
      BY <1>6, <2>2, <2>3, <2>8
    <3>2. \A n \in M(w) : n \in 0..(Len(t) - (o + at))
      <4>1. o + at \in 0..Len(t) /\ t \in Seq(Char)
        BY DEF Slice
      <4> QED BY <1>2, <2>2, <4>1, LengthsBounded
    <3>3. M(w) \in SUBSET Nat /\ L(w) \in SUBSET Nat /\ M(w) # {} /\ L(w) # {}
      <4>1. M(w) \in SUBSET Nat
        BY <3>2
      <4>2. L(w) \subseteq M(w) /\ L(w) # {}
        BY <1>4, <2>2
      <4> HIDE DEF L, M
      <4> QED BY <4>1, <4>2
    <3>4. L(w) = { n \in M(w) : n <= Len(b) - at } /\ Len(b) - at \in Int
      BY <1>4, <2>2 DEF Slice
    <3> HIDE DEF L, M
    <3>5. /\ Min(M(w)) \in M(w) /\ \A n \in M(w) : Min(M(w)) <= n
          /\ Min(L(w)) \in L(w) /\ \A n \in L(w) : Min(L(w)) <= n
      BY <3>3, MinOfNaturals
    <3>6. Min(M(w)) \in L(w)
      BY <3>3, <3>4, <3>5
    <3>7. Min(M(w)) = Min(L(w))
      <4> DEFINE x == Min(M(w))
                 y == Min(L(w))
      <4>1. x \in Nat /\ y \in Nat /\ x <= y /\ y <= x
        BY <3>3, <3>4, <3>5, <3>6
      <4> HIDE DEF x, y
      <4>2. x = y
        BY <4>1
      <4> QED BY <4>2 DEF x, y
    <3> QED BY <1>1, <1>9, <2>2, <2>6, <3>1, <3>7 DEF MatchLength, w, L, M
  <2> QED BY <2>7, <2>8
<1> QED BY <1>7, <1>8, <1>9

\* And what a DFA that is not alive finds.
LEMMA LongestDecided ==
    ASSUME NEW b, NEW t, NEW o, Slice(b, t, o), NEW p \in Pattern, NEW at \in 0..Len(b),
           Whole(b, t, o) \/ \A i \in DOMAIN p.alts : ~Alive(p.alts[i], b, at)
    PROVE  LongestLength(p, t, o + at) = LongestLength(p, b, at)
<1>1. \A i \in DOMAIN p.alts : p.alts[i] \in Alternative
  BY DEF Pattern
<1>2. \A i \in DOMAIN p.alts : Lengths(p.alts[i], t, o + at) = Lengths(p.alts[i], b, at)
  BY <1>1, LengthsDecided
<1>3. { Lengths(p.alts[i], t, o + at) : i \in DOMAIN p.alts } = { Lengths(p.alts[i], b, at) : i \in DOMAIN p.alts }
  BY <1>2
<1> QED BY <1>3 DEF LongestLength

-----------------------------------------------------------------------------
(* The munch on a slice *)

\* The slice has what the rules read before a place.
HasContext(o, at) == o = 0 \/ at >= ContextKept

\* ContextKept is enough for every rule.
LEMMA ContextEnough ==
    /\ ContextKept \in 0..1
    /\ \A i \in RuleIds : /\ LeftContext(rules[i].pattern) <= ContextKept
                          /\ rules[i].lineStart # "any" => 1 <= ContextKept
<1> DEFINE C == {0} \cup { LeftContext(rules[i].pattern) : i \in RuleIds }
                    \cup { IF rules[i].lineStart = "any" THEN 0 ELSE 1 : i \in RuleIds }
<1>1. ContextKept = Max(C)
  BY DEF ContextKept
<1>2. \A c \in C : c \in 0..1
  BY DEF LeftContext
<1>3. \A i \in RuleIds : /\ LeftContext(rules[i].pattern) \in C
                         /\ (IF rules[i].lineStart = "any" THEN 0 ELSE 1) \in C
  OBVIOUS
<1>4. C # {}
  OBVIOUS
<1> HIDE DEF C
<1>5. Max(C) \in C /\ \A c \in C : Max(C) >= c
  BY <1>2, <1>4, MaxOfIntegers
<1>6. ContextKept \in 0..1 /\ \A c \in C : c \in 0..1 /\ c <= ContextKept
  BY <1>1, <1>2, <1>5
<1> QED BY <1>3, <1>6

\* A rule reads no more before a place than the slice has.
LEMMA ContextRead ==
    ASSUME NEW o \in Nat, NEW at \in Nat, HasContext(o, at), NEW i \in RuleIds
    PROVE  at >= LeftContext(rules[i].pattern) \/ o = 0
<1>1. LeftContext(rules[i].pattern) \in 0..1
  BY DEF LeftContext
<1> QED BY <1>1, ContextEnough DEF HasContext

\* The same rules are active.
LEMMA UnitOnSlice ==
    ASSUME NEW b, NEW t, NEW o, Slice(b, t, o), NEW at \in 0..Len(b), HasContext(o, at), NEW mode, NEW kind
    PROVE  UnitOf(mode, kind, t, o + at) = UnitOf(mode, kind, b, at)
<1>1. Len(b) \in Nat /\ o \in Nat
  BY DEF Slice
<1>2. CASE at = 0 /\ o = 0
  BY <1>2 DEF UnitOf, LineStartsAt
<1>3. CASE at # 0
  <2>1. at \in 1..Len(b) /\ o + at # 0
    BY <1>1, <1>3
  <2>2. b[at] = t[o + at]
    BY <2>1 DEF Slice
  <2>3. LineStartsAt(t, o + at) = LineStartsAt(b, at)
    BY <1>3, <2>1, <2>2 DEF LineStartsAt
  <2> QED BY <2>3 DEF UnitOf
<1>4. CASE at = 0 /\ o # 0
  <2>1. \A i \in RuleIds : rules[i].lineStart = "any"
    BY <1>4, ContextEnough DEF HasContext
  <2>2. \A i \in ModeRules(mode) : \A start : Allowed(i, kind, start) = Allowed(i, kind, TRUE)
    BY <2>1 DEF ModeRules, Allowed
  <2> QED BY <2>2 DEF UnitOf
<1> QED BY <1>2, <1>3, <1>4

\* The same rules are asked.
LEMMA CandidatesOnSlice ==
    ASSUME NEW b, NEW t, NEW o, Slice(b, t, o), NEW at \in 0..(Len(b) - 1), NEW unit
    PROVE  t[o + at + 1] = b[at + 1] /\ Candidates(unit, t, o + at) = Candidates(unit, b, at)
<1>1. at + 1 \in 1..Len(b) /\ o + (at + 1) = o + at + 1
  BY DEF Slice
<1>2. t[o + at + 1] = b[at + 1]
  BY <1>1 DEF Slice
<1> QED BY <1>2 DEF Candidates

\* A munch of a DFA that is not alive is the text's.
LEMMA DfaMunchDecided ==
    ASSUME rules \in Grammars, NEW b, NEW t, NEW o, Slice(b, t, o), NEW at \in 0..Len(b),
           NEW unit, unit.rules \subseteq RuleIds,
           Whole(b, t, o) \/ ~Open(unit, b, at)
    PROVE  DfaMunch(unit, t, o + at) = DfaMunch(unit, b, at)
<1>1. \A i \in OnDfa(unit) : /\ i \in RuleIds /\ rules[i].pattern \in Pattern
  BY RulesTyped DEF OnDfa
<1>2. \A i \in OnDfa(unit) : LongestLength(rules[i].pattern, t, o + at) = LongestLength(rules[i].pattern, b, at)
  <2> TAKE i \in OnDfa(unit)
  <2>1. Whole(b, t, o) \/ \A k \in DOMAIN rules[i].pattern.alts : ~Alive(rules[i].pattern.alts[k], b, at)
    BY DEF Open
  <2> QED BY <1>1, <2>1, LongestDecided
<1>3. { <<i, LongestLength(rules[i].pattern, t, o + at)>> : i \in OnDfa(unit) }
        = { <<i, LongestLength(rules[i].pattern, b, at)>> : i \in OnDfa(unit) }
  BY <1>2
<1> QED BY <1>3 DEF DfaMunch

\* A munch the gate lets through is the text's.
LEMMA MunchDecided ==
    ASSUME rules \in Grammars, NEW b, NEW t, NEW o, Slice(b, t, o), NEW at \in 0..(Len(b) - 1),
           HasContext(o, at), NEW unit, unit.rules \subseteq RuleIds,
           Whole(b, t, o) \/ (Ready(unit, b, at) /\ ~Open(unit, b, at))
    PROVE  MunchAt(unit, t, o + at) = MunchAt(unit, b, at)
<1> DEFINE asked == Candidates(unit, b, at) \cap OnPike(unit)
<1>1. Candidates(unit, t, o + at) = Candidates(unit, b, at)
  BY CandidatesOnSlice
<1>2. /\ at \in 0..Len(b) /\ at \in Nat /\ o \in Nat
      /\ \A i \in asked : i \in RuleIds /\ rules[i].pattern \in Pattern
  BY RulesTyped DEF OnPike, Slice
<1>3. \A i \in asked : MatchLength(rules[i].pattern, t, o + at) = MatchLength(rules[i].pattern, b, at)
  <2> TAKE i \in asked
  <2>1. Whole(b, t, o) \/ ~CanExtend(rules[i].pattern, b, at)
    BY DEF Ready
  <2>2. at >= LeftContext(rules[i].pattern) \/ o = 0
    BY <1>2, ContextRead
  <2> QED BY <1>2, <2>1, <2>2, MatchDecided
<1>4. { <<i, MatchLength(rules[i].pattern, t, o + at)>> : i \in asked }
        = { <<i, MatchLength(rules[i].pattern, b, at)>> : i \in asked }
  BY <1>3
<1>5. PikeMunch(unit, t, o + at) = PikeMunch(unit, b, at)
  BY <1>1, <1>4 DEF PikeMunch
<1>6. DfaMunch(unit, t, o + at) = DfaMunch(unit, b, at)
  BY <1>2, DfaMunchDecided
<1> QED BY <1>5, <1>6 DEF MunchAt

\* A munch read from its first character, on its own: what a DFA makes of the rest of a text.
LEMMA MunchOfRest ==
    ASSUME rules \in Grammars, NEW t \in Seq(Char), NEW at \in 0..Len(t), NEW unit, unit.rules \subseteq RuleIds
    PROVE  /\ DfaMunch(unit, SubSeq(t, at + 1, Len(t)), 0) = DfaMunch(unit, t, at)
           /\ Open(unit, SubSeq(t, at + 1, Len(t)), 0) = Open(unit, t, at)
<1> DEFINE b == SubSeq(t, at + 1, Len(t))
<1>1. b \in Seq(Char) /\ Len(b) = Len(t) - at /\ \A i \in 1..(Len(t) - at) : b[i] = t[at + i]
  BY SuffixTyped
<1> HIDE DEF b
<1>2. Slice(b, t, at) /\ Whole(b, t, at) /\ 0 \in 0..Len(b) /\ at + 0 = at /\ at \in Nat /\ Len(t) \in Nat
  BY <1>1 DEF Slice, Whole
<1>3. DfaMunch(unit, t, at + 0) = DfaMunch(unit, b, 0)
  BY <1>2, DfaMunchDecided
<1>4. ASSUME NEW alt \in Alternative
      PROVE  Alive(alt, b, 0) <=> Alive(alt, t, at)
  <2> DEFINE h    == Len(alt.head)
             rest == Len(b)
  <2>1. /\ h \in Nat /\ Len(alt.tail) \in Nat /\ rest \in Nat
        /\ Len(t) - at = rest /\ Len(b) - 0 = rest /\ at + rest = Len(t)
    BY <1>1, <1>2 DEF Alternative
  <2> HIDE DEF rest
  <2>2. ASSUME NEW items, Len(items) \in Nat, NEW k \in Nat, k + Len(items) <= rest
        PROVE  Spells(items, b, k) <=> Spells(items, t, at + k)
    BY <1>2, <2>2, SpellsOnSlice DEF rest
  <2>3. rest < h => (Spells(SubSeq(alt.head, 1, rest), b, 0) <=> Spells(SubSeq(alt.head, 1, rest), t, at))
    <3> SUFFICES ASSUME rest < h
                 PROVE  Spells(SubSeq(alt.head, 1, rest), b, 0) <=> Spells(SubSeq(alt.head, 1, rest), t, at)
      OBVIOUS
    <3>1. Len(SubSeq(alt.head, 1, rest)) = rest
      BY <2>1, PrefixTyped DEF Alternative
    <3>2. 0 + rest <= rest /\ 0 \in Nat
      BY <2>1
    <3> QED BY <1>2, <2>1, <2>2, <3>1, <3>2
  <2>4. rest >= h => (Spells(alt.head, b, 0) <=> Spells(alt.head, t, at))
    BY <1>2, <2>1, <2>2
  <2>5. ASSUME NEW k \in 0..Len(alt.tail), h + k <= rest
        PROVE  /\ Spells(SubSeq(alt.tail, 1, k), b, 0 + rest - k) <=> Spells(SubSeq(alt.tail, 1, k), t, at + rest - k)
               /\ \A i \in (h + 1)..(rest - k) : b[0 + i] = t[at + i]
    <3>1. Len(SubSeq(alt.tail, 1, k)) = k
      BY PrefixTyped DEF Alternative
    <3>2. rest - k \in Nat /\ (rest - k) + k <= rest /\ 0 + rest - k = rest - k /\ at + (rest - k) = at + rest - k
      BY <1>2, <2>1, <2>5
    <3>3. Spells(SubSeq(alt.tail, 1, k), b, rest - k) <=> Spells(SubSeq(alt.tail, 1, k), t, at + (rest - k))
      <4> DEFINE items == SubSeq(alt.tail, 1, k)
                 from  == rest - k
      <4>1. Len(items) \in Nat /\ from \in Nat /\ from + Len(items) <= rest
        BY <3>1, <3>2
      <4> HIDE DEF items, from
      <4>2. Spells(items, b, from) <=> Spells(items, t, at + from)
        BY <2>2, <4>1
      <4> QED BY <4>2 DEF items, from
    <3>4. \A i \in (h + 1)..(rest - k) : 0 + i = i /\ i \in 1..(Len(t) - at)
      BY <1>2, <2>1
    <3> QED BY <1>1, <3>2, <3>3, <3>4
  <2>6. ASSUME NEW k \in 0..Len(alt.tail), h + k <= rest
        PROVE  /\ Spells(alt.head, b, 0) <=> Spells(alt.head, t, at)
               /\ (\A i \in (h + 1)..(rest - k) : b[0 + i] \in alt.loop)
                    <=> (\A i \in (h + 1)..(rest - k) : t[at + i] \in alt.loop)
    <3>1. rest >= h
      BY <2>1, <2>6
    <3>2. \A i \in (h + 1)..(rest - k) : b[0 + i] = t[at + i]
      BY <2>5, <2>6
    <3> QED BY <2>4, <3>1, <3>2
  <2> QED BY <2>1, <2>3, <2>5, <2>6 DEF Alive
<1>5. \A i \in OnDfa(unit) : \A k \in DOMAIN rules[i].pattern.alts : rules[i].pattern.alts[k] \in Alternative
  BY RulesTyped DEF OnDfa, Pattern
<1>6. Open(unit, b, 0) = Open(unit, t, at)
  BY <1>4, <1>5 DEF Open
<1> QED BY <1>2, <1>3, <1>6 DEF b

-----------------------------------------------------------------------------
(* Lines of a slice *)

\* The least member of a set of offsets.
LEMMA MinIs ==
    ASSUME NEW S \in SUBSET Nat, NEW m \in S, \A y \in S : m <= y
    PROVE  Min(S) = m
<1>1. Min(S) \in S /\ \A y \in S : Min(S) <= y
  BY MinOfNaturals
<1> DEFINE x == Min(S)
<1>2. x \in Nat /\ m \in Nat /\ x <= m /\ m <= x
  BY <1>1
<1> HIDE DEF x
<1>3. x = m
  BY <1>2
<1> QED BY <1>3 DEF x

\* And the greatest.
LEMMA MaxIs ==
    ASSUME NEW n \in Nat, NEW S \in SUBSET (0..n), NEW m \in S, \A y \in S : y <= m
    PROVE  Max(S) = m
<1>0. (\A x \in S : x \in 0..n) /\ S # {} /\ 0 \in Int /\ n \in Int
  OBVIOUS
<1>1. Max(S) \in S /\ \A y \in S : Max(S) >= y
  BY <1>0, MaxOfIntegers
<1> DEFINE x == Max(S)
<1>2. x \in S /\ x >= m /\ x <= m
  BY <1>1
<1> HIDE DEF x
<1>3. x \in Nat /\ m \in Nat /\ x <= m /\ m <= x
  BY <1>0, <1>2
<1>4. x = m
  BY <1>3
<1> QED BY <1>4 DEF x

\* Where blanks end: the first character that is none, or the end.
LEMMA PastAllIs ==
    ASSUME NEW t \in Seq(Char), NEW at \in 0..Len(t), NEW blanks
    PROVE  LET past == PastAll(t, at, blanks)
           IN  /\ past \in at..Len(t)
               /\ past < Len(t) => t[past + 1] \notin blanks
               /\ \A x \in at..(past - 1) : t[x + 1] \in blanks
<1> DEFINE S == { o \in at..(Len(t) - 1) : t[o + 1] \notin blanks }
           R == {Len(t)} \cup S
           past == PastAll(t, at, blanks)
<1>0. past = Min(R) /\ Len(t) \in Nat /\ at \in Nat
  BY DEF PastAll
<1>1. past = Min(R) /\ past \in at..Len(t) /\ Len(t) \in Nat /\ at \in Nat
  BY <1>0, LinesBounded
<1>2. R \in SUBSET Nat /\ R # {}
  BY <1>1
<1> HIDE DEF R
<1>3. Min(R) \in R /\ \A y \in R : Min(R) <= y
  BY <1>2, MinOfNaturals
<1>4. past < Len(t) => t[past + 1] \notin blanks
  BY <1>1, <1>3 DEF R
<1>5. ASSUME NEW x \in at..(past - 1), t[x + 1] \notin blanks PROVE FALSE
  <2>1. x \in R /\ ~(past <= x)
    BY <1>1, <1>5 DEF R
  <2> QED BY <1>1, <1>3, <2>1
<1> QED BY <1>1, <1>4, <1>5

\* And the offset they end at is the only one like that.
LEMMA PastAllUnique ==
    ASSUME NEW t \in Seq(Char), NEW at \in 0..Len(t), NEW blanks, NEW past \in at..Len(t),
           past < Len(t) => t[past + 1] \notin blanks,
           \A x \in at..(past - 1) : t[x + 1] \in blanks
    PROVE  PastAll(t, at, blanks) = past
<1> DEFINE p == PastAll(t, at, blanks)
<1>1. /\ p \in at..Len(t)
      /\ p < Len(t) => t[p + 1] \notin blanks
      /\ \A x \in at..(p - 1) : t[x + 1] \in blanks
  BY PastAllIs
<1> HIDE DEF p
<1>2. ~(p < past) /\ ~(past < p)
  BY <1>1
<1>3. p = past
  BY <1>1, <1>2
<1> QED BY <1>3 DEF p

\* A line ends at the first line break.
LEMMA LineEndIs ==
    ASSUME NEW t \in Seq(Char), NEW at \in 0..Len(t)
    PROVE  LineEnd(t, at) = PastAll(t, at, Char \ {NewLine})
<1>1. \A o \in at..(Len(t) - 1) : o + 1 \in 1..Len(t)
  OBVIOUS
<1>2. \A o \in at..(Len(t) - 1) : t[o + 1] \in Char
  BY <1>1
<1>3. { o \in at..(Len(t) - 1) : t[o + 1] = NewLine } = { o \in at..(Len(t) - 1) : t[o + 1] \notin Char \ {NewLine} }
  BY <1>2
<1> QED BY <1>3 DEF LineEnd, PastAll

\* Where blanks end on the slice, with a character after them, they end on the text.
LEMMA PastAllOnSlice ==
    ASSUME NEW b, NEW t, NEW o, Slice(b, t, o), NEW at \in 0..Len(b), NEW blanks,
           Whole(b, t, o) \/ PastAll(b, at, blanks) < Len(b)
    PROVE  PastAll(t, o + at, blanks) = o + PastAll(b, at, blanks)
<1> DEFINE p == PastAll(b, at, blanks)
<1>1. b \in Seq(Char) /\ t \in Seq(Char) /\ Len(b) \in Nat /\ Len(t) \in Nat /\ o \in Nat /\ o + Len(b) <= Len(t)
  BY DEF Slice
<1>2. /\ p \in at..Len(b)
      /\ p < Len(b) => b[p + 1] \notin blanks
      /\ \A x \in at..(p - 1) : b[x + 1] \in blanks
  BY <1>1, PastAllIs
<1>3. Whole(b, t, o) \/ p < Len(b)
  OBVIOUS
<1> HIDE DEF p
<1>4. o + at \in 0..Len(t) /\ o + p \in (o + at)..Len(t)
  BY <1>1, <1>2
<1>5. o + p < Len(t) => t[(o + p) + 1] \notin blanks
  <2> SUFFICES ASSUME o + p < Len(t) PROVE t[(o + p) + 1] \notin blanks
    OBVIOUS
  <2>1. p < Len(b)
    BY <1>1, <1>2, <1>3 DEF Whole
  <2>2. p + 1 \in 1..Len(b) /\ o + (p + 1) = (o + p) + 1
    BY <1>1, <1>2, <2>1
  <2> QED BY <1>2, <2>1, <2>2 DEF Slice
<1>6. ASSUME NEW x \in (o + at)..((o + p) - 1) PROVE t[x + 1] \in blanks
  <2>1. x - o \in at..(p - 1) /\ (x - o) + 1 \in 1..Len(b) /\ o + ((x - o) + 1) = x + 1
    BY <1>1, <1>2
  <2> QED BY <1>2, <2>1 DEF Slice
<1>7. PastAll(t, o + at, blanks) = o + p
  BY <1>1, <1>4, <1>5, <1>6, PastAllUnique
<1> QED BY <1>7 DEF p

\* Text to come can only take them further.
LEMMA PastAllGrows ==
    ASSUME NEW b, NEW t, NEW o, Slice(b, t, o), NEW at \in 0..Len(b), NEW blanks
    PROVE  PastAll(t, o + at, blanks) >= o + PastAll(b, at, blanks)
<1> DEFINE p == PastAll(b, at, blanks)
           q == PastAll(t, o + at, blanks)
<1>1. b \in Seq(Char) /\ t \in Seq(Char) /\ Len(b) \in Nat /\ Len(t) \in Nat /\ o \in Nat /\ o + Len(b) <= Len(t)
      /\ o + at \in 0..Len(t)
  BY DEF Slice
<1>2. p \in at..Len(b) /\ \A x \in at..(p - 1) : b[x + 1] \in blanks
  BY <1>1, PastAllIs
<1>3. q \in (o + at)..Len(t) /\ (q < Len(t) => t[q + 1] \notin blanks)
  BY <1>1, PastAllIs
<1> HIDE DEF p, q
<1>4. SUFFICES ASSUME q < o + p PROVE FALSE
  BY <1>1, <1>2, <1>3 DEF p, q
<1>5. q - o \in at..(p - 1) /\ (q - o) + 1 \in 1..Len(b) /\ o + ((q - o) + 1) = q + 1 /\ q < Len(t)
  BY <1>1, <1>2, <1>3, <1>4
<1> QED BY <1>2, <1>3, <1>5 DEF Slice

\* Blanks that are no line break end on the line.
LEMMA PastWithinLine ==
    ASSUME NEW t \in Seq(Char), NEW at \in 0..Len(t), NEW blanks, NewLine \notin blanks
    PROVE  PastAll(t, at, blanks) <= LineEnd(t, at)
<1> DEFINE p == PastAll(t, at, blanks)
           e == PastAll(t, at, Char \ {NewLine})
<1>1. p \in at..Len(t) /\ \A x \in at..(p - 1) : t[x + 1] \in blanks
  BY PastAllIs
<1>2. e \in at..Len(t) /\ (e < Len(t) => t[e + 1] \notin Char \ {NewLine})
  BY PastAllIs
<1>3. LineEnd(t, at) = e
  BY LineEndIs
<1> HIDE DEF p, e
<1>4. SUFFICES ASSUME e < p PROVE FALSE
  <2>1. Len(t) \in Nat
    OBVIOUS
  <2> QED BY <1>1, <1>2, <1>3, <2>1 DEF p
<1>5. e \in at..(p - 1) /\ e < Len(t) /\ e + 1 \in 1..Len(t)
  BY <1>1, <1>2, <1>3, <1>4
<1>6. t[e + 1] \in Char
  BY <1>5
<1> QED BY <1>1, <1>2, <1>5, <1>6

\* The slice has a line to its end.
Shown(b, t, o, line) == Whole(b, t, o) \/ Broken(b, line)

\* Such a line is the same on the text.
LEMMA LineOnSlice ==
    ASSUME NEW b, NEW t, NEW o, Slice(b, t, o), NEW line \in 0..Len(b), Shown(b, t, o, line)
    PROVE  /\ LineEnd(t, o + line) = o + LineEnd(b, line)
           /\ Broken(t, o + line) <=> Broken(b, line)
           /\ \A blanks : NewLine \notin blanks => PastAll(t, o + line, blanks) = o + PastAll(b, line, blanks)
           /\ Blank(t, o + line) <=> Blank(b, line)
           /\ LeadingSpaces(t, o + line) = LeadingSpaces(b, line)
           /\ PastBlanks(t, o + line) = o + PastBlanks(b, line)
           /\ BlankToEnd(t, o + line) <=> BlankToEnd(b, line)
<1> DEFINE e == LineEnd(b, line)
<1>1. b \in Seq(Char) /\ t \in Seq(Char) /\ Len(b) \in Nat /\ Len(t) \in Nat /\ o \in Nat /\ o + Len(b) <= Len(t)
      /\ o + line \in 0..Len(t)
  BY DEF Slice
<1>2. e = PastAll(b, line, Char \ {NewLine}) /\ LineEnd(t, o + line) = PastAll(t, o + line, Char \ {NewLine})
  BY <1>1, LineEndIs
<1>3. e \in line..Len(b) /\ (Whole(b, t, o) \/ e < Len(b))
  BY <1>1, LinesBounded DEF Shown, Broken
<1>4. LineEnd(t, o + line) = o + e
  BY <1>2, <1>3, PastAllOnSlice
<1>5. Broken(t, o + line) <=> Broken(b, line)
  <2> HIDE DEF e
  <2>1. o + e < Len(t) <=> e < Len(b)
    BY <1>1, <1>3 DEF Whole
  <2> QED BY <1>4, <2>1 DEF Broken, e
<1>6. ASSUME NEW blanks, NewLine \notin blanks
      PROVE  PastAll(t, o + line, blanks) = o + PastAll(b, line, blanks) /\ PastAll(b, line, blanks) \in Nat
  <2> DEFINE p == PastAll(b, line, blanks)
  <2>1. p <= e /\ p \in line..Len(b)
    BY <1>1, <1>6, PastWithinLine, LinesBounded
  <2> HIDE DEF e, p
  <2>2. Whole(b, t, o) \/ p < Len(b)
    BY <1>1, <1>3, <2>1
  <2>3. PastAll(t, o + line, blanks) = o + p
    BY <2>2, PastAllOnSlice DEF p
  <2> QED BY <2>1, <2>3 DEF p
<1>7. NewLine \notin {Space} /\ NewLine \notin {Space, CarriageReturn} /\ NewLine \notin {Space, Tab, CarriageReturn}
  BY DEF NewLine, Space, Tab, CarriageReturn
<1>8. Blank(t, o + line) <=> Blank(b, line)
  <2> DEFINE p == PastAll(b, line, {Space, CarriageReturn})
  <2>1. p \in Nat /\ PastAll(t, o + line, {Space, CarriageReturn}) = o + p
    BY <1>6, <1>7
  <2> HIDE DEF p, e
  <2>2. o + p >= o + e <=> p >= e
    BY <1>1, <1>3, <2>1
  <2> QED BY <1>4, <2>1, <2>2 DEF Blank, p, e
<1>9. LeadingSpaces(t, o + line) = LeadingSpaces(b, line)
  <2> DEFINE p == PastAll(b, line, {Space})
  <2>1. p \in Nat /\ PastAll(t, o + line, {Space}) = o + p
    BY <1>6, <1>7
  <2> HIDE DEF p
  <2>2. (o + p) - (o + line) = p - line
    BY <1>1, <2>1
  <2> QED BY <2>1, <2>2 DEF LeadingSpaces, p
<1>10. PastBlanks(t, o + line) = o + PastBlanks(b, line) /\ PastBlanks(b, line) \in Nat
  BY <1>6, <1>7 DEF PastBlanks
<1>11. BlankToEnd(t, o + line) <=> BlankToEnd(b, line)
  <2> DEFINE p == PastBlanks(b, line)
  <2> HIDE DEF p, e
  <2>1. o + p = o + e <=> p = e
    BY <1>1, <1>3, <1>10 DEF p
  <2> QED BY <1>4, <1>10, <2>1 DEF BlankToEnd, p, e
<1> QED BY <1>4, <1>5, <1>6, <1>8, <1>9, <1>10, <1>11

\* The lines of a slice are lines of the text, and the text's lines up to the slice's end are its lines.
LEMMA LinesOnSlice ==
    ASSUME NEW b, NEW t, NEW o, Slice(b, t, o), NEW at \in Nat
    PROVE  /\ \A l \in Lines(b, at) : /\ l \in at..(Len(b) - 1) /\ l \in 0..Len(b)
                                      /\ o + l \in Lines(t, o + at)
           /\ \A x \in Lines(t, o + at) : /\ x \in (o + at)..(Len(t) - 1)
                                          /\ x < o + Len(b) => x - o \in Lines(b, at) /\ o + (x - o) = x
           /\ Whole(b, t, o) => \A x \in Lines(t, o + at) : x < o + Len(b)
<1>1. b \in Seq(Char) /\ t \in Seq(Char) /\ Len(b) \in Nat /\ Len(t) \in Nat /\ o \in Nat /\ o + Len(b) <= Len(t)
  BY DEF Slice
<1>2. ASSUME NEW l \in Lines(b, at)
      PROVE  l \in at..(Len(b) - 1) /\ l \in 0..Len(b) /\ o + l \in Lines(t, o + at)
  <2>1. l \in at..(Len(b) - 1) /\ (l = at \/ b[l] = NewLine)
    BY DEF Lines
  <2>2. o + l \in (o + at)..(Len(t) - 1) /\ l \in 0..Len(b)
    BY <1>1, <2>1
  <2>3. l # at => t[o + l] = b[l]
    <3>1. l # at => l \in 1..Len(b)
      BY <1>1, <2>1
    <3> QED BY <3>1 DEF Slice
  <2> QED BY <2>1, <2>2, <2>3 DEF Lines
<1>3. ASSUME NEW x \in Lines(t, o + at)
      PROVE  /\ x \in (o + at)..(Len(t) - 1)
             /\ x < o + Len(b) => x - o \in Lines(b, at) /\ o + (x - o) = x
  <2>1. x \in (o + at)..(Len(t) - 1) /\ (x = o + at \/ t[x] = NewLine)
    BY DEF Lines
  <2>2. ASSUME x < o + Len(b) PROVE x - o \in Lines(b, at) /\ o + (x - o) = x
    <3>1. x - o \in at..(Len(b) - 1) /\ o + (x - o) = x
      BY <1>1, <2>1, <2>2
    <3>2. x # o + at => b[x - o] = t[x]
      <4>1. x # o + at => x - o \in 1..Len(b)
        BY <1>1, <2>1, <2>2
      <4> QED BY <3>1, <4>1 DEF Slice
    <3>3. x = o + at => x - o = at
      BY <1>1
    <3> QED BY <2>1, <3>1, <3>2, <3>3 DEF Lines
  <2> QED BY <2>1, <2>2
<1>4. Whole(b, t, o) => \A x \in Lines(t, o + at) : x < o + Len(b)
  BY <1>1, <1>3 DEF Whole
<1> QED BY <1>2, <1>3, <1>4

\* A line with another one below it ends in a line break.
LEMMA LineAbove ==
    ASSUME NEW t \in Seq(Char), NEW at \in Nat, NEW l \in Lines(t, at), NEW m \in Lines(t, at), l < m
    PROVE  Broken(t, l) /\ LineEnd(t, l) < m
<1>1. Len(t) \in Nat /\ l \in at..(Len(t) - 1) /\ m \in at..(Len(t) - 1) /\ (m = at \/ t[m] = NewLine)
  BY DEF Lines
<1>2. t[m] = NewLine /\ m - 1 \in l..(Len(t) - 1) /\ (m - 1) + 1 = m /\ l \in 0..Len(t)
  BY <1>1
<1> DEFINE e == LineEnd(t, l)
<1>3. e = PastAll(t, l, Char \ {NewLine})
  BY <1>2, LineEndIs
<1>4. e \in l..Len(t) /\ \A x \in l..(e - 1) : t[x + 1] \in Char \ {NewLine}
  BY <1>2, <1>3, PastAllIs
<1> HIDE DEF e
<1>5. ~(m - 1 \in l..(e - 1))
  <2> SUFFICES ASSUME m - 1 \in l..(e - 1) PROVE FALSE
    OBVIOUS
  <2>1. t[(m - 1) + 1] \in Char \ {NewLine}
    BY <1>4
  <2> QED BY <1>2, <2>1
<1>6. e < m /\ e < Len(t)
  BY <1>1, <1>2, <1>4, <1>5
<1> QED BY <1>6 DEF Broken, e

-----------------------------------------------------------------------------
(* Extents on a slice *)

\* The first lines of a body, blank up to the first that is not, are the same: where the slice has the
\* whole text, or a whole line that is not blank.
LEMMA ContentOnSlice ==
    ASSUME NEW b, NEW t, NEW o, Slice(b, t, o), NEW body \in Nat, NEW match, NEW reference,
           Whole(b, t, o) \/ \E l \in Lines(b, body) : Broken(b, l) /\ ~Blank(b, l)
    PROVE  BlockContent(t, o + body, match, reference) = BlockContent(b, body, match, reference)
<1> DEFINE firstB == { l \in Lines(b, body) : \A k \in Lines(b, body) : k < l => Blank(b, k) }
           firstT == { x \in Lines(t, o + body) : \A k \in Lines(t, o + body) : k < x => Blank(t, k) }
<1>1. b \in Seq(Char) /\ t \in Seq(Char) /\ Len(b) \in Nat /\ Len(t) \in Nat /\ o \in Nat /\ o + Len(b) <= Len(t)
  BY DEF Slice
<1>2. /\ \A l \in Lines(b, body) : l \in body..(Len(b) - 1) /\ l \in 0..Len(b) /\ l \in Nat /\ o + l \in Lines(t, o + body)
      /\ \A x \in Lines(t, o + body) : /\ x \in Nat
                                       /\ x < o + Len(b) => x - o \in Lines(b, body) /\ o + (x - o) = x
      /\ Whole(b, t, o) => \A x \in Lines(t, o + body) : x < o + Len(b)
  <2>1. /\ \A l \in Lines(b, body) : l \in body..(Len(b) - 1) /\ l \in 0..Len(b) /\ o + l \in Lines(t, o + body)
        /\ \A x \in Lines(t, o + body) : /\ x \in (o + body)..(Len(t) - 1)
                                         /\ x < o + Len(b) => x - o \in Lines(b, body) /\ o + (x - o) = x
        /\ Whole(b, t, o) => \A x \in Lines(t, o + body) : x < o + Len(b)
    BY LinesOnSlice
  <2> QED BY <1>1, <2>1
\* a line among the first of the slice is whole, and so is one that is not blank among the text's
<1>3. ASSUME NEW l \in Lines(b, body), \A k \in Lines(b, body) : k < l => Blank(b, k)
      PROVE  Shown(b, t, o, l)
  <2>1. CASE Whole(b, t, o)
    BY <2>1 DEF Shown
  <2>2. CASE ~Whole(b, t, o)
    <3>1. PICK m \in Lines(b, body) : Broken(b, m) /\ ~Blank(b, m)
      BY <2>2
    <3>2. l = m \/ l < m
      BY <1>2, <1>3, <3>1
    <3>3. l < m => Broken(b, l)
      BY <1>1, LineAbove
    <3> QED BY <3>1, <3>2, <3>3 DEF Shown
  <2> QED BY <2>1, <2>2
<1>4. ASSUME NEW l \in firstB PROVE o + l \in firstT /\ LeadingSpaces(t, o + l) = LeadingSpaces(b, l)
  <2>1. l \in Lines(b, body) /\ o + l \in Lines(t, o + body) /\ l \in 0..Len(b)
    BY <1>2
  <2>2. ASSUME NEW k \in Lines(t, o + body), k < o + l PROVE Blank(t, k)
    <3>1. k < o + Len(b)
      BY <1>1, <1>2, <2>1, <2>2
    <3>2. k - o \in Lines(b, body) /\ o + (k - o) = k
      BY <1>2, <3>1
    <3>3. k - o < l
      BY <1>1, <1>2, <2>1, <2>2
    <3>4. Blank(b, k - o) /\ \A j \in Lines(b, body) : j < k - o => Blank(b, j)
      <4>1. \A j \in Lines(b, body) : j < l => Blank(b, j)
        BY <1>4
      <4>2. k - o \in Nat /\ l \in Nat /\ \A j \in Lines(b, body) : j \in Nat
        BY <1>2, <2>1, <3>2
      <4>3. \A i \in Nat, j \in Nat, m \in Nat : i < j /\ j < m => i < m
        OBVIOUS
      <4>4. \A j \in Lines(b, body) : j < k - o => j < l
        BY <3>3, <4>2, <4>3
      <4> QED BY <3>2, <3>3, <4>1, <4>4
    <3>5. Shown(b, t, o, k - o) /\ k - o \in 0..Len(b)
      BY <1>2, <1>3, <3>2, <3>4
    <3>6. Blank(t, o + (k - o)) <=> Blank(b, k - o)
      BY <3>5, LineOnSlice
    <3> QED BY <3>2, <3>4, <3>6
  <2>3. Shown(b, t, o, l)
    BY <1>3, <2>1
  <2> QED BY <2>1, <2>2, <2>3, LineOnSlice
<1>5. ASSUME NEW x \in firstT PROVE x - o \in firstB /\ o + (x - o) = x
  <2>1. x < o + Len(b)
    <3>1. CASE Whole(b, t, o)
      BY <1>2, <3>1
    <3>2. CASE ~Whole(b, t, o)
      <4>1. PICK m \in Lines(b, body) : Broken(b, m) /\ ~Blank(b, m)
        BY <3>2
      <4>2. o + m \in Lines(t, o + body) /\ ~Blank(t, o + m) /\ m \in Nat /\ m < Len(b)
        <5>1. m \in body..(Len(b) - 1) /\ m \in 0..Len(b)
          BY <1>2
        <5>2. Blank(t, o + m) <=> Blank(b, m)
          BY <4>1, <5>1, LineOnSlice DEF Shown
        <5>3. m < Len(b)
          BY <1>1, <5>1
        <5> QED BY <1>2, <4>1, <5>2, <5>3
      <4>3. ~(o + m < x)
        BY <4>2
      <4> QED BY <1>1, <1>2, <4>2, <4>3
    <3> QED BY <3>1, <3>2
  <2>2. x - o \in Lines(b, body) /\ o + (x - o) = x
    BY <1>2, <2>1
  <2> DEFINE l == x - o
  <2>3. \A k \in Lines(b, body) : k < l => Blank(t, o + k)
    <3> SUFFICES ASSUME NEW k \in Lines(b, body), k < l PROVE Blank(t, o + k)
      OBVIOUS
    <3>1. o + k \in Lines(t, o + body) /\ o + k < x
      BY <1>1, <1>2, <2>2
    <3> QED BY <3>1
  <2> HIDE DEF l
  <2>4. l \in Lines(b, body)
    BY <2>2 DEF l
  \* the least line above it that is not blank on the slice is whole there, so none is
  <2>5. \A k \in Lines(b, body) : k < l => Blank(b, k)
    <3> DEFINE odd == { k \in Lines(b, body) : k < l /\ ~Blank(b, k) }
    <3>1. SUFFICES ASSUME odd # {} PROVE FALSE
      OBVIOUS
    <3>2. odd \in SUBSET Nat
      BY <1>2
    <3>3. Min(odd) \in odd /\ \A k \in odd : Min(odd) <= k
      BY <3>1, <3>2, MinOfNaturals
    <3> DEFINE k == Min(odd)
    <3>4. k \in Lines(b, body) /\ k < l /\ ~Blank(b, k) /\ k \in Nat
      BY <3>2, <3>3
    <3>5. \A j \in Lines(b, body) : j < k => Blank(b, j)
      <4> SUFFICES ASSUME NEW j \in Lines(b, body), j < k, ~Blank(b, j) PROVE FALSE
        OBVIOUS
      <4>1. j < l
        BY <1>2, <2>4, <3>4
      <4>2. j \in odd /\ ~(k <= j)
        BY <1>2, <3>4, <4>1
      <4> QED BY <3>3, <4>2
    <3> HIDE DEF k, odd
    <3>6. Shown(b, t, o, k) /\ k \in 0..Len(b)
      BY <1>2, <1>3, <3>4, <3>5
    <3>7. Blank(t, o + k) <=> Blank(b, k)
      BY <3>6, LineOnSlice
    <3> QED BY <2>3, <3>4, <3>7
  <2> QED BY <2>2, <2>4, <2>5 DEF l
<1>6. { LeadingSpaces(t, x) : x \in firstT } = { LeadingSpaces(b, l) : l \in firstB }
  <2> HIDE DEF firstT, firstB
  <2> QED BY <1>4, <1>5
<1> DEFINE Content(spaces) ==
             LET least  == Max({reference + 1, 1})
                 digits == { i \in DOMAIN match : match[i] \in { Digits[d] : d \in DOMAIN Digits } }
                 digit  == CHOOSE d \in DOMAIN Digits : Digits[d] = match[Min(digits)]
             IN  IF digits # {} THEN least + digit - 1 ELSE Max({least} \cup spaces)
<1>7. /\ BlockContent(t, o + body, match, reference) = Content({ LeadingSpaces(t, x) : x \in firstT })
      /\ BlockContent(b, body, match, reference) = Content({ LeadingSpaces(b, l) : l \in firstB })
  BY DEF BlockContent
<1> HIDE DEF firstT, firstB, Content
<1> QED BY <1>6, <1>7

\* The extents of a text that has come whole.
BlockInText(t, end, match, reference) == BlockExtent(t, end, match, reference, TRUE)

LinesInText(t, end, p, reference) == LinesExtent(t, end, p, reference, TRUE)

\* A block body that is decided is the text's.
LEMMA BlockExtentOnSlice ==
    ASSUME NEW b, NEW t, NEW o, Slice(b, t, o), NEW end \in 0..Len(b), NEW match, NEW reference,
           NEW atEnd \in BOOLEAN, atEnd => Whole(b, t, o),
           BlockExtent(b, end, match, reference, atEnd) # Undecided
    PROVE  BlockInText(t, o + end, match, reference) = o + BlockExtent(b, end, match, reference, atEnd)
<1> SUFFICES BlockExtent(t, o + end, match, reference, TRUE) = o + BlockExtent(b, end, match, reference, atEnd)
  BY DEF BlockInText
<1> DEFINE body     == LineEnd(b, end) + 1
           bodyT    == LineEnd(t, o + end) + 1
           contentB == BlockContent(b, body, match, reference)
           contentT == BlockContent(t, bodyT, match, reference)
           lessB    == { l \in Lines(b, body) : /\ ~Blank(b, l) /\ LeadingSpaces(b, l) < contentB
                                                /\ atEnd \/ Broken(b, l) }
           endsB    == { l \in Lines(b, body) :
                           /\ Blank(b, l) /\ ~Broken(b, l)
                           /\ ~(LeadingSpaces(b, l) >= contentB /\ Len(b) - l > contentB) }
           lessT    == { l \in Lines(t, bodyT) : /\ ~Blank(t, l) /\ LeadingSpaces(t, l) < contentT
                                                 /\ TRUE \/ Broken(t, l) }
           endsT    == { l \in Lines(t, bodyT) :
                           /\ Blank(t, l) /\ ~Broken(t, l)
                           /\ ~(LeadingSpaces(t, l) >= contentT /\ Len(t) - l > contentT) }
           stopsB   == {Len(b)} \cup lessB \cup endsB
           stopsT   == {Len(t)} \cup lessT \cup endsT
           e        == Min(stopsB)
<1>1. b \in Seq(Char) /\ t \in Seq(Char) /\ Len(b) \in Nat /\ Len(t) \in Nat /\ o \in Nat /\ o + Len(b) <= Len(t)
  BY DEF Slice
<1>2. /\ atEnd \/ lessB # {}
      /\ BlockExtent(b, end, match, reference, atEnd) = e
      /\ BlockExtent(t, o + end, match, reference, TRUE) = Min(stopsT)
  BY DEF BlockExtent
<1>3. body \in Nat /\ LineEnd(b, end) \in end..Len(b)
  <2>1. LineEnd(b, end) \in end..Len(b)
    BY <1>1, LinesBounded
  <2> QED BY <1>1, <2>1
<1>4. /\ \A l \in Lines(b, body) : /\ l \in body..(Len(b) - 1) /\ l \in 0..Len(b) /\ l \in Nat /\ l < Len(b)
                                   /\ o + l \in Lines(t, o + body)
      /\ \A x \in Lines(t, o + body) : /\ x \in Nat
                                       /\ x < o + Len(b) => x - o \in Lines(b, body) /\ o + (x - o) = x
      /\ Whole(b, t, o) => \A x \in Lines(t, o + body) : x < o + Len(b)
  <2>1. /\ \A l \in Lines(b, body) : l \in body..(Len(b) - 1) /\ l \in 0..Len(b) /\ o + l \in Lines(t, o + body)
        /\ \A x \in Lines(t, o + body) : /\ x \in (o + body)..(Len(t) - 1)
                                         /\ x < o + Len(b) => x - o \in Lines(b, body) /\ o + (x - o) = x
        /\ Whole(b, t, o) => \A x \in Lines(t, o + body) : x < o + Len(b)
    BY <1>3, LinesOnSlice
  <2> HIDE DEF body
  <2> QED BY <1>1, <1>3, <2>1
<1>5. bodyT = o + body
  <2>1. Shown(b, t, o, end)
    <3>1. CASE lessB = {}
      BY <1>2, <3>1 DEF Shown
    <3>2. CASE lessB # {}
      <4>1. PICK l \in Lines(b, body) : l \in body..(Len(b) - 1)
        BY <1>4, <3>2
      <4>2. LineEnd(b, end) < Len(b)
        BY <1>1, <1>3, <4>1
      <4> QED BY <4>2 DEF Shown, Broken
    <3> QED BY <3>1, <3>2
  <2>2. LineEnd(t, o + end) = o + LineEnd(b, end)
    BY <2>1, LineOnSlice
  <2> QED BY <1>1, <1>3, <2>2
<1>6. Whole(b, t, o) \/ \E l \in Lines(b, body) : Broken(b, l) /\ ~Blank(b, l)
  BY <1>2
<1>7. contentT = contentB
  BY <1>3, <1>5, <1>6, ContentOnSlice
<1> HIDE DEF body, bodyT, contentB, contentT
<1>8. stopsB \in SUBSET Nat /\ stopsB # {} /\ stopsT \in SUBSET Nat
  BY <1>1, <1>4, <1>5
<1>9. e \in stopsB /\ \A l \in stopsB : e <= l
  <2> HIDE DEF stopsB
  <2> QED BY <1>8, MinOfNaturals
<1>10. e \in Nat /\ e <= Len(b)
  <2>1. Len(b) \in stopsB
    OBVIOUS
  <2> HIDE DEF e, stopsB
  <2> QED BY <1>8, <1>9, <2>1
\* the lines up to the end of the extent are whole
<1>11. ASSUME NEW l \in Lines(b, body), l <= e PROVE Shown(b, t, o, l)
  <2>1. CASE Whole(b, t, o)
    BY <2>1 DEF Shown
  <2>2. CASE ~Whole(b, t, o)
    <3>1. PICK m \in lessB : TRUE
      BY <1>2, <2>2
    <3>2. m \in Lines(b, body) /\ Broken(b, m) /\ m \in stopsB
      BY <1>2, <2>2, <3>1
    <3>3. e <= m /\ m \in Nat /\ l \in Nat
      BY <1>4, <1>9, <3>2
    <3>4. l = m \/ l < m
      <4> HIDE DEF e
      <4> QED BY <1>10, <1>11, <3>3
    <3>5. l < m => Broken(b, l)
      BY <1>1, <1>3, <3>2, LineAbove
    <3> QED BY <3>2, <3>4, <3>5 DEF Shown
  <2> QED BY <2>1, <2>2
<1>12. ASSUME NEW l \in Lines(b, body), l <= e
       PROVE  /\ Broken(t, o + l) <=> Broken(b, l)
              /\ Blank(t, o + l) <=> Blank(b, l)
              /\ LeadingSpaces(t, o + l) = LeadingSpaces(b, l)
              /\ Whole(b, t, o) => Len(t) - (o + l) = Len(b) - l
              /\ ~Whole(b, t, o) => Broken(b, l)
  <2>1. Shown(b, t, o, l) /\ l \in 0..Len(b)
    BY <1>4, <1>11, <1>12
  <2>2. /\ Broken(t, o + l) <=> Broken(b, l)
        /\ Blank(t, o + l) <=> Blank(b, l)
        /\ LeadingSpaces(t, o + l) = LeadingSpaces(b, l)
    BY <2>1, LineOnSlice
  <2>3. Whole(b, t, o) => Len(t) - (o + l) = Len(b) - l
    BY <1>1, <2>1 DEF Whole
  <2> QED BY <2>1, <2>2, <2>3 DEF Shown
<1>13. ASSUME NEW l \in Lines(b, body), l <= e
       PROVE  /\ o + l \in lessT <=> l \in lessB
              /\ o + l \in endsT <=> l \in endsB
  <2>1. o + l \in Lines(t, bodyT)
    BY <1>4, <1>5
  <2>2. Whole(b, t, o) \/ Broken(b, l)
    BY <1>12, <1>13
  <2>3. CASE Whole(b, t, o)
    <3>1. lessB # {} => l \in lessB <=> (~Blank(b, l) /\ LeadingSpaces(b, l) < contentB /\ (atEnd \/ Broken(b, l)))
      OBVIOUS
    <3>2. o + l \in endsT <=> l \in endsB
      BY <1>7, <1>12, <1>13, <2>1, <2>3
    <3>3. atEnd \/ Broken(b, l) \/ ~(o + l \in lessT)
      <4>1. CASE atEnd
        BY <4>1
      <4>2. CASE ~atEnd
        <5>1. PICK m \in lessB : TRUE
          BY <1>2, <4>2
        <5>2. m \in Lines(b, body) /\ Broken(b, m) /\ m \in stopsB
          BY <4>2, <5>1
        <5>3. e <= m /\ m \in Nat /\ l \in Nat
          BY <1>4, <1>9, <5>2
        <5>4. l = m \/ l < m
          <6> HIDE DEF e
          <6> QED BY <1>10, <1>13, <5>3
        <5>5. l < m => Broken(b, l)
          BY <1>1, <1>3, <5>2, LineAbove
        <5> QED BY <5>2, <5>4, <5>5
      <4> QED BY <4>1, <4>2
    <3> QED BY <1>7, <1>12, <1>13, <2>1, <3>2, <3>3
  <2>4. CASE Broken(b, l)
    BY <1>7, <1>12, <1>13, <2>1, <2>4
  <2> QED BY <2>2, <2>3, <2>4
<1>14. o + e \in stopsT
  <2>1. CASE e = Len(b)
    <3>1. Whole(b, t, o)
      <4> SUFFICES ASSUME ~Whole(b, t, o) PROVE FALSE
        OBVIOUS
      <4>1. PICK m \in lessB : TRUE
        BY <1>2
      <4>2. m \in stopsB /\ m < Len(b) /\ m \in Nat
        BY <1>4, <4>1
      <4>3. e <= m
        BY <1>9, <4>2
      <4> HIDE DEF e, stopsB, lessB
      <4> QED BY <1>1, <2>1, <4>2, <4>3
    <3>2. o + e = Len(t)
      BY <2>1, <3>1 DEF Whole
    <3> QED BY <3>2
  <2>2. CASE e \in lessB \cup endsB
    <3>1. e \in Lines(b, body) /\ e <= e
      BY <1>10, <2>2
    <3> HIDE DEF e
    <3> QED BY <1>13, <2>2, <3>1
  <2> HIDE DEF e, lessB, endsB
  <2> QED BY <1>9, <2>1, <2>2
<1>15. \A x \in stopsT : o + e <= x
  <2> SUFFICES ASSUME NEW x \in stopsT, x < o + e PROVE FALSE
    <3>1. \A x \in stopsT : x \in Nat
      BY <1>8
    <3> HIDE DEF e, stopsT
    <3> QED BY <1>1, <1>10, <3>1
  <2>1. x # Len(t) /\ x \in lessT \cup endsT /\ x \in Lines(t, o + body) /\ x < o + Len(b)
    <3>1. x \in Nat
      BY <1>8
    <3>2. x # Len(t) /\ x < o + Len(b)
      <4> HIDE DEF e
      <4> QED BY <1>1, <1>10, <3>1
    <3> QED BY <1>5, <3>2
  <2>2. x - o \in Lines(b, body) /\ o + (x - o) = x /\ x \in Nat
    BY <1>4, <2>1
  <2> DEFINE l == x - o
  <2>3. l \in Lines(b, body) /\ o + l = x /\ l < e /\ l \in Nat
    <3>1. x - o \in Nat
      BY <1>4, <2>2
    <3> HIDE DEF e, stopsT
    <3>2. x - o < e
      BY <1>1, <1>10, <2>2, <3>1
    <3> QED BY <2>2, <3>1, <3>2
  <2> HIDE DEF l
  <2>4. l <= e /\ ~(e <= l)
    <3> HIDE DEF e
    <3> QED BY <1>10, <2>3
  <2>5. l \in lessB \cup endsB
    BY <1>13, <2>1, <2>3, <2>4
  <2>6. l \in stopsB
    BY <2>5
  <2> HIDE DEF e, stopsB
  <2> QED BY <1>9, <2>4, <2>6
<1>16. Min(stopsT) = o + e
  <2> HIDE DEF stopsT, e
  <2> QED BY <1>8, <1>14, <1>15, MinIs
<1> QED BY <1>2, <1>16

-----------------------------------------------------------------------------
(* Columns on a slice *)

\* Places moved by the same distance are as many.
LEMMA CountShifted ==
    ASSUME NEW o \in Nat, NEW S \in SUBSET Int, IsFiniteSet(S),
           NEW T, \A x \in S : o + x \in T, \A y \in T : \E x \in S : y = o + x
    PROVE  IsFiniteSet(T) /\ Cardinality(T) = Cardinality(S)
<1> DEFINE shift == [x \in S |-> o + x]
<1>1. \A x \in S : x \in Int
  OBVIOUS
<1>2. shift \in [S -> T] /\ \A y \in T : \E x \in S : shift[x] = y
  OBVIOUS
<1>3. \A x, y \in S : shift[x] = shift[y] => x = y
  BY <1>1
<1> HIDE DEF shift
<1>4. shift \in Surjection(S, T)
  BY <1>2 DEF Surjection
<1>5. shift \in Injection(S, T)
  <2>1. IsInjective(shift)
    BY <1>2, <1>3 DEF IsInjective
  <2> QED BY <1>2, <2>1 DEF Injection
<1>6. ExistsBijection(S, T)
  BY <1>4, <1>5 DEF Bijection, ExistsBijection
<1> QED BY <1>6, FS_Bijection

\* Every lead of the slice has its code point there, or something that cuts it short follows, in the
\* slice or right after it.
Settled(b, t, o) ==
    \/ Whole(b, t, o)
    \/ \A p \in 0..(Len(b) - 1) :
          \/ p + Announces[b[p + 1]] <= Len(b)
          \/ \E q \in (p + 1)..Len(b) : o + q < Len(t) /\ Announces[t[o + q + 1]] # 0

\* A code point of such a slice is one of the text.
LEMMA ValidOnSlice ==
    ASSUME NEW b, NEW t, NEW o, Slice(b, t, o), Settled(b, t, o), NEW at \in 0..(Len(b) - 1)
    PROVE  ValidLength(t, o + at) = ValidLength(b, at)
<1> DEFINE n == Announces[b[at + 1]]
<1>1. /\ Len(b) \in Nat /\ o \in Nat /\ Len(t) \in Nat /\ o + Len(b) <= Len(t)
      /\ at + 1 \in 1..Len(b) /\ o + (at + 1) = o + at + 1
  BY DEF Slice
<1>2. t[o + at + 1] = b[at + 1] /\ b[at + 1] \in Char
  BY <1>1 DEF Slice
<1>3. n \in 0..4
  BY <1>2, ScannerAssumption
<1>4. CASE at + n <= Len(b)
  <2> HIDE DEF n
  <2>1. \A i \in 1..(n - 1) : at + 1 + i \in 1..Len(b) /\ o + (at + 1 + i) = o + at + 1 + i
    BY <1>1, <1>3, <1>4
  <2>2. \A i \in 1..(n - 1) : t[o + at + 1 + i] = b[at + 1 + i]
    BY <2>1 DEF Slice
  <2>3. o + at + n <= Len(t)
    BY <1>1, <1>3, <1>4
  <2> QED BY <1>2, <1>4, <2>2, <2>3 DEF ValidLength, n
<1>5. CASE ~(at + n <= Len(b))
  <2>1. ValidLength(b, at) = 0
    BY <1>5 DEF ValidLength
  <2>2. CASE Whole(b, t, o)
    <3>1. ~(o + at + n <= Len(t))
      <4>1. o + Len(b) = Len(t) /\ ~(at + n <= Len(b)) /\ n \in Int /\ at \in Int /\ o \in Int /\ Len(b) \in Int
        BY <1>1, <1>3, <1>5, <2>2 DEF Whole
      <4> HIDE DEF n
      <4> QED BY <4>1
    <3> QED BY <1>2, <2>1, <3>1 DEF ValidLength
  <2>3. CASE ~Whole(b, t, o)
    <3>1. PICK q \in (at + 1)..Len(b) : o + q < Len(t) /\ Announces[t[o + q + 1]] # 0
      BY <1>5, <2>3 DEF Settled
    <3> HIDE DEF n
    <3>2. q - at \in 1..(n - 1) /\ o + at + 1 + (q - at) = o + q + 1
      <4>0. n \in Int /\ at \in Int /\ Len(b) \in Int
        BY <1>1, <1>3
      <4>1. n \in Int /\ q \in Int /\ at \in Int /\ at + 1 <= q /\ q <= Len(b) /\ at + n > Len(b)
        BY <1>5, <3>1, <4>0
      <4>2. q - at >= 1 /\ q - at <= n - 1
        BY <1>1, <4>1
      <4> QED BY <1>1, <4>1, <4>2
    <3>3. ~\A i \in 1..(n - 1) : Announces[t[o + at + 1 + i]] = 0
      BY <3>1, <3>2
    <3> QED BY <1>2, <2>1, <3>3 DEF ValidLength, n
  <2> QED BY <2>2, <2>3
<1> QED BY <1>4, <1>5

\* What a column looks back at.
ColumnContext(o, at) == Columns = "bytes" \/ o = 0 \/ at >= 3

\* A character moves the column as it does on the text.
LEMMA StepOnSlice ==
    ASSUME NEW b, NEW t, NEW o, Slice(b, t, o), NEW at \in 0..(Len(b) - 1),
           Columns # "bytes" => Settled(b, t, o), ColumnContext(o, at)
    PROVE  ColumnStep(t, o + at) = ColumnStep(b, at)
<1>1. /\ Len(b) \in Nat /\ o \in Nat /\ at \in Nat
      /\ at + 1 \in 1..Len(b) /\ o + (at + 1) = o + at + 1
  BY DEF Slice
<1>2. t[o + at + 1] = b[at + 1]
  BY <1>1 DEF Slice
<1>3. CASE Columns = "bytes"
  BY <1>3 DEF ColumnStep
<1>4. CASE Columns # "bytes"
  <2>1. ValidLength(t, o + at) = ValidLength(b, at)
    BY <1>4, ValidOnSlice
  <2>2. Min({3, o + at}) = Min({3, at}) /\ Min({3, at}) \in 0..at
    <3>1. CASE o = 0
      <4>1. Min({3, at}) \in {3, at} /\ \A y \in {3, at} : Min({3, at}) <= y
        BY <1>1, MinOfNaturals
      <4> QED BY <1>1, <3>1, <4>1
    <3>2. CASE at >= 3
      <4>1. Min({3, at}) = 3
        BY <1>1, <3>2, MinIs
      <4>2. Min({3, o + at}) = 3
        BY <1>1, <3>2, MinIs
      <4> QED BY <1>1, <3>2, <4>1, <4>2
    <3> QED BY <1>4, <3>1, <3>2 DEF ColumnContext
  <2>3. ASSUME NEW back \in 1..Min({3, at})
        PROVE  ValidLength(t, (o + at) - back) = ValidLength(b, at - back)
    <3> DEFINE before == at - back
    <3>1. before \in 0..(Len(b) - 1) /\ o + before = (o + at) - back
      BY <1>1, <2>2
    <3> HIDE DEF before
    <3>2. ValidLength(t, o + before) = ValidLength(b, before)
      BY <1>4, <3>1, ValidOnSlice
    <3> QED BY <3>1, <3>2 DEF before
  <2> DEFINE insideT == \E back \in 1..Min({3, o + at}) : ValidLength(t, (o + at) - back) > back
             inside  == \E back \in 1..Min({3, at}) : ValidLength(b, at - back) > back
  <2>4. insideT <=> inside
    BY <2>2, <2>3
  <2>5. ColumnStep(t, o + at) = IF Announces[t[o + at + 1]] = 0 THEN IF insideT THEN 0 ELSE 1
                                ELSE IF Columns = "utf16" /\ ValidLength(t, o + at) = 4 THEN 2 ELSE 1
    BY <1>4 DEF ColumnStep
  <2>6. ColumnStep(b, at) = IF Announces[b[at + 1]] = 0 THEN IF inside THEN 0 ELSE 1
                            ELSE IF Columns = "utf16" /\ ValidLength(b, at) = 4 THEN 2 ELSE 1
    BY <1>4 DEF ColumnStep
  <2> HIDE DEF insideT, inside
  <2> QED BY <1>2, <2>1, <2>4, <2>5, <2>6
<1> QED BY <1>3, <1>4

\* A position of the slice, in the text.
Moved(pos, o) == [pos EXCEPT !.offset = o + @]

\* Past the same characters, a position is the same one.
LEMMA AdvanceOnSlice ==
    ASSUME NEW b, NEW t, NEW o, Slice(b, t, o), NEW pos \in Positions(0..Len(b)),
           NEW n \in 0..(Len(b) - pos.offset),
           Columns # "bytes" => Settled(b, t, o), ColumnContext(o, pos.offset)
    PROVE  Advance(t, Moved(pos, o), n) = Moved(Advance(b, pos, n), o)
<1> DEFINE at      == pos.offset
           passed  == at..(at + n - 1)
           breaks  == { x \in passed : b[x + 1] = NewLine }
           onLine  == { x \in passed : \A y \in breaks : y < x }
           ones    == { x \in onLine : ColumnStep(b, x) >= 1 }
           twos    == { x \in onLine : ColumnStep(b, x) = 2 }
           passedT == (o + at)..(o + at + n - 1)
           breaksT == { x \in passedT : t[x + 1] = NewLine }
           onLineT == { x \in passedT : \A y \in breaksT : y < x }
           onesT   == { x \in onLineT : ColumnStep(t, x) >= 1 }
           twosT   == { x \in onLineT : ColumnStep(t, x) = 2 }
<1>1. /\ Len(b) \in Nat /\ o \in Nat /\ at \in 0..Len(b) /\ n \in Nat /\ at + n <= Len(b)
      /\ pos.line \in Nat /\ pos.column \in Nat
  <2>1. Len(b) \in Nat /\ o \in Nat
    BY DEF Slice
  <2>2. pos.offset \in 0..Len(b) /\ pos.line \in Nat /\ pos.column \in Nat
    BY DEF Positions
  <2> QED BY <2>1, <2>2
<1>2. \A x \in passed : /\ x \in 0..(Len(b) - 1) /\ x >= at /\ o + x \in passedT
                        /\ x + 1 \in 1..Len(b) /\ o + (x + 1) = o + x + 1
  <2> TAKE x \in passed
  <2>1. x \in Int /\ x >= at /\ x <= at + n - 1
    BY <1>1
  <2>2. o + x \in passedT
    BY <1>1, <2>1
  <2> QED BY <1>1, <2>1, <2>2
<1>3. \A y \in passedT : y - o \in passed /\ o + (y - o) = y
  BY <1>1
<1>4. \A x \in passed : b[x + 1] = t[o + x + 1]
  <2>1. \A i \in 1..Len(b) : b[i] = t[o + i]
    BY DEF Slice
  <2> HIDE DEF passed
  <2> QED BY <1>2, <2>1
<1>5. \A x \in passed : ColumnStep(t, o + x) = ColumnStep(b, x)
  <2> TAKE x \in passed
  <2>1. ColumnContext(o, x)
    BY <1>1, <1>2 DEF ColumnContext
  <2> QED BY <1>2, <2>1, StepOnSlice
<1>6. (\A x \in breaks : o + x \in breaksT) /\ \A y \in breaksT : y - o \in breaks /\ o + (y - o) = y
  BY <1>2, <1>3, <1>4
<1>7. breaks \in SUBSET passed /\ onLine \in SUBSET passed /\ ones \in SUBSET onLine /\ twos \in SUBSET onLine
      /\ breaksT \in SUBSET passedT
  OBVIOUS
<1>8. \A x, y \in Int : (x < y <=> o + x < o + y) /\ o \in Int
  BY <1>1
<1>9. (\A x \in onLine : o + x \in onLineT) /\ \A y \in onLineT : y - o \in onLine /\ o + (y - o) = y
  <2>1. ASSUME NEW x \in onLine PROVE o + x \in onLineT
    <3>1. x \in Int /\ o + x \in passedT
      BY <1>2
    <3>2. ASSUME NEW y \in breaksT PROVE y < o + x
      <4>1. y - o \in breaks /\ o + (y - o) = y /\ y - o \in Int
        BY <1>6
      <4>2. y - o < x
        BY <4>1
      <4> QED BY <1>8, <3>1, <4>1, <4>2
    <3> QED BY <3>1, <3>2
  <2>2. ASSUME NEW y \in onLineT PROVE y - o \in onLine /\ o + (y - o) = y
    <3>1. y - o \in passed /\ o + (y - o) = y /\ y - o \in Int
      BY <1>3
    <3>2. ASSUME NEW x \in breaks PROVE x < y - o
      <4>1. o + x \in breaksT /\ x \in Int
        BY <1>2, <1>6
      <4>2. o + x < o + (y - o)
        BY <3>1, <4>1
      <4> QED BY <1>8, <3>1, <4>1, <4>2
    <3> QED BY <3>1, <3>2
  <2> QED BY <2>1, <2>2
<1>10. (\A x \in ones : o + x \in onesT) /\ \A y \in onesT : y - o \in ones /\ o + (y - o) = y
  BY <1>5, <1>7, <1>9
<1>11. (\A x \in twos : o + x \in twosT) /\ \A y \in twosT : y - o \in twos /\ o + (y - o) = y
  BY <1>5, <1>7, <1>9
<1>12. at \in Int /\ at + n - 1 \in Int
  BY <1>1
<1> HIDE DEF breaks, onLine, ones, twos, breaksT, onLineT, onesT, twosT
<1>13. breaks \in SUBSET (at..(at + n - 1)) /\ ones \in SUBSET (at..(at + n - 1)) /\ twos \in SUBSET (at..(at + n - 1))
  BY <1>7
<1>22. ASSUME NEW S \in SUBSET (at..(at + n - 1)), NEW T,
              \A x \in S : o + x \in T, \A y \in T : y - o \in S /\ o + (y - o) = y
       PROVE  Cardinality(T) = Cardinality(S)
  <2>1. \A y \in T : \E x \in S : y = o + x
    BY <1>22
  <2>2. IsFiniteSet(S)
    BY <1>12, FS_Interval, FS_Subset
  <2>3. S \in SUBSET Int /\ o \in Nat
    BY <1>1
  <2> QED BY <1>22, <2>1, <2>2, <2>3, CountShifted
<1>14. Cardinality(breaksT) = Cardinality(breaks)
  BY <1>6, <1>13, <1>22
<1>15. Cardinality(onesT) = Cardinality(ones)
  BY <1>10, <1>13, <1>22
<1>16. Cardinality(twosT) = Cardinality(twos)
  BY <1>11, <1>13, <1>22
<1>17. breaksT = {} <=> breaks = {}
  BY <1>6
<1>18. /\ Moved(pos, o).offset = o + at /\ Moved(pos, o).line = pos.line
       /\ Moved(pos, o).column = pos.column
  BY DEF Moved, Positions
<1>19. Advance(b, pos, n)
         = [ offset |-> at + n, line |-> pos.line + Cardinality(breaks),
             column |-> (IF breaks = {} THEN pos.column ELSE 1) + Cardinality(ones) + Cardinality(twos) ]
  BY DEF Advance, breaks, onLine, ones, twos
<1>20. Advance(t, Moved(pos, o), n)
         = [ offset |-> o + at + n, line |-> pos.line + Cardinality(breaksT),
             column |-> (IF breaksT = {} THEN pos.column ELSE 1) + Cardinality(onesT) + Cardinality(twosT) ]
  BY <1>18 DEF Advance, breaksT, onLineT, onesT, twosT
<1>21. o + at + n = o + (at + n)
  BY <1>1
<1> QED BY <1>14, <1>15, <1>16, <1>17, <1>19, <1>20, <1>21 DEF Moved

-----------------------------------------------------------------------------
(* The buffer is a slice that serves *)

\* What the stream keeps of the text serves every step from where it goes back to: the context before
\* it, the code points it has, the end once the text is finished, and what an open munch has walked.
BufferServes ==
    /\ HasContext(base, saved.offset) /\ ColumnContext(base, saved.offset)
    /\ Columns # "bytes" => Settled(buffer, text, base)
    /\ final => Whole(buffer, text, base)
    /\ open.unit.rules \subseteq RuleIds /\ OnPike(open.unit) = {}
    /\ open.at >= 0 => open.walked = SubSeq(text, open.at + 1, open.at + Len(open.walked))

\* A piece of a text, cut in two: the first part is a slice, and the second follows it.
LEMMA CutIsSlice ==
    ASSUME NEW t \in Seq(Char), NEW b \in Seq(Char), NEW rest \in Seq(Char), NEW o \in Nat, NEW f \in 0..Len(t),
           o + Len(b) + Len(rest) = f, b \o rest = SubSeq(t, o + 1, f)
    PROVE  /\ Slice(b, t, o)
           /\ rest # <<>> => Len(rest) > 0 /\ t[o + Len(b) + 1] = rest[1]
<1>1. o \in 0..f
  OBVIOUS
<1>2. \A i \in 1..(f - o) : SubSeq(t, o + 1, f)[i] = t[o + i]
  BY <1>1, SliceTyped
<1>3. \A i \in 1..(f - o) : (b \o rest)[i] = t[o + i]
  BY <1>2
<1>4. ASSUME NEW i \in 1..Len(b)
      PROVE  b[i] = t[o + i]
  <2>1. (b \o rest)[i] = b[i]
    BY JoinTyped
  <2>2. i \in 1..(f - o)
    OBVIOUS
  <2> QED BY <1>3, <2>1, <2>2
<1>5. ASSUME rest # <<>>
      PROVE  Len(rest) > 0 /\ t[o + Len(b) + 1] = rest[1]
  <2>1. (b \o rest)[Len(b) + 1] = rest[1] /\ Len(b) + 1 \in 1..(f - o) /\ Len(rest) > 0
    BY <1>5
  <2>2. o + (Len(b) + 1) = o + Len(b) + 1
    OBVIOUS
  <2> QED BY <1>3, <2>1, <2>2
<1>6. o + Len(b) <= Len(t)
  OBVIOUS
<1> QED BY <1>4, <1>5, <1>6 DEF Slice

\* The buffer is a slice of the text, and what follows it is held back.
LEMMA BufferSlice ==
    ASSUME Inductive
    PROVE  /\ Slice(buffer, text, base)
           /\ base \in Nat /\ Len(buffer) \in Nat /\ Len(tail) \in Nat /\ fed \in Nat /\ Len(text) \in Nat
           /\ base + Len(buffer) + Len(tail) = fed /\ fed <= Len(text)
           /\ tail # <<>> => Len(tail) > 0 /\ text[base + Len(buffer) + 1] = tail[1]
<1>1. /\ text \in Seq(Char) /\ buffer \in Seq(Char) /\ tail \in Seq(Char)
      /\ base \in Nat /\ fed \in 0..Len(text) /\ base + Len(buffer) + Len(tail) = fed
      /\ buffer \o tail = SubSeq(text, base + 1, fed)
  BY BufferWithinText DEF Inductive, TypeOK, Accounted, BufferIsText
<1>2. Len(buffer) \in Nat /\ Len(tail) \in Nat /\ Len(text) \in Nat
  BY <1>1
<1>3. Slice(buffer, text, base) /\ (tail # <<>> => Len(tail) > 0 /\ text[base + Len(buffer) + 1] = tail[1])
  BY <1>1, CutIsSlice, ZenonT(60)
<1>4. fed \in Nat /\ fed <= Len(text)
  BY <1>1, <1>2
<1> QED BY <1>1, <1>2, <1>3, <1>4

\* What drop_returned leaves before the cursor.
LEMMA DroppedKeeps ==
    ASSUME Inductive, HasContext(base, saved.offset), ColumnContext(base, saved.offset),
           NEW newBase, newBase = base + Dropped, NEW newAt, newAt = cursor.offset - Dropped
    PROVE  HasContext(newBase, newAt) /\ ColumnContext(newBase, newAt)
<1> DEFINE keep == IF Columns = "bytes" THEN ContextKept ELSE Max({ContextKept, 3})
           at   == cursor.offset
           m    == Min({at, keep})
<1>1. at \in Nat /\ saved.offset \in Nat /\ saved.offset <= at /\ base \in Nat
  BY BufferWithinText, BufferSlice DEF At
<1>2. keep \in Nat /\ keep >= ContextKept /\ (Columns # "bytes" => keep >= 3) /\ ContextKept \in 0..1
  <2>1. Max({ContextKept, 3}) = 3
    <3>1. {ContextKept, 3} \in SUBSET (0..3) /\ \A y \in {ContextKept, 3} : y <= 3
      BY ContextEnough
    <3> QED BY <3>1, MaxIs
  <2> QED BY <2>1, ContextEnough
<1>3. m \in {at, keep} /\ m <= at /\ m <= keep
  <2> HIDE DEF at, keep
  <2>1. {at, keep} \in SUBSET Nat
    BY <1>1, <1>2
  <2> QED BY <2>1, MinOfNaturals
<1>4. Dropped = at - m
  BY DEF Dropped
<1> HIDE DEF keep, at, m
<1>5. newAt = m /\ newBase = base + (at - m) /\ m \in Nat
  <2>1. newAt = at - (at - m)
    BY <1>4 DEF at
  <2>2. m \in Nat
    BY <1>1, <1>2, <1>3
  <2> QED BY <1>1, <1>4, <2>1, <2>2
<1>6. CASE m = keep
  BY <1>2, <1>5, <1>6 DEF HasContext, ColumnContext
<1>7. CASE m = at
  <2>1. newBase = base /\ newAt >= saved.offset
    BY <1>1, <1>5, <1>7
  <2>2. newAt \in Nat /\ saved.offset \in Nat /\ ContextKept \in Int
    BY <1>1, <1>2, <1>5
  <2> QED BY <2>1, <2>2 DEF HasContext, ColumnContext
<1> QED BY <1>3, <1>6, <1>7

\* hold_incomplete_tail settles the code points past the cursor; those before it are settled.
LEMMA HoldSettles ==
    ASSUME Inductive, Inductive', Columns # "bytes", Settled(buffer, text, base),
           text' = text, ~finished', fed' >= fed,
           base' = base + Dropped, saved'.offset = cursor.offset - Dropped
    PROVE  Settled(buffer', text, base')
<1> DEFINE k   == Dropped
           n   == Len(buffer)
           m   == Len(buffer')
           s   == saved'.offset
           c   == cursor.offset
           A(i) == Announces[text[i]]
<1>0. /\ text \in Seq(Char) /\ buffer' \in Seq(Char) /\ tail' \in Seq(Char) /\ base' \in Nat
      /\ fed' \in 0..Len(text) /\ base' + Len(buffer') + Len(tail') = fed'
      /\ buffer' \o tail' = SubSeq(text, base' + 1, fed')
  <2>1. text \in Seq(Char) /\ buffer' \in Seq(Char) /\ tail' \in Seq(Char)
    BY BufferWithinText DEF Inductive, TypeOK
  <2>2. base' \in 0..Len(text) /\ fed' \in 0..Len(text)
    BY DEF Inductive, TypeOK
  <2>3. base' + Len(buffer') + Len(tail') = fed' /\ buffer' \o tail' = SubSeq(text, base' + 1, fed')
    BY DEF Inductive, Accounted, BufferIsText
  <2> QED BY <2>1, <2>2, <2>3
<1>2. Slice(buffer', text, base') /\ base' + m + Len(tail') = fed' /\ Len(tail') \in Nat /\ m \in Nat
      /\ (tail' # <<>> => Len(tail') > 0 /\ text[base' + m + 1] = tail'[1])
  <2>1. Slice(buffer', text, base') /\ (tail' # <<>> => Len(tail') > 0 /\ text[base' + m + 1] = tail'[1])
    BY <1>0, CutIsSlice, ZenonT(60)
  <2>2. Len(tail') \in Nat /\ m \in Nat
    <3>1. tail' \in Seq(Char) /\ buffer' \in Seq(Char)
      BY <1>0
    <3> QED BY <3>1
  <2> QED BY <1>0, <2>1, <2>2
<1>1. /\ n \in Nat /\ m \in Nat /\ base \in Nat /\ c \in 0..n /\ k \in 0..c /\ s = c - k
      /\ base' = base + k /\ Len(text) \in Nat /\ base + n <= fed /\ fed <= fed' /\ fed' <= Len(text)
      /\ fed \in Nat /\ fed' \in Nat
      /\ Slice(buffer, text, base)
  <2>1. n \in Nat /\ base \in Nat /\ Len(text) \in Nat /\ fed \in Nat /\ base + n <= fed /\ Slice(buffer, text, base)
    BY BufferSlice, BufferWithinText
  <2>2. c \in 0..n /\ k \in 0..c
    BY BufferWithinText, DroppedBounded DEF At
  <2>3. fed' \in Nat /\ fed' <= Len(text)
    BY <1>0, <2>1
  <2> QED BY <1>2, <2>1, <2>2, <2>3
<1>3. \A i \in 1..m : buffer'[i] = text[base' + i] /\ A(base' + i) \in 0..4
  <2>1. \A i \in 1..m : buffer'[i] = text[base' + i] /\ buffer'[i] \in Char
    BY <1>2 DEF Slice
  <2> QED BY <2>1, ScannerAssumption
<1>4. \A i \in 1..n : buffer[i] = text[base + i]
  BY <1>1 DEF Slice
<1> SUFFICES ASSUME ~Whole(buffer', text, base'), NEW p \in 0..(m - 1)
             PROVE  \/ p + Announces[buffer'[p + 1]] <= m
                    \/ \E q \in (p + 1)..m : base' + q < Len(text) /\ Announces[text[base' + q + 1]] # 0
  BY DEF Settled
<1>5. Announces[buffer'[p + 1]] = A(base' + p + 1) /\ A(base' + p + 1) \in 0..4
  <2>1. p + 1 \in 1..m /\ base' + (p + 1) = base' + p + 1
    BY <1>1
  <2> HIDE DEF A
  <2>2. A(base' + (p + 1)) \in 0..4 /\ buffer'[p + 1] = text[base' + (p + 1)]
    BY <1>3, <2>1
  <2> QED BY <2>1, <2>2 DEF A
<1>6. CASE tail' # <<>>
  <2>1. Announces[tail'[1]] # 0
    BY <1>6 DEF Inductive, HeldFromLead
  <2>2. m \in (p + 1)..m /\ base' + m < Len(text)
    BY <1>1, <1>2, <1>6
  <2> QED BY <1>2, <1>6, <2>1, <2>2
<1>7. CASE tail' = <<>> /\ p >= s
  <2> DEFINE back == m - p
  <2>0. p \in Int /\ s \in Int /\ m \in Int /\ p + 1 <= m /\ p >= s
    BY <1>1, <1>7
  <2>1. back \in Int /\ back >= 1 /\ m - back + 1 = p + 1 /\ back <= m - s
    <3> HIDE DEF m, s
    <3> QED BY <2>0
  <2>2. CASE back > 3
    <3> DEFINE x == Announces[buffer'[p + 1]]
    <3>1. x \in 0..4
      BY <1>5
    <3> HIDE DEF x, m
    <3>2. p + x <= m
      BY <1>1, <2>0, <2>2, <3>1
    <3> QED BY <3>2 DEF x
  <2>3. CASE \E i \in 1..(back - 1) : Announces[buffer'[m - i + 1]] # 0
    <3>1. PICK i \in 1..(back - 1) : Announces[buffer'[m - i + 1]] # 0
      BY <2>3
    <3> DEFINE q == m - i
    <3>2. q \in (p + 1)..m /\ q + 1 \in 1..m /\ q + 1 = m - i + 1 /\ base' + (q + 1) = base' + q + 1
          /\ base' + q < Len(text)
      <4> HIDE DEF m
      <4>1. q \in Int /\ q >= p + 1 /\ q <= m - 1
        <5> HIDE DEF back
        <5>1. i \in Int /\ i >= 1 /\ i <= back - 1
          BY <2>1, <3>1
        <5>2. back = m - p
          BY DEF back
        <5> QED BY <1>1, <2>0, <2>1, <5>1, <5>2
      <4>2. base' + m <= Len(text)
        BY <1>2 DEF Slice, m
      <4> HIDE DEF q
      <4>3. m - i + 1 = q + 1
        BY <1>1, <3>1 DEF q
      <4> QED BY <1>1, <2>0, <4>1, <4>2, <4>3
    <3>3. Announces[text[base' + q + 1]] # 0
      BY <1>3, <3>1, <3>2
    <3> HIDE DEF q
    <3> QED BY <3>2, <3>3
  <2>4. CASE back <= 3 /\ \A i \in 1..(back - 1) : Announces[buffer'[m - i + 1]] = 0
    <3>1. \A b \in 1..3 : (/\ b <= m - s
                           /\ \A i \in 1..(b - 1) : Announces[buffer'[m - i + 1]] = 0)
                          => Announces[buffer'[m - b + 1]] <= b
      BY <1>7 DEF Inductive, HeldFromLead
    <3>2. back \in 1..3
      BY <2>1, <2>4
    <3> HIDE DEF back
    <3>3. Announces[buffer'[m - back + 1]] <= back
      BY <2>1, <2>4, <3>1, <3>2
    <3> DEFINE x == Announces[buffer'[p + 1]]
    <3>4. x <= back /\ x \in 0..4
      BY <1>5, <2>1, <3>3
    <3> HIDE DEF x, m
    <3>5. p + x <= m
      BY <1>1, <2>0, <3>4 DEF back
    <3> QED BY <3>5 DEF x
  <2>5. back > 3 \/ back <= 3
    <3> HIDE DEF back
    <3> QED BY <2>1
  <2>6. \/ \E i \in 1..(back - 1) : Announces[buffer'[m - i + 1]] # 0
        \/ \A i \in 1..(back - 1) : Announces[buffer'[m - i + 1]] = 0
    OBVIOUS
  <2> HIDE DEF back
  <2> QED BY <2>2, <2>3, <2>4, <2>5, <2>6
<1>8. CASE tail' = <<>> /\ p < s
  <2> DEFINE old == p + k
  <2>1. old \in 0..(n - 1) /\ old + 1 \in 1..n /\ base + (old + 1) = base' + p + 1 /\ old < c
    <3> HIDE DEF n, c, k, s
    <3> QED BY <1>1, <1>8
  <2>2. Announces[buffer[old + 1]] = A(base' + p + 1)
    BY <1>4, <2>1
  <2>3. Len(tail') = 0
    BY <1>8
  <2>4. base' + m = fed'
    BY <1>1, <1>2, <2>3
  <2>5. base + n < Len(text)
    BY <1>1, <2>4 DEF Whole
  <2>6. ~Whole(buffer, text, base)
    BY <1>1, <2>5 DEF Whole
  <2>7. n - k <= m
    <3> HIDE DEF n, m, k
    <3> QED BY <1>1, <2>4
  <2>8. CASE old + Announces[buffer[old + 1]] <= n
    <3> DEFINE x == Announces[buffer'[p + 1]]
    <3>1. x \in Nat /\ old + x <= n
      BY <1>5, <2>2, <2>8
    <3> HIDE DEF x, m, n, k
    <3>2. p + x <= m
      BY <1>1, <2>7, <3>1
    <3> QED BY <3>2 DEF x
  <2>9. CASE \E q \in (old + 1)..n : base + q < Len(text) /\ Announces[text[base + q + 1]] # 0
    <3>1. PICK q \in (old + 1)..n : base + q < Len(text) /\ Announces[text[base + q + 1]] # 0
      BY <2>9
    <3> DEFINE r == q - k
    <3>2. r \in (p + 1)..m /\ base' + r = base + q /\ base' + r + 1 = base + q + 1
      <4> HIDE DEF m, n, k
      <4>0. k \in Int /\ n \in Int /\ m \in Int /\ base \in Int /\ base' = base + k
        BY <1>1
      <4>1. k \in Int /\ p \in Int /\ q >= p + k + 1 /\ q <= n /\ q \in Int
        BY <3>1, <4>0
      <4> QED BY <2>7, <4>0, <4>1
    <3> HIDE DEF r
    <3> QED BY <3>1, <3>2
  <2> QED BY <2>1, <2>6, <2>8, <2>9 DEF Settled
<1> QED BY SMTT(20), <1>1, <1>6, <1>7, <1>8

\* Where a turn is, the buffer has what it reads before.
LEMMA TurnServed ==
    ASSUME Inductive, BufferServes
    PROVE  /\ HasContext(base, At) /\ ColumnContext(base, At)
           /\ At \in 0..Len(buffer) /\ At \in Nat /\ Slice(buffer, text, base)
<1>1. saved.offset \in Nat /\ At \in Nat /\ saved.offset <= At /\ At \in 0..Len(buffer) /\ ContextKept \in Int
  BY BufferWithinText, ContextEnough
<1>2. HasContext(base, saved.offset) /\ ColumnContext(base, saved.offset)
  BY DEF BufferServes
<1> QED BY <1>1, <1>2, BufferSlice DEF HasContext, ColumnContext

\* A sequence is what it has at each place.
LEMMA SameSequence ==
    ASSUME NEW s \in Seq(Char), NEW u \in Seq(Char), Len(s) = Len(u), \A i \in 1..Len(s) : s[i] = u[i]
    PROVE  s = u
OBVIOUS

\* A munch that goes on reads the rest of the buffer, which is the text from where it began.
LEMMA WalkIsRest ==
    ASSUME Inductive, BufferServes, Resumes
    PROVE  /\ Walk = SubSeq(buffer, At + 1, Len(buffer))
           /\ Walk = SubSeq(text, open.at + 1, open.at + Len(Walk))
<1> DEFINE n    == Len(buffer)
           w    == Len(open.walked)
           rest == SubSeq(buffer, At + w + 1, n)
<1>1. /\ n \in Nat /\ At \in 0..n /\ base \in Nat /\ buffer \in Seq(Char) /\ text \in Seq(Char)
      /\ base + n <= Len(text) /\ Len(text) \in Nat
      /\ \A i \in 1..n : buffer[i] = text[base + i]
  BY TurnServed, BufferSlice DEF Slice
<1>2. open.walked \in Seq(Char) /\ w \in Nat
  BY DEF Inductive, TypeOK
<1>3. open.at = base + At /\ open.at + w <= base + n
  BY DEF Inductive, WalkedIsBuffered, Resumes
<1>4. At + w \in 0..n /\ open.at >= 0 /\ open.at \in Nat
  <2> HIDE DEF n, w
  <2> QED BY <1>1, <1>2, <1>3
<1>5. rest \in Seq(Char) /\ Len(rest) = n - (At + w) /\ \A i \in 1..(n - (At + w)) : rest[i] = buffer[(At + w) + i]
  <2> HIDE DEF w
  <2> QED BY <1>1, <1>4, SuffixTyped
<1>6. Walk = open.walked \o rest
  BY DEF Walk
<1>7. Walk \in Seq(Char) /\ Len(Walk) = n - At
  BY WalkTyped
<1>8. \A i \in 1..w : open.walked[i] = text[open.at + i]
  <2> DEFINE to == open.at + w
  <2>1. open.walked = SubSeq(text, open.at + 1, to)
    BY <1>4 DEF BufferServes
  <2>2. to \in 0..Len(text) /\ open.at \in 0..to /\ to - open.at = w
    <3>1. /\ n \in Nat /\ base \in Nat /\ Len(text) \in Nat /\ w \in Nat /\ open.at \in Nat
          /\ base + n <= Len(text) /\ open.at + w <= base + n
      BY <1>1, <1>2, <1>3, <1>4
    <3> HIDE DEF n, w
    <3> QED BY <3>1
  <2> DEFINE from == open.at
  <2>3. text \in Seq(Char) /\ to \in 0..Len(text) /\ from \in 0..to
    BY <1>1, <2>2
  <2> HIDE DEF to, from, w
  <2>4. \A i \in 1..(to - from) : SubSeq(text, from + 1, to)[i] = text[from + i]
    BY <2>3, SliceTyped
  <2> QED BY <2>1, <2>2, <2>4 DEF from
<1>9. \A i \in 1..(n - At) : Walk[i] = buffer[At + i] /\ buffer[At + i] = text[open.at + i]
  <2> TAKE i \in 1..(n - At)
  <2>1. At + i \in 1..n /\ base + (At + i) = open.at + i
    BY <1>1, <1>3
  <2>2. buffer[At + i] = text[open.at + i]
    BY <1>1, <2>1
  <2>3. CASE i <= w
    <3>1. i \in 1..w
      BY <1>2, <2>3
    <3> HIDE DEF rest, w
    <3>2. (open.walked \o rest)[i] = open.walked[i]
      BY <1>2, <1>5, <3>1, JoinTyped DEF w
    <3> QED BY <1>6, <1>8, <2>2, <3>1, <3>2
  <2>4. CASE i > w
    <3> DEFINE j == i - w
    <3>1. j \in 1..(n - (At + w)) /\ w + j = i /\ (At + w) + j = At + i
      <4> HIDE DEF n, w
      <4>1. i \in Int /\ i >= 1 /\ i <= n - At /\ n \in Int /\ w \in Int /\ At \in Int
        BY <1>1, <1>2
      <4> QED BY <2>4, <4>1
    <3> HIDE DEF rest, w, j
    <3>2. (open.walked \o rest)[w + j] = rest[j]
      BY <1>2, <1>5, <3>1, JoinTyped DEF w
    <3> QED BY <1>5, <1>6, <2>2, <3>1, <3>2
  <2> QED BY <1>2, <2>3, <2>4
<1>10. Walk = SubSeq(buffer, At + 1, n)
  <2>1. SubSeq(buffer, At + 1, n) \in Seq(Char) /\ Len(SubSeq(buffer, At + 1, n)) = n - At
        /\ \A i \in 1..(n - At) : SubSeq(buffer, At + 1, n)[i] = buffer[At + i]
    BY <1>1, SuffixTyped
  <2> DEFINE s == SubSeq(buffer, At + 1, n)
  <2> HIDE DEF s, n
  <2>2. Walk = s
    BY <1>7, <1>9, <2>1, SameSequence DEF s
  <2> QED BY <2>2 DEF s
<1>11. Walk = SubSeq(text, open.at + 1, open.at + Len(Walk))
  <2> DEFINE to == open.at + Len(Walk)
             s  == SubSeq(text, open.at + 1, to)
  <2>1. to \in 0..Len(text) /\ open.at \in 0..to /\ to - open.at = n - At
    <3> HIDE DEF n
    <3> QED BY <1>1, <1>3, <1>4, <1>7
  <2>2. s \in Seq(Char) /\ Len(s) = n - At /\ \A i \in 1..(n - At) : s[i] = text[open.at + i]
    <3> DEFINE from == open.at
    <3>1. text \in Seq(Char) /\ to \in 0..Len(text) /\ from \in 0..to /\ to - from = n - At
      BY <1>1, <2>1
    <3> HIDE DEF to, n, from
    <3>2. /\ SubSeq(text, from + 1, to) \in Seq(Char) /\ Len(SubSeq(text, from + 1, to)) = to - from
          /\ \A i \in 1..(to - from) : SubSeq(text, from + 1, to)[i] = text[from + i]
      BY <3>1, SliceTyped
    <3> QED BY <3>1, <3>2 DEF from
  <2> HIDE DEF s, n
  <2>3. Walk = s
    BY <1>7, <1>9, <2>2, SameSequence
  <2> QED BY <2>3 DEF s
<1> QED BY <1>10, <1>11

\* Nothing is dropped yet, and nothing is open.
LEMMA InitServes == Init => BufferServes
<1> SUFFICES ASSUME Init PROVE BufferServes
  OBVIOUS
<1>1. base = 0 /\ Len(buffer) = 0 /\ ~final /\ open = NotOpen /\ buffer = <<>>
  BY DEF Init
<1>2. HasContext(base, saved.offset) /\ ColumnContext(base, saved.offset)
  BY <1>1 DEF HasContext, ColumnContext
<1>3. Settled(buffer, text, base)
  BY <1>1 DEF Settled
<1>4. open.unit.rules = {} /\ open.at = -1
  BY <1>1 DEF NotOpen
<1>5. OnPike(open.unit) = {} /\ open.unit.rules \subseteq RuleIds /\ ~(open.at >= 0)
  BY <1>4 DEF OnPike
<1> QED BY <1>1, <1>2, <1>3, <1>5 DEF BufferServes

\* What does not change the rules keeps what a munch open rests on.
LEMMA OpenKept ==
    ASSUME BufferServes, rules' = rules, text' = text, open' = open
    PROVE  /\ open'.unit.rules \subseteq RuleIds' /\ OnPike(open.unit)' = {}
           /\ open'.at >= 0 => open'.walked = SubSeq(text', open'.at + 1, open'.at + Len(open'.walked))
<1>1. OnPike(open.unit)' = OnPike(open.unit) /\ RuleIds' = RuleIds
  BY DEF OnPike, OnDfa, RuleIds
<1> QED BY <1>1 DEF BufferServes

\* The context is kept where the rules, the base and the cursor are.
LEMMA ContextStays ==
    ASSUME rules' = rules, NEW o, NEW at, HasContext(o, at), ColumnContext(o, at)
    PROVE  HasContext(o, at)' /\ ColumnContext(o, at)'
<1>1. ContextKept' = ContextKept
  BY DEF ContextKept, RuleIds
<1> QED BY <1>1 DEF HasContext, ColumnContext


\* What serves, read in the state a step leads to.
LEMMA ServesNext ==
    ASSUME rules' = rules,
           base' = 0 \/ saved'.offset >= ContextKept,
           ColumnContext(base', saved'.offset),
           Columns # "bytes" => Settled(buffer', text', base'),
           final' => Whole(buffer', text', base'),
           open'.unit.rules \subseteq RuleIds, OnPike(open.unit)' = {},
           open'.at >= 0 => open'.walked = SubSeq(text', open'.at + 1, open'.at + Len(open'.walked))
    PROVE  BufferServes'
<1>1. ContextKept' = ContextKept /\ RuleIds' = RuleIds
  BY DEF ContextKept, RuleIds
<1>2. base' = 0 \/ saved'.offset >= ContextKept'
  BY <1>1
<1>3. Columns = "bytes" \/ base' = 0 \/ saved'.offset >= 3
  BY DEF ColumnContext
<1>4. open'.unit.rules \subseteq RuleIds'
  BY <1>1
<1> QED BY <1>2, <1>3, <1>4 DEF BufferServes, HasContext, ColumnContext, Settled, Whole

\* A call up to its scan: what it drops leaves the context, and what it holds back settles the rest.
LEMMA FeedServes ==
    ASSUME Inductive, Inductive', BufferServes, NEW n \in 0..MaxPiece, Feed(n)
    PROVE  BufferServes'
<1>1. /\ base' = base + Dropped /\ saved' = cursor' /\ cursor' = [cursor EXCEPT !.offset = @ - Dropped]
      /\ rules' = rules /\ text' = text /\ open' = open /\ fed' = fed + n /\ final' = FALSE /\ ~finished
      /\ finished' = finished
  BY DEF Feed, Begin
<1>2. saved'.offset = cursor.offset - Dropped
  BY <1>1, TurnStart DEF Positions
<1>3. HasContext(base', saved'.offset) /\ ColumnContext(base', saved'.offset)
  <2> DEFINE newBase == base'
             newAt   == saved'.offset
  <2>1. HasContext(newBase, newAt) /\ ColumnContext(newBase, newAt)
    BY <1>1, <1>2, DroppedKeeps DEF BufferServes
  <2> QED BY <2>1
<1>4. Columns # "bytes" => Settled(buffer', text', base')
  <2>1. fed' >= fed
    BY <1>1, BufferSlice
  <2> QED BY <1>1, <1>2, <2>1, HoldSettles DEF BufferServes
<1>5. open'.unit.rules \subseteq RuleIds
  BY <1>1 DEF BufferServes
<1>6. /\ OnPike(open.unit)' = {}
      /\ open'.at >= 0 => open'.walked = SubSeq(text', open'.at + 1, open'.at + Len(open'.walked))
  BY <1>1, OpenKept
<1>7. base' = 0 \/ saved'.offset >= ContextKept
  BY <1>3 DEF HasContext
<1> QED BY <1>1, <1>3, <1>4, <1>5, <1>6, <1>7, ServesNext

\* finish: nothing is held back, and the buffer goes to the end of the text.
LEMMA FinishServes ==
    ASSUME Inductive, Inductive', BufferServes, Finish
    PROVE  BufferServes'
<1>1. /\ base' = base + Dropped /\ saved' = cursor' /\ cursor' = [cursor EXCEPT !.offset = @ - Dropped]
      /\ rules' = rules /\ text' = text /\ open' = open /\ fed' = fed /\ fed = Len(text)
      /\ Begin(tail, 0)
  BY DEF Finish, Begin
<1>2. saved'.offset = cursor.offset - Dropped
  BY <1>1, TurnStart DEF Positions
<1>3. HasContext(base', saved'.offset) /\ ColumnContext(base', saved'.offset)
  <2> DEFINE newBase == base'
             newAt   == saved'.offset
  <2>1. HasContext(newBase, newAt) /\ ColumnContext(newBase, newAt)
    BY <1>1, <1>2, DroppedKeeps DEF BufferServes
  <2> QED BY <2>1
<1>4. Len(tail') = 0
  <2>1. tail \in Seq(Char) /\ Len(tail) \in Nat /\ Len(buffer) \in Nat /\ cursor.offset \in 0..Len(buffer)
    BY BufferWithinText DEF Inductive, TypeOK, At
  <2>2. 0 \in 0..(Len(buffer) + Len(tail) - cursor.offset)
    BY <2>1
  <2> QED BY <1>1, <2>1, <2>2, BeginTyped
<1>5. Whole(buffer', text', base')
  <2>1. base' + Len(buffer') + Len(tail') = fed' /\ base' \in Nat /\ Len(buffer') \in Nat
    BY BufferWithinText DEF Inductive, TypeOK, Accounted
  <2> QED BY <1>1, <1>4, <2>1 DEF Whole
<1>6. Columns # "bytes" => Settled(buffer', text', base')
  BY <1>5 DEF Settled
<1>7. open'.unit.rules \subseteq RuleIds
  BY <1>1 DEF BufferServes
<1>8. /\ OnPike(open.unit)' = {}
      /\ open'.at >= 0 => open'.walked = SubSeq(text', open'.at + 1, open'.at + Len(open'.walked))
  BY <1>1, OpenKept
<1>9. base' = 0 \/ saved'.offset >= ContextKept
  BY <1>3 DEF HasContext
<1> QED BY <1>1, <1>3, <1>5, <1>6, <1>7, <1>8, <1>9, ServesNext


\* A turn leaves the buffer alone, and never goes back past what the stream counts on.
LEMMA TurnServes ==
    ASSUME Inductive, BufferServes,
           rules' = rules, text' = text, buffer' = buffer, base' = base, final' = final,
           saved'.offset \in Int, saved.offset <= saved'.offset,
           open'.unit.rules \subseteq RuleIds, OnPike(open.unit)' = {},
           open'.at >= 0 => open'.walked = SubSeq(text', open'.at + 1, open'.at + Len(open'.walked))
    PROVE  BufferServes'
<1>1. /\ saved.offset \in Int /\ ContextKept \in Int
      /\ base = 0 \/ saved.offset >= ContextKept
      /\ Columns = "bytes" \/ base = 0 \/ saved.offset >= 3
  BY TurnStart, ContextEnough DEF BufferServes, HasContext, ColumnContext
<1>2. base' = 0 \/ saved'.offset >= ContextKept
  BY <1>1
<1>3. ColumnContext(base', saved'.offset)
  BY <1>1 DEF ColumnContext
<1>4. /\ Columns # "bytes" => Settled(buffer', text', base')
      /\ final' => Whole(buffer', text', base')
  BY DEF BufferServes
<1> QED BY <1>2, <1>3, <1>4, ServesNext

\* A turn that leaves the open munch alone.
LEMMA PlainTurnServes ==
    ASSUME Inductive, BufferServes,
           rules' = rules, text' = text, buffer' = buffer, base' = base, final' = final, open' = open,
           saved'.offset \in Int, saved.offset <= saved'.offset
    PROVE  BufferServes'
<1>1. open'.unit.rules \subseteq RuleIds
  BY DEF BufferServes
<1>2. /\ OnPike(open.unit)' = {}
      /\ open'.at >= 0 => open'.walked = SubSeq(text', open'.at + 1, open'.at + Len(open'.walked))
  BY OpenKept
<1> QED BY <1>1, <1>2, TurnServes

\* The step goes back to where it ends: past where it began.
LEMMA EmitServes ==
    ASSUME Inductive, BufferServes, pc = "collect",
           Emit(Turn) \/ EmitErrorRun(Turn) \/ EmitUnterminated(Turn)
    PROVE  BufferServes'
<1>0. /\ At \in Nat /\ Len(buffer) \in Nat /\ At \in 0..Len(buffer) /\ At = cursor.offset
      /\ saved.offset \in Int /\ saved.offset <= At
  BY BufferWithinText, TurnStart DEF At
<1>1. PICK past, token : Produce(token, past) /\ past.offset \in Int /\ At <= past.offset
  <2>1. CASE Emit(Turn)
    <3> DEFINE token == Token(Won(Turn).kind, Past(Turn), Mode)
    <3>1. Turn.meets = "match" /\ Produce(token, Past(Turn))
      BY <2>1 DEF Emit
    <3>2. Past(Turn) \in Positions(0..Len(buffer)) /\ Past(Turn).offset > cursor.offset
      BY <3>1, PastTyped
    <3>3. Past(Turn).offset \in Int /\ At <= Past(Turn).offset
      BY <1>0, <3>2 DEF Positions
    <3> HIDE DEF token
    <3> QED BY <3>1, <3>3
  <2>2. CASE EmitErrorRun(Turn)
    <3> DEFINE n     == RunStop - At
               end   == Advance(buffer, cursor, n)
               token == Token(ErrorKind, end, Mode)
    <3>1. Turn.meets = "nothing" /\ Produce(token, end)
      BY <2>2 DEF EmitErrorRun
    <3>2. ~AtEnd
      BY <3>1, TurnBounded
    <3>3. RunStop \in (At + 1)..Len(buffer)
      BY <3>2, RunStopBounded
    <3>4. n \in 0..(Len(buffer) - cursor.offset) /\ n \in Nat
      BY <1>0, <3>3
    <3> HIDE DEF n
    <3>5. end.offset = cursor.offset + n
      BY DEF Advance
    <3>6. end.offset \in Int /\ At <= end.offset
      BY <1>0, <3>4, <3>5
    <3> HIDE DEF end, token
    <3> QED BY <3>1, <3>6
  <2>3. CASE EmitUnterminated(Turn)
    <3> DEFINE token == Token(ErrorKind, cursor, Mode)
    <3>1. Produce(token, cursor)
      BY <2>3 DEF EmitUnterminated
    <3>2. cursor.offset \in Int /\ At <= cursor.offset
      BY <1>0
    <3> HIDE DEF token
    <3> QED BY <3>1, <3>2
  <2> QED BY <2>1, <2>2, <2>3
<1>2. /\ rules' = rules /\ text' = text /\ buffer' = buffer /\ base' = base /\ final' = final
      /\ open' = open /\ saved' = past
  BY <1>1 DEF Produce, bufferVars
<1>3. saved'.offset \in Int /\ saved.offset <= saved'.offset
  BY <1>0, <1>1, <1>2
<1> QED BY <1>2, <1>3, PlainTurnServes

\* A munch left open is noted where it is, with what it has walked.
LEMMA WaitOpenServes ==
    ASSUME Inductive, BufferServes, pc = "collect", WaitOpen(Turn)
    PROVE  BufferServes'
<1>1. /\ rules' = rules /\ text' = text /\ buffer' = buffer /\ base' = base /\ final' = final
      /\ saved' = saved
      /\ open' = IF Resumes
                 THEN [open EXCEPT !.walked = Walk]
                 ELSE IF OnPike(Unit) = {}
                 THEN [unit |-> Unit, at |-> base + At, walked |-> <<>>]
                 ELSE open
  BY DEF WaitOpen, Pending, bufferVars
<1>2. saved'.offset \in Int /\ saved.offset <= saved'.offset
  BY <1>1, TurnStart
<1>3. open = [unit |-> open.unit, at |-> open.at, walked |-> open.walked]
  BY TurnStart
<1>4. \A u : OnPike(u) = u.rules \ OnDfa(u)
  BY DEF OnPike
<1>5. CASE Resumes
  <2>1. open' = [open EXCEPT !.walked = Walk]
    BY <1>1, <1>5
  <2>2. open'.unit = open.unit /\ open'.at = open.at /\ open'.walked = Walk
    BY <1>3, <2>1
  <2>3. open'.unit.rules \subseteq RuleIds
    BY <2>2 DEF BufferServes
  <2>4. OnPike(open.unit)' = {}
    BY <1>1, <2>2 DEF BufferServes, OnPike, OnDfa
  <2>5. open'.walked = SubSeq(text', open'.at + 1, open'.at + Len(open'.walked))
    BY <1>1, <1>5, <2>2, WalkIsRest
  <2> QED BY <1>1, <1>2, <2>3, <2>4, <2>5, TurnServes
<1>6. CASE ~Resumes /\ OnPike(Unit) = {}
  <2>1. open' = [unit |-> Unit, at |-> base + At, walked |-> <<>>]
    BY <1>1, <1>6
  <2>2. open'.unit = Unit /\ open'.at = base + At /\ open'.walked = <<>>
    BY <2>1
  <2>3. open'.unit.rules \subseteq RuleIds
    BY <2>2, UnitOfRules DEF Unit
  <2>4. OnPike(open.unit)' = {}
    <3>1. OnPike(open.unit)' = OnPike(open'.unit)
      BY <1>1 DEF OnPike, OnDfa
    <3> QED BY <1>6, <2>2, <3>1
  <2>5. open'.walked = SubSeq(text', open'.at + 1, open'.at + Len(open'.walked))
    <3>1. Len(open'.walked) = 0 /\ open'.at + 0 = open'.at /\ open'.at \in Nat
      BY <2>2, BufferWithinText, BufferSlice, TurnServed
    <3>2. SubSeq(text', open'.at + 1, open'.at) = <<>>
      BY <3>1, SubSeqEmpty
    <3> QED BY <2>2, <3>1, <3>2
  <2> QED BY <1>1, <1>2, <2>3, <2>4, <2>5, TurnServes
<1>7. CASE ~Resumes /\ OnPike(Unit) # {}
  <2>1. open' = open
    BY <1>1, <1>7
  <2> QED BY <1>1, <1>2, <2>1, PlainTurnServes
<1> QED BY <1>5, <1>6, <1>7

\* The turns that move no token and leave the open munch alone.
LEMMA OtherServes ==
    ASSUME Inductive, BufferServes, pc = "collect",
           \/ Skip(Turn) \/ Wait(Turn) \/ WaitInRun(Turn) \/ NoRule(Turn) \/ BadTransition(Turn)
           \/ ZeroLength(Turn) \/ Unterminated(Turn) \/ End(Turn)
    PROVE  BufferServes'
<1>1. /\ rules' = rules /\ text' = text /\ buffer' = buffer /\ base' = base /\ final' = final
      /\ open' = open /\ saved' = saved
  <2>1. CASE Skip(Turn)
    BY <2>1 DEF Skip, bufferVars, callVars
  <2>2. CASE Wait(Turn) \/ WaitInRun(Turn)
    <3>1. Pending /\ open' = open
      BY <2>2, Zenon DEF Wait, WaitInRun
    <3> QED BY <3>1 DEF Pending, bufferVars
  <2>3. CASE NoRule(Turn) \/ BadTransition(Turn) \/ ZeroLength(Turn) \/ Unterminated(Turn)
    <3>1. (\E kind, where : Fail(kind, where)) /\ rules' = rules
      BY <2>3, Zenon DEF NoRule, BadTransition, ZeroLength, Unterminated, Fail
    <3> QED BY <3>1 DEF Fail, bufferVars
  <2>4. CASE End(Turn)
    BY <2>4 DEF End, bufferVars, scanVars
  <2> QED BY <2>1, <2>2, <2>3, <2>4
<1>2. saved'.offset \in Int /\ saved.offset <= saved'.offset
  BY <1>1, TurnStart
<1> QED BY <1>1, <1>2, PlainTurnServes

\* Every step keeps it.
LEMMA NextServes == Inductive /\ Inductive' /\ BufferServes /\ [Next]_vars => BufferServes'
<1> SUFFICES ASSUME Inductive, Inductive', BufferServes, [Next]_vars PROVE BufferServes'
  OBVIOUS
<1>1. CASE \E n \in 0..MaxPiece : Feed(n)
  BY <1>1, FeedServes
<1>2. CASE Finish
  BY <1>2, FinishServes
<1>3. CASE Collect
  BY <1>3, EmitServes, WaitOpenServes, OtherServes DEF Collect
<1>4. CASE UNCHANGED vars
  <2>1. /\ rules' = rules /\ text' = text /\ buffer' = buffer /\ base' = base /\ final' = final
        /\ open' = open /\ saved' = saved
    BY <1>4 DEF vars, bufferVars, scanVars, callVars
  <2>2. saved'.offset \in Int /\ saved.offset <= saved'.offset
    BY <2>1, TurnStart
  <2> QED BY <2>1, <2>2, PlainTurnServes
<1> QED BY <1>1, <1>2, <1>3, <1>4 DEF Next

\* In every reachable state the buffer serves: it has the context, the code points and the end that the
\* steps to come read, and what an open munch has walked is the text from where it began.
THEOREM BufferAlwaysServes == Safety => []BufferServes
<1>1. Init => BufferServes
  BY InitServes
<1>2. Inductive /\ Inductive' /\ BufferServes /\ [Next]_vars => BufferServes'
  BY NextServes
<1> QED BY <1>1, <1>2, StreamInductive, PTL DEF Safety


-----------------------------------------------------------------------------
(* What a turn reads of the buffer *)

\* At a turn, the buffer answers as the text would.
LEMMA ContextServed ==
    ASSUME Inductive, BufferServes
    PROVE  ContextSuffices
<1>1. SUFFICES ASSUME ~AtEnd
               PROVE  LET at == base + At
                      IN  /\ \A i \in RuleIds :
                                Admits(rules[i].pattern, buffer, At) = Admits(rules[i].pattern, text, at)
                          /\ UnitOf(Mode, previous, buffer, At) = UnitOf(Mode, previous, text, at)
                          /\ ColumnStep(buffer, At) = ColumnStep(text, at)
  BY DEF ContextSuffices
<1>2. /\ HasContext(base, At) /\ ColumnContext(base, At)
      /\ At \in 0..Len(buffer) /\ At \in Nat /\ Slice(buffer, text, base)
  BY TurnServed
<1>3. base \in Nat /\ At \in 0..(Len(buffer) - 1)
  BY <1>1, <1>2, BufferSlice DEF AtEnd
<1>4. \A i \in RuleIds : Admits(rules[i].pattern, buffer, At) = Admits(rules[i].pattern, text, base + At)
  <2> TAKE i \in RuleIds
  <2>1. At >= LeftContext(rules[i].pattern) \/ base = 0
    BY <1>2, <1>3, ContextRead
  <2> QED BY <1>2, <2>1, AdmitsOnSlice
<1>5. UnitOf(Mode, previous, buffer, At) = UnitOf(Mode, previous, text, base + At)
  BY <1>2, UnitOnSlice
<1>6. ColumnStep(buffer, At) = ColumnStep(text, base + At)
  BY <1>2, <1>3, StepOnSlice DEF BufferServes
<1> QED BY <1>4, <1>5, <1>6

\* What drop_returned kept before the cursor answers every rule that reads back, and the column, as the
\* whole text would: for every grammar, text and way of cutting it.
THEOREM ContextEnoughKept == Safety => []ContextSuffices
<1>1. Inductive /\ BufferServes => ContextSuffices
  BY ContextServed
<1> QED BY <1>1, StreamInductive, BufferAlwaysServes, PTL

\* A resumed munch is that of a unit wholly on its DFA, over the rest of the buffer.
LEMMA ResumedIsFresh ==
    ASSUME Inductive, BufferServes
    PROVE  ResumedMunchIsFresh
<1>1. SUFFICES ASSUME ~AtEnd, Resumes
               PROVE  /\ MunchHere = MunchAt(Unit, buffer, At)
                      /\ MunchOpen = Open(Unit, buffer, At)
  BY DEF ResumedMunchIsFresh
<1>2. /\ Walk = SubSeq(buffer, At + 1, Len(buffer))
      /\ At \in 0..Len(buffer) /\ buffer \in Seq(Char)
  BY <1>1, WalkIsRest, TurnServed DEF Slice
<1>3. rules \in Grammars /\ Unit.rules \subseteq RuleIds /\ OnPike(Unit) = {}
  BY <1>1, TurnStart DEF Resumes, BufferServes
<1>4. /\ DfaMunch(Unit, Walk, 0) = DfaMunch(Unit, buffer, At)
      /\ Open(Unit, Walk, 0) = Open(Unit, buffer, At)
  BY <1>2, <1>3, MunchOfRest
<1>5. MunchAt(Unit, buffer, At) = DfaMunch(Unit, buffer, At)
  <2> DEFINE d == DfaMunch(Unit, buffer, At)
  <2>1. PikeMunch(Unit, buffer, At) = NoMunch
    BY <1>3 DEF PikeMunch, Winner
  <2>2. MunchAt(Unit, buffer, At) = Winner({ <<m.idx, m.len>> : m \in { w \in {d, NoMunch} : w.have } })
    BY <2>1 DEF MunchAt
  <2>3. ~NoMunch.have
    BY DEF NoMunch
  <2>4. d = NoMunch \/ (d.have /\ d = [have |-> TRUE, idx |-> d.idx, len |-> d.len])
    BY DEF DfaMunch, Winner
  <2>5. d.len \in 0..(Len(buffer) - At) /\ (d.have => d.idx \in Nat)
    BY <1>2, <1>3, DfaMunchBounded, RulesTyped
  <2>6. Len(buffer) - At \in Nat
    BY <1>2
  <2> HIDE DEF d
  <2> SUFFICES MunchAt(Unit, buffer, At) = d
    BY DEF d
  <2>7. CASE d = NoMunch
    <3>1. { <<m.idx, m.len>> : m \in { w \in {d, NoMunch} : w.have } } = {}
      BY <2>3, <2>7
    <3> QED BY <2>2, <2>7, <3>1 DEF Winner
  <2>8. CASE d.have
    <3> DEFINE r == Len(buffer) - At
               M == {<<d.idx, d.len>>}
    <3>1. { <<m.idx, m.len>> : m \in { w \in {d, NoMunch} : w.have } } = M
      BY <2>3, <2>8
    <3>2. M \in MatchSets(r) /\ <<d.idx, d.len>> \in M /\ r \in Nat
      BY <2>5, <2>6, <2>8 DEF MatchSets
    <3>3. \A m \in M : m[2] <= d.len /\ (m[2] = d.len => d.idx <= m[1])
      BY <2>5, <2>8
    <3> HIDE DEF r, M
    <3>4. Winner(M) = [have |-> TRUE, idx |-> d.idx, len |-> d.len]
      BY <3>2, <3>3, WinnerIs
    <3> QED BY <2>2, <2>3, <2>4, <2>8, <3>1, <3>4
  <2> QED BY <2>4, <2>7, <2>8
<1> QED BY <1>1, <1>4, <1>5 DEF MunchHere, MunchOpen

\* A munch that goes on from where the last piece left it answers as one read from its first byte.
THEOREM ResumedMunchesAreFresh == Safety => []ResumedMunchIsFresh
<1>1. Inductive /\ BufferServes => ResumedMunchIsFresh
  BY ResumedIsFresh
<1> QED BY <1>1, StreamInductive, BufferAlwaysServes, PTL


-----------------------------------------------------------------------------
(* Continued lines on a slice *)

\* A document marker the slice has with what follows it, or whose line it has, is one of the text.
LEMMA MarkedOnSlice ==
    ASSUME NEW b, NEW t, NEW o, Slice(b, t, o), NEW line \in 0..Len(b),
           Shown(b, t, o, line) \/ line + 3 < Len(b)
    PROVE  Marked(t, o + line) <=> Marked(b, line)
<1>1. b \in Seq(Char) /\ t \in Seq(Char) /\ Len(b) \in Nat /\ Len(t) \in Nat /\ o \in Nat /\ o + Len(b) <= Len(t)
      /\ o + line \in 0..Len(t) /\ line \in Nat
  BY DEF Slice
<1>2. \A s \in Seq(Char) : \A x \in Nat : x + 3 <= Len(s) =>
         /\ SubSeq(s, x + 1, x + 3) \in Seq(Char) /\ Len(SubSeq(s, x + 1, x + 3)) = 3
         /\ \A i \in 1..3 : SubSeq(s, x + 1, x + 3)[i] = s[x + i]
  <2> SUFFICES ASSUME NEW s \in Seq(Char), NEW x \in Nat, x + 3 <= Len(s)
               PROVE  /\ SubSeq(s, x + 1, x + 3) \in Seq(Char) /\ Len(SubSeq(s, x + 1, x + 3)) = 3
                      /\ \A i \in 1..3 : SubSeq(s, x + 1, x + 3)[i] = s[x + i]
    OBVIOUS
  <2> DEFINE to == x + 3
  <2>1. to \in 0..Len(s) /\ x \in 0..to /\ to - x = 3
    OBVIOUS
  <2> HIDE DEF to
  <2>2. /\ SubSeq(s, x + 1, to) \in Seq(Char) /\ Len(SubSeq(s, x + 1, to)) = to - x
        /\ \A i \in 1..(to - x) : SubSeq(s, x + 1, to)[i] = s[x + i]
    BY <2>1, SliceTyped
  <2> QED BY <2>1, <2>2 DEF to
<1>3. ASSUME line + 3 <= Len(b)
      PROVE  SubSeq(t, (o + line) + 1, (o + line) + 3) = SubSeq(b, line + 1, line + 3)
  <2> DEFINE u == SubSeq(t, (o + line) + 1, (o + line) + 3)
             v == SubSeq(b, line + 1, line + 3)
  <2>1. (o + line) + 3 <= Len(t) /\ o + line \in Nat
    BY <1>1, <1>3
  <2>2. v \in Seq(Char) /\ Len(v) = 3 /\ \A i \in 1..3 : v[i] = b[line + i]
    BY <1>1, <1>2, <1>3
  <2>3. u \in Seq(Char) /\ Len(u) = 3 /\ \A i \in 1..3 : u[i] = t[(o + line) + i]
    BY <1>1, <1>2, <2>1
  <2> HIDE DEF u, v
  <2>4. \A i \in 1..3 : line + i \in 1..Len(b) /\ o + (line + i) = (o + line) + i
    BY <1>1, <1>3
  <2>5. \A i \in 1..3 : u[i] = v[i]
    <3> TAKE i \in 1..3
    <3> DEFINE x == line + i
    <3>1. x \in 1..Len(b) /\ o + x = (o + line) + i
      BY <2>4
    <3> HIDE DEF x
    <3>2. b[x] = t[o + x]
      BY <3>1 DEF Slice
    <3> QED BY <2>2, <2>3, <3>1, <3>2 DEF x
  <2>6. u = v
    BY <2>2, <2>3, <2>5, SameSequence
  <2> QED BY <2>6 DEF u, v
<1>4. CASE Whole(b, t, o) \/ line + 3 < Len(b)
  <2>1. (o + line) + 3 <= Len(t) <=> line + 3 <= Len(b)
    BY <1>1, <1>4 DEF Whole
  <2>2. (o + line) + 3 = Len(t) <=> line + 3 = Len(b)
    BY <1>1, <1>4 DEF Whole
  <2>3. line + 3 <= Len(b) /\ line + 3 # Len(b) => t[(o + line) + 4] = b[line + 4]
    <3>1. line + 3 <= Len(b) /\ line + 3 # Len(b) => line + 4 \in 1..Len(b) /\ o + (line + 4) = (o + line) + 4
      BY <1>1
    <3> QED BY <3>1 DEF Slice
  <2> QED BY <1>3, <2>1, <2>2, <2>3 DEF Marked
<1>5. CASE ~Whole(b, t, o) /\ ~(line + 3 < Len(b))
  <2> DEFINE e == LineEnd(b, line)
  <2>1. e < Len(b)
    BY <1>5 DEF Shown, Broken
  <2>2. e = PastAll(b, line, Char \ {NewLine})
    BY <1>1, LineEndIs
  <2>3. e \in line..Len(b) /\ b[e + 1] \notin Char \ {NewLine}
    BY <1>1, <2>1, <2>2, PastAllIs
  <2> HIDE DEF e
  <2>4. e + 1 \in 1..Len(b) /\ o + (e + 1) = (o + line) + ((e - line) + 1) /\ line + ((e - line) + 1) = e + 1
        /\ (e - line) + 1 \in 1..3
    BY <1>1, <1>5, <2>1, <2>3
  <2>5. b[e + 1] = NewLine /\ t[(o + line) + ((e - line) + 1)] = NewLine
    BY <1>1, <2>3, <2>4 DEF Slice
  <2>6. \A w \in Markers : \A i \in 1..3 : w[i] # NewLine
    BY DEF Markers, NewLine
  <2> DEFINE i == (e - line) + 1
  <2> HIDE DEF i
  <2>7. ~Marked(b, line)
    <3> SUFFICES ASSUME line + 3 <= Len(b), SubSeq(b, line + 1, line + 3) \in Markers PROVE FALSE
      BY DEF Marked
    <3>1. i \in 1..3 /\ b[line + i] = NewLine
      BY <2>4, <2>5 DEF i
    <3>2. SubSeq(b, line + 1, line + 3)[i] = b[line + i]
      BY <1>1, <1>2, <3>1
    <3> QED BY <2>6, <3>1, <3>2
  <2>8. ~Marked(t, o + line)
    <3> SUFFICES ASSUME (o + line) + 3 <= Len(t), SubSeq(t, (o + line) + 1, (o + line) + 3) \in Markers PROVE FALSE
      BY DEF Marked
    <3> DEFINE x == o + line
    <3>1. x \in Nat /\ x + 3 <= Len(t) /\ t \in Seq(Char)
      BY <1>1
    <3>2. i \in 1..3 /\ t[x + i] = NewLine /\ SubSeq(t, x + 1, x + 3) \in Markers
      BY <2>4, <2>5 DEF i
    <3> HIDE DEF x
    <3>3. SubSeq(t, x + 1, x + 3)[i] = t[x + i]
      BY <1>2, <3>1, <3>2
    <3> QED BY <2>6, <3>2, <3>3
  <2> QED BY <2>7, <2>8
<1> QED BY <1>4, <1>5

\* The continuation pattern reads the same on a line that the slice has, and no further than its end.
LEMMA ReadToOnSlice ==
    ASSUME NEW b, NEW t, NEW o, Slice(b, t, o), NEW line \in 0..Len(b), Shown(b, t, o, line), NEW p \in Pattern
    PROVE  /\ ReadTo(b, line, p) \in line..LineEnd(b, line)
           /\ ReadTo(t, o + line, p) = o + ReadTo(b, line, p)
<1> DEFINE stop  == LineEnd(b, line)
           words == SubSeq(b, line + 1, stop)
           wordsT == SubSeq(t, (o + line) + 1, LineEnd(t, o + line))
           first == PastAll(words, 0, {Space, Tab})
           found == MatchLength(p, words, first)
<1>1. b \in Seq(Char) /\ t \in Seq(Char) /\ Len(b) \in Nat /\ Len(t) \in Nat /\ o \in Nat /\ o + Len(b) <= Len(t)
      /\ line \in Nat
  BY DEF Slice
<1>2. stop \in line..Len(b)
  BY <1>1, LinesBounded
<1>3. LineEnd(t, o + line) = o + stop
  BY LineOnSlice
<1> HIDE DEF stop
<1>4. words \in Seq(Char) /\ Len(words) = stop - line /\ \A i \in 1..(stop - line) : words[i] = b[line + i]
  <2>1. stop \in 0..Len(b) /\ line \in 0..stop
    BY <1>1, <1>2
  <2> QED BY <1>1, <2>1, SliceTyped
<1>5. wordsT = words
  <2> DEFINE from == o + line
             to   == o + stop
             u    == SubSeq(t, from + 1, to)
  <2>1. to \in 0..Len(t) /\ from \in 0..to /\ to - from = stop - line
    BY <1>1, <1>2
  <2>2. wordsT = u
    BY <1>3
  <2>3. \A i \in 1..(stop - line) : line + i \in 1..Len(b) /\ o + (line + i) = from + i
    BY <1>1, <1>2
  <2> HIDE DEF from, to, wordsT
  <2>4. u \in Seq(Char) /\ Len(u) = to - from /\ \A i \in 1..(to - from) : u[i] = t[from + i]
    BY <1>1, <2>1, SliceTyped
  <2> HIDE DEF u, words
  <2>5. \A i \in 1..(stop - line) : u[i] = words[i]
    <3> TAKE i \in 1..(stop - line)
    <3> DEFINE x == line + i
    <3>1. x \in 1..Len(b) /\ o + x = from + i
      BY <2>3
    <3> HIDE DEF x
    <3>2. b[x] = t[o + x]
      BY <3>1 DEF Slice
    <3> QED BY <1>4, <2>1, <2>4, <3>1, <3>2 DEF x
  <2>6. u = words
    BY <1>4, <2>1, <2>4, <2>5, SameSequence
  <2> QED BY <2>2, <2>6
<1> HIDE DEF words
<1>6. first \in 0..Len(words)
  BY <1>4, LinesBounded
<1> HIDE DEF first
<1>7. found \in {NoMatch} \cup 0..(Len(words) - first)
  BY <1>4, <1>6, MatchBounded
<1> HIDE DEF found
<1>8. ReadTo(b, line, p) = IF found > 0 THEN line + first + found ELSE line
  BY DEF ReadTo, stop, words, first, found
<1>9. ReadTo(t, o + line, p) = IF found > 0 THEN (o + line) + first + found ELSE o + line
  BY <1>5 DEF ReadTo, words, first, found
<1>10. found > 0 => (o + line) + first + found = o + (line + first + found) /\ line + first + found \in line..stop
  <2> DEFINE n == stop - line
  <2>1. n \in Nat /\ line + n = stop /\ stop \in Nat
    BY <1>1, <1>2
  <2>2. first \in 0..n /\ found \in {NoMatch} \cup 0..(n - first)
    BY <1>4, <1>6, <1>7
  <2> HIDE DEF n
  <2> QED BY <1>1, <2>1, <2>2 DEF NoMatch
<1> QED BY <1>1, <1>2, <1>8, <1>9, <1>10 DEF stop

\* Where the rest of a broken line goes on, it is broken there.
LEMMA BrokenWithin ==
    ASSUME NEW b \in Seq(Char), NEW line \in 0..Len(b), Broken(b, line), NEW x \in line..LineEnd(b, line)
    PROVE  Broken(b, x) /\ x \in 0..Len(b)
<1> DEFINE e == LineEnd(b, line)
           f == LineEnd(b, x)
<1>1. Len(b) \in Nat /\ line \in Nat /\ e < Len(b)
  BY DEF Broken
<1>2. e = PastAll(b, line, Char \ {NewLine}) /\ e \in line..Len(b)
  BY LineEndIs, LinesBounded
<1>3. b[e + 1] \notin Char \ {NewLine}
  BY <1>1, <1>2, PastAllIs
<1>4. x \in 0..Len(b) /\ x <= e
  <2> HIDE DEF e
  <2> QED BY <1>1, <1>2 DEF e
<1>5. f = PastAll(b, x, Char \ {NewLine}) /\ f \in x..Len(b)
  BY <1>4, LineEndIs, LinesBounded
<1>6. \A y \in x..(f - 1) : b[y + 1] \in Char \ {NewLine}
  BY <1>4, <1>5, PastAllIs
<1> HIDE DEF e, f
<1>7. ~(e \in x..(f - 1))
  BY <1>3, <1>6
<1>8. f <= e
  BY <1>1, <1>2, <1>4, <1>5, <1>7
<1> QED BY <1>1, <1>2, <1>4, <1>5, <1>8 DEF Broken, f

\* Whether only blanks follow is the same on the text, once something follows them.
LEMMA BlankToEndOnSlice ==
    ASSUME NEW b, NEW t, NEW o, Slice(b, t, o), NEW x \in 0..Len(b),
           Whole(b, t, o) \/ PastBlanks(b, x) < Len(b)
    PROVE  BlankToEnd(t, o + x) <=> BlankToEnd(b, x)
<1> DEFINE p == PastBlanks(b, x)
           e == LineEnd(b, x)
           f == LineEnd(t, o + x)
<1>1. b \in Seq(Char) /\ t \in Seq(Char) /\ Len(b) \in Nat /\ Len(t) \in Nat /\ o \in Nat /\ o + Len(b) <= Len(t)
      /\ o + x \in 0..Len(t)
  BY DEF Slice
<1>2. CASE Shown(b, t, o, x)
  BY <1>2, LineOnSlice
<1>3. CASE ~Shown(b, t, o, x)
  <2>1. PastBlanks(t, o + x) = o + p
    BY PastAllOnSlice DEF PastBlanks
  <2>2. p < Len(b) /\ ~(e < Len(b))
    BY <1>3 DEF Shown, Broken
  <2>3. e \in x..Len(b) /\ p \in x..Len(b) /\ f \in (o + x)..Len(t)
    BY <1>1, LinesBounded DEF PastBlanks
  <2>4. f >= o + e
    BY <1>1, LineEndIs, PastAllGrows
  <2> HIDE DEF p, e, f
  <2>5. p # e /\ o + p # f
    BY <1>1, <2>2, <2>3, <2>4
  <2> QED BY <2>1, <2>5 DEF BlankToEnd, p, e, f
<1> QED BY <1>2, <1>3

\* The lines below the slice's line are below the text's, and those of the text it has are below its own.
LEMMA BelowOnSlice ==
    ASSUME NEW b, NEW t, NEW o, Slice(b, t, o), NEW end \in 0..Len(b), Shown(b, t, o, end)
    PROVE  /\ \A l \in Below(b, end) : /\ l \in Lines(b, LineEnd(b, end) + 1) /\ PastBlanks(b, l) < Len(b)
                                       /\ o + l \in Below(t, o + end)
           /\ \A x \in Below(t, o + end) : /\ x \in Lines(t, o + (LineEnd(b, end) + 1))
                                           /\ Shown(b, t, o, x - o) /\ x < o + Len(b) => x - o \in Below(b, end)
<1> DEFINE body == LineEnd(b, end) + 1
           bodyT == LineEnd(t, o + end) + 1
<1>1. b \in Seq(Char) /\ t \in Seq(Char) /\ Len(b) \in Nat /\ Len(t) \in Nat /\ o \in Nat /\ o + Len(b) <= Len(t)
  BY DEF Slice
<1>2. body \in Nat /\ bodyT = o + body
  <2>1. LineEnd(t, o + end) = o + LineEnd(b, end) /\ LineEnd(b, end) \in end..Len(b)
    BY <1>1, LineOnSlice, LinesBounded
  <2> QED BY <1>1, <2>1
<1>3. /\ Below(b, end) = { l \in Lines(b, body) : LET first == PastBlanks(b, l)
                                                  IN  first < Len(b) /\ b[first + 1] # NewLine }
      /\ Below(t, o + end) = { l \in Lines(t, bodyT) : LET first == PastBlanks(t, l)
                                                       IN  first < Len(t) /\ t[first + 1] # NewLine }
  BY DEF Below
<1> HIDE DEF body, bodyT
<1>4. ASSUME NEW l \in 0..Len(b), PastBlanks(b, l) < Len(b)
      PROVE  /\ PastBlanks(t, o + l) = o + PastBlanks(b, l) /\ PastBlanks(t, o + l) < Len(t)
             /\ t[PastBlanks(t, o + l) + 1] = b[PastBlanks(b, l) + 1]
  <2> DEFINE p == PastBlanks(b, l)
  <2>1. PastBlanks(t, o + l) = o + p
    BY <1>4, PastAllOnSlice DEF PastBlanks
  <2>2. p \in l..Len(b) /\ p < Len(b)
    BY <1>1, <1>4, LinesBounded DEF PastBlanks
  <2> HIDE DEF p
  <2>3. p + 1 \in 1..Len(b) /\ o + (p + 1) = (o + p) + 1 /\ o + p < Len(t)
    BY <1>1, <2>2
  <2>4. t[(o + p) + 1] = b[p + 1]
    BY <2>3 DEF Slice
  <2> QED BY <2>1, <2>3, <2>4 DEF p
<1>5. ASSUME NEW l \in Below(b, end)
      PROVE  l \in Lines(b, body) /\ PastBlanks(b, l) < Len(b) /\ o + l \in Below(t, o + end)
  <2>1. l \in Lines(b, body) /\ PastBlanks(b, l) < Len(b) /\ b[PastBlanks(b, l) + 1] # NewLine
    BY <1>3
  <2>2. l \in 0..Len(b) /\ o + l \in Lines(t, bodyT)
    BY <1>2, <2>1, LinesOnSlice
  <2>3. PastBlanks(t, o + l) < Len(t) /\ t[PastBlanks(t, o + l) + 1] = b[PastBlanks(b, l) + 1]
    BY <1>4, <2>1, <2>2
  <2> QED BY <1>3, <2>1, <2>2, <2>3
<1>6. ASSUME NEW x \in Below(t, o + end)
      PROVE  /\ x \in Lines(t, o + body)
             /\ Shown(b, t, o, x - o) /\ x < o + Len(b) => x - o \in Below(b, end)
  <2>1. x \in Lines(t, o + body) /\ PastBlanks(t, x) < Len(t) /\ t[PastBlanks(t, x) + 1] # NewLine
    BY <1>2, <1>3
  <2>2. ASSUME Shown(b, t, o, x - o), x < o + Len(b) PROVE x - o \in Below(b, end)
    <3> DEFINE l == x - o
    <3>1. l \in Lines(b, body) /\ o + l = x
      BY <1>2, <2>1, <2>2, LinesOnSlice
    <3> HIDE DEF l
    <3>2. l \in 0..Len(b) /\ Shown(b, t, o, l)
      BY <1>2, <2>2, <3>1, LinesOnSlice DEF l
    <3>3. PastBlanks(t, o + l) = o + PastBlanks(b, l) /\ PastBlanks(b, l) \in Nat
      <4>1. PastBlanks(t, o + l) = o + PastBlanks(b, l)
        BY <3>2, LineOnSlice
      <4>2. PastBlanks(b, l) \in l..Len(b)
        BY <1>1, <3>2, LinesBounded DEF PastBlanks
      <4> QED BY <1>1, <3>2, <4>1, <4>2
    <3>4. PastBlanks(b, l) < Len(b)
      <4>1. CASE Whole(b, t, o)
        BY <1>1, <2>1, <3>1, <3>3, <4>1 DEF Whole
      <4>2. CASE Broken(b, l)
        <5>1. NewLine \notin {Space, Tab, CarriageReturn}
          BY DEF NewLine, Space, Tab, CarriageReturn
        <5>2. PastBlanks(b, l) <= LineEnd(b, l)
          BY <1>1, <3>2, <5>1, PastWithinLine DEF PastBlanks
        <5>3. LineEnd(b, l) \in l..Len(b) /\ LineEnd(b, l) < Len(b)
          BY <1>1, <3>2, <4>2, LinesBounded DEF Broken
        <5> DEFINE p == PastBlanks(b, l)
                   e == LineEnd(b, l)
        <5> HIDE DEF p, e
        <5>4. p < Len(b)
          BY <1>1, <3>2, <3>3, <5>2, <5>3 DEF p, e
        <5> QED BY <5>4 DEF p
      <4> QED BY <3>2, <4>1, <4>2 DEF Shown
    <3>5. t[PastBlanks(t, o + l) + 1] = b[PastBlanks(b, l) + 1]
      BY <1>4, <3>2, <3>4
    <3> QED BY <1>3, <2>1, <3>1, <3>4, <3>5 DEF l
  <2> QED BY <2>1, <2>2
<1> QED BY <1>5, <1>6 DEF body


\* The extent of a token that is decided is the text's.
LEMMA LinesExtentOnSlice ==
    ASSUME NEW b, NEW t, NEW o, Slice(b, t, o), NEW end \in 0..Len(b), NEW p \in Pattern, NEW reference \in Int,
           NEW atEnd \in BOOLEAN, atEnd => Whole(b, t, o),
           LinesExtent(b, end, p, reference, atEnd) # Undecided
    PROVE  LinesInText(t, o + end, p, reference) = o + LinesExtent(b, end, p, reference, atEnd)
<1> SUFFICES LinesExtent(t, o + end, p, reference, TRUE) = o + LinesExtent(b, end, p, reference, atEnd)
  BY DEF LinesInText
<1> DEFINE body     == LineEnd(b, end) + 1
           belowB   == Below(b, end)
           belowT   == Below(t, o + end)
           goesB(l) == LeadingSpaces(b, l) > reference /\ ~MarksDocument(b, l) /\ ReadTo(b, l, p) > l
           goesT(l) == LeadingSpaces(t, l) > reference /\ ~MarksDocument(t, l) /\ ReadTo(t, l, p) > l
           contB    == { l \in belowB : goesB(l) }
           contT    == { l \in belowT : goesT(l) }
           takenB   == { l \in belowB : /\ BlankToEnd(b, end)
                                        /\ \A k \in belowB : k <= l => k \in contB
                                        /\ \A k \in belowB : k < l => BlankToEnd(b, ReadTo(b, k, p)) }
           takenT   == { l \in belowT : /\ BlankToEnd(t, o + end)
                                        /\ \A k \in belowT : k <= l => k \in contT
                                        /\ \A k \in belowT : k < l => BlankToEnd(t, ReadTo(t, k, p)) }
           endsB    == {end} \cup { ReadTo(b, l, p) : l \in takenB }
           endsT    == {o + end} \cup { ReadTo(t, l, p) : l \in takenT }
           reached  == Max(endsB)
           notTaken == {Len(b)} \cup (belowB \ takenB)
           next     == Min(notTaken)
           S(l)     == Shown(b, t, o, l)
<1>1. b \in Seq(Char) /\ t \in Seq(Char) /\ Len(b) \in Nat /\ Len(t) \in Nat /\ o \in Nat /\ o + Len(b) <= Len(t)
  BY DEF Slice
<1>2. /\ LinesExtent(b, end, p, reference, atEnd) = reached
      /\ \/ Whole(b, t, o)
         \/ /\ \A l \in takenB : Broken(b, l)
            /\ PastBlanks(b, reached) < Len(b)
            /\ BlankToEnd(b, reached) => next < Len(b) /\ StopsThere(b, next, reference)
      /\ LinesExtent(t, o + end, p, reference, TRUE) = Max(endsT)
  <2>1. LinesExtent(t, o + end, p, reference, TRUE) = Max(endsT)
    BY DEF LinesExtent
  <2>2. LinesExtent(b, end, p, reference, atEnd)
        = IF \/ atEnd
             \/ /\ \A l \in takenB : Broken(b, l)
                /\ PastBlanks(b, reached) < Len(b)
                /\ BlankToEnd(b, reached) => next < Len(b) /\ StopsThere(b, next, reference)
          THEN reached ELSE Undecided
    BY DEF LinesExtent
  <2> DEFINE settles == /\ \A l \in takenB : Broken(b, l)
                        /\ PastBlanks(b, reached) < Len(b)
                        /\ BlankToEnd(b, reached) => next < Len(b) /\ StopsThere(b, next, reference)
  <2>3. LinesExtent(b, end, p, reference, atEnd) = IF atEnd \/ settles THEN reached ELSE Undecided
    BY <2>2
  <2>4. atEnd => Whole(b, t, o)
    OBVIOUS
  <2> HIDE DEF settles, reached
  <2>5. LinesExtent(b, end, p, reference, atEnd) = reached /\ (atEnd \/ settles)
    BY <2>3
  <2>6. Whole(b, t, o) \/ settles
    BY <2>4, <2>5
  <2> HIDE DEF takenB, endsT, next
  <2>7. settles => /\ \A l \in takenB : Broken(b, l)
                   /\ PastBlanks(b, reached) < Len(b)
                   /\ BlankToEnd(b, reached) => next < Len(b) /\ StopsThere(b, next, reference)
    BY DEF settles
  <2> QED BY <2>1, <2>5, <2>6, <2>7
\* the lines of the slice, and of the text up to its end
<1>3. body \in Nat /\ LineEnd(b, end) \in end..Len(b)
  <2>1. LineEnd(b, end) \in end..Len(b)
    BY <1>1, LinesBounded
  <2> QED BY <1>1, <2>1
<1>4. /\ \A l \in Lines(b, body) : /\ l \in 0..Len(b) /\ l \in Nat /\ l < Len(b) /\ end <= l
                                   /\ o + l \in Lines(t, o + body)
      /\ \A x \in Lines(t, o + body) : /\ x \in Nat
                                       /\ x < o + Len(b) => x - o \in Lines(b, body) /\ o + (x - o) = x
      /\ Whole(b, t, o) => \A x \in Lines(t, o + body) : x < o + Len(b)
  <2>1. /\ \A l \in Lines(b, body) : l \in body..(Len(b) - 1) /\ l \in 0..Len(b) /\ o + l \in Lines(t, o + body)
        /\ \A x \in Lines(t, o + body) : /\ x \in (o + body)..(Len(t) - 1)
                                         /\ x < o + Len(b) => x - o \in Lines(b, body) /\ o + (x - o) = x
        /\ Whole(b, t, o) => \A x \in Lines(t, o + body) : x < o + Len(b)
    BY <1>3, LinesOnSlice
  <2>2. body >= end
    BY <1>1, <1>3
  <2> HIDE DEF body
  <2> QED BY <1>1, <1>3, <2>1, <2>2
<1>5. \A l \in belowB : l \in Lines(b, body) /\ l \in Nat /\ l < Len(b)
  <2>1. \A l \in belowB : l \in Lines(b, body)
    BY DEF Below
  <2> HIDE DEF body, belowB
  <2> QED BY <1>4, <2>1
<1>6. ASSUME NEW l \in Lines(b, body), NEW k \in Lines(b, body), k < l PROVE Broken(b, k) /\ S(k)
  <2>1. Broken(b, k)
    BY <1>1, <1>3, <1>6, LineAbove
  <2> QED BY <2>1 DEF Shown
<1>7. \A l \in takenB : S(l)
  BY <1>2 DEF Shown
<1>8. \A l \in takenB : l \in belowB /\ BlankToEnd(b, end)
  OBVIOUS
<1>9. \A x \in takenT : x \in belowT /\ BlankToEnd(t, o + end)
  OBVIOUS
<1>10. /\ \A l \in endsB : l \in Nat /\ l \in 0..Len(b)
       /\ reached \in endsB /\ \A l \in endsB : l <= reached
  <2>1. ASSUME NEW l \in takenB PROVE ReadTo(b, l, p) \in 0..Len(b)
    <3>1. l \in 0..Len(b)
      BY <1>4, <1>5, <1>8
    <3>2. ReadTo(b, l, p) \in l..Len(b)
      BY <1>1, <3>1, ReadToBounded
    <3> QED BY <1>1, <3>1, <3>2
  <2>2. \A l \in endsB : l \in 0..Len(b) /\ l \in Nat
    <3> HIDE DEF takenB
    <3> QED BY <1>1, <2>1
  <2>3. endsB # {}
    OBVIOUS
  <2> HIDE DEF endsB
  <2>4. Max(endsB) \in endsB /\ \A l \in endsB : Max(endsB) >= l
    BY <1>1, <2>2, <2>3, MaxOfIntegers
  <2>5. \A l \in endsB : l <= Max(endsB)
    BY <2>2, <2>4
  <2> QED BY <2>2, <2>4, <2>5
<1>11. CASE ~BlankToEnd(b, end)
  <2>1. takenB = {}
    BY <1>11
  <2>2. endsB = {end}
    BY <2>1
  <2>3. reached = end
    <3> HIDE DEF reached, endsB
    <3> QED BY <1>10, <2>2
  <2>4. Whole(b, t, o) \/ PastBlanks(b, end) < Len(b)
    BY <1>2, <2>3
  <2>5. ~BlankToEnd(t, o + end)
    BY <1>11, <2>4, BlankToEndOnSlice
  <2>6. endsT = {o + end}
    BY <2>5
  <2> HIDE DEF endsT
  <2>7. Max({o + end}) = o + end
    <3> DEFINE m == o + end
    <3>1. m \in Nat
      BY <1>1
    <3> HIDE DEF m
    <3>2. {m} \in SUBSET (0..m) /\ m \in {m} /\ \A y \in {m} : y <= m
      BY <3>1
    <3>3. Max({m}) = m
      BY <3>1, <3>2, MaxIs
    <3> QED BY <3>3 DEF m
  <2> HIDE DEF reached
  <2> QED BY <1>2, <2>3, <2>6, <2>7
<1>12. CASE BlankToEnd(b, end)
  <2>1. S(end)
    <3>1. CASE ~Whole(b, t, o) /\ reached = end
      <4>1. PastBlanks(b, end) < Len(b)
        BY <1>2, <3>1
      <4> QED BY <1>12, <4>1 DEF BlankToEnd, Shown, Broken
    <3>2. CASE reached # end
      <4> HIDE DEF reached
      <4>1. PICK l \in takenB : TRUE
        BY <1>10, <3>2
      <4>2. l \in Lines(b, body) /\ l \in body..(Len(b) - 1)
        BY <1>5, <1>8 DEF Lines
      <4>3. LineEnd(b, end) < Len(b)
        BY <1>1, <1>3, <4>2
      <4> QED BY <4>3 DEF Shown, Broken
    <3>3. CASE Whole(b, t, o)
      BY <3>3 DEF Shown
    <3> QED BY <3>1, <3>2, <3>3
  <2>2. BlankToEnd(t, o + end)
    BY <1>12, <2>1, LineOnSlice
  <2>3. /\ \A l \in belowB : o + l \in belowT
        /\ \A x \in belowT : /\ x \in Lines(t, o + body)
                             /\ S(x - o) /\ x < o + Len(b) => x - o \in belowB
        /\ \A l \in belowB : PastBlanks(b, l) < Len(b)
    BY <2>1, BelowOnSlice
  <2>4. \A l : l \in takenB <=> /\ l \in belowB
                                /\ \A k \in belowB : k <= l => goesB(k)
                                /\ \A k \in belowB : k < l => BlankToEnd(b, ReadTo(b, k, p))
    BY <1>12
  <2>5. \A x : x \in takenT <=> /\ x \in belowT
                                /\ \A k \in belowT : k <= x => goesT(k)
                                /\ \A k \in belowT : k < x => BlankToEnd(t, ReadTo(t, k, p))
    BY <2>2
  <2> HIDE DEF takenB, takenT, belowB, belowT, next, reached, endsB, endsT
  \* a line the slice has is read as on the text
  <2>6. ASSUME NEW l \in Lines(b, body), S(l)
        PROVE  /\ o + l \in belowT <=> l \in belowB
               /\ goesT(o + l) <=> goesB(l)
               /\ ReadTo(t, o + l, p) = o + ReadTo(b, l, p) /\ ReadTo(b, l, p) \in Nat
               /\ BlankToEnd(t, ReadTo(t, o + l, p)) <=> BlankToEnd(b, ReadTo(b, l, p))
    <3>1. l \in 0..Len(b) /\ l \in Nat /\ l < Len(b)
      BY <1>4
    <3>2. ReadTo(b, l, p) \in l..LineEnd(b, l) /\ ReadTo(t, o + l, p) = o + ReadTo(b, l, p)
      BY <2>6, <3>1, ReadToOnSlice
    <3>3. LineEnd(b, l) \in l..Len(b)
      BY <1>1, <3>1, LinesBounded
    <3>4. ReadTo(b, l, p) \in Nat /\ ReadTo(b, l, p) \in 0..Len(b)
      BY <1>1, <3>1, <3>2, <3>3
    <3>5. o + l \in belowT <=> l \in belowB
      <4>1. (o + l) - o = l /\ o + l < o + Len(b)
        BY <1>1, <3>1
      <4> QED BY <2>3, <2>6, <4>1
    <3>6. Marked(t, o + l) <=> Marked(b, l)
      BY <2>6, <3>1, MarkedOnSlice
    <3>7. LeadingSpaces(t, o + l) = LeadingSpaces(b, l)
      BY <2>6, <3>1, LineOnSlice
    <3>8. ReadTo(t, o + l, p) > o + l <=> ReadTo(b, l, p) > l
      BY <1>1, <3>1, <3>2, <3>4
    <3>9. goesT(o + l) <=> goesB(l)
      BY <3>6, <3>7, <3>8 DEF MarksDocument
    <3>10. S(ReadTo(b, l, p))
      <4>1. CASE Whole(b, t, o)
        BY <4>1 DEF Shown
      <4>2. CASE ~Whole(b, t, o)
        <5>1. Broken(b, l)
          BY <2>6, <4>2 DEF Shown
        <5> QED BY <1>1, <3>1, <3>2, <5>1, BrokenWithin DEF Shown
      <4> QED BY <4>1, <4>2
    <3>11. BlankToEnd(t, o + ReadTo(b, l, p)) <=> BlankToEnd(b, ReadTo(b, l, p))
      BY <3>4, <3>10, LineOnSlice
    <3> QED BY <3>2, <3>4, <3>5, <3>9, <3>11
  \* so it is taken or not as on the text
  <2>7. ASSUME NEW l \in Lines(b, body), S(l) PROVE o + l \in takenT <=> l \in takenB
    <3>1. l \in Nat /\ l < Len(b) /\ \A k \in Lines(b, body) : k \in Nat
      BY <1>4
    <3>2. \A k \in Lines(b, body) : k <= l => S(k)
      BY <1>6, <2>7, <3>1
    <3>3. ASSUME NEW x \in belowT, x <= o + l
          PROVE  x - o \in belowB /\ o + (x - o) = x /\ x - o <= l /\ (x < o + l => x - o < l)
                 /\ x - o \in Lines(b, body)
      <4>1. x \in Lines(t, o + body) /\ x \in Nat
        BY <1>4, <2>3
      <4>2. x < o + Len(b)
        BY <1>1, <3>1, <3>3, <4>1
      <4>3. x - o \in Lines(b, body) /\ o + (x - o) = x
        BY <1>4, <4>1, <4>2
      <4>4. x - o <= l /\ (x < o + l => x - o < l)
        BY <1>1, <3>1, <3>3, <4>1
      <4>5. S(x - o)
        BY <3>2, <4>3, <4>4
      <4> QED BY <2>3, <4>2, <4>3, <4>4, <4>5
    <3>4. ASSUME NEW k \in belowB, k <= l
          PROVE  /\ o + k \in belowT /\ o + k <= o + l /\ (k < l => o + k < o + l)
                 /\ goesT(o + k) <=> goesB(k)
                 /\ BlankToEnd(t, ReadTo(t, o + k, p)) <=> BlankToEnd(b, ReadTo(b, k, p))
      <4>1. k \in Lines(b, body) /\ S(k) /\ k \in Nat
        BY <1>5, <3>2, <3>4
      <4>2. o + k <= o + l /\ (k < l => o + k < o + l)
        BY <1>1, <3>1, <3>4, <4>1
      <4> QED BY <2>3, <2>6, <4>1, <4>2
    <3> HIDE DEF goesB, goesT
    <3>5. ASSUME l \in takenB PROVE o + l \in takenT
      <4>1. o + l \in belowT
        BY <2>3, <2>4, <3>5
      <4>2. ASSUME NEW x \in belowT, x <= o + l PROVE goesT(x) /\ (x < o + l => BlankToEnd(t, ReadTo(t, x, p)))
        <5> DEFINE k == x - o
        <5>1. k \in belowB /\ o + k = x /\ k <= l /\ (x < o + l => k < l)
          BY <3>3, <4>2
        <5> HIDE DEF k
        <5> QED BY <2>4, <3>4, <3>5, <5>1
      <4>3. \A x \in belowT : x < o + l => x <= o + l
        <5>1. \A x \in belowT : x \in Nat
          BY <1>4, <2>3
        <5> QED BY <1>1, <3>1, <5>1
      <4> QED BY <2>5, <4>1, <4>2, <4>3
    <3>6. ASSUME o + l \in takenT PROVE l \in takenB
      <4>1. l \in belowB
        BY <2>5, <2>6, <2>7, <3>6
      <4>2. ASSUME NEW k \in belowB, k <= l PROVE goesB(k) /\ (k < l => BlankToEnd(b, ReadTo(b, k, p)))
        BY <2>5, <3>4, <3>6, <4>2
      <4>3. \A k \in belowB : k < l => k <= l
        BY <1>5, <3>1
      <4> QED BY <2>4, <4>1, <4>2, <4>3
    <3> QED BY <3>5, <3>6
  \* and what is taken on the text is a line the slice has
  <2>8. ASSUME NEW x \in takenT PROVE x - o \in Lines(b, body) /\ o + (x - o) = x /\ S(x - o)
    <3>1. x \in belowT /\ x \in Lines(t, o + body) /\ x \in Nat
      BY <1>4, <2>3, <2>5
    <3>2. CASE Whole(b, t, o)
      BY <1>4, <3>1, <3>2 DEF Shown
    <3>3. CASE ~Whole(b, t, o) /\ ~BlankToEnd(b, reached)
      <4>1. PICK l \in takenB : reached = ReadTo(b, l, p)
        <5>1. reached # end
          BY <1>12, <3>3
        <5> QED BY <1>10, <5>1 DEF endsB
      <4>2. l \in Lines(b, body) /\ l \in Nat /\ l < Len(b) /\ S(l)
        BY <1>5, <1>7, <1>8
      <4>3. o + l \in belowT /\ ~BlankToEnd(t, ReadTo(t, o + l, p))
        BY <1>8, <2>3, <2>6, <3>3, <4>1, <4>2
      <4>4. ~(o + l < x)
        BY <2>5, <4>3
      <4>5. x < o + Len(b)
        BY <1>1, <3>1, <4>2, <4>4
      <4>6. x - o \in Lines(b, body) /\ o + (x - o) = x
        BY <1>4, <3>1, <4>5
      <4>7. x - o = l \/ x - o < l
        BY <1>1, <3>1, <4>2, <4>4
      <4> QED BY <1>6, <4>2, <4>6, <4>7
    <3>4. CASE ~Whole(b, t, o) /\ BlankToEnd(b, reached)
      <4>1. next < Len(b) /\ StopsThere(b, next, reference)
        BY <1>2, <3>4
      <4>2. next \in belowB /\ next \notin takenB
        <5>1. notTaken \in SUBSET Nat /\ notTaken # {}
          BY <1>1, <1>5
        <5>2. next \in notTaken
          BY <5>1, MinOfNaturals DEF next
        <5>3. next # Len(b)
          BY <1>1, <4>1
        <5> QED BY <5>2, <5>3
      <4>3. next \in Lines(b, body) /\ next \in Nat /\ next \in 0..Len(b)
        BY <1>4, <1>5, <4>2
      <4>4. o + next \notin takenT
        <5>1. CASE S(next)
          BY <2>7, <4>2, <4>3, <5>1
        <5>2. CASE ~S(next)
          <6>1. LeadingSpaces(b, next) <= reference \/ (MarksDocument(b, next) /\ next + 3 < Len(b))
            BY <4>1, <5>2 DEF StopsThere, Shown
          <6>2. PastAll(b, next, {Space}) < Len(b)
            <7> DEFINE r == PastAll(b, next, {Space})
                       q == PastAll(b, next, {Space, Tab, CarriageReturn})
            <7>1. q < Len(b)
              BY <2>3, <4>2 DEF PastBlanks
            <7>2. q \in next..Len(b) /\ b[q + 1] \notin {Space, Tab, CarriageReturn}
              BY <1>1, <4>3, <7>1, PastAllIs
            <7>3. r \in next..Len(b) /\ \A y \in next..(r - 1) : b[y + 1] \in {Space}
              BY <1>1, <4>3, PastAllIs
            <7> HIDE DEF r, q
            <7>4. ~(q \in next..(r - 1))
              BY <7>2, <7>3
            <7>5. r < Len(b)
              BY <1>1, <4>3, <7>1, <7>2, <7>3, <7>4
            <7> QED BY <7>5 DEF r
          <6>3. PastAll(t, o + next, {Space}) = o + PastAll(b, next, {Space})
            BY <4>3, <6>2, PastAllOnSlice
          <6>4. LeadingSpaces(t, o + next) = LeadingSpaces(b, next)
            <7> DEFINE r == PastAll(b, next, {Space})
            <7>1. r \in next..Len(b)
              BY <1>1, <4>3, LinesBounded
            <7> HIDE DEF r
            <7>2. (o + r) - (o + next) = r - next
              BY <1>1, <4>3, <7>1
            <7> QED BY <6>3, <7>2 DEF LeadingSpaces, r
          <6>5. MarksDocument(b, next) /\ next + 3 < Len(b) => MarksDocument(t, o + next)
            BY <4>3, <6>4, MarkedOnSlice DEF MarksDocument
          <6>6. LeadingSpaces(b, next) \in Int
            BY <1>1, <4>3, LinesBounded DEF LeadingSpaces
          <6>7. ~goesT(o + next)
            <7>1. CASE MarksDocument(t, o + next)
              BY <7>1
            <7>2. CASE LeadingSpaces(b, next) <= reference
              BY <6>4, <6>6, <7>2
            <7> QED BY <6>1, <6>5, <7>1, <7>2
          <6>8. o + next <= o + next
            BY <1>1, <4>3
          <6> HIDE DEF goesT
          <6> QED BY <2>5, <6>7, <6>8
        <5> QED BY <5>1, <5>2
      <4>5. ~(o + next <= x)
        <5> SUFFICES ASSUME o + next <= x PROVE FALSE
          OBVIOUS
        <5>1. \A k \in belowT : k \in Nat
          BY <1>4, <2>3
        <5>2. \A k \in belowT : (k <= o + next => k <= x) /\ (k < o + next => k < x)
          BY <1>1, <3>1, <4>3, <5>1
        <5>3. o + next \in belowT
          BY <2>3, <4>2
        <5> HIDE DEF goesT
        <5> QED BY <2>5, <4>4, <5>2, <5>3
      <4>6. x < o + Len(b)
        BY <1>1, <3>1, <4>1, <4>3, <4>5
      <4>7. x - o \in Lines(b, body) /\ o + (x - o) = x
        BY <1>4, <3>1, <4>6
      <4>8. x - o < next
        BY <1>1, <3>1, <4>3, <4>5
      <4> QED BY <1>6, <4>3, <4>7, <4>8
    <3> QED BY <3>2, <3>3, <3>4
  \* hence the same lines are taken, and read as far
  <2>9. \A x \in takenT : x - o \in takenB /\ ReadTo(t, x, p) = o + ReadTo(b, x - o, p)
    <3> TAKE x \in takenT
    <3> DEFINE l == x - o
    <3>1. l \in Lines(b, body) /\ o + l = x /\ S(l)
      BY <2>8
    <3> HIDE DEF l
    <3> QED BY <2>6, <2>7, <3>1 DEF l
  <2>10. \A l \in takenB : o + l \in takenT /\ ReadTo(t, o + l, p) = o + ReadTo(b, l, p)
    BY <1>5, <1>7, <1>8, <2>6, <2>7
  <2>11. Max(endsT) = o + reached
    <3>1. ASSUME NEW y \in endsT PROVE y \in 0..(o + reached)
      <4>1. PICK l \in endsB : y = o + l
        BY <2>9 DEF endsB, endsT
      <4> QED BY <1>1, <1>10, <4>1
    <3>2. o + reached \in endsT
      BY <1>10, <2>10 DEF endsB, endsT
    <3>3. o + reached \in Nat
      BY <1>1, <1>10
    <3> DEFINE m == o + reached
    <3> HIDE DEF m
    <3>4. m \in Nat /\ endsT \in SUBSET (0..m) /\ m \in endsT /\ \A y \in endsT : y <= m
      BY <3>1, <3>2, <3>3 DEF m
    <3>5. Max(endsT) = m
      BY <3>4, MaxIs
    <3> QED BY <3>5 DEF m
  <2> QED BY <1>2, <2>11
<1> QED BY <1>11, <1>12

-----------------------------------------------------------------------------
(* An extended match *)

\* What an extension is read against is a column, or the root's -1.
LEMMA ReferenceTyped ==
    ASSUME NEW state, Nests(state.levels, Nat), state.key \in Nat \cup {-1},
           NEW start, start.column - 1 \in Nat, NEW role
    PROVE  IndentReference(role, start, state) \in Int
<1> DEFINE column == start.column - 1
           closed == Closed(state.levels, column)
           top    == IF role = "reset" THEN -1 ELSE Last(closed)
           key    == IF start.line = state.line THEN state.key ELSE -1
<1>1. Nests(closed, Nat)
  <2> HIDE DEF column
  <2> QED BY ClosedNests DEF column
<1>2. closed \in Seq(Int) /\ Len(closed) >= 1 /\ Len(closed) \in Nat
  BY <1>1 DEF Nests
<1>3. top \in Int
  <2>1. closed[Len(closed)] \in Int
    <3> HIDE DEF closed
    <3> QED BY <1>2
  <2> QED BY <2>1 DEF Last
<1>4. column \in Int /\ key \in Int
  OBVIOUS
<1> HIDE DEF top, key, column, closed
<1>5. ASSUME NEW x \in Int, NEW y \in Int PROVE Max({x, y}) \in Int
  <2>1. \E m \in Int, n \in Int : x \in m..n /\ y \in m..n
    <3>1. CASE x <= y
      BY <3>1
    <3>2. CASE y <= x
      BY <3>2
    <3> QED BY <3>1, <3>2
  <2>2. PICK m \in Int, n \in Int : x \in m..n /\ y \in m..n
    BY <2>1
  <2> DEFINE S == {x, y}
  <2>3. (\A z \in S : z \in m..n) /\ S # {}
    BY <2>2
  <2>4. S \subseteq Int
    OBVIOUS
  <2> HIDE DEF S
  <2>5. Max(S) \in S
    BY <2>3, MaxOfIntegers
  <2> QED BY <2>4, <2>5 DEF S
<1>6. Max({top, column}) \in Int /\ Max({top, key}) \in Int
  BY <1>3, <1>4, <1>5
<1>7. IndentReference(role, start, state) \in {Max({top, column}), Max({top, key}), top}
  BY DEF IndentReference, top, key, column, closed
<1> QED BY <1>3, <1>6, <1>7

\* What is read against does not depend on where the slice begins.
LEMMA ReferenceMoved ==
    ASSUME NEW start, NEW o, NEW state, NEW role, NEW offsets, start \in Positions(offsets)
    PROVE  /\ IndentReference(role, Moved(start, o), state) = IndentReference(role, start, state)
           /\ ApplyIndent(role, Moved(start, o), state) = ApplyIndent(role, start, state)
<1>1. Moved(start, o).line = start.line /\ Moved(start, o).column = start.column
  BY DEF Moved, Positions
<1> QED BY <1>1 DEF IndentReference, ApplyIndent

\* How far a match extends in a text that has come whole.
ExtendedInText(rule, mode, t, start, length, state) == Extended(rule, mode, t, start, length, state, TRUE)

\* How far a match extends, once decided, is how far it does in the text.
LEMMA ExtendedOnSlice ==
    ASSUME NEW b, NEW t, NEW o, Slice(b, t, o), NEW rule \in Rule, NEW mode,
           NEW start \in Positions(0..Len(b)), NEW length \in 0..(Len(b) - start.offset), start.column >= 1,
           NEW state, Nests(state.levels, Nat), state.key \in Nat \cup {-1},
           NEW atEnd \in BOOLEAN, atEnd => Whole(b, t, o),
           Extended(rule, mode, b, start, length, state, atEnd) # Undecided
    PROVE  ExtendedInText(rule, mode, t, Moved(start, o), length, state)
             = Extended(rule, mode, b, start, length, state, atEnd)
<1> DEFINE at        == start.offset
           end       == at + length
           reference == IndentReference(rule.indent, start, state)
           match     == SubSeq(b, at + 1, end)
           block     == BlockExtent(b, end, match, reference, atEnd)
           lines     == LinesExtent(b, end, rule.continuation, reference, atEnd)
           extent    == IF rule.extend = "block" THEN block ELSE lines
           blockT    == BlockInText(t, o + end, match, reference)
           linesT    == LinesInText(t, o + end, rule.continuation, reference)
           extentT   == IF rule.extend = "block" THEN blockT ELSE linesT
<1>1. /\ b \in Seq(Char) /\ t \in Seq(Char) /\ Len(b) \in Nat /\ Len(t) \in Nat /\ o \in Nat
      /\ o + Len(b) <= Len(t)
  BY DEF Slice
<1>2. at \in 0..Len(b) /\ start.column \in Nat
  BY DEF Positions
<1>3. end \in 0..Len(b) /\ at \in 0..end /\ at \in Nat /\ end \in Nat /\ start.column - 1 \in Nat
  BY SMTT(20), <1>1, <1>2
<1>4. reference \in Int
  BY <1>3, ReferenceTyped
<1>5. Moved(start, o).offset = o + at /\ IndentReference(rule.indent, Moved(start, o), state) = reference
  <2>1. Moved(start, o).offset = o + at
    BY DEF Moved, Positions
  <2> QED BY <2>1, ReferenceMoved
<1>6. SubSeq(t, o + at + 1, o + end) = match
  <2> DEFINE from == o + at
             to   == o + end
             u    == SubSeq(t, from + 1, to)
  <2>1. to \in 0..Len(t) /\ from \in 0..to /\ to - from = end - at /\ end - at \in Nat
    <3> HIDE DEF at, end
    <3> QED BY <1>1, <1>3
  <2>2. match \in Seq(Char) /\ Len(match) = end - at /\ \A i \in 1..(end - at) : match[i] = b[at + i]
    <3> HIDE DEF at, end
    <3> QED BY <1>1, <1>3, SliceTyped
  <2>3. u \in Seq(Char) /\ Len(u) = to - from /\ \A i \in 1..(to - from) : u[i] = t[from + i]
    <3> HIDE DEF from, to
    <3> QED BY <1>1, <2>1, SliceTyped
  <2>4. \A i \in 1..(end - at) : b[at + i] = t[from + i]
    <3> TAKE i \in 1..(end - at)
    <3>1. at + i \in 1..Len(b) /\ o + (at + i) = from + i
      <4> HIDE DEF at, end
      <4> QED BY <1>1, <1>3
    <3> QED BY <3>1 DEF Slice
  <2> HIDE DEF match, u, at, end, from, to
  <2>5. u = match
    BY <2>1, <2>2, <2>3, <2>4, SameSequence
  <2> QED BY <2>5 DEF u, from, to
<1>7. /\ Extended(rule, mode, b, start, length, state, atEnd)
           = IF ~TakesPart(rule, mode) \/ rule.extend = "none" THEN length ELSE Reach(extent, start)
      /\ ExtendedInText(rule, mode, t, Moved(start, o), length, state)
           = IF ~TakesPart(rule, mode) \/ rule.extend = "none" THEN length ELSE Reach(extentT, Moved(start, o))
  <2>1. (o + at) + length = o + end
    BY <1>1, <1>3
  <2>2. /\ ExtendedInText(rule, mode, t, Moved(start, o), length, state)
           = IF ~TakesPart(rule, mode) \/ rule.extend = "none" THEN length
             ELSE Reach(IF rule.extend = "block"
                        THEN BlockInText(t, (o + at) + length, SubSeq(t, (o + at) + 1, (o + at) + length), reference)
                        ELSE LinesInText(t, (o + at) + length, rule.continuation, reference), Moved(start, o))
    <3> HIDE DEF at, reference
    <3> QED BY <1>5 DEF Extended, ExtendedInText, BlockInText, LinesInText
  <2>3. Extended(rule, mode, b, start, length, state, atEnd)
           = IF ~TakesPart(rule, mode) \/ rule.extend = "none" THEN length ELSE Reach(extent, start)
    BY DEF Extended
  <2> HIDE DEF at, end, reference, match
  <2> QED BY <1>6, <2>1, <2>2, <2>3
<1>8. CASE ~TakesPart(rule, mode) \/ rule.extend = "none"
  BY <1>7, <1>8
<1>9. CASE ~(~TakesPart(rule, mode) \/ rule.extend = "none")
  <2>1. Extended(rule, mode, b, start, length, state, atEnd) = Reach(extent, start) /\ extent # Undecided
    <3> HIDE DEF extent, extentT
    <3> QED BY <1>7, <1>9 DEF Reach
  <2>2. rule.continuation \in Pattern
    BY DEF Rule
  <2>3. extentT = o + extent /\ extent \in end..Len(b)
    <3>1. CASE rule.extend = "block"
      <4>1. block # Undecided
        BY <2>1, <3>1
      <4> HIDE DEF end, reference, match
      <4>2. blockT = o + block
        <5>1. Slice(b, t, o) /\ end \in 0..Len(b) /\ (atEnd => Whole(b, t, o))
          BY <1>3
        <5> HIDE DEF block, blockT
        <5>2. BlockExtent(b, end, match, reference, atEnd) # Undecided
          BY <4>1 DEF block
        <5>3. BlockInText(t, o + end, match, reference) = o + BlockExtent(b, end, match, reference, atEnd)
          BY <5>1, <5>2, BlockExtentOnSlice
        <5> QED BY <5>3 DEF block, blockT
      <4>3. block \in end..Len(b)
        BY <1>1, <1>3, <4>1, BlockExtentBounded
      <4> QED BY <3>1, <4>2, <4>3
    <3>2. CASE rule.extend # "block"
      <4>1. lines # Undecided
        BY <2>1, <3>2
      <4> HIDE DEF end, reference
      <4>2. linesT = o + lines
        <5>1. Slice(b, t, o) /\ end \in 0..Len(b) /\ (atEnd => Whole(b, t, o))
          BY <1>3
        <5> DEFINE p == rule.continuation
        <5>2. LinesExtent(b, end, p, reference, atEnd) # Undecided /\ p \in Pattern
          BY <2>2, <4>1
        <5> HIDE DEF lines, linesT, p
        <5>3. LinesInText(t, o + end, p, reference) = o + LinesExtent(b, end, p, reference, atEnd)
          BY <1>4, <5>1, <5>2, LinesExtentOnSlice
        <5> QED BY <5>3 DEF lines, linesT, p
      <4>3. lines \in end..Len(b)
        BY <1>1, <1>3, <2>2, <4>1, LinesExtentBounded
      <4> QED BY <3>2, <4>2, <4>3
    <3> QED BY <3>1, <3>2
  <2> HIDE DEF extent, extentT
  <2>4. extentT # Undecided /\ extentT - (o + at) = extent - at
    <3>1. extent \in Nat
      BY <1>3, <2>3
    <3> HIDE DEF at
    <3> QED BY <1>1, <1>3, <2>3, <3>1 DEF Undecided
  <2> QED BY <1>5, <1>7, <1>9, <2>1, <2>4 DEF Reach
<1> QED BY <1>8, <1>9

-----------------------------------------------------------------------------
(* The columns and the blocks that an extension is read against *)

\* A column stays past the first.
LEMMA ColumnPositive ==
    ASSUME NEW t \in Seq(Char), NEW pos \in Positions(0..Len(t)), NEW n \in 0..(Len(t) - pos.offset),
           pos.column >= 1
    PROVE  Advance(t, pos, n).column >= 1
<1> DEFINE passed == pos.offset..(pos.offset + n - 1)
           breaks == { o \in passed : t[o + 1] = NewLine }
           onLine == { o \in passed : \A b \in breaks : b < o }
           ones   == { o \in onLine : ColumnStep(t, o) >= 1 }
           twos   == { o \in onLine : ColumnStep(t, o) = 2 }
           start  == IF breaks = {} THEN pos.column ELSE 1
<1>1. pos.offset \in 0..Len(t) /\ pos.column \in Nat /\ Len(t) \in Nat
  BY DEF Positions
<1>2. IsFiniteSet(passed)
  <2>1. pos.offset \in Int /\ pos.offset + n - 1 \in Int
    BY <1>1
  <2> QED BY <2>1, FS_Interval
<1>3. ones \subseteq passed /\ twos \subseteq passed
  OBVIOUS
<1>4. Cardinality(ones) \in Nat /\ Cardinality(twos) \in Nat
  <2> HIDE DEF passed, ones, twos
  <2> QED BY <1>2, <1>3, FS_Subset, FS_CardinalityType
<1>5. Advance(t, pos, n).column = start + Cardinality(ones) + Cardinality(twos)
  BY DEF Advance
<1>6. start \in Nat /\ start >= 1
  BY <1>1
<1> HIDE DEF start, ones, twos
<1>7. start + Cardinality(ones) + Cardinality(twos) >= 1
  <2> DEFINE y == Cardinality(ones)
             z == Cardinality(twos)
  <2>1. y \in Nat /\ z \in Nat
    BY <1>4
  <2> HIDE DEF y, z
  <2>2. start + y + z >= 1
    BY <1>6, <2>1
  <2> QED BY <2>2 DEF y, z
<1> QED BY <1>5, <1>7

\* What an extension is read against has its types: a column from 1, and blocks that nest.
BlocksTyped ==
    /\ cursor.column >= 1 /\ saved.column >= 1
    /\ Nests(indents.levels, Nat)
    /\ indents.key \in Nat \cup {-1}

\* A match leaves the blocks nested.
LEMMA IndentedNests ==
    ASSUME Inductive, BlocksTyped, NEW rule, NEW mode
    PROVE  LET next == Indented(rule, mode, cursor, indents)
           IN  Nests(next.levels, Nat) /\ next.key \in Nat \cup {-1}
<1> DEFINE C == Nat
<1>1. cursor.column - 1 \in C /\ Nests(indents.levels, C) /\ indents.key \in C \cup {-1}
  <2>1. cursor.column \in Nat /\ cursor.column >= 1
    BY TurnStart DEF Positions, BlocksTyped
  <2> QED BY <2>1 DEF BlocksTyped
<1>2. C \in SUBSET Nat
  OBVIOUS
<1> HIDE DEF C
<1>3. LET next == ApplyIndent(rule.indent, cursor, indents)
      IN  Nests(next.levels, C) /\ next.key \in C \cup {-1}
  BY <1>1, <1>2, ApplyNests
<1>4. LET next == Indented(rule, mode, cursor, indents)
      IN  Nests(next.levels, C) /\ next.key \in C \cup {-1}
  <2> DEFINE applied == ApplyIndent(rule.indent, cursor, indents)
  <2>1. Nests(applied.levels, C) /\ applied.key \in C \cup {-1}
    BY <1>3
  <2> HIDE DEF applied
  <2>2. Indented(rule, mode, cursor, indents) \in {applied, indents}
    BY DEF Indented, applied
  <2> QED BY <1>1, <2>1, <2>2
<1> QED BY <1>4 DEF C

\* Where a decided match ends.
LEMMA PastColumn ==
    ASSUME Inductive, BlocksTyped, Turn.meets = "match"
    PROVE  Past(Turn).column >= 1
<1>1. buffer \in Seq(Char) /\ cursor \in Positions(0..Len(buffer)) /\ cursor.column >= 1
      /\ Len(buffer) \in Nat /\ cursor.offset \in 0..Len(buffer)
  BY DEF Inductive, TypeOK, Positions, BlocksTyped
<1> DEFINE n == Turn.munch.len
<1>2. n \in 1..(Len(buffer) - cursor.offset)
  BY TurnBounded DEF At
<1>3. n \in 0..(Len(buffer) - cursor.offset)
  <2> HIDE DEF n
  <2> QED BY <1>1, <1>2
<1>4. Past(Turn) = Advance(buffer, cursor, n)
  BY DEF Past
<1> HIDE DEF n
<1> QED BY <1>1, <1>3, <1>4, ColumnPositive

\* Every step keeps them.
LEMMA NextBlocksTyped == Inductive /\ BlocksTyped /\ [Next]_vars => BlocksTyped'
<1> SUFFICES ASSUME Inductive, BlocksTyped, [Next]_vars PROVE BlocksTyped'
  OBVIOUS
<1>0. /\ cursor \in Positions(0..Len(buffer)) /\ saved \in Positions(0..Len(buffer))
      /\ cursor.column >= 1 /\ saved.column >= 1
      /\ Nests(indents.levels, Nat) /\ indents.key \in Nat \cup {-1}
  BY TurnStart DEF BlocksTyped
<1>1. ASSUME NEW chars, NEW hold, Begin(chars, hold), indents' = indents PROVE BlocksTyped'
  <2>1. cursor' = [cursor EXCEPT !.offset = @ - Dropped] /\ saved' = cursor'
    BY <1>1 DEF Begin
  <2>2. cursor'.column = cursor.column
    BY <1>0, <2>1 DEF Positions
  <2> QED BY <1>0, <1>1, <2>1, <2>2 DEF BlocksTyped
<1>2. CASE \E n \in 0..MaxPiece : Feed(n)
  <2>1. indents' = indents /\ \E chars, hold : Begin(chars, hold)
    BY <1>2 DEF Feed
  <2> QED BY <1>1, <2>1
<1>3. CASE Finish
  <2>1. indents' = indents /\ Begin(tail, 0)
    BY <1>3 DEF Finish
  <2> QED BY <1>1, <2>1
<1>4. ASSUME indents' = indents, cursor' \in {cursor, saved}, saved' = saved PROVE BlocksTyped'
  BY <1>0, <1>4 DEF BlocksTyped
<1>5. CASE Collect
  <2> DEFINE next == Indented(Won(Turn), Mode, cursor, indents)
  <2>0. Nests(next.levels, Nat) /\ next.key \in Nat \cup {-1}
    BY IndentedNests
  <2> HIDE DEF next
  <2>1. CASE Skip(Turn)
    <3>1. Turn.meets = "match" /\ cursor' = Past(Turn) /\ saved' = saved /\ indents' = indents
      BY <2>1 DEF Skip, callVars
    <3> QED BY <1>0, <3>1, PastColumn DEF BlocksTyped
  <2>2. CASE Emit(Turn)
    <3>1. Turn.meets = "match" /\ cursor' = Past(Turn) /\ saved' = Past(Turn) /\ indents' = next
      BY <2>2 DEF Emit, Produce, next
    <3> QED BY <2>0, <3>1, PastColumn DEF BlocksTyped
  <2>3. CASE EmitErrorRun(Turn)
    <3> DEFINE n   == RunStop - At
               end == Advance(buffer, cursor, n)
    <3>1. Turn.meets = "nothing" /\ cursor' = end /\ saved' = end /\ indents' = indents
      BY <2>3 DEF EmitErrorRun, Produce
    <3>2. ~AtEnd
      BY <3>1, TurnBounded
    <3>3. RunStop \in (At + 1)..Len(buffer) /\ Len(buffer) \in Nat /\ At \in 0..Len(buffer) /\ At = cursor.offset
      BY <3>2, RunStopBounded, BufferWithinText DEF At
    <3>4. n \in 0..(Len(buffer) - cursor.offset)
      BY <3>3
    <3> HIDE DEF n
    <3>5. buffer \in Seq(Char)
      BY DEF Inductive, TypeOK
    <3>6. end.column >= 1
      BY <1>0, <3>4, <3>5, ColumnPositive
    <3> HIDE DEF end
    <3> QED BY <1>0, <3>1, <3>6 DEF BlocksTyped
  <2>4. CASE Wait(Turn) \/ WaitInRun(Turn) \/ WaitOpen(Turn)
    <3>1. Pending
      BY <2>4, Zenon DEF Wait, WaitInRun, WaitOpen
    <3> QED BY <1>4, <3>1 DEF Pending
  <2>5. CASE NoRule(Turn) \/ ZeroLength(Turn) \/ Unterminated(Turn)
    <3>1. (\E kind, where : Fail(kind, where)) /\ cursor' = cursor /\ indents' = indents
      BY <2>5, Zenon DEF NoRule, ZeroLength, Unterminated
    <3> QED BY <1>4, <3>1 DEF Fail
  <2>6. CASE BadTransition(Turn)
    <3>1. Turn.meets = "match" /\ cursor' = Past(Turn) /\ saved' = saved /\ indents' = next
      BY <2>6 DEF BadTransition, Fail, next
    <3> QED BY <1>0, <2>0, <3>1, PastColumn DEF BlocksTyped
  <2>7. CASE EmitUnterminated(Turn)
    <3>1. cursor' = cursor /\ saved' = cursor /\ indents' = indents
      BY <2>7 DEF EmitUnterminated, Produce
    <3> QED BY <1>0, <3>1 DEF BlocksTyped
  <2>8. CASE End(Turn)
    <3>1. cursor' = cursor /\ saved' = saved /\ indents' = indents
      BY <2>8 DEF End, scanVars
    <3> QED BY <1>4, <3>1
  <2> QED BY <1>5, <2>1, <2>2, <2>3, <2>4, <2>5, <2>6, <2>7, <2>8 DEF Collect
<1>6. CASE UNCHANGED vars
  BY <1>4, <1>6 DEF vars, scanVars, callVars
<1> QED BY <1>2, <1>3, <1>5, <1>6 DEF Next

\* A scan begins at column 1, in no block.
LEMMA InitBlocksTyped == Init => BlocksTyped
<1> SUFFICES ASSUME Init PROVE BlocksTyped
  OBVIOUS
<1>1. cursor.column = 1 /\ saved.column = 1 /\ indents.levels = <<-1>> /\ indents.key = -1
  BY DEF Init, Beginning, NoBlocks
<1> DEFINE root == <<-1>>
<1>2. root \in Seq(Int) /\ Len(root) = 1 /\ root[1] = -1 /\ 2..1 = {}
  OBVIOUS
<1> HIDE DEF root
<1>3. Nests(root, Nat)
  BY <1>2 DEF Nests
<1> QED BY <1>1, <1>3 DEF BlocksTyped, root

\* A stream keeps them.
LEMMA BlocksAlwaysTyped == Safety => []BlocksTyped
<1> QED BY InitBlocksTyped, NextBlocksTyped, StreamInductive, PTL DEF Safety

-----------------------------------------------------------------------------
(* What a turn decides, on the text *)

\* A position in the buffer, in the text: nothing is lost modulo Word.
LEMMA InTextMoves ==
    ASSUME Inductive, NEW pos \in Positions(0..Len(buffer))
    PROVE  /\ InText(pos) = Moved(pos, base)
           /\ InText(pos).offset = base + pos.offset
           /\ InText(pos).line = pos.line /\ InText(pos).column = pos.column
           /\ base + pos.offset \in 0..Len(text)
<1>1. /\ base \in Nat /\ Len(buffer) \in Nat /\ Len(text) \in Nat /\ base + Len(buffer) <= Len(text)
  BY BufferSlice
<1>2. Len(text) < Word /\ Word \in Nat
  BY StreamAssumption DEF Inductive, TypeOK
<1> DEFINE n == pos.offset
<1>3. n \in 0..Len(buffer) /\ pos = [offset |-> n, line |-> pos.line, column |-> pos.column]
  BY DEF Positions
<1> HIDE DEF n
<1>4. base + n \in 0..Len(text) /\ (n + base) % Word = base + n
  <2>1. base + n \in 0..Len(text) /\ base + n \in 0..(Word - 1) /\ n + base = base + n
    BY <1>1, <1>2, <1>3
  <2> DEFINE a == base + n
  <2>2. a \in 0..(Word - 1)
    BY <2>1
  <2> HIDE DEF a
  <2>3. a % Word = a
    BY <1>2, <2>2
  <2> QED BY <2>1, <2>3 DEF a
<1> DEFINE o == base + n
<1>5. InText(pos) = [pos EXCEPT !.offset = o] /\ Moved(pos, base) = [pos EXCEPT !.offset = o]
  BY <1>4 DEF InText, Moved, n
<1> HIDE DEF o
<1>6. [pos EXCEPT !.offset = o] = [offset |-> o, line |-> pos.line, column |-> pos.column]
  BY <1>3
<1> QED BY <1>4, <1>5, <1>6 DEF o, n

\* The munch a scan of the text makes in a mode at an offset.
TextMunch(mode, at) == MunchAt(UnitOf(mode, previous, text, at), text, at)

\* A decided munch of the buffer is the text's.
LEMMA MunchOnText ==
    ASSUME Inductive, BufferServes, NEW mode, NEW at \in 0..(Len(buffer) - 1), HasContext(base, at),
           NEW unit, unit = UnitOf(mode, previous, buffer, at),
           final \/ (Ready(unit, buffer, at) /\ ~Open(unit, buffer, at))
    PROVE  TextMunch(mode, base + at) = MunchAt(unit, buffer, at)
<1>1. Slice(buffer, text, base) /\ rules \in Grammars /\ at \in 0..Len(buffer)
  BY BufferSlice, TurnStart
<1>2. UnitOf(mode, previous, text, base + at) = unit
  BY <1>1, UnitOnSlice
<1>3. unit.rules \subseteq RuleIds
  BY UnitOfRules
<1>4. Whole(buffer, text, base) \/ (Ready(unit, buffer, at) /\ ~Open(unit, buffer, at))
  BY DEF BufferServes
<1>5. MunchAt(unit, text, base + at) = MunchAt(unit, buffer, at)
  BY <1>1, <1>3, <1>4, MunchDecided
<1> QED BY <1>2, <1>5 DEF TextMunch

\* A turn that is neither at the end nor waiting has made the text's munch.
LEMMA TurnOnText ==
    ASSUME Inductive, BufferServes, ~AtEnd,
           ~(~final /\ ~Ready(Unit, buffer, At)), ~(~final /\ MunchOpen)
    PROVE  MunchHere = TextMunch(Mode, base + At)
<1>1. HasContext(base, At) /\ At \in 0..Len(buffer) /\ Len(buffer) \in Nat
  BY TurnServed, BufferSlice
<1>2. At \in 0..(Len(buffer) - 1)
  BY <1>1 DEF AtEnd
<1>3. MunchOpen = Open(Unit, buffer, At) /\ MunchHere = MunchAt(Unit, buffer, At)
  <2>1. CASE Resumes
    BY <2>1, ResumedIsFresh DEF ResumedMunchIsFresh
  <2>2. CASE ~Resumes
    BY <2>2 DEF MunchOpen, MunchHere
  <2> QED BY <2>1, <2>2
<1> DEFINE unit == Unit
<1>4. unit = UnitOf(Mode, previous, buffer, At)
  BY DEF Unit
<1> HIDE DEF unit
<1>5. final \/ (Ready(unit, buffer, At) /\ ~Open(unit, buffer, At))
  BY <1>3 DEF unit
<1>6. TextMunch(Mode, base + At) = MunchAt(unit, buffer, At)
  BY <1>1, <1>2, <1>4, <1>5, MunchOnText
<1> QED BY <1>3, <1>6 DEF unit

\* What a turn that decides meets, on the text.
LEMMA MeetsOnText ==
    ASSUME Inductive, BufferServes, BlocksTyped
    PROVE  LET m == TextMunch(Mode, base + At)
               length == ExtendedInText(rules[m.idx], Mode, text, InText(cursor), m.len, indents)
           IN  /\ Turn.meets = "end" /\ final => base + At = Len(text)
               /\ Turn.meets \in {"nothing", "empty", "match"} => base + At # Len(text)
               /\ Turn.meets = "nothing" => ~m.have
               /\ Turn.meets = "empty" => m.have /\ m.len = 0
               /\ Turn.meets = "match" => m.have /\ m.len # 0 /\ Turn.munch = [m EXCEPT !.len = length]
<1> DEFINE m      == TextMunch(Mode, base + At)
           length == ExtendedInText(rules[m.idx], Mode, text, InText(cursor), m.len, indents)
           here   == Extended(rules[MunchHere.idx], Mode, buffer, cursor, MunchHere.len, indents, final)
           won    == [ meets |-> IF here = Undecided THEN "undecided" ELSE "match",
                       munch |-> [MunchHere EXCEPT !.len = here] ]
<1>0. /\ base \in Nat /\ Len(buffer) \in Nat /\ Len(text) \in Nat /\ base + Len(buffer) <= Len(text)
      /\ At \in 0..Len(buffer) /\ cursor.offset = At /\ cursor \in Positions(0..Len(buffer))
  BY BufferSlice, TurnServed, TurnStart DEF At
<1>1. \/ AtEnd /\ Turn.meets = "end"
      \/ ~AtEnd /\ Turn.meets \in {"not ready", "open"}
      \/ /\ ~AtEnd /\ ~(~final /\ ~Ready(Unit, buffer, At)) /\ ~(~final /\ MunchOpen)
         /\ \/ ~MunchHere.have /\ Turn.meets = "nothing"
            \/ MunchHere.have /\ MunchHere.len = 0 /\ Turn.meets = "empty"
            \/ MunchHere.have /\ MunchHere.len # 0 /\ Turn = won
  BY DEF Turn
<1>2. Turn.meets = "end" /\ final => base + At = Len(text)
  <2>1. Turn.meets = "end" /\ final => AtEnd /\ Whole(buffer, text, base)
    BY TurnBounded DEF BufferServes
  <2> QED BY <2>1 DEF AtEnd, Whole
<1>3. ~AtEnd => base + At # Len(text)
  BY <1>0 DEF AtEnd
<1>4. CASE AtEnd /\ Turn.meets = "end"
  BY <1>2, <1>4
<1>5. CASE ~AtEnd /\ Turn.meets \in {"not ready", "open"}
  BY <1>5
<1>6. CASE /\ ~AtEnd /\ ~(~final /\ ~Ready(Unit, buffer, At)) /\ ~(~final /\ MunchOpen)
           /\ \/ ~MunchHere.have /\ Turn.meets = "nothing"
              \/ MunchHere.have /\ MunchHere.len = 0 /\ Turn.meets = "empty"
              \/ MunchHere.have /\ MunchHere.len # 0 /\ Turn = won
  <2>1. MunchHere = m
    BY <1>6, TurnOnText
  <2> HIDE DEF m
  <2>2. CASE ~MunchHere.have /\ Turn.meets = "nothing"
    BY <1>3, <1>6, <2>1, <2>2 DEF m
  <2>3. CASE MunchHere.have /\ MunchHere.len = 0 /\ Turn.meets = "empty"
    BY <1>3, <1>6, <2>1, <2>3 DEF m
  <2>4. CASE MunchHere.have /\ MunchHere.len # 0 /\ Turn = won
    <3>1. won.meets = "match" => here # Undecided
      <4> HIDE DEF here
      <4> QED OBVIOUS
    <3>2. ASSUME here # Undecided PROVE length = here
      <4> DEFINE rule == rules[m.idx]
                 n    == m.len
      <4>1. rule \in Rule /\ n \in 0..(Len(buffer) - cursor.offset)
        <5>1. m.len \in 0..(Len(buffer) - At) /\ m.idx \in RuleIds /\ rules \in Grammars
          BY <2>1, <2>4, MunchHereBounded, TurnStart
        <5> QED BY <1>0, <5>1, RulesTyped
      <4>2. Extended(rule, Mode, buffer, cursor, n, indents, final) # Undecided
        BY <2>1, <3>2
      <4> HIDE DEF rule, n, here
      <4>3. /\ Slice(buffer, text, base) /\ (final => Whole(buffer, text, base)) /\ final \in BOOLEAN
            /\ cursor.column >= 1 /\ Nests(indents.levels, Nat) /\ indents.key \in Nat \cup {-1}
        BY BufferSlice, TurnStart DEF BufferServes, BlocksTyped
      <4>4. ExtendedInText(rule, Mode, text, Moved(cursor, base), n, indents)
              = Extended(rule, Mode, buffer, cursor, n, indents, final)
        BY <1>0, <4>1, <4>2, <4>3, ExtendedOnSlice
      <4>5. InText(cursor) = Moved(cursor, base)
        BY <1>0, InTextMoves
      <4> QED BY <2>1, <4>4, <4>5 DEF rule, n, here
    <3>3. won.munch = [m EXCEPT !.len = here]
      BY <2>1
    <3> HIDE DEF won, here, length
    <3>4. Turn.meets = "match" => Turn.munch = [m EXCEPT !.len = length]
      BY <2>4, <3>1, <3>2, <3>3
    <3>5. Turn.meets \in {"match", "undecided"}
      BY <2>4 DEF won
    <3>6. base + At # Len(text) /\ m.have /\ m.len # 0
      BY <1>3, <1>6, <2>1, <2>4
    <3> QED BY <3>4, <3>5, <3>6 DEF m, length
  <2> QED BY <1>6, <2>2, <2>3, <2>4
<1> QED BY <1>1, <1>4, <1>5, <1>6

\* Past the same characters, the text is at the same place.
LEMMA PastOnText ==
    ASSUME Inductive, BufferServes, NEW n \in 0..(Len(buffer) - cursor.offset)
    PROVE  /\ Advance(buffer, cursor, n) \in Positions(0..Len(buffer))
           /\ Advance(buffer, cursor, n).offset = cursor.offset + n
           /\ InText(Advance(buffer, cursor, n)) = Advance(text, InText(cursor), n)
<1>1. /\ Slice(buffer, text, base) /\ cursor \in Positions(0..Len(buffer))
      /\ (Columns # "bytes" => Settled(buffer, text, base)) /\ ColumnContext(base, cursor.offset)
      /\ buffer \in Seq(Char)
  BY TurnServed, TurnStart DEF BufferServes, At, Slice
<1>2. /\ Advance(buffer, cursor, n) \in Positions(0..Len(buffer))
      /\ Advance(buffer, cursor, n).offset = cursor.offset + n
  BY <1>1, AdvanceTyped
<1>3. Advance(text, Moved(cursor, base), n) = Moved(Advance(buffer, cursor, n), base)
  BY <1>1, AdvanceOnSlice
<1> QED BY <1>1, <1>2, <1>3, InTextMoves

\* What is between two places of the buffer is between them in the text.
LEMMA LexemeOnText ==
    ASSUME Inductive, NEW from \in 0..Len(buffer), NEW to \in from..Len(buffer)
    PROVE  SubSeq(text, base + from + 1, base + to) = SubSeq(buffer, from + 1, to)
<1> DEFINE fromT == base + from
           toT   == base + to
           s     == SubSeq(buffer, from + 1, to)
           u     == SubSeq(text, fromT + 1, toT)
<1>1. /\ Slice(buffer, text, base) /\ base \in Nat /\ Len(buffer) \in Nat /\ Len(text) \in Nat
      /\ base + Len(buffer) <= Len(text) /\ text \in Seq(Char) /\ buffer \in Seq(Char)
  BY BufferSlice DEF Slice
<1>2. toT \in 0..Len(text) /\ fromT \in 0..toT /\ toT - fromT = to - from /\ to - from \in Nat
  BY <1>1
<1>3. to \in 0..Len(buffer) /\ from \in 0..to
  BY <1>1
<1>4. s \in Seq(Char) /\ Len(s) = to - from /\ \A i \in 1..(to - from) : s[i] = buffer[from + i]
  BY <1>1, <1>3, SliceTyped
<1>5. u \in Seq(Char) /\ Len(u) = toT - fromT /\ \A i \in 1..(toT - fromT) : u[i] = text[fromT + i]
  <2> HIDE DEF fromT, toT
  <2> QED BY <1>1, <1>2, SliceTyped
<1>6. \A i \in 1..(to - from) : buffer[from + i] = text[fromT + i]
  <2> TAKE i \in 1..(to - from)
  <2>1. from + i \in 1..Len(buffer) /\ base + (from + i) = fromT + i
    BY <1>1, <1>3
  <2> QED BY <1>1, <2>1 DEF Slice
<1> HIDE DEF s, u, fromT, toT
<1>7. u = s
  BY <1>2, <1>4, <1>5, <1>6, SameSequence
<1> QED BY <1>7 DEF s, u, fromT, toT

\* Where an error run that begins before offset from ends, in the text.
TextRunEnd(mode, from) ==
    Min({Len(text)} \cup { at \in (from + 1)..(Len(text) - 1) :
                              /\ MayStart(UnitOf(mode, previous, text, at), text[at + 1])
                              /\ TextMunch(mode, at).len > 0 })

\* A probe that does not wait is the text's.
LEMMA ProbeOnText ==
    ASSUME Inductive, BufferServes, NEW at \in (At + 1)..(Len(buffer) - 1), ~RunWaits(at)
    PROVE  RunEnds(at) <=> /\ MayStart(UnitOf(Mode, previous, text, base + at), text[base + at + 1])
                           /\ TextMunch(Mode, base + at).len > 0
<1>1. /\ HasContext(base, At) /\ Slice(buffer, text, base) /\ At \in Nat /\ Len(buffer) \in Nat
      /\ base \in Nat /\ ContextKept \in Int
  BY TurnServed, BufferSlice, ContextEnough
<1>2. at \in 0..(Len(buffer) - 1) /\ at \in 0..Len(buffer) /\ at + 1 \in 1..Len(buffer)
      /\ base + (at + 1) = base + at + 1
  BY <1>1
<1>3. HasContext(base, at)
  BY <1>1 DEF HasContext
<1> DEFINE unit == ProbeUnit(at)
<1>4. unit = UnitOf(Mode, previous, buffer, at)
  BY DEF ProbeUnit
<1> HIDE DEF unit
<1>5. UnitOf(Mode, previous, text, base + at) = unit
  BY <1>1, <1>2, <1>3, <1>4, UnitOnSlice
<1>6. text[base + at + 1] = buffer[at + 1]
  BY <1>1, <1>2 DEF Slice
<1>7. RunEnds(at) <=> MayStart(unit, buffer[at + 1]) /\ MunchAt(unit, buffer, at).len > 0
  BY DEF RunEnds, unit
<1>8. final \/ (Ready(unit, buffer, at) /\ (~MayStart(unit, buffer[at + 1]) \/ ~Open(unit, buffer, at)))
  BY DEF RunWaits, unit
<1>9. CASE ~MayStart(unit, buffer[at + 1])
  BY <1>5, <1>6, <1>7, <1>9
<1>10. CASE MayStart(unit, buffer[at + 1])
  <2>1. final \/ (Ready(unit, buffer, at) /\ ~Open(unit, buffer, at))
    BY <1>8, <1>10
  <2>2. TextMunch(Mode, base + at) = MunchAt(unit, buffer, at)
    BY <1>2, <1>3, <1>4, <2>1, MunchOnText
  <2> QED BY <1>5, <1>6, <1>7, <2>2
<1> QED BY <1>9, <1>10

\* A decided error run ends where the text's does.
LEMMA RunOnText ==
    ASSUME Inductive, BufferServes, ~AtEnd, RunDecided(RunStop)
    PROVE  TextRunEnd(Mode, base + At) = base + RunStop
<1> DEFINE n      == Len(buffer)
           S      == { at \in (At + 1)..(n - 1) : RunWaits(at) \/ RunEnds(at) }
           E(at)  == /\ MayStart(UnitOf(Mode, previous, text, at), text[at + 1])
                     /\ TextMunch(Mode, at).len > 0
           T      == { at \in (base + At + 1)..(Len(text) - 1) : E(at) }
           stop   == RunStop
<1>1. /\ base \in Nat /\ n \in Nat /\ Len(text) \in Nat /\ base + n <= Len(text) /\ At \in 0..n
  BY TurnServed, BufferSlice
<1>2. stop \in (At + 1)..n
  BY RunStopBounded
<1>3. stop \in {n} \cup S /\ \A at \in {n} \cup S : stop <= at
  <2>1. \A o \in S : o \in (At + 1)..n
    BY <1>1
  <2> DEFINE R == {n} \cup S
  <2>2. R \in SUBSET Nat /\ R # {}
    BY <1>1, <2>1
  <2>3. stop = Min(R)
    BY DEF RunStop
  <2> HIDE DEF R, S, stop
  <2>4. stop \in R /\ \A at \in R : stop <= at
    BY <2>2, <2>3, MinOfNaturals
  <2> QED BY <2>4 DEF R
<1>4. \A at \in (At + 1)..(n - 1) : ~RunWaits(at) => (RunEnds(at) <=> E(base + at))
  <2> TAKE at \in (At + 1)..(n - 1)
  <2> HAVE ~RunWaits(at)
  <2> QED BY ProbeOnText
<1>5. IF stop = n THEN final ELSE ~RunWaits(stop)
  BY DEF RunDecided
<1>6. TextRunEnd(Mode, base + At) = Min({Len(text)} \cup T)
  BY DEF TextRunEnd
<1> HIDE DEF E, n
<1>7. \A at \in (At + 1)..(stop - 1) : at \in (At + 1)..(n - 1) /\ at \notin S
  BY <1>1, <1>2, <1>3
<1>8. \A at \in (At + 1)..(stop - 1) : ~E(base + at)
  BY <1>4, <1>7
<1>9. \A x \in T : base + stop <= x
  <2> TAKE x \in T
  <2> DEFINE at == x - base
  <2>1. at \in Int /\ at >= At + 1 /\ x = base + at /\ E(x) /\ x \in Int
    BY <1>1
  <2>2. at < stop => at \in (At + 1)..(stop - 1)
    <3> HIDE DEF at
    <3> QED BY <1>1, <1>2, <2>1
  <2> HIDE DEF at
  <2>3. ~(at < stop)
    BY <1>8, <2>1, <2>2
  <2> QED BY <1>1, <1>2, <2>1, <2>3
<1>10. base + stop \in {Len(text)} \cup T
  <2>1. CASE stop = n
    <3>1. Whole(buffer, text, base)
      BY <1>5, <2>1 DEF BufferServes
    <3> QED BY <2>1, <3>1 DEF Whole, n
  <2>2. CASE stop # n
    <3>1. stop \in S /\ ~RunWaits(stop) /\ stop \in (At + 1)..(n - 1)
      BY <1>3, <1>5, <2>2
    <3>2. E(base + stop)
      BY <1>4, <3>1
    <3>3. base + stop \in (base + At + 1)..(Len(text) - 1)
      <4> HIDE DEF stop
      <4> QED BY <1>1, <3>1
    <3> QED BY <3>2, <3>3
  <2> QED BY <2>1, <2>2
<1>11. base + stop <= Len(text)
  BY <1>1, <1>2
<1> DEFINE U == {Len(text)} \cup T
           a == base + stop
<1>12. a \in U /\ \A x \in U : a <= x
  BY <1>9, <1>10, <1>11
<1>13. U \in SUBSET Nat
  BY <1>1
<1>14. Min(U) = a
  <2> HIDE DEF U, a
  <2>1. Min(U) \in U /\ \A x \in U : Min(U) <= x
    BY <1>12, <1>13, MinOfNaturals
  <2>2. Min(U) \in Nat /\ a \in Nat /\ Min(U) <= a /\ a <= Min(U)
    BY <1>12, <1>13, <2>1
  <2> QED BY <2>2
<1> QED BY <1>6, <1>14

-----------------------------------------------------------------------------
(***************************************************************************)
(* tokenize and the stream share the operators of Scanner: what each is in *)
(* the instance of Lexer is what it is here.                               *)
(***************************************************************************)

\* The library's operators.
LEMMA SameLibrary ==
    /\ \A S : Tokenize!Max(S) = Max(S) /\ Tokenize!Min(S) = Min(S)
    /\ \A s : Tokenize!Last(s) = Last(s) /\ Tokenize!Front(s) = Front(s)
BY DEF Tokenize!Max, Max, Tokenize!Min, Min, Tokenize!Last, Last, Tokenize!Front, Front

\* How many there are.
LEMMA SameCardinality == \A S : Tokenize!Cardinality(S) = Cardinality(S)
BY DEF Tokenize!Cardinality, Cardinality

\* The lengths a pattern matches.
LEMMA SameLengths ==
    /\ \A alt, t, at : Tokenize!Lengths(alt, t, at) = Lengths(alt, t, at)
    /\ \A p, t, at : Tokenize!Admits(p, t, at) = Admits(p, t, at)
    /\ \A p, t, at : Tokenize!Matching(p, t, at) = Matching(p, t, at)
    /\ \A p : Tokenize!Nullable(p) = Nullable(p)
    /\ \A p : Tokenize!LeftContext(p) = LeftContext(p)
<1>1. \A alt, t, at : Tokenize!Lengths(alt, t, at) = Lengths(alt, t, at)
  BY DEF Tokenize!Lengths, Lengths, Tokenize!Spells, Spells
<1>2. \A p, t, at : Tokenize!Admits(p, t, at) = Admits(p, t, at)
  BY DEF Tokenize!Admits, Admits, Tokenize!Start, Start
<1>3. \A p, t, at : Tokenize!Matching(p, t, at) = Matching(p, t, at)
  BY DEF Tokenize!Matching, Matching, Tokenize!Lengths, Lengths, Tokenize!Spells, Spells
<1>4. \A p : Tokenize!Nullable(p) = Nullable(p)
  BY DEF Tokenize!Nullable, Nullable
<1>5. \A p : Tokenize!LeftContext(p) = LeftContext(p)
  BY DEF Tokenize!LeftContext, LeftContext
<1> QED BY <1>1, <1>2, <1>3, <1>4, <1>5

\* The characters a match may begin with.
LEMMA SameFirstChars == \A p : Tokenize!FirstChars(p) = FirstChars(p)
BY DEF Tokenize!FirstChars, FirstChars

\* The match of a pattern, and its longest.
LEMMA SameMatch ==
    /\ \A p, t, at : Tokenize!MatchLength(p, t, at) = MatchLength(p, t, at)
    /\ \A p, t, at : Tokenize!LongestLength(p, t, at) = LongestLength(p, t, at)
<1>1. \A p, t, at : Tokenize!MatchLength(p, t, at) = MatchLength(p, t, at)
  BY SameLibrary, SameLengths DEF Tokenize!MatchLength, MatchLength, Tokenize!NoMatch, NoMatch
<1>2. \A p, t, at : Tokenize!LongestLength(p, t, at) = LongestLength(p, t, at)
  BY SameLibrary, SameLengths DEF Tokenize!LongestLength, LongestLength, Tokenize!NoMatch, NoMatch
<1> QED BY <1>1, <1>2

\* The lines of a text.
LEMMA SameLines ==
    /\ \A t, at, blanks : Tokenize!PastAll(t, at, blanks) = PastAll(t, at, blanks)
    /\ \A t, at : Tokenize!LeadingSpaces(t, at) = LeadingSpaces(t, at)
    /\ \A t, at : Tokenize!PastBlanks(t, at) = PastBlanks(t, at)
    /\ \A t, at : Tokenize!LineEnd(t, at) = LineEnd(t, at)
    /\ \A t, at : Tokenize!Broken(t, at) = Broken(t, at)
    /\ \A t, at : Tokenize!Lines(t, at) = Lines(t, at)
    /\ \A t, at : Tokenize!Blank(t, at) = Blank(t, at)
    /\ \A t, at : Tokenize!BlankToEnd(t, at) = BlankToEnd(t, at)
<1>1. \A t, at, blanks : Tokenize!PastAll(t, at, blanks) = PastAll(t, at, blanks)
  BY SameLibrary DEF Tokenize!PastAll, PastAll
<1>2. \A t, at : Tokenize!LeadingSpaces(t, at) = LeadingSpaces(t, at)
  BY <1>1 DEF Tokenize!LeadingSpaces, LeadingSpaces, Tokenize!Space, Space
<1>3. \A t, at : Tokenize!PastBlanks(t, at) = PastBlanks(t, at)
  BY <1>1 DEF Tokenize!PastBlanks, PastBlanks, Tokenize!Space, Space, Tokenize!Tab, Tab,
              Tokenize!CarriageReturn, CarriageReturn
<1>4. \A t, at : Tokenize!LineEnd(t, at) = LineEnd(t, at)
  BY SameLibrary DEF Tokenize!LineEnd, LineEnd, Tokenize!NewLine, NewLine
<1>5. \A t, at : Tokenize!Broken(t, at) = Broken(t, at)
  BY <1>4 DEF Tokenize!Broken, Broken
<1>6. \A t, at : Tokenize!Lines(t, at) = Lines(t, at)
  BY DEF Tokenize!Lines, Lines, Tokenize!NewLine, NewLine
<1>7. \A t, at : Tokenize!Blank(t, at) = Blank(t, at)
  BY <1>1, <1>4 DEF Tokenize!Blank, Blank, Tokenize!Space, Space, Tokenize!CarriageReturn, CarriageReturn
<1>8. \A t, at : Tokenize!BlankToEnd(t, at) = BlankToEnd(t, at)
  BY <1>3, <1>4 DEF Tokenize!BlankToEnd, BlankToEnd
<1> QED BY <1>1, <1>2, <1>3, <1>4, <1>5, <1>6, <1>7, <1>8

\* The extent of a block.
LEMMA SameBlock ==
    \A t, end, match, reference : Tokenize!BlockExtent(t, end, match, reference, TRUE)
                                    = BlockInText(t, end, match, reference)
<1>1. \A t, body, match, reference : Tokenize!BlockContent(t, body, match, reference)
                                       = BlockContent(t, body, match, reference)
  <2> TAKE t, body, match, reference
  <2> DEFINE least   == Max({reference + 1, 1})
             digits  == { i \in DOMAIN match : match[i] \in { Digits[d] : d \in DOMAIN Digits } }
             first   == match[Min(digits)]
             digit   == CHOOSE d \in DOMAIN Digits : Digits[d] = first
             blanks  == { l \in Lines(t, body) : \A k \in Lines(t, body) : k < l => Blank(t, k) }
             firstT  == match[Tokenize!Min(digits)]
             digitT  == CHOOSE d \in DOMAIN Digits : Digits[d] = firstT
             blanksT == { l \in Tokenize!Lines(t, body) :
                            \A k \in Tokenize!Lines(t, body) : k < l => Tokenize!Blank(t, k) }
             spaces  == { LeadingSpaces(t, l) : l \in blanks }
             spacesT == { Tokenize!LeadingSpaces(t, l) : l \in blanksT }
             leastT  == Tokenize!Max({reference + 1, 1})
  <2>1. leastT = least /\ firstT = first /\ Tokenize!Digits = Digits
    BY SameLibrary DEF Tokenize!Digits, Digits
  <2>2. digitT = digit
    <3> HIDE DEF first, firstT
    <3> QED BY <2>1
  <2>3. blanksT = blanks
    BY SameLines
  <2>4. spacesT = spaces
    <3> HIDE DEF blanks, blanksT
    <3> QED BY <2>3, SameLines
  <2>5. Tokenize!BlockContent(t, body, match, reference)
          = IF digits # {} THEN leastT + digitT - 1 ELSE Tokenize!Max({leastT} \cup spacesT)
    BY DEF Tokenize!BlockContent, Tokenize!Digits, Digits
  <2>6. BlockContent(t, body, match, reference)
          = IF digits # {} THEN least + digit - 1 ELSE Max({least} \cup spaces)
    BY DEF BlockContent
  <2> HIDE DEF least, leastT, digits, digit, digitT, spaces, spacesT
  <2> QED BY <2>1, <2>2, <2>4, <2>5, <2>6, SameLibrary
<1> SUFFICES ASSUME NEW t, NEW end, NEW match, NEW reference
             PROVE  Tokenize!BlockExtent(t, end, match, reference, TRUE)
                      = BlockExtent(t, end, match, reference, TRUE)
  BY DEF BlockInText
<1> QED BY <1>1, SameLibrary, SameLines DEF Tokenize!BlockExtent, BlockExtent, Tokenize!Undecided, Undecided

\* What a line below is read by.
LEMMA SameBelow ==
    /\ \A t, end : Tokenize!Below(t, end) = Below(t, end)
    /\ \A t, line, p : Tokenize!ReadTo(t, line, p) = ReadTo(t, line, p)
    /\ \A t, line : Tokenize!MarksDocument(t, line) = MarksDocument(t, line)
    /\ \A t, line, reference : Tokenize!StopsThere(t, line, reference) = StopsThere(t, line, reference)
<1>1. \A t, end : Tokenize!Below(t, end) = Below(t, end)
  BY SameLines DEF Tokenize!Below, Below, Tokenize!NewLine, NewLine
<1>2. \A t, line, p : Tokenize!ReadTo(t, line, p) = ReadTo(t, line, p)
  <2> TAKE t, line, p
  <2> DEFINE words == SubSeq(t, line + 1, LineEnd(t, line))
             first == PastAll(words, 0, {Space, Tab})
             found == MatchLength(p, words, first)
  <2>1. Tokenize!LineEnd(t, line) = LineEnd(t, line)
    BY SameLines
  <2>2. Tokenize!PastAll(words, 0, {Space, Tab}) = first
    <3> HIDE DEF words
    <3> QED BY SameLines
  <2>3. Tokenize!MatchLength(p, words, first) = found
    <3> HIDE DEF words, first
    <3> QED BY SameMatch
  <2>4. Tokenize!ReadTo(t, line, p) = IF found > 0 THEN line + first + found ELSE line
    BY <2>1, <2>2, <2>3 DEF Tokenize!ReadTo, Tokenize!Space, Space, Tokenize!Tab, Tab
  <2> QED BY <2>4 DEF ReadTo
<1>3. \A t, at : Tokenize!Marked(t, at) = Marked(t, at)
  BY DEF Tokenize!Marked, Marked, Tokenize!Markers, Markers, Tokenize!Space, Space, Tokenize!Tab, Tab,
         Tokenize!CarriageReturn, CarriageReturn, Tokenize!NewLine, NewLine
<1>4. \A t, line : Tokenize!MarksDocument(t, line) = MarksDocument(t, line)
  BY <1>3, SameLines DEF Tokenize!MarksDocument, MarksDocument
<1>5. \A t, line, reference : Tokenize!StopsThere(t, line, reference) = StopsThere(t, line, reference)
  BY <1>4, SameLines DEF Tokenize!StopsThere, StopsThere
<1> QED BY <1>1, <1>2, <1>4, <1>5

\* The extent of lines.
LEMMA SameLinesExtent ==
    \A t, end, p, reference : Tokenize!LinesExtent(t, end, p, reference, TRUE) = LinesInText(t, end, p, reference)
<1> SUFFICES ASSUME NEW t, NEW end, NEW p, NEW reference
             PROVE  Tokenize!LinesExtent(t, end, p, reference, TRUE) = LinesExtent(t, end, p, reference, TRUE)
  BY DEF LinesInText
<1> QED BY SameLibrary, SameLines, SameBelow DEF Tokenize!LinesExtent, LinesExtent, Tokenize!Undecided, Undecided

\* The open blocks past a token, and what an extension is read against.
LEMMA SameBlocks ==
    /\ \A role, start, state : Tokenize!IndentReference(role, start, state) = IndentReference(role, start, state)
    /\ \A role, start, state : Tokenize!ApplyIndent(role, start, state) = ApplyIndent(role, start, state)
<1>1. \A levels, column : Tokenize!Closed(levels, column) = Closed(levels, column)
  BY SameLibrary DEF Tokenize!Closed, Closed
<1>2. \A levels, column : Tokenize!Opened(levels, column) = Opened(levels, column)
  BY SameLibrary DEF Tokenize!Opened, Opened
<1>3. \A role, start, state : Tokenize!IndentReference(role, start, state) = IndentReference(role, start, state)
  BY <1>1, SameLibrary DEF Tokenize!IndentReference, IndentReference
<1>4. \A role, start, state : Tokenize!ApplyIndent(role, start, state) = ApplyIndent(role, start, state)
  BY <1>1, <1>2 DEF Tokenize!ApplyIndent, ApplyIndent
<1> QED BY <1>3, <1>4

\* A position moves alike.
LEMMA SameAdvance == \A t, pos, n : Tokenize!Advance(t, pos, n) = Advance(t, pos, n)
<1>1. \A t, at : Tokenize!ValidLength(t, at) = ValidLength(t, at)
  BY DEF Tokenize!ValidLength, ValidLength
<1>2. \A t, at : Tokenize!ColumnStep(t, at) = ColumnStep(t, at)
  BY <1>1, SameLibrary DEF Tokenize!ColumnStep, ColumnStep
<1> SUFFICES ASSUME NEW t, NEW pos, NEW n
             PROVE  Tokenize!Advance(t, pos, n) = Advance(t, pos, n)
  OBVIOUS
<1> DEFINE passed == pos.offset..(pos.offset + n - 1)
           breaks == { o \in passed : t[o + 1] = NewLine }
           onLine == { o \in passed : \A b \in breaks : b < o }
           ones   == { o \in onLine : ColumnStep(t, o) >= 1 }
           twos   == { o \in onLine : ColumnStep(t, o) = 2 }
           onesT  == { o \in onLine : Tokenize!ColumnStep(t, o) >= 1 }
           twosT  == { o \in onLine : Tokenize!ColumnStep(t, o) = 2 }
<1>3. onesT = ones /\ twosT = twos
  <2> HIDE DEF onLine
  <2> QED BY <1>2
<1>4. Tokenize!Advance(t, pos, n)
        = [ offset |-> pos.offset + n,
            line   |-> pos.line + Tokenize!Cardinality(breaks),
            column |-> (IF breaks = {} THEN pos.column ELSE 1)
                       + Tokenize!Cardinality(onesT) + Tokenize!Cardinality(twosT) ]
  BY DEF Tokenize!Advance, Tokenize!NewLine, NewLine
<1>5. Advance(t, pos, n)
        = [ offset |-> pos.offset + n,
            line   |-> pos.line + Cardinality(breaks),
            column |-> (IF breaks = {} THEN pos.column ELSE 1) + Cardinality(ones) + Cardinality(twos) ]
  BY DEF Advance
<1> HIDE DEF breaks, ones, twos, onesT, twosT
<1> QED BY <1>3, <1>4, <1>5, SameCardinality

\* The rules of a unit, and those its DFA takes.
LEMMA SameUnits ==
    /\ \A mode, kind, t, at : Tokenize!UnitOf(mode, kind, t, at) = UnitOf(mode, kind, t, at)
    /\ \A unit : Tokenize!OnDfa(unit) = OnDfa(unit)
    /\ \A unit : Tokenize!OnPike(unit) = OnPike(unit)
    /\ \A unit, t, at : Tokenize!Candidates(unit, t, at) = Candidates(unit, t, at)
    /\ \A unit, c : Tokenize!MayStart(unit, c) = MayStart(unit, c)
<1>1. \A mode : Tokenize!ModeRules(mode) = ModeRules(mode)
  BY DEF Tokenize!ModeRules, ModeRules, Tokenize!RuleIds, RuleIds, Tokenize!Default, Default
<1>2. \A i, kind, starts : Tokenize!Allowed(i, kind, starts) = Allowed(i, kind, starts)
  BY DEF Tokenize!Allowed, Allowed
<1>3. \A t, at : Tokenize!LineStartsAt(t, at) = LineStartsAt(t, at)
  BY DEF Tokenize!LineStartsAt, LineStartsAt, Tokenize!NewLine, NewLine
<1>4. \A mode, kind, t, at : Tokenize!UnitOf(mode, kind, t, at) = UnitOf(mode, kind, t, at)
  BY <1>1, <1>2, <1>3 DEF Tokenize!UnitOf, UnitOf
<1>5. \A unit : Tokenize!OnDfa(unit) = OnDfa(unit)
  BY SameLengths DEF Tokenize!OnDfa, OnDfa
<1>6. \A unit : Tokenize!OnPike(unit) = OnPike(unit)
  BY <1>5 DEF Tokenize!OnPike, OnPike
<1>7. \A unit, c : Tokenize!Bucket(unit, c) = Bucket(unit, c)
  BY SameLengths, SameFirstChars DEF Tokenize!Bucket, Bucket
<1>8. \A unit : Tokenize!General(unit) = General(unit)
  BY SameLengths DEF Tokenize!General, General
<1>9. \A unit, t, at : Tokenize!Candidates(unit, t, at) = Candidates(unit, t, at)
  BY <1>7, <1>8 DEF Tokenize!Candidates, Candidates
<1>10. \A unit, c : Tokenize!MayStart(unit, c) = MayStart(unit, c)
  BY <1>7, <1>8 DEF Tokenize!MayStart, MayStart
<1> QED BY <1>4, <1>5, <1>6, <1>9, <1>10

\* The munch.
LEMMA SameMunch == \A unit, t, at : Tokenize!MunchAt(unit, t, at) = MunchAt(unit, t, at)
<1>1. \A S : Tokenize!Winner(S) = Winner(S)
  BY SameLibrary DEF Tokenize!Winner, Winner, Tokenize!NoMunch, NoMunch
<1> SUFFICES ASSUME NEW unit, NEW t, NEW at
             PROVE  Tokenize!MunchAt(unit, t, at) = MunchAt(unit, t, at)
  OBVIOUS
<1>2. Tokenize!DfaMunch(unit, t, at) = DfaMunch(unit, t, at)
  BY <1>1, SameUnits, SameMatch, SameLengths DEF Tokenize!DfaMunch, DfaMunch
<1>3. Tokenize!PikeMunch(unit, t, at) = PikeMunch(unit, t, at)
  BY <1>1, SameUnits, SameMatch DEF Tokenize!PikeMunch, PikeMunch, Tokenize!NoMatch, NoMatch
<1> QED BY <1>1, <1>2, <1>3 DEF Tokenize!MunchAt, MunchAt

\* What a match extends to, and what it makes of the blocks and the modes.
LEMMA SameSteps ==
    /\ \A rule, mode, t, start, length, state :
          Tokenize!Extended(rule, mode, t, start, length, state, TRUE)
            = ExtendedInText(rule, mode, t, start, length, state)
    /\ \A rule, mode, start, state : Tokenize!Indented(rule, mode, start, state) = Indented(rule, mode, start, state)
    /\ \A rule, frames : Tokenize!Refused(rule, frames) = Refused(rule, frames)
    /\ \A rule, start, frames : Tokenize!Transition(rule, start, frames) = Transition(rule, start, frames)
<1>1. \A rule, mode : Tokenize!TakesPart(rule, mode) = TakesPart(rule, mode)
  BY DEF Tokenize!TakesPart, TakesPart
<1>2. \A extent, start : Tokenize!Reach(extent, start) = Reach(extent, start)
  BY DEF Tokenize!Reach, Reach, Tokenize!Undecided, Undecided
<1>3. ASSUME NEW rule, NEW mode, NEW t, NEW start, NEW length, NEW state
      PROVE  Tokenize!Extended(rule, mode, t, start, length, state, TRUE)
               = ExtendedInText(rule, mode, t, start, length, state)
  <2> DEFINE end       == start.offset + length
             reference == IndentReference(rule.indent, start, state)
             match     == SubSeq(t, start.offset + 1, end)
             blockT    == Tokenize!BlockExtent(t, end, match, reference, TRUE)
             linesT    == Tokenize!LinesExtent(t, end, rule.continuation, reference, TRUE)
  <2>1. Tokenize!IndentReference(rule.indent, start, state) = reference
    BY SameBlocks
  <2>2. blockT = BlockInText(t, end, match, reference)
    <3> HIDE DEF end, match, reference
    <3> QED BY SameBlock
  <2>3. linesT = LinesInText(t, end, rule.continuation, reference)
    <3> HIDE DEF end, match, reference
    <3> QED BY SameLinesExtent
  <2>4. Tokenize!Extended(rule, mode, t, start, length, state, TRUE)
          = IF ~Tokenize!TakesPart(rule, mode) \/ rule.extend = "none" THEN length
            ELSE Tokenize!Reach(IF rule.extend = "block" THEN blockT ELSE linesT, start)
    <3> HIDE DEF reference
    <3> QED BY <2>1 DEF Tokenize!Extended
  <2>5. ExtendedInText(rule, mode, t, start, length, state)
          = IF ~TakesPart(rule, mode) \/ rule.extend = "none" THEN length
            ELSE Reach(IF rule.extend = "block" THEN BlockInText(t, end, match, reference)
                       ELSE LinesInText(t, end, rule.continuation, reference), start)
    BY DEF ExtendedInText, Extended, BlockInText, LinesInText
  <2> DEFINE extentT == IF rule.extend = "block" THEN blockT ELSE linesT
             extent  == IF rule.extend = "block" THEN BlockInText(t, end, match, reference)
                        ELSE LinesInText(t, end, rule.continuation, reference)
  <2>6. extentT = extent
    <3> HIDE DEF end, match, reference, blockT, linesT
    <3> QED BY <2>2, <2>3
  <2> HIDE DEF extentT, extent
  <2>7. Tokenize!Reach(extentT, start) = Reach(extent, start)
    BY <1>2, <2>6
  <2>8. Tokenize!TakesPart(rule, mode) = TakesPart(rule, mode)
    BY <1>1
  <2> DEFINE there == IF ~TakesPart(rule, mode) \/ rule.extend = "none" THEN length ELSE Reach(extent, start)
  <2>9. Tokenize!Extended(rule, mode, t, start, length, state, TRUE) = there
    BY <2>4, <2>7, <2>8 DEF extentT
  <2>10. ExtendedInText(rule, mode, t, start, length, state) = there
    BY <2>5 DEF extent
  <2> HIDE DEF there
  <2> QED BY <2>9, <2>10, Zenon
<1>4. \A rule, mode, start, state : Tokenize!Indented(rule, mode, start, state) = Indented(rule, mode, start, state)
  BY <1>1, SameBlocks DEF Tokenize!Indented, Indented
<1>5. \A rule, frames : Tokenize!Refused(rule, frames) = Refused(rule, frames)
  BY DEF Tokenize!Refused, Refused
<1>6. \A rule, start, frames : Tokenize!Transition(rule, start, frames) = Transition(rule, start, frames)
  BY SameLibrary DEF Tokenize!Transition, Transition
<1> QED BY <1>3, <1>4, <1>5, <1>6

-----------------------------------------------------------------------------
(* The skip matches of tokenize *)

\* A configuration of a scan of the text: a place in it and a mode stack.
TextConfigurations ==
    [ cursor : Positions(0..Len(text)), stack : { frames \in Seq(Frames) : Len(frames) \in 1..MaxDepth } ]

\* tokenize's turn at a configuration.
TextTurn(c) ==
    LET m == TextMunch(Last(c.stack).mode, c.cursor.offset)
    IN  IF c.cursor.offset = Len(text) THEN [at |-> c, meets |-> "end", munch |-> NoMunch]
        ELSE [ at |-> c, munch |-> m,
               meets |-> IF ~m.have THEN "nothing" ELSE IF m.len = 0 THEN "empty" ELSE "match" ]

\* The configuration past a match.
TextPast(c, m) ==
    [ cursor |-> Advance(text, c.cursor, m.len),
      stack  |-> Transition(rules[m.idx], c.cursor, c.stack) ]

\* A turn of a skip match.
TextSkips(turn) ==
    /\ turn.meets = "match"
    /\ rules[turn.munch.idx].skip /\ ~Refused(rules[turn.munch.idx], turn.at.stack)

\* The turn after a turn.
TextAfter(turn) == IF TextSkips(turn) THEN TextTurn(TextPast(turn.at, turn.munch)) ELSE turn

TextTurns == { TextTurn(c) : c \in TextConfigurations }

\* The turn tokenize reaches from a configuration.
ReachedFrom(c) ==
    LET turn[i \in 0..Len(text)] ==
          IF i = 0 THEN Tokenize!Turn(c)
          ELSE LET t == turn[i - 1]
               IN  IF Tokenize!Skips(t) THEN Tokenize!Turn(Tokenize!Past(t.at, t.munch)) ELSE t
    IN  turn[Len(text)]

\* tokenize's turns.
LEMMA SameTurns ==
    /\ \A c : Tokenize!Turn(c) = TextTurn(c)
    /\ \A c, m : Tokenize!Past(c, m) = TextPast(c, m)
    /\ \A turn : Tokenize!Won(turn) = rules[turn.munch.idx]
    /\ \A turn : Tokenize!Skips(turn) = TextSkips(turn)
    /\ \A c : Tokenize!Mode(c) = Last(c.stack).mode
<1>1. \A c : Tokenize!Mode(c) = Last(c.stack).mode
  BY SameLibrary DEF Tokenize!Mode
<1>2. ASSUME NEW c PROVE Tokenize!Turn(c) = TextTurn(c)
  <2> DEFINE mode == Last(c.stack).mode
             at   == c.cursor.offset
             unit == UnitOf(mode, previous, text, at)
             m    == MunchAt(unit, text, at)
  <2>1. Tokenize!UnitOf(Tokenize!Mode(c), previous, text, at) = unit
    BY <1>1, SameUnits
  <2>2. Tokenize!MunchAt(unit, text, at) = m
    <3> HIDE DEF unit
    <3> QED BY SameMunch
  <2>3. Tokenize!Turn(c) = IF Tokenize!AtEnd(c) THEN [at |-> c, meets |-> "end", munch |-> Tokenize!NoMunch]
                           ELSE Tokenize!Met(c, m)
    <3> HIDE DEF unit
    <3> QED BY <2>1, <2>2 DEF Tokenize!Turn
  <2> HIDE DEF m
  <2>4. Tokenize!Met(c, m)
          = [ at |-> c, munch |-> m,
              meets |-> IF ~m.have THEN "nothing" ELSE IF m.len = 0 THEN "empty" ELSE "match" ]
    BY DEF Tokenize!Met
  <2>5. Tokenize!AtEnd(c) = (c.cursor.offset = Len(text)) /\ Tokenize!NoMunch = NoMunch
    BY DEF Tokenize!AtEnd, Tokenize!NoMunch, NoMunch
  <2>6. TextMunch(mode, at) = m
    BY DEF TextMunch, m
  <2>7. TextTurn(c) = IF c.cursor.offset = Len(text) THEN [at |-> c, meets |-> "end", munch |-> NoMunch]
                      ELSE [ at |-> c, munch |-> m,
                             meets |-> IF ~m.have THEN "nothing" ELSE IF m.len = 0 THEN "empty" ELSE "match" ]
    BY <2>6 DEF TextTurn
  <2> QED BY <2>3, <2>4, <2>5, <2>7
<1>3. \A c, m : Tokenize!Past(c, m) = TextPast(c, m)
  BY SameAdvance, SameSteps DEF Tokenize!Past, TextPast
<1>4. \A turn : Tokenize!Won(turn) = rules[turn.munch.idx]
  BY DEF Tokenize!Won
<1>5. \A turn : Tokenize!Skips(turn) = TextSkips(turn)
  BY <1>4, SameSteps DEF Tokenize!Skips, TextSkips
<1> QED BY <1>1, <1>2, <1>3, <1>4, <1>5

\* The values from x on, n times a step.
Repeats(f, n, T, x, step) == f \in [0..n -> T] /\ f[0] = x /\ \A i \in 1..n : f[i] = step[f[i - 1]]

\* A step can be repeated.
LEMMA Repeated ==
    ASSUME NEW n \in Nat, NEW T, NEW x \in T, NEW step \in [T -> T]
    PROVE  \E f : Repeats(f, n, T, x, step)
<1> DEFINE Runs(m) == { f \in [0..m -> T] : f[0] = x /\ \A i \in 1..m : f[i] = step[f[i - 1]] }
           Missing == { m \in 0..n : Runs(m) = {} }
<1>1. SUFFICES ASSUME Missing # {} PROVE FALSE
  <2>1. n \in 0..n
    OBVIOUS
  <2>2. Runs(n) # {} => \E f : Repeats(f, n, T, x, step)
    BY DEF Repeats
  <2> HIDE DEF Runs
  <2> QED BY <2>1, <2>2
<1> DEFINE m == Min(Missing)
<1>2. m \in Missing /\ \A k \in Missing : m <= k
  <2>1. Missing \in SUBSET Nat
    OBVIOUS
  <2> HIDE DEF Missing
  <2> QED BY <1>1, <2>1, MinOfNaturals
<1>3. m \in 0..n /\ Runs(m) = {}
  BY <1>2
<1>4. m # 0
  <2> DEFINE g == [i \in 0..0 |-> x]
  <2>1. g \in [0..0 -> T] /\ g[0] = x
    OBVIOUS
  <2> HIDE DEF g
  <2>2. g \in Runs(0)
    BY <2>1
  <2> HIDE DEF Runs
  <2> QED BY <1>3, <2>2
<1>5. m - 1 \in 0..n /\ m - 1 \notin Missing /\ m \in Nat
  <2> HIDE DEF m, Missing
  <2> QED BY <1>2, <1>3, <1>4
<1>6. PICK f : f \in Runs(m - 1)
  BY <1>5
<1> HIDE DEF m, Missing
<1> DEFINE g == [i \in 0..m |-> IF i = m THEN step[f[m - 1]] ELSE f[i]]
<1>7. \A i \in 0..(m - 1) : i \in 0..m /\ f[i] \in T
  BY <1>6, <1>5
<1>8. \A i \in 0..m : i # m => i \in 0..(m - 1)
  BY <1>5
<1>9. g \in [0..m -> T]
  <2>1. m - 1 \in 0..(m - 1)
    BY <1>4, <1>5
  <2> QED BY <1>7, <1>8, <2>1
<1>10. g[0] = x
  BY <1>4, <1>5, <1>6
<1>11. ASSUME NEW i \in 1..m PROVE g[i] = step[g[i - 1]]
  <2>1. i - 1 \in 0..m /\ i - 1 # m /\ i \in 0..m /\ g[i - 1] = f[i - 1]
    BY <1>5
  <2>2. CASE i = m
    BY <2>1, <2>2
  <2>3. CASE i # m
    <3>1. i \in 1..(m - 1)
      BY <1>5, <2>3
    <3> QED BY <1>6, <2>1, <2>3, <3>1
  <2> QED BY <2>2, <2>3
<1>12. g \in Runs(m)
  <2> HIDE DEF g
  <2> QED BY <1>9, <1>10, <1>11
<1> HIDE DEF Runs
<1> QED BY <1>3, <1>12

\* What a configuration is.
LEMMA ConfigurationTyped ==
    ASSUME Inductive, NEW c \in TextConfigurations
    PROVE  /\ c.cursor \in Positions(0..Len(text)) /\ c.cursor.offset \in 0..Len(text) /\ Len(text) \in Nat
           /\ c.cursor \in Positions(0..(Word - 1))
           /\ c.stack \in Seq(Frames) /\ Len(c.stack) \in 1..MaxDepth
           /\ text \in Seq(Char) /\ rules \in Grammars
<1>1. /\ c.cursor \in Positions(0..Len(text))
      /\ c.stack \in Seq(Frames) /\ Len(c.stack) \in 1..MaxDepth
  BY DEF TextConfigurations
<1>2. text \in Seq(Char) /\ rules \in Grammars /\ Len(text) < Word /\ Word \in Nat
  BY StreamAssumption DEF Inductive, TypeOK
<1>3. Len(text) \in Nat
  BY <1>2
<1>4. 0..Len(text) \subseteq 0..(Word - 1)
  BY <1>2, <1>3
<1> QED BY <1>1, <1>2, <1>3, <1>4 DEF Positions

\* What a turn meets.
LEMMA TextTurnTyped ==
    ASSUME Inductive, NEW c \in TextConfigurations
    PROVE  /\ TextTurn(c).at = c
           /\ TextTurn(c).meets = "end" <=> c.cursor.offset = Len(text)
           /\ TextTurn(c).meets = "match" =>
                 /\ TextTurn(c).munch.idx \in RuleIds
                 /\ TextTurn(c).munch.len \in 1..(Len(text) - c.cursor.offset)
<1> DEFINE mode == Last(c.stack).mode
           at   == c.cursor.offset
           unit == UnitOf(mode, previous, text, at)
           m    == TextMunch(mode, at)
<1>1. at \in 0..Len(text) /\ Len(text) \in Nat /\ text \in Seq(Char) /\ rules \in Grammars
  BY ConfigurationTyped
<1>2. m.len \in 0..(Len(text) - at) /\ (m.have => m.idx \in RuleIds)
  <2>1. unit.rules \subseteq RuleIds
    BY UnitOfRules
  <2>2. m = MunchAt(unit, text, at)
    BY DEF TextMunch
  <2> HIDE DEF unit, m, at
  <2> QED BY <1>1, <2>1, <2>2, MunchBounded
<1>3. TextTurn(c) = IF at = Len(text) THEN [at |-> c, meets |-> "end", munch |-> NoMunch]
                    ELSE [ at |-> c, munch |-> m,
                           meets |-> IF ~m.have THEN "nothing" ELSE IF m.len = 0 THEN "empty" ELSE "match" ]
  BY DEF TextTurn
<1> HIDE DEF m, at
<1>4. CASE at = Len(text)
  BY <1>3, <1>4 DEF at
<1>5. CASE at # Len(text)
  <2>1. TextTurn(c).at = c /\ TextTurn(c).munch = m
        /\ TextTurn(c).meets = IF ~m.have THEN "nothing" ELSE IF m.len = 0 THEN "empty" ELSE "match"
    BY <1>3, <1>5
  <2>2. TextTurn(c).meets # "end" /\ (TextTurn(c).meets = "match" => m.have /\ m.len # 0)
    BY <2>1
  <2>3. m.len # 0 => m.len \in 1..(Len(text) - at)
    BY <1>1, <1>2
  <2> QED BY <1>2, <1>5, <2>1, <2>2, <2>3 DEF at
<1> QED BY <1>4, <1>5

\* Past a skip match, a configuration is one further on.
LEMMA TextPastTyped ==
    ASSUME Inductive, NEW c \in TextConfigurations, TextSkips(TextTurn(c))
    PROVE  /\ TextPast(c, TextTurn(c).munch) \in TextConfigurations
           /\ TextPast(c, TextTurn(c).munch).cursor.offset > c.cursor.offset
<1> DEFINE m == TextTurn(c).munch
           i == m.idx
           pos == Advance(text, c.cursor, m.len)
           next == Transition(rules[i], c.cursor, c.stack)
<1>1. m.len \in 1..(Len(text) - c.cursor.offset) /\ i \in RuleIds /\ ~Refused(rules[i], c.stack)
  BY TextTurnTyped DEF TextSkips
<1>2. /\ c.cursor \in Positions(0..Len(text)) /\ c.cursor.offset \in 0..Len(text) /\ Len(text) \in Nat
      /\ c.cursor \in Positions(0..(Word - 1))
      /\ c.stack \in Seq(Frames) /\ Len(c.stack) \in 1..MaxDepth
      /\ text \in Seq(Char) /\ rules \in Grammars
  BY ConfigurationTyped
<1>3. TextPast(c, m) = [cursor |-> pos, stack |-> next]
  BY DEF TextPast
<1> HIDE DEF m
<1>4. m.len \in 0..(Len(text) - c.cursor.offset) /\ c.cursor.offset + m.len > c.cursor.offset
  BY <1>1, <1>2
<1>5. pos \in Positions(0..Len(text)) /\ pos.offset = c.cursor.offset + m.len
  BY <1>2, <1>4, AdvanceTyped
<1> HIDE DEF i, pos
<1>6. next \in Seq(Frames) /\ Len(next) \in 1..MaxDepth
  BY <1>1, <1>2, TransitionTyped
<1> HIDE DEF next
<1>7. TextPast(c, m) \in TextConfigurations /\ TextPast(c, m).cursor.offset > c.cursor.offset
  BY <1>3, <1>4, <1>5, <1>6 DEF TextConfigurations
<1> QED BY <1>7 DEF m

\* The turns tokenize makes from a configuration on.
LEMMA TurnsFrom ==
    ASSUME Inductive, NEW c \in TextConfigurations, NEW n, n = Len(text)
    PROVE  \E f \in [0..n -> TextTurns] : /\ f[0] = TextTurn(c)
                                          /\ \A i \in 1..n : f[i] = TextAfter(f[i - 1])
                                          /\ ReachedFrom(c) = f[n]
<1> DEFINE T       == TextTurns
           After(t) == IF Tokenize!Skips(t) THEN Tokenize!Turn(Tokenize!Past(t.at, t.munch)) ELSE t
           Full(f) == f = [i \in 0..n |-> IF i = 0 THEN Tokenize!Turn(c) ELSE After(f[i - 1])]
           turn    == CHOOSE f : Full(f)
           step    == [t \in T |-> TextAfter(t)]
<1>1. n \in Nat /\ TextTurn(c) \in T
  BY ConfigurationTyped DEF TextTurns
<1>2. \A t : After(t) = TextAfter(t)
  BY SameTurns DEF TextAfter
<1>3. ASSUME NEW t \in T PROVE TextAfter(t) \in T
  <2>1. PICK d \in TextConfigurations : t = TextTurn(d)
    BY DEF TextTurns
  <2>2. CASE TextSkips(t)
    <3>1. TextPast(d, TextTurn(d).munch) \in TextConfigurations /\ t.at = d
      BY <2>1, <2>2, TextPastTyped, TextTurnTyped
    <3>2. TextAfter(t) = TextTurn(TextPast(d, TextTurn(d).munch))
      BY <2>1, <2>2, <3>1 DEF TextAfter
    <3> QED BY <3>1, <3>2 DEF TextTurns
  <2>3. CASE ~TextSkips(t)
    BY <2>3 DEF TextAfter
  <2> QED BY <2>2, <2>3
<1>4. step \in [T -> T]
  BY <1>3
<1> HIDE DEF T
<1>5. PICK f \in [0..n -> T] : f[0] = TextTurn(c) /\ \A i \in 1..n : f[i] = step[f[i - 1]]
  <2> DEFINE x == TextTurn(c)
  <2>1. x \in T
    BY <1>1
  <2> HIDE DEF x, step
  <2>2. n \in Nat
    BY <1>1
  <2>3. \E f : Repeats(f, n, T, x, step)
    BY <1>4, <2>1, <2>2, Repeated
  <2> QED BY <2>3 DEF x, Repeats
<1>6. \A i \in 1..n : i - 1 \in 0..n /\ i \in 0..n /\ i # 0 /\ f[i] = TextAfter(f[i - 1])
  <2> TAKE i \in 1..n
  <2>1. i - 1 \in 0..n /\ i \in 0..n /\ i # 0
    BY <1>1
  <2>2. f[i - 1] \in T /\ f[i] = step[f[i - 1]]
    BY <1>5, <2>1
  <2> QED BY <2>1, <2>2
<1>7. ReachedFrom(c) = turn[n]
  BY DEF ReachedFrom
<1>8. Full(f)
  <2> HIDE DEF After
  <2>1. \A i \in 0..n : i # 0 => i \in 1..n
    BY <1>1
  <2>2. f = [i \in 0..n |-> f[i]] /\ f[0] = Tokenize!Turn(c)
    BY <1>5, SameTurns
  <2>3. \A i \in 1..n : f[i] = After(f[i - 1])
    BY <1>2, <1>6
  <2> QED BY <2>1, <2>2, <2>3
<1>9. Full(turn)
  <2> HIDE DEF Full
  <2> QED BY <1>8
<1> HIDE DEF After
<1>10. turn = [i \in 0..n |-> IF i = 0 THEN TextTurn(c) ELSE TextAfter(turn[i - 1])]
  <2>1. turn = [i \in 0..n |-> IF i = 0 THEN Tokenize!Turn(c) ELSE After(turn[i - 1])]
    BY <1>9
  <2> HIDE DEF turn
  <2> QED BY <1>2, <2>1, SameTurns
<1> HIDE DEF turn, step
<1>11. 0 \in 0..n /\ n \in 0..n
  BY <1>1
<1>12. turn[0] = TextTurn(c) /\ \A i \in 1..n : turn[i] = TextAfter(turn[i - 1])
  BY <1>6, <1>10, <1>11
<1>13. \A i \in 0..n : turn[i] = f[i]
  <2> DEFINE Bad == { i \in 0..n : turn[i] # f[i] }
             m   == Min(Bad)
  <2>1. SUFFICES ASSUME Bad # {} PROVE FALSE
    OBVIOUS
  <2>2. m \in Bad /\ \A k \in Bad : m <= k
    <3>1. Bad \in SUBSET Nat
      BY <1>1
    <3> HIDE DEF Bad
    <3> QED BY <2>1, <3>1, MinOfNaturals
  <2>3. m \in 0..n /\ turn[m] # f[m]
    BY <2>2
  <2>4. m \in 1..n /\ m - 1 \in 0..n /\ m - 1 \notin Bad
    <3> HIDE DEF m, Bad
    <3>1. m # 0
      BY <1>5, <1>12, <2>3
    <3> QED BY <1>1, <2>2, <2>3, <3>1
  <2>5. turn[m - 1] = f[m - 1]
    BY <2>4
  <2> HIDE DEF m
  <2> QED BY <1>6, <1>12, <2>3, <2>4, <2>5
<1>14. ReachedFrom(c) = f[n]
  BY <1>7, <1>11, <1>13
<1> QED BY <1>5, <1>6, <1>14 DEF T

\* A turn that skips nothing is the one reached.
LEMMA StopsHere ==
    ASSUME Inductive, NEW c \in TextConfigurations, ~TextSkips(TextTurn(c))
    PROVE  ReachedFrom(c) = TextTurn(c)
<1> DEFINE n == Len(text)
<1>1. n \in Nat
  BY ConfigurationTyped
<1>2. PICK f \in [0..n -> TextTurns] : /\ f[0] = TextTurn(c)
                                       /\ \A i \in 1..n : f[i] = TextAfter(f[i - 1])
                                       /\ ReachedFrom(c) = f[n]
  BY TurnsFrom
<1> HIDE DEF n
<1> DEFINE Bad == { i \in 0..n : f[i] # TextTurn(c) }
           m   == Min(Bad)
<1>3. Bad = {}
  <2>1. SUFFICES ASSUME Bad # {} PROVE FALSE
    OBVIOUS
  <2>2. m \in Bad /\ \A k \in Bad : m <= k
    <3>1. Bad \in SUBSET Nat
      BY <1>1
    <3> HIDE DEF Bad
    <3> QED BY <2>1, <3>1, MinOfNaturals
  <2>3. m \in 0..n /\ f[m] # TextTurn(c)
    BY <2>2
  <2>4. m \in 1..n /\ m - 1 \in 0..n /\ m - 1 \notin Bad
    <3> HIDE DEF m, Bad
    <3>1. m # 0
      BY <1>2, <2>3
    <3> QED BY <1>1, <2>2, <2>3, <3>1
  <2>5. f[m - 1] = TextTurn(c)
    BY <2>4
  <2> HIDE DEF m
  <2>6. f[m] = TextAfter(f[m - 1])
    BY <1>2, <2>4
  <2> QED BY <2>3, <2>5, <2>6 DEF TextAfter
<1>4. n \in 0..n
  BY <1>1
<1> QED BY <1>2, <1>3, <1>4

\* The turns from a skip match on are those from past it: each takes a character, so that there are no
\* more of them than tokenize makes.
LEMMA SkipsOn ==
    ASSUME Inductive, NEW c \in TextConfigurations, TextSkips(TextTurn(c))
    PROVE  ReachedFrom(c) = ReachedFrom(TextPast(c, TextTurn(c).munch))
<1> DEFINE n == Len(text)
           d == TextPast(c, TextTurn(c).munch)
<1>1. n \in Nat /\ d \in TextConfigurations /\ d.cursor.offset > c.cursor.offset
      /\ c.cursor.offset \in 0..n /\ TextTurn(c).at = c
  BY ConfigurationTyped, TextPastTyped, TextTurnTyped
<1>2. d.cursor.offset \in 0..n
  <2> HIDE DEF d
  <2> QED BY <1>1, ConfigurationTyped
<1>3. TextAfter(TextTurn(c)) = TextTurn(d)
  BY <1>1 DEF TextAfter
<1> HIDE DEF d, n
<1>4. n >= 1 /\ d.cursor.offset >= 1 /\ n - 1 \in 0..n /\ n \in 1..n
  BY <1>1, <1>2
<1>5. PICK f \in [0..n -> TextTurns] : /\ f[0] = TextTurn(c)
                                       /\ \A i \in 1..n : f[i] = TextAfter(f[i - 1])
                                       /\ ReachedFrom(c) = f[n]
  BY TurnsFrom DEF n
<1>6. PICK g \in [0..n -> TextTurns] : /\ g[0] = TextTurn(d)
                                       /\ \A i \in 1..n : g[i] = TextAfter(g[i - 1])
                                       /\ ReachedFrom(d) = g[n]
  BY <1>1, TurnsFrom DEF n
\* the turns from c are those from d, one later
<1>7. \A i \in 1..n : f[i] = g[i - 1]
  <2> DEFINE Bad == { i \in 1..n : f[i] # g[i - 1] }
             m   == Min(Bad)
  <2>1. SUFFICES ASSUME Bad # {} PROVE FALSE
    OBVIOUS
  <2>2. m \in Bad /\ \A k \in Bad : m <= k
    <3>1. Bad \in SUBSET Nat
      BY <1>1
    <3> HIDE DEF Bad
    <3> QED BY <2>1, <3>1, MinOfNaturals
  <2>3. m \in 1..n /\ f[m] # g[m - 1]
    BY <2>2
  <2>4. f[1] = g[0]
    BY <1>3, <1>4, <1>5, <1>6
  <2>5. m - 1 \in 1..n /\ m - 1 \notin Bad
    <3> HIDE DEF m, Bad
    <3>1. m # 1
      BY <2>3, <2>4
    <3> QED BY <1>1, <2>2, <2>3, <3>1
  <2>6. f[m - 1] = g[(m - 1) - 1]
    BY <2>5
  <2> HIDE DEF m
  <2>7. f[m] = TextAfter(f[m - 1]) /\ g[m - 1] = TextAfter(g[(m - 1) - 1])
    BY <1>5, <1>6, <2>3, <2>5
  <2> QED BY <2>3, <2>6, <2>7
\* a turn from d that skips is as far in the text as there were turns, and one more
<1> DEFINE Far(i) == \E e \in TextConfigurations :
                        g[i] = TextTurn(e) /\ (TextSkips(g[i]) => e.cursor.offset >= i + 1)
<1>8. \A i \in 0..n : Far(i)
  <2> DEFINE Bad == { i \in 0..n : ~Far(i) }
             m   == Min(Bad)
  <2>1. SUFFICES ASSUME Bad # {} PROVE FALSE
    OBVIOUS
  <2>2. m \in Bad /\ \A k \in Bad : m <= k
    <3>1. Bad \in SUBSET Nat
      BY <1>1
    <3> HIDE DEF Bad
    <3> QED BY <2>1, <3>1, MinOfNaturals
  <2>3. m \in 0..n /\ ~Far(m)
    BY <2>2
  <2>4. Far(0)
    BY <1>1, <1>4, <1>6
  <2>5. m \in 1..n /\ m - 1 \in 0..n /\ m - 1 \notin Bad /\ m \in Int
    <3> HIDE DEF m, Bad, Far
    <3>1. m # 0
      BY <2>3, <2>4
    <3> QED BY <1>1, <2>2, <2>3, <3>1
  <2>6. Far(m - 1)
    BY <2>5
  <2>7. PICK e \in TextConfigurations :
             g[m - 1] = TextTurn(e) /\ (TextSkips(g[m - 1]) => e.cursor.offset >= (m - 1) + 1)
    BY <2>6
  <2> HIDE DEF m, Bad
  <2>8. g[m] = TextAfter(g[m - 1])
    BY <1>6, <2>5
  <2>9. CASE TextSkips(g[m - 1])
    <3> DEFINE h == TextPast(e, TextTurn(e).munch)
    <3>1. h \in TextConfigurations /\ h.cursor.offset > e.cursor.offset /\ TextTurn(e).at = e
      BY <2>7, <2>9, TextPastTyped, TextTurnTyped
    <3>2. g[m] = TextTurn(h)
      BY <2>7, <2>8, <2>9, <3>1 DEF TextAfter
    <3> HIDE DEF h
    <3>3. e.cursor.offset \in Int /\ h.cursor.offset \in Int /\ e.cursor.offset >= (m - 1) + 1
      BY <2>7, <2>9, <3>1, ConfigurationTyped
    <3>4. h.cursor.offset >= m + 1
      BY <2>5, <3>1, <3>3
    <3> QED BY <2>3, <3>1, <3>2, <3>4
  <2>10. CASE ~TextSkips(g[m - 1])
    <3>1. g[m] = g[m - 1]
      BY <2>8, <2>10 DEF TextAfter
    <3> QED BY <2>3, <2>7, <2>10, <3>1
  <2> QED BY <2>9, <2>10
<1>9. ~TextSkips(g[n - 1])
  <2>1. PICK e \in TextConfigurations :
             g[n - 1] = TextTurn(e) /\ (TextSkips(g[n - 1]) => e.cursor.offset >= (n - 1) + 1)
    BY <1>4, <1>8
  <2>2. SUFFICES ASSUME TextSkips(g[n - 1]) PROVE FALSE
    OBVIOUS
  <2>3. e.cursor.offset \in 0..n /\ e.cursor.offset >= (n - 1) + 1
    BY <2>1, <2>2, ConfigurationTyped DEF n
  <2>4. e.cursor.offset = n
    BY <1>1, <2>3
  <2>5. TextTurn(e).meets = "end"
    BY <2>4, TextTurnTyped DEF n
  <2> QED BY <2>1, <2>2, <2>5 DEF TextSkips
<1>10. g[n] = g[n - 1]
  BY <1>4, <1>6, <1>9 DEF TextAfter
<1> QED BY <1>4, <1>5, <1>6, <1>7, <1>10 DEF d

-----------------------------------------------------------------------------
(* The stream's configurations in the text *)

\* A frame of the stream, its entry in the text.
TextFrame(frame) == [frame EXCEPT !.entry = InText(@)]

\* A mode stack of the stream in the text.
TextStack(frames) == [ i \in DOMAIN frames |-> TextFrame(frames[i]) ]

\* Where the step under way began, for tokenize.
Committed == [cursor |-> CommittedCursor, stack |-> CommittedStack]

\* Where the stream is, for tokenize.
Current == [cursor |-> InText(cursor), stack |-> TextStack(stack)]

\* A frame in the text keeps its mode.
LEMMA FrameInText ==
    ASSUME NEW f \in Frames, base \in Nat
    PROVE  TextFrame(f) = [mode |-> f.mode, entry |-> InText(f.entry)] /\ TextFrame(f) \in Frames
<1> DEFINE o == (f.entry.offset + base) % Word
<1>1. f = [mode |-> f.mode, entry |-> f.entry] /\ f.mode \in ModeNames /\ f.entry \in Positions(0..(Word - 1))
  BY DEF Frames
<1>2. f.entry = [offset |-> f.entry.offset, line |-> f.entry.line, column |-> f.entry.column]
      /\ f.entry.offset \in Int /\ f.entry.line \in Nat /\ f.entry.column \in Nat
  BY <1>1 DEF Positions
<1>3. o \in 0..(Word - 1)
  <2>1. f.entry.offset + base \in Int /\ Word \in Nat /\ Word > 0
    BY <1>2, StreamAssumption
  <2> QED BY <2>1, ModBounded
<1>4. InText(f.entry) = [f.entry EXCEPT !.offset = o]
  BY DEF InText
<1> HIDE DEF o
<1>5. InText(f.entry) \in Positions(0..(Word - 1))
  BY <1>2, <1>3, <1>4 DEF Positions
<1>6. TextFrame(f) = [mode |-> f.mode, entry |-> InText(f.entry)]
  BY <1>1 DEF TextFrame
<1> QED BY <1>1, <1>5, <1>6 DEF Frames

\* A frame that sets its mode is set in the text.
LEMMA FrameSetInText ==
    ASSUME NEW f \in Frames, NEW mode
    PROVE  TextFrame([f EXCEPT !.mode = mode]) = [TextFrame(f) EXCEPT !.mode = mode]
<1>1. f = [mode |-> f.mode, entry |-> f.entry]
  BY DEF Frames
<1> DEFINE e == InText(f.entry)
<1>2. TextFrame(f) = [mode |-> f.mode, entry |-> e]
  BY <1>1 DEF TextFrame
<1> DEFINE g == [f EXCEPT !.mode = mode]
<1>3. g = [mode |-> mode, entry |-> f.entry]
  BY <1>1
<1> HIDE DEF g
<1>4. TextFrame(g) = [mode |-> mode, entry |-> e]
  BY <1>3 DEF TextFrame
<1> HIDE DEF e
<1> QED BY <1>2, <1>4 DEF g

\* A mode stack in the text is one as deep.
LEMMA StackInText ==
    ASSUME NEW frames \in Seq(Frames), base \in Nat
    PROVE  /\ TextStack(frames) \in Seq(Frames) /\ Len(TextStack(frames)) = Len(frames)
           /\ \A i \in 1..Len(frames) : TextStack(frames)[i] = TextFrame(frames[i])
<1> DEFINE n == Len(frames)
<1>1. n \in Nat /\ DOMAIN frames = 1..n
  OBVIOUS
<1>2. \A i \in 1..n : TextFrame(frames[i]) \in Frames
  <2> TAKE i \in 1..n
  <2>1. frames[i] \in Frames
    OBVIOUS
  <2> QED BY <2>1, FrameInText
<1>3. TextStack(frames) = [i \in 1..n |-> TextFrame(frames[i])]
  BY <1>1 DEF TextStack
<1> HIDE DEF n
<1>4. TextStack(frames) \in Seq(Frames) /\ Len(TextStack(frames)) = n
  BY <1>1, <1>2, <1>3
<1> QED BY <1>1, <1>3, <1>4 DEF n

\* A transition in the buffer is one in the text.
LEMMA TransitionInText ==
    ASSUME NEW frames \in Seq(Frames), Len(frames) >= 1, base \in Nat, NEW rule,
           NEW pos \in Positions(0..(Word - 1))
    PROVE  TextStack(Transition(rule, pos, frames)) = Transition(rule, InText(pos), TextStack(frames))
<1> DEFINE n == Len(frames)
           s == TextStack(frames)
           e == InText(pos)
<1>1. n \in Nat /\ n >= 1 /\ DOMAIN frames = 1..n
  OBVIOUS
<1>2. s \in Seq(Frames) /\ Len(s) = n /\ \A i \in 1..n : s[i] = TextFrame(frames[i])
  BY StackInText
<1>3. \A i \in 1..n : frames[i] \in Frames
  OBVIOUS
<1>4. DOMAIN s = 1..n /\ s = [i \in 1..n |-> s[i]]
  BY <1>2
<1> HIDE DEF s, e, n
<1>5. CASE rule.op = "push"
  <2> DEFINE f == [mode |-> rule.target, entry |-> pos]
             g == [mode |-> rule.target, entry |-> e]
             p == Append(frames, f)
             q == Append(s, g)
  <2>1. Transition(rule, pos, frames) = p /\ Transition(rule, e, s) = q
    BY <1>5 DEF Transition
  <2>2. TextFrame(f) = g
    BY DEF TextFrame, e
  <2>3. DOMAIN p = 1..(n + 1) /\ p[n + 1] = f /\ \A i \in 1..n : p[i] = frames[i]
    <3> HIDE DEF f
    <3> QED BY <1>1 DEF n
  <2>4. q = [i \in 1..(n + 1) |-> IF i = n + 1 THEN g ELSE s[i]]
    BY <1>1, <1>2
  <2> HIDE DEF f, g, p, q
  <2>5. TextStack(p) = [i \in 1..(n + 1) |-> TextFrame(p[i])]
    BY <2>3 DEF TextStack
  <2>6. \A i \in 1..(n + 1) : i # n + 1 => i \in 1..n
    BY <1>1
  <2>7. TextStack(p) = q
    BY <1>2, <2>2, <2>3, <2>4, <2>5, <2>6
  <2> QED BY <2>1, <2>7 DEF s, e
<1>6. CASE rule.op = "pop"
  <2> DEFINE p == SubSeq(frames, 1, n - 1)
             q == SubSeq(s, 1, n - 1)
  <2>1. Transition(rule, pos, frames) = p /\ Transition(rule, e, s) = q
    BY <1>2, <1>6 DEF Transition, Front, n
  <2>2. DOMAIN p = 1..(n - 1) /\ \A i \in 1..(n - 1) : p[i] = frames[i] /\ i \in 1..n
    BY <1>1 DEF n
  <2>3. q = [i \in 1..(n - 1) |-> s[i]]
    BY <1>1, <1>2
  <2> HIDE DEF p, q
  <2>4. TextStack(p) = [i \in 1..(n - 1) |-> TextFrame(p[i])]
    BY <2>2 DEF TextStack
  <2>5. TextStack(p) = q
    BY <1>2, <2>2, <2>3, <2>4
  <2> QED BY <2>1, <2>5 DEF s, e
<1>7. CASE rule.op = "set"
  <2> DEFINE set(f) == [f EXCEPT !.mode = rule.target]
             p == [frames EXCEPT ![n].mode = rule.target]
             q == [s EXCEPT ![n].mode = rule.target]
  <2>1. Transition(rule, pos, frames) = p /\ Transition(rule, e, s) = q
    BY <1>2, <1>7 DEF Transition, n
  <2>2. p = [i \in 1..n |-> IF i = n THEN set(frames[n]) ELSE frames[i]]
    <3>1. p = [frames EXCEPT ![n] = set(frames[n])]
      OBVIOUS
    <3> HIDE DEF set, p
    <3>2. frames = [i \in 1..n |-> frames[i]]
      BY <1>1
    <3> QED BY <3>1, <3>2
  <2>3. q = [i \in 1..n |-> IF i = n THEN set(s[n]) ELSE s[i]]
    <3>1. q = [s EXCEPT ![n] = set(s[n])]
      OBVIOUS
    <3> HIDE DEF set, q
    <3> QED BY <1>4, <3>1
  <2>4. n \in 1..n
    BY <1>1
  <2>5. TextFrame(set(frames[n])) = set(s[n])
    <3> DEFINE f == frames[n]
    <3>1. f \in Frames /\ s[n] = TextFrame(f)
      BY <1>2, <1>3, <2>4
    <3> HIDE DEF f
    <3> QED BY <3>1, FrameSetInText DEF f
  <2> HIDE DEF set, p, q
  <2>6. TextStack(p) = [i \in 1..n |-> TextFrame(p[i])]
    BY <2>2 DEF TextStack
  <2>7. \A i \in 1..n : TextFrame(p[i]) = IF i = n THEN set(s[n]) ELSE s[i]
    BY <1>2, <2>2, <2>5
  <2>8. TextStack(p) = q
    BY <2>3, <2>6, <2>7
  <2> QED BY <2>1, <2>8 DEF s, e
<1>8. CASE rule.op \notin {"push", "pop", "set"}
  BY <1>8 DEF Transition, s
<1> QED BY <1>5, <1>6, <1>7, <1>8

-----------------------------------------------------------------------------
(* The turn the stream makes is the one tokenize reaches *)

\* Where the stream is, is a configuration of the text.
LEMMA CurrentTyped ==
    ASSUME Inductive
    PROVE  /\ Current \in TextConfigurations
           /\ Current.cursor = InText(cursor) /\ Current.stack = TextStack(stack)
           /\ Current.cursor.offset = base + At
           /\ Len(Current.stack) = Len(stack)
           /\ Last(Current.stack).mode = Mode
           /\ Last(Current.stack).entry = InText(Last(stack).entry)
<1>1. /\ cursor \in Positions(0..Len(buffer)) /\ stack \in Seq(Frames) /\ Len(stack) \in 1..MaxDepth
      /\ base \in Nat
  BY TurnStart, BufferSlice
<1>2. /\ InText(cursor).offset = base + At
      /\ InText(cursor) \in Positions(0..Len(text))
  <2> DEFINE o == base + cursor.offset
  <2>1. o \in 0..Len(text) /\ InText(cursor) = [cursor EXCEPT !.offset = o + 0] /\ o + 0 = o
        /\ InText(cursor).offset = o
    BY <1>1, InTextMoves DEF Moved
  <2>2. cursor.line \in Nat /\ cursor.column \in Nat
        /\ cursor = [offset |-> cursor.offset, line |-> cursor.line, column |-> cursor.column]
    BY <1>1 DEF Positions
  <2> HIDE DEF o
  <2>3. InText(cursor) \in Positions(0..Len(text))
    BY <2>1, <2>2 DEF Positions
  <2> QED BY <2>1, <2>3 DEF o, At
<1> DEFINE s == TextStack(stack)
           n == Len(stack)
           f == stack[n]
<1>3. n \in 1..n /\ n \in 1..MaxDepth
  BY <1>1, ScannerAssumption
<1>4. s \in Seq(Frames) /\ Len(s) = n /\ s[n] = TextFrame(f)
  BY <1>1, <1>3, StackInText
<1>5. f \in Frames
  BY <1>1, <1>3
<1> HIDE DEF s, f
<1>6. TextFrame(f) = [mode |-> f.mode, entry |-> InText(f.entry)]
  BY <1>1, <1>5, FrameInText
<1>7. Last(s) = s[n] /\ Last(stack) = f
  BY <1>4 DEF Last, f
<1>8. Current = [cursor |-> InText(cursor), stack |-> s]
  BY DEF Current, s
<1>9. Current \in TextConfigurations
  BY <1>2, <1>3, <1>4, <1>8 DEF TextConfigurations
<1> QED BY <1>2, <1>4, <1>6, <1>7, <1>8, <1>9 DEF Mode, s

\* Where the step under way began is one.
LEMMA CommittedTyped ==
    ASSUME Inductive, outcome.kind = "running"
    PROVE  Committed = [cursor |-> InText(saved), stack |-> TextStack(Undone)] /\ Committed \in TextConfigurations
<1>1. saved \in Positions(0..Len(buffer)) /\ base \in Nat
      /\ Undone \in Seq(Frames) /\ Len(Undone) \in 1..MaxDepth
  BY TurnStart, BufferSlice, UndoneTyped
<1>2. InText(saved) \in Positions(0..Len(text))
  <2> DEFINE o == base + saved.offset
  <2>1. o \in 0..Len(text) /\ InText(saved) = [saved EXCEPT !.offset = o + 0] /\ o + 0 = o
    BY <1>1, InTextMoves DEF Moved
  <2>2. saved.line \in Nat /\ saved.column \in Nat
        /\ saved = [offset |-> saved.offset, line |-> saved.line, column |-> saved.column]
    BY <1>1 DEF Positions
  <2> HIDE DEF o
  <2> QED BY <2>1, <2>2 DEF Positions
<1> DEFINE s == TextStack(Undone)
<1>3. s \in Seq(Frames) /\ Len(s) \in 1..MaxDepth
  BY <1>1, StackInText
<1>4. Committed = [cursor |-> InText(saved), stack |-> s]
  BY DEF Committed, CommittedCursor, CommittedStack, TextStack, TextFrame
<1> HIDE DEF s
<1>5. Committed \in TextConfigurations
  BY <1>2, <1>3, <1>4 DEF TextConfigurations
<1> QED BY <1>4, <1>5 DEF s

\* The turn at the cursor decides something.
Decides == Turn.meets \in {"nothing", "empty", "match"} \/ (Turn.meets = "end" /\ final)

\* A turn that decides meets what tokenize meets there.
LEMMA TurnIsText ==
    ASSUME Inductive, BufferServes, BlocksTyped, Decides
    PROVE  /\ TextTurn(Current).at = Current
           /\ TextTurn(Current).meets = Turn.meets
           /\ Turn.meets = "match" =>
                 /\ TextTurn(Current).munch.idx = Turn.munch.idx
                 /\ Turn.munch = [TextTurn(Current).munch EXCEPT !.len =
                       ExtendedInText(rules[TextTurn(Current).munch.idx], Mode, text, InText(cursor), @, indents)]
<1> DEFINE m == TextMunch(Mode, base + At)
           length == ExtendedInText(rules[m.idx], Mode, text, InText(cursor), m.len, indents)
<1>1. /\ Turn.meets = "end" /\ final => base + At = Len(text)
      /\ Turn.meets \in {"nothing", "empty", "match"} => base + At # Len(text)
      /\ Turn.meets = "nothing" => ~m.have
      /\ Turn.meets = "empty" => m.have /\ m.len = 0
      /\ Turn.meets = "match" => m.have /\ m.len # 0 /\ Turn.munch = [m EXCEPT !.len = length]
  BY MeetsOnText
<1>2. TextTurn(Current)
        = IF base + At = Len(text) THEN [at |-> Current, meets |-> "end", munch |-> NoMunch]
          ELSE [ at |-> Current, munch |-> m,
                 meets |-> IF ~m.have THEN "nothing" ELSE IF m.len = 0 THEN "empty" ELSE "match" ]
  BY CurrentTyped DEF TextTurn
<1>3. m = [have |-> m.have, idx |-> m.idx, len |-> m.len]
  BY DEF TextMunch, MunchAt, Winner, NoMunch
<1> HIDE DEF m
<1>4. Turn.meets = "match" =>
        /\ TextTurn(Current).munch = m
        /\ Turn.munch.idx = m.idx
        /\ Turn.munch = [m EXCEPT !.len = ExtendedInText(rules[m.idx], Mode, text, InText(cursor), @, indents)]
  <2> HAVE Turn.meets = "match"
  <2>1. TextTurn(Current).munch = m
    BY <1>1, <1>2
  <2>2. Turn.munch = [m EXCEPT !.len = length]
    BY <1>1
  <2> DEFINE n == m.len
  <2>3. [m EXCEPT !.len = length].idx = m.idx
    <3> HIDE DEF length
    <3> QED BY <1>3
  <2> QED BY <2>1, <2>2, <2>3
<1>5. TextTurn(Current).at = Current /\ TextTurn(Current).meets = Turn.meets
  BY <1>1, <1>2 DEF Decides
<1> QED BY <1>4, <1>5

\* A skip match extends to nothing.
LEMMA SkipIsText ==
    ASSUME Inductive, BufferServes, BlocksTyped, Turn.meets = "match", Won(Turn).skip
    PROVE  Turn.munch.len = TextTurn(Current).munch.len
<1> DEFINE t == TextTurn(Current).munch
           i == t.idx
<1>1. /\ i = Turn.munch.idx
      /\ Turn.munch = [t EXCEPT !.len = ExtendedInText(rules[i], Mode, text, InText(cursor), t.len, indents)]
  BY TurnIsText DEF Decides
<1>2. rules \in Grammars /\ i \in RuleIds
  BY <1>1, TurnStart, TurnBounded
<1>3. rules[i].extend = "none"
  <2>1. rules[i].skip
    BY <1>1 DEF Won
  <2> HIDE DEF i
  <2> QED BY <1>2, <2>1, ScannerAssumption DEF WellFormed, RuleIds
<1>4. ExtendedInText(rules[i], Mode, text, InText(cursor), t.len, indents) = t.len
  BY <1>3 DEF ExtendedInText, Extended
<1>5. TextTurn(Current).munch = [have |-> t.have, idx |-> t.idx, len |-> t.len]
  BY DEF TextTurn, TextMunch, MunchAt, Winner, NoMunch
<1> HIDE DEF t, i
<1> QED BY <1>1, <1>4, <1>5 DEF t

-----------------------------------------------------------------------------
(* The skip matches of a step lead from where it began to where it is *)

\* A set of configurations that holds where its skip matches lead.
SkipsLead(S) == \A c \in S : TextSkips(TextTurn(c)) => TextPast(c, TextTurn(c).munch) \in S

\* Within a call, the stream is where the skip matches of the text lead from the last token.
Joined ==
    pc = "collect" => \A S \in SUBSET TextConfigurations : Committed \in S /\ SkipsLead(S) => Current \in S

\* What is reached from where the step began is reached from where it is.
LEMMA JoinedReaches ==
    ASSUME Inductive, Joined, pc = "collect"
    PROVE  Tokenize!Reached = ReachedFrom(Current)
<1> DEFINE S == { c \in TextConfigurations : ReachedFrom(c) = ReachedFrom(Committed) }
<1>1. outcome.kind = "running"
  BY TurnStart DEF CallsApart, Running
<1>2. Committed \in S
  BY <1>1, CommittedTyped
<1>3. SkipsLead(S)
  <2>1. ASSUME NEW c \in S, TextSkips(TextTurn(c)) PROVE TextPast(c, TextTurn(c).munch) \in S
    <3>1. c \in TextConfigurations /\ ReachedFrom(c) = ReachedFrom(Committed)
      OBVIOUS
    <3>2. TextPast(c, TextTurn(c).munch) \in TextConfigurations
          /\ ReachedFrom(c) = ReachedFrom(TextPast(c, TextTurn(c).munch))
      BY <2>1, <3>1, TextPastTyped, SkipsOn
    <3> QED BY <3>1, <3>2
  <2> HIDE DEF S
  <2> QED BY <2>1 DEF SkipsLead
<1>4. S \in SUBSET TextConfigurations
  OBVIOUS
<1>5. Current \in S
  <2> HIDE DEF S
  <2> QED BY <1>2, <1>3, <1>4 DEF Joined
<1>6. Tokenize!Reached = ReachedFrom(Committed)
  BY DEF Tokenize!Reached, ReachedFrom, Committed
<1> QED BY <1>5, <1>6

\* The turn a stream decides is the one tokenize reaches, unless it skips.
LEMMA ReachedIsTurn ==
    ASSUME Inductive, BufferServes, BlocksTyped, Joined, pc = "collect", Decides,
           Turn.meets = "match" => ~Won(Turn).skip \/ Refused(Won(Turn), stack)
    PROVE  Tokenize!Reached = TextTurn(Current)
<1>1. /\ Current \in TextConfigurations
      /\ Current.stack = TextStack(stack) /\ Len(Current.stack) = Len(stack)
  BY CurrentTyped
<1>2. ~TextSkips(TextTurn(Current))
  <2>1. /\ TextTurn(Current).at = Current /\ TextTurn(Current).meets = Turn.meets
        /\ Turn.meets = "match" => TextTurn(Current).munch.idx = Turn.munch.idx
    BY TurnIsText
  <2>2. CASE Turn.meets = "match"
    <3>1. rules[TextTurn(Current).munch.idx] = Won(Turn)
      BY <2>1, <2>2 DEF Won
    <3>2. Refused(Won(Turn), Current.stack) <=> Refused(Won(Turn), stack)
      BY <1>1 DEF Refused
    <3> QED BY <2>1, <2>2, <3>1, <3>2 DEF TextSkips
  <2>3. CASE Turn.meets # "match"
    BY <2>1, <2>3 DEF TextSkips
  <2> QED BY <2>2, <2>3
<1>3. ReachedFrom(Current) = TextTurn(Current)
  BY <1>1, <1>2, StopsHere
<1> QED BY <1>3, JoinedReaches

\* A text lexed by the same rules after the same kind has the same turns.
LEMMA TurnsStay ==
    ASSUME UNCHANGED <<rules, text, previous>>
    PROVE  /\ TextConfigurations' = TextConfigurations
           /\ \A c : TextTurn(c)' = TextTurn(c)
           /\ \A c, m : TextPast(c, m)' = TextPast(c, m)
           /\ \A turn : TextSkips(turn)' = TextSkips(turn)
<1>1. ModeNames' = ModeNames
  BY DEF ModeNames, RuleIds, Targets
<1>2. TextConfigurations' = TextConfigurations
  BY <1>1 DEF TextConfigurations, Frames, Positions
<1>3. \A c : TextTurn(c)' = TextTurn(c)
  <2>1. \A mode, at : UnitOf(mode, previous, text, at)' = UnitOf(mode, previous, text, at)
    BY DEF UnitOf, ModeRules, Allowed, RuleIds
  <2>2. \A unit : OnDfa(unit)' = OnDfa(unit)
    BY DEF OnDfa
  <2>3. \A unit, at : Candidates(unit, text, at)' = Candidates(unit, text, at)
    BY DEF Candidates, Bucket, General
  <2>4. \A unit, at : DfaMunch(unit, text, at)' = DfaMunch(unit, text, at)
    BY <2>2 DEF DfaMunch
  <2>5. \A unit, at : PikeMunch(unit, text, at)' = PikeMunch(unit, text, at)
    BY <2>2, <2>3 DEF PikeMunch, OnPike
  <2>6. \A unit, at : MunchAt(unit, text, at)' = MunchAt(unit, text, at)
    BY <2>4, <2>5 DEF MunchAt
  <2>7. \A mode, at : TextMunch(mode, at)' = TextMunch(mode, at)
    BY <2>1, <2>6 DEF TextMunch
  <2> QED BY <2>7 DEF TextTurn
<1>4. \A c, m : TextPast(c, m)' = TextPast(c, m)
  BY DEF TextPast
<1>5. \A turn : TextSkips(turn)' = TextSkips(turn)
  BY DEF TextSkips
<1> QED BY <1>2, <1>3, <1>4, <1>5

\* A step that goes back to where it is has nothing to join.
LEMMA FreshlyJoined ==
    ASSUME outcome'.kind = "running", saved' = cursor', undo' = <<>>
    PROVE  Committed' = Current' /\ Joined'
<1>1. Undone' = stack'
  BY DEF Undone
<1>2. Committed' = Current'
  BY <1>1 DEF Committed, Current, CommittedCursor, CommittedStack, TextStack, TextFrame
<1> QED BY <1>2 DEF Joined

\* A skip match of the stream is one of the text.
LEMMA SkipMoves ==
    ASSUME Inductive, BufferServes, BlocksTyped, pc = "collect", Skip(Turn)
    PROVE  TextSkips(TextTurn(Current)) /\ Current' = TextPast(Current, TextTurn(Current).munch)
<1> DEFINE t    == TextTurn(Current).munch
           rule == Won(Turn)
           n    == Turn.munch.len
<1>1. /\ Turn.meets = "match" /\ rule.skip /\ ~Refused(rule, stack)
      /\ cursor' = Past(Turn) /\ stack' = Transition(rule, cursor, stack) /\ base' = base
  BY DEF Skip, bufferVars
<1>2. /\ Current.cursor = InText(cursor) /\ Current.stack = TextStack(stack) /\ Len(Current.stack) = Len(stack)
  BY CurrentTyped
<1>3. TextTurn(Current).at = Current /\ TextTurn(Current).meets = "match" /\ t.idx = Turn.munch.idx
      /\ n = t.len /\ rules[t.idx] = rule
  BY <1>1, TurnIsText, SkipIsText DEF Decides, Won
<1>4. Refused(rule, Current.stack) <=> Refused(rule, stack)
  BY <1>2 DEF Refused
<1>5. TextSkips(TextTurn(Current))
  BY <1>1, <1>3, <1>4 DEF TextSkips
<1>6. InText(Past(Turn)) = Advance(text, InText(cursor), n)
  <2>1. n \in 1..(Len(buffer) - cursor.offset) /\ cursor.offset \in Int /\ Len(buffer) \in Nat
    BY <1>1, TurnBounded, TurnStart, BufferSlice DEF At
  <2> HIDE DEF n
  <2>2. n \in 0..(Len(buffer) - cursor.offset)
    BY <2>1
  <2>3. InText(Advance(buffer, cursor, n)) = Advance(text, InText(cursor), n)
    BY <2>2, PastOnText
  <2> QED BY <2>3 DEF Past, n
<1>7. TextStack(Transition(rule, cursor, stack)) = Transition(rule, InText(cursor), TextStack(stack))
  <2>1. stack \in Seq(Frames) /\ Len(stack) >= 1 /\ base \in Nat /\ cursor \in Positions(0..(Word - 1))
    BY TurnStart, BufferSlice
  <2> HIDE DEF rule
  <2> QED BY <2>1, TransitionInText
<1> DEFINE past == Past(Turn)
           next == Transition(rule, cursor, stack)
<1> HIDE DEF past, next
<1>8. Current' = [cursor |-> InText(past), stack |-> TextStack(next)]
  <2>1. cursor' = past /\ stack' = next /\ base' = base
    BY <1>1 DEF past, next
  <2> QED BY <2>1 DEF Current, InText, TextStack, TextFrame
<1> HIDE DEF t, n, rule
<1>9. Current' = TextPast(Current, t)
  BY <1>2, <1>3, <1>6, <1>7, <1>8 DEF TextPast, past, next
<1> QED BY <1>5, <1>9 DEF t

\* After it, the stream is where it leads.
LEMMA SkipJoined ==
    ASSUME Inductive, BufferServes, BlocksTyped, Joined, pc = "collect", Skip(Turn)
    PROVE  Joined'
<1>1. TextSkips(TextTurn(Current)) /\ Current' = TextPast(Current, TextTurn(Current).munch)
  BY SkipMoves
<1>2. Committed' = Committed
  BY TurnCommits DEF Committed
<1>3. UNCHANGED <<rules, text, previous>>
  BY DEF Skip
<1>4. ASSUME NEW S \in SUBSET TextConfigurations, Committed \in S, SkipsLead(S)'
      PROVE  Current' \in S
  <2>1. SkipsLead(S)
    BY <1>3, <1>4, TurnsStay DEF SkipsLead
  <2>2. Current \in S
    BY <1>4, <2>1 DEF Joined
  <2> QED BY <1>1, <2>1, <2>2 DEF SkipsLead
<1>5. TextConfigurations' = TextConfigurations
  BY <1>3, TurnsStay
<1> QED BY <1>2, <1>4, <1>5 DEF Joined

\* Every step keeps the stream on the skip matches of the text.
LEMMA NextJoined == Inductive /\ BufferServes /\ BlocksTyped /\ Joined /\ [Next]_vars => Joined'
<1> SUFFICES ASSUME Inductive, BufferServes, BlocksTyped, Joined, [Next]_vars PROVE Joined'
  OBVIOUS
<1>1. ASSUME NEW chars, NEW hold, Begin(chars, hold), outcome' = outcome, pc = "idle", ~finished PROVE Joined'
  <2>1. outcome'.kind = "running"
    BY <1>1, TurnStart DEF CallsApart, Running
  <2>2. saved' = cursor' /\ undo' = <<>>
    BY <1>1 DEF Begin
  <2> QED BY <2>1, <2>2, FreshlyJoined
<1>2. CASE \E n \in 0..MaxPiece : Feed(n)
  <2>1. outcome' = outcome /\ pc = "idle" /\ ~finished /\ \E chars, hold : Begin(chars, hold)
    BY <1>2 DEF Feed
  <2> QED BY <1>1, <2>1
<1>3. CASE Finish
  <2>1. outcome' = outcome /\ pc = "idle" /\ ~finished /\ Begin(tail, 0)
    BY <1>3 DEF Finish
  <2> QED BY <1>1, <2>1
<1>4. CASE Collect
  <2>0. pc = "collect" /\ outcome.kind = "running"
    BY <1>4, TurnStart DEF Collect, CallsApart, Running
  <2>1. CASE Skip(Turn)
    BY <2>0, <2>1, SkipJoined
  <2>2. ASSUME NEW token, NEW past, Produce(token, past) PROVE Joined'
    <3>1. outcome'.kind = "running" /\ saved' = cursor' /\ undo' = <<>>
      BY <2>0, <2>2 DEF Produce
    <3> QED BY <3>1, FreshlyJoined
  <2>3. CASE Emit(Turn) \/ EmitErrorRun(Turn) \/ EmitUnterminated(Turn)
    <3>1. \E token, past : Produce(token, past)
      BY <2>3, Zenon DEF Emit, EmitErrorRun, EmitUnterminated
    <3> QED BY <2>2, <3>1
  <2>4. CASE \/ Wait(Turn) \/ WaitInRun(Turn) \/ WaitOpen(Turn)
             \/ NoRule(Turn) \/ BadTransition(Turn) \/ ZeroLength(Turn) \/ Unterminated(Turn) \/ End(Turn)
    <3>1. Return
      BY <2>4, Zenon DEF Wait, WaitInRun, WaitOpen, Pending, NoRule, BadTransition, ZeroLength, Unterminated, End,
                         Fail
    <3>2. pc' # "collect"
      BY <3>1 DEF Return
    <3> QED BY <3>2 DEF Joined
  <2> QED BY <1>4, <2>1, <2>3, <2>4 DEF Collect
<1>5. CASE UNCHANGED vars
  <2>1. UNCHANGED <<rules, text, previous, pc, base, cursor, saved, stack, undo, outcome>>
    BY <1>5 DEF vars, bufferVars, scanVars, callVars
  <2>2. Committed' = Committed /\ Current' = Current
    BY <2>1 DEF Committed, Current, CommittedCursor, CommittedStack, Undone, TextStack, TextFrame, InText
  <2>3. TextConfigurations' = TextConfigurations /\ \A S : SkipsLead(S)' => SkipsLead(S)
    BY <2>1, TurnsStay DEF SkipsLead
  <2> QED BY <2>1, <2>2, <2>3 DEF Joined
<1> QED BY <1>2, <1>3, <1>4, <1>5 DEF Next

\* A stream stays on the skip matches of the text.
LEMMA AlwaysJoined == Safety => []Joined
<1>1. Init => Joined
  BY DEF Init, Joined
<1> QED BY <1>1, NextJoined, StreamInductive, BufferAlwaysServes, BlocksAlwaysTyped, PTL DEF Safety

-----------------------------------------------------------------------------
(* What a step adds, in the text *)

\* A token added last is added last to all of them.
LEMMA AppendJoins ==
    ASSUME NEW S, NEW a \in Seq(S), NEW b \in Seq(S), NEW e
    PROVE  a \o Append(b, e) = Append(a \o b, e)
<1> DEFINE R == S \cup {e}
<1>1. a \in Seq(R) /\ b \in Seq(R) /\ e \in R
  <2>1. \A x \in S : x \in R
    OBVIOUS
  <2> HIDE DEF R
  <2>2. a \in Seq(R) /\ b \in Seq(R)
    BY <2>1
  <2> QED BY <2>2 DEF R
<1> HIDE DEF R
<1>2. a \o Append(b, e) = Append(a \o b, e)
  BY <1>1
<1> QED BY <1>2

\* A match extends to the same characters.
LEMMA MatchIsText ==
    ASSUME Inductive, BufferServes, BlocksTyped, Turn.meets = "match"
    PROVE  Tokenize!Match(TextTurn(Current)) = Turn.munch
<1> DEFINE turn   == TextTurn(Current)
           i      == turn.munch.idx
           length == ExtendedInText(rules[i], Mode, text, InText(cursor), turn.munch.len, indents)
           extended(rule, mode, t, start, n, state) == Tokenize!Extended(rule, mode, t, start, n, state, TRUE)
<1>1. turn.at = Current /\ Turn.munch = [turn.munch EXCEPT !.len = length]
  BY TurnIsText DEF Decides
<1>2. Current.cursor = InText(cursor) /\ Last(Current.stack).mode = Mode
  BY CurrentTyped
<1>3. Tokenize!Won(turn) = rules[i] /\ Tokenize!Mode(turn.at) = Mode
  BY <1>1, <1>2, SameTurns
<1>4. Tokenize!Match(turn)
        = [ turn.munch EXCEPT !.len = extended(Tokenize!Won(turn), Tokenize!Mode(turn.at), text, turn.at.cursor,
                                               turn.munch.len, indents) ]
  BY DEF Tokenize!Match
<1>5. \A rule, mode, t, start, n, state :
         extended(rule, mode, t, start, n, state) = ExtendedInText(rule, mode, t, start, n, state)
  BY SameSteps
<1> HIDE DEF turn, extended
<1> HIDE DEF length
<1>6. Tokenize!Match(turn) = [turn.munch EXCEPT !.len = length]
  BY <1>1, <1>2, <1>3, <1>4, <1>5 DEF length
<1> QED BY <1>1, <1>6 DEF turn

\* Past it, the stream is where tokenize is.
LEMMA PastIsText ==
    ASSUME Inductive, BufferServes, BlocksTyped, Turn.meets = "match"
    PROVE  /\ Tokenize!Past(Current, Turn.munch)
                = [ cursor |-> InText(Past(Turn)), stack |-> TextStack(Transition(Won(Turn), cursor, stack)) ]
           /\ InText(Past(Turn)) = Advance(text, InText(cursor), Turn.munch.len)
<1> DEFINE n    == Turn.munch.len
           rule == Won(Turn)
<1>1. n \in 1..(Len(buffer) - cursor.offset) /\ cursor.offset \in Int /\ Len(buffer) \in Nat
  BY TurnBounded, TurnStart, BufferSlice DEF At
<1>2. InText(Past(Turn)) = Advance(text, InText(cursor), n)
  <2>1. Past(Turn) = Advance(buffer, cursor, n)
    BY DEF Past
  <2> HIDE DEF n
  <2>2. n \in 0..(Len(buffer) - cursor.offset)
    BY <1>1
  <2> QED BY <2>1, <2>2, PastOnText
<1>3. TextStack(Transition(rule, cursor, stack)) = Transition(rule, InText(cursor), TextStack(stack))
  <2>1. stack \in Seq(Frames) /\ Len(stack) >= 1 /\ base \in Nat /\ cursor \in Positions(0..(Word - 1))
    BY TurnStart, BufferSlice
  <2> HIDE DEF rule
  <2> QED BY <2>1, TransitionInText
<1>4. Current.cursor = InText(cursor) /\ Current.stack = TextStack(stack)
  BY CurrentTyped
<1>5. Tokenize!Past(Current, Turn.munch) = TextPast(Current, Turn.munch)
  BY SameTurns
<1>6. TextPast(Current, Turn.munch)
        = [ cursor |-> Advance(text, Current.cursor, n), stack |-> Transition(rule, Current.cursor, Current.stack) ]
  BY DEF TextPast, Won
<1> HIDE DEF n, rule
<1>7. TextPast(Current, Turn.munch)
        = [ cursor |-> InText(Past(Turn)), stack |-> TextStack(Transition(rule, cursor, stack)) ]
  BY <1>2, <1>3, <1>4, <1>6
<1> QED BY <1>2, <1>5, <1>7 DEF n, rule

\* A token of the buffer is one of the text.
LEMMA TokenIsText ==
    ASSUME Inductive, NEW kind, NEW end \in Positions(0..Len(buffer)), end.offset >= cursor.offset
    PROVE  Tokenize!Token(kind, InText(cursor), InText(end), Mode) = Token(kind, end, Mode)
<1>1. /\ base \in Nat /\ Len(buffer) \in Nat /\ cursor \in Positions(0..Len(buffer))
      /\ cursor.offset \in 0..Len(buffer) /\ end.offset \in cursor.offset..Len(buffer)
  BY BufferSlice, TurnStart DEF Positions
<1>2. SubSeq(text, base + cursor.offset + 1, base + end.offset) = SubSeq(buffer, cursor.offset + 1, end.offset)
  BY <1>1, LexemeOnText
<1>3. InText(cursor).offset = base + cursor.offset /\ InText(end).offset = base + end.offset
  BY <1>1, InTextMoves
<1>4. Tokenize!Token(kind, InText(cursor), InText(end), Mode)
        = [ kind |-> kind, lexeme |-> SubSeq(text, InText(cursor).offset + 1, InText(end).offset),
            start |-> InText(cursor), mode |-> Mode ]
  BY DEF Tokenize!Token
<1>5. Tokenize!Token(kind, InText(cursor), InText(end), Mode)
        = [ kind |-> kind, lexeme |-> SubSeq(buffer, cursor.offset + 1, end.offset),
            start |-> InText(cursor), mode |-> Mode ]
  BY <1>2, <1>3, <1>4
<1> QED BY <1>5 DEF Token, At

\* A step that produces commits to what it produced.
LEMMA ProduceIsText ==
    ASSUME Inductive, pc = "collect", NEW token, NEW past, Produce(token, past)
    PROVE  /\ CommittedCursor' = InText(past) /\ CommittedStack' = TextStack(stack')
           /\ returned' \o out' = Append(returned \o out, token)
           /\ rules' = rules /\ text' = text /\ outcome' = outcome
<1>1. /\ cursor' = past /\ saved' = past /\ undo' = <<>> /\ base' = base /\ outcome' = outcome
      /\ rules' = rules /\ text' = text /\ out' = Append(out, token) /\ returned' = returned
  BY DEF Produce, bufferVars
<1>2. outcome.kind = "running" /\ out \in Seq(Tokens) /\ returned \in Seq(Tokens)
  BY TurnStart DEF CallsApart, Running
<1>3. returned' \o out' = Append(returned \o out, token)
  BY <1>1, <1>2, AppendJoins
<1>4. Undone' = stack'
  BY <1>1 DEF Undone
<1>5. CommittedCursor' = InText(past)
  BY <1>1, <1>2 DEF CommittedCursor, InText
<1>6. CommittedStack' = TextStack(stack')
  BY <1>1, <1>2, <1>4 DEF CommittedStack, TextStack, TextFrame, InText
<1> QED BY <1>1, <1>3, <1>5, <1>6

\* A step that ends the text stays where it is.
LEMMA EndIsText ==
    ASSUME Inductive, NEW kind, NEW where, NEW mode, kind # "running",
           outcome' = Ended(kind, where, mode), Return, UNCHANGED <<base, stack>>
    PROVE  /\ outcome' = Tokenize!Ended(kind, where, mode)
           /\ base' = base /\ CommittedCursor' = InText(cursor') /\ CommittedStack' = TextStack(stack)
           /\ returned' \o out' = returned \o out
<1>1. outcome'.kind # "running" /\ base' = base /\ stack' = stack
  BY DEF Ended
<1>2. CommittedCursor' = InText(cursor')
  BY <1>1 DEF CommittedCursor, InText
<1>3. CommittedStack' = TextStack(stack)
  BY <1>1 DEF CommittedStack, TextStack, TextFrame, InText
<1>4. returned' \o out' = returned \o out
  <2>1. out \in Seq(Tokens) /\ returned \in Seq(Tokens) /\ returned' = returned \o out /\ out' = <<>>
    BY TurnStart DEF Return
  <2>2. returned \o out \in Seq(Tokens)
    BY <2>1
  <2> DEFINE all == returned \o out
  <2> HIDE DEF all
  <2>3. all \o <<>> = all
    BY <2>2 DEF all
  <2> QED BY <2>1, <2>3 DEF all
<1> QED BY <1>1, <1>2, <1>3, <1>4 DEF Ended, Tokenize!Ended

-----------------------------------------------------------------------------
(* The stream's decisions are tokenize's *)

\* The blocks move on alike.
LEMMA BlocksInText ==
    ASSUME Inductive, NEW rule, NEW mode
    PROVE  Tokenize!Indented(rule, mode, InText(cursor), indents) = Indented(rule, mode, cursor, indents)
<1>1. cursor \in Positions(0..Len(buffer)) /\ InText(cursor) = Moved(cursor, base)
  BY TurnStart, InTextMoves
<1>2. ApplyIndent(rule.indent, InText(cursor), indents) = ApplyIndent(rule.indent, cursor, indents)
  BY <1>1, ReferenceMoved
<1> QED BY <1>2, SameSteps DEF Indented

\* A token.
LEMMA EmitIsText ==
    ASSUME Inductive, BufferServes, BlocksTyped, pc = "collect", Emit(Turn)
    PROVE  Tokenize!Emit(TextTurn(Current))
<1> DEFINE turn  == TextTurn(Current)
           rule  == Won(Turn)
           next  == Transition(rule, cursor, stack)
           token == Token(rule.kind, Past(Turn), Mode)
           past  == [cursor |-> InText(Past(Turn)), stack |-> TextStack(next)]
<1>1. /\ Turn.meets = "match" /\ ~rule.skip /\ ~Refused(rule, stack)
      /\ stack' = next /\ previous' = rule.kind /\ indents' = Indented(rule, Mode, cursor, indents)
      /\ Produce(token, Past(Turn))
  BY DEF Emit
<1>2. /\ Current.cursor = InText(cursor) /\ Len(Current.stack) = Len(stack) /\ Last(Current.stack).mode = Mode
  BY CurrentTyped
<1>3. turn.at = Current /\ turn.meets = "match" /\ turn.munch.idx = Turn.munch.idx
  BY <1>1, TurnIsText DEF Decides
<1>4. Tokenize!Won(turn) = rule /\ Tokenize!Mode(turn.at) = Mode
  BY <1>2, <1>3, SameTurns DEF Won
<1>5. ~Tokenize!Refused(Tokenize!Won(turn), turn.at.stack)
  <2>1. Refused(rule, Current.stack) <=> Refused(rule, stack)
    BY <1>2 DEF Refused
  <2> HIDE DEF turn, rule
  <2> QED BY <1>1, <1>3, <1>4, <2>1, SameSteps
<1>6. Tokenize!Match(turn) = Turn.munch
  BY <1>1, MatchIsText
<1>7. Tokenize!Past(turn.at, Tokenize!Match(turn)) = past
  <2>1. Tokenize!Past(Current, Turn.munch) = past
    BY <1>1, PastIsText
  <2> HIDE DEF turn, past
  <2> QED BY <1>3, <1>6, <2>1
<1>8. Tokenize!Token(rule.kind, turn.at.cursor, past.cursor, Mode) = token
  <2>1. Past(Turn) \in Positions(0..Len(buffer)) /\ Past(Turn).offset > cursor.offset
    BY <1>1, PastTyped
  <2>2. Past(Turn).offset >= cursor.offset
    BY SMTT(20), <2>1, TurnStart DEF Positions
  <2>3. Tokenize!Token(rule.kind, InText(cursor), InText(Past(Turn)), Mode) = token
    BY <2>1, <2>2, TokenIsText
  <2> HIDE DEF turn, rule, token
  <2> QED BY <1>2, <1>3, <2>3
<1>9. indents' = Tokenize!Indented(rule, Mode, turn.at.cursor, indents)
  <2> HIDE DEF turn, rule
  <2> QED BY <1>1, <1>2, <1>3, BlocksInText
<1>10. /\ CommittedCursor' = InText(Past(Turn)) /\ CommittedStack' = TextStack(stack')
       /\ returned' \o out' = Append(returned \o out, token)
       /\ rules' = rules /\ text' = text /\ outcome' = outcome
  <2> HIDE DEF token
  <2> QED BY <1>1, ProduceIsText
<1>11. CommittedCursor' = past.cursor /\ CommittedStack' = past.stack
  BY <1>1, <1>10
<1> HIDE DEF turn, rule, next, token, past
<1>12. Tokenize!Emit(turn)
  BY <1>1, <1>3, <1>4, <1>5, <1>7, <1>8, <1>9, <1>10, <1>11 DEF Tokenize!Emit
<1> QED BY <1>12 DEF turn

\* An error run.
LEMMA ErrorRunIsText ==
    ASSUME Inductive, BufferServes, BlocksTyped, pc = "collect", EmitErrorRun(Turn)
    PROVE  Tokenize!EmitErrorRun(TextTurn(Current))
<1> DEFINE turn  == TextTurn(Current)
           n     == RunStop - At
           end   == Advance(buffer, cursor, n)
           token == Token(ErrorKind, end, Mode)
<1>1. /\ ErrorPolicy = "token" /\ Turn.meets = "nothing" /\ RunDecided(RunStop)
      /\ Produce(token, end) /\ previous' = ErrorKind /\ stack' = stack /\ indents' = indents
  BY DEF EmitErrorRun
<1>2. /\ Current.cursor = InText(cursor) /\ Current.stack = TextStack(stack) /\ Last(Current.stack).mode = Mode
      /\ Current.cursor.offset = base + At
  BY CurrentTyped
<1>3. turn.at = Current /\ turn.meets = "nothing"
  BY <1>1, TurnIsText DEF Decides
<1>4. Tokenize!Mode(turn.at) = Mode
  BY <1>2, <1>3, SameTurns
<1>5. Tokenize!RunEnd(Mode, base + At) = base + RunStop
  <2>1. ~AtEnd
    BY <1>1, TurnBounded
  <2>2. TextRunEnd(Mode, base + At) = base + RunStop
    BY <1>1, <2>1, RunOnText
  <2> DEFINE from == base + At
             ends(at) == /\ MayStart(UnitOf(Mode, previous, text, at), text[at + 1])
                         /\ TextMunch(Mode, at).len > 0
             endsT(at) == LET unit == Tokenize!UnitOf(Mode, previous, text, at)
                          IN  Tokenize!MayStart(unit, text[at + 1]) /\ Tokenize!MunchAt(unit, text, at).len > 0
  <2>3. \A at : endsT(at) <=> ends(at)
    <3> TAKE at
    <3> DEFINE unit == UnitOf(Mode, previous, text, at)
    <3>1. Tokenize!UnitOf(Mode, previous, text, at) = unit
      BY SameUnits
    <3> HIDE DEF unit
    <3>2. endsT(at) <=> Tokenize!MayStart(unit, text[at + 1]) /\ Tokenize!MunchAt(unit, text, at).len > 0
      BY <3>1
    <3>3. ends(at) <=> MayStart(unit, text[at + 1]) /\ MunchAt(unit, text, at).len > 0
      BY DEF unit, TextMunch
    <3> QED BY <3>2, <3>3, SameUnits, SameMunch
  <2>4. Tokenize!RunEnd(Mode, from)
          = Tokenize!Min({Len(text)} \cup { at \in (from + 1)..(Len(text) - 1) : endsT(at) })
    BY DEF Tokenize!RunEnd
  <2>5. TextRunEnd(Mode, from) = Min({Len(text)} \cup { at \in (from + 1)..(Len(text) - 1) : ends(at) })
    BY DEF TextRunEnd
  <2> HIDE DEF ends, endsT
  <2>6. { at \in (from + 1)..(Len(text) - 1) : endsT(at) } = { at \in (from + 1)..(Len(text) - 1) : ends(at) }
    BY <2>3
  <2> QED BY <2>2, <2>4, <2>5, <2>6, SameLibrary
<1>6. /\ n \in 1..(Len(buffer) - cursor.offset) /\ (base + RunStop) - (base + At) = n
      /\ cursor.offset \in Int /\ Len(buffer) \in Nat
  <2>1. ~AtEnd
    BY <1>1, TurnBounded
  <2>2. RunStop \in (At + 1)..Len(buffer) /\ At \in 0..Len(buffer) /\ base \in Nat /\ Len(buffer) \in Nat
    BY <2>1, RunStopBounded, TurnServed, BufferSlice
  <2> QED BY <2>2 DEF At
<1> HIDE DEF n
<1>7. n \in 0..(Len(buffer) - cursor.offset)
  BY <1>6
<1>8. /\ end \in Positions(0..Len(buffer)) /\ end.offset >= cursor.offset
      /\ InText(end) = Advance(text, InText(cursor), n)
  <2>1. end \in Positions(0..Len(buffer)) /\ end.offset = cursor.offset + n
        /\ InText(end) = Advance(text, InText(cursor), n)
    BY <1>7, PastOnText
  <2> HIDE DEF end
  <2> QED BY <1>6, <2>1
<1>9. Tokenize!Advance(text, turn.at.cursor, Tokenize!RunEnd(Mode, turn.at.cursor.offset) - turn.at.cursor.offset)
        = InText(end)
  <2> HIDE DEF turn, end
  <2>1. Tokenize!RunEnd(Mode, turn.at.cursor.offset) - turn.at.cursor.offset = n
    BY <1>2, <1>3, <1>5, <1>6
  <2> QED BY <1>2, <1>3, <1>8, <2>1, SameAdvance
<1>10. Tokenize!Token(Tokenize!ErrorKind, turn.at.cursor, InText(end), Mode) = token
  <2> HIDE DEF end
  <2>1. Tokenize!Token(ErrorKind, InText(cursor), InText(end), Mode) = token
    BY <1>8, TokenIsText
  <2> HIDE DEF turn, token
  <2> QED BY <1>2, <1>3, <2>1 DEF Tokenize!ErrorKind, ErrorKind
<1>11. /\ CommittedCursor' = InText(end) /\ CommittedStack' = TextStack(stack')
       /\ returned' \o out' = Append(returned \o out, token)
       /\ rules' = rules /\ text' = text /\ outcome' = outcome
  <2> HIDE DEF token, end
  <2> QED BY <1>1, ProduceIsText
<1>12. CommittedStack' = turn.at.stack
  BY <1>1, <1>2, <1>3, <1>11
<1>13. previous' = Tokenize!ErrorKind
  BY <1>1 DEF Tokenize!ErrorKind, ErrorKind
<1> HIDE DEF turn, end, token
<1>14. Tokenize!EmitErrorRun(turn)
  BY <1>1, <1>3, <1>4, <1>9, <1>10, <1>11, <1>12, <1>13 DEF Tokenize!EmitErrorRun
<1> QED BY <1>14 DEF turn

\* The three failures that leave the cursor where it is.
LEMMA FailureIsText ==
    ASSUME Inductive, BufferServes, BlocksTyped, pc = "collect",
           NoRule(Turn) \/ ZeroLength(Turn) \/ Unterminated(Turn)
    PROVE  LET turn == TextTurn(Current)
           IN  Tokenize!NoRule(turn) \/ Tokenize!ZeroLength(turn) \/ Tokenize!Unterminated(turn)
<1> DEFINE turn == TextTurn(Current)
<1>1. /\ Current.cursor = InText(cursor) /\ Current.stack = TextStack(stack)
      /\ Len(Current.stack) = Len(stack) /\ Last(Current.stack).mode = Mode
      /\ Last(Current.stack).entry = InText(Last(stack).entry)
  BY CurrentTyped
<1>2. Decides
  BY DEF NoRule, ZeroLength, Unterminated, Decides
<1>3. turn.at = Current /\ turn.meets = Turn.meets
  BY <1>2, TurnIsText
<1>4. Tokenize!Mode(turn.at) = Mode
  BY <1>1, <1>3, SameTurns
<1> HIDE DEF turn
<1>5. ASSUME NEW kind, NEW where, kind # "running", Fail(kind, where), UNCHANGED <<cursor, indents>>
      PROVE  Tokenize!Fail(kind, where, turn) /\ CommittedCursor' = turn.at.cursor /\ indents' = indents
  <2>1. /\ outcome' = Ended(kind, where, Mode) /\ Return
        /\ UNCHANGED <<rules, text, base, stack, previous>>
    BY <1>5 DEF Fail, bufferVars
  <2>2. /\ outcome' = Tokenize!Ended(kind, where, Mode)
        /\ base' = base /\ CommittedCursor' = InText(cursor') /\ CommittedStack' = TextStack(stack)
        /\ returned' \o out' = returned \o out
    BY <1>5, <2>1, EndIsText
  <2> QED BY <1>1, <1>3, <1>4, <1>5, <2>1, <2>2 DEF Tokenize!Fail
<1>6. CASE NoRule(Turn)
  <2>1. /\ ErrorPolicy = "raise" /\ Turn.meets = "nothing"
        /\ Fail("no_rule", InText(cursor)) /\ UNCHANGED <<cursor, indents>>
    BY <1>6 DEF NoRule
  <2>2. Tokenize!Fail("no_rule", turn.at.cursor, turn) /\ CommittedCursor' = turn.at.cursor /\ indents' = indents
    BY <1>1, <1>3, <1>5, <2>1
  <2>3. Tokenize!NoRule(turn)
    BY <1>3, <2>1, <2>2 DEF Tokenize!NoRule
  <2> QED BY <2>3 DEF turn
<1>7. CASE ZeroLength(Turn)
  <2>1. /\ Turn.meets = "empty"
        /\ Fail("zero_length", InText(cursor)) /\ UNCHANGED <<cursor, indents>>
    BY <1>7 DEF ZeroLength
  <2>2. Tokenize!Fail("zero_length", turn.at.cursor, turn) /\ CommittedCursor' = turn.at.cursor
        /\ indents' = indents
    BY <1>1, <1>3, <1>5, <2>1
  <2>3. Tokenize!ZeroLength(turn)
    BY <1>3, <2>1, <2>2 DEF Tokenize!ZeroLength
  <2> QED BY <2>3 DEF turn
<1>8. CASE Unterminated(Turn)
  <2>1. /\ ErrorPolicy = "raise" /\ Turn.meets = "end" /\ Len(stack) > 1
        /\ Fail("unterminated", InText(Last(stack).entry)) /\ UNCHANGED <<cursor, indents>>
    BY <1>8 DEF Unterminated
  <2>2. Tokenize!Last(turn.at.stack).entry = InText(Last(stack).entry)
    BY <1>1, <1>3, SameLibrary
  <2>3. Tokenize!Fail("unterminated", InText(Last(stack).entry), turn) /\ CommittedCursor' = turn.at.cursor
        /\ indents' = indents
    BY <1>5, <2>1
  <2>4. Tokenize!Unterminated(turn)
    BY <1>1, <1>3, <2>1, <2>2, <2>3 DEF Tokenize!Unterminated
  <2> QED BY <2>4 DEF turn
<1> QED BY <1>6, <1>7, <1>8

\* A refused transition.
LEMMA BadTransitionIsText ==
    ASSUME Inductive, BufferServes, BlocksTyped, pc = "collect", BadTransition(Turn)
    PROVE  Tokenize!BadTransition(TextTurn(Current))
<1> DEFINE turn == TextTurn(Current)
           rule == Won(Turn)
<1>1. /\ Turn.meets = "match" /\ Refused(rule, stack)
      /\ cursor' = Past(Turn) /\ indents' = Indented(rule, Mode, cursor, indents)
      /\ Fail("bad_transition", InText(cursor))
  BY DEF BadTransition
<1>2. /\ Current.cursor = InText(cursor) /\ Current.stack = TextStack(stack)
      /\ Len(Current.stack) = Len(stack) /\ Last(Current.stack).mode = Mode
  BY CurrentTyped
<1>3. turn.at = Current /\ turn.meets = "match" /\ turn.munch.idx = Turn.munch.idx
  BY <1>1, TurnIsText DEF Decides
<1>4. Tokenize!Won(turn) = rule /\ Tokenize!Mode(turn.at) = Mode
  BY <1>2, <1>3, SameTurns DEF Won
<1>5. Tokenize!Refused(Tokenize!Won(turn), turn.at.stack)
  <2>1. Refused(rule, Current.stack) <=> Refused(rule, stack)
    BY <1>2 DEF Refused
  <2> HIDE DEF turn, rule
  <2> QED BY <1>1, <1>3, <1>4, <2>1, SameSteps
<1>6. Tokenize!Advance(text, turn.at.cursor, Tokenize!Match(turn).len) = InText(Past(Turn))
  <2>1. Tokenize!Match(turn) = Turn.munch
    BY <1>1, MatchIsText
  <2>2. InText(Past(Turn)) = Advance(text, InText(cursor), Turn.munch.len)
    BY <1>1, PastIsText
  <2> HIDE DEF turn
  <2> QED BY <1>2, <1>3, <2>1, <2>2, SameAdvance
<1>7. indents' = Tokenize!Indented(rule, Mode, turn.at.cursor, indents)
  <2> HIDE DEF turn, rule
  <2> QED BY <1>1, <1>2, <1>3, BlocksInText
<1>8. /\ outcome' = Ended("bad_transition", InText(cursor), Mode) /\ Return
      /\ UNCHANGED <<rules, text, base, stack, previous>>
  BY <1>1 DEF Fail, bufferVars
<1>9. /\ outcome' = Tokenize!Ended("bad_transition", InText(cursor), Mode)
      /\ base' = base /\ CommittedCursor' = InText(cursor') /\ CommittedStack' = TextStack(stack)
      /\ returned' \o out' = returned \o out
  BY <1>8, EndIsText
<1> HIDE DEF turn, rule
<1>10. Tokenize!BadTransition(turn)
  BY <1>1, <1>2, <1>3, <1>4, <1>5, <1>6, <1>7, <1>8, <1>9 DEF Tokenize!BadTransition, Tokenize!Fail
<1> QED BY <1>10 DEF turn

\* A mode still open at the end, when the policy recovers.
LEMMA EmitUnterminatedIsText ==
    ASSUME Inductive, BufferServes, BlocksTyped, pc = "collect", EmitUnterminated(Turn)
    PROVE  Tokenize!EmitUnterminated(TextTurn(Current))
<1> DEFINE turn  == TextTurn(Current)
           token == Token(ErrorKind, cursor, Mode)
           root  == SubSeq(stack, 1, 1)
<1>1. /\ ErrorPolicy = "token" /\ Turn.meets = "end" /\ final /\ Len(stack) > 1
      /\ stack' = root /\ previous' = previous /\ indents' = indents /\ Produce(token, cursor)
  BY DEF EmitUnterminated
<1>2. /\ Current.cursor = InText(cursor) /\ Current.stack = TextStack(stack)
      /\ Len(Current.stack) = Len(stack) /\ Last(Current.stack).mode = Mode
  BY CurrentTyped
<1>3. turn.at = Current /\ turn.meets = "end"
  BY <1>1, TurnIsText DEF Decides
<1>4. Tokenize!Mode(turn.at) = Mode
  BY <1>2, <1>3, SameTurns
<1>5. TextStack(root) = SubSeq(TextStack(stack), 1, 1)
  <2> DEFINE s == TextStack(stack)
             n == Len(stack)
             q == SubSeq(s, 1, 1)
  <2>1. stack \in Seq(Frames) /\ n \in Nat /\ n > 1
    BY <1>1, TurnStart
  <2>2. s \in Seq(Frames) /\ Len(s) = n /\ \A i \in 1..n : s[i] = TextFrame(stack[i])
    BY <2>1, StackInText, BufferSlice
  <2>3. DOMAIN root = 1..1 /\ \A i \in 1..1 : root[i] = stack[i] /\ i \in 1..n
    BY <2>1
  <2> HIDE DEF s, root
  <2>4. q = [i \in 1..1 |-> s[i]]
    BY <2>1, <2>2
  <2>5. TextStack(root) = [i \in 1..1 |-> TextFrame(root[i])]
    BY <2>3 DEF TextStack
  <2> HIDE DEF q, n
  <2>6. TextStack(root) = q
    BY <2>2, <2>3, <2>4, <2>5
  <2> QED BY <2>6 DEF q, s
<1>6. Tokenize!Token(Tokenize!ErrorKind, turn.at.cursor, turn.at.cursor, Mode) = token
  <2>1. cursor \in Positions(0..Len(buffer)) /\ cursor.offset >= cursor.offset
    BY TurnStart
  <2>2. Tokenize!Token(ErrorKind, InText(cursor), InText(cursor), Mode) = token
    BY <2>1, TokenIsText
  <2> HIDE DEF turn, token
  <2> QED BY <1>2, <1>3, <2>2 DEF Tokenize!ErrorKind, ErrorKind
<1>7. /\ CommittedCursor' = InText(cursor) /\ CommittedStack' = TextStack(stack')
      /\ returned' \o out' = Append(returned \o out, token)
      /\ rules' = rules /\ text' = text /\ outcome' = outcome
  <2> HIDE DEF token
  <2> QED BY <1>1, ProduceIsText
<1> HIDE DEF turn, token, root
<1>8. Tokenize!EmitUnterminated(turn)
  BY <1>1, <1>2, <1>3, <1>4, <1>5, <1>6, <1>7 DEF Tokenize!EmitUnterminated
<1> QED BY <1>8 DEF turn

\* The end of the text.
LEMMA EndOfText ==
    ASSUME Inductive, BufferServes, BlocksTyped, pc = "collect", End(Turn)
    PROVE  Tokenize!End(TextTurn(Current))
<1> DEFINE turn == TextTurn(Current)
<1>1. /\ Turn.meets = "end" /\ final /\ Len(stack) = 1
      /\ outcome' = Ended("end", InText(cursor), Mode) /\ Return
      /\ UNCHANGED <<rules, text, base, cursor, stack, previous, indents>>
  BY DEF End, bufferVars, scanVars
<1>2. /\ Current.cursor = InText(cursor) /\ Current.stack = TextStack(stack)
      /\ Len(Current.stack) = Len(stack) /\ Last(Current.stack).mode = Mode
  BY CurrentTyped
<1>3. turn.at = Current /\ turn.meets = "end"
  BY <1>1, TurnIsText DEF Decides
<1>4. Tokenize!Mode(turn.at) = Mode
  BY <1>2, <1>3, SameTurns
<1>5. /\ outcome' = Tokenize!Ended("end", InText(cursor), Mode)
      /\ base' = base /\ CommittedCursor' = InText(cursor') /\ CommittedStack' = TextStack(stack)
      /\ returned' \o out' = returned \o out
  BY <1>1, EndIsText
<1> HIDE DEF turn
<1>6. Tokenize!End(turn)
  BY <1>1, <1>2, <1>3, <1>4, <1>5 DEF Tokenize!End
<1> QED BY <1>6 DEF turn

\* The state tokenize has, by its parts.
LEMMA StaysInText ==
    ASSUME UNCHANGED <<rules, text, previous, indents, outcome>>,
           CommittedCursor' = CommittedCursor, CommittedStack' = CommittedStack,
           returned' \o out' = returned \o out
    PROVE  UNCHANGED Tokenize!vars
BY DEF Tokenize!vars

\* A turn of a call is a step of tokenize, or leaves it where it is.
LEMMA CollectIsText ==
    ASSUME Inductive, BufferServes, BlocksTyped, Joined, Collect
    PROVE  [Tokenize!Next]_(Tokenize!vars)
<1> DEFINE turn == TextTurn(Current)
<1>1. pc = "collect" /\ outcome = Running
  BY TurnStart DEF Collect, CallsApart
<1>2. outcome = Tokenize!Running
  BY <1>1 DEF Running, Tokenize!Running, Beginning, Tokenize!Beginning, Default, Tokenize!Default
<1>3. ASSUME \/ Tokenize!Emit(turn) \/ Tokenize!EmitErrorRun(turn) \/ Tokenize!NoRule(turn)
             \/ Tokenize!BadTransition(turn) \/ Tokenize!Unterminated(turn) \/ Tokenize!EmitUnterminated(turn)
             \/ Tokenize!ZeroLength(turn) \/ Tokenize!End(turn),
             Decides, Turn.meets = "match" => ~Won(Turn).skip \/ Refused(Won(Turn), stack)
      PROVE  Tokenize!Next
  <2>1. Tokenize!Reached = turn
    BY <1>1, <1>3, ReachedIsTurn
  <2> HIDE DEF turn
  <2> QED BY <1>2, <1>3, <2>1 DEF Tokenize!Next
<1>4. CASE Skip(Turn) \/ Wait(Turn) \/ WaitInRun(Turn) \/ WaitOpen(Turn)
  <2>1. /\ CommittedCursor' = CommittedCursor /\ CommittedStack' = CommittedStack
        /\ previous' = previous /\ indents' = indents
    BY <1>1, <1>4, TurnCommits
  <2>2. UNCHANGED <<rules, text, outcome>>
    BY <1>4 DEF Skip, Wait, WaitInRun, WaitOpen, Pending
  <2>3. returned' \o out' = returned \o out
    <3>1. CASE Skip(Turn)
      BY <3>1 DEF Skip, callVars
    <3>2. CASE Wait(Turn) \/ WaitInRun(Turn) \/ WaitOpen(Turn)
      <4>1. returned' = returned \o out /\ out' = <<>>
        BY <3>2 DEF Wait, WaitInRun, WaitOpen, Pending, Return
      <4>2. returned \o out \in Seq(Tokens)
        <5>1. returned \in Seq(Tokens) /\ out \in Seq(Tokens)
          BY TurnStart
        <5> QED BY <5>1
      <4> DEFINE all == returned \o out
      <4> HIDE DEF all
      <4>3. all \o <<>> = all
        BY <4>2 DEF all
      <4> QED BY <4>1, <4>3 DEF all
    <3> QED BY <1>4, <3>1, <3>2
  <2> QED BY <2>1, <2>2, <2>3, StaysInText
<1>5. CASE Emit(Turn)
  <2>1. Decides /\ (Turn.meets = "match" => ~Won(Turn).skip)
    BY <1>5 DEF Emit, Decides
  <2>2. Tokenize!Emit(turn)
    BY <1>1, <1>5, EmitIsText
  <2> HIDE DEF turn
  <2> QED BY <1>3, <2>1, <2>2
<1>6. CASE EmitErrorRun(Turn)
  <2>1. Decides /\ Turn.meets # "match"
    BY <1>6 DEF EmitErrorRun, Decides
  <2>2. Tokenize!EmitErrorRun(turn)
    BY <1>1, <1>6, ErrorRunIsText
  <2> HIDE DEF turn
  <2> QED BY <1>3, <2>1, <2>2
<1>7. CASE NoRule(Turn) \/ ZeroLength(Turn) \/ Unterminated(Turn)
  <2>1. Decides /\ Turn.meets # "match"
    BY <1>7 DEF NoRule, ZeroLength, Unterminated, Decides
  <2>2. Tokenize!NoRule(turn) \/ Tokenize!ZeroLength(turn) \/ Tokenize!Unterminated(turn)
    BY <1>1, <1>7, FailureIsText
  <2> HIDE DEF turn
  <2> QED BY <1>3, <2>1, <2>2
<1>8. CASE BadTransition(Turn)
  <2>1. Decides /\ Refused(Won(Turn), stack)
    BY <1>8 DEF BadTransition, Decides
  <2>2. Tokenize!BadTransition(turn)
    BY <1>1, <1>8, BadTransitionIsText
  <2> HIDE DEF turn
  <2> QED BY <1>3, <2>1, <2>2
<1>9. CASE EmitUnterminated(Turn)
  <2>1. Decides /\ Turn.meets # "match"
    BY <1>9 DEF EmitUnterminated, Decides
  <2>2. Tokenize!EmitUnterminated(turn)
    BY <1>1, <1>9, EmitUnterminatedIsText
  <2> HIDE DEF turn
  <2> QED BY <1>3, <2>1, <2>2
<1>10. CASE End(Turn)
  <2>1. Decides /\ Turn.meets # "match"
    BY <1>10 DEF End, Decides
  <2>2. Tokenize!End(turn)
    BY <1>1, <1>10, EndOfText
  <2> HIDE DEF turn
  <2> QED BY <1>3, <2>1, <2>2
<1> HIDE DEF turn
<1> QED BY <1>4, <1>5, <1>6, <1>7, <1>8, <1>9, <1>10 DEF Collect

\* A step of a stream is a step of tokenize on the text, or leaves it where it is.
LEMMA NextIsText ==
    Inductive /\ BufferServes /\ BlocksTyped /\ Joined /\ [Next]_vars => [Tokenize!Next]_(Tokenize!vars)
<1> SUFFICES ASSUME Inductive, BufferServes, BlocksTyped, Joined, [Next]_vars
             PROVE  [Tokenize!Next]_(Tokenize!vars)
  OBVIOUS
<1>1. ASSUME pc = "idle", ~finished, NEW chars, NEW hold, Begin(chars, hold),
             UNCHANGED <<rules, text, previous, indents, out, returned, outcome>>
      PROVE  UNCHANGED Tokenize!vars
  <2>1. CommittedCursor' = CommittedCursor /\ CommittedStack' = CommittedStack
    BY <1>1, CallCommits
  <2> QED BY <1>1, <2>1, StaysInText
<1>2. CASE \E n \in 0..MaxPiece : Feed(n)
  <2>1. /\ pc = "idle" /\ ~finished /\ \E chars, hold : Begin(chars, hold)
        /\ UNCHANGED <<rules, text, previous, indents, out, returned, outcome>>
    BY <1>2 DEF Feed
  <2> QED BY <1>1, <2>1
<1>3. CASE Finish
  <2>1. /\ pc = "idle" /\ ~finished /\ Begin(tail, 0)
        /\ UNCHANGED <<rules, text, previous, indents, out, returned, outcome>>
    BY <1>3 DEF Finish
  <2> QED BY <1>1, <2>1
<1>4. CASE Collect
  BY <1>4, CollectIsText
<1>5. CASE UNCHANGED vars
  <2>1. UNCHANGED <<rules, text, previous, indents, base, saved, cursor, stack, undo, out, returned, outcome>>
    BY <1>5 DEF vars, bufferVars, scanVars, callVars
  <2>2. CommittedCursor' = CommittedCursor /\ CommittedStack' = CommittedStack
    BY <2>1 DEF CommittedCursor, CommittedStack, Undone, InText
  <2> QED BY <2>1, <2>2, StaysInText
<1> QED BY <1>2, <1>3, <1>4, <1>5 DEF Next

\* A stream begins where tokenize does.
LEMMA InitIsText == Init => Tokenize!Init
<1> SUFFICES ASSUME Init PROVE Tokenize!Init
  OBVIOUS
<1>1. /\ rules \in Grammars /\ text \in Texts /\ base = 0 /\ cursor = Beginning /\ saved = Beginning
      /\ stack = RootStack(Beginning) /\ previous = EndOfInput /\ indents = NoBlocks /\ undo = <<>>
      /\ out = <<>> /\ returned = <<>> /\ outcome = Running
  BY DEF Init
<1>2. 0 % Word = 0 /\ 0 + 0 = 0
  BY StreamAssumption
<1>3. InText(Beginning) = Beginning
  BY <1>1, <1>2 DEF InText, Beginning
<1>4. CommittedCursor = Beginning
  BY <1>1, <1>3 DEF CommittedCursor, Running
<1>5. CommittedStack = RootStack(Beginning)
  <2> DEFINE f == [mode |-> Default, entry |-> Beginning]
  <2>1. Undone = <<f>>
    BY <1>1 DEF Undone, RootStack
  <2>2. CommittedStack = [i \in DOMAIN <<f>> |-> TextFrame(<<f>>[i])]
    BY <1>1, <2>1 DEF CommittedStack, Running, TextFrame
  <2>3. TextFrame(f) = f
    BY <1>3 DEF TextFrame
  <2> HIDE DEF f
  <2>4. [i \in DOMAIN <<f>> |-> TextFrame(<<f>>[i])] = <<f>>
    BY <2>3
  <2> QED BY <2>2, <2>4 DEF f, RootStack
<1>6. returned \o out = <<>>
  BY <1>1
<1>7. /\ Tokenize!Beginning = Beginning /\ Tokenize!Running = Running /\ Tokenize!NoBlocks = NoBlocks
      /\ Tokenize!EndOfInput = EndOfInput
  BY DEF Tokenize!Beginning, Beginning, Tokenize!Running, Running, Tokenize!Default, Default, Tokenize!NoBlocks,
         NoBlocks, Tokenize!EndOfInput, EndOfInput
<1>8. Tokenize!RootStack(Beginning) = RootStack(Beginning)
  BY DEF Tokenize!RootStack, RootStack, Tokenize!Default, Default
<1> QED BY <1>1, <1>4, <1>5, <1>6, <1>7, <1>8 DEF Tokenize!Init

\* Wherever the pieces are cut, whatever the rules, a stream is tokenize on the whole text: it returns the
\* same tokens in the same order, of the same kinds, lexemes, modes and positions, and fails where tokenize
\* fails, for the same reason.  What text still to come could change is not decided yet, and what was
\* decided of the buffer holds of the text.
THEOREM StreamRefinesTokenize == Safety => StreamIsTokenize
<1> QED BY InitIsText, NextIsText, StreamInductive, BufferAlwaysServes, BlocksAlwaysTyped, AlwaysJoined, PTL
        DEF Safety, StreamIsTokenize, Tokenize!Spec

=============================================================================
