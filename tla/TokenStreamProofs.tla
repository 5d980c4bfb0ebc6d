-------------------------- MODULE TokenStreamProofs --------------------------
(***************************************************************************)
(* For every grammar, every text and every way of cutting it into pieces:  *)
(* a stream's state is typed, its buffer is the text from its base on, its *)
(* mode stack stays within its bounds, what it is committed to only        *)
(* changes as it produces a token, and a caller sees of it what HeldText   *)
(* says.                                                                   *)
(***************************************************************************)
EXTENDS TokenStream, ScannerProofs, SequenceTheorems

-----------------------------------------------------------------------------
(* Words *)

\* What is left of an integer modulo w.
LEMMA ModBounded ==
    ASSUME NEW a \in Int, NEW w \in Nat, w > 0
    PROVE  a % w \in 0..(w - 1)
OBVIOUS

-----------------------------------------------------------------------------
(* One turn *)

\* A position n characters further in a text is a position n characters further.
LEMMA AdvanceTyped ==
    ASSUME NEW t \in Seq(Char), NEW pos \in Positions(0..Len(t)), NEW n \in 0..(Len(t) - pos.offset)
    PROVE  /\ Advance(t, pos, n) \in Positions(0..Len(t))
           /\ Advance(t, pos, n).offset = pos.offset + n
<1> DEFINE passed == pos.offset..(pos.offset + n - 1)
           breaks == { o \in passed : t[o + 1] = NewLine }
           onLine == { o \in passed : \A b \in breaks : b < o }
           ones   == { o \in onLine : ColumnStep(t, o) >= 1 }
           twos   == { o \in onLine : ColumnStep(t, o) = 2 }
           start  == IF breaks = {} THEN pos.column ELSE 1
<1>1. pos.offset \in 0..Len(t) /\ pos.line \in Nat /\ pos.column \in Nat /\ Len(t) \in Nat
  BY DEF Positions
<1>2. IsFiniteSet(passed)
  <2>1. pos.offset \in Int /\ pos.offset + n - 1 \in Int
    BY <1>1
  <2> QED BY <2>1, FS_Interval
<1>3. breaks \subseteq passed /\ ones \subseteq passed /\ twos \subseteq passed
  OBVIOUS
<1>4. Cardinality(breaks) \in Nat /\ Cardinality(ones) \in Nat /\ Cardinality(twos) \in Nat
  <2> HIDE DEF passed, breaks, ones, twos
  <2> QED BY <1>2, <1>3, FS_Subset, FS_CardinalityType
<1>5. Advance(t, pos, n) = [ offset |-> pos.offset + n,
                             line   |-> pos.line + Cardinality(breaks),
                             column |-> start + Cardinality(ones) + Cardinality(twos) ]
  BY DEF Advance
<1>6. start \in Nat
  BY <1>1
<1>7. pos.offset + n \in 0..Len(t)
  BY <1>1
<1> DEFINE line   == pos.line + Cardinality(breaks)
           column == start + Cardinality(ones) + Cardinality(twos)
<1>8. line \in Nat /\ column \in Nat
  <2> DEFINE x == Cardinality(breaks)
             y == Cardinality(ones)
             z == Cardinality(twos)
  <2>1. x \in Nat /\ y \in Nat /\ z \in Nat /\ start \in Nat /\ pos.line \in Nat
    BY <1>1, <1>4, <1>6
  <2> HIDE DEF x, y, z, start
  <2>2. pos.line + x \in Nat
    BY <2>1
  <2>3. start + y + z \in Nat
    BY <2>1
  <2> QED BY <2>2, <2>3 DEF x, y, z
<1> HIDE DEF line, column
<1>9. Advance(t, pos, n) = [offset |-> pos.offset + n, line |-> line, column |-> column]
  BY <1>5 DEF line, column
<1> QED BY <1>7, <1>8, <1>9 DEF Positions

\* What is in the buffer has been fed, so that it is shorter than Word.
LEMMA BufferWithinText ==
    ASSUME Inductive
    PROVE  /\ Len(buffer) \in Nat /\ Len(buffer) < Word /\ Word \in Nat /\ Word > 0
           /\ At \in 0..Len(buffer) /\ saved.offset \in 0..At
           /\ text \in Seq(Char) /\ base + Len(buffer) <= fed
<1>1. text \in Seq(Char) /\ Len(text) < Word /\ Word \in Nat
  BY StreamAssumption DEF Inductive, TypeOK
<1>2. Len(buffer) \in Nat /\ Len(tail) \in Nat /\ base \in Nat /\ Len(text) \in Nat
  BY <1>1 DEF Inductive, TypeOK
<1>3. fed \in 0..Len(text) /\ base + Len(buffer) + Len(tail) = fed
  BY DEF Inductive, TypeOK, Accounted
<1>4. cursor.offset \in 0..Len(buffer) /\ saved.offset \in 0..Len(buffer)
      /\ saved.offset <= cursor.offset
  BY DEF Inductive, TypeOK, Positions
<1> QED BY <1>1, <1>2, <1>3, <1>4 DEF At

\* An offset in the text is less than a word holds.
LEMMA TextWithinWord ==
    ASSUME Inductive, NEW k \in 0..Len(buffer)
    PROVE  base \in Nat /\ k \in Nat /\ base + k < Word /\ Word \in Nat
<1> DEFINE bl == Len(buffer)
           tl == Len(text)
<1>1. bl \in Nat /\ base + bl <= fed /\ k \in 0..bl /\ Word \in Nat
  BY BufferWithinText
<1>2. tl \in Nat /\ tl < Word
  BY BufferWithinText, StreamAssumption DEF Inductive, TypeOK
<1>3. base \in 0..tl /\ fed \in 0..tl
  BY DEF Inductive, TypeOK
<1> HIDE DEF bl, tl
<1> QED BY <1>1, <1>2, <1>3

\* A munch that goes on has the rest of the buffer to read, like a fresh one.
LEMMA WalkTyped ==
    ASSUME Inductive, Resumes
    PROVE  Walk \in Seq(Char) /\ Len(Walk) = Len(buffer) - At
<1> DEFINE n == Len(buffer)
           w == Len(open.walked)
<1>1. n \in Nat /\ At \in 0..n /\ base \in Nat /\ base \in Int
  BY BufferWithinText DEF Inductive, TypeOK
<1>2. open.walked \in Seq(Char) /\ w \in Nat /\ buffer \in Seq(Char)
  BY DEF Inductive, TypeOK
<1>3. open.at = base + At /\ open.at + w <= base + n
  BY DEF Inductive, WalkedIsBuffered, Resumes
<1>4. At + w <= n
  <2> HIDE DEF n, w
  <2> QED BY <1>1, <1>2, <1>3
<1> DEFINE rest == SubSeq(buffer, At + w + 1, n)
<1>5. rest \in Seq(Char) /\ Len(rest) = n - (At + w)
  <2>1. At + w \in 0..Len(buffer)
    <3> HIDE DEF w
    <3> QED BY <1>1, <1>2, <1>4
  <2> HIDE DEF w
  <2> QED BY <1>2, <2>1, SuffixTyped
<1>6. Walk = open.walked \o rest
  BY DEF Walk
<1>7. Walk \in Seq(Char) /\ Len(Walk) = w + Len(rest)
  <2> HIDE DEF rest
  <2> QED BY <1>2, <1>5, <1>6, JoinTyped
<1> HIDE DEF rest, n, w
<1> QED BY <1>1, <1>2, <1>5, <1>7 DEF n

\* A munch, resumed or not, is of a rule of the lexer and lies within the buffer.
LEMMA MunchHereBounded ==
    ASSUME Inductive
    PROVE  /\ MunchHere.len \in 0..(Len(buffer) - At)
           /\ MunchHere.have => MunchHere.idx \in RuleIds
<1>1. rules \in Grammars /\ buffer \in Seq(Char) /\ At \in 0..Len(buffer)
  BY BufferWithinText DEF Inductive, TypeOK
<1>2. Unit.rules \subseteq RuleIds
  BY UnitOfRules DEF Unit
<1>3. CASE Resumes
  <2>1. Walk \in Seq(Char) /\ Len(Walk) = Len(buffer) - At
    BY <1>3, WalkTyped
  <2>2. 0 \in 0..Len(Walk)
    BY <1>1, <2>1
  <2>3. /\ DfaMunch(Unit, Walk, 0).len \in 0..(Len(Walk) - 0)
        /\ DfaMunch(Unit, Walk, 0).have => DfaMunch(Unit, Walk, 0).idx \in Unit.rules
    BY <1>1, <1>2, <2>1, <2>2, DfaMunchBounded
  <2>4. MunchHere = DfaMunch(Unit, Walk, 0)
    BY <1>3 DEF MunchHere
  <2> QED BY <1>1, <1>2, <2>1, <2>3, <2>4
<1>4. CASE ~Resumes
  BY <1>1, <1>2, <1>4, MunchBounded DEF MunchHere
<1> QED BY <1>3, <1>4

\* A decided match is of a rule of the lexer, takes a character at least and lies within the buffer.
LEMMA TurnBounded ==
    ASSUME Inductive
    PROVE  /\ Turn.meets \in {"end", "not ready", "open", "nothing", "empty", "match", "undecided"}
           /\ Turn.meets = "end" <=> AtEnd
           /\ Turn.meets = "match" => /\ Turn.munch.idx \in RuleIds
                                      /\ Turn.munch.len \in 1..(Len(buffer) - At)
<1> DEFINE m      == MunchHere
           length == Extended(rules[m.idx], Mode, buffer, cursor, m.len, indents, final)
           won    == [ meets |-> IF length = Undecided THEN "undecided" ELSE "match",
                       munch |-> [m EXCEPT !.len = length] ]
<1>1. rules \in Grammars /\ buffer \in Seq(Char) /\ At \in 0..Len(buffer) /\ cursor.offset = At
  BY BufferWithinText DEF Inductive, TypeOK, At
<1>2. m.len \in 0..(Len(buffer) - At) /\ (m.have => m.idx \in RuleIds)
  BY MunchHereBounded
<1>3. m = [have |-> m.have, idx |-> m.idx, len |-> m.len]
  BY DEF MunchHere, MunchAt, DfaMunch, Winner, NoMunch
<1>4. m.have /\ m.len # 0 => length \in {Undecided} \cup m.len..(Len(buffer) - At)
  <2> SUFFICES ASSUME m.have, m.len # 0
               PROVE  length \in {Undecided} \cup m.len..(Len(buffer) - At)
    OBVIOUS
  <2> DEFINE rule == rules[m.idx]
  <2>1. rule \in Rule
    BY <1>1, <1>2, RulesTyped
  <2> HIDE DEF rule, m
  <2>2. Extended(rule, Mode, buffer, cursor, m.len, indents, final)
          \in {Undecided} \cup m.len..(Len(buffer) - cursor.offset)
    BY <1>1, <1>2, <2>1, ExtendedBounded
  <2> QED BY <1>1, <2>2 DEF rule
<1>5. \/ AtEnd /\ Turn.meets = "end"
      \/ ~AtEnd /\ Turn.meets \in {"not ready", "open", "nothing", "empty"}
      \/ ~AtEnd /\ m.have /\ m.len # 0 /\ Turn = won
  BY DEF Turn
<1>6. m.have /\ m.len # 0 /\ won.meets = "match" =>
        /\ won.munch.idx \in RuleIds
        /\ won.munch.len \in 1..(Len(buffer) - At)
  <2> SUFFICES ASSUME m.have, m.len # 0, length # Undecided
               PROVE  m.idx \in RuleIds /\ length \in 1..(Len(buffer) - At)
    <3> HIDE DEF length, m
    <3> QED BY <1>3
  <2> HIDE DEF length, m
  <2> QED BY <1>1, <1>2, <1>4
<1>7. won.meets \in {"match", "undecided"}
  <2> HIDE DEF length, m
  <2> QED OBVIOUS
<1> HIDE DEF won, m, length
<1> QED BY <1>5, <1>6, <1>7

\* A decided match ends further in the buffer.
LEMMA PastTyped ==
    ASSUME Inductive, Turn.meets = "match"
    PROVE  /\ Past(Turn) \in Positions(0..Len(buffer))
           /\ Past(Turn).offset > cursor.offset
<1>1. buffer \in Seq(Char) /\ cursor \in Positions(0..Len(buffer))
      /\ Len(buffer) \in Nat /\ cursor.offset \in 0..Len(buffer)
  BY DEF Inductive, TypeOK, Positions
<1> DEFINE n == Turn.munch.len
<1>2. n \in 1..(Len(buffer) - cursor.offset)
  BY TurnBounded DEF At
<1>3. n \in 0..(Len(buffer) - cursor.offset) /\ cursor.offset + n > cursor.offset
  <2> HIDE DEF n
  <2> QED BY <1>1, <1>2
<1>4. Past(Turn) = Advance(buffer, cursor, n)
  BY DEF Past
<1> HIDE DEF n
<1> QED BY <1>1, <1>3, <1>4, AdvanceTyped

\* An error run takes a character at least and ends within the buffer.
LEMMA RunStopBounded ==
    ASSUME Inductive, ~AtEnd
    PROVE  RunStop \in (At + 1)..Len(buffer)
<1> DEFINE S == { at \in (At + 1)..(Len(buffer) - 1) : RunWaits(at) \/ RunEnds(at) }
<1>1. Len(buffer) \in Nat /\ At + 1 \in 0..Len(buffer)
  BY BufferWithinText DEF AtEnd
<1>2. \A o \in S : o \in (At + 1)..Len(buffer)
  BY <1>1
<1>3. RunStop = Min({Len(buffer)} \cup S)
  BY DEF RunStop
<1> HIDE DEF S
<1> QED BY <1>1, <1>2, <1>3, LeastOffset

-----------------------------------------------------------------------------
(* The mode stack and its undo log *)

\* apply_transition on the stream's frames.
LEMMA TransitionTyped ==
    ASSUME NEW frames \in Seq(Frames), Len(frames) \in 1..MaxDepth,
           NEW i \in RuleIds, rules \in Grammars, ~Refused(rules[i], frames),
           NEW pos \in Positions(0..(Word - 1))
    PROVE  LET next == Transition(rules[i], pos, frames)
           IN  /\ next \in Seq(Frames)
               /\ Len(next) \in 1..MaxDepth
               /\ Len(next) >= Len(frames) - 1
               /\ \A depth \in 1..(Len(frames) - 1) : next[depth] = frames[depth]
               /\ rules[i].op = "none" => next = frames
<1> DEFINE P == Positions(0..(Word - 1))
<1>1. Frames = [mode : ModeNames, entry : P]
  BY DEF Frames
<1> HIDE DEF P
<1>2. frames \in Seq([mode : ModeNames, entry : P]) /\ pos \in P
  BY <1>1 DEF P
<1>3. LET next == Transition(rules[i], pos, frames)
      IN  /\ next \in Seq([mode : ModeNames, entry : P])
          /\ Len(next) \in 1..MaxDepth
          /\ Len(next) >= Len(frames) - 1
          /\ \A depth \in 1..(Len(frames) - 1) : next[depth] = frames[depth]
          /\ rules[i].op = "none" => next = frames
  BY <1>2, StackMoves, SMTT(30)
<1> QED BY <1>1, <1>3

\* Every entry of the undo log is a depth within the bound and a frame.
LEMMA UndoTyped ==
    ASSUME Inductive
    PROVE  /\ DOMAIN undo = 1..Len(undo) /\ Len(undo) \in Nat
           /\ undo # <<>> <=> 1 \in DOMAIN undo
           /\ \A j \in DOMAIN undo : /\ undo[j].depth \in 1..MaxDepth /\ undo[j].depth \in Nat
                                     /\ undo[j].top \in Frames
<1> DEFINE E == [depth : 1..MaxDepth, top : Frames]
<1>1. undo \in Seq(E)
  BY DEF Inductive, TypeOK
<1>2. \A e \in E : e.depth \in 1..MaxDepth /\ e.top \in Frames
  OBVIOUS
<1>3. \A d \in 1..MaxDepth : d \in Nat
  BY ScannerAssumption
<1> HIDE DEF E
<1>4. \A j \in DOMAIN undo : undo[j] \in E
  BY <1>1
<1>5. DOMAIN undo = 1..Len(undo) /\ Len(undo) \in Nat /\ (undo # <<>> <=> 1 \in DOMAIN undo)
  BY <1>1
<1> QED BY <1>2, <1>3, <1>4, <1>5

\* What a waiting step goes back to is a stack within its bounds; with nothing to take back, it is the
\* stack itself.
LEMMA UndoneTyped ==
    ASSUME Inductive
    PROVE  /\ Undone \in Seq(Frames)
           /\ Len(Undone) \in 1..MaxDepth
           /\ undo = <<>> => Undone = stack
<1> DEFINE found(depth) == { j \in DOMAIN undo : undo[j].depth = depth }
           back(depth)  == IF found(depth) = {} THEN stack[depth] ELSE undo[Min(found(depth))].top
           n            == undo[1].depth
<1>1. stack \in Seq(Frames) /\ Len(stack) \in 1..MaxDepth
  BY DEF Inductive, TypeOK
<1>2. DOMAIN undo \in SUBSET Nat
  BY UndoTyped
<1>3. CASE undo = <<>>
  BY <1>1, <1>3 DEF Undone
<1>4. CASE undo # <<>>
  <2>1. n \in 1..MaxDepth
    BY <1>4, UndoTyped
  <2>2. n \in Nat
    BY <2>1, ScannerAssumption
  <2>3. ASSUME NEW depth \in 1..n
        PROVE  back(depth) \in Frames
    <3>1. CASE found(depth) = {}
      <4>1. depth <= Len(stack)
        BY <1>4, <3>1 DEF Inductive, FramesNoted
      <4>2. depth \in 1..Len(stack)
        BY <1>1, <2>2, <4>1
      <4> QED BY <1>1, <3>1, <4>2
    <3>2. CASE found(depth) # {}
      <4>1. found(depth) \in SUBSET Nat
        BY <1>2
      <4>2. Min(found(depth)) \in found(depth)
        BY <3>2, <4>1, MinOfNaturals
      <4>3. undo[Min(found(depth))].top \in Frames
        BY <4>2, UndoTyped
      <4> QED BY <3>2, <4>3
    <3> QED BY <3>1, <3>2
  <2>4. Undone = [depth \in 1..n |-> back(depth)]
    BY <1>4 DEF Undone
  <2> HIDE DEF back, n
  <2>5. Undone \in Seq(Frames) /\ Len(Undone) = n
    BY <2>2, <2>3, <2>4
  <2> QED BY <1>4, <2>1, <2>5
<1> QED BY <1>3, <1>4

\* What notes a transition keeps what a waiting step goes back to: the frame it touches is the top,
\* which it notes unless an earlier transition of the step has.
LEMMA NotedRestores ==
    ASSUME Inductive,
           NEW i \in RuleIds, ~Refused(rules[i], stack),
           NEW pos \in Positions(0..(Word - 1)),
           stack' = Transition(rules[i], pos, stack),
           undo' = Noted(rules[i])
    PROVE  FramesNoted' /\ Undone' = Undone
<1> DEFINE n    == Len(stack)
           m    == Len(undo)
           note == [depth |-> n, top |-> stack[n]]
<1>1. /\ stack \in Seq(Frames) /\ n \in Nat /\ n >= 1 /\ n <= MaxDepth
      /\ rules \in Grammars
      /\ m \in Nat /\ DOMAIN undo = 1..m
  BY ScannerAssumption, UndoTyped DEF Inductive, TypeOK
<1>2. /\ stack' \in Seq(Frames)
      /\ Len(stack') \in Nat
      /\ Len(stack') >= n - 1
      /\ \A depth \in 1..(n - 1) : stack'[depth] = stack[depth]
      /\ rules[i].op = "none" => stack' = stack
  BY <1>1, TransitionTyped DEF Inductive
<1>3. CASE rules[i].op = "none"
  <2>1. stack' = stack /\ undo' = undo
    BY <1>2, <1>3 DEF Noted
  <2> QED BY <2>1 DEF Inductive, FramesNoted, Undone
<1>4. CASE rules[i].op # "none"
  <2>1. undo' = Append(undo, note)
    BY <1>4 DEF Noted, Last
  <2>2. /\ undo' # <<>> /\ DOMAIN undo' = 1..(m + 1) /\ DOMAIN undo = 1..m
        /\ undo'[m + 1] = note
        /\ \A j \in 1..m : undo'[j] = undo[j]
    <3> DEFINE E == [depth : 1..MaxDepth, top : Frames]
    <3>1. undo \in Seq(E)
      BY DEF Inductive, TypeOK
    <3>2. note \in E
      BY <1>1
    <3> HIDE DEF note, E
    <3> QED BY <1>1, <2>1, <3>1, <3>2
  <2> DEFINE noted(depth)  == \E j \in 1..m : undo[j].depth = depth
             found(depth)  == { j \in 1..m : undo[j].depth = depth }
             foundP(depth) == { j \in 1..(m + 1) : undo'[j].depth = depth }
             back(depth)   == IF found(depth) = {} THEN stack[depth]
                              ELSE undo[Min(found(depth))].top
             backP(depth)  == IF foundP(depth) = {} THEN stack'[depth]
                              ELSE undo'[Min(foundP(depth))].top
             first         == IF undo = <<>> THEN n ELSE undo[1].depth
  <2>3. undo'[1].depth = first
    <3>1. CASE undo = <<>>
      <4>1. m = 0
        BY <3>1
      <4> QED BY <2>2, <3>1, <4>1
    <3>2. CASE undo # <<>>
      <4>1. 1 \in 1..m
        BY <1>1, <3>2, UndoTyped
      <4> QED BY <2>2, <3>2, <4>1
    <3> QED BY <3>1, <3>2
  <2>4. first \in Nat
    BY <1>1, UndoTyped
  <2>5. ASSUME NEW depth \in 1..first
        PROVE  depth <= n \/ noted(depth)
    <3>1. CASE undo = <<>>
      <4>1. depth <= n
        BY <1>1, <2>5, <3>1
      <4> QED BY <4>1
    <3>2. CASE undo # <<>>
      BY <2>2, <2>5, <3>2 DEF Inductive, FramesNoted
    <3> QED BY <3>1, <3>2
  <2>6. ASSUME NEW depth \in 1..first
        PROVE  /\ depth <= Len(stack') \/ \E j \in DOMAIN undo' : undo'[j].depth = depth
               /\ backP(depth) = back(depth)
    <3>1. CASE noted(depth)
      <4>1. found(depth) \in SUBSET Nat /\ found(depth) # {}
        BY <3>1
      <4>2. Min(found(depth)) \in found(depth) /\ \A y \in found(depth) : Min(found(depth)) <= y
        BY <4>1, MinOfNaturals
      <4>3. found(depth) \subseteq foundP(depth) /\ foundP(depth) \subseteq found(depth) \cup {m + 1}
        BY <1>1, <2>2
      <4>4. foundP(depth) \in SUBSET Nat /\ foundP(depth) # {}
        BY <1>1, <4>1, <4>3
      <4>5. Min(foundP(depth)) \in foundP(depth)
            /\ \A y \in foundP(depth) : Min(foundP(depth)) <= y
        BY <4>4, MinOfNaturals
      <4>6. \A y \in found(depth) : y < m + 1 /\ y \in Nat
        BY <1>1
      <4>7. Min(foundP(depth)) = Min(found(depth))
        <5> DEFINE a == Min(found(depth))
                   b == Min(foundP(depth))
                   A == found(depth)
                   B == foundP(depth)
        <5>1. a \in A /\ (\A y \in A : a <= y) /\ b \in B /\ (\A y \in B : b <= y)
          BY <4>2, <4>5
        <5>2. A \subseteq B /\ B \subseteq A \cup {m + 1} /\ \A y \in A : y < m + 1 /\ y \in Nat
          BY <4>3, <4>6
        <5> HIDE DEF a, b, A, B
        <5>3. a \in Nat /\ b \in Nat /\ b <= a
          BY <1>1, <5>1, <5>2
        <5>4. b # m + 1
          BY <1>1, <5>1, <5>2, <5>3
        <5>5. a <= b
          BY <5>1, <5>2, <5>4
        <5>6. a = b
          BY <5>3, <5>5
        <5> QED BY <5>6 DEF a, b
      <4>8. backP(depth) = undo'[Min(found(depth))].top /\ Min(found(depth)) \in 1..m
        BY <4>2, <4>4, <4>7
      <4>9. backP(depth) = back(depth)
        BY <2>2, <4>1, <4>8
      <4>10. PICK j \in 1..m : undo[j].depth = depth
        BY <3>1
      <4>11. j \in DOMAIN undo' /\ undo'[j].depth = depth
        BY <1>1, <2>2, <4>10
      <4> QED BY <4>9, <4>11
    <3>2. CASE ~noted(depth) /\ depth = n
      <4>1. foundP(depth) = {m + 1} /\ found(depth) = {}
        BY <1>1, <2>2, <3>2
      <4>2. Min({m + 1}) = m + 1
        <5>1. {m + 1} \in SUBSET Nat
          BY <1>1
        <5> QED BY <5>1, MinOfNaturals
      <4>3. backP(depth) = undo'[m + 1].top
        BY <4>1, <4>2
      <4>4. m + 1 \in DOMAIN undo'
        BY <1>1, <2>2
      <4>5. undo'[m + 1].top = stack[n] /\ undo'[m + 1].depth = n
        BY <2>2
      <4>6. backP(depth) = back(depth)
        <5> HIDE DEF foundP, found
        <5> QED BY <3>2, <4>1, <4>3, <4>5
      <4> QED BY <3>2, <4>4, <4>5, <4>6
    <3>3. CASE ~noted(depth) /\ depth # n
      <4>1. depth \in 1..(n - 1)
        BY <1>1, <2>4, <2>5, <3>3
      <4>2. found(depth) = {}
        BY <3>3
      <4>3. \A j \in 1..m : undo'[j].depth # depth
        BY <2>2, <3>3
      <4>4. undo'[m + 1].depth # depth
        BY <2>2, <3>3
      <4>5. foundP(depth) = {}
        <5>1. \A j \in 1..(m + 1) : j \in 1..m \/ j = m + 1
          BY <1>1
        <5> QED BY <4>3, <4>4, <5>1
      <4> QED BY <1>1, <1>2, <4>1, <4>2, <4>5
    <3> QED BY <3>1, <3>2, <3>3
  <2>7. Undone' = [depth \in 1..first |-> backP(depth)]
    <3> HIDE DEF first
    <3> QED BY <2>2, <2>3 DEF Undone
  <2>8. Undone = [depth \in 1..first |-> back(depth)]
    <3>1. CASE undo # <<>>
      BY <2>2, <3>1 DEF Undone
    <3>2. CASE undo = <<>>
      <4>1. m = 0
        BY <3>2
      <4>2. \A depth \in 1..first : back(depth) = stack[depth]
        BY <4>1
      <4>3. Undone = stack /\ first = n
        BY <3>2 DEF Undone
      <4>4. stack = [depth \in 1..n |-> stack[depth]]
        BY <1>1
      <4> HIDE DEF back, n
      <4> QED BY <4>2, <4>3, <4>4
    <3> QED BY <3>1, <3>2
  <2>9. Undone' = Undone
    <3> HIDE DEF backP, back, first
    <3> QED BY <2>6, <2>7, <2>8
  <2>10. FramesNoted'
    <3> HIDE DEF first, backP, back
    <3> QED BY <2>3, <2>6 DEF FramesNoted
  <2> QED BY <2>9, <2>10
<1> QED BY <1>3, <1>4

-----------------------------------------------------------------------------
(* The calls *)

\* drop_returned drops nothing past the cursor.
LEMMA DroppedBounded ==
    ASSUME Inductive
    PROVE  Dropped \in 0..cursor.offset
<1> DEFINE C    == {0} \cup { LeftContext(rules[i].pattern) : i \in RuleIds }
                       \cup { IF rules[i].lineStart = "any" THEN 0 ELSE 1 : i \in RuleIds }
           keep == IF Columns = "bytes" THEN ContextKept ELSE Max({ContextKept, 3})
           o    == cursor.offset
<1>1. Max(C) \in C /\ \A c \in C : c \in 0..1
  <2>1. \A c \in C : c \in 0..1
    BY DEF LeftContext
  <2>2. C # {}
    OBVIOUS
  <2> HIDE DEF C
  <2> QED BY <2>1, <2>2, MaxOfIntegers
<1>2. ContextKept \in 0..1
  <2>1. ContextKept = Max(C)
    BY DEF ContextKept
  <2> HIDE DEF C
  <2> QED BY <1>1, <2>1
<1>3. Max({ContextKept, 3}) \in {ContextKept, 3}
  <2> DEFINE K == {ContextKept, 3}
  <2>1. K # {} /\ \A c \in K : c \in 0..3
    BY <1>2
  <2> HIDE DEF K
  <2> QED BY <2>1, MaxOfIntegers DEF K
<1>4. keep \in Nat
  BY <1>2, <1>3
<1>5. o \in Nat
  BY BufferWithinText DEF At
<1>6. Min({o, keep}) \in {o, keep} /\ \A y \in {o, keep} : Min({o, keep}) <= y
  <2> DEFINE K == {o, keep}
  <2>1. K # {} /\ K \in SUBSET Nat
    BY <1>4, <1>5
  <2> HIDE DEF K
  <2> QED BY <2>1, MinOfNaturals DEF K
<1>7. Dropped = o - Min({o, keep})
  BY DEF Dropped
<1> HIDE DEF keep, o
<1> QED BY <1>4, <1>5, <1>6, <1>7 DEF o

\* hold_incomplete_tail holds nothing back, or from the last lead on, when it leads more than there is.
LEMMA IncompleteTyped ==
    ASSUME NEW t \in Seq(Char), NEW at \in 0..Len(t)
    PROVE  LET h == Incomplete(t, at)
           IN  /\ h \in 0..(Len(t) - at)
               /\ h # 0 => /\ Columns # "bytes"
                           /\ Announces[t[Len(t) - h + 1]] > h
                           /\ h <= 3
                           /\ \A k \in 1..(h - 1) : Announces[t[Len(t) - k + 1]] = 0
               /\ h = 0 /\ Columns # "bytes" =>
                     \A back \in 1..3 :
                         /\ back <= Len(t) - at
                         /\ \A k \in 1..(back - 1) : Announces[t[Len(t) - k + 1]] = 0
                         => Announces[t[Len(t) - back + 1]] <= back
<1> DEFINE ahead == Len(t) - at
           most  == Min({3, ahead})
           leads == { back \in 1..most : Announces[t[Len(t) - back + 1]] # 0 }
           last  == Min(leads)
           h     == Incomplete(t, at)
<1>1. ahead \in Nat /\ Len(t) \in Nat /\ at \in Nat /\ at <= Len(t)
  OBVIOUS
<1>2. most \in Nat /\ most <= 3 /\ most <= ahead /\ (most = 3 \/ most = ahead)
  <2> DEFINE K == {3, ahead}
  <2>1. K # {} /\ K \in SUBSET Nat
    BY <1>1
  <2>2. Min(K) \in K /\ \A y \in K : Min(K) <= y
    <3> HIDE DEF K
    <3> QED BY <2>1, MinOfNaturals
  <2> QED BY <1>1, <2>2
<1>3. leads # {} => last \in leads /\ \A y \in leads : last <= y
  <2>1. leads \in SUBSET Nat
    BY <1>2
  <2> HIDE DEF leads
  <2> QED BY <2>1, MinOfNaturals
<1>4. \A back \in 1..ahead : t[Len(t) - back + 1] \in Char
  BY <1>1
<1>5. \A back \in 1..ahead : Announces[t[Len(t) - back + 1]] \in Nat
  <2>1. \A c \in Char : Announces[c] \in 0..4
    <3>1. Announces \in [Char -> 0..4]
      BY ScannerAssumption
    <3> QED BY <3>1
  <2>2. \A c \in Char : Announces[c] \in Nat
    BY <2>1
  <2> QED BY <1>4, <2>2
<1>6. h = IF Columns = "bytes" \/ leads = {} THEN 0
          ELSE IF Announces[t[Len(t) - last + 1]] > last THEN last ELSE 0
  BY DEF Incomplete
<1> DEFINE Lead(back) == Announces[t[Len(t) - back + 1]]
<1>7. /\ \A back \in 1..ahead : Lead(back) \in Nat
      /\ h = IF Columns = "bytes" \/ leads = {} THEN 0
             ELSE IF Lead(last) > last THEN last ELSE 0
      /\ leads = { back \in 1..most : Lead(back) # 0 }
  BY <1>5, <1>6
<1> SUFFICES /\ h \in 0..ahead
             /\ h # 0 => /\ Columns # "bytes" /\ Lead(h) > h /\ h <= 3
                         /\ \A k \in 1..(h - 1) : Lead(k) = 0
             /\ h = 0 /\ Columns # "bytes" =>
                   \A back \in 1..3 :
                       back <= ahead /\ (\A k \in 1..(back - 1) : Lead(k) = 0) => Lead(back) <= back
  OBVIOUS
<1> HIDE DEF Lead, leads, last, h, ahead, most
<1>8. CASE h # 0
  <2>1. h = last /\ leads # {} /\ Lead(h) > h /\ Columns # "bytes"
    BY <1>7, <1>8
  <2>2. h \in 1..most /\ \A y \in leads : h <= y
    BY <1>3, <1>7, <2>1
  <2>3. ASSUME NEW k \in 1..(h - 1)
        PROVE  Lead(k) = 0
    <3>1. k \in 1..most /\ k < h
      BY <1>2, <2>2
    <3>2. k \notin leads
      BY <1>2, <2>2, <3>1
    <3> QED BY <1>7, <3>1, <3>2
  <2> QED BY <1>1, <1>2, <1>8, <2>1, <2>2, <2>3
<1>9. CASE h = 0
  <2>1. ASSUME Columns # "bytes", NEW back \in 1..3, back <= ahead,
               \A k \in 1..(back - 1) : Lead(k) = 0
        PROVE  Lead(back) <= back
    <3>1. back \in 1..most /\ back \in 1..ahead
      BY <1>1, <1>2, <2>1
    <3>2. CASE back \notin leads
      BY <1>1, <1>7, <3>1, <3>2
    <3>3. CASE back \in leads
      <4>1. last \in 1..most /\ last <= back /\ Lead(last) # 0
        BY <1>3, <1>7, <3>3
      <4>2. last = back
        BY <1>2, <2>1, <3>1, <4>1
      <4>3. last # 0
        BY <4>1
      <4>4. ~(Lead(last) > last)
        BY <1>7, <1>9, <2>1, <3>3, <4>3
      <4> QED BY <1>7, <3>1, <4>2, <4>4
    <3> QED BY <3>2, <3>3
  <2> QED BY <1>1, <1>9, <2>1
<1> QED BY <1>8, <1>9

\* A sequence cut in two is those two parts.
LEMMA CutTyped ==
    ASSUME NEW S, NEW s \in Seq(S), NEW h \in 0..Len(s)
    PROVE  LET m == Len(s) - h
               p == SubSeq(s, 1, m)
               q == SubSeq(s, m + 1, Len(s))
           IN  /\ p \in Seq(S) /\ Len(p) = m /\ \A i \in 1..m : p[i] = s[i]
               /\ q \in Seq(S) /\ Len(q) = h /\ (h # 0 => q[1] = s[m + 1])
               /\ p \o q = s
<1> DEFINE m == Len(s) - h
           p == SubSeq(s, 1, m)
           q == SubSeq(s, m + 1, Len(s))
<1>1. m \in 0..Len(s) /\ Len(s) - m = h /\ m \in Nat /\ Len(s) \in Nat
  OBVIOUS
<1>2. p \in Seq(S) /\ Len(p) = m /\ \A i \in 1..m : p[i] = s[i]
  <2> HIDE DEF m
  <2> QED BY <1>1, PrefixTyped
<1>3. q \in Seq(S) /\ Len(q) = h /\ \A i \in 1..h : q[i] = s[m + i]
  <2> HIDE DEF m
  <2> QED BY <1>1, SuffixTyped
<1>4. p \o q = s
  <2> HIDE DEF m
  <2>1. p \o q = SubSeq(s, 1, Len(s))
    <3>1. 1 \in 1..(Len(s) + 1) /\ m \in (1 - 1)..Len(s) /\ Len(s) \in m..Len(s)
      BY <1>1
    <3> QED BY <3>1, ConcatAdjacentSubSeq
  <2> QED BY <2>1, SubSeqFull
<1>5. h # 0 => 1 \in 1..h
  OBVIOUS
<1> HIDE DEF m, p, q
<1>6. h # 0 => q[1] = s[m + 1]
  BY <1>3, <1>5
<1> QED BY <1>2, <1>3, <1>4, <1>6 DEF m, p, q

\* What a call does before its scan.
LEMMA BeginTyped ==
    ASSUME Inductive,
           NEW chars \in Seq(Char), NEW hold \in 0..(Len(buffer) + Len(chars) - cursor.offset),
           Begin(chars, hold)
    PROVE  LET b == SubSeq(buffer, Dropped + 1, Len(buffer)) \o chars
           IN  /\ b \in Seq(Char) /\ Len(b) = Len(buffer) - Dropped + Len(chars)
               /\ \A i \in 1..(Len(buffer) - Dropped) : b[i] = buffer[Dropped + i]
               /\ \A i \in 1..Len(chars) : b[Len(buffer) - Dropped + i] = chars[i]
               /\ buffer' \in Seq(Char) /\ Len(buffer') = Len(b) - hold
               /\ \A i \in 1..Len(buffer') : buffer'[i] = b[i]
               /\ tail' \in Seq(Char) /\ Len(tail') = hold
               /\ hold # 0 => tail'[1] = b[Len(b) - hold + 1]
               /\ buffer' \o tail' = b
               /\ base' = base + Dropped
               /\ cursor' \in Positions(0..Len(buffer')) /\ cursor'.offset = cursor.offset - Dropped
               /\ saved' = cursor' /\ undo' = <<>> /\ pc' = "collect"
               /\ stack' \in Seq(Frames) /\ Len(stack') = Len(stack)
<1> DEFINE k    == Dropped
           kept == SubSeq(buffer, k + 1, Len(buffer))
           b    == kept \o chars
           n    == Len(buffer)
           c    == Len(chars)
           o    == cursor.offset
<1>1. /\ n \in Nat /\ o \in 0..n /\ k \in 0..o /\ c \in Nat /\ Word \in Nat /\ Word > 0
      /\ k \in 0..n
  BY BufferWithinText, DroppedBounded DEF At
<1>2. buffer \in Seq(Char) /\ stack \in Seq(Frames) /\ cursor \in Positions(0..n)
  BY DEF Inductive, TypeOK
<1>3. kept \in Seq(Char) /\ Len(kept) = n - k /\ \A i \in 1..(n - k) : kept[i] = buffer[k + i]
  <2> HIDE DEF k
  <2> QED BY <1>1, <1>2, SuffixTyped
<1>4. /\ b \in Seq(Char) /\ Len(b) = n - k + c
      /\ \A i \in 1..(n - k) : b[i] = kept[i]
      /\ \A i \in 1..c : b[n - k + i] = chars[i]
  <2> HIDE DEF kept
  <2>1. /\ b \in Seq(Char) /\ Len(b) = Len(kept) + Len(chars)
        /\ \A i \in 1..Len(kept) : b[i] = kept[i]
        /\ \A i \in 1..Len(chars) : b[Len(kept) + i] = chars[i]
    <3>1. kept \in Seq(Char)
      BY <1>3
    <3> QED BY <3>1
  <2> HIDE DEF b
  <2> QED BY <1>3, <2>1
<1> DEFINE m == Len(b) - hold
<1>5. hold \in 0..Len(b) /\ m \in Nat /\ o - k \in 0..m
  <2> HIDE DEF b, n, k, o
  <2>1. hold \in 0..(n + c - o)
    BY DEF n, o
  <2> HIDE DEF c
  <2> QED BY <1>1, <1>4, <2>1
<1>6. buffer' = SubSeq(b, 1, m) /\ tail' = SubSeq(b, m + 1, Len(b))
  BY DEF Begin
<1>7. /\ buffer' \in Seq(Char) /\ Len(buffer') = m /\ \A i \in 1..m : buffer'[i] = b[i]
      /\ tail' \in Seq(Char) /\ Len(tail') = hold /\ (hold # 0 => tail'[1] = b[m + 1])
      /\ buffer' \o tail' = b
  <2> DEFINE p == SubSeq(b, 1, m)
             q == SubSeq(b, m + 1, Len(b))
  <2>1. b \in Seq(Char) /\ hold \in 0..Len(b)
    BY <1>4, <1>5
  <2>2. /\ p \in Seq(Char) /\ Len(p) = m /\ \A i \in 1..m : p[i] = b[i]
        /\ q \in Seq(Char) /\ Len(q) = hold /\ (hold # 0 => q[1] = b[m + 1])
        /\ p \o q = b
    <3> HIDE DEF b
    <3> QED BY <2>1, CutTyped, Zenon
  <2>3. buffer' = p /\ tail' = q
    BY <1>6
  <2> HIDE DEF p, q, m, b
  <2> QED BY <2>2, <2>3, Zenon
<1>8. base' = base + k /\ saved' = cursor' /\ undo' = <<>> /\ pc' = "collect"
  BY DEF Begin
<1>9. cursor' \in Positions(0..Len(buffer')) /\ cursor'.offset = o - k
  <2>1. cursor' = [cursor EXCEPT !.offset = @ - k]
    BY DEF Begin
  <2> HIDE DEF m, k, b
  <2> QED BY <1>2, <1>5, <1>7, <2>1 DEF Positions
<1>10. stack' \in Seq(Frames) /\ Len(stack') = Len(stack)
  <2>1. stack' = [i \in DOMAIN stack |-> [stack[i] EXCEPT !.entry.offset = (@ - k) % Word]]
    BY DEF Begin
  <2>2. ASSUME NEW i \in DOMAIN stack
        PROVE  [stack[i] EXCEPT !.entry.offset = (@ - k) % Word] \in Frames
    <3>1. stack[i] \in Frames
      BY <1>2
    <3>2. stack[i].entry.offset \in Int
      BY <1>1, <3>1 DEF Frames, Positions
    <3>3. (stack[i].entry.offset - k) % Word \in 0..(Word - 1)
      <4>1. stack[i].entry.offset - k \in Int
        <5> HIDE DEF k
        <5> QED BY <1>1, <3>2
      <4> QED BY <1>1, <4>1, ModBounded
    <3> HIDE DEF k
    <3> QED BY <3>1, <3>3 DEF Frames, Positions
  <2>3. DOMAIN stack = 1..Len(stack) /\ Len(stack) \in Nat
    BY <1>2
  <2> QED BY <2>1, <2>2, <2>3
<1>11. \A i \in 1..(n - k) : b[i] = buffer[k + i]
  BY <1>3, <1>4
<1> HIDE DEF b, k, n, o
<1> QED BY <1>1, <1>4, <1>7, <1>8, <1>9, <1>10, <1>11 DEF b, kept, k, n, o

\* Where the characters of the buffer, and of the tail, are in the text.
LEMMA BufferMembers ==
    ASSUME text \in Seq(Char), buffer \in Seq(Char), tail \in Seq(Char),
           base \in Nat, fed \in 0..Len(text), base + Len(buffer) + Len(tail) = fed, BufferIsText
    PROVE  /\ \A i \in 1..Len(buffer) : buffer[i] = text[base + i]
           /\ \A i \in 1..Len(tail) : tail[i] = text[base + Len(buffer) + i]
<1>0. buffer \o tail = SubSeq(text, base + 1, fed)
  BY DEF BufferIsText
<1>1. base \in 0..fed
  OBVIOUS
<1>2. \A i \in 1..(fed - base) : SubSeq(text, base + 1, fed)[i] = text[base + i]
  BY <1>1, SliceTyped
<1>3. \A i \in 1..(fed - base) : (buffer \o tail)[i] = text[base + i]
  BY <1>0, <1>2
<1>4. ASSUME NEW i \in 1..Len(buffer)
      PROVE  buffer[i] = text[base + i]
  <2>1. (buffer \o tail)[i] = buffer[i]
    BY JoinTyped
  <2>2. i \in 1..(fed - base)
    OBVIOUS
  <2> QED BY <1>3, <2>1, <2>2
<1>5. ASSUME NEW i \in 1..Len(tail)
      PROVE  tail[i] = text[base + Len(buffer) + i]
  <2>1. (buffer \o tail)[Len(buffer) + i] = tail[i] /\ Len(buffer) + i \in 1..(fed - base)
    OBVIOUS
  <2>2. base + (Len(buffer) + i) = base + Len(buffer) + i
    OBVIOUS
  <2> QED BY <1>3, <2>1, <2>2
<1> QED BY <1>4, <1>5

\* Past the first k characters of the buffer, what a call makes of it, with n characters more, goes
\* on being the text.
LEMMA BufferMoves ==
    ASSUME text \in Seq(Char), buffer \in Seq(Char), tail \in Seq(Char),
           base \in Nat, fed \in 0..Len(text), base + Len(buffer) + Len(tail) = fed, BufferIsText,
           NEW n \in Nat, fed + n <= Len(text), NEW k \in 0..Len(buffer)
    PROVE  SubSeq(buffer, k + 1, Len(buffer)) \o (tail \o SubSeq(text, fed + 1, fed + n))
             = SubSeq(text, base + k + 1, fed + n)
<1> DEFINE new  == SubSeq(text, fed + 1, fed + n)
           rest == SubSeq(buffer, k + 1, Len(buffer))
           all  == SubSeq(text, base + k + 1, fed + n)
           sl   == Len(buffer)
           tl   == Len(tail)
<1>1. sl \in Nat /\ tl \in Nat /\ k \in 0..sl /\ base + sl + tl = fed /\ fed \in Nat /\ k \in Nat
  OBVIOUS
<1>2. fed + n \in 0..Len(text) /\ fed \in 0..(fed + n) /\ base + k \in 0..(fed + n) /\ base \in 0..fed
  <2> HIDE DEF sl, tl
  <2> QED BY <1>1
<1>3. new \in Seq(Char) /\ Len(new) = n /\ \A i \in 1..n : new[i] = text[fed + i]
  <2> DEFINE to == fed + n
  <2>1. to - fed = n /\ to \in 0..Len(text) /\ fed \in 0..to
    BY <1>1, <1>2
  <2> HIDE DEF to
  <2>2. /\ SubSeq(text, fed + 1, to) \in Seq(Char)
        /\ Len(SubSeq(text, fed + 1, to)) = to - fed
        /\ \A i \in 1..(to - fed) : SubSeq(text, fed + 1, to)[i] = text[fed + i]
    BY <2>1, SliceTyped
  <2> QED BY <2>1, <2>2 DEF to
<1>4. rest \in Seq(Char) /\ Len(rest) = sl - k /\ \A i \in 1..(sl - k) : rest[i] = buffer[k + i]
  BY SuffixTyped
<1>5. /\ all \in Seq(Char)
      /\ Len(all) = fed + n - (base + k)
      /\ \A i \in 1..(fed + n - (base + k)) : all[i] = text[base + k + i]
  <2> DEFINE to   == fed + n
             from == base + k
  <2> HIDE DEF to, from
  <2>1. /\ SubSeq(text, from + 1, to) \in Seq(Char)
        /\ Len(SubSeq(text, from + 1, to)) = to - from
        /\ \A i \in 1..(to - from) : SubSeq(text, from + 1, to)[i] = text[from + i]
    BY <1>2, SliceTyped DEF to, from
  <2> QED BY <2>1 DEF to, from
<1>6. /\ \A i \in 1..sl : buffer[i] = text[base + i]
      /\ \A i \in 1..tl : tail[i] = text[base + sl + i]
  BY BufferMembers
<1> DEFINE tn   == tail \o new
           join == rest \o tn
<1>7. /\ tn \in Seq(Char) /\ Len(tn) = tl + n
      /\ \A i \in 1..tl : tn[i] = tail[i]
      /\ \A i \in 1..n : tn[tl + i] = new[i]
  <2> HIDE DEF new
  <2>1. Len(new) = n
    BY <1>3
  <2>2. /\ tn \in Seq(Char)
        /\ Len(tn) = Len(tail) + Len(new)
        /\ \A i \in 1..Len(tail) : tn[i] = tail[i]
        /\ \A i \in 1..Len(new) : tn[Len(tail) + i] = new[i]
    <3>1. new \in Seq(Char)
      BY <1>3
    <3> QED BY <3>1
  <2> HIDE DEF tn
  <2> QED BY <2>1, <2>2
<1>8. /\ join \in Seq(Char) /\ Len(join) = sl - k + (tl + n)
      /\ \A i \in 1..(sl - k) : join[i] = rest[i]
      /\ \A i \in 1..(tl + n) : join[sl - k + i] = tn[i]
  <2> HIDE DEF rest, tn
  <2>1. /\ join \in Seq(Char) /\ Len(join) = Len(rest) + Len(tn)
        /\ \A i \in 1..Len(rest) : join[i] = rest[i]
        /\ \A i \in 1..Len(tn) : join[Len(rest) + i] = tn[i]
    <3>1. rest \in Seq(Char) /\ tn \in Seq(Char)
      BY <1>4, <1>7
    <3> QED BY <3>1
  <2> HIDE DEF join, sl, tl
  <2> QED BY <1>4, <1>7, <2>1
<1> HIDE DEF new, rest, all, tn, join, sl, tl
<1>9. Len(join) = Len(all)
  BY <1>1, <1>5, <1>8
<1>10. ASSUME NEW i \in 1..Len(all)
       PROVE  join[i] = all[i]
  <2>1. all[i] = text[base + k + i]
    BY <1>5
  <2>2. CASE i <= sl - k
    <3>1. join[i] = buffer[k + i] /\ k + i \in 1..sl /\ base + (k + i) = base + k + i
      BY <1>1, <1>4, <1>8, <2>2
    <3> QED BY <1>6, <2>1, <3>1
  <2>3. CASE i > sl - k /\ i - (sl - k) <= tl
    <3>1. i - (sl - k) \in 1..tl /\ i - (sl - k) \in 1..(tl + n) /\ sl - k + (i - (sl - k)) = i
          /\ base + sl + (i - (sl - k)) = base + k + i
      BY <1>1, <2>3
    <3>2. join[i] = tail[i - (sl - k)]
      BY <1>7, <1>8, <3>1
    <3> QED BY <1>6, <2>1, <3>1, <3>2
  <2>4. CASE i - (sl - k) > tl
    <3> DEFINE j == i - (sl - k) - tl
    <3>0. i \in 1..(fed + n - (base + k)) /\ fed = base + sl + tl
      BY <1>1, <1>5
    <3>1. j \in 1..n /\ tl + j \in 1..(tl + n) /\ sl - k + (tl + j) = i /\ fed + j = base + k + i
      BY <1>1, <3>0, <2>4
    <3> HIDE DEF j
    <3>2. join[i] = new[j]
      BY <1>7, <1>8, <3>1
    <3> QED BY <1>3, <2>1, <3>1, <3>2
  <2> QED BY <1>1, <1>5, <2>2, <2>3, <2>4
<1>11. join = all
  BY <1>5, <1>8, <1>9, <1>10, SeqEqual
<1> QED BY <1>11 DEF join, tn, rest, new, all

\* A call, given the next n characters of the text, that holds back no more than the tail and those.
LEMMA CallInductive ==
    ASSUME Inductive,
           NEW n \in Nat, fed + n <= Len(text),
           NEW chars, chars = tail \o SubSeq(text, fed + 1, fed + n),
           NEW hold \in 0..(Len(buffer) + Len(chars) - cursor.offset), hold <= Len(chars),
           Begin(chars, hold),
           fed' = fed + n,
           rules' = rules, text' = text, open' = open, out' = out, returned' = returned,
           outcome' = outcome, outcome = Running,
           final' \in BOOLEAN, finished' \in BOOLEAN, final' => finished',
           HeldFromLead'
    PROVE  Inductive'
<1> DEFINE k == Dropped
           b == SubSeq(buffer, k + 1, Len(buffer)) \o chars
           new == SubSeq(text, fed + 1, fed + n)
<1>1. /\ text \in Seq(Char) /\ buffer \in Seq(Char) /\ tail \in Seq(Char)
      /\ base \in Nat /\ fed \in 0..Len(text) /\ base + Len(buffer) + Len(tail) = fed
      /\ Len(buffer) \in Nat /\ Len(tail) \in Nat /\ Len(text) \in Nat
      /\ cursor.offset \in 0..Len(buffer)
  <2>1. text \in Seq(Char) /\ buffer \in Seq(Char) /\ tail \in Seq(Char)
    BY BufferWithinText DEF Inductive, TypeOK
  <2>2. Len(buffer) \in Nat /\ Len(tail) \in Nat /\ Len(text) \in Nat
    BY <2>1
  <2>3. base \in 0..Len(text) /\ fed \in 0..Len(text) /\ base + Len(buffer) + Len(tail) = fed
    BY DEF Inductive, TypeOK, Accounted
  <2>4. cursor.offset \in 0..Len(buffer)
    BY BufferWithinText DEF At
  <2> QED BY <2>1, <2>2, <2>3, <2>4
<1>2. k \in 0..Len(buffer) /\ k \in Nat
  BY <1>1, DroppedBounded
<1>3. new \in Seq(Char) /\ Len(new) = n
  <2> DEFINE to == fed + n
  <2>1. to \in 0..Len(text) /\ fed \in 0..to /\ to - fed = n
    BY <1>1
  <2> HIDE DEF to
  <2>2. SubSeq(text, fed + 1, to) \in Seq(Char) /\ Len(SubSeq(text, fed + 1, to)) = to - fed
    BY <1>1, <2>1, SliceTyped
  <2> QED BY <2>1, <2>2 DEF to
<1>4. chars \in Seq(Char) /\ Len(chars) = Len(tail) + n
  <2> HIDE DEF new
  <2>1. chars = tail \o new
    BY DEF new
  <2>2. tail \o new \in Seq(Char) /\ Len(tail \o new) = Len(tail) + Len(new)
    <3>1. tail \in Seq(Char) /\ new \in Seq(Char)
      BY <1>1, <1>3
    <3> QED BY <3>1
  <2> QED BY <1>3, <2>1, <2>2
<1>5. /\ Len(b) = Len(buffer) - k + Len(chars)
      /\ buffer' \in Seq(Char) /\ Len(buffer') = Len(b) - hold
      /\ tail' \in Seq(Char) /\ Len(tail') = hold
      /\ buffer' \o tail' = b
      /\ base' = base + k
      /\ cursor' \in Positions(0..Len(buffer'))
      /\ saved' = cursor' /\ undo' = <<>> /\ pc' = "collect"
      /\ stack' \in Seq(Frames) /\ Len(stack') = Len(stack)
  BY <1>4, BeginTyped
<1>6. b = SubSeq(text, base + k + 1, fed + n)
  <2>1. BufferIsText
    BY DEF Inductive
  <2> HIDE DEF k
  <2>2. SubSeq(buffer, k + 1, Len(buffer)) \o (tail \o new) = SubSeq(text, base + k + 1, fed + n)
    BY <1>1, <1>2, <2>1, BufferMoves
  <2> QED BY <2>2
<1> HIDE DEF k, b, new
<1>7. BufferIsText'
  BY <1>5, <1>6 DEF BufferIsText
<1> DEFINE bl  == Len(buffer)
           tl  == Len(tail)
           cl  == Len(chars)
           bl2 == Len(buffer')
           tl2 == Len(tail')
<1>a. bl \in Nat /\ tl \in Nat /\ base \in Nat /\ base + bl + tl = fed /\ k \in 0..bl /\ k \in Nat
  BY <1>1, <1>2
<1>b. hold \in Nat /\ hold <= cl /\ cl = tl + n
  <2>1. Len(chars) = tl + n
    BY <1>4
  <2>2. hold \in Nat
    <3> HIDE DEF tl
    <3> QED BY <1>1, <1>a, <2>1
  <2> QED BY <2>1, <2>2
<1>c. bl2 = bl - k + cl - hold /\ tl2 = hold /\ base' = base + k
  <2>1. Len(b) = bl - k + cl
    BY <1>5
  <2>2. bl2 = Len(b) - hold
    BY <1>5
  <2>3. tl2 = hold /\ base' = base + k
    BY <1>5
  <2> HIDE DEF bl, tl, cl, bl2, tl2
  <2> QED BY <1>a, <1>b, <2>1, <2>2, <2>3
<1>8. Accounted'
  <2> HIDE DEF bl, tl, cl, bl2, tl2
  <2>1. base' + bl2 + tl2 = base + bl + cl
    BY <1>a, <1>b, <1>c
  <2>2. base + bl + cl = fed'
    BY <1>a, <1>b
  <2> QED BY <2>1, <2>2 DEF Accounted, bl2, tl2
<1>9. base' \in 0..Len(text') /\ fed' \in 0..Len(text')
  BY <1>1, <1>2, <1>5
<1>10. WalkedIsBuffered'
  <2> DEFINE w == Len(open.walked)
  <2>1. open.at \in Int /\ w \in Nat /\ open.at + w <= base + Len(buffer)
    BY DEF Inductive, TypeOK, WalkedIsBuffered
  <2> HIDE DEF w, bl, tl, cl, bl2, tl2
  <2>2. open.at + w <= base + bl
    BY <2>1 DEF bl
  <2>3. open.at + w <= base' + bl2
    BY <1>a, <1>b, <1>c, <2>1, <2>2
  <2> QED BY <2>3 DEF WalkedIsBuffered, w, bl2
<1>11. FramesNoted'
  BY <1>5 DEF FramesNoted
<1>12. TypeOK'
  <2>1. ModeNames' = ModeNames
    BY DEF ModeNames, Targets, RuleIds
  <2>2. Frames' = Frames
    BY <2>1 DEF Frames
  <2>3. undo' \in Seq([depth : 1..MaxDepth, top : Frames])
    BY <1>5
  <2>4. /\ rules' \in Grammars /\ text' \in Texts
        /\ open' = [unit |-> open'.unit, at |-> open'.at, walked |-> open'.walked]
        /\ open'.at \in Int /\ open'.walked \in Seq(Char)
    BY DEF Inductive, TypeOK
  <2>5. Tokens' = Tokens
    BY <2>1 DEF Tokens, Kinds, RuleIds
  <2>6. out' \in Seq(Tokens) /\ returned' \in Seq(Tokens)
    BY DEF Inductive, TypeOK
  <2> QED BY <1>5, <1>9, <2>2, <2>3, <2>4, <2>5, <2>6 DEF TypeOK
<1>13. saved'.offset <= cursor'.offset
  <2>1. cursor'.offset \in Int
    BY <1>5 DEF Positions
  <2> QED BY <1>5, <2>1
<1>14. Len(stack') \in 1..MaxDepth
  BY <1>5 DEF Inductive
<1>15. CallsApart'
  BY <1>5 DEF CallsApart
<1> QED BY <1>7, <1>8, <1>10, <1>11, <1>12, <1>13, <1>14, <1>15 DEF Inductive

\* What feed holds back is no more than the tail and the piece: it never reaches what was lexed.
LEMMA HoldWithinPiece ==
    ASSUME Inductive, ~finished,
           NEW chars \in Seq(Char), tail # <<>> => Len(chars) > 0 /\ chars[1] = tail[1],
           NEW b \in Seq(Char),
           Len(b) = Len(buffer) - Dropped + Len(chars),
           \A i \in 1..(Len(buffer) - Dropped) : b[i] = buffer[Dropped + i],
           \A i \in 1..Len(chars) : b[Len(buffer) - Dropped + i] = chars[i]
    PROVE  Incomplete(b, cursor.offset - Dropped) <= Len(chars)
<1> DEFINE k == Dropped
           h == Incomplete(b, cursor.offset - k)
           n == Len(buffer)
           c == Len(chars)
           o == cursor.offset
           s == saved.offset
<1>1. n \in Nat /\ c \in Nat /\ o \in 0..n /\ k \in 0..o /\ s \in 0..o
  BY BufferWithinText, DroppedBounded DEF At
<1>2. o - k \in 0..Len(b) /\ Len(b) = n - k + c
  <2>1. Len(b) = n - k + c
    OBVIOUS
  <2> HIDE DEF k, n, c, o
  <2> QED BY <1>1, <2>1
<1>3. /\ h \in 0..(Len(b) - (o - k))
      /\ h # 0 => /\ Columns # "bytes"
                  /\ Announces[b[Len(b) - h + 1]] > h
                  /\ h <= 3
                  /\ \A i \in 1..(h - 1) : Announces[b[Len(b) - i + 1]] = 0
  <2> DEFINE at == o - k
  <2>1. at \in 0..Len(b)
    BY <1>2
  <2> HIDE DEF at
  <2> QED BY <2>1, IncompleteTyped DEF at
<1>4. \A i \in 1..Len(b) : b[i] \in Char /\ Announces[b[i]] \in Nat
  BY ScannerAssumption
<1>5. /\ \A i \in 1..(n - k) : b[i] = buffer[k + i]
      /\ \A i \in 1..c : b[n - k + i] = chars[i]
  OBVIOUS
<1>6. /\ tail # <<>> => c > 0 /\ chars[1] = tail[1] /\ Announces[tail[1]] # 0
      /\ tail = <<>> /\ Columns # "bytes" =>
            \A back \in 1..3 :
                /\ back <= n - s
                /\ \A i \in 1..(back - 1) : Announces[buffer[n - i + 1]] = 0
                => Announces[buffer[n - back + 1]] <= back
  BY DEF Inductive, HeldFromLead
<1> SUFFICES ASSUME h > c
             PROVE  FALSE
  <2>1. h \in Int
    BY <1>2, <1>3
  <2> HIDE DEF h, c
  <2>2. h <= c
    BY <1>1, <2>1
  <2> QED BY <2>2 DEF h, c
<1> HIDE DEF h, k, n, c, o, s
<1>7. /\ Announces[b[Len(b) - h + 1]] > h /\ h <= 3 /\ Columns # "bytes" /\ h \in Nat
      /\ h <= n - k + c - (o - k)
      /\ \A i \in 1..(h - 1) : Announces[b[Len(b) - i + 1]] = 0
  BY <1>1, <1>2, <1>3
<1>n. h \in Nat /\ h <= 3 /\ h > c /\ h <= n - k + c - (o - k)
  BY <1>7
<1>8. CASE tail # <<>>
  <2>0. c > 0
    BY <1>6, <1>8
  <2>1. c \in 1..(h - 1) /\ Len(b) - c + 1 = n - k + 1 /\ 1 \in 1..c
    <3>1. c \in 1..(h - 1) /\ 1 \in 1..c
      BY <1>1, <1>n, <2>0
    <3>2. Len(b) - c + 1 = n - k + 1
      BY <1>1, <1>2
    <3> QED BY <3>1, <3>2
  <2>2. Announces[b[n - k + 1]] = 0
    BY <1>7, <2>1
  <2>3. b[n - k + 1] = tail[1]
    BY <1>5, <1>6, <1>8, <2>1
  <2> QED BY <1>6, <1>8, <2>2, <2>3
<1>9. CASE tail = <<>>
  <2> DEFINE back == h - c
  <2>1. back \in 1..3 /\ back <= n - s /\ back <= n - k /\ back + c = h
    BY <1>1, <1>n
  <2>2. ASSUME NEW i \in 1..back
        PROVE  buffer[n - i + 1] = b[Len(b) - (c + i) + 1] /\ Len(b) - (c + i) + 1 \in 1..Len(b)
    <3> HIDE DEF back
    <3>1. /\ Len(b) - (c + i) + 1 = n - k - i + 1 /\ n - k - i + 1 \in 1..(n - k)
          /\ k + (n - k - i + 1) = n - i + 1 /\ n - k - i + 1 \in 1..Len(b)
      BY <1>1, <1>2, <2>1
    <3> QED BY <1>5, <3>1
  <2>3. ASSUME NEW i \in 1..(back - 1)
        PROVE  Announces[buffer[n - i + 1]] = 0
    <3> HIDE DEF back
    <3>1. i \in 1..back /\ c + i \in 1..(h - 1)
      BY <1>1, <2>1
    <3> QED BY <1>7, <2>2, <3>1
  <2>4. Announces[buffer[n - back + 1]] <= back
    BY <1>6, <1>7, <1>9, <2>1, <2>3
  <2>5. back \in 1..back /\ c + back = h
    BY <1>1, <2>1
  <2>6. Announces[buffer[n - back + 1]] = Announces[b[Len(b) - h + 1]]
        /\ Announces[b[Len(b) - h + 1]] \in Nat
    <3>1. buffer[n - back + 1] = b[Len(b) - (c + back) + 1]
          /\ Len(b) - (c + back) + 1 \in 1..Len(b)
      <4> HIDE DEF back
      <4> QED BY <2>2, <2>5
    <3> HIDE DEF back
    <3> QED BY <1>4, <2>5, <3>1
  <2> HIDE DEF back
  <2> QED BY <1>1, <1>7, <2>1, <2>4, <2>6
<1> QED BY <1>8, <1>9

\* A feed keeps the invariant.
LEMMA FeedInductive ==
    ASSUME Inductive, NEW n \in 0..MaxPiece, Feed(n)
    PROVE  Inductive'
<1> DEFINE k     == Dropped
           chars == tail \o SubSeq(text, fed + 1, fed + n)
           b     == SubSeq(buffer, k + 1, Len(buffer)) \o chars
           at    == cursor.offset - k
           hold  == Incomplete(b, at)
           bl    == Len(buffer)
           cl    == Len(chars)
           lb    == Len(b)
<1>1. n \in Nat /\ fed + n <= Len(text)
  BY StreamAssumption DEF Feed, Arrived
<1>2. ~finished /\ Begin(chars, hold) /\ fed' = fed + n /\ final' = FALSE
      /\ rules' = rules /\ text' = text /\ open' = open /\ finished' = finished
      /\ out' = out /\ returned' = returned /\ outcome' = outcome
  BY DEF Feed, Arrived
<1>3. /\ bl \in Nat /\ cursor.offset \in 0..bl /\ k \in 0..cursor.offset /\ k \in 0..bl
      /\ buffer \in Seq(Char) /\ tail \in Seq(Char) /\ text \in Seq(Char) /\ fed \in 0..Len(text)
  <2>1. bl \in Nat /\ cursor.offset \in 0..bl
    BY BufferWithinText DEF At
  <2>2. k \in 0..cursor.offset
    BY DroppedBounded
  <2>3. buffer \in Seq(Char) /\ tail \in Seq(Char) /\ text \in Seq(Char)
    BY BufferWithinText DEF Inductive, TypeOK
  <2>4. fed \in 0..Len(text)
    BY DEF Inductive, TypeOK
  <2> HIDE DEF k, bl
  <2> QED BY <2>1, <2>2, <2>3, <2>4
<1>4. chars \in Seq(Char) /\ cl \in Nat /\ (tail # <<>> => cl > 0 /\ chars[1] = tail[1])
  <2> DEFINE new == SubSeq(text, fed + 1, fed + n)
  <2>1. new \in Seq(Char)
    <3> DEFINE to == fed + n
    <3>1. to \in 0..Len(text) /\ fed \in 0..to
      BY <1>1, <1>3
    <3> HIDE DEF to
    <3>2. SubSeq(text, fed + 1, to) \in Seq(Char)
      BY <1>3, <3>1, SliceTyped
    <3> QED BY <3>2 DEF to
  <2> HIDE DEF new
  <2>2. tail \o new \in Seq(Char) /\ Len(tail \o new) = Len(tail) + Len(new)
        /\ \A i \in 1..Len(tail) : (tail \o new)[i] = tail[i]
    BY <1>3, <2>1
  <2>3. chars = tail \o new
    BY DEF new
  <2>4. tail # <<>> => 1 \in 1..Len(tail) /\ Len(tail) > 0
    BY <1>3
  <2>5. Len(new) \in Nat /\ Len(tail) \in Nat
    BY <1>3, <2>1
  <2> HIDE DEF chars
  <2> QED BY <2>2, <2>3, <2>4, <2>5
<1> HIDE DEF chars
<1>5. /\ b \in Seq(Char) /\ lb = bl - k + cl
      /\ \A i \in 1..(bl - k) : b[i] = buffer[k + i]
      /\ \A i \in 1..cl : b[bl - k + i] = chars[i]
  <2> DEFINE kept == SubSeq(buffer, k + 1, Len(buffer))
  <2>1. kept \in Seq(Char) /\ Len(kept) = bl - k /\ \A i \in 1..(bl - k) : kept[i] = buffer[k + i]
    <3> HIDE DEF k
    <3> QED BY <1>3, SuffixTyped
  <2> HIDE DEF kept
  <2>2. /\ kept \o chars \in Seq(Char) /\ Len(kept \o chars) = Len(kept) + Len(chars)
        /\ \A i \in 1..Len(kept) : (kept \o chars)[i] = kept[i]
        /\ \A i \in 1..Len(chars) : (kept \o chars)[Len(kept) + i] = chars[i]
    <3>1. kept \in Seq(Char) /\ chars \in Seq(Char)
      BY <1>4, <2>1
    <3> QED BY <3>1
  <2>3. b = kept \o chars
    BY DEF kept
  <2> HIDE DEF b
  <2> QED BY <2>1, <2>2, <2>3
<1>6. at \in 0..lb /\ lb \in Nat
  <2> HIDE DEF lb, bl, cl, k
  <2> QED BY <1>3, <1>4, <1>5
<1>7. /\ hold \in 0..(lb - at)
      /\ hold # 0 => Columns # "bytes" /\ Announces[b[lb - hold + 1]] > hold
      /\ hold = 0 /\ Columns # "bytes" =>
            \A back \in 1..3 :
                /\ back <= lb - at
                /\ \A i \in 1..(back - 1) : Announces[b[lb - i + 1]] = 0
                => Announces[b[lb - back + 1]] <= back
  <2> HIDE DEF b, at
  <2> QED BY <1>5, <1>6, IncompleteTyped
<1>8. hold <= cl
  <2> HIDE DEF b
  <2>1. hold = Incomplete(b, cursor.offset - Dropped)
    OBVIOUS
  <2> HIDE DEF hold
  <2> QED BY <1>2, <1>4, <1>5, <2>1, HoldWithinPiece
<1>9. hold \in 0..(Len(buffer) + Len(chars) - cursor.offset)
  <2>1. lb - at = bl + cl - cursor.offset
    <3> HIDE DEF lb, bl, cl, k
    <3> QED BY <1>3, <1>4, <1>5
  <2> HIDE DEF hold
  <2> QED BY <1>7, <2>1
<1>10. /\ buffer' \in Seq(Char) /\ Len(buffer') = lb - hold
       /\ \A i \in 1..Len(buffer') : buffer'[i] = b[i]
       /\ tail' \in Seq(Char) /\ Len(tail') = hold
       /\ hold # 0 => tail'[1] = b[lb - hold + 1]
       /\ saved' = cursor' /\ cursor'.offset = at
  <2> HIDE DEF hold
  <2> QED BY <1>2, <1>4, <1>9, BeginTyped
<1>11. HeldFromLead'
  <2> HIDE DEF b, hold, at, lb
  <2>1. hold \in Nat /\ at \in Nat /\ hold <= lb
    BY <1>6, <1>7
  <2>2. CASE hold # 0
    <3>1. tail' # <<>>
      BY <1>10, <2>2
    <3>2. Announces[tail'[1]] > hold /\ Columns # "bytes"
      BY <1>7, <1>10, <2>2
    <3>3. Announces[tail'[1]] # 0
      <4>1. tail'[1] \in Char
        BY <1>10, <3>1
      <4>2. Announces[tail'[1]] \in Nat
        BY <4>1, ScannerAssumption
      <4> QED BY <2>1, <2>2, <3>2, <4>2
    <3> QED BY <3>1, <3>2, <3>3 DEF HeldFromLead
  <2>3. CASE hold = 0
    <3>1. tail' = <<>>
      BY <1>10, <2>3
    <3>2. Len(buffer') = lb /\ \A i \in 1..lb : buffer'[i] = b[i]
      BY <1>6, <1>10, <2>3
    <3>3. ASSUME Columns # "bytes", NEW back \in 1..3, back <= Len(buffer') - saved'.offset,
                 \A i \in 1..(back - 1) : Announces[buffer'[Len(buffer') - i + 1]] = 0
          PROVE  Announces[buffer'[Len(buffer') - back + 1]] <= back
      <4>1. back <= lb - at
        BY <1>10, <3>2, <3>3
      <4>2. \A i \in 1..back : lb - i + 1 \in 1..lb
        BY <1>6, <2>1, <4>1
      <4>3. \A i \in 1..(back - 1) : Announces[b[lb - i + 1]] = 0
        BY <3>2, <3>3, <4>2
      <4>4. Announces[b[lb - back + 1]] <= back
        BY <1>7, <2>3, <3>3, <4>1, <4>3
      <4> QED BY <3>2, <4>2, <4>4
    <3> QED BY <3>1, <3>3 DEF HeldFromLead
  <2> QED BY <2>2, <2>3
<1>12. final' \in BOOLEAN /\ finished' \in BOOLEAN
  BY <1>2 DEF Inductive, TypeOK
<1>13. chars = tail \o SubSeq(text, fed + 1, fed + n)
  BY DEF chars
<1>14. outcome = Running /\ (final' => finished')
  BY <1>2 DEF Inductive, CallsApart
<1> HIDE DEF hold
<1> QED BY <1>1, <1>2, <1>8, <1>9, <1>11, <1>12, <1>13, <1>14, CallInductive

\* And so does finish: what was held back comes back.
LEMMA FinishInductive ==
    ASSUME Inductive, Finish
    PROVE  Inductive'
<1>1. /\ tail \in Seq(Char) /\ text \in Seq(Char) /\ fed \in Nat /\ fed + 0 <= Len(text)
      /\ Len(buffer) \in Nat /\ cursor.offset \in 0..Len(buffer)
  BY BufferWithinText DEF Inductive, TypeOK, At
<1>2. tail = tail \o SubSeq(text, fed + 1, fed + 0)
  <2>1. SubSeq(text, fed + 1, fed + 0) = <<>>
    BY <1>1, SubSeqEmpty
  <2>2. tail \o <<>> = tail
    BY <1>1, ConcatEmptySeq
  <2> QED BY <2>1, <2>2
<1>3. Begin(tail, 0) /\ fed' = fed + 0 /\ rules' = rules /\ text' = text /\ open' = open
      /\ final' = TRUE /\ finished' = TRUE
      /\ out' = out /\ returned' = returned /\ outcome' = outcome /\ ~finished
  BY <1>1 DEF Finish
<1>4. 0 \in 0..(Len(buffer) + Len(tail) - cursor.offset) /\ 0 <= Len(tail)
  <2>1. Len(tail) \in Nat
    BY <1>1
  <2> QED BY <1>1, <2>1
<1>5. HeldFromLead'
  <2>1. Len(tail') = 0 /\ tail' \in Seq(Char)
    BY <1>1, <1>3, <1>4, BeginTyped
  <2>2. tail' = <<>>
    BY <2>1
  <2> QED BY <1>3, <2>2 DEF HeldFromLead
<1>6. outcome = Running
  BY <1>3 DEF Inductive, CallsApart
<1> QED BY <1>1, <1>2, <1>3, <1>4, <1>5, <1>6, CallInductive

-----------------------------------------------------------------------------
(* The turns of the scan *)

\* A transition is noted as a depth within the bound and a frame.
LEMMA NotedTyped ==
    ASSUME Inductive, NEW rule
    PROVE  Noted(rule) \in Seq([depth : 1..MaxDepth, top : Frames])
<1> DEFINE note == [depth |-> Len(stack), top |-> Last(stack)]
           E    == [depth : 1..MaxDepth, top : Frames]
<1>1. undo \in Seq(E)
  BY DEF Inductive, TypeOK
<1>2. note \in E
  <2>1. stack \in Seq(Frames) /\ Len(stack) \in 1..MaxDepth /\ Len(stack) \in 1..Len(stack)
    BY DEF Inductive, TypeOK
  <2>2. stack[Len(stack)] \in Frames
    BY <2>1
  <2> QED BY <2>1, <2>2 DEF Last
<1>3. Noted(rule) \in {undo, Append(undo, note)}
  BY DEF Noted
<1> HIDE DEF note, E
<1>4. Append(undo, note) \in Seq(E)
  BY <1>1, <1>2
<1> QED BY <1>1, <1>3, <1>4 DEF E

\* A refused transition is noted too, of a stack left as it was.
LEMMA RefusedNoted ==
    ASSUME Inductive, NEW rule, stack' = stack, undo' = Noted(rule)
    PROVE  FramesNoted'
<1> DEFINE n    == Len(stack)
           m    == Len(undo)
           note == [depth |-> n, top |-> Last(stack)]
<1>1. n \in Nat /\ m \in Nat /\ DOMAIN undo = 1..m /\ (undo # <<>> <=> 1 \in 1..m)
  BY UndoTyped DEF Inductive, TypeOK
<1>2. undo \in Seq([depth : 1..MaxDepth, top : Frames])
  BY DEF Inductive, TypeOK
<1>3. CASE undo' = undo
  BY <1>3 DEF Inductive, FramesNoted
<1>4. CASE undo' = Append(undo, note)
  <2>1. DOMAIN undo' = 1..(m + 1) /\ undo'[m + 1] = note /\ \A j \in 1..m : undo'[j] = undo[j]
    <3> HIDE DEF note
    <3> QED BY <1>2, <1>4
  <2>2. CASE undo = <<>>
    <3>1. undo'[1].depth = n
      <4>1. m = 0
        BY <2>2
      <4> QED BY <2>1, <4>1
    <3>2. \A depth \in 1..n : depth <= Len(stack')
      BY <1>1
    <3> QED BY <3>1, <3>2 DEF FramesNoted
  <2>3. CASE undo # <<>>
    <3>1. undo'[1] = undo[1]
      BY <1>1, <2>1, <2>3
    <3>2. \A j \in DOMAIN undo : j \in DOMAIN undo' /\ undo'[j] = undo[j]
      BY <1>1, <2>1
    <3>3. \A depth \in 1..undo[1].depth :
              depth <= Len(stack) \/ \E j \in DOMAIN undo : undo[j].depth = depth
      BY <2>3 DEF Inductive, FramesNoted
    <3> QED BY <3>1, <3>2, <3>3 DEF FramesNoted
  <2> QED BY <2>2, <2>3
<1> QED BY <1>3, <1>4 DEF Noted

\* What a turn of the scan has to keep, the buffer being left alone.
LEMMA TurnInductive ==
    ASSUME Inductive,
           UNCHANGED <<rules, text, fed, buffer, base, tail>>,
           cursor' \in Positions(0..Len(buffer)), saved' \in Positions(0..Len(buffer)),
           saved.offset <= saved'.offset, saved'.offset <= cursor'.offset,
           stack' \in Seq(Frames), Len(stack') \in 1..MaxDepth,
           undo' \in Seq([depth : 1..MaxDepth, top : Frames]), FramesNoted',
           open' = [unit |-> open'.unit, at |-> open'.at, walked |-> open'.walked],
           open'.at \in Int, open'.walked \in Seq(Char), WalkedIsBuffered',
           pc' \in {"idle", "collect"}, final' \in BOOLEAN,
           finished' \in {finished, TRUE},
           out' \in Seq(Tokens), returned' \in Seq(Tokens), CallsApart'
    PROVE  Inductive'
<1>1. ModeNames' = ModeNames
  BY DEF ModeNames, Targets, RuleIds
<1>2. Frames' = Frames
  BY <1>1 DEF Frames
<1>3. TypeOK'
  <2>1. Tokens' = Tokens
    BY <1>1 DEF Tokens, Kinds, RuleIds
  <2> QED BY <1>2, <2>1 DEF Inductive, TypeOK
<1>4. BufferIsText' /\ Accounted'
  BY DEF Inductive, BufferIsText, Accounted
<1>5. HeldFromLead'
  <2>1. tail # <<>> => Columns # "bytes" /\ Announces[tail[1]] # 0
    BY DEF Inductive, HeldFromLead
  <2>2. ASSUME tail = <<>>, ~finished', Columns # "bytes", NEW back \in 1..3,
               back <= Len(buffer) - saved'.offset,
               \A k \in 1..(back - 1) : Announces[buffer[Len(buffer) - k + 1]] = 0
        PROVE  Announces[buffer[Len(buffer) - back + 1]] <= back
    <3>1. ~finished
      BY <2>2 DEF Inductive, TypeOK
    <3>2. back <= Len(buffer) - saved.offset
      <4>1. saved'.offset \in Int
        BY BufferWithinText DEF Positions
      <4>2. saved.offset \in Int /\ Len(buffer) \in Int
        BY BufferWithinText
      <4>3. back \in Int /\ back <= Len(buffer) - saved'.offset
        BY <2>2
      <4>4. saved.offset <= saved'.offset
        OBVIOUS
      <4> HIDE <2>2
      <4> QED BY <4>1, <4>2, <4>3, <4>4
    <3>3. HeldFromLead
      BY DEF Inductive
    <3> QED BY <2>2, <3>1, <3>2, <3>3 DEF HeldFromLead
  <2> QED BY <2>1, <2>2 DEF HeldFromLead
<1> QED BY <1>3, <1>4, <1>5 DEF Inductive

\* What every turn starts from.
LEMMA TurnStart ==
    ASSUME Inductive
    PROVE  /\ cursor \in Positions(0..Len(buffer)) /\ saved \in Positions(0..Len(buffer))
           /\ cursor \in Positions(0..(Word - 1))
           /\ saved.offset <= cursor.offset /\ saved.offset \in Int /\ cursor.offset \in Int
           /\ stack \in Seq(Frames) /\ Len(stack) \in 1..MaxDepth
           /\ undo \in Seq([depth : 1..MaxDepth, top : Frames]) /\ FramesNoted
           /\ open = [unit |-> open.unit, at |-> open.at, walked |-> open.walked]
           /\ open.at \in Int /\ open.walked \in Seq(Char) /\ WalkedIsBuffered
           /\ pc \in {"idle", "collect"} /\ final \in BOOLEAN /\ finished \in BOOLEAN
           /\ rules \in Grammars
           /\ out \in Seq(Tokens) /\ returned \in Seq(Tokens) /\ CallsApart
<1>1. cursor \in Positions(0..Len(buffer))
  BY DEF Inductive, TypeOK
<1>2. Positions(0..Len(buffer)) \subseteq Positions(0..(Word - 1))
  <2>1. Len(buffer) \in Nat /\ Len(buffer) < Word /\ Word \in Nat
    BY BufferWithinText
  <2>2. 0..Len(buffer) \subseteq 0..(Word - 1)
    BY <2>1
  <2> QED BY <2>2 DEF Positions
<1>3. saved.offset \in Int /\ cursor.offset \in Int
  BY DEF Inductive, TypeOK, Positions
<1> QED BY <1>1, <1>2, <1>3 DEF Inductive, TypeOK

\* A skip match.
LEMMA SkipInductive ==
    ASSUME Inductive, pc = "collect", Skip(Turn)
    PROVE  Inductive' /\ Undone' = Undone
<1> DEFINE i == Turn.munch.idx
<1>1. /\ Turn.meets = "match" /\ ~Refused(rules[i], stack)
      /\ cursor' = Past(Turn) /\ stack' = Transition(rules[i], cursor, stack)
      /\ undo' = Noted(rules[i])
      /\ UNCHANGED <<rules, text, fed, buffer, base, tail, saved, open, finished, pc, final>>
      /\ UNCHANGED <<out, returned, outcome>>
  BY DEF Skip, Won, bufferVars, callVars
<1>2. i \in RuleIds
  BY <1>1, TurnBounded
<1>3. cursor' \in Positions(0..Len(buffer)) /\ cursor'.offset > cursor.offset
  BY <1>1, PastTyped
<1> HIDE DEF i
<1>4. stack' \in Seq(Frames) /\ Len(stack') \in 1..MaxDepth
  BY <1>1, <1>2, TurnStart, TransitionTyped
<1>5. FramesNoted' /\ Undone' = Undone
  BY <1>1, <1>2, TurnStart, NotedRestores
<1>6. undo' \in Seq([depth : 1..MaxDepth, top : Frames])
  BY <1>1, NotedTyped
<1>7. saved.offset <= cursor'.offset
  <2>1. cursor'.offset \in Int
    BY <1>3 DEF Positions
  <2> QED BY <1>3, <2>1, TurnStart
<1>8. WalkedIsBuffered'
  BY <1>1, TurnStart DEF WalkedIsBuffered
<1>9. CallsApart'
  BY <1>1, TurnStart DEF CallsApart
<1> QED BY <1>1, <1>3, <1>4, <1>5, <1>6, <1>7, <1>8, <1>9, TurnStart, TurnInductive

\* A token is a piece of the buffer at the cursor, in the mode on top of the stack.
LEMMA TokenTyped ==
    ASSUME Inductive, NEW kind \in Kinds, NEW end, end.offset \in At..Len(buffer)
    PROVE  Token(kind, end, Mode) \in Tokens
<1>1. /\ buffer \in Seq(Char) /\ At \in 0..end.offset /\ end.offset \in 0..Len(buffer)
      /\ base \in Nat /\ Word \in Nat /\ Word > 0
  <2>1. Len(buffer) \in Nat /\ At \in 0..Len(buffer) /\ Word \in Nat /\ Word > 0
    BY BufferWithinText
  <2>2. buffer \in Seq(Char) /\ base \in Nat
    BY DEF Inductive, TypeOK
  <2> QED BY <2>1, <2>2
<1>2. SubSeq(buffer, At + 1, end.offset) \in Seq(Char)
  BY <1>1, SliceTyped
<1>3. Mode \in ModeNames
  <2>1. Len(stack) \in 1..Len(stack)
    BY TurnStart
  <2>2. stack[Len(stack)] \in Frames
    BY <2>1, TurnStart
  <2> QED BY <2>2 DEF Mode, Last, Frames
<1>4. InText(cursor) \in Positions(0..(Word - 1))
  <2>1. cursor.offset + base \in Int
    BY <1>1, TurnStart
  <2>2. (cursor.offset + base) % Word \in 0..(Word - 1)
    BY <1>1, <2>1
  <2> QED BY <2>2, TurnStart DEF InText, Positions
<1> QED BY <1>2, <1>3, <1>4 DEF Token, Tokens

\* A turn that produces a token at a stack within its bounds.
LEMMA ProduceInductive ==
    ASSUME Inductive, pc = "collect",
           NEW token \in Tokens, NEW past \in Positions(0..Len(buffer)), past.offset >= cursor.offset,
           Produce(token, past),
           stack' \in Seq(Frames), Len(stack') \in 1..MaxDepth
    PROVE  Inductive'
<1>1. /\ cursor' = past /\ saved' = past /\ undo' = <<>>
      /\ UNCHANGED <<rules, text, fed, buffer, base, tail, open, finished, pc, final>>
      /\ UNCHANGED <<returned, outcome>> /\ out' = Append(out, token)
  BY DEF Produce, bufferVars
<1>2. past.offset \in Int
  BY DEF Positions
<1>3. saved.offset <= saved'.offset /\ saved'.offset <= cursor'.offset
  BY <1>1, <1>2, TurnStart
<1>4. FramesNoted' /\ undo' \in Seq([depth : 1..MaxDepth, top : Frames])
  BY <1>1 DEF FramesNoted
<1>5. WalkedIsBuffered'
  BY <1>1, TurnStart DEF WalkedIsBuffered
<1>6. out' \in Seq(Tokens)
  BY <1>1, TurnStart
<1>7. CallsApart'
  BY <1>1, TurnStart DEF CallsApart
<1> QED BY <1>1, <1>3, <1>4, <1>5, <1>6, <1>7, TurnStart, TurnInductive

\* A match that is a token, an error run and the error an open mode ends with.
LEMMA EmitInductive ==
    ASSUME Inductive, pc = "collect", Emit(Turn) \/ EmitErrorRun(Turn) \/ EmitUnterminated(Turn)
    PROVE  /\ Inductive'
           /\ \E token \in Tokens : out' = Append(out, token) /\ returned' = returned
<1>0. Len(buffer) \in Nat /\ At \in 0..Len(buffer) /\ At = cursor.offset /\ cursor.offset \in Int
  BY BufferWithinText, TurnStart DEF At
<1>4. ErrorKind \in Kinds
  BY DEF Kinds
<1>1. CASE Emit(Turn)
  <2> DEFINE i     == Turn.munch.idx
             token == Token(rules[i].kind, Past(Turn), Mode)
  <2>1. /\ Turn.meets = "match" /\ ~Refused(rules[i], stack)
        /\ stack' = Transition(rules[i], cursor, stack)
        /\ Produce(token, Past(Turn))
    BY <1>1 DEF Emit, Won
  <2>2. i \in RuleIds
    BY <2>1, TurnBounded
  <2>3. Past(Turn) \in Positions(0..Len(buffer)) /\ Past(Turn).offset > cursor.offset
    BY <2>1, PastTyped
  <2>4. Past(Turn).offset >= cursor.offset /\ Past(Turn).offset \in At..Len(buffer)
    <3>1. Past(Turn).offset \in 0..Len(buffer)
      BY <2>3 DEF Positions
    <3> QED BY <1>0, <2>3, <3>1
  <2>5. rules[i].kind \in Kinds
    <3> HIDE DEF i
    <3> QED BY <2>2 DEF Kinds
  <2>6. token \in Tokens
    <3> HIDE DEF i
    <3> QED BY <2>4, <2>5, TokenTyped
  <2> HIDE DEF i, token
  <2>7. stack' \in Seq(Frames) /\ Len(stack') \in 1..MaxDepth
    BY <2>1, <2>2, TurnStart, TransitionTyped
  <2>8. out' = Append(out, token) /\ returned' = returned
    BY <2>1 DEF Produce
  <2> QED BY <2>1, <2>3, <2>4, <2>6, <2>7, <2>8, ProduceInductive
<1>2. CASE EmitErrorRun(Turn)
  <2> DEFINE n     == RunStop - At
             end   == Advance(buffer, cursor, n)
             token == Token(ErrorKind, end, Mode)
  <2>1. Turn.meets = "nothing" /\ stack' = stack /\ Produce(token, end)
    BY <1>2 DEF EmitErrorRun
  <2>2. ~AtEnd
    BY <2>1, TurnBounded
  <2>3. RunStop \in (At + 1)..Len(buffer)
    BY <2>2, RunStopBounded
  <2>4. n \in 0..(Len(buffer) - cursor.offset) /\ n \in Nat
    BY <1>0, <2>3
  <2> HIDE DEF n
  <2>5. end \in Positions(0..Len(buffer)) /\ end.offset = cursor.offset + n
    <3>1. buffer \in Seq(Char)
      BY DEF Inductive, TypeOK
    <3> QED BY <2>4, <3>1, TurnStart, AdvanceTyped
  <2> HIDE DEF end
  <2>6. end.offset >= cursor.offset /\ end.offset \in At..Len(buffer)
    BY <1>0, <2>4, <2>5
  <2>7. token \in Tokens
    BY <1>4, <2>6, TokenTyped
  <2> HIDE DEF token
  <2>8. out' = Append(out, token) /\ returned' = returned
    BY <2>1 DEF Produce
  <2> QED BY <2>1, <2>5, <2>6, <2>7, <2>8, TurnStart, ProduceInductive
<1>3. CASE EmitUnterminated(Turn)
  <2> DEFINE token == Token(ErrorKind, cursor, Mode)
  <2>1. Len(stack) > 1 /\ stack' = SubSeq(stack, 1, 1) /\ Produce(token, cursor)
    BY <1>3 DEF EmitUnterminated
  <2>2. 1 \in 0..Len(stack) /\ 1 \in 1..MaxDepth
    BY <2>1, TurnStart, ScannerAssumption
  <2>3. stack' \in Seq(Frames) /\ Len(stack') = 1
    BY <2>1, <2>2, TurnStart, PrefixTyped
  <2>4. cursor.offset >= cursor.offset /\ cursor.offset \in At..Len(buffer)
    BY <1>0
  <2>5. token \in Tokens
    BY <1>4, <2>4, TokenTyped
  <2> HIDE DEF token
  <2>6. out' = Append(out, token) /\ returned' = returned
    BY <2>1 DEF Produce
  <2> QED BY <2>1, <2>2, <2>3, <2>4, <2>5, <2>6, TurnStart, ProduceInductive
<1> QED BY <1>1, <1>2, <1>3

\* A turn that waits.
LEMMA WaitInductive ==
    ASSUME Inductive, pc = "collect", Wait(Turn) \/ WaitInRun(Turn) \/ WaitOpen(Turn)
    PROVE  Inductive' /\ Undone' = Undone
<1>1. Pending
  BY DEF Wait, WaitInRun, WaitOpen
<1>2. /\ cursor' = saved /\ stack' = Undone /\ undo' = <<>> /\ pc' = "idle"
      /\ UNCHANGED <<rules, text, fed, buffer, base, tail, saved, finished, final, outcome>>
      /\ returned' = returned \o out /\ out' = <<>>
  BY <1>1 DEF Pending, Return, bufferVars
<1>3. FramesNoted' /\ undo' \in Seq([depth : 1..MaxDepth, top : Frames])
  BY <1>2 DEF FramesNoted
<1>4. Undone' = Undone
  <2>1. Undone' = stack'
    BY <1>2 DEF Undone
  <2> QED BY <1>2, <2>1
<1>5. /\ open' = [unit |-> open'.unit, at |-> open'.at, walked |-> open'.walked]
      /\ open'.at \in Int /\ open'.walked \in Seq(Char) /\ WalkedIsBuffered'
  <2> DEFINE n == Len(buffer)
  <2>1. n \in Nat /\ At \in 0..n /\ base \in Nat
    BY BufferWithinText DEF Inductive, TypeOK
  <2>2. CASE open' = open
    BY <1>2, <2>2, TurnStart DEF WalkedIsBuffered
  <2>3. CASE Resumes /\ open' = [open EXCEPT !.walked = Walk]
    <3>1. Walk \in Seq(Char) /\ Len(Walk) = n - At
      BY <2>3, WalkTyped
    <3>2. open' = [unit |-> open.unit, at |-> open.at, walked |-> Walk]
      BY <2>3, TurnStart
    <3>3. open'.at = base + At /\ open'.walked = Walk
      BY <2>3, <3>2 DEF Resumes
    <3> HIDE DEF n
    <3>4. open'.at + Len(open'.walked) <= base + n
      BY <2>1, <3>1, <3>3
    <3> QED BY <1>2, <2>1, <3>1, <3>2, <3>3, <3>4 DEF WalkedIsBuffered, n
  <2>4. CASE open' = [unit |-> Unit, at |-> base + At, walked |-> <<>>]
    <3>1. open'.at = base + At /\ open'.walked = <<>> /\ Len(open'.walked) = 0
      BY <2>4
    <3> HIDE DEF n
    <3>2. open'.at + Len(open'.walked) <= base + n
      BY <2>1, <3>1
    <3> QED BY <1>2, <2>1, <2>4, <3>1, <3>2 DEF WalkedIsBuffered, n
  <2> QED BY <2>2, <2>3, <2>4 DEF Wait, WaitInRun, WaitOpen
<1>6. Undone \in Seq(Frames) /\ Len(Undone) \in 1..MaxDepth
  BY UndoneTyped
<1>7. saved.offset <= saved.offset
  BY TurnStart
<1>8. out' \in Seq(Tokens) /\ returned' \in Seq(Tokens)
  BY <1>2, TurnStart
<1>9. CallsApart'
  BY <1>2, TurnStart DEF CallsApart
<1> QED BY <1>2, <1>3, <1>4, <1>5, <1>6, <1>7, <1>8, <1>9, TurnStart, TurnInductive

\* A turn that ends the text, with an error or without.
LEMMA StopInductive ==
    ASSUME Inductive, pc = "collect",
           \/ NoRule(Turn) \/ BadTransition(Turn) \/ ZeroLength(Turn)
           \/ Unterminated(Turn) \/ End(Turn)
    PROVE  Inductive' /\ outcome' # Running
<1>0. finished' \in {finished, TRUE} /\ finished' = TRUE
  <2>1. CASE End(Turn)
    <3>1. final /\ finished' = finished
      BY <2>1 DEF End
    <3>2. finished = TRUE
      BY <3>1, TurnStart DEF CallsApart
    <3> QED BY <3>1, <3>2
  <2>2. CASE ~End(Turn)
    BY <2>2 DEF NoRule, BadTransition, ZeroLength, Unterminated, Fail
  <2> QED BY <2>1, <2>2
<1>1. /\ UNCHANGED <<rules, text, fed, buffer, base, tail, stack, open, saved, final>>
      /\ pc' = "idle" /\ returned' = returned \o out /\ out' = <<>>
  BY DEF NoRule, BadTransition, ZeroLength, Unterminated, End, Fail, Return, bufferVars, scanVars
<1>2. outcome' # Running
  BY DEF NoRule, BadTransition, ZeroLength, Unterminated, End, Fail, Ended, Running
<1>3. WalkedIsBuffered'
  BY <1>1, TurnStart DEF WalkedIsBuffered
<1>6. out' \in Seq(Tokens) /\ returned' \in Seq(Tokens) /\ CallsApart'
  BY <1>0, <1>1, TurnStart DEF CallsApart
<1>4. CASE UNCHANGED <<cursor, undo>>
  <2>1. FramesNoted'
    BY <1>1, <1>4, TurnStart DEF FramesNoted
  <2>2. saved.offset <= saved.offset
    BY TurnStart
  <2> QED BY <1>0, <1>1, <1>2, <1>3, <1>6, <1>4, <2>1, <2>2, TurnStart, TurnInductive
<1>5. CASE BadTransition(Turn)
  <2>1. Turn.meets = "match" /\ cursor' = Past(Turn) /\ undo' = Noted(Won(Turn))
    BY <1>5 DEF BadTransition
  <2>2. cursor' \in Positions(0..Len(buffer)) /\ cursor'.offset > cursor.offset
    BY <2>1, PastTyped
  <2>3. saved.offset <= cursor'.offset /\ saved.offset <= saved.offset
    <3>1. cursor'.offset \in Int
      BY <2>2 DEF Positions
    <3> QED BY <2>2, <3>1, TurnStart
  <2>4. FramesNoted'
    BY <1>1, <2>1, RefusedNoted
  <2>5. undo' \in Seq([depth : 1..MaxDepth, top : Frames])
    BY <2>1, NotedTyped
  <2> QED BY <1>0, <1>1, <1>2, <1>3, <1>6, <2>2, <2>3, <2>4, <2>5, TurnStart, TurnInductive
<1> QED BY <1>4, <1>5 DEF NoRule, ZeroLength, Unterminated, End, scanVars

-----------------------------------------------------------------------------
(* The theorems *)

\* A stream begins with nothing fed.
LEMMA InitInductive == Init => Inductive
<1> SUFFICES ASSUME Init PROVE Inductive
  OBVIOUS
<1>1. /\ rules \in Grammars /\ text \in Texts /\ text \in Seq(Char)
      /\ fed = 0 /\ buffer = <<>> /\ base = 0 /\ tail = <<>>
      /\ cursor = Beginning /\ saved = Beginning /\ undo = <<>> /\ open = NotOpen
      /\ finished = FALSE /\ pc = "idle" /\ final = FALSE
      /\ out = <<>> /\ returned = <<>> /\ outcome = Running
  BY StreamAssumption DEF Init
<1>2. stack = << [mode |-> Default, entry |-> Beginning] >>
  BY DEF Init, RootStack
<1>3. Len(text) \in Nat /\ 0 \in 0..Len(text) /\ Len(buffer) = 0
  BY <1>1
<1>4. Beginning \in Positions(0..0) /\ Beginning \in Positions(0..(Word - 1))
  BY StreamAssumption DEF Beginning, Positions
<1>5. stack \in Seq(Frames) /\ Len(stack) = 1
  <2> DEFINE root == [mode |-> Default, entry |-> Beginning]
  <2>1. root \in Frames
    BY <1>4 DEF Frames, ModeNames
  <2> HIDE DEF root
  <2>2. stack = <<root>>
    BY <1>2 DEF root
  <2> QED BY <2>1, <2>2
<1>6. TypeOK
  <2>1. cursor \in Positions(0..Len(buffer)) /\ saved \in Positions(0..Len(buffer))
    BY <1>1, <1>3, <1>4
  <2>2. undo \in Seq([depth : 1..MaxDepth, top : Frames]) /\ buffer \in Seq(Char) /\ tail \in Seq(Char)
    BY <1>1
  <2>3. /\ open = [unit |-> open.unit, at |-> open.at, walked |-> open.walked]
        /\ open.at \in Int /\ open.walked \in Seq(Char)
    BY <1>1 DEF NotOpen
  <2>4. /\ fed \in 0..Len(text) /\ base \in 0..Len(text)
        /\ pc \in {"idle", "collect"} /\ final \in BOOLEAN /\ finished \in BOOLEAN
    BY <1>1, <1>3
  <2>5. out \in Seq(Tokens) /\ returned \in Seq(Tokens)
    BY <1>1
  <2> QED BY <1>1, <1>5, <2>1, <2>2, <2>3, <2>4, <2>5 DEF TypeOK
<1>7. BufferIsText
  <2>1. SubSeq(text, 0 + 1, 0) = <<>>
    BY SubSeqEmpty
  <2> QED BY <1>1, <2>1 DEF BufferIsText
<1>8. Accounted /\ WalkedIsBuffered /\ FramesNoted
  BY <1>1 DEF Accounted, WalkedIsBuffered, FramesNoted, NotOpen
<1>9. HeldFromLead
  BY <1>1 DEF HeldFromLead, Beginning
<1>10. saved.offset <= cursor.offset /\ Len(stack) \in 1..MaxDepth
  BY <1>1, <1>5, ScannerAssumption DEF Beginning
<1>11. CallsApart
  BY <1>1 DEF CallsApart
<1> QED BY <1>6, <1>7, <1>8, <1>9, <1>10, <1>11 DEF Inductive

\* Every step keeps the invariant.
LEMMA NextInductive == Inductive /\ [Next]_vars => Inductive'
<1> SUFFICES ASSUME Inductive, [Next]_vars PROVE Inductive'
  OBVIOUS
<1>1. CASE \E n \in 0..MaxPiece : Feed(n)
  BY <1>1, FeedInductive
<1>2. CASE Finish
  BY <1>2, FinishInductive
<1>3. CASE Collect
  BY <1>3, SkipInductive, EmitInductive, WaitInductive, StopInductive DEF Collect
<1>4. CASE UNCHANGED vars
  <2>1. ModeNames' = ModeNames
    BY <1>4 DEF vars, ModeNames, Targets, RuleIds
  <2>2. Frames' = Frames
    BY <2>1 DEF Frames
  <2>3. Tokens' = Tokens
    BY <1>4, <2>1 DEF vars, Tokens, Kinds, RuleIds
  <2> QED BY <1>4, <2>2, <2>3 DEF vars, bufferVars, scanVars, callVars, Inductive, TypeOK,
       BufferIsText, Accounted, HeldFromLead, WalkedIsBuffered, FramesNoted, CallsApart
<1> QED BY <1>1, <1>2, <1>3, <1>4 DEF Next

\* Inductive holds in every reachable state.
THEOREM StreamInductive == Safety => []Inductive
<1>1. Init => Inductive
  BY InitInductive
<1>2. Inductive /\ [Next]_vars => Inductive'
  BY NextInductive
<1> QED BY <1>1, <1>2, PTL DEF Safety

\* The state of a stream is typed: in particular the cursor stays within the buffer.
THEOREM StreamTyped == Safety => []TypeOK
<1>1. Inductive => TypeOK
  BY DEF Inductive
<1> QED BY <1>1, StreamInductive, PTL

\* The buffer and the tail are the text from the base to what was fed: no character is lost, repeated
\* or moved by drop_returned and hold_incomplete_tail, whatever the pieces.
THEOREM BufferCorrect == Safety => []BufferIsText
<1>1. Inductive => BufferIsText
  BY DEF Inductive
<1> QED BY <1>1, StreamInductive, PTL

\* The mode stack keeps its root and its bound, also when a step that waits takes back its transitions.
THEOREM StackCorrect == Safety => []StackBounded
<1>1. Inductive => StackBounded
  BY UndoneTyped DEF Inductive, StackBounded
<1> QED BY <1>1, StreamInductive, PTL

-----------------------------------------------------------------------------
(* What a step may never do *)

\* An offset moved back by drop_returned, and the base moved on as far, are the same place in the text.
LEMMA ShiftedBack ==
    ASSUME NEW w \in Nat, NEW x \in 0..(w - 1), NEW k \in Nat, NEW b \in Nat, b + k < w
    PROVE  (((x - k) % w) + (b + k)) % w = (x + b) % w
<1>1. ASSUME NEW a \in 0..(w - 1) PROVE a % w = a /\ (a + w) % w = a /\ (a - w) % w = a
  OBVIOUS
<1>2. CASE x >= k
  <2>1. (x - k) % w = x - k
    <3> DEFINE a == x - k
    <3>1. a \in 0..(w - 1)
      BY <1>2
    <3> HIDE DEF a
    <3>2. a % w = a
      BY <1>1, <3>1
    <3> QED BY <3>2 DEF a
  <2>2. (x - k) + (b + k) = x + b
    OBVIOUS
  <2> QED BY <2>1, <2>2
<1>3. CASE x < k
  <2>1. (x - k) % w = x - k + w
    <3> DEFINE a == x - k + w
    <3>1. a \in 0..(w - 1) /\ a - w = x - k
      BY <1>3
    <3> HIDE DEF a
    <3>2. (a - w) % w = a
      BY <1>1, <3>1
    <3> QED BY <3>1, <3>2 DEF a
  <2>2. (x - k + w) + (b + k) = (x + b) + w
    OBVIOUS
  <2> DEFINE a == x + b
  <2>3. a \in 0..(w - 1)
    BY <1>3
  <2> HIDE DEF a
  <2>4. a % w = a /\ (a + w) % w = a
    BY <1>1, <2>3
  <2> QED BY <2>1, <2>2, <2>4 DEF a
<1> QED BY <1>2, <1>3

\* The same of a position.
LEMMA PositionShifted ==
    ASSUME Inductive, NEW pos \in Positions(0..(Word - 1)), NEW k \in 0..Len(buffer), base' = base + k,
           NEW moved \in Positions(Int), moved.line = pos.line, moved.column = pos.column,
           moved.offset \in {pos.offset - k, (pos.offset - k) % Word}, moved.offset >= 0
    PROVE  [moved EXCEPT !.offset = (@ + base') % Word] = InText(pos)
<1>1. base \in Nat /\ base + k < Word /\ k \in Nat /\ Word \in Nat
  BY TextWithinWord
<1>2. pos.offset \in 0..(Word - 1)
  BY DEF Positions
<1>3. (moved.offset + (base + k)) % Word = (pos.offset + base) % Word
  <2>1. (((pos.offset - k) % Word) + (base + k)) % Word = (pos.offset + base) % Word
    BY <1>1, <1>2, ShiftedBack
  <2>2. (pos.offset - k) + (base + k) = pos.offset + base
    BY <1>1, <1>2
  <2> QED BY <2>1, <2>2
<1>4. moved = [offset |-> moved.offset, line |-> pos.line, column |-> pos.column]
  BY DEF Positions
<1>5. pos = [offset |-> pos.offset, line |-> pos.line, column |-> pos.column]
  BY DEF Positions
<1> DEFINE o == (pos.offset + base) % Word
<1>6. (moved.offset + base') % Word = o
  BY <1>3
<1>7. InText(pos) = [pos EXCEPT !.offset = o]
  BY DEF InText
<1> HIDE DEF o
<1> QED BY <1>4, <1>5, <1>6, <1>7

\* A call, up to its scan, commits nothing.
LEMMA CallCommits ==
    ASSUME Inductive, pc = "idle", ~finished,
           NEW chars, NEW hold, Begin(chars, hold), outcome' = outcome
    PROVE  CommittedCursor' = CommittedCursor /\ CommittedStack' = CommittedStack
<1> DEFINE k == Dropped
<1>1. /\ outcome = Running /\ outcome.kind = "running" /\ outcome'.kind = "running"
      /\ cursor = saved /\ undo = <<>>
  BY DEF Inductive, CallsApart, Running
<1>2. /\ k \in 0..saved.offset /\ saved.offset \in 0..Len(buffer) /\ k \in 0..Len(buffer) /\ k \in Nat
      /\ saved \in Positions(0..(Word - 1)) /\ Word \in Nat
  <2>1. k \in 0..cursor.offset
    BY DroppedBounded
  <2>2. cursor.offset \in 0..Len(buffer) /\ Len(buffer) \in Nat /\ Word \in Nat
    BY BufferWithinText DEF At
  <2> HIDE DEF k
  <2> QED BY <1>1, <2>1, <2>2, TurnStart
<1>3. /\ base' = base + k /\ saved' = [saved EXCEPT !.offset = @ - k] /\ undo' = <<>>
      /\ stack' = [i \in DOMAIN stack |-> [stack[i] EXCEPT !.entry.offset = (@ - k) % Word]]
  BY <1>1 DEF Begin
<1> HIDE DEF k
<1>4. CommittedCursor' = CommittedCursor
  <2> DEFINE o == saved.offset - k
  <2>1. o \in Nat /\ o \in Int
    BY <1>2
  <2>2. saved' = [offset |-> o, line |-> saved.line, column |-> saved.column]
    BY <1>2, <1>3 DEF Positions
  <2>3. o \in {saved.offset - k, (saved.offset - k) % Word} /\ o >= 0
    BY <2>1
  <2> HIDE DEF o
  <2>4. saved' \in Positions(Int) /\ saved'.line = saved.line /\ saved'.column = saved.column
        /\ saved'.offset = o
    BY <1>2, <2>1, <2>2 DEF Positions
  <2>5. saved'.offset \in {saved.offset - k, (saved.offset - k) % Word} /\ saved'.offset >= 0
    BY <2>3, <2>4
  <2>6. [saved' EXCEPT !.offset = (@ + base') % Word] = InText(saved)
    BY <1>2, <1>3, <2>4, <2>5, PositionShifted
  <2> QED BY <1>1, <2>6 DEF CommittedCursor, InText
<1>5. CommittedStack' = CommittedStack
  <2>1. Undone = stack /\ Undone' = stack'
    BY <1>1, <1>3 DEF Undone
  <2>2. stack \in Seq(Frames) /\ DOMAIN stack' = DOMAIN stack
    BY <1>3, TurnStart
  <2>3. ASSUME NEW i \in DOMAIN stack
        PROVE  [stack'[i] EXCEPT !.entry = [stack'[i].entry EXCEPT !.offset = (@ + base') % Word]]
             = [stack[i] EXCEPT !.entry = InText(stack[i].entry)]
    <3> DEFINE f == stack[i]
               o == (f.entry.offset - k) % Word
               e == [f.entry EXCEPT !.offset = o]
    <3>1. f \in Frames /\ f.entry \in Positions(0..(Word - 1))
      <4>1. f \in Frames
        BY <2>2
      <4> HIDE DEF f
      <4> QED BY <4>1 DEF Frames
    <3>2. o \in 0..(Word - 1) /\ o \in Int /\ o >= 0
      <4>1. f.entry.offset \in Int /\ Word > 0
        BY <3>1, StreamAssumption DEF Positions
      <4> HIDE DEF f
      <4> QED BY <1>2, <4>1
    <3>3. stack'[i] = [f EXCEPT !.entry = e]
      <4>1. stack'[i] = [f EXCEPT !.entry.offset = (@ - k) % Word]
        BY <1>3
      <4> QED BY <3>1, <4>1 DEF Frames, Positions
    <3> HIDE DEF o
    <3>4. e \in Positions(Int) /\ e.line = f.entry.line /\ e.column = f.entry.column /\ e.offset = o
      BY <3>1, <3>2 DEF Positions
    <3>5. e.offset \in {f.entry.offset - k, (f.entry.offset - k) % Word} /\ e.offset >= 0
      BY <3>2, <3>4 DEF o
    <3> HIDE DEF e, f
    <3>6. [e EXCEPT !.offset = (@ + base') % Word] = InText(f.entry)
      BY <1>2, <1>3, <3>1, <3>4, <3>5, PositionShifted
    <3>7. stack'[i] = [mode |-> f.mode, entry |-> e]
      BY <3>1, <3>3 DEF Frames
    <3>8. f = [mode |-> f.mode, entry |-> f.entry]
      BY <3>1 DEF Frames
    <3> QED BY <3>6, <3>7, <3>8 DEF f
  <2>4. CommittedStack = [i \in DOMAIN stack |-> [stack[i] EXCEPT !.entry = InText(stack[i].entry)]]
    BY <1>1, <2>1 DEF CommittedStack
  <2>5. CommittedStack'
      = [ i \in DOMAIN stack' |->
            [stack'[i] EXCEPT !.entry = [stack'[i].entry EXCEPT !.offset = (@ + base') % Word]] ]
    BY <1>1, <2>1 DEF CommittedStack, InText
  <2> QED BY <2>2, <2>3, <2>4, <2>5
<1> QED BY <1>4, <1>5

\* A skip match or a step that waits commits nothing.
LEMMA TurnCommits ==
    ASSUME Inductive, pc = "collect",
           Skip(Turn) \/ Wait(Turn) \/ WaitInRun(Turn) \/ WaitOpen(Turn)
    PROVE  /\ CommittedCursor' = CommittedCursor /\ CommittedStack' = CommittedStack
           /\ previous' = previous /\ indents' = indents
<1>1. UNCHANGED <<base, saved, outcome, previous, indents>>
  BY DEF Skip, Wait, WaitInRun, WaitOpen, Pending, bufferVars, callVars
<1>2. Undone' = Undone
  BY SkipInductive, WaitInductive
<1>3. outcome.kind = "running" /\ outcome'.kind = "running"
  BY <1>1, TurnStart DEF CallsApart, Running
<1>4. CommittedCursor' = CommittedCursor
  BY <1>1, <1>3 DEF CommittedCursor, InText
<1>5. CommittedStack' = CommittedStack
  BY <1>1, <1>2, <1>3 DEF CommittedStack, InText
<1> QED BY <1>1, <1>4, <1>5

\* A step that commits something adds a token or ends the text.
LEMMA NextCommits ==
    ASSUME Inductive, Next,
           returned' \o out' = returned \o out, outcome' = outcome
    PROVE  /\ CommittedCursor' = CommittedCursor /\ CommittedStack' = CommittedStack
           /\ previous' = previous /\ indents' = indents
<1>1. CASE \E n \in 0..MaxPiece : Feed(n)
  <2>1. PICK n \in 0..MaxPiece : Feed(n)
    BY <1>1
  <2>2. pc = "idle" /\ ~finished /\ previous' = previous /\ indents' = indents
        /\ \E chars, hold : Begin(chars, hold)
    BY <2>1 DEF Feed
  <2> QED BY <2>2, CallCommits
<1>2. CASE Finish
  <2>1. pc = "idle" /\ ~finished /\ previous' = previous /\ indents' = indents /\ Begin(tail, 0)
    BY <1>2 DEF Finish
  <2> QED BY <2>1, CallCommits
<1>3. CASE Collect
  <2>1. pc = "collect" /\ outcome = Running
    BY <1>3, TurnStart DEF Collect, CallsApart
  <2>2. ~(Emit(Turn) \/ EmitErrorRun(Turn) \/ EmitUnterminated(Turn))
    <3> SUFFICES ASSUME Emit(Turn) \/ EmitErrorRun(Turn) \/ EmitUnterminated(Turn) PROVE FALSE
      OBVIOUS
    <3>1. PICK token \in Tokens : out' = Append(out, token) /\ returned' = returned
      BY <2>1, EmitInductive
    <3>2. Len(returned \o Append(out, token)) = Len(returned \o out) + 1
      <4>1. returned \in Seq(Tokens) /\ out \in Seq(Tokens)
        BY TurnStart
      <4> QED BY <4>1
    <3>3. Len(returned \o out) \in Nat
      <4>1. returned \in Seq(Tokens) /\ out \in Seq(Tokens)
        BY TurnStart
      <4> QED BY <4>1
    <3> QED BY <3>1, <3>2, <3>3
  <2>3. ~(NoRule(Turn) \/ BadTransition(Turn) \/ ZeroLength(Turn) \/ Unterminated(Turn) \/ End(Turn))
    BY <2>1, StopInductive
  <2>4. Skip(Turn) \/ Wait(Turn) \/ WaitInRun(Turn) \/ WaitOpen(Turn)
    BY <1>3, <2>2, <2>3 DEF Collect
  <2> QED BY <2>1, <2>4, TurnCommits
<1> QED BY <1>1, <1>2, <1>3 DEF Next

\* Skip matches, calls and steps that wait leave no trace: the cursor in the text, the modes and where
\* they were entered, the kind before and the open blocks only change with a token or the text's end,
\* whatever drop_returned does to the offsets meanwhile.
THEOREM OnlyTokensCommitted == Safety => OnlyTokensCommit
<1>1. Inductive /\ [Next]_vars
      => [ returned' \o out' = returned \o out /\ outcome' = outcome =>
             /\ CommittedCursor' = CommittedCursor
             /\ CommittedStack' = CommittedStack
             /\ previous' = previous /\ indents' = indents ]_vars
  BY NextCommits
<1> QED BY <1>1, StreamInductive, PTL DEF Safety, OnlyTokensCommit

-----------------------------------------------------------------------------
(* The loop of collect *)

\* Each transition noted found the stack at most one frame lower than the one before it left it, and
\* so did the last: what taking back the later ones leaves reaches below the frame put back.
NotesChain ==
    /\ \A j \in 1..(Len(undo) - 1) : undo[j].depth <= undo[j + 1].depth + 1
    /\ undo # <<>> => undo[Len(undo)].depth <= Len(stack) + 1

\* A transition, or one refused, prolongs the chain.
LEMMA NotedChain ==
    ASSUME Inductive, NotesChain, NEW rule, undo' = Noted(rule),
           Len(stack') \in Nat, Len(stack') >= Len(stack) - 1,
           rule.op = "none" => stack' = stack
    PROVE  NotesChain'
<1> DEFINE n    == Len(stack)
           m    == Len(undo)
           note == [depth |-> n, top |-> Last(stack)]
           E    == [depth : 1..MaxDepth, top : Frames]
<1>1. n \in Nat /\ m \in Nat /\ (undo # <<>> <=> 1 \in 1..m)
  BY UndoTyped DEF Inductive, TypeOK
<1>2. \A j \in 1..m : undo[j].depth \in Nat
  BY UndoTyped
<1>3. CASE rule.op = "none"
  <2>1. undo' = undo /\ stack' = stack
    BY <1>3 DEF Noted
  <2> QED BY <2>1 DEF NotesChain
<1>4. CASE rule.op # "none"
  <2>1. undo' = Append(undo, note) /\ note.depth = n
    BY <1>4 DEF Noted
  <2>2. undo \in Seq(E)
    BY DEF Inductive, TypeOK
  <2>3. /\ \A j \in 1..(m - 1) : undo[j].depth <= undo[j + 1].depth + 1
        /\ undo # <<>> => undo[m].depth <= n + 1
    BY DEF NotesChain
  <2>4. n - 1 <= Len(stack') /\ Len(stack') \in Nat
    BY <1>1
  <2> HIDE DEF n, note, E
  <2>5. Len(undo') = m + 1 /\ undo'[m + 1] = note /\ \A j \in 1..m : undo'[j] = undo[j]
    BY <2>1, <2>2
  <2>6. undo' # <<>> => undo'[Len(undo')].depth <= Len(stack') + 1
    BY <1>1, <2>1, <2>4, <2>5
  <2> HIDE DEF m
  <2>7. ASSUME NEW j \in 1..m PROVE undo'[j].depth <= undo'[j + 1].depth + 1
    <3>1. CASE j = m
      <4>1. undo # <<>>
        BY <1>1
      <4> QED BY <2>1, <2>3, <2>5, <3>1, <4>1
    <3>2. CASE j < m
      <4>1. j \in 1..(m - 1) /\ j + 1 \in 1..m
        BY <1>1, <3>2
      <4> QED BY <2>3, <2>5, <4>1
    <3> QED BY <1>1, <3>1, <3>2
  <2>8. \A j \in 1..(Len(undo') - 1) : undo'[j].depth <= undo'[j + 1].depth + 1
    <3>1. Len(undo') - 1 = m
      BY <1>1, <2>5
    <3> QED BY <2>7, <3>1
  <2> QED BY <2>6, <2>8 DEF NotesChain
<1> QED BY <1>3, <1>4

\* With nothing noted there is no chain.
LEMMA NoNotes == ASSUME undo' = <<>> PROVE NotesChain'
BY DEF NotesChain

\* A step prolongs the chain, drops it with the step it belongs to, or leaves it.
LEMMA ChainKept == Inductive /\ NotesChain /\ [Next]_vars => NotesChain'
<1> SUFFICES ASSUME Inductive, NotesChain, [Next]_vars PROVE NotesChain'
  OBVIOUS
<1>1. CASE (\E n \in 0..MaxPiece : Feed(n)) \/ Finish
  <2>1. undo' = <<>>
    BY <1>1 DEF Feed, Finish, Begin
  <2> QED BY <2>1, NoNotes
<1>2. CASE Collect
  <2>1. pc = "collect"
    BY <1>2 DEF Collect
  <2>2. CASE Emit(Turn) \/ EmitErrorRun(Turn) \/ EmitUnterminated(Turn)
    <3>1. undo' = <<>>
      BY <2>2 DEF Emit, EmitErrorRun, EmitUnterminated, Produce
    <3> QED BY <3>1, NoNotes
  <2>3. CASE Wait(Turn) \/ WaitInRun(Turn) \/ WaitOpen(Turn)
    <3>1. undo' = <<>>
      BY <2>3 DEF Wait, WaitInRun, WaitOpen, Pending
    <3> QED BY <3>1, NoNotes
  <2>4. CASE NoRule(Turn) \/ ZeroLength(Turn) \/ Unterminated(Turn) \/ End(Turn)
    <3>1. undo' = undo /\ stack' = stack
      BY <2>4 DEF NoRule, ZeroLength, Unterminated, End, Fail, scanVars
    <3> QED BY <3>1 DEF NotesChain
  <2>5. CASE BadTransition(Turn)
    <3>1. undo' = Noted(Won(Turn)) /\ stack' = stack
      BY <2>5 DEF BadTransition, Fail
    <3>2. Len(stack) \in Nat /\ Len(stack) >= Len(stack) - 1
      BY TurnStart
    <3> QED BY <3>1, <3>2, NotedChain
  <2>6. CASE Skip(Turn)
    <3> DEFINE i == Turn.munch.idx
    <3>1. /\ Turn.meets = "match" /\ ~Refused(rules[i], stack)
          /\ stack' = Transition(rules[i], cursor, stack) /\ undo' = Noted(rules[i])
      BY <2>6 DEF Skip, Won
    <3>2. i \in RuleIds
      BY <3>1, TurnBounded
    <3> HIDE DEF i
    <3>3. Len(stack') \in 1..MaxDepth /\ Len(stack') >= Len(stack) - 1 /\ (rules[i].op = "none" => stack' = stack)
      BY <3>1, <3>2, TurnStart, TransitionTyped
    <3>4. Len(stack') \in Nat
      BY <3>3, ScannerAssumption
    <3> QED BY <3>1, <3>3, <3>4, NotedChain
  <2> QED BY <1>2, <2>2, <2>3, <2>4, <2>5, <2>6 DEF Collect
<1>3. CASE UNCHANGED vars
  <2>1. undo' = undo /\ stack' = stack
    BY <1>3 DEF vars, scanVars
  <2> QED BY <2>1 DEF NotesChain
<1> QED BY <1>1, <1>2, <1>3 DEF Next

\* The transitions noted from the i-th on taken back at once.
BackFrom(i) ==
    LET found(depth) == { j \in i..Len(undo) : undo[j].depth = depth }
    IN  [ depth \in 1..(IF i > Len(undo) THEN Len(stack) ELSE undo[i].depth) |->
              IF found(depth) = {} THEN stack[depth] ELSE undo[Min(found(depth))].top ]

\* They are taken back to a sequence, of the depth the first of them found.
LEMMA BackTyped ==
    ASSUME Inductive, NEW i \in 1..(Len(undo) + 1)
    PROVE  LET base0 == IF i > Len(undo) THEN Len(stack) ELSE undo[i].depth
               S     == Frames \cup { stack[depth] : depth \in Nat }
           IN  base0 \in Nat /\ BackFrom(i) \in Seq(S) /\ Len(BackFrom(i)) = base0
<1> DEFINE base0 == IF i > Len(undo) THEN Len(stack) ELSE undo[i].depth
           S     == Frames \cup { stack[depth] : depth \in Nat }
           found(depth) == { j \in i..Len(undo) : undo[j].depth = depth }
           back(depth)  == IF found(depth) = {} THEN stack[depth] ELSE undo[Min(found(depth))].top
<1>1. Len(undo) \in Nat /\ i \in Nat /\ i > 0 /\ Len(stack) \in Nat
  BY UndoTyped DEF Inductive, TypeOK
<1>2. \A j \in 1..Len(undo) : undo[j].depth \in Nat /\ undo[j].top \in Frames
  BY UndoTyped
<1>3. base0 \in Nat
  BY <1>1, <1>2
<1>4. ASSUME NEW depth \in 1..base0 PROVE back(depth) \in S
  <2>0. depth \in Nat
    BY <1>3
  <2>1. CASE found(depth) = {}
    BY <2>0, <2>1
  <2>2. CASE found(depth) # {}
    <3>1. found(depth) \in SUBSET Nat /\ found(depth) \in SUBSET (1..Len(undo))
      BY <1>1
    <3>2. Min(found(depth)) \in found(depth)
      BY <2>2, <3>1, MinOfNaturals
    <3>3. undo[Min(found(depth))].top \in Frames
      BY <1>2, <3>1, <3>2
    <3> QED BY <2>2, <3>3
  <2> QED BY <2>1, <2>2
<1>5. BackFrom(i) = [depth \in 1..base0 |-> back(depth)]
  BY DEF BackFrom
<1> HIDE DEF base0, S, back
<1>6. BackFrom(i) \in Seq(S) /\ Len(BackFrom(i)) = base0
  BY <1>3, <1>4, <1>5
<1> QED BY <1>3, <1>6 DEF base0, S

\* Taking them back at once is taking back the later ones, then the first.
LEMMA BackSteps ==
    ASSUME Inductive, NotesChain
    PROVE  /\ BackFrom(Len(undo) + 1) = stack
           /\ \A i \in 1..Len(undo) :
                  BackFrom(i) = Append(SubSeq(BackFrom(i + 1), 1, undo[i].depth - 1), undo[i].top)
<1> DEFINE n    == Len(undo)
           S    == Frames \cup { stack[depth] : depth \in Nat }
           base0(i) == IF i > n THEN Len(stack) ELSE undo[i].depth
           found(i, depth) == { j \in i..n : undo[j].depth = depth }
           back(i, depth)  == IF found(i, depth) = {} THEN stack[depth] ELSE undo[Min(found(i, depth))].top
<1>1. n \in Nat /\ stack \in Seq(Frames) /\ Len(stack) \in Nat
  BY UndoTyped DEF Inductive, TypeOK
<1>2. \A j \in 1..n : undo[j].depth \in Nat /\ undo[j].depth > 0 /\ undo[j].top \in Frames
  BY UndoTyped, ScannerAssumption
<1>3. \A i \in 1..(n + 1) : /\ base0(i) \in Nat /\ BackFrom(i) \in Seq(S) /\ Len(BackFrom(i)) = base0(i)
  BY BackTyped
<1>4. \A i \in 1..(n + 1) : \A depth \in 1..base0(i) : BackFrom(i)[depth] = back(i, depth)
  BY DEF BackFrom
<1>5. BackFrom(n + 1) = stack
  <2>1. n + 1 > n /\ (n + 1)..n = {} /\ n + 1 \in 1..(n + 1)
    BY <1>1
  <2>2. \A depth \in 1..Len(stack) : back(n + 1, depth) = stack[depth]
    BY <2>1
  <2>3. BackFrom(n + 1) = [depth \in 1..Len(stack) |-> back(n + 1, depth)]
    BY <2>1 DEF BackFrom
  <2>4. stack = [depth \in 1..Len(stack) |-> stack[depth]]
    BY <1>1
  <2> HIDE DEF back
  <2> QED BY <2>2, <2>3, <2>4
<1>6. ASSUME NEW i \in 1..n
      PROVE  BackFrom(i) = Append(SubSeq(BackFrom(i + 1), 1, undo[i].depth - 1), undo[i].top)
  <2> DEFINE d == undo[i].depth
             A == BackFrom(i)
             B == BackFrom(i + 1)
             t == undo[i].top
  <2>1. i \in Nat /\ i \in 1..(n + 1) /\ i + 1 \in 1..(n + 1) /\ i \in 1..n /\ ~(i > n)
    BY <1>1
  <2>2. d \in Nat /\ d > 0 /\ t \in Frames
    BY <1>2, <2>1
  <2>3. A \in Seq(S) /\ Len(A) = d
    <3>1. base0(i) = d
      BY <2>1
    <3> HIDE DEF base0, S
    <3> QED BY <1>3, <2>1, <3>1
  <2>4. B \in Seq(S) /\ Len(B) = base0(i + 1) /\ base0(i + 1) \in Nat
    <3> HIDE DEF base0, S
    <3> QED BY <1>3, <2>1
  <2>5. d - 1 <= base0(i + 1)
    <3>1. CASE i = n
      <4>1. undo # <<>> /\ base0(i + 1) = Len(stack)
        BY <1>1, <3>1
      <4>2. d <= Len(stack) + 1
        BY <3>1, <4>1 DEF NotesChain
      <4> QED BY <1>1, <2>2, <4>1, <4>2
    <3>2. CASE i < n
      <4>1. i \in 1..(n - 1) /\ base0(i + 1) = undo[i + 1].depth
        BY <1>1, <3>2
      <4>2. d <= undo[i + 1].depth + 1
        BY <4>1 DEF NotesChain
      <4> QED BY <2>2, <2>4, <4>1, <4>2
    <3> QED BY <1>1, <3>1, <3>2
  <2>6. A[d] = t
    <3>1. i \in found(i, d) /\ found(i, d) \in SUBSET Nat /\ \A y \in found(i, d) : i <= y
      BY <1>1, <2>1
    <3>2. Min(found(i, d)) \in found(i, d) /\ \A y \in found(i, d) : Min(found(i, d)) <= y
      BY <3>1, MinOfNaturals
    <3>3. Min(found(i, d)) = i
      <4> HIDE DEF found
      <4> QED BY <3>1, <3>2
    <3>4. back(i, d) = t
      BY <3>1, <3>3
    <3>5. d \in 1..base0(i)
      BY <2>1, <2>2
    <3> HIDE DEF back, base0
    <3> QED BY <1>4, <2>1, <3>4, <3>5
  <2>7. ASSUME NEW k \in 1..(d - 1) PROVE A[k] = B[k]
    <3>1. k \in 1..base0(i) /\ k \in 1..base0(i + 1) /\ k # d
      <4>1. base0(i) = d
        BY <2>1
      <4> HIDE DEF base0
      <4> QED BY <2>2, <2>4, <2>5, <4>1
    <3>2. found(i, k) = found(i + 1, k)
      BY <1>1, <2>1, <3>1
    <3>3. back(i, k) = back(i + 1, k)
      BY <3>2
    <3> HIDE DEF back, base0
    <3> QED BY <1>4, <2>1, <3>1, <3>3
  <2> HIDE DEF A, B, d, t
  <2>8. /\ SubSeq(B, 1, d - 1) \in Seq(S) /\ Len(SubSeq(B, 1, d - 1)) = d - 1
        /\ \A k \in 1..(d - 1) : SubSeq(B, 1, d - 1)[k] = B[k]
    <3> HIDE DEF base0, S
    <3>1. SubSeq(B, 1, d - 1) = [k \in 1..(d - 1) |-> B[k]]
      BY <2>2, <2>4, <2>5
    <3>2. \A k \in 1..(d - 1) : k \in 1..Len(B)
      BY <2>2, <2>4, <2>5
    <3>3. \A k \in 1..(d - 1) : B[k] \in S
      BY <2>4, <3>2
    <3> QED BY <2>2, <3>1, <3>3
  <2>9. t \in S
    BY <2>2
  <2> DEFINE P == SubSeq(B, 1, d - 1)
             Q == Append(P, t)
  <2> HIDE DEF S, P, base0
  <2>10. P \in Seq(S) /\ Len(P) = d - 1 /\ \A k \in 1..(d - 1) : P[k] = B[k]
    BY <2>8 DEF P
  <2>11. Q \in Seq(S) /\ Len(Q) = d /\ Q[d] = t /\ \A k \in 1..(d - 1) : Q[k] = P[k]
    BY <2>2, <2>9, <2>10
  <2> HIDE DEF Q
  <2>12. \A k \in 1..d : A[k] = Q[k]
    BY <2>2, <2>6, <2>7, <2>10, <2>11
  <2>13. A = Q
    BY <2>3, <2>11, <2>12, SeqEqual
  <2> QED BY <2>13 DEF A, B, d, t, P, Q
<1> QED BY <1>5, <1>6

\* collect's loop, a transition at a time, is a function that has a value at each.
LEMMA LoopSteps ==
    ASSUME Inductive, NotesChain
    PROVE  /\ UndoneFrom[Len(undo) + 1] = stack
           /\ \A i \in 1..Len(undo) :
                  UndoneFrom[i] = Append(SubSeq(UndoneFrom[i + 1], 1, undo[i].depth - 1), undo[i].top)
<1> DEFINE n == Len(undo)
           Is(g) == g = [i \in 1..(n + 1) |->
                            IF i > n THEN stack
                            ELSE Append(SubSeq(g[i + 1], 1, undo[i].depth - 1), undo[i].top)]
           F == [i \in 1..(n + 1) |-> BackFrom(i)]
<1>1. n \in Nat
  BY UndoTyped
<1>2. Is(F)
  <2>1. ASSUME NEW i \in 1..(n + 1)
        PROVE  BackFrom(i) = IF i > n THEN stack
                             ELSE Append(SubSeq(F[i + 1], 1, undo[i].depth - 1), undo[i].top)
    <3>1. CASE i > n
      <4>1. i = n + 1
        BY <1>1, <3>1
      <4> QED BY <3>1, <4>1, BackSteps
    <3>2. CASE ~(i > n)
      <4>1. i \in 1..n /\ i + 1 \in 1..(n + 1)
        BY <1>1, <3>2
      <4>2. F[i + 1] = BackFrom(i + 1)
        BY <4>1
      <4>3. BackFrom(i) = Append(SubSeq(BackFrom(i + 1), 1, undo[i].depth - 1), undo[i].top)
        BY <4>1, BackSteps
      <4> QED BY <3>2, <4>2, <4>3
    <3> QED BY <3>1, <3>2
  <2>2. \A i \in 1..(n + 1) :
            BackFrom(i) = IF i > n THEN stack
                          ELSE Append(SubSeq(F[i + 1], 1, undo[i].depth - 1), undo[i].top)
    BY <2>1
  <2> DEFINE G(i) == IF i > n THEN stack ELSE Append(SubSeq(F[i + 1], 1, undo[i].depth - 1), undo[i].top)
  <2>3. [i \in 1..(n + 1) |-> BackFrom(i)] = [i \in 1..(n + 1) |-> G(i)]
    <3>1. \A i \in 1..(n + 1) : BackFrom(i) = G(i)
      BY <2>2
    <3> HIDE DEF G
    <3> QED BY <3>1
  <2>4. F = [i \in 1..(n + 1) |-> G(i)]
    BY <2>3
  <2> QED BY <2>4
<1>3. UndoneFrom = CHOOSE g : Is(g)
  BY DEF UndoneFrom
<1> HIDE DEF F
<1>4. Is(UndoneFrom)
  <2> HIDE DEF Is
  <2> QED BY <1>2, <1>3
<1>5. \A i \in 1..(n + 1) :
          UndoneFrom[i] = IF i > n THEN stack
                          ELSE Append(SubSeq(UndoneFrom[i + 1], 1, undo[i].depth - 1), undo[i].top)
  <2> DEFINE U == UndoneFrom
  <2>1. Is(U)
    BY <1>4
  <2> HIDE DEF U
  <2>2. \A i \in 1..(n + 1) :
            U[i] = IF i > n THEN stack ELSE Append(SubSeq(U[i + 1], 1, undo[i].depth - 1), undo[i].top)
    BY <2>1
  <2> QED BY <2>2 DEF U
<1>6. n + 1 \in 1..(n + 1) /\ n + 1 > n /\ \A i \in 1..n : i \in 1..(n + 1) /\ ~(i > n)
  BY <1>1
<1>7. UndoneFrom[n + 1] = stack
  BY <1>5, <1>6
<1>8. \A i \in 1..n :
          UndoneFrom[i] = Append(SubSeq(UndoneFrom[i + 1], 1, undo[i].depth - 1), undo[i].top)
  BY <1>5, <1>6
<1> QED BY <1>7, <1>8

\* The loop gets to what taking them all back at once gives.
LEMMA LoopUndoes ==
    ASSUME Inductive, NotesChain
    PROVE  UndoneLatestFirst
<1> DEFINE n     == Len(undo)
           Wrong == { j \in 0..n : UndoneFrom[n + 1 - j] # BackFrom(n + 1 - j) }
<1>1. n \in Nat
  BY UndoTyped
<1>2. Wrong = {}
  <2>1. SUFFICES ASSUME Wrong # {} PROVE FALSE
    OBVIOUS
  <2>2. Wrong \in SUBSET Nat
    OBVIOUS
  <2>3. Min(Wrong) \in Wrong /\ \A y \in Wrong : Min(Wrong) <= y
    BY <2>1, <2>2, MinOfNaturals
  <2> DEFINE j == Min(Wrong)
             i == n + 1 - j
  <2>4. j \in 0..n /\ UndoneFrom[i] # BackFrom(i) /\ \A y \in Wrong : j <= y
    BY <2>3
  <2> HIDE DEF j
  <2>5. j # 0
    <3>1. n + 1 - 0 = n + 1
      BY <1>1
    <3> QED BY <2>4, <3>1, LoopSteps, BackSteps
  <2>6. i \in 1..n /\ i + 1 = n + 1 - (j - 1) /\ j - 1 \in 0..n /\ ~(j <= j - 1)
    BY <1>1, <2>4, <2>5
  <2>7. j - 1 \notin Wrong
    <3> HIDE DEF Wrong
    <3> QED BY <2>4, <2>6
  <2> HIDE DEF i
  <2>8. UndoneFrom[i + 1] = BackFrom(i + 1)
    BY <2>6, <2>7
  <2>9. /\ UndoneFrom[i] = Append(SubSeq(UndoneFrom[i + 1], 1, undo[i].depth - 1), undo[i].top)
        /\ BackFrom(i) = Append(SubSeq(BackFrom(i + 1), 1, undo[i].depth - 1), undo[i].top)
    BY <2>6, LoopSteps, BackSteps
  <2> QED BY <2>4, <2>8, <2>9
<1>3. UndoneFrom[1] = BackFrom(1)
  <2>1. n \in 0..n /\ n + 1 - n = 1
    BY <1>1
  <2>2. n \notin Wrong
    <3> HIDE DEF Wrong
    <3> QED BY <1>2
  <2> QED BY <2>1, <2>2
<1>4. BackFrom(1) = Undone
  <2>1. CASE undo = <<>>
    <3>1. n = 0 /\ n + 1 = 1
      BY <2>1
    <3> QED BY <2>1, <3>1, BackSteps DEF Undone
  <2>2. CASE undo # <<>>
    <3>1. DOMAIN undo = 1..n /\ ~(1 > n)
      BY <1>1, <2>2, UndoTyped
    <3> QED BY <2>2, <3>1 DEF Undone, BackFrom
  <2> QED BY <2>1, <2>2
<1> QED BY <1>3, <1>4 DEF UndoneLatestFirst

\* Every chain reachable is one collect's loop takes back link by link: the stack a step that waits
\* goes back to is the one the loop gets to, the latest transition undone first.
THEOREM UndoneAsCollected == Safety => []UndoneLatestFirst
<1>1. Init => NotesChain
  BY DEF Init, NotesChain
<1>2. Inductive /\ NotesChain /\ [Next]_vars => NotesChain'
  BY ChainKept
<1>3. Inductive /\ NotesChain => UndoneLatestFirst
  BY LoopUndoes
<1> QED BY <1>1, <1>2, <1>3, StreamInductive, PTL DEF Safety

-----------------------------------------------------------------------------
(***************************************************************************)
(* A token_stream is a HeldText, what the Python binding takes it for.     *)
(* What this adds to the stream's invariant is where a mode still open was *)
(* entered: its offset is kept relative to a buffer that has moved on,     *)
(* modulo Word, and still names a place no further than the stream.        *)
(***************************************************************************)

\* What InText makes of an offset in the buffer.
InTextOffset(offset) == (offset + base) % Word

\* Every mode open was entered before the cursor, and every mode a waiting step goes back to before
\* the place it goes back to.
EntriesBehind ==
    /\ \A i \in DOMAIN stack : InTextOffset(stack[i].entry.offset) <= base + cursor.offset
    /\ outcome = Running =>
          \A i \in DOMAIN Undone : InTextOffset(Undone[i].entry.offset) <= base + saved.offset

-----------------------------------------------------------------------------
(* Places in the text *)

\* An offset within the buffer is that far past the base, within what was fed.
LEMMA PlaceInText ==
    ASSUME Inductive, NEW k \in 0..Len(buffer)
    PROVE  InTextOffset(k) = base + k /\ base + k \in 0..fed /\ base + k \in Int
<1>1. base \in Nat /\ k \in Nat /\ base + k < Word /\ Word \in Nat
  BY TextWithinWord
<1>2. \A x \in 0..(Word - 1) : x % Word = x
  BY <1>1
<1>3. k + base \in 0..(Word - 1)
  BY <1>1
<1>4. (k + base) % Word = k + base
  BY <1>2, <1>3
<1>5. Len(buffer) \in Nat /\ base + Len(buffer) <= fed /\ fed \in Int
  BY BufferWithinText DEF Inductive, TypeOK
<1> DEFINE n == Len(buffer)
<1>6. n \in Nat /\ base + n <= fed /\ k \in 0..n
  BY <1>5
<1> HIDE DEF n
<1>7. base + k \in 0..fed
  BY <1>1, <1>5, <1>6
<1> QED BY <1>1, <1>4, <1>7 DEF InTextOffset

\* Where the two places a turn starts from are.
LEMMA PlacesOrdered ==
    ASSUME Inductive
    PROVE  /\ cursor.offset \in 0..Len(buffer) /\ saved.offset \in 0..Len(buffer)
           /\ base + saved.offset <= base + cursor.offset
           /\ base + saved.offset \in 0..fed /\ base + cursor.offset \in 0..fed
           /\ InText(cursor).offset = base + cursor.offset
<1>1. cursor.offset \in 0..Len(buffer) /\ saved.offset \in 0..Len(buffer)
  BY TurnStart DEF Positions
<1>2. saved.offset <= cursor.offset /\ saved.offset \in Int /\ cursor.offset \in Int /\ base \in Int
  BY TurnStart, BufferWithinText DEF Inductive, TypeOK
<1>3. InText(cursor).offset = InTextOffset(cursor.offset)
  BY TurnStart DEF InText, InTextOffset, Positions
<1> QED BY <1>1, <1>2, <1>3, PlaceInText

\* A transition opens a mode at the match it is of, or leaves the entries it finds.
LEMMA TransitionEntries ==
    ASSUME Inductive, NEW i \in RuleIds, ~Refused(rules[i], stack), NEW pos
    PROVE  LET next == Transition(rules[i], pos, stack)
           IN  \A d \in DOMAIN next :
                  next[d].entry = pos \/ \E e \in DOMAIN stack : next[d].entry = stack[e].entry
<1> DEFINE n    == Len(stack)
           rule == rules[i]
           next == Transition(rule, pos, stack)
<1>1. stack \in Seq(Frames) /\ n \in Nat /\ n >= 1 /\ DOMAIN stack = 1..n
  BY TurnStart
<1>2. rule \in Rule
  BY TurnStart, RulesTyped
<1>3. CASE rule.op = "push"
  <2> DEFINE f == [mode |-> rule.target, entry |-> pos]
             S == Frames \cup {f}
  <2>1. next = Append(stack, f) /\ stack \in Seq(S) /\ f \in S
    BY <1>1, <1>3 DEF Transition
  <2>2. f.entry = pos
    OBVIOUS
  <2> HIDE DEF f, S, next
  <2>3. DOMAIN next = 1..(n + 1) /\ next[n + 1] = f /\ \A d \in 1..n : next[d] = stack[d]
    BY <1>1, <2>1
  <2>4. \A d \in 1..(n + 1) : d = n + 1 \/ d \in 1..n
    BY <1>1
  <2> QED BY <1>1, <2>2, <2>3, <2>4 DEF next
<1>4. CASE rule.op = "pop"
  <2>1. next = SubSeq(stack, 1, n - 1)
    BY <1>4 DEF Transition, Front
  <2> HIDE DEF next
  <2>2. DOMAIN next = 1..(n - 1) /\ \A d \in 1..(n - 1) : next[d] = stack[d] /\ d \in 1..n
    BY <1>1, <2>1
  <2> QED BY <1>1, <2>2 DEF next
<1>5. CASE rule.op = "set"
  <2>1. next = [stack EXCEPT ![n].mode = rule.target]
    BY <1>5 DEF Transition
  <2>2. stack[n] \in Frames
    BY <1>1
  <2>3. DOMAIN next = DOMAIN stack /\ \A d \in DOMAIN stack : next[d].entry = stack[d].entry
    BY <1>1, <2>1, <2>2 DEF Frames
  <2> HIDE DEF next
  <2> QED BY <2>3 DEF next
<1>6. CASE rule.op = "none"
  <2>1. next = stack
    BY <1>6 DEF Transition
  <2> QED BY <2>1
<1> QED BY <1>2, <1>3, <1>4, <1>5, <1>6 DEF Rule

\* Where a mode was entered is a place.
LEMMA EntryPlace ==
    ASSUME Inductive, NEW f \in Frames
    PROVE  InTextOffset(f.entry.offset) \in Nat
<1>1. f.entry.offset \in Int /\ base \in Int /\ Word \in Nat /\ Word > 0
  <2>1. f.entry \in Positions(0..(Word - 1))
    BY DEF Frames
  <2>2. base \in Int
    BY DEF Inductive, TypeOK
  <2> QED BY <2>1, <2>2, BufferWithinText DEF Positions
<1>2. \A x \in Int : x % Word \in Nat
  BY <1>1
<1> QED BY <1>1, <1>2 DEF InTextOffset

\* The stack past a match: its entries are behind the match's end.
LEMMA EntriesPast ==
    ASSUME Inductive, EntriesBehind, Turn.meets = "match", ~Refused(Won(Turn), stack),
           stack' = Transition(Won(Turn), cursor, stack), base' = base
    PROVE  /\ \A d \in DOMAIN stack' : InTextOffset(stack'[d].entry.offset) <= base + Past(Turn).offset
           /\ Past(Turn).offset \in 0..Len(buffer)
           /\ base + cursor.offset < base + Past(Turn).offset
<1>1. Past(Turn).offset \in 0..Len(buffer) /\ Past(Turn).offset > cursor.offset
  BY PastTyped DEF Positions
<1>2. base \in Int /\ cursor.offset \in Int /\ Past(Turn).offset \in Int
  BY <1>1, TurnStart DEF Inductive, TypeOK
<1>3. base + cursor.offset < base + Past(Turn).offset
  BY <1>1, <1>2
<1>4. InTextOffset(cursor.offset) = base + cursor.offset
  BY PlacesOrdered, PlaceInText
<1>5. ASSUME NEW d \in DOMAIN stack'
      PROVE  InTextOffset(stack'[d].entry.offset) <= base + Past(Turn).offset
  <2>1. stack'[d].entry = cursor \/ \E e \in DOMAIN stack : stack'[d].entry = stack[e].entry
    <3> DEFINE i == Turn.munch.idx
    <3>1. i \in RuleIds
      BY TurnBounded
    <3>2. ~Refused(rules[i], stack) /\ stack' = Transition(rules[i], cursor, stack)
      BY DEF Won
    <3> HIDE DEF i
    <3> QED BY <3>1, <3>2, TransitionEntries
  <2>2. CASE stack'[d].entry = cursor
    BY <1>2, <1>3, <1>4, <2>2
  <2>3. CASE \E e \in DOMAIN stack : stack'[d].entry = stack[e].entry
    <3>1. PICK e \in DOMAIN stack : stack'[d].entry = stack[e].entry
      BY <2>3
    <3>2. InTextOffset(stack[e].entry.offset) <= base + cursor.offset
      BY DEF EntriesBehind
    <3>3. stack[e] \in Frames
      BY TurnStart
    <3>4. InTextOffset(stack[e].entry.offset) \in Nat
      BY <3>3, EntryPlace
    <3> QED BY <1>2, <1>3, <3>1, <3>2, <3>4
  <2> QED BY <2>1, <2>2, <2>3
<1> QED BY <1>1, <1>3, <1>5

-----------------------------------------------------------------------------
(* The entries stay behind *)

\* The root mode is entered at the beginning.
LEMMA InitEntries == Init => EntriesBehind
<1> SUFFICES ASSUME Init PROVE EntriesBehind
  OBVIOUS
<1>1. stack = RootStack(Beginning) /\ undo = <<>> /\ base = 0 /\ cursor = Beginning /\ saved = Beginning
  BY DEF Init
<1>2. stack = <<[mode |-> Default, entry |-> Beginning]>>
  BY <1>1 DEF RootStack
<1>3. Undone = stack
  BY <1>1 DEF Undone
<1>4. InTextOffset(Beginning.offset) = 0 /\ Beginning.offset = 0
  <2>1. Word \in Nat /\ Word > 0
    BY StreamAssumption
  <2>2. 0 % Word = 0
    BY <2>1
  <2> QED BY <1>1, <2>2 DEF InTextOffset, Beginning
<1>5. \A i \in DOMAIN stack : stack[i].entry = Beginning
  BY <1>2
<1> QED BY <1>1, <1>3, <1>4, <1>5 DEF EntriesBehind

\* A call moves the entries, the base and the cursor together.
LEMMA CallEntries ==
    ASSUME Inductive, EntriesBehind, pc = "idle", ~finished,
           NEW chars, NEW hold, Begin(chars, hold), outcome' = outcome
    PROVE  EntriesBehind' /\ base' + saved'.offset = base + saved.offset
<1> DEFINE k == Dropped
<1>1. outcome = Running /\ cursor = saved /\ undo = <<>> /\ Undone = stack
  BY DEF Inductive, CallsApart, Undone
<1>2. /\ base' = base + k /\ undo' = <<>> /\ cursor' = [cursor EXCEPT !.offset = @ - k] /\ saved' = cursor'
      /\ stack' = [i \in DOMAIN stack |-> [stack[i] EXCEPT !.entry.offset = (@ - k) % Word]]
  BY DEF Begin
<1>3. k \in 0..cursor.offset /\ cursor.offset \in 0..Len(buffer) /\ base \in Int
  BY DroppedBounded, PlacesOrdered DEF Inductive, TypeOK
<1>4. /\ k \in Nat /\ base \in Nat /\ base + k < Word /\ Word \in Nat
  <2>1. k \in 0..Len(buffer)
    <3>1. Len(buffer) \in Nat
      BY BufferWithinText
    <3> HIDE DEF k
    <3> QED BY <1>3, <3>1
  <2> QED BY <2>1, TextWithinWord
<1> HIDE DEF k
<1>5. cursor'.offset = cursor.offset - k /\ base' + cursor'.offset = base + cursor.offset
  <2>1. cursor'.offset = cursor.offset - k
    BY <1>2, TurnStart DEF Positions
  <2> QED BY <1>2, <1>3, <1>4, <2>1
<1>6. Undone' = stack'
  BY <1>2 DEF Undone
<1>7. ASSUME NEW i \in DOMAIN stack
      PROVE  (stack'[i].entry.offset + base') % Word = InTextOffset(stack[i].entry.offset)
  <2> DEFINE x == stack[i].entry.offset
  <2>1. stack[i] \in Frames
    BY TurnStart
  <2>2. x \in 0..(Word - 1)
    <3> DEFINE f == stack[i]
    <3>1. f \in Frames
      BY <2>1
    <3> HIDE DEF f
    <3>2. f.entry \in Positions(0..(Word - 1))
      BY <3>1 DEF Frames
    <3> QED BY <3>2 DEF f, Positions
  <2>3. stack'[i].entry.offset = (x - k) % Word
    BY <1>2, <2>1 DEF Frames, Positions
  <2> HIDE DEF x
  <2>4. (((x - k) % Word) + (base + k)) % Word = (x + base) % Word
    BY <1>4, <2>2, ShiftedBack
  <2> QED BY <1>2, <2>3, <2>4 DEF InTextOffset, x
<1>8. DOMAIN stack' = DOMAIN stack
  BY <1>2
<1>9. EntriesBehind'
  BY <1>1, <1>2, <1>5, <1>6, <1>7, <1>8 DEF EntriesBehind, InTextOffset
<1> QED BY <1>1, <1>2, <1>5, <1>9

\* A skip match opens its mode behind its end, and a waiting step goes back as far as before.
LEMMA SkipEntries ==
    ASSUME Inductive, EntriesBehind, pc = "collect", Skip(Turn)
    PROVE  EntriesBehind'
<1>1. /\ Turn.meets = "match" /\ ~Refused(Won(Turn), stack) /\ cursor' = Past(Turn)
      /\ stack' = Transition(Won(Turn), cursor, stack)
      /\ base' = base /\ saved' = saved /\ outcome' = outcome
  BY DEF Skip, bufferVars, callVars
<1>2. Undone' = Undone
  BY SkipInductive
<1> QED BY <1>1, <1>2, EntriesPast DEF EntriesBehind, InTextOffset

\* A token, or an error, leaves the entries behind the cursor where it leaves it.
LEMMA ProducedEntries ==
    ASSUME base' = base, saved' = cursor', undo' = <<>>,
           \A d \in DOMAIN stack' : InTextOffset(stack'[d].entry.offset) <= base + cursor'.offset
    PROVE  EntriesBehind'
<1>1. Undone' = stack'
  BY DEF Undone
<1> QED BY <1>1 DEF EntriesBehind, InTextOffset

\* Frames below a cursor that has moved on.
LEMMA StillBehind ==
    ASSUME Inductive, EntriesBehind, NEW place \in Int, base + cursor.offset <= place
    PROVE  \A d \in DOMAIN stack : InTextOffset(stack[d].entry.offset) <= place
<1> SUFFICES ASSUME NEW d \in DOMAIN stack
             PROVE  InTextOffset(stack[d].entry.offset) <= place
  OBVIOUS
<1>1. stack[d] \in Frames
  BY TurnStart
<1>2. InTextOffset(stack[d].entry.offset) \in Nat
  BY <1>1, EntryPlace
<1>3. InTextOffset(stack[d].entry.offset) <= base + cursor.offset
  BY DEF EntriesBehind
<1>4. base + cursor.offset \in Int
  BY PlacesOrdered
<1> QED BY <1>2, <1>3, <1>4

-----------------------------------------------------------------------------
(* Every step of a stream is a step of a HeldText, or none *)

\* feed and finish, up to the scan.
LEMMA FeedHolds ==
    ASSUME Inductive, EntriesBehind, NEW n \in 0..MaxPiece, Feed(n)
    PROVE  EntriesBehind' /\ Caller!Next
<1>1. /\ pc = "idle" /\ ~finished /\ fed' = fed + n /\ final' = FALSE
      /\ finished' = finished /\ outcome' = outcome
  BY DEF Feed
<1>2. PICK chars, hold : Begin(chars, hold)
  BY DEF Feed
<1>3. EntriesBehind' /\ base' + saved'.offset = base + saved.offset /\ pc' = "collect" /\ cursor = saved
  BY <1>1, <1>2, CallEntries, TurnStart DEF Begin, CallsApart
<1>4. n \in Nat /\ fed \in Nat
  BY DEF Inductive, TypeOK
<1>5. Caller!Feed(n)
  BY <1>1, <1>3 DEF Caller!Feed
<1>6. fed' >= fed /\ fed' - fed = n
  BY <1>1, <1>4
<1> QED BY <1>3, <1>5, <1>6 DEF Caller!Next

\* finish is the finish that HeldText has.
LEMMA FinishHolds ==
    ASSUME Inductive, EntriesBehind, Finish
    PROVE  EntriesBehind' /\ Caller!Next
<1>1. /\ pc = "idle" /\ ~finished /\ fed' = fed /\ final' = TRUE /\ finished' = TRUE /\ outcome' = outcome
      /\ Begin(tail, 0)
  BY DEF Finish
<1>2. EntriesBehind' /\ base' + saved'.offset = base + saved.offset /\ pc' = "collect" /\ cursor = saved
  BY <1>1, CallEntries, TurnStart DEF Begin, CallsApart
<1>3. Caller!Finish
  BY <1>1, <1>2 DEF Caller!Finish
<1> QED BY <1>2, <1>3 DEF Caller!Next

\* What collect's loop starts a turn from, and what no turn changes.
LEMMA TurnOfCaller ==
    ASSUME Inductive, pc = "collect"
    PROVE  outcome = Running /\ outcome.kind = "running" /\ (final => finished)
BY TurnStart DEF CallsApart, Running

\* A token takes the text it is made of.
LEMMA ProduceHolds ==
    ASSUME Inductive, EntriesBehind, pc = "collect",
           NEW token, NEW past, Produce(token, past), past.offset \in 0..Len(buffer),
           base + cursor.offset <= base + past.offset,
           \A d \in DOMAIN stack' : InTextOffset(stack'[d].entry.offset) <= base + past.offset
    PROVE  EntriesBehind' /\ [Caller!Next]_(Caller!vars)
<1>1. /\ cursor' = past /\ saved' = past /\ undo' = <<>>
      /\ UNCHANGED <<fed, base, finished, pc, final, outcome>>
  BY DEF Produce, bufferVars
<1>2. EntriesBehind'
  BY <1>1, ProducedEntries
<1> DEFINE from == base + saved.offset
           to   == base + past.offset
<1>3. from \in 0..fed /\ to \in 0..fed /\ from <= to /\ fed \in Nat
  <2>1. to \in 0..fed /\ fed \in Nat
    BY PlaceInText DEF Inductive, TypeOK
  <2> QED BY <2>1, PlacesOrdered
<1>4. CASE from = to
  <2>1. base' + saved'.offset = base + saved.offset
    BY <1>1, <1>4
  <2>2. UNCHANGED Caller!vars
    BY <1>1, <2>1 DEF Caller!vars
  <2> QED BY <1>2, <2>2
<1>5. CASE from # to
  <2>1. to \in (from + 1)..fed
    <3> HIDE DEF from, to
    <3> QED BY <1>3, <1>5
  <2>2. Caller!Take(to)
    BY <1>1, <2>1 DEF Caller!Take
  <2>3. from = base + (IF pc = "idle" THEN cursor ELSE saved).offset
    OBVIOUS
  <2> HIDE DEF from, to
  <2>4. Caller!Next
    BY <2>1, <2>2, <2>3 DEF Caller!Next
  <2> QED BY <1>2, <2>4
<1> QED BY <1>4, <1>5

\* A token is taken from the held text, in order.
LEMMA EmitHolds ==
    ASSUME Inductive, EntriesBehind, pc = "collect",
           Emit(Turn) \/ EmitErrorRun(Turn) \/ EmitUnterminated(Turn)
    PROVE  EntriesBehind' /\ [Caller!Next]_(Caller!vars)
<1>0. base + cursor.offset \in Int /\ cursor.offset \in 0..Len(buffer) /\ base \in Int
  BY PlacesOrdered DEF Inductive, TypeOK
<1>1. CASE Emit(Turn)
  <2> DEFINE token == Token(Won(Turn).kind, Past(Turn), Mode)
  <2>1. /\ Turn.meets = "match" /\ ~Refused(Won(Turn), stack)
        /\ stack' = Transition(Won(Turn), cursor, stack) /\ Produce(token, Past(Turn))
    BY <1>1 DEF Emit
  <2> HIDE DEF token
  <2>2. base' = base
    BY <2>1 DEF Produce, bufferVars
  <2>3. /\ \A d \in DOMAIN stack' : InTextOffset(stack'[d].entry.offset) <= base + Past(Turn).offset
        /\ Past(Turn).offset \in 0..Len(buffer)
        /\ base + cursor.offset < base + Past(Turn).offset
    BY <2>1, <2>2, EntriesPast
  <2>4. base + cursor.offset <= base + Past(Turn).offset
    BY <1>0, <2>3
  <2> QED BY <2>1, <2>3, <2>4, ProduceHolds
<1>2. CASE EmitErrorRun(Turn)
  <2> DEFINE n     == RunStop - At
             end   == Advance(buffer, cursor, n)
             token == Token(ErrorKind, end, Mode)
  <2>1. Turn.meets = "nothing" /\ stack' = stack /\ Produce(token, end)
    BY <1>2 DEF EmitErrorRun
  <2>2. RunStop \in (At + 1)..Len(buffer) /\ Len(buffer) \in Nat /\ At = cursor.offset
    BY <2>1, TurnBounded, RunStopBounded DEF At
  <2>3. n \in 0..(Len(buffer) - cursor.offset) /\ n \in Nat
    BY <1>0, <2>2
  <2> HIDE DEF n
  <2>4. end \in Positions(0..Len(buffer)) /\ end.offset = cursor.offset + n
    <3>1. buffer \in Seq(Char)
      BY DEF Inductive, TypeOK
    <3> QED BY <2>3, <3>1, TurnStart, AdvanceTyped
  <2> HIDE DEF end, token
  <2>5. end.offset \in 0..Len(buffer) /\ base + cursor.offset <= base + end.offset
        /\ base + end.offset \in Int
    <3>1. end.offset \in 0..Len(buffer)
      BY <2>4 DEF Positions
    <3> QED BY <1>0, <2>3, <2>4, <3>1
  <2>6. \A d \in DOMAIN stack : InTextOffset(stack[d].entry.offset) <= base + end.offset
    BY <2>5, StillBehind
  <2> QED BY <2>1, <2>5, <2>6, ProduceHolds
<1>3. CASE EmitUnterminated(Turn)
  <2> DEFINE token == Token(ErrorKind, cursor, Mode)
  <2>1. Len(stack) > 1 /\ stack' = SubSeq(stack, 1, 1) /\ Produce(token, cursor)
    BY <1>3 DEF EmitUnterminated
  <2> HIDE DEF token
  <2>2. base + cursor.offset <= base + cursor.offset
    BY <1>0
  <2>3. \A d \in DOMAIN stack' : d \in DOMAIN stack /\ stack'[d] = stack[d]
    BY <2>1, TurnStart
  <2>4. \A d \in DOMAIN stack' : InTextOffset(stack'[d].entry.offset) <= base + cursor.offset
    BY <2>3 DEF EntriesBehind
  <2> QED BY <1>0, <2>1, <2>2, <2>4, ProduceHolds
<1> QED BY <1>1, <1>2, <1>3

\* A step that waits ends the call with what the last token left.
LEMMA WaitHolds ==
    ASSUME Inductive, EntriesBehind, pc = "collect", Wait(Turn) \/ WaitInRun(Turn) \/ WaitOpen(Turn)
    PROVE  EntriesBehind' /\ Caller!Next
<1>1. /\ cursor' = saved /\ stack' = Undone /\ pc' = "idle"
      /\ UNCHANGED <<fed, base, saved, finished, final, outcome>>
  BY DEF Wait, WaitInRun, WaitOpen, Pending, Return, bufferVars
<1>2. Undone' = Undone /\ outcome = Running
  BY WaitInductive, TurnOfCaller
<1>3. EntriesBehind'
  BY <1>1, <1>2 DEF EntriesBehind, InTextOffset
<1>4. base + saved.offset \in (base + saved.offset)..fed
  BY PlacesOrdered DEF Inductive, TypeOK
<1>5. Caller!Return(base + saved.offset)
  BY <1>1, <1>4 DEF Caller!Return
<1> QED BY <1>1, <1>3, <1>4, <1>5 DEF Caller!Next

\* The end of the text is after the skip matches at it.
LEMMA EndHolds ==
    ASSUME Inductive, EntriesBehind, pc = "collect", End(Turn)
    PROVE  EntriesBehind' /\ Caller!Next
<1>1. /\ final /\ outcome' = Ended("end", InText(cursor), Mode) /\ pc' = "idle"
      /\ UNCHANGED <<fed, base, cursor, stack, undo, saved, finished, final>>
  BY DEF End, Return, bufferVars, scanVars
<1>2. outcome'.kind = "end" /\ outcome' # Running /\ outcome.kind = "running"
  BY <1>1, TurnOfCaller DEF Ended, Running
<1>3. EntriesBehind'
  BY <1>1, <1>2 DEF EntriesBehind, InTextOffset
<1>4. base + cursor.offset \in (base + saved.offset)..fed
  BY PlacesOrdered DEF Inductive, TypeOK
<1>5. Caller!Return(base + cursor.offset)
  BY <1>1, <1>2, <1>4 DEF Caller!Return
<1> QED BY <1>1, <1>3, <1>4, <1>5 DEF Caller!Next

\* An error the text is at, or one about a mode left open.
LEMMA FailHolds ==
    ASSUME Inductive, EntriesBehind, pc = "collect",
           NoRule(Turn) \/ BadTransition(Turn) \/ ZeroLength(Turn) \/ Unterminated(Turn)
    PROVE  EntriesBehind' /\ Caller!Next
<1>1. /\ UNCHANGED <<fed, base, stack, saved, final>> /\ finished' = TRUE /\ pc' = "idle"
  BY DEF NoRule, BadTransition, ZeroLength, Unterminated, Fail, Return, bufferVars
<1>2. outcome.kind = "running" /\ outcome' # Running
  BY TurnOfCaller DEF NoRule, BadTransition, ZeroLength, Unterminated, Fail, Ended, Running
<1> DEFINE from == base + saved.offset
           here == base + cursor.offset
           to   == base + cursor'.offset
<1>3. here \in from..fed /\ fed \in Nat /\ from \in 0..fed
  BY PlacesOrdered DEF Inductive, TypeOK
<1>4. to \in here..fed
  <2>1. CASE cursor' = cursor
    BY <1>3, <2>1
  <2>2. CASE BadTransition(Turn)
    <3>1. Turn.meets = "match" /\ cursor' = Past(Turn)
      BY <2>2 DEF BadTransition
    <3>2. cursor'.offset \in 0..Len(buffer) /\ cursor'.offset > cursor.offset
      BY <3>1, PastTyped DEF Positions
    <3>3. to \in 0..fed
      BY <3>2, PlaceInText
    <3>4. to > here
      <4>1. base \in Int /\ cursor.offset \in Int /\ cursor'.offset \in Int
        BY <3>2, TurnStart DEF Inductive, TypeOK
      <4> QED BY <3>2, <4>1
    <3> QED BY <1>3, <3>3, <3>4
  <2> QED BY <2>1, <2>2 DEF NoRule, ZeroLength, Unterminated
<1>5. EntriesBehind'
  <2>1. \A d \in DOMAIN stack : InTextOffset(stack[d].entry.offset) <= to
    BY <1>3, <1>4, StillBehind
  <2> QED BY <1>1, <1>2, <2>1 DEF EntriesBehind, InTextOffset
<1>6. \E kind \in {"here", "entry"}, at \in 0..fed : Caller!Fail(kind, at, to)
  <2>1. CASE NoRule(Turn) \/ BadTransition(Turn) \/ ZeroLength(Turn)
    <3>1. outcome'.kind \in {"no_rule", "bad_transition", "zero_length"} /\ outcome'.where = InText(cursor)
      BY <2>1 DEF NoRule, BadTransition, ZeroLength, Fail, Ended
    <3>2. outcome'.where.offset = here
      BY <3>1, PlacesOrdered
    <3>3. here \in from..to /\ here \in 0..fed /\ to \in from..fed
      <4> HIDE DEF from, here, to
      <4> QED BY <1>3, <1>4
    <3>4. Caller!Fail("here", here, to)
      BY <1>1, <1>2, <3>1, <3>2, <3>3 DEF Caller!Fail, Caller!Failed
    <3> HIDE DEF here, to
    <3> QED BY <3>3, <3>4
  <2>2. CASE Unterminated(Turn)
    <3> DEFINE f  == Last(stack)
               at == InTextOffset(f.entry.offset)
    <3>1. final /\ outcome'.kind = "unterminated" /\ outcome'.where = InText(f.entry) /\ cursor' = cursor
      BY <2>2 DEF Unterminated, Fail, Ended
    <3>2. Len(stack) \in DOMAIN stack /\ f = stack[Len(stack)] /\ f \in Frames
      BY TurnStart DEF Last
    <3>3. outcome'.where.offset = at
      <4>1. f.entry = [offset |-> f.entry.offset, line |-> f.entry.line, column |-> f.entry.column]
        <5> HIDE DEF f
        <5> QED BY <3>2 DEF Frames, Positions
      <4> HIDE DEF f
      <4> QED BY <3>1, <4>1 DEF InText, InTextOffset
    <3>4. at \in Nat /\ at <= here
      BY <3>2, EntryPlace DEF EntriesBehind
    <3>5. at \in 0..to /\ at \in 0..fed /\ to \in from..fed
      <4> HIDE DEF from, here, to, at
      <4> QED BY <1>3, <1>4, <3>4
    <3> HIDE DEF at
    <3>6. Caller!Fail("entry", at, to)
      BY <1>1, <1>2, <3>1, <3>3, <3>5 DEF Caller!Fail, Caller!Failed
    <3> HIDE DEF to
    <3> QED BY <3>5, <3>6
  <2> QED BY <2>1, <2>2
<1>7. to \in from..fed
  <2> HIDE DEF from, here, to
  <2> QED BY <1>3, <1>4
<1>8. from = base + (IF pc = "idle" THEN cursor ELSE saved).offset
  OBVIOUS
<1> HIDE DEF from, to
<1> QED BY <1>5, <1>6, <1>7, <1>8 DEF Caller!Next

\* A skip match changes nothing a caller sees.
LEMMA SkipHolds ==
    ASSUME Inductive, EntriesBehind, pc = "collect", Skip(Turn)
    PROVE  EntriesBehind' /\ UNCHANGED Caller!vars
<1>1. UNCHANGED <<fed, base, saved, finished, pc, final, outcome>>
  BY DEF Skip, bufferVars, callVars
<1>2. UNCHANGED Caller!vars
  BY <1>1 DEF Caller!vars
<1> QED BY <1>2, SkipEntries

\* So each step is one of HeldText, or changes nothing it speaks of.
LEMMA NextHolds ==
    Inductive /\ EntriesBehind /\ [Next]_vars => EntriesBehind' /\ [Caller!Next]_(Caller!vars)
<1> SUFFICES ASSUME Inductive, EntriesBehind, [Next]_vars
             PROVE  EntriesBehind' /\ [Caller!Next]_(Caller!vars)
  OBVIOUS
<1>1. CASE \E n \in 0..MaxPiece : Feed(n)
  BY <1>1, FeedHolds
<1>2. CASE Finish
  BY <1>2, FinishHolds
<1>3. CASE Collect
  BY <1>3, SkipHolds, EmitHolds, WaitHolds, EndHolds, FailHolds DEF Collect
<1>4. CASE UNCHANGED vars
  <2>1. UNCHANGED <<fed, base, cursor, saved, stack, undo, finished, pc, final, outcome>>
    BY <1>4 DEF vars, bufferVars, scanVars, callVars
  <2>2. Undone' = Undone
    BY <2>1 DEF Undone
  <2>3. EntriesBehind'
    BY <2>1, <2>2 DEF EntriesBehind, InTextOffset
  <2>4. UNCHANGED Caller!vars
    BY <2>1 DEF Caller!vars
  <2> QED BY <2>3, <2>4
<1> QED BY <1>1, <1>2, <1>3, <1>4 DEF Next

-----------------------------------------------------------------------------
(* The theorem *)

\* A token_stream is a HeldText, whatever its rules and its pieces: its calls commit to the text in
\* order and to none that was not fed, an error is at text not committed or where an open mode was
\* entered, and no call follows the last.  PythonStream, proved about HeldText, so holds of this stream.
THEOREM StreamHoldsText == Safety => HoldsText
<1>1. Init => Caller!Init
  BY DEF Init, Caller!Init, Caller!NoFailure, Running, Beginning
<1>2. Safety => []EntriesBehind
  <2>1. Inductive /\ EntriesBehind /\ [Next]_vars => EntriesBehind'
    BY NextHolds
  <2> QED BY <2>1, InitEntries, StreamInductive, PTL DEF Safety
<1>3. Inductive /\ EntriesBehind /\ [Next]_vars => [Caller!Next]_(Caller!vars)
  BY NextHolds
<1> QED BY <1>1, <1>2, <1>3, StreamInductive, PTL DEF Safety, HoldsText, Caller!Spec
=============================================================================
