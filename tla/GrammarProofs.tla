---------------------------- MODULE GrammarProofs -----------------------------
(***************************************************************************)
(* For every grammar file: a grammar the parser accepts means what its     *)
(* lines say, one it refuses is refused at its first mistake, and what it  *)
(* accepts the lexer's constructor builds.                                 *)
(*                                                                         *)
(* The operators read a file from its first line to its last, so what they *)
(* give is shown a line at a time: what is known of the lines before one,  *)
(* and what the line adds.  The parser does the same with its variables,   *)
(* and each pass over the places is those of the lines read so far.        *)
(***************************************************************************)
EXTENDS CommandLine, FiniteSetTheorems, SequenceTheorems, WellFoundedInduction, TLAPS

-----------------------------------------------------------------------------
(* Least members, and functions that go on from a value *)

\* A set of naturals that is not empty has a least element, which is what Min chooses.
LEMMA MinOfNaturals ==
    ASSUME NEW S \in SUBSET Nat, S # {}
    PROVE  Min(S) \in S /\ \A y \in S : Min(S) <= y
<1>1. PICK x \in S : \A y \in S : <<y, x>> \notin OpToRel(<, Nat)
  BY NatLessThanWellFounded, WFMin
<1>2. \A y \in S : x <= y
  <2>1. TAKE y \in S
  <2>2. ~(y < x) BY <1>1 DEF OpToRel
  <2> QED BY <2>2
<1> QED BY <1>2 DEF Min

\* The values from x on, each by a step from its place and the value before.
Iterates(f, n, T, x, step) ==
    f \in [0..n -> T] /\ f[0] = x /\ \A i \in 1..n : f[i] = step[<<i, f[i - 1]>>]

\* Such a step can be taken n times.
LEMMA Iterated ==
    ASSUME NEW n \in Nat, NEW T, NEW x \in T, NEW step \in [(1..n) \X T -> T]
    PROVE  \E f : Iterates(f, n, T, x, step)
<1> DEFINE Runs(m) == { f \in [0..m -> T] : Iterates(f, m, T, x, step) }
           Left == { n - m : m \in { m \in 0..n : Runs(m) # {} } }
<1>1. Left \in SUBSET Nat /\ Left # {}
  <2> DEFINE g == [i \in 0..0 |-> x]
  <2>1. g \in [0..0 -> T] /\ g[0] = x
    OBVIOUS
  <2> HIDE DEF g
  <2>2. g \in Runs(0)
    BY <2>1 DEF Iterates
  <2>3. 0 \in 0..n
    OBVIOUS
  <2> HIDE DEF Runs
  <2> QED BY <2>2, <2>3
<1>2. PICK t \in Left : \A u \in Left : <<u, t>> \notin OpToRel(<, Nat)
  <2> HIDE DEF Left
  <2> QED BY <1>1, NatLessThanWellFounded, WFMin
<1> HIDE DEF Runs
<1>3. PICK m \in 0..n : t = n - m /\ Runs(m) # {}
  BY <1>2
<1>4. PICK f : f \in Runs(m)
  BY <1>3
<1>5. CASE m = n
  BY <1>4, <1>5 DEF Runs
<1>6. CASE m # n
  <2> DEFINE g == [i \in 0..(m + 1) |-> IF i = m + 1 THEN step[<<m + 1, f[m]>>] ELSE f[i]]
  <2>1. m + 1 \in 1..n /\ m \in Nat /\ m \in 0..m
    BY <1>6
  <2>2. f \in [0..m -> T] /\ f[0] = x /\ \A i \in 1..m : f[i] = step[<<i, f[i - 1]>>]
    BY <1>4 DEF Runs, Iterates
  <2>3. f[m] \in T /\ <<m + 1, f[m]>> \in (1..n) \X T
    BY <2>1, <2>2
  <2>4. \A i \in 0..(m + 1) : i = m + 1 \/ (i \in 0..m /\ i # m + 1)
    BY <2>1
  <2>5. g \in [0..(m + 1) -> T]
    BY <2>2, <2>3, <2>4
  <2>6. g[0] = x
    BY <2>1, <2>2
  <2>7. ASSUME NEW i \in 1..(m + 1) PROVE g[i] = step[<<i, g[i - 1]>>]
    <3>1. i - 1 \in 0..(m + 1) /\ i - 1 # m + 1 /\ i \in 0..(m + 1) /\ g[i - 1] = f[i - 1]
      BY <2>1
    <3>2. CASE i = m + 1
      <4>1. g[i] = step[<<m + 1, f[m]>>] /\ g[i - 1] = f[m]
        BY <2>1, <3>1, <3>2
      <4> QED BY <3>2, <4>1
    <3>3. CASE i # m + 1
      <4>1. i \in 1..m /\ g[i] = f[i]
        BY <2>1, <3>1, <3>3
      <4> QED BY <2>2, <3>1, <4>1
    <3> QED BY <3>2, <3>3
  <2> HIDE DEF g
  <2>8. g \in Runs(m + 1)
    BY <2>5, <2>6, <2>7 DEF Runs, Iterates
  <2>9. n - (m + 1) \in Left /\ n - (m + 1) < t /\ n - (m + 1) \in Nat /\ t \in Nat
    BY <1>3, <2>1, <2>8
  <2> HIDE DEF Left
  <2> QED BY <1>2, <2>9 DEF OpToRel
<1> QED BY <1>5, <1>6

-----------------------------------------------------------------------------
(* The members of a set in ascending order *)

\* The function Ascending goes on.
UpTo(S, low, high) ==
    LET upTo[k \in (low - 1)..high] ==
            IF k < low THEN <<>> ELSE IF k \in S THEN Append(upTo[k - 1], k) ELSE upTo[k - 1]
    IN  upTo

LEMMA UpToSteps ==
    ASSUME NEW S, NEW low \in Int, NEW high \in Int, high >= low - 1
    PROVE  /\ UpTo(S, low, high)[low - 1] = <<>>
           /\ \A k \in low..high :
                  UpTo(S, low, high)[k] = IF k \in S THEN Append(UpTo(S, low, high)[k - 1], k)
                                          ELSE UpTo(S, low, high)[k - 1]
<1> DEFINE n    == high - low + 1
           T    == Seq(Int)
           step == [p \in (1..n) \X T |-> IF low - 1 + p[1] \in S THEN Append(p[2], low - 1 + p[1]) ELSE p[2]]
           Is(g) == g = [k \in (low - 1)..high |->
                            IF k < low THEN <<>> ELSE IF k \in S THEN Append(g[k - 1], k) ELSE g[k - 1]]
<1>1. n \in Nat /\ <<>> \in T
  OBVIOUS
<1>2. step \in [(1..n) \X T -> T]
      /\ \A i \in 1..n, s \in T : step[<<i, s>>] = IF low - 1 + i \in S THEN Append(s, low - 1 + i) ELSE s
  <2>1. \A i \in 1..n, s \in T : Append(s, low - 1 + i) \in T
    OBVIOUS
  <2> HIDE DEF T, n
  <2>2. \A p \in (1..n) \X T : p[1] \in 1..n /\ p[2] \in T
    OBVIOUS
  <2> QED BY <2>1, <2>2
<1>3. PICK f : Iterates(f, n, T, <<>>, step)
  <2> HIDE DEF n, T, step
  <2> QED BY <1>1, <1>2, Iterated
<1>4. f \in [0..n -> T] /\ f[0] = <<>> /\ \A i \in 1..n : f[i] = step[<<i, f[i - 1]>>]
  BY <1>3 DEF Iterates
<1>5. \A i \in 1..n : f[i] = IF low - 1 + i \in S THEN Append(f[i - 1], low - 1 + i) ELSE f[i - 1]
  <2> HIDE DEF step
  <2>1. \A i \in 1..n : i - 1 \in 0..n
    BY <1>1
  <2>2. \A i \in 1..n : f[i - 1] \in T
    BY <1>4, <2>1
  <2> QED BY <1>2, <1>4, <2>2
<1> DEFINE F == [k \in (low - 1)..high |-> f[k - low + 1]]
           G(k) == IF k < low THEN <<>> ELSE IF k \in S THEN Append(F[k - 1], k) ELSE F[k - 1]
<1>6. ASSUME NEW k \in (low - 1)..high PROVE F[k] = G(k)
  <2>1. CASE k = low - 1
    BY <1>4, <2>1
  <2>2. CASE k # low - 1
    <3>1. ~(k < low) /\ k - 1 \in (low - 1)..high /\ k - low + 1 \in 1..n
          /\ low - 1 + (k - low + 1) = k /\ (k - 1) - low + 1 = (k - low + 1) - 1
      BY <2>2
    <3>2. F[k] = f[k - low + 1] /\ F[k - 1] = f[(k - low + 1) - 1]
      BY <3>1
    <3> QED BY <1>5, <3>1, <3>2
  <2> QED BY <2>1, <2>2
<1>7. Is(F)
  <2>1. F = [k \in (low - 1)..high |-> G(k)]
    <3> HIDE DEF G
    <3>1. \A k \in (low - 1)..high : F[k] = G(k)
      BY <1>6
    <3> QED BY <3>1
  <2> QED BY <2>1
<1>8. UpTo(S, low, high) = CHOOSE g : Is(g)
  BY DEF UpTo
<1> HIDE DEF F
<1>9. Is(UpTo(S, low, high))
  <2> HIDE DEF Is
  <2> QED BY <1>7, <1>8
<1> DEFINE U == UpTo(S, low, high)
<1>10. \A k \in (low - 1)..high :
          U[k] = IF k < low THEN <<>> ELSE IF k \in S THEN Append(U[k - 1], k) ELSE U[k - 1]
  <2>1. Is(U)
    BY <1>9
  <2> HIDE DEF U
  <2> QED BY <2>1
<1> HIDE DEF U
<1>11. U[low - 1] = <<>>
  BY <1>10
<1>12. \A k \in low..high : U[k] = IF k \in S THEN Append(U[k - 1], k) ELSE U[k - 1]
  BY <1>10
<1> QED BY <1>11, <1>12 DEF U

\* What two bounds and two sets have in common is the same in both.
LEMMA UpToAgree ==
    ASSUME NEW S, NEW R, NEW low \in Int, NEW high \in Int, NEW top \in Int, high >= low - 1, top >= high,
           \A k \in low..high : k \in S <=> k \in R
    PROVE  \A k \in (low - 1)..high : UpTo(S, low, high)[k] = UpTo(R, low, top)[k]
<1> DEFINE f == UpTo(S, low, high)
           g == UpTo(R, low, top)
           Wrong == { j \in 0..(high - low + 1) : f[low - 1 + j] # g[low - 1 + j] }
<1>1. /\ f[low - 1] = <<>> /\ \A k \in low..high : f[k] = IF k \in S THEN Append(f[k - 1], k) ELSE f[k - 1]
      /\ g[low - 1] = <<>> /\ \A k \in low..top : g[k] = IF k \in R THEN Append(g[k - 1], k) ELSE g[k - 1]
  BY UpToSteps
<1> HIDE DEF f, g
<1>2. Wrong = {}
  <2>1. SUFFICES ASSUME Wrong # {} PROVE FALSE
    OBVIOUS
  <2>2. Wrong \in SUBSET Nat
    OBVIOUS
  <2> DEFINE j == Min(Wrong)
  <2>3. j \in Wrong /\ \A y \in Wrong : j <= y
    BY <2>1, <2>2, MinOfNaturals
  <2> HIDE DEF j
  <2>4. j \in 0..(high - low + 1) /\ f[low - 1 + j] # g[low - 1 + j]
    BY <2>3
  <2>5. j # 0
    BY <1>1, <2>4
  <2> DEFINE k == low - 1 + j
  <2>6. k \in low..high /\ k \in low..top /\ k - 1 = low - 1 + (j - 1) /\ j - 1 \in 0..(high - low + 1) /\ ~(j <= j - 1)
    BY <2>4, <2>5
  <2>7. j - 1 \notin Wrong
    <3> HIDE DEF Wrong
    <3> QED BY <2>3, <2>6
  <2>8. f[k - 1] = g[k - 1]
    BY <2>6, <2>7
  <2> HIDE DEF k
  <2>9. f[k] = g[k]
    BY <1>1, <2>6, <2>8
  <2> QED BY <2>4, <2>9 DEF k
<1>3. ASSUME NEW k \in (low - 1)..high PROVE f[k] = g[k]
  <2>1. k - low + 1 \in 0..(high - low + 1) /\ low - 1 + (k - low + 1) = k
    OBVIOUS
  <2>2. k - low + 1 \notin Wrong
    <3> HIDE DEF Wrong
    <3> QED BY <1>2
  <2> QED BY <2>1, <2>2
<1> QED BY <1>3 DEF f, g

LEMMA AscendingIsUpTo == \A S, low, high : Ascending(S, low, high) = UpTo(S, low, high)[high]
BY DEF Ascending, UpTo

\* One bound further, the set has its bound as its last member, or none more.
LEMMA AscendingSteps ==
    ASSUME NEW S, NEW low \in Int
    PROVE  /\ Ascending(S, low, low - 1) = <<>>
           /\ \A k \in Int : k >= low =>
                  Ascending(S, low, k) = IF k \in S THEN Append(Ascending(S, low, k - 1), k)
                                         ELSE Ascending(S, low, k - 1)
<1>1. Ascending(S, low, low - 1) = <<>>
  BY AscendingIsUpTo, UpToSteps
<1>2. ASSUME NEW k \in Int, k >= low
      PROVE  Ascending(S, low, k) = IF k \in S THEN Append(Ascending(S, low, k - 1), k)
                                    ELSE Ascending(S, low, k - 1)
  <2>1. UpTo(S, low, k)[k] = IF k \in S THEN Append(UpTo(S, low, k)[k - 1], k) ELSE UpTo(S, low, k)[k - 1]
    <3>1. k \in low..k /\ k >= low - 1
      BY <1>2
    <3> QED BY <3>1, UpToSteps
  <2>2. UpTo(S, low, k - 1)[k - 1] = UpTo(S, low, k)[k - 1]
    <3>1. k - 1 \in Int /\ k - 1 >= low - 1 /\ k >= k - 1 /\ k - 1 \in (low - 1)..(k - 1)
      BY <1>2
    <3>2. \A j \in (low - 1)..(k - 1) : UpTo(S, low, k - 1)[j] = UpTo(S, low, k)[j]
      BY <3>1, UpToAgree
    <3> QED BY <3>1, <3>2
  <2> QED BY <2>1, <2>2, AscendingIsUpTo
<1> QED BY <1>1, <1>2

\* Only what the set has between the bounds matters.
LEMMA AscendingAgrees ==
    ASSUME NEW S, NEW R, NEW low \in Int, NEW high \in Int, high >= low - 1,
           \A k \in low..high : k \in S <=> k \in R
    PROVE  Ascending(S, low, high) = Ascending(R, low, high)
<1>1. high \in (low - 1)..high /\ high >= high
  OBVIOUS
<1>2. \A k \in (low - 1)..high : UpTo(S, low, high)[k] = UpTo(R, low, high)[k]
  BY <1>1, UpToAgree
<1> QED BY <1>1, <1>2, AscendingIsUpTo

\* The members are those of the set between the bounds, each once, in order.
LEMMA AscendingMembers ==
    ASSUME NEW S, NEW low \in Int, NEW high \in Int, high >= low - 1
    PROVE  LET s == Ascending(S, low, high)
           IN  /\ s \in Seq(low..high) /\ Len(s) \in Nat
               /\ \A i, j \in 1..Len(s) : i < j => s[i] < s[j]
               /\ \A i \in 1..Len(s) : s[i] \in S /\ s[i] \in low..high
               /\ \A k \in low..high : k \in S => \E i \in 1..Len(s) : s[i] = k
<1> DEFINE A(k) == Ascending(S, low, k)
           Good(k) == /\ A(k) \in Seq(low..high) /\ Len(A(k)) \in Nat
                      /\ \A i, j \in 1..Len(A(k)) : i < j => A(k)[i] < A(k)[j]
                      /\ \A i \in 1..Len(A(k)) : A(k)[i] \in S /\ A(k)[i] \in low..k
                      /\ \A m \in low..k : m \in S => \E i \in 1..Len(A(k)) : A(k)[i] = m
           Wrong == { j \in 0..(high - low + 1) : ~Good(low - 1 + j) }
<1>1. /\ A(low - 1) = <<>>
      /\ \A k \in Int : k >= low => A(k) = IF k \in S THEN Append(A(k - 1), k) ELSE A(k - 1)
  BY AscendingSteps
<1> HIDE DEF A
<1>2. Good(low - 1)
  <2>0. A(low - 1) = <<>>
    BY <1>1
  <2> DEFINE a == A(low - 1)
  <2>1. a \in Seq(low..high) /\ Len(a) = 0 /\ Len(a) \in Nat
    <3> HIDE DEF a
    <3>1. a = <<>>
      BY <2>0 DEF a
    <3> QED BY <3>1
  <2>2. 1..Len(A(low - 1)) = {} /\ low..(low - 1) = {}
    BY <2>1
  <2> QED BY <2>1, <2>2
<1>3. ASSUME NEW k \in low..high, Good(k - 1) PROVE Good(k)
  <2> DEFINE s == A(k - 1)
  <2>1. /\ s \in Seq(low..high) /\ Len(s) \in Nat
        /\ \A i, j \in 1..Len(s) : i < j => s[i] < s[j]
        /\ \A i \in 1..Len(s) : s[i] \in S /\ s[i] \in low..(k - 1)
        /\ \A m \in low..(k - 1) : m \in S => \E i \in 1..Len(s) : s[i] = m
    BY <1>3
  <2>2. A(k) = IF k \in S THEN Append(s, k) ELSE s
    BY <1>1
  <2> HIDE DEF s
  <2>3. CASE k \notin S
    <3>1. A(k) = s
      BY <2>2, <2>3
    <3>2. \A i \in 1..Len(s) : s[i] \in low..k
      BY <2>1
    <3>3. \A m \in low..k : m \in S => m \in low..(k - 1)
      BY <2>3
    <3> QED BY <2>1, <3>1, <3>2, <3>3
  <2>4. CASE k \in S
    <3> DEFINE t == Append(s, k)
    <3>1. /\ t \in Seq(low..high) /\ Len(t) = Len(s) + 1 /\ t[Len(s) + 1] = k
          /\ \A i \in 1..Len(s) : t[i] = s[i]
      BY <2>1
    <3> HIDE DEF t
    <3>2. \A i \in 1..Len(t) : i = Len(s) + 1 \/ i \in 1..Len(s)
      BY <2>1, <3>1
    <3>3. \A i, j \in 1..Len(t) : i < j => t[i] < t[j]
      <4>1. TAKE i, j \in 1..Len(t)
      <4>2. HAVE i < j
      <4>3. i \in 1..Len(s)
        BY <2>1, <3>1, <4>2
      <4>4. s[i] < k
        BY <2>1, <4>3
      <4> QED BY <2>1, <3>1, <3>2, <4>2, <4>3, <4>4
    <3>4. \A i \in 1..Len(t) : t[i] \in S /\ t[i] \in low..k
      <4>1. TAKE i \in 1..Len(t)
      <4>2. CASE i = Len(s) + 1
        BY <2>4, <3>1, <4>2
      <4>3. CASE i \in 1..Len(s)
        <5>1. s[i] \in S /\ s[i] \in low..(k - 1)
          BY <2>1, <4>3
        <5> QED BY <3>1, <4>3, <5>1
      <4> QED BY <3>2, <4>2, <4>3
    <3>5. \A m \in low..k : m \in S => \E i \in 1..Len(t) : t[i] = m
      <4>1. TAKE m \in low..k
      <4>2. HAVE m \in S
      <4>3. CASE m = k
        <5>1. Len(s) + 1 \in 1..Len(t)
          BY <2>1, <3>1
        <5> QED BY <3>1, <4>3, <5>1
      <4>4. CASE m # k
        <5>1. m \in low..(k - 1)
          BY <4>4
        <5>2. PICK i \in 1..Len(s) : s[i] = m
          BY <2>1, <4>2, <5>1
        <5>3. i \in 1..Len(t)
          BY <2>1, <3>1
        <5> QED BY <3>1, <5>2, <5>3
      <4> QED BY <4>3, <4>4
    <3>6. A(k) = t /\ Len(t) \in Nat
      BY <2>1, <2>2, <2>4, <3>1 DEF t
    <3> QED BY <3>1, <3>3, <3>4, <3>5, <3>6
  <2> QED BY <2>3, <2>4
<1> HIDE DEF Good
<1>4. Wrong = {}
  <2>1. SUFFICES ASSUME Wrong # {} PROVE FALSE
    OBVIOUS
  <2>2. Wrong \in SUBSET Nat
    OBVIOUS
  <2> DEFINE j == Min(Wrong)
  <2>3. j \in Wrong /\ \A y \in Wrong : j <= y
    BY <2>1, <2>2, MinOfNaturals
  <2> HIDE DEF j
  <2>4. j \in 0..(high - low + 1) /\ ~Good(low - 1 + j)
    BY <2>3
  <2>5. j # 0
    <3>1. low - 1 + 0 = low - 1
      OBVIOUS
    <3> QED BY <1>2, <2>4, <3>1
  <2>6. /\ low - 1 + j \in low..high /\ (low - 1 + j) - 1 = low - 1 + (j - 1)
        /\ j - 1 \in 0..(high - low + 1) /\ ~(j <= j - 1)
    BY <2>4, <2>5
  <2>7. j - 1 \notin Wrong
    <3> HIDE DEF Wrong
    <3> QED BY <2>3, <2>6
  <2>8. Good((low - 1 + j) - 1)
    BY <2>6, <2>7
  <2> QED BY <1>3, <2>4, <2>6, <2>8
<1>5. Good(high)
  <2>1. high - low + 1 \in 0..(high - low + 1) /\ low - 1 + (high - low + 1) = high
    OBVIOUS
  <2>2. high - low + 1 \notin Wrong
    <3> HIDE DEF Wrong
    <3> QED BY <1>4
  <2> QED BY <2>1, <2>2
<1> QED BY <1>5 DEF Good, A

-----------------------------------------------------------------------------
(* Flattening *)

\* A set that has the first of some integers, and each next one, has them all.
LEMMA Upward ==
    ASSUME NEW low \in Int, NEW high \in Int, NEW Good, low \in Good,
           \A k \in (low + 1)..high : k - 1 \in Good => k \in Good
    PROVE  \A k \in low..high : k \in Good
<1> DEFINE Wrong == { j \in 0..(high - low) : low + j \notin Good }
<1>1. Wrong = {}
  <2>1. SUFFICES ASSUME Wrong # {} PROVE FALSE
    OBVIOUS
  <2>2. Wrong \in SUBSET Nat
    OBVIOUS
  <2> DEFINE j == Min(Wrong)
  <2>3. j \in Wrong /\ \A y \in Wrong : j <= y
    BY <2>1, <2>2, MinOfNaturals
  <2> HIDE DEF j
  <2>4. j \in 0..(high - low) /\ low + j \notin Good
    BY <2>3
  <2>5. j # 0
    <3>1. low + 0 = low
      OBVIOUS
    <3> QED BY <2>4, <3>1
  <2>6. low + j \in (low + 1)..high /\ (low + j) - 1 = low + (j - 1) /\ j - 1 \in 0..(high - low) /\ ~(j <= j - 1)
    BY <2>4, <2>5
  <2>7. j - 1 \notin Wrong
    <3> HIDE DEF Wrong
    <3> QED BY <2>3, <2>6
  <2> QED BY <2>4, <2>6, <2>7
<1>2. ASSUME NEW k \in low..high PROVE k \in Good
  <2>1. k - low \in 0..(high - low) /\ low + (k - low) = k
    OBVIOUS
  <2>2. k - low \notin Wrong
    <3> HIDE DEF Wrong
    <3> QED BY <1>1
  <2> QED BY <2>1, <2>2
<1> QED BY <1>2

\* The function FlattenSeq goes on.
Flattened(seqs) ==
    LET flatten[i \in 1..Len(seqs)] == IF i = 1 THEN seqs[i] ELSE flatten[i - 1] \o seqs[i]
    IN  flatten

LEMMA FlattenedSteps ==
    ASSUME NEW T, NEW seqs \in Seq(Seq(T))
    PROVE  LET f == Flattened(seqs)
               n == Len(seqs)
           IN  /\ n \in Nat
               /\ \A i \in 1..n : f[i] \in Seq(T)
               /\ n > 0 => f[1] = seqs[1]
               /\ \A i \in 2..n : f[i] = f[i - 1] \o seqs[i]
               /\ FlattenSeq(seqs) = IF n = 0 THEN <<>> ELSE f[n]
<1> DEFINE n    == Len(seqs)
           S    == Seq(T)
           step == [p \in (1..n) \X S |-> p[2] \o seqs[p[1]]]
           f    == Flattened(seqs)
           Is(g) == g = [i \in 1..n |-> IF i = 1 THEN seqs[i] ELSE g[i - 1] \o seqs[i]]
<1>1. n \in Nat /\ <<>> \in S /\ \A i \in 1..n : seqs[i] \in S
  OBVIOUS
<1>2. step \in [(1..n) \X S -> S] /\ \A i \in 1..n, s \in S : step[<<i, s>>] = s \o seqs[i]
  <2>1. \A i \in 1..n, s \in S : s \o seqs[i] \in S
    BY <1>1
  <2> HIDE DEF S, n
  <2>2. \A p \in (1..n) \X S : p[1] \in 1..n /\ p[2] \in S
    OBVIOUS
  <2> QED BY <2>1, <2>2
<1>3. PICK r : Iterates(r, n, S, <<>>, step)
  <2> HIDE DEF n, S, step
  <2> QED BY <1>1, <1>2, Iterated
<1>4. r \in [0..n -> S] /\ r[0] = <<>> /\ \A i \in 1..n : r[i] = r[i - 1] \o seqs[i]
  <2> HIDE DEF step
  <2>1. r \in [0..n -> S] /\ r[0] = <<>> /\ \A i \in 1..n : r[i] = step[<<i, r[i - 1]>>]
    BY <1>3 DEF Iterates
  <2>2. \A i \in 1..n : i - 1 \in 0..n
    BY <1>1
  <2>3. \A i \in 1..n : r[i - 1] \in S
    BY <2>1, <2>2
  <2> HIDE DEF S
  <2> QED BY <1>2, <2>1, <2>3
<1> DEFINE F == [i \in 1..n |-> r[i]]
           G(i) == IF i = 1 THEN seqs[i] ELSE F[i - 1] \o seqs[i]
<1>5. ASSUME NEW i \in 1..n PROVE F[i] = G(i)
  <2>1. CASE i = 1
    <3>0. 1 \in 1..n /\ 1 - 1 = 0
      BY <2>1
    <3>1. seqs[1] \in Seq(T) /\ r[1] = r[0] \o seqs[1]
      BY <1>1, <1>4, <3>0
    <3>2. r[1] = seqs[1]
      BY <1>4, <3>1
    <3> QED BY <2>1, <3>2
  <2>2. CASE i # 1
    <3>1. i - 1 \in 1..n
      BY <2>2
    <3> QED BY <1>4, <2>2, <3>1
  <2> QED BY <2>1, <2>2
<1>6. Is(F)
  <2>1. F = [i \in 1..n |-> G(i)]
    <3> HIDE DEF G
    <3>1. \A i \in 1..n : F[i] = G(i)
      BY <1>5
    <3> QED BY <3>1
  <2> QED BY <2>1
<1>7. Flattened(seqs) = CHOOSE g : Is(g)
  BY DEF Flattened
<1> HIDE DEF F
<1>8. Is(Flattened(seqs))
  <2> HIDE DEF Is
  <2> QED BY <1>6, <1>7
<1>9. \A i \in 1..n : f[i] = IF i = 1 THEN seqs[i] ELSE f[i - 1] \o seqs[i]
  <2>1. Is(f)
    BY <1>8
  <2> HIDE DEF f
  <2> QED BY <2>1
<1>10. FlattenSeq(seqs) = IF n = 0 THEN seqs ELSE f[n]
  BY DEF FlattenSeq, Flattened
<1> HIDE DEF f
<1>15. \A s, t \in Seq(T) : s \o t \in Seq(T)
  OBVIOUS
<1>11. \A i \in 1..n : f[i] \in Seq(T)
  <2> DEFINE Good == { i \in 1..n : f[i] \in Seq(T) }
  <2>1. CASE n = 0
    BY <2>1
  <2>2. CASE n # 0
    <3>1. 1 \in Good
      <4>1. 1 \in 1..n
        BY <1>1, <2>2
      <4> QED BY <1>1, <1>9, <4>1
    <3>2. ASSUME NEW i \in (1 + 1)..n, i - 1 \in Good PROVE i \in Good
      <4>1. i \in 1..n /\ i # 1 /\ f[i - 1] \in Seq(T)
        BY <3>2
      <4>2. f[i] = f[i - 1] \o seqs[i] /\ seqs[i] \in Seq(T)
        BY <1>1, <1>9, <4>1
      <4>3. f[i] \in Seq(T)
        BY <1>15, <4>1, <4>2
      <4> QED BY <4>1, <4>3
    <3>4. n \in Int /\ 1 \in Int /\ \A i \in (1 + 1)..n : i - 1 \in Good => i \in Good
      BY <1>1, <3>2
    <3> HIDE DEF Good
    <3>3. \A i \in 1..n : i \in Good
      BY <3>1, <3>4, Upward
    <3> QED BY <3>3 DEF Good
  <2> QED BY <2>1, <2>2
<1>12. \A i \in 2..n : f[i] = f[i - 1] \o seqs[i]
  <2>1. \A i \in 2..n : i \in 1..n /\ i # 1
    BY <1>1
  <2> QED BY <1>9, <2>1
<1>13. n > 0 => f[1] = seqs[1]
  <2>1. n > 0 => 1 \in 1..n
    BY <1>1
  <2> QED BY <1>9, <2>1
<1>14. n = 0 => seqs = <<>>
  OBVIOUS
<1> QED BY <1>1, <1>10, <1>11, <1>12, <1>13, <1>14 DEF f

\* Flattening one sequence more appends it.
LEMMA FlattenAppend ==
    ASSUME NEW T, NEW seqs \in Seq(Seq(T)), NEW last \in Seq(T)
    PROVE  /\ FlattenSeq(seqs) \in Seq(T)
           /\ FlattenSeq(Append(seqs, last)) = FlattenSeq(seqs) \o last
<1> DEFINE n == Len(seqs)
           more == Append(seqs, last)
           f == Flattened(seqs)
           g == Flattened(more)
<1>1. /\ n \in Nat /\ more \in Seq(Seq(T)) /\ Len(more) = n + 1 /\ more[n + 1] = last
      /\ \A i \in 1..n : more[i] = seqs[i]
  <2> DEFINE S == Seq(T)
  <2>1. seqs \in Seq(S) /\ last \in S
    OBVIOUS
  <2> HIDE DEF S
  <2>2. /\ Len(seqs) \in Nat /\ Append(seqs, last) \in Seq(S) /\ Len(Append(seqs, last)) = Len(seqs) + 1
        /\ Append(seqs, last)[Len(seqs) + 1] = last
        /\ \A i \in 1..Len(seqs) : Append(seqs, last)[i] = seqs[i]
    BY <2>1
  <2> QED BY <2>2 DEF S
<1>2. /\ \A i \in 1..n : f[i] \in Seq(T)
      /\ n > 0 => f[1] = seqs[1]
      /\ \A i \in 2..n : f[i] = f[i - 1] \o seqs[i]
      /\ FlattenSeq(seqs) = IF n = 0 THEN <<>> ELSE f[n]
  BY FlattenedSteps
<1> HIDE DEF more
<1>3. /\ g[1] = more[1]
      /\ \A i \in 2..(n + 1) : g[i] = g[i - 1] \o more[i]
      /\ FlattenSeq(more) = g[n + 1]
  <2> DEFINE m == Len(more)
  <2>0. m = n + 1 /\ m # 0 /\ m > 0
    BY <1>1
  <2>1. LET h == Flattened(more)
            k == Len(more)
        IN  /\ k > 0 => h[1] = more[1]
            /\ \A i \in 2..k : h[i] = h[i - 1] \o more[i]
            /\ FlattenSeq(more) = IF k = 0 THEN <<>> ELSE h[k]
    BY <1>1, FlattenedSteps
  <2>2. /\ m > 0 => g[1] = more[1]
        /\ \A i \in 2..m : g[i] = g[i - 1] \o more[i]
        /\ FlattenSeq(more) = IF m = 0 THEN <<>> ELSE g[m]
    BY <2>1
  <2> HIDE DEF m, g
  <2> QED BY <2>0, <2>2
<1> HIDE DEF f, g, n
<1>4. CASE n = 0
  <2>1. FlattenSeq(more) = last /\ FlattenSeq(seqs) = <<>>
    BY <1>1, <1>2, <1>3, <1>4
  <2>2. <<>> \o last = last /\ <<>> \in Seq(T)
    OBVIOUS
  <2> QED BY <2>1, <2>2 DEF more
<1>5. CASE n # 0
  <2> DEFINE Good == { i \in 1..n : f[i] = g[i] }
  <2>1. 1 \in Good
    <3>1. 1 \in 1..n /\ n > 0
      BY <1>1, <1>5
    <3> QED BY <1>1, <1>2, <1>3, <3>1
  <2>2. ASSUME NEW i \in (1 + 1)..n, i - 1 \in Good PROVE i \in Good
    <3>0. n \in Nat /\ i \in (1 + 1)..n
      BY <1>1, <2>2
    <3>1. i \in 2..n /\ i \in 2..(n + 1) /\ i \in 1..n
      BY <3>0
    <3>5. f[i - 1] = g[i - 1]
      BY <2>2
    <3>2. f[i] = f[i - 1] \o seqs[i]
      BY <1>2, <3>1
    <3>3. g[i] = g[i - 1] \o more[i]
      BY <1>3, <3>1
    <3>4. more[i] = seqs[i]
      BY <1>1, <3>1
    <3> QED BY <3>1, <3>2, <3>3, <3>4, <3>5
  <2> HIDE DEF Good
  <2>8. n \in Int /\ 1 \in Int
    BY <1>1
  <2>9. n \in Int /\ 1 \in Int /\ \A i \in (1 + 1)..n : i - 1 \in Good => i \in Good
    BY <2>2, <2>8
  <2>3. \A i \in 1..n : i \in Good
    BY <2>1, <2>9, Upward
  <2>4. n \in 1..n /\ n + 1 \in 2..(n + 1) /\ (n + 1) - 1 = n
    BY <1>1, <1>5
  <2>5. f[n] = g[n]
    BY <2>3, <2>4 DEF Good
  <2>6. FlattenSeq(more) = g[n] \o last
    BY <1>1, <1>3, <2>4
  <2>7. FlattenSeq(seqs) = f[n] /\ f[n] \in Seq(T)
    BY <1>2, <1>5, <2>4
  <2> QED BY <2>5, <2>6, <2>7 DEF more
<1> QED BY <1>4, <1>5

\* What is flattened has the elements of the sequences.
LEMMA FlattenMembers ==
    ASSUME NEW T, NEW seqs \in Seq(Seq(T))
    PROVE  /\ FlattenSeq(seqs) \in Seq(T)
           /\ \A x : (\E k \in 1..Len(FlattenSeq(seqs)) : FlattenSeq(seqs)[k] = x)
                        <=> \E i \in 1..Len(seqs) : \E k \in 1..Len(seqs[i]) : seqs[i][k] = x
<1> DEFINE n == Len(seqs)
           f == Flattened(seqs)
           Has(s, x) == \E k \in 1..Len(s) : s[k] = x
           Good == { i \in 1..n : \A x : Has(f[i], x) <=> \E j \in 1..i : Has(seqs[j], x) }
<1>1. /\ n \in Nat
      /\ \A i \in 1..n : f[i] \in Seq(T)
      /\ n > 0 => f[1] = seqs[1]
      /\ \A i \in 2..n : f[i] = f[i - 1] \o seqs[i]
      /\ FlattenSeq(seqs) = IF n = 0 THEN <<>> ELSE f[n]
  BY FlattenedSteps
<1>2. \A i \in 1..n : seqs[i] \in Seq(T)
  OBVIOUS
<1>3. \A s \in Seq(T), t \in Seq(T) : \A x : Has(s \o t, x) <=> Has(s, x) \/ Has(t, x)
  <2>1. SUFFICES ASSUME NEW s \in Seq(T), NEW t \in Seq(T), NEW x PROVE Has(s \o t, x) <=> Has(s, x) \/ Has(t, x)
    OBVIOUS
  <2> DEFINE u == s \o t
             a == Len(s)
             b == Len(t)
  <2>2. a \in Nat /\ b \in Nat /\ Len(u) = a + b /\ \A k \in 1..(a + b) : u[k] = IF k <= a THEN s[k] ELSE t[k - a]
    OBVIOUS
  <2> HIDE DEF u, a, b
  <2>3. ASSUME NEW k \in 1..Len(u), u[k] = x PROVE (\E i \in 1..a : s[i] = x) \/ (\E i \in 1..b : t[i] = x)
    <3>1. CASE k <= a
      <4>1. k \in 1..a
        BY <2>2, <3>1
      <4> QED BY <2>2, <2>3, <3>1, <4>1
    <3>2. CASE ~(k <= a)
      <4>1. k - a \in 1..b /\ k \in 1..(a + b)
        BY <2>2, <3>2
      <4> QED BY <2>2, <2>3, <3>2, <4>1
    <3> QED BY <3>1, <3>2
  <2>4. ASSUME NEW k \in 1..a, s[k] = x PROVE \E i \in 1..Len(u) : u[i] = x
    <3>1. k \in 1..(a + b) /\ k <= a /\ k \in 1..Len(u)
      BY <2>2
    <3> QED BY <2>2, <2>4, <3>1
  <2>5. ASSUME NEW k \in 1..b, t[k] = x PROVE \E i \in 1..Len(u) : u[i] = x
    <3>1. a + k \in 1..(a + b) /\ ~(a + k <= a) /\ (a + k) - a = k /\ a + k \in 1..Len(u)
      BY <2>2
    <3> QED BY <2>2, <2>5, <3>1
  <2> QED BY <2>3, <2>4, <2>5 DEF u, a, b
<1> HIDE DEF f, n, Has
<1>4. CASE n = 0
  <2>1. FlattenSeq(seqs) = <<>> /\ 1..Len(<<>>) = {} /\ 1..n = {} /\ <<>> \in Seq(T)
    BY <1>1, <1>4
  <2> QED BY <2>1 DEF n
<1>5. CASE n # 0
  <2>1. 1 \in Good
    <3>1. 1 \in 1..n /\ n > 0 /\ 1..1 = {1}
      BY <1>1, <1>5
    <3> QED BY <1>1, <3>1
  <2>2. ASSUME NEW i \in (1 + 1)..n, i - 1 \in Good PROVE i \in Good
    <3>1. /\ i \in 2..n /\ i \in 1..n /\ i - 1 \in 1..n
          /\ \A j \in 1..i : j = i \/ j \in 1..(i - 1)
          /\ \A j \in 1..(i - 1) : j \in 1..i
          /\ i \in 1..i
      BY <1>1
    <3>2. \A x : Has(f[i - 1], x) <=> \E j \in 1..(i - 1) : Has(seqs[j], x)
      BY <2>2
    <3>3. f[i] = f[i - 1] \o seqs[i] /\ f[i - 1] \in Seq(T) /\ seqs[i] \in Seq(T)
      BY <1>1, <1>2, <3>1
    <3>4. \A x : Has(f[i], x) <=> Has(f[i - 1], x) \/ Has(seqs[i], x)
      BY <1>3, <3>3
    <3>5. \A x : Has(f[i], x) <=> \E j \in 1..i : Has(seqs[j], x)
      BY <3>1, <3>2, <3>4
    <3> QED BY <3>1, <3>5
  <2>9. n \in Int /\ 1 \in Int /\ \A i \in (1 + 1)..n : i - 1 \in Good => i \in Good
    BY <1>1, <2>2
  <2> HIDE DEF Good
  <2>3. \A i \in 1..n : i \in Good
    BY <2>1, <2>9, Upward
  <2>4. n \in 1..n
    BY <1>1, <1>5
  <2>5. \A x : Has(f[n], x) <=> \E j \in 1..n : Has(seqs[j], x)
    BY <2>3, <2>4 DEF Good
  <2>6. FlattenSeq(seqs) = f[n] /\ f[n] \in Seq(T)
    BY <1>1, <1>5, <2>4
  <2> QED BY <2>5, <2>6 DEF Has, n
<1> QED BY <1>4, <1>5

-----------------------------------------------------------------------------
(* The lines of a grammar *)

Words == Alone \cup OneName \cup Listing

\* A grammar is a sequence of lines.
LEMMA FileTyped ==
    ASSUME file \in Files
    PROVE  /\ Len(file) \in Nat /\ DOMAIN file = 1..Len(file)
           /\ \A l \in 1..Len(file) :
                 /\ file[l].is \in {"ignored", "directive", "rule"}
                 /\ file[l].is = "directive" => file[l].names \in Seq(STRING)
                 /\ file[l].is = "rule" => file[l].fields \in Nat
<1>1. file \in Seq(ToSet(file))
  BY FilesAssumption
<1> DEFINE S == ToSet(file)
<1>2. Len(file) \in Nat /\ DOMAIN file = 1..Len(file)
  <2>1. file \in Seq(S)
    BY <1>1
  <2> HIDE DEF S
  <2> QED BY <2>1
<1> QED BY <1>2, FilesAssumption

\* So are the options of a rule, each a word with its names.
LEMMA OptionsTyped ==
    ASSUME file \in Files, NEW l \in 1..Len(file), file[l].is = "rule"
    PROVE  LET ops == OptionsOf(l)
           IN  /\ Len(ops) \in Nat /\ DOMAIN ops = 1..Len(ops)
               /\ \A o \in 1..Len(ops) :
                     /\ ops[o].word \in Words /\ ops[o].names \in Seq(STRING) /\ Len(ops[o].names) \in Nat
                     /\ ops[o].names = <<>> <=> ops[o].word \in Alone
                     /\ ops[o].word \in OneName => Len(ops[o].names) = 1
<1> DEFINE O == [word : Words, names : Seq(STRING)]
           ops == OptionsOf(l)
<1>1. l \in DOMAIN file
  BY FileTyped
<1>2. /\ file[l].options \in Seq(O)
      /\ \A o \in DOMAIN file[l].options :
            /\ file[l].options[o].names = <<>> <=> file[l].options[o].word \in Alone
            /\ file[l].options[o].word \in OneName => Len(file[l].options[o].names) = 1
  BY <1>1, FilesAssumption DEF Words
<1>3. \A e \in O : e.word \in Words /\ e.names \in Seq(STRING) /\ Len(e.names) \in Nat
  OBVIOUS
<1> HIDE DEF O
<1>4. CASE file[l].fields = 3
  <2>1. ops = file[l].options
    BY <1>4 DEF OptionsOf
  <2>2. ops \in Seq(O)
    BY <1>2, <2>1
  <2>3. /\ \A o \in DOMAIN ops : /\ ops[o].names = <<>> <=> ops[o].word \in Alone
                                 /\ ops[o].word \in OneName => Len(ops[o].names) = 1
    BY <1>2, <2>1
  <2> HIDE DEF ops
  <2>4. Len(ops) \in Nat /\ DOMAIN ops = 1..Len(ops) /\ \A o \in 1..Len(ops) : ops[o] \in O
    BY <2>2
  <2>5. \A o \in 1..Len(ops) : ops[o].word \in Words /\ ops[o].names \in Seq(STRING) /\ Len(ops[o].names) \in Nat
    BY <1>3, <2>4
  <2> QED BY <2>3, <2>4, <2>5 DEF ops
<1>5. CASE file[l].fields # 3
  <2>1. ops = <<>>
    BY <1>5 DEF OptionsOf
  <2> HIDE DEF ops
  <2>2. Len(ops) = 0 /\ DOMAIN ops = 1..0 /\ 1..0 = {}
    BY <2>1
  <2> QED BY <2>1, <2>2 DEF ops
<1> QED BY <1>4, <1>5

\* What a rule takes one option of.
SortOf(word) ==
    CASE word \in {"push=", "set=", "pop"} -> "transition"
      [] word \in {"after=", "not_after="} -> "predicate"
      [] word \in {"line_start", "not_line_start"} -> "place"
      [] OTHER -> word

\* What an option may name.
AllowedIn(word, name) ==
    CASE word = "indent=" -> name \in {"entry", "key", "value", "reset"}
      [] word = "extend=" -> name \in {"block", "lines"}
      [] OTHER -> name # ""

OptionWrong(l, o) ==
    LET ops == OptionsOf(l)
    IN  \/ ops[o].word = "other"
        \/ \E i \in DOMAIN ops[o].names : ~AllowedIn(ops[o].word, ops[o].names[i])
        \/ ops[o].word \in {"push=", "set="} /\ Len(ops[o].names) > 1
        \/ \E p \in 1..(o - 1) : SortOf(ops[p].word) = SortOf(ops[o].word)

FieldsWrong(l) == file[l].fields < 2 \/ file[l].fields > 3 \/ file[l].pattern \in {"", "invalid"}

FragmentWrong(l) ==
    /\ l \in FragmentLines
    /\ \/ Len(OptionsOf(l)) > 1
       \/ \E k \in FragmentLines : k < l /\ file[k].name = file[l].name

\* The mistakes of a rule: its fields, its options one by one, and what it says as a whole.
LEMMA RuleMistakes ==
    ASSUME file \in Files, NEW l \in 1..Len(file), file[l].is = "rule"
    PROVE  LET n == Len(OptionsOf(l))
           IN  /\ Mistakes(l) \subseteq 0..(n + 1)
               /\ 0 \in Mistakes(l) <=> FieldsWrong(l)
               /\ \A o \in 1..n : o \in Mistakes(l) <=> OptionWrong(l, o)
               /\ n + 1 \in Mistakes(l) <=> FragmentWrong(l)
<1> DEFINE n == Len(OptionsOf(l))
<1>1. n \in Nat /\ DOMAIN OptionsOf(l) = 1..n
  BY OptionsTyped
<1>2. file[l].is # "ignored" /\ file[l].is # "directive"
  OBVIOUS
<1>3. Mistakes(l) = { o \in 0..(n + 1) : CASE o = 0 -> FieldsWrong(l)
                                           [] o \in DOMAIN OptionsOf(l) -> OptionWrong(l, o)
                                           [] OTHER -> FragmentWrong(l) }
  BY <1>2 DEF Mistakes, FieldsWrong, OptionWrong, FragmentWrong, SortOf, AllowedIn
<1> HIDE DEF n
<1>4. 0 \in 0..(n + 1) /\ 0 \notin 1..n /\ n + 1 \in 0..(n + 1) /\ n + 1 \notin 1..n /\ n + 1 # 0
      /\ \A o \in 1..n : o \in 0..(n + 1) /\ o # 0
  BY <1>1
<1>5. Mistakes(l) \subseteq 0..(n + 1)
  BY <1>3
<1>6. 0 \in Mistakes(l) <=> FieldsWrong(l)
  BY <1>1, <1>3, <1>4
<1>7. \A o \in 1..n : o \in Mistakes(l) <=> OptionWrong(l, o)
  BY <1>1, <1>3, <1>4
<1>8. n + 1 \in Mistakes(l) <=> FragmentWrong(l)
  BY <1>1, <1>3, <1>4
<1> QED BY <1>5, <1>6, <1>7, <1>8 DEF n

\* Words of a sort are the same, or of a kind a rule takes one of.
LEMMA SameSort ==
    ASSUME NEW v \in Words, NEW w \in Words
    PROVE  SortOf(v) = SortOf(w)
           <=> v = w \/ \E kind \in {Transitions, Predicates, LineStarts} : v \in kind /\ w \in kind
<1>1. \A x \in Words : x # "transition" /\ x # "predicate" /\ x # "place"
  BY DEF Words, Alone, OneName, Listing
<1>2. \A x : SortOf(x) = IF x \in Transitions THEN "transition" ELSE IF x \in Predicates THEN "predicate"
                         ELSE IF x \in LineStarts THEN "place" ELSE x
  BY DEF SortOf, Transitions, Predicates, LineStarts
<1>3. \A x : /\ x \in Transitions => x \notin Predicates /\ x \notin LineStarts
             /\ x \in Predicates => x \notin LineStarts
  BY DEF Transitions, Predicates, LineStarts
<1> QED BY <1>1, <1>2, <1>3

\* The option read is refused exactly if it is a mistake.
LEMMA OptionRefused ==
    ASSUME file \in Files, line \in 1..Len(file), Line.is = "rule", option \in 1..Len(Options),
           given = { Options[p].word : p \in 1..(option - 1) }
    PROVE  Clashes \/ ~Known <=> option \in Mistakes(line)
<1> DEFINE ops == OptionsOf(line)
           w   == ops[option].word
           ns  == ops[option].names
<1>1. Options = ops /\ Line = file[line]
  BY DEF Options, OptionsOf, Line
<1>2. option \in 1..Len(ops) /\ \A p \in 1..(option - 1) : p \in 1..Len(ops)
  <2>1. Len(ops) \in Nat
    BY <1>1, OptionsTyped
  <2> HIDE DEF ops
  <2> QED BY <1>1, <2>1
<1>3. /\ \A o \in 1..Len(ops) : ops[o].word \in Words
      /\ ns \in Seq(STRING) /\ Len(ns) \in Nat
      /\ ns = <<>> <=> w \in Alone
      /\ w \in OneName => Len(ns) = 1
  BY <1>1, <1>2, OptionsTyped
<1>4. option \in Mistakes(line) <=> OptionWrong(line, option)
  BY <1>1, <1>2, RuleMistakes
<1>5. Word = w /\ Args = ns
  BY <1>1 DEF Word, Args
<1> HIDE DEF ops
<1>6. Clashes <=> \E p \in 1..(option - 1) : SortOf(ops[p].word) = SortOf(w)
  <2>1. Clashes <=> \E v \in given : v = w \/ \E kind \in {Transitions, Predicates, LineStarts} : v \in kind /\ w \in kind
    BY <1>5 DEF Clashes
  <2>2. given = { ops[p].word : p \in 1..(option - 1) }
    BY <1>1
  <2>3. \A p \in 1..(option - 1) : ops[p].word \in Words /\ w \in Words
    BY <1>2, <1>3
  <2>4. \A p \in 1..(option - 1) :
            SortOf(ops[p].word) = SortOf(w)
            <=> ops[p].word = w \/ \E kind \in {Transitions, Predicates, LineStarts} : ops[p].word \in kind /\ w \in kind
    BY <2>3, SameSort
  <2> HIDE DEF w
  <2> QED BY <2>1, <2>2, <2>4
<1>7. ns \in Seq(STRING) /\ DOMAIN ns = 1..Len(ns) /\ (ns = <<>> <=> Len(ns) = 0)
  BY <1>3
<1>8. EmptyName <=> \E i \in 1..Len(ns) : ns[i] = ""
  BY <1>5, <1>7 DEF EmptyName, ToSet
<1> HIDE DEF w, ns
<1>9. ~Known <=> \/ w = "other"
                 \/ \E i \in 1..Len(ns) : ~AllowedIn(w, ns[i])
                 \/ w \in {"push=", "set="} /\ Len(ns) > 1
  <2>0. w \in Words
    BY <1>2, <1>3 DEF w
  <2>1. CASE w \in Alone
    <3>1. 1..Len(ns) = {} /\ Len(ns) = 0
      BY <1>3, <1>7, <2>1
    <3>2. Known <=> w # "other"
      BY <1>5, <2>1 DEF Known, Alone, LineStarts, Predicates
    <3> QED BY <2>1, <3>1, <3>2 DEF Alone
  <2>2. CASE w \in {"push=", "set="}
    <3>1. Len(ns) # 0 /\ Len(ns) \in Nat
      BY <1>3, <1>7, <2>2 DEF Alone
    <3>2. Known <=> ~EmptyName /\ Len(ns) = 1
      BY <1>5, <2>2 DEF Known, LineStarts, Predicates
    <3>3. \A i \in 1..Len(ns) : AllowedIn(w, ns[i]) <=> ns[i] # ""
      BY <2>2 DEF AllowedIn
    <3>4. Len(ns) = 1 <=> ~(Len(ns) > 1)
      <4> DEFINE k == Len(ns)
      <4>1. k # 0 /\ k \in Nat
        BY <3>1
      <4> HIDE DEF k
      <4>2. k = 1 <=> ~(k > 1)
        BY <4>1
      <4> QED BY <4>2 DEF k
    <3> QED BY <1>8, <2>2, <3>2, <3>3, <3>4
  <2>3. CASE w \in {"in=", "after=", "not_after=", "continue="}
    <3>1. Known <=> ~EmptyName
      BY <1>5, <2>3 DEF Known, LineStarts, Predicates
    <3>2. \A i \in 1..Len(ns) : AllowedIn(w, ns[i]) <=> ns[i] # ""
      BY <2>3 DEF AllowedIn
    <3> QED BY <1>8, <2>3, <3>1, <3>2
  <2>4. CASE w = "indent="
    <3>1. Len(ns) = 1 /\ 1 \in 1..Len(ns) /\ \A i \in 1..Len(ns) : i = 1
      <4>1. Len(ns) = 1
        BY <1>3, <2>4 DEF OneName
      <4>2. 1..1 = {1}
        OBVIOUS
      <4> QED BY <4>1, <4>2
    <3>2. Known <=> ns[1] \in {"entry", "key", "value", "reset"}
      BY <1>5, <2>4 DEF Known, LineStarts, Predicates
    <3>3. AllowedIn(w, ns[1]) <=> ns[1] \in {"entry", "key", "value", "reset"}
      BY <2>4 DEF AllowedIn
    <3> QED BY <2>4, <3>1, <3>2, <3>3
  <2>5. CASE w = "extend="
    <3>1. Len(ns) = 1 /\ 1 \in 1..Len(ns) /\ \A i \in 1..Len(ns) : i = 1
      <4>1. Len(ns) = 1
        BY <1>3, <2>5 DEF OneName
      <4>2. 1..1 = {1}
        OBVIOUS
      <4> QED BY <4>1, <4>2
    <3>2. Known <=> ns[1] \in {"block", "lines"}
      BY <1>5, <2>5 DEF Known, LineStarts, Predicates
    <3>3. AllowedIn(w, ns[1]) <=> ns[1] \in {"block", "lines"}
      BY <2>5 DEF AllowedIn
    <3> QED BY <2>5, <3>1, <3>2, <3>3
  <2> QED BY <2>0, <2>1, <2>2, <2>3, <2>4, <2>5 DEF Words, OneName, Listing
<1>10. OptionWrong(line, option) <=> \/ w = "other"
                                     \/ \E i \in 1..Len(ns) : ~AllowedIn(w, ns[i])
                                     \/ w \in {"push=", "set="} /\ Len(ns) > 1
                                     \/ \E p \in 1..(option - 1) : SortOf(ops[p].word) = SortOf(w)
  BY <1>7 DEF OptionWrong, ops, w, ns
<1> QED BY <1>4, <1>6, <1>9, <1>10

-----------------------------------------------------------------------------
(* What the parse has read *)

\* A sequence, of whatever it holds.
IsSequence(s) == s \in Seq(ToSet(s))

RuleSet == { l \in DOMAIN file : file[l].is = "rule" /\ ~Gives(l, "fragment") }

RuleLinesTo(k) == Ascending(RuleSet, 1, k)

\* The number of the rule a line is, or would be.
NumberOf(l) == Len(RuleLinesTo(l - 1)) + 1

\* The options of a line with one of some words, up to one.
GivenTo(l, o, words) == { p \in 1..o : OptionsOf(l)[p].word \in words }

NamesTo(l, o, words) ==
    IF GivenTo(l, o, words) = {} THEN <<>> ELSE OptionsOf(l)[Min(GivenTo(l, o, words))].names

LinesGiving(words) == { l \in DOMAIN file : file[l].is = "rule" /\ GivenTo(l, Len(OptionsOf(l)), words) # {} }

RuleFields == { "kind", "pattern", "skip", "modes", "op", "target", "after", "notAfter", "lineStart", "indent", "extend",
                "continuation" }

\* A rule is what its line says up to an option.
SaidTo(rule, l, o) ==
    /\ DOMAIN rule = RuleFields
    /\ rule.pattern = file[l].pattern
    /\ rule.skip = (GivenTo(l, o, {"skip"}) # {})
    /\ rule.op = IF GivenTo(l, o, {"push="}) # {} THEN "push" ELSE IF GivenTo(l, o, {"set="}) # {} THEN "set"
                 ELSE IF GivenTo(l, o, {"pop"}) # {} THEN "pop" ELSE "none"
    /\ GivenTo(l, o, {"push=", "set="}) # {} => rule.target = NamesTo(l, o, {"push=", "set="})[1]
    /\ rule.modes = NamesTo(l, o, {"in="})
    /\ rule.lineStart = IF GivenTo(l, o, {"line_start"}) # {} THEN "start"
                        ELSE IF GivenTo(l, o, {"not_line_start"}) # {} THEN "inside" ELSE "any"
    /\ rule.indent = IF GivenTo(l, o, {"indent="}) # {} THEN NamesTo(l, o, {"indent="})[1] ELSE "none"
    /\ rule.extend = IF GivenTo(l, o, {"extend="}) # {} THEN NamesTo(l, o, {"extend="})[1] ELSE "none"

Unresolved(rule) == rule.after = {} /\ rule.notAfter = {} /\ rule.continuation = ""

\* The line whose options are read.
LineSaid ==
    option > 0 =>
        /\ line \in 1..Len(file) /\ file[line].is = "rule"
        /\ option \in 1..(Len(OptionsOf(line)) + 1)
        /\ \A o \in 0..(option - 1) : o \notin Mistakes(line)
        /\ given = { OptionsOf(line)[p].word : p \in 1..(option - 1) }
        /\ fragment \in Nat /\ (fragment > 0 <=> GivenTo(line, option - 1, {"fragment"}) # {})
        /\ continuation = NoName <=> GivenTo(line, option - 1, {"continue="}) = {}
        /\ continuation # NoName => continuation.name = NamesTo(line, option - 1, {"continue="})[1]
        /\ transition \in Nat /\ (transition > 0 <=> GivenTo(line, option - 1, {"push=", "set="}) # {})
        /\ SaidTo(read, line, option - 1) /\ read.kind = Len(rules) /\ Unresolved(read)

\* The lines read, each without a mistake, and the line under way.
Place ==
    /\ file \in Files
    /\ line \in 1..(Len(file) + 1) /\ option \in Nat
    /\ \A l \in 1..(line - 1) : Mistakes(l) = {}
    /\ pass # "lines" => line = Len(file) + 1 /\ option = 0

\* The rules, one for each of the first lines that is a rule.
RulesTo(said, named, k) ==
    /\ IsSequence(said) /\ IsSequence(named)
    /\ Len(said) = Len(RuleLinesTo(k)) /\ Len(named) = Len(said)
    /\ \A r \in 1..Len(said) :
          LET l == RuleLinesTo(k)[r]
          IN  SaidTo(said[r], l, Len(OptionsOf(l))) /\ said[r].kind = r - 1 /\ named[r] = file[l].name

\* The sites of the options with some words, one for each line that gives one.
SitedTo(sites, words, k) ==
    LET lines == Ascending(LinesGiving(words), 1, k)
    IN  /\ IsSequence(sites) /\ Len(sites) = Len(lines)
        /\ \A i \in 1..Len(sites) : sites[i].line = lines[i] /\ sites[i].rule = NumberOf(lines[i])

\* The last line whose predicate is noted.
Noted == IF option > 0 /\ GivenTo(line, option - 1, Predicates) # {} THEN line ELSE line - 1

\* The options of a line that are read.
ReadTo(l) == IF option > 0 /\ l = line THEN option - 1 ELSE Len(OptionsOf(l))

FragmentsTo(k) == Ascending(FragmentLines, 1, k)

FragmentsSaid(listed, k) ==
    /\ IsSequence(listed) /\ Len(listed) = Len(FragmentsTo(k))
    /\ \A i \in 1..Len(listed) :
          LET l == FragmentsTo(k)[i]
          IN  listed[i].name = file[l].name /\ listed[i].pattern = file[l].pattern

SitesSaid ==
    /\ SitedTo(transitions, {"push=", "set="}, line - 1)
    /\ SitedTo(continuations, {"continue="}, line - 1)
    /\ \A i \in 1..Len(continuations) :
          LET l == continuations[i].line
          IN  continuations[i].name = NamesTo(l, Len(OptionsOf(l)), {"continue="})[1]
    /\ SitedTo(predicates, Predicates, Noted)
    /\ \A i \in 1..Len(predicates) :
          LET l == predicates[i].line
          IN  /\ predicates[i].names = NamesTo(l, ReadTo(l), Predicates)
              /\ predicates[i].after = (GivenTo(l, ReadTo(l), {"after="}) # {})

\* The names of the directives of the first lines.
Listed(k) == [l \in 1..k |-> IF file[l].is = "directive" THEN file[l].names ELSE <<>>]

DirectivesTo(sites, k) ==
    /\ IsSequence(sites)
    /\ [i \in 1..Len(sites) |-> sites[i].mode] = FlattenSeq(Listed(k))
    /\ \A i, j \in 1..Len(sites) : i < j => sites[i].line <= sites[j].line
    /\ \A i \in 1..Len(sites) :
          LET l == sites[i].line
          IN  /\ l \in 1..k /\ file[l].is = "directive"
              /\ \E n \in 1..Len(file[l].names) : sites[i].mode = file[l].names[n]
    /\ \A l \in 1..k : file[l].is = "directive" =>
          \A n \in 1..Len(file[l].names) :
              \E i \in 1..Len(sites) : sites[i].line = l /\ sites[i].mode = file[l].names[n]

Beyond(p) == pass \in << {"predicates", "continuations", "directives", "parsed"}, {"continuations", "directives", "parsed"},
                         {"directives", "parsed"}, {"parsed"} >>[p]

\* What the passes that are done have found and resolved.
PassesSaid ==
    /\ pass \in {"lines", "targets", "predicates", "continuations", "directives", "parsed"}
    /\ \A p \in 1..4 : Beyond(p) => Dangling[p] = {}
    /\ \A r \in 1..Len(rules) :
          /\ IF Beyond(2) THEN /\ rules[r].after = Named(RuleLinesTo(line - 1)[r], "after=")
                               /\ rules[r].notAfter = Named(RuleLinesTo(line - 1)[r], "not_after=")
             ELSE rules[r].after = {} /\ rules[r].notAfter = {}
          /\ rules[r].continuation = IF Beyond(3) THEN Continued(RuleLinesTo(line - 1)[r]) ELSE ""
    /\ insignificant = IF Beyond(4) THEN [i \in 1..Len(directives) |-> directives[i].mode] ELSE <<>>

\* A grammar refused is refused where it should be.
RefusedSaid ==
    \/ /\ Mistaken # {} /\ refusal.line = Min(Mistaken)
       /\ LET first == Min(Mistakes(refusal.line)) IN refusal.at = first \/ first > Len(OptionsOf(refusal.line))
    \/ Mistaken = {} /\ RuleLines = <<>> /\ refusal.line = 0
    \/ /\ Mistaken = {}
       /\ \E p \in 1..4 : /\ Dangling[p] # {} /\ refusal.line = Min(Dangling[p])
                          /\ \A q \in 1..(p - 1) : Dangling[q] = {}

ParseSaid ==
    /\ Place /\ LineSaid
    /\ RulesTo(rules, names, line - 1) /\ FragmentsSaid(fragments, line - 1) /\ DirectivesTo(directives, line - 1)
    /\ SitesSaid /\ PassesSaid

\* A step leaves the parse refused for a reason, or all it has read said.
ParseInv == file \in Files /\ IF pass = "refused" THEN RefusedSaid ELSE ParseSaid

-----------------------------------------------------------------------------
(* Sequences, least members *)

LEMMA EmptySequence == IsSequence(<<>>) /\ Len(<<>>) = 0
BY DEF IsSequence, ToSet

LEMMA SequenceTyped ==
    ASSUME NEW s, IsSequence(s)
    PROVE  Len(s) \in Nat /\ DOMAIN s = 1..Len(s) /\ (s = <<>> <=> Len(s) = 0) /\ ToSet(s) = { s[i] : i \in 1..Len(s) }
<1> DEFINE T == ToSet(s)
<1>1. s \in Seq(T)
  BY DEF IsSequence
<1> HIDE DEF T
<1>2. Len(s) \in Nat /\ DOMAIN s = 1..Len(s) /\ (s = <<>> <=> Len(s) = 0)
  BY <1>1
<1> QED BY <1>2 DEF ToSet

LEMMA SequenceAppended ==
    ASSUME NEW s, IsSequence(s), NEW x
    PROVE  /\ IsSequence(Append(s, x)) /\ Len(Append(s, x)) = Len(s) + 1
           /\ Append(s, x)[Len(s) + 1] = x
           /\ \A i \in 1..Len(s) : Append(s, x)[i] = s[i]
<1> DEFINE T == ToSet(s) \cup {x}
<1>1. Len(s) \in Nat /\ DOMAIN s = 1..Len(s)
  BY SequenceTyped
<1>2. s \in Seq(ToSet(s)) /\ ToSet(s) \subseteq T
  BY DEF IsSequence
<1>3. s \in Seq(T) /\ x \in T
  <2> DEFINE S == ToSet(s)
  <2>1. s \in Seq(S) /\ S \subseteq T
    BY <1>2
  <2> HIDE DEF S, T
  <2>2. s \in Seq(T)
    BY <2>1
  <2> QED BY <2>2 DEF T
<1> HIDE DEF T
<1>4. /\ Append(s, x) \in Seq(T) /\ Len(Append(s, x)) = Len(s) + 1
      /\ Append(s, x)[Len(s) + 1] = x
      /\ \A i \in 1..Len(s) : Append(s, x)[i] = s[i]
  BY <1>3
<1> DEFINE a == Append(s, x)
<1>5. Len(a) \in Nat /\ DOMAIN a = 1..Len(a)
  BY <1>4
<1>6. \A i \in 1..Len(a) : a[i] \in ToSet(a)
  BY <1>5 DEF ToSet
<1> HIDE DEF a
<1>7. a \in Seq(ToSet(a))
  <2> DEFINE S == ToSet(a)
  <2>1. a \in Seq(T) /\ \A i \in 1..Len(a) : a[i] \in S
    BY <1>4, <1>6 DEF a
  <2> HIDE DEF S
  <2> QED BY <2>1 DEF S
<1>8. IsSequence(a)
  BY <1>7 DEF IsSequence
<1> QED BY <1>4, <1>8 DEF a

LEMMA MinIs ==
    ASSUME NEW S \in SUBSET Nat, NEW x \in S, \A y \in S : x <= y
    PROVE  Min(S) = x
<1>1. Min(S) \in S /\ Min(S) <= x
  BY MinOfNaturals
<1> DEFINE m == Min(S)
<1>2. m \in Nat /\ x \in Nat /\ x <= m /\ m <= x
  BY <1>1
<1> HIDE DEF m
<1>3. m = x
  BY <1>2
<1> QED BY <1>3 DEF m

\* More of a set in order starts with what there was.
LEMMA AscendingExtends ==
    ASSUME NEW S, NEW low \in Int, NEW k \in Int, NEW m \in Int, k >= low - 1, m >= k
    PROVE  LET s == Ascending(S, low, k)
               t == Ascending(S, low, m)
           IN  Len(s) <= Len(t) /\ \A i \in 1..Len(s) : t[i] = s[i]
<1> DEFINE A(n) == Ascending(S, low, n)
           Good == { n \in k..m : Len(A(k)) <= Len(A(n)) /\ \A i \in 1..Len(A(k)) : A(n)[i] = A(k)[i] }
<1>0. \A n \in Int : n >= low - 1 => A(n) \in Seq(low..n) /\ Len(A(n)) \in Nat
  BY AscendingMembers
<1>1. k \in Good
  BY <1>0
<1>2. ASSUME NEW n \in (k + 1)..m, n - 1 \in Good
      PROVE  n \in Good
  <2>1. n \in Int /\ n >= low /\ n - 1 \in Int /\ n - 1 >= low - 1
    OBVIOUS
  <2>2. A(n) = IF n \in S THEN Append(A(n - 1), n) ELSE A(n - 1)
    <3>1. \A j \in Int : j >= low => Ascending(S, low, j) = IF j \in S THEN Append(Ascending(S, low, j - 1), j)
                                                           ELSE Ascending(S, low, j - 1)
      BY AscendingSteps
    <3> QED BY <2>1, <3>1
  <2>3. A(n - 1) \in Seq(low..(n - 1)) /\ Len(A(n - 1)) \in Nat /\ Len(A(k)) \in Nat
    BY <1>0, <2>1
  <2> HIDE DEF A
  <2>4. n \in k..m /\ Len(A(k)) <= Len(A(n - 1)) /\ \A i \in 1..Len(A(k)) : A(n - 1)[i] = A(k)[i]
    BY <1>2
  <2>5. A(n - 1) \in Seq(Int)
    BY <2>3
  <2>6. CASE n \in S
    <3>1. Len(A(n)) = Len(A(n - 1)) + 1 /\ \A i \in 1..Len(A(n - 1)) : A(n)[i] = A(n - 1)[i]
      BY <2>1, <2>2, <2>5, <2>6
    <3> QED BY <2>3, <2>4, <3>1
  <2>7. CASE n \notin S
    BY <2>2, <2>4, <2>7
  <2> QED BY <2>6, <2>7
<1> HIDE DEF Good
<1>3. \A n \in k..m : n \in Good
  BY <1>1, <1>2, Upward
<1>4. m \in k..m
  OBVIOUS
<1>5. m \in Good
  BY <1>3, <1>4
<1> QED BY <1>5 DEF Good

\* No site is bad where no line is wrong.
LEMMA NoneBad ==
    ASSUME NEW S, NEW n \in Nat, NEW sites, NEW bad, NEW Wrong,
           Len(sites) = Len(Ascending(S, 1, n)),
           \A i \in 1..Len(sites) : sites[i].line = Ascending(S, 1, n)[i],
           Wrong \subseteq S \cap (1..n),
           \A i \in 1..Len(sites) : sites[i] \in bad <=> sites[i].line \in Wrong
    PROVE  Wrong = {} <=> \A i \in 1..Len(sites) : sites[i] \notin bad
<1> DEFINE s == Ascending(S, 1, n)
<1>1. /\ s \in Seq(1..n) /\ Len(s) \in Nat
      /\ \A i, j \in 1..Len(s) : i < j => s[i] < s[j]
      /\ \A i \in 1..Len(s) : s[i] \in S /\ s[i] \in 1..n
      /\ \A k \in 1..n : k \in S => \E i \in 1..Len(s) : s[i] = k
  <2>1. 1 \in Int /\ n \in Int /\ n >= 1 - 1
    OBVIOUS
  <2> QED BY <2>1, AscendingMembers
<1>2. Len(sites) = Len(s) /\ \A i \in 1..Len(s) : sites[i].line = s[i]
  OBVIOUS
<1> HIDE DEF s
<1>3. \A k \in Wrong : \E i \in 1..Len(s) : s[i] = k /\ sites[i] \in bad
  BY <1>1, <1>2
<1> QED BY <1>1, <1>2, <1>3

\* The first of the sites of some lines that is bad is that of the least bad line.
LEMMA FirstBad ==
    ASSUME NEW S, NEW n \in Nat, NEW sites, NEW bad, NEW Wrong,
           Len(sites) = Len(Ascending(S, 1, n)),
           \A i \in 1..Len(sites) : sites[i].line = Ascending(S, 1, n)[i],
           Wrong \subseteq S \cap (1..n),
           \A i \in 1..Len(sites) : sites[i] \in bad <=> sites[i].line \in Wrong
    PROVE  \A i \in 1..Len(sites) :
               sites[i] \in bad /\ (\A j \in 1..(i - 1) : sites[j] \notin bad) => sites[i].line = Min(Wrong)
<1> DEFINE s == Ascending(S, 1, n)
<1>1. /\ s \in Seq(1..n) /\ Len(s) \in Nat
      /\ \A i, j \in 1..Len(s) : i < j => s[i] < s[j]
      /\ \A i \in 1..Len(s) : s[i] \in S /\ s[i] \in 1..n
      /\ \A k \in 1..n : k \in S => \E i \in 1..Len(s) : s[i] = k
  <2>1. 1 \in Int /\ n \in Int /\ n >= 1 - 1
    OBVIOUS
  <2> QED BY <2>1, AscendingMembers
<1>2. Len(sites) = Len(s) /\ \A i \in 1..Len(s) : sites[i].line = s[i]
  OBVIOUS
<1> HIDE DEF s
<1>3. \A k \in Wrong : \E i \in 1..Len(s) : s[i] = k /\ sites[i] \in bad
  BY <1>1, <1>2
<1>4. ASSUME NEW i \in 1..Len(sites), sites[i] \in bad, \A j \in 1..(i - 1) : sites[j] \notin bad
      PROVE  sites[i].line = Min(Wrong)
  <2>1. sites[i].line \in Wrong
    BY <1>4
  <2>2. ASSUME NEW k \in Wrong PROVE s[i] <= k
    <3>1. PICK j \in 1..Len(s) : s[j] = k /\ sites[j] \in bad
      BY <1>3
    <3>2. ~(j < i)
      BY <1>1, <1>2, <1>4, <3>1
    <3>3. j = i \/ i < j
      BY <1>1, <1>2, <3>2
    <3> QED BY <1>1, <1>2, <3>1, <3>3
  <2>3. Wrong \in SUBSET Nat
    OBVIOUS
  <2>4. Min(Wrong) = s[i]
    BY <1>2, <2>1, <2>2, <2>3, MinIs
  <2> QED BY <1>2, <2>4
<1> QED BY <1>4

-----------------------------------------------------------------------------
(* What depends on the file alone *)

LEMMA FileKept ==
    ASSUME file' = file
    PROVE  /\ \A l : OptionsOf(l)' = OptionsOf(l) /\ Mistakes(l)' = Mistakes(l)
           /\ RuleSet' = RuleSet /\ FragmentLines' = FragmentLines /\ RuleLines' = RuleLines /\ Mistaken' = Mistaken
           /\ \A k : RuleLinesTo(k)' = RuleLinesTo(k) /\ FragmentsTo(k)' = FragmentsTo(k) /\ NumberOf(k)' = NumberOf(k)
           /\ \A l, o, words : GivenTo(l, o, words)' = GivenTo(l, o, words) /\ NamesTo(l, o, words)' = NamesTo(l, o, words)
           /\ \A words : LinesGiving(words)' = LinesGiving(words)
           /\ \A rule, l, o : SaidTo(rule, l, o)' = SaidTo(rule, l, o)
           /\ \A k : Listed(k)' = Listed(k)
           /\ \A said, named, k : RulesTo(said, named, k)' = RulesTo(said, named, k)
           /\ \A sites, k : FragmentsSaid(sites, k)' = FragmentsSaid(sites, k) /\ DirectivesTo(sites, k)' = DirectivesTo(sites, k)
           /\ \A sites, words, k : SitedTo(sites, words, k)' = SitedTo(sites, words, k)
<1>1. \A l : OptionsOf(l)' = OptionsOf(l)
  BY DEF OptionsOf
<1>2. \A l, o, words : GivenTo(l, o, words)' = GivenTo(l, o, words)
  BY <1>1 DEF GivenTo
<1>3. \A l, o, words : NamesTo(l, o, words)' = NamesTo(l, o, words)
  BY <1>1, <1>2 DEF NamesTo
<1>4. \A l, w : Gives(l, w)' = Gives(l, w)
  BY <1>1 DEF Gives
<1>5. RuleSet' = RuleSet /\ FragmentLines' = FragmentLines
  BY <1>4 DEF RuleSet, FragmentLines
<1>6. RuleLines' = RuleLines
  BY <1>4 DEF RuleLines
<1>7. \A k : RuleLinesTo(k)' = RuleLinesTo(k) /\ FragmentsTo(k)' = FragmentsTo(k)
  BY <1>5 DEF RuleLinesTo, FragmentsTo
<1>8. \A k : NumberOf(k)' = NumberOf(k)
  BY <1>7 DEF NumberOf
<1>9. \A words : LinesGiving(words)' = LinesGiving(words)
  BY <1>1, <1>2 DEF LinesGiving
<1>10. \A rule, l, o : SaidTo(rule, l, o)' = SaidTo(rule, l, o)
  BY <1>2, <1>3 DEF SaidTo
<1>11. \A l : Mistakes(l)' = Mistakes(l)
  <2> SUFFICES ASSUME NEW l PROVE Mistakes(l)' = Mistakes(l)
    OBVIOUS
  <2>1. /\ FieldsWrong(l)' <=> FieldsWrong(l)
        /\ \A o : OptionWrong(l, o)' <=> OptionWrong(l, o)
        /\ FragmentWrong(l)' <=> FragmentWrong(l)
    BY <1>1, <1>5 DEF FieldsWrong, OptionWrong, FragmentWrong
  <2> DEFINE Wrong(l2) == { o \in 0..(Len(OptionsOf(l2)) + 1) : CASE o = 0 -> FieldsWrong(l2)
                                                              [] o \in DOMAIN OptionsOf(l2) -> OptionWrong(l2, o)
                                                              [] OTHER -> FragmentWrong(l2) }
         Plain(l2) == IF file[l2].word # "%insignificant" \/ file[l2].names = <<>> \/ "" \in ToSet(file[l2].names)
                      THEN {0} ELSE {}
         All(l2) == CASE file[l2].is = "ignored" -> {} [] file[l2].is = "directive" -> Plain(l2) [] OTHER -> Wrong(l2)
  <2>2. Mistakes(l) = All(l)
    BY DEF Mistakes, FieldsWrong, OptionWrong, FragmentWrong, SortOf, AllowedIn
  <2>3. Mistakes(l)' = All(l)'
    BY DEF Mistakes, FieldsWrong, OptionWrong, FragmentWrong, SortOf, AllowedIn
  <2>4. Wrong(l)' = Wrong(l)
    BY <1>1, <2>1
  <2>5. Plain(l)' = Plain(l)
    OBVIOUS
  <2> HIDE DEF Wrong, Plain
  <2>6. All(l)' = All(l)
    BY <2>4, <2>5
  <2> QED BY <2>2, <2>3, <2>6
<1>12. Mistaken' = Mistaken
  BY <1>11 DEF Mistaken
<1>13. \A k : Listed(k)' = Listed(k)
  BY DEF Listed
<1>14. \A said, named, k : RulesTo(said, named, k)' = RulesTo(said, named, k)
  BY <1>1, <1>7, <1>10 DEF RulesTo
<1>15. \A sites, k : FragmentsSaid(sites, k)' = FragmentsSaid(sites, k)
  BY <1>7 DEF FragmentsSaid
<1>16. \A sites, k : DirectivesTo(sites, k)' = DirectivesTo(sites, k)
  <2> SUFFICES ASSUME NEW sites, NEW k PROVE DirectivesTo(sites, k)' = DirectivesTo(sites, k)
    OBVIOUS
  <2> DEFINE Spelled == [i \in 1..Len(sites) |-> sites[i].mode] = FlattenSeq(Listed(k))
             Rest == /\ IsSequence(sites)
                     /\ \A i, j \in 1..Len(sites) : i < j => sites[i].line <= sites[j].line
                     /\ \A i \in 1..Len(sites) :
                           LET l == sites[i].line
                           IN  /\ l \in 1..k /\ file[l].is = "directive"
                               /\ \E n \in 1..Len(file[l].names) : sites[i].mode = file[l].names[n]
                     /\ \A l \in 1..k : file[l].is = "directive" =>
                           \A n \in 1..Len(file[l].names) :
                               \E i \in 1..Len(sites) : sites[i].line = l /\ sites[i].mode = file[l].names[n]
  <2>1. Spelled' <=> Spelled
    BY <1>13
  <2>2. Rest' <=> Rest
    OBVIOUS
  <2>3. DirectivesTo(sites, k) <=> Spelled /\ Rest
    BY DEF DirectivesTo
  <2>4. DirectivesTo(sites, k)' <=> Spelled' /\ Rest'
    BY DEF DirectivesTo
  <2>5. DirectivesTo(sites, k) \in BOOLEAN /\ DirectivesTo(sites, k)' \in BOOLEAN
    BY DEF DirectivesTo
  <2> HIDE DEF Spelled, Rest
  <2> QED BY <2>1, <2>2, <2>3, <2>4, <2>5
<1>17. \A sites, words, k : SitedTo(sites, words, k)' = SitedTo(sites, words, k)
  BY <1>8, <1>9 DEF SitedTo
<1> QED BY <1>1, <1>2, <1>3, <1>5, <1>6, <1>7, <1>8, <1>9, <1>10, <1>11, <1>12, <1>13, <1>14, <1>15, <1>16, <1>17

LEMMA NamesKept ==
    ASSUME file' = file
    PROVE  /\ \A l, w : Named(l, w)' = Named(l, w)
           /\ \A l : Continued(l)' = Continued(l)
           /\ Dangling' = Dangling
<1>1. /\ \A l : OptionsOf(l)' = OptionsOf(l)
      /\ RuleLines' = RuleLines /\ FragmentLines' = FragmentLines
  BY FileKept
<1>2. \A l, words : NamesGiven(l, words)' = NamesGiven(l, words)
  BY <1>1 DEF NamesGiven
<1>3. \A l, w : Gives(l, w)' = Gives(l, w)
  BY <1>1 DEF Gives
<1>4. \A m : Populated(m)' = Populated(m)
  BY <1>1, <1>2 DEF Populated
<1>5. RuleNames' = RuleNames
  BY <1>1 DEF RuleNames
<1>6. Dangling' = Dangling
  BY <1>1, <1>2, <1>3, <1>4, <1>5 DEF Dangling
<1>7. \A l, w : Named(l, w)' = Named(l, w)
  BY <1>1, <1>2 DEF Named
<1>8. \A l : Continued(l)' = Continued(l)
  BY <1>1, <1>2, <1>3 DEF Continued
<1> QED BY <1>6, <1>7, <1>8

-----------------------------------------------------------------------------
(* The lines that are rules, and their numbers *)

LEMMA RuleLinesSteps ==
    ASSUME file \in Files
    PROVE  /\ RuleLines = RuleLinesTo(Len(file))
           /\ RuleLinesTo(0) = <<>>
           /\ \A k \in 1..Len(file) :
                 RuleLinesTo(k) = IF k \in RuleSet THEN Append(RuleLinesTo(k - 1), k) ELSE RuleLinesTo(k - 1)
           /\ \A k \in 0..Len(file) :
                 /\ IsSequence(RuleLinesTo(k))
                 /\ Len(RuleLinesTo(k)) <= Len(RuleLines)
                 /\ \A i \in 1..Len(RuleLinesTo(k)) : /\ RuleLinesTo(k)[i] = RuleLines[i]
                                                      /\ RuleLinesTo(k)[i] \in RuleSet /\ RuleLinesTo(k)[i] \in 1..k
<1> DEFINE n == Len(file)
           A(k) == RuleLinesTo(k)
<1>1. n \in Nat
  BY FileTyped
<1>2. RuleLines = A(n)
  BY DEF RuleLines, RuleLinesTo, RuleSet
<1> HIDE DEF n
<1>3. /\ Ascending(RuleSet, 1, 1 - 1) = <<>>
      /\ \A k \in Int : k >= 1 =>
            Ascending(RuleSet, 1, k) = IF k \in RuleSet THEN Append(Ascending(RuleSet, 1, k - 1), k)
                                       ELSE Ascending(RuleSet, 1, k - 1)
  <2>1. 1 \in Int
    OBVIOUS
  <2> DEFINE S == RuleSet
  <2> HIDE DEF S
  <2>2. /\ Ascending(S, 1, 1 - 1) = <<>>
        /\ \A k \in Int : k >= 1 =>
            Ascending(S, 1, k) = IF k \in S THEN Append(Ascending(S, 1, k - 1), k) ELSE Ascending(S, 1, k - 1)
    BY <2>1, AscendingSteps
  <2> QED BY <2>2 DEF S
<1>4. A(0) = <<>>
  <2>1. 1 - 1 = 0
    OBVIOUS
  <2> QED BY <1>3, <2>1 DEF RuleLinesTo
<1>5. \A k \in 1..n : A(k) = IF k \in RuleSet THEN Append(A(k - 1), k) ELSE A(k - 1)
  <2>1. \A k \in 1..n : k \in Int /\ k >= 1
    OBVIOUS
  <2> QED BY <1>3, <2>1 DEF RuleLinesTo
<1>6. \A k \in 0..n :
          /\ A(k) \in Seq(1..k) /\ Len(A(k)) \in Nat
          /\ \A i \in 1..Len(A(k)) : A(k)[i] \in RuleSet /\ A(k)[i] \in 1..k
  <2> SUFFICES ASSUME NEW k \in 0..n
               PROVE  /\ A(k) \in Seq(1..k) /\ Len(A(k)) \in Nat
                      /\ \A i \in 1..Len(A(k)) : A(k)[i] \in RuleSet /\ A(k)[i] \in 1..k
    OBVIOUS
  <2>1. 1 \in Int /\ k \in Int /\ k >= 1 - 1
    OBVIOUS
  <2> DEFINE S == RuleSet
  <2> HIDE DEF S
  <2>2. /\ Ascending(S, 1, k) \in Seq(1..k) /\ Len(Ascending(S, 1, k)) \in Nat
        /\ \A i \in 1..Len(Ascending(S, 1, k)) : Ascending(S, 1, k)[i] \in S /\ Ascending(S, 1, k)[i] \in 1..k
    BY <2>1, AscendingMembers
  <2> QED BY <2>2 DEF RuleLinesTo, S
<1>7. \A k \in 0..n : Len(A(k)) <= Len(A(n)) /\ \A i \in 1..Len(A(k)) : A(n)[i] = A(k)[i]
  <2> SUFFICES ASSUME NEW k \in 0..n
               PROVE  Len(A(k)) <= Len(A(n)) /\ \A i \in 1..Len(A(k)) : A(n)[i] = A(k)[i]
    OBVIOUS
  <2>1. 1 \in Int /\ k \in Int /\ n \in Int /\ k >= 1 - 1 /\ n >= k
    BY <1>1
  <2> DEFINE S == RuleSet
  <2> HIDE DEF S
  <2>2. /\ Len(Ascending(S, 1, k)) <= Len(Ascending(S, 1, n))
        /\ \A i \in 1..Len(Ascending(S, 1, k)) : Ascending(S, 1, n)[i] = Ascending(S, 1, k)[i]
    BY <2>1, AscendingExtends
  <2> QED BY <2>2 DEF RuleLinesTo, S
<1>8. \A k \in 0..n : IsSequence(A(k))
  <2> SUFFICES ASSUME NEW k \in 0..n PROVE A(k) \in Seq(ToSet(A(k)))
    BY DEF IsSequence
  <2> DEFINE s == A(k)
             T == ToSet(s)
  <2>1. s \in Seq(1..k)
    BY <1>6
  <2> HIDE DEF s
  <2>2. \A i \in 1..Len(s) : s[i] \in T
    BY <2>1 DEF ToSet
  <2> HIDE DEF T
  <2>3. s \in Seq(T)
    BY <2>1, <2>2
  <2> QED BY <2>3 DEF s, T
<1> QED BY <1>2, <1>4, <1>5, <1>6, <1>7, <1>8 DEF n

\* The number of a rule's line is its place among them.
LEMMA NumberOfRule ==
    ASSUME file \in Files
    PROVE  /\ \A l \in RuleSet : NumberOf(l) \in 1..Len(RuleLines) /\ RuleLines[NumberOf(l)] = l
           /\ \A r \in 1..Len(RuleLines) : RuleLines[r] \in RuleSet /\ NumberOf(RuleLines[r]) = r
           /\ ToSet(RuleLines) = RuleSet
<1> DEFINE n == Len(file)
<1>1. n \in Nat /\ RuleSet \subseteq 1..n
  BY FileTyped DEF RuleSet
<1>2. ASSUME NEW l \in RuleSet
      PROVE  NumberOf(l) \in 1..Len(RuleLines) /\ RuleLines[NumberOf(l)] = l
  <2>1. l \in 1..n /\ l \in 0..n /\ l - 1 \in 0..n
    BY <1>1
  <2> DEFINE s == RuleLinesTo(l - 1)
             t == RuleLinesTo(l)
  <2>2. t = Append(s, l)
    BY <2>1, RuleLinesSteps
  <2>3. IsSequence(s)
    BY <2>1, RuleLinesSteps
  <2>4. Len(t) <= Len(RuleLines) /\ (\A i \in 1..Len(t) : t[i] = RuleLines[i]) /\ Len(RuleLines) \in Nat
    <3>1. IsSequence(RuleLines)
      <4>1. n \in 0..n
        BY <1>1
      <4> QED BY <4>1, RuleLinesSteps
    <3> QED BY <2>1, <3>1, RuleLinesSteps, SequenceTyped
  <2> HIDE DEF s, t, n
  <2>5. Len(t) = Len(s) + 1 /\ t[Len(s) + 1] = l /\ Len(s) \in Nat
    BY <2>2, <2>3, SequenceAppended, SequenceTyped
  <2>6. NumberOf(l) = Len(s) + 1
    BY DEF NumberOf, s
  <2>7. Len(s) + 1 \in 1..Len(t) /\ Len(s) + 1 \in 1..Len(RuleLines)
    BY <2>4, <2>5
  <2> QED BY <2>4, <2>5, <2>6, <2>7
<1>3. /\ Len(RuleLines) \in Nat
      /\ \A i, j \in 1..Len(RuleLines) : i < j => RuleLines[i] < RuleLines[j]
      /\ \A i \in 1..Len(RuleLines) : RuleLines[i] \in RuleSet /\ RuleLines[i] \in 1..n
  <2>1. 1 \in Int /\ n \in Int /\ n >= 1 - 1
    BY <1>1
  <2> DEFINE S == RuleSet
  <2> HIDE DEF S, n
  <2>2. /\ Len(Ascending(S, 1, n)) \in Nat
        /\ \A i, j \in 1..Len(Ascending(S, 1, n)) : i < j => Ascending(S, 1, n)[i] < Ascending(S, 1, n)[j]
        /\ \A i \in 1..Len(Ascending(S, 1, n)) : Ascending(S, 1, n)[i] \in S /\ Ascending(S, 1, n)[i] \in 1..n
    BY <2>1, AscendingMembers
  <2>3. RuleLines = Ascending(S, 1, n)
    BY RuleLinesSteps DEF n, S, RuleLinesTo
  <2> QED BY <2>2, <2>3 DEF S
<1> HIDE DEF n
<1>4. ASSUME NEW r \in 1..Len(RuleLines)
      PROVE  RuleLines[r] \in RuleSet /\ NumberOf(RuleLines[r]) = r
  <2> DEFINE l == RuleLines[r]
             k == NumberOf(l)
  <2>1. l \in RuleSet /\ l \in 1..n
    BY <1>3
  <2>2. k \in 1..Len(RuleLines) /\ RuleLines[k] = l
    BY <1>2, <2>1
  <2> HIDE DEF k
  <2>3. ~(k < r) /\ ~(r < k)
    BY <1>3, <2>1, <2>2
  <2>4. k = r
    BY <1>3, <2>2, <2>3
  <2> QED BY <2>1, <2>4 DEF k
<1>5. ToSet(RuleLines) = RuleSet
  <2>1. IsSequence(RuleLines)
    <3>1. Len(file) \in 0..Len(file)
      BY <1>1 DEF n
    <3> QED BY <3>1, RuleLinesSteps
  <2>2. ToSet(RuleLines) = { RuleLines[i] : i \in 1..Len(RuleLines) }
    BY <2>1, SequenceTyped
  <2> QED BY <1>2, <1>4, <2>2
<1> QED BY <1>2, <1>4, <1>5

-----------------------------------------------------------------------------
(* The options of a line, one more read *)

\* An option that is no mistake adds its names to those of its words, which no option before it has given.
LEMMA GivenSteps ==
    ASSUME file \in Files, NEW l \in 1..Len(file), file[l].is = "rule", NEW o \in 1..Len(OptionsOf(l)),
           o \notin Mistakes(l), NEW words, NEW sort, \A v \in words : SortOf(v) = sort
    PROVE  LET w == OptionsOf(l)[o].word
           IN  /\ GivenTo(l, o, words) # {} <=> w \in words \/ GivenTo(l, o - 1, words) # {}
               /\ w \in words => /\ GivenTo(l, o - 1, words) = {}
                                 /\ NamesTo(l, o, words) = OptionsOf(l)[o].names
               /\ w \notin words => NamesTo(l, o, words) = NamesTo(l, o - 1, words)
<1> DEFINE ops == OptionsOf(l)
           w == ops[o].word
<1>1. Len(ops) \in Nat
  BY OptionsTyped
<1> HIDE DEF ops
<1>2. o \in Nat /\ o >= 1 /\ 1..o = 1..(o - 1) \cup {o} /\ o \notin 1..(o - 1)
  BY <1>1 DEF ops
<1>3. GivenTo(l, o, words) = GivenTo(l, o - 1, words) \cup (IF w \in words THEN {o} ELSE {})
  BY <1>2 DEF GivenTo, ops
<1>4. \A p \in 1..(o - 1) : SortOf(ops[p].word) # SortOf(w)
  <2>1. ~OptionWrong(l, o)
    BY RuleMistakes
  <2> QED BY <2>1 DEF OptionWrong, ops
<1>5. w \in words => GivenTo(l, o - 1, words) = {}
  BY <1>4 DEF GivenTo, ops
<1>6. w \in words => NamesTo(l, o, words) = ops[o].names
  <2> SUFFICES ASSUME w \in words PROVE NamesTo(l, o, words) = ops[o].names
    OBVIOUS
  <2>1. GivenTo(l, o, words) = {o}
    BY <1>3, <1>5
  <2>2. Min({o}) = o
    <3>1. {o} \in SUBSET Nat /\ o \in {o} /\ \A y \in {o} : o <= y
      BY <1>2
    <3> QED BY <3>1, MinIs
  <2> QED BY <2>1, <2>2 DEF NamesTo, ops
<1>7. w \notin words => NamesTo(l, o, words) = NamesTo(l, o - 1, words)
  BY <1>3 DEF NamesTo
<1> QED BY <1>3, <1>5, <1>6, <1>7 DEF ops

\* The rule with an option, field by field.
LEMMA WithOptionFields ==
    ASSUME DOMAIN read = RuleFields
    PROVE  /\ DOMAIN WithOption = RuleFields
           /\ WithOption.kind = read.kind /\ WithOption.pattern = read.pattern
           /\ WithOption.after = read.after /\ WithOption.notAfter = read.notAfter
           /\ WithOption.continuation = read.continuation
           /\ WithOption.skip = IF Word = "skip" THEN TRUE ELSE read.skip
           /\ WithOption.op = IF Word = "push=" THEN "push" ELSE IF Word = "set=" THEN "set"
                              ELSE IF Word = "pop" THEN "pop" ELSE read.op
           /\ WithOption.target = IF Word \in {"push=", "set="} THEN Args[1] ELSE read.target
           /\ WithOption.modes = IF Word = "in=" THEN Args ELSE read.modes
           /\ WithOption.lineStart = IF Word = "line_start" THEN "start" ELSE IF Word = "not_line_start" THEN "inside"
                                     ELSE read.lineStart
           /\ WithOption.indent = IF Word = "indent=" THEN Args[1] ELSE read.indent
           /\ WithOption.extend = IF Word = "extend=" THEN Args[1] ELSE read.extend
<1> DEFINE w == Word
<1>1. CASE Word = "skip"
  BY <1>1 DEF WithOption, RuleFields
<1>2. CASE Word = "pop"
  BY <1>2 DEF WithOption, RuleFields
<1>3. CASE Word = "push="
  BY <1>3 DEF WithOption, RuleFields
<1>4. CASE Word = "set="
  BY <1>4 DEF WithOption, RuleFields
<1>5. CASE Word = "in="
  BY <1>5 DEF WithOption, RuleFields
<1>6. CASE Word = "line_start"
  BY <1>6 DEF WithOption, RuleFields
<1>7. CASE Word = "not_line_start"
  BY <1>7 DEF WithOption, RuleFields
<1>8. CASE Word = "indent="
  BY <1>8 DEF WithOption, RuleFields
<1>9. CASE Word = "extend="
  BY <1>9 DEF WithOption, RuleFields
<1>10. CASE Word \notin {"skip", "pop", "push=", "set=", "in=", "line_start", "not_line_start", "indent=", "extend="}
  BY <1>10 DEF WithOption, RuleFields
<1> QED BY <1>1, <1>2, <1>3, <1>4, <1>5, <1>6, <1>7, <1>8, <1>9, <1>10

\* Before its options, a rule is what its fields say.
LEMMA NewRuleSaid ==
    ASSUME NEW l, NEW k
    PROVE  /\ SaidTo(NewRule(k, file[l].pattern), l, 0)
           /\ NewRule(k, file[l].pattern).kind = k /\ Unresolved(NewRule(k, file[l].pattern))
<1>1. \A words : GivenTo(l, 0, words) = {}
  BY DEF GivenTo
<1>2. \A words : NamesTo(l, 0, words) = <<>>
  BY <1>1 DEF NamesTo
<1> DEFINE new == NewRule(k, file[l].pattern)
<1>3. /\ DOMAIN new = RuleFields
      /\ new.pattern = file[l].pattern /\ new.skip = FALSE /\ new.op = "none" /\ new.modes = <<>>
      /\ new.lineStart = "any" /\ new.indent = "none" /\ new.extend = "none"
      /\ new.kind = k /\ new.after = {} /\ new.notAfter = {} /\ new.continuation = ""
  BY DEF NewRule, RuleFields
<1> HIDE DEF new
<1>4. new.skip = (GivenTo(l, 0, {"skip"}) # {})
  BY <1>1, <1>3
<1>5. SaidTo(new, l, 0)
  BY <1>1, <1>2, <1>3, <1>4 DEF SaidTo
<1> QED BY <1>3, <1>5 DEF new, Unresolved

\* An option read makes the rule what its line says up to it.
LEMMA SaidStep ==
    ASSUME file \in Files, line \in 1..Len(file), file[line].is = "rule", option \in 1..Len(OptionsOf(line)),
           option \notin Mistakes(line), SaidTo(read, line, option - 1)
    PROVE  SaidTo(WithOption, line, option)
<1> DEFINE w == OptionsOf(line)[option].word
           ns == OptionsOf(line)[option].names
           G(words) == GivenTo(line, option - 1, words)
           H(words) == GivenTo(line, option, words)
           N(words) == NamesTo(line, option - 1, words)
           M(words) == NamesTo(line, option, words)
           T == {"push=", "set=", "pop"}
           P == {"line_start", "not_line_start"}
<1>1. Word = w /\ Args = ns
  BY DEF Word, Args, Options, OptionsOf, Line
<1>2. \A words, sort : (\A v \in words : SortOf(v) = sort) =>
          /\ H(words) # {} <=> w \in words \/ G(words) # {}
          /\ w \in words => G(words) = {} /\ M(words) = ns
          /\ w \notin words => M(words) = N(words)
  BY GivenSteps
<1>3. \A v : /\ H({v}) # {} <=> w = v \/ G({v}) # {}
             /\ M({v}) = IF w = v THEN ns ELSE N({v})
  <2> SUFFICES ASSUME NEW v PROVE /\ H({v}) # {} <=> w = v \/ G({v}) # {}
                                  /\ M({v}) = IF w = v THEN ns ELSE N({v})
    OBVIOUS
  <2>1. \A x \in {v} : SortOf(x) = SortOf(v)
    OBVIOUS
  <2> QED BY <1>2, <2>1
<1>4. \A x \in T : SortOf(x) = "transition"
  BY DEF SortOf
<1>5. \A x \in P : SortOf(x) = "place"
  BY DEF SortOf
<1>6. /\ H({"push=", "set="}) # {} <=> w \in {"push=", "set="} \/ G({"push=", "set="}) # {}
      /\ w \in {"push=", "set="} => M({"push=", "set="}) = ns
      /\ w \notin {"push=", "set="} => M({"push=", "set="}) = N({"push=", "set="})
  BY <1>2, <1>4
<1>7. w \in T => G({"push="}) = {} /\ G({"set="}) = {} /\ G({"pop"}) = {}
  <2>1. w \in T => G(T) = {}
    BY <1>2, <1>4
  <2>2. G({"push="}) \subseteq G(T) /\ G({"set="}) \subseteq G(T) /\ G({"pop"}) \subseteq G(T)
    BY DEF GivenTo
  <2> QED BY <2>1, <2>2
<1>8. w \in P => G({"line_start"}) = {} /\ G({"not_line_start"}) = {}
  <2>1. w \in P => G(P) = {}
    BY <1>2, <1>5
  <2>2. G({"line_start"}) \subseteq G(P) /\ G({"not_line_start"}) \subseteq G(P)
    BY DEF GivenTo
  <2> QED BY <2>1, <2>2
<1> DEFINE new == WithOption
<1>9. /\ DOMAIN read = RuleFields
      /\ read.pattern = file[line].pattern
      /\ read.skip = (G({"skip"}) # {})
      /\ read.op = IF G({"push="}) # {} THEN "push" ELSE IF G({"set="}) # {} THEN "set"
                   ELSE IF G({"pop"}) # {} THEN "pop" ELSE "none"
      /\ G({"push=", "set="}) # {} => read.target = N({"push=", "set="})[1]
      /\ read.modes = N({"in="})
      /\ read.lineStart = IF G({"line_start"}) # {} THEN "start"
                          ELSE IF G({"not_line_start"}) # {} THEN "inside" ELSE "any"
      /\ read.indent = IF G({"indent="}) # {} THEN N({"indent="})[1] ELSE "none"
      /\ read.extend = IF G({"extend="}) # {} THEN N({"extend="})[1] ELSE "none"
  BY DEF SaidTo
<1>10. /\ DOMAIN new = RuleFields
       /\ new.pattern = read.pattern
       /\ new.skip = IF w = "skip" THEN TRUE ELSE read.skip
       /\ new.op = IF w = "push=" THEN "push" ELSE IF w = "set=" THEN "set" ELSE IF w = "pop" THEN "pop" ELSE read.op
       /\ new.target = IF w \in {"push=", "set="} THEN ns[1] ELSE read.target
       /\ new.modes = IF w = "in=" THEN ns ELSE read.modes
       /\ new.lineStart = IF w = "line_start" THEN "start" ELSE IF w = "not_line_start" THEN "inside"
                          ELSE read.lineStart
       /\ new.indent = IF w = "indent=" THEN ns[1] ELSE read.indent
       /\ new.extend = IF w = "extend=" THEN ns[1] ELSE read.extend
  BY <1>1, <1>9, WithOptionFields
<1> HIDE DEF new, w, ns, G, H, N, M
<1>11. new.skip = (H({"skip"}) # {})
  BY <1>3, <1>9, <1>10
<1>12. new.op = IF H({"push="}) # {} THEN "push" ELSE IF H({"set="}) # {} THEN "set"
                ELSE IF H({"pop"}) # {} THEN "pop" ELSE "none"
  BY <1>3, <1>7, <1>9, <1>10
<1>13. H({"push=", "set="}) # {} => new.target = M({"push=", "set="})[1]
  BY <1>6, <1>9, <1>10
<1>14. new.modes = M({"in="})
  BY <1>3, <1>9, <1>10
<1>15. new.lineStart = IF H({"line_start"}) # {} THEN "start"
                       ELSE IF H({"not_line_start"}) # {} THEN "inside" ELSE "any"
  BY <1>3, <1>8, <1>9, <1>10
<1>16. new.indent = IF H({"indent="}) # {} THEN M({"indent="})[1] ELSE "none"
  BY <1>3, <1>9, <1>10
<1>17. new.extend = IF H({"extend="}) # {} THEN M({"extend="})[1] ELSE "none"
  BY <1>3, <1>9, <1>10
<1>18. new.pattern = file[line].pattern /\ DOMAIN new = RuleFields
  BY <1>9, <1>10
<1> QED BY <1>11, <1>12, <1>13, <1>14, <1>15, <1>16, <1>17, <1>18 DEF SaidTo, new, H, M

-----------------------------------------------------------------------------
(* One more line, of what is listed by lines *)

\* The members of a set up to one more line.
LEMMA OneMore ==
    ASSUME NEW S, NEW k \in Nat, k >= 1
    PROVE  /\ Ascending(S, 1, k) = IF k \in S THEN Append(Ascending(S, 1, k - 1), k) ELSE Ascending(S, 1, k - 1)
           /\ IsSequence(Ascending(S, 1, k - 1))
<1>1. 1 \in Int /\ k \in Int /\ k >= 1 /\ k - 1 \in Int /\ k - 1 >= 1 - 1
  OBVIOUS
<1>2. \A j \in Int : j >= 1 => Ascending(S, 1, j) = IF j \in S THEN Append(Ascending(S, 1, j - 1), j)
                                                   ELSE Ascending(S, 1, j - 1)
  BY <1>1, AscendingSteps
<1> DEFINE s == Ascending(S, 1, k - 1)
           T == ToSet(s)
<1>3. s \in Seq(1..(k - 1))
  BY <1>1, AscendingMembers
<1> HIDE DEF s
<1>4. \A i \in 1..Len(s) : s[i] \in T
  BY <1>3 DEF ToSet
<1> HIDE DEF T
<1>5. s \in Seq(T)
  BY <1>3, <1>4
<1> QED BY <1>1, <1>2, <1>5 DEF s, T, IsSequence

LEMMA RulesKept ==
    ASSUME NEW said, NEW named, NEW k \in Nat, k >= 1, k \notin RuleSet, RulesTo(said, named, k - 1)
    PROVE  RulesTo(said, named, k)
<1>1. RuleLinesTo(k) = RuleLinesTo(k - 1)
  BY OneMore DEF RuleLinesTo
<1> QED BY <1>1 DEF RulesTo

LEMMA RulesAdded ==
    ASSUME NEW said, NEW named, NEW k \in Nat, k >= 1, k \in RuleSet, RulesTo(said, named, k - 1),
           NEW rule, SaidTo(rule, k, Len(OptionsOf(k))), rule.kind = Len(said)
    PROVE  RulesTo(Append(said, rule), Append(named, file[k].name), k)
<1> DEFINE A == RuleLinesTo(k - 1)
           B == RuleLinesTo(k)
           more == Append(said, rule)
           all == Append(named, file[k].name)
<1>1. B = Append(A, k) /\ IsSequence(A)
  BY OneMore DEF RuleLinesTo
<1> HIDE DEF A, B
<1>2. IsSequence(said) /\ IsSequence(named) /\ Len(said) = Len(A) /\ Len(named) = Len(said) /\ Len(said) \in Nat
  BY SequenceTyped DEF RulesTo, A
<1>3. \A r \in 1..Len(said) : /\ SaidTo(said[r], A[r], Len(OptionsOf(A[r])))
                              /\ said[r].kind = r - 1 /\ named[r] = file[A[r]].name
  BY DEF RulesTo, A
<1>4. /\ IsSequence(more) /\ Len(more) = Len(said) + 1 /\ more[Len(said) + 1] = rule
      /\ \A i \in 1..Len(said) : more[i] = said[i]
  BY <1>2, SequenceAppended
<1>5. /\ IsSequence(all) /\ Len(all) = Len(said) + 1 /\ all[Len(said) + 1] = file[k].name
      /\ \A i \in 1..Len(said) : all[i] = named[i]
  <2> DEFINE x == file[k].name
  <2> HIDE DEF x
  <2> QED BY <1>2, SequenceAppended
<1>6. Len(B) = Len(said) + 1 /\ B[Len(said) + 1] = k /\ \A i \in 1..Len(said) : B[i] = A[i]
  BY <1>1, <1>2, SequenceAppended
<1> HIDE DEF more, all
<1>7. ASSUME NEW r \in 1..Len(more)
      PROVE  SaidTo(more[r], B[r], Len(OptionsOf(B[r]))) /\ more[r].kind = r - 1 /\ all[r] = file[B[r]].name
  <2>1. CASE r \in 1..Len(said)
    BY <1>3, <1>4, <1>5, <1>6, <2>1
  <2>2. CASE r = Len(said) + 1
    BY <1>2, <1>4, <1>5, <1>6, <2>2
  <2>3. r \in 1..Len(said) \/ r = Len(said) + 1
    BY <1>2, <1>4
  <2> QED BY <2>1, <2>2, <2>3
<1> QED BY <1>4, <1>5, <1>6, <1>7 DEF RulesTo, B, more, all

LEMMA SitedKept ==
    ASSUME NEW sites, NEW words, NEW k \in Nat, k >= 1, k \notin LinesGiving(words), SitedTo(sites, words, k - 1)
    PROVE  SitedTo(sites, words, k)
<1> DEFINE S == LinesGiving(words)
<1> HIDE DEF S
<1>1. Ascending(S, 1, k) = Ascending(S, 1, k - 1)
  BY OneMore DEF S
<1> QED BY <1>1 DEF SitedTo, S

LEMMA SitedAdded ==
    ASSUME NEW sites, NEW words, NEW k \in Nat, k >= 1, k \in LinesGiving(words), SitedTo(sites, words, k - 1),
           NEW site, site.line = k, site.rule = NumberOf(k)
    PROVE  SitedTo(Append(sites, site), words, k)
<1> DEFINE S == LinesGiving(words)
           A == Ascending(S, 1, k - 1)
           B == Ascending(S, 1, k)
           more == Append(sites, site)
<1>1. B = Append(A, k) /\ IsSequence(A)
  <2> HIDE DEF S
  <2> QED BY OneMore DEF S
<1>2. IsSequence(sites) /\ Len(sites) = Len(A) /\ Len(sites) \in Nat
  BY SequenceTyped DEF SitedTo
<1>3. \A i \in 1..Len(sites) : sites[i].line = A[i] /\ sites[i].rule = NumberOf(A[i])
  BY DEF SitedTo
<1> HIDE DEF A, B
<1>4. /\ IsSequence(more) /\ Len(more) = Len(sites) + 1 /\ more[Len(sites) + 1] = site
      /\ \A i \in 1..Len(sites) : more[i] = sites[i]
  BY <1>2, SequenceAppended
<1>5. Len(B) = Len(sites) + 1 /\ B[Len(sites) + 1] = k /\ \A i \in 1..Len(sites) : B[i] = A[i]
  BY <1>1, <1>2, SequenceAppended
<1> HIDE DEF more
<1>6. ASSUME NEW i \in 1..Len(more)
      PROVE  more[i].line = B[i] /\ more[i].rule = NumberOf(B[i])
  <2>1. CASE i \in 1..Len(sites)
    BY <1>3, <1>4, <1>5, <2>1
  <2>2. CASE i = Len(sites) + 1
    BY <1>4, <1>5, <2>2
  <2>3. i \in 1..Len(sites) \/ i = Len(sites) + 1
    BY <1>2, <1>4
  <2> QED BY <2>1, <2>2, <2>3
<1> QED BY <1>4, <1>5, <1>6 DEF SitedTo, B, more

LEMMA FragmentsKept ==
    ASSUME NEW listed, NEW k \in Nat, k >= 1, k \notin FragmentLines, FragmentsSaid(listed, k - 1)
    PROVE  FragmentsSaid(listed, k)
<1>1. FragmentsTo(k) = FragmentsTo(k - 1)
  BY OneMore DEF FragmentsTo
<1> QED BY <1>1 DEF FragmentsSaid

LEMMA FragmentsAdded ==
    ASSUME NEW listed, NEW k \in Nat, k >= 1, k \in FragmentLines, FragmentsSaid(listed, k - 1),
           NEW made, made.name = file[k].name, made.pattern = file[k].pattern
    PROVE  FragmentsSaid(Append(listed, made), k)
<1> DEFINE A == FragmentsTo(k - 1)
           B == FragmentsTo(k)
           more == Append(listed, made)
<1>1. B = Append(A, k) /\ IsSequence(A)
  BY OneMore DEF FragmentsTo
<1>2. IsSequence(listed) /\ Len(listed) = Len(A) /\ Len(listed) \in Nat
  BY SequenceTyped DEF FragmentsSaid
<1>3. \A i \in 1..Len(listed) : listed[i].name = file[A[i]].name /\ listed[i].pattern = file[A[i]].pattern
  BY DEF FragmentsSaid
<1> HIDE DEF A, B
<1>4. /\ IsSequence(more) /\ Len(more) = Len(listed) + 1 /\ more[Len(listed) + 1] = made
      /\ \A i \in 1..Len(listed) : more[i] = listed[i]
  BY <1>2, SequenceAppended
<1>5. Len(B) = Len(listed) + 1 /\ B[Len(listed) + 1] = k /\ \A i \in 1..Len(listed) : B[i] = A[i]
  BY <1>1, <1>2, SequenceAppended
<1> HIDE DEF more
<1>6. ASSUME NEW i \in 1..Len(more)
      PROVE  more[i].name = file[B[i]].name /\ more[i].pattern = file[B[i]].pattern
  <2>1. CASE i \in 1..Len(listed)
    BY <1>3, <1>4, <1>5, <2>1
  <2>2. CASE i = Len(listed) + 1
    BY <1>4, <1>5, <2>2
  <2>3. i \in 1..Len(listed) \/ i = Len(listed) + 1
    BY <1>2, <1>4
  <2> QED BY <2>1, <2>2, <2>3
<1> QED BY <1>4, <1>5, <1>6 DEF FragmentsSaid, B, more

LEMMA TypedSequence ==
    ASSUME NEW T, NEW a \in Seq(T)
    PROVE  IsSequence(a)
<1> DEFINE U == ToSet(a)
<1>1. \A i \in 1..Len(a) : a[i] \in U
  BY DEF ToSet
<1> HIDE DEF U
<1>2. a \in Seq(U)
  BY <1>1
<1> QED BY <1>2 DEF IsSequence, U

LEMMA SequenceJoined ==
    ASSUME NEW s, IsSequence(s), NEW t, IsSequence(t), NEW a, a = s \o t
    PROVE  /\ IsSequence(a) /\ Len(a) = Len(s) + Len(t)
           /\ \A i \in 1..Len(s) : a[i] = s[i]
           /\ \A i \in 1..Len(t) : a[Len(s) + i] = t[i]
<1> DEFINE S == ToSet(s)
           R == ToSet(t)
           T == S \cup R
<1>1. s \in Seq(S) /\ t \in Seq(R)
  BY DEF IsSequence
<1> HIDE DEF S, R
<1>2. s \in Seq(T) /\ t \in Seq(T)
  <2>1. S \subseteq T /\ R \subseteq T
    OBVIOUS
  <2> HIDE DEF T
  <2>2. s \in Seq(T)
    BY <1>1, <2>1
  <2>3. t \in Seq(T)
    BY <1>1, <2>1
  <2> QED BY <2>2, <2>3
<1> HIDE DEF T
<1>3. /\ a \in Seq(T) /\ Len(a) = Len(s) + Len(t)
      /\ \A i \in 1..Len(s) : a[i] = s[i]
      /\ \A i \in 1..Len(t) : a[Len(s) + i] = t[i]
  BY <1>2
<1>4. IsSequence(a)
  BY <1>3, TypedSequence
<1> QED BY <1>3, <1>4

LEMMA ListedSteps ==
    ASSUME file \in Files, NEW k \in 1..Len(file)
    PROVE  LET x == IF file[k].is = "directive" THEN file[k].names ELSE <<>>
           IN  /\ FlattenSeq(Listed(k)) = FlattenSeq(Listed(k - 1)) \o x
               /\ FlattenSeq(Listed(k - 1)) \in Seq(STRING) /\ x \in Seq(STRING)
<1> DEFINE x == IF file[k].is = "directive" THEN file[k].names ELSE <<>>
           T == STRING
           S == Seq(T)
           A == Listed(k - 1)
           B == Listed(k)
           X(l) == IF file[l].is = "directive" THEN file[l].names ELSE <<>>
<1>1. \A l \in 1..Len(file) : X(l) \in S
  <2>1. \A l \in 1..Len(file) : file[l].is = "directive" => file[l].names \in S
    BY FileTyped
  <2>2. <<>> \in S
    OBVIOUS
  <2> HIDE DEF S
  <2> QED BY <2>1, <2>2
<1>2. Len(file) \in Nat
  BY FileTyped
<1>3. A = [l \in 1..(k - 1) |-> X(l)] /\ B = [l \in 1..k |-> X(l)] /\ x = X(k)
  BY DEF Listed
<1>9. k \in Nat /\ k - 1 \in Nat /\ (\A l \in 1..k : l \in 1..Len(file)) /\ \A l \in 1..(k - 1) : l \in 1..Len(file)
  BY <1>2
<1> HIDE DEF S, A, B, X, x
<1>4. A \in Seq(S) /\ B \in Seq(S) /\ Len(A) = k - 1 /\ Len(B) = k /\ x \in S
  <2>1. \A l \in 1..(k - 1) : X(l) \in S
    BY <1>1, <1>9
  <2>2. \A l \in 1..k : X(l) \in S
    BY <1>1, <1>9
  <2>3. [l \in 1..(k - 1) |-> X(l)] \in Seq(S) /\ Len([l \in 1..(k - 1) |-> X(l)]) = k - 1
    BY <1>9, <2>1
  <2>4. [l \in 1..k |-> X(l)] \in Seq(S) /\ Len([l \in 1..k |-> X(l)]) = k
    BY <1>9, <2>2
  <2>5. x \in S
    BY <1>1, <1>3
  <2> QED BY <1>3, <2>3, <2>4, <2>5
<1>5. B = Append(A, x)
  <2>1. Append(A, x) \in Seq(S) /\ Len(Append(A, x)) = k /\ Append(A, x)[k] = x
        /\ \A l \in 1..(k - 1) : Append(A, x)[l] = A[l]
    BY <1>4, <1>9
  <2>2. \A l \in 1..k : Append(A, x)[l] = X(l)
    <3> SUFFICES ASSUME NEW l \in 1..k PROVE Append(A, x)[l] = X(l)
      OBVIOUS
    <3>1. CASE l = k
      BY <1>3, <2>1, <3>1
    <3>2. CASE l # k
      <4>1. l \in 1..(k - 1)
        BY <1>9, <3>2
      <4> QED BY <1>3, <2>1, <4>1
    <3> QED BY <3>1, <3>2
  <2> DEFINE C == Append(A, x)
  <2> HIDE DEF C
  <2>6. C \in Seq(S) /\ Len(C) = k
    BY <2>1 DEF C
  <2>3. C = [l \in 1..k |-> C[l]]
    BY <2>6
  <2>4. \A l \in 1..k : C[l] = X(l)
    BY <2>2 DEF C
  <2>5. C = B
    BY <1>3, <2>3, <2>4
  <2> QED BY <2>5 DEF C
<1>6. \A seqs \in Seq(Seq(T)), last \in Seq(T) :
          FlattenSeq(seqs) \in Seq(T) /\ FlattenSeq(Append(seqs, last)) = FlattenSeq(seqs) \o last
  BY FlattenAppend
<1>7. FlattenSeq(A) \in S /\ FlattenSeq(Append(A, x)) = FlattenSeq(A) \o x
  BY <1>4, <1>6 DEF S
<1> QED BY <1>4, <1>5, <1>7 DEF A, B, x, S

LEMMA DirectivesKept ==
    ASSUME NEW sites, file \in Files, NEW k \in 1..Len(file), file[k].is # "directive", DirectivesTo(sites, k - 1)
    PROVE  DirectivesTo(sites, k)
<1>1. FlattenSeq(Listed(k)) = FlattenSeq(Listed(k - 1))
  <2> DEFINE F == FlattenSeq(Listed(k - 1))
  <2>1. FlattenSeq(Listed(k)) = F \o <<>> /\ F \in Seq(STRING)
    BY ListedSteps
  <2> HIDE DEF F
  <2>2. F \o <<>> = F
    BY <2>1
  <2> QED BY <2>1, <2>2 DEF F
<1>2. k \in Nat /\ k - 1 \in Nat /\ 1..k = 1..(k - 1) \cup {k}
  BY FileTyped
<1> DEFINE F == FlattenSeq(Listed(k))
           E == FlattenSeq(Listed(k - 1))
<1> HIDE DEF E, F
<1>3. E = F
  BY <1>1 DEF E, F
<1>4. /\ IsSequence(sites)
      /\ [i \in 1..Len(sites) |-> sites[i].mode] = F
      /\ \A i, j \in 1..Len(sites) : i < j => sites[i].line <= sites[j].line
  BY <1>3 DEF DirectivesTo, E
<1>5. \A i \in 1..Len(sites) :
          LET l == sites[i].line
          IN  /\ l \in 1..(k - 1) /\ file[l].is = "directive"
              /\ \E n \in 1..Len(file[l].names) : sites[i].mode = file[l].names[n]
  BY DEF DirectivesTo
<1>6. \A l \in 1..(k - 1) : file[l].is = "directive" =>
          \A n \in 1..Len(file[l].names) :
              \E i \in 1..Len(sites) : sites[i].line = l /\ sites[i].mode = file[l].names[n]
  BY DEF DirectivesTo
<1>7. \A i \in 1..Len(sites) : sites[i].line \in 1..k
  BY <1>2, <1>5
<1>8. \A l \in 1..k : file[l].is = "directive" => l \in 1..(k - 1)
  BY <1>2
<1> QED BY <1>4, <1>5, <1>6, <1>7, <1>8 DEF DirectivesTo, F

LEMMA DirectivesAdded ==
    ASSUME NEW sites, file \in Files, NEW k \in 1..Len(file), file[k].is = "directive", DirectivesTo(sites, k - 1)
    PROVE  DirectivesTo(sites \o [i \in DOMAIN file[k].names |-> [mode |-> file[k].names[i], line |-> k, at |-> i]], k)
<1> DEFINE ns == file[k].names
           new == [i \in DOMAIN ns |-> [mode |-> ns[i], line |-> k, at |-> i]]
           all == sites \o new
           F == FlattenSeq(Listed(k))
           E == FlattenSeq(Listed(k - 1))
           T == STRING
<1>1. F = E \o ns /\ E \in Seq(T) /\ ns \in Seq(T)
  BY ListedSteps
<1>2. k \in Nat /\ k - 1 \in Nat /\ 1..k = 1..(k - 1) \cup {k}
  BY FileTyped
<1>3. /\ IsSequence(sites)
      /\ [i \in 1..Len(sites) |-> sites[i].mode] = E
      /\ \A i, j \in 1..Len(sites) : i < j => sites[i].line <= sites[j].line
  BY DEF DirectivesTo
<1>4. \A i \in 1..Len(sites) :
          LET l == sites[i].line
          IN  /\ l \in 1..(k - 1) /\ file[l].is = "directive"
              /\ \E n \in 1..Len(file[l].names) : sites[i].mode = file[l].names[n]
  BY DEF DirectivesTo
<1>5. \A l \in 1..(k - 1) : file[l].is = "directive" =>
          \A n \in 1..Len(file[l].names) :
              \E i \in 1..Len(sites) : sites[i].line = l /\ sites[i].mode = file[l].names[n]
  BY DEF DirectivesTo
<1>0. file[k].names = ns
  OBVIOUS
<1> HIDE DEF E, F, T, ns
<1>6. Len(ns) \in Nat /\ DOMAIN ns = 1..Len(ns)
  BY <1>1
<1>7. IsSequence(new) /\ Len(new) = Len(ns) /\ \A i \in 1..Len(ns) : new[i].mode = ns[i] /\ new[i].line = k
  <2> DEFINE U == ToSet(new)
  <2>1. new = [i \in 1..Len(ns) |-> new[i]] /\ DOMAIN new = 1..Len(ns)
    BY <1>6
  <2>2. \A i \in 1..Len(ns) : new[i].mode = ns[i] /\ new[i].line = k
    BY <1>6
  <2> HIDE DEF new
  <2>3. \A i \in 1..Len(ns) : new[i] \in U
    BY <2>1 DEF ToSet
  <2> HIDE DEF U
  <2>4. new \in Seq(U) /\ Len(new) = Len(ns)
    BY <1>6, <2>1, <2>3
  <2> QED BY <2>2, <2>4 DEF IsSequence, U
<1> HIDE DEF new
<1>8. /\ IsSequence(all) /\ Len(all) = Len(sites) + Len(ns) /\ Len(sites) \in Nat
      /\ \A i \in 1..Len(sites) : all[i] = sites[i]
      /\ \A i \in 1..Len(ns) : all[Len(sites) + i].mode = ns[i] /\ all[Len(sites) + i].line = k
  <2>1. /\ IsSequence(all) /\ Len(all) = Len(sites) + Len(new)
        /\ \A i \in 1..Len(sites) : all[i] = sites[i]
        /\ \A i \in 1..Len(new) : all[Len(sites) + i] = new[i]
    <3>1. all = sites \o new
      OBVIOUS
    <3> HIDE DEF all
    <3>2. IsSequence(sites) /\ IsSequence(new)
      BY <1>3, <1>7
    <3>3. IsSequence(all)
      BY <3>1, <3>2, SequenceJoined
    <3>4. Len(all) = Len(sites) + Len(new)
      BY <3>1, <3>2, SequenceJoined
    <3>5. \A i \in 1..Len(sites) : all[i] = sites[i]
      BY <3>1, <3>2, SequenceJoined
    <3>6. \A i \in 1..Len(new) : all[Len(sites) + i] = new[i]
      BY <3>1, <3>2, SequenceJoined
    <3> QED BY <3>3, <3>4, <3>5, <3>6
  <2>2. Len(sites) \in Nat
    BY <1>3, SequenceTyped
  <2> HIDE DEF all
  <2> QED BY <1>7, <2>1, <2>2
<1> HIDE DEF all
<1>9. \A i \in 1..Len(all) : i \in 1..Len(sites) \/ \E j \in 1..Len(ns) : i = Len(sites) + j
  <2> SUFFICES ASSUME NEW i \in 1..Len(all), i \notin 1..Len(sites) PROVE \E j \in 1..Len(ns) : i = Len(sites) + j
    OBVIOUS
  <2>1. i - Len(sites) \in 1..Len(ns) /\ i = Len(sites) + (i - Len(sites))
    BY <1>6, <1>8
  <2> QED BY <2>1
<1>10. [i \in 1..Len(all) |-> all[i].mode] = F
  <2>1. Len(E) = Len(sites) /\ \A i \in 1..Len(sites) : E[i] = sites[i].mode
    BY <1>1, <1>3, <1>8
  <2>2. F \in Seq(T) /\ Len(F) = Len(all) /\ (\A i \in 1..Len(sites) : F[i] = E[i])
        /\ \A j \in 1..Len(ns) : F[Len(sites) + j] = ns[j]
    BY <1>1, <1>8, <2>1
  <2>3. \A i \in 1..Len(all) : F[i] = all[i].mode
    <3> SUFFICES ASSUME NEW i \in 1..Len(all) PROVE F[i] = all[i].mode
      OBVIOUS
    <3>1. CASE i \in 1..Len(sites)
      BY <1>8, <2>1, <2>2, <3>1
    <3>2. CASE i \notin 1..Len(sites)
      <4>1. PICK j \in 1..Len(ns) : i = Len(sites) + j
        BY <1>9, <3>2
      <4> QED BY <1>8, <2>2, <4>1
    <3> QED BY <3>1, <3>2
  <2>4. F = [i \in 1..Len(all) |-> F[i]]
    BY <2>2
  <2> QED BY <2>3, <2>4
<1>11. \A i \in 1..Len(all) : /\ i \in 1..Len(sites) => all[i].line \in 1..(k - 1) /\ all[i].line <= k /\ all[i].line = sites[i].line
                              /\ i \notin 1..Len(sites) => all[i].line = k /\ Len(sites) < i
  <2> SUFFICES ASSUME NEW i \in 1..Len(all)
               PROVE  /\ i \in 1..Len(sites) => all[i].line \in 1..(k - 1) /\ all[i].line <= k /\ all[i].line = sites[i].line
                      /\ i \notin 1..Len(sites) => all[i].line = k /\ Len(sites) < i
    OBVIOUS
  <2>1. CASE i \in 1..Len(sites)
    <3>1. all[i].line = sites[i].line /\ sites[i].line \in 1..(k - 1)
      BY <1>4, <1>8, <2>1
    <3>2. sites[i].line <= k
      BY <1>2, <3>1
    <3> QED BY <2>1, <3>1, <3>2
  <2>2. CASE i \notin 1..Len(sites)
    <3>1. PICK j \in 1..Len(ns) : i = Len(sites) + j
      BY <1>9, <2>2
    <3>2. Len(sites) < i
      BY <1>6, <1>8, <3>1
    <3> QED BY <1>8, <2>2, <3>1, <3>2
  <2> QED BY <2>1, <2>2
<1>12. \A i, j \in 1..Len(all) : i < j => all[i].line <= all[j].line
  <2> SUFFICES ASSUME NEW i \in 1..Len(all), NEW j \in 1..Len(all), i < j PROVE all[i].line <= all[j].line
    OBVIOUS
  <2>1. CASE j \in 1..Len(sites)
    <3>1. i \in 1..Len(sites)
      BY <1>8, <2>1
    <3> QED BY <1>3, <1>11, <2>1, <3>1
  <2>2. CASE j \notin 1..Len(sites)
    BY <1>2, <1>11, <2>2
  <2> QED BY <2>1, <2>2
<1>13. ASSUME NEW i \in 1..Len(all)
       PROVE  /\ all[i].line \in 1..k /\ file[all[i].line].is = "directive"
              /\ \E n \in 1..Len(file[all[i].line].names) : all[i].mode = file[all[i].line].names[n]
  <2>1. CASE i \in 1..Len(sites)
    BY <1>2, <1>4, <1>8, <2>1
  <2>2. CASE i \notin 1..Len(sites)
    <3>1. PICK j \in 1..Len(ns) : i = Len(sites) + j
      BY <1>9, <2>2
    <3>2. all[i].line = k /\ all[i].mode = ns[j] /\ k \in 1..k
      BY <1>2, <1>8, <3>1
    <3> QED BY <1>0, <3>1, <3>2
  <2> QED BY <2>1, <2>2
<1>14. ASSUME NEW l \in 1..k, file[l].is = "directive", NEW n \in 1..Len(file[l].names)
       PROVE  \E i \in 1..Len(all) : all[i].line = l /\ all[i].mode = file[l].names[n]
  <2>1. CASE l \in 1..(k - 1)
    <3>1. PICK i \in 1..Len(sites) : sites[i].line = l /\ sites[i].mode = file[l].names[n]
      BY <1>5, <1>14, <2>1
    <3>2. i \in 1..Len(all) /\ all[i] = sites[i]
      BY <1>6, <1>8
    <3> QED BY <3>1, <3>2
  <2>2. CASE l = k
    <3>1. n \in 1..Len(ns)
      BY <1>0, <2>2
    <3>2. Len(sites) + n \in 1..Len(all)
      BY <1>6, <1>8, <3>1
    <3> QED BY <1>0, <1>8, <2>2, <3>1, <3>2
  <2> QED BY <1>2, <2>1, <2>2
<1>15. DirectivesTo(all, k)
  BY <1>8, <1>10, <1>12, <1>13, <1>14 DEF DirectivesTo, F
<1> QED BY <1>15 DEF all, new, ns

-----------------------------------------------------------------------------
(* A line read keeps what is said of the parse *)

LEMMA PassesInLines ==
    ASSUME pass = "lines"
    PROVE  PassesSaid <=> insignificant = <<>> /\ \A r \in 1..Len(rules) : Unresolved(rules[r])
<1>1. \A p \in 1..4 : ~Beyond(p)
  BY DEF Beyond
<1>2. ~Beyond(2) /\ ~Beyond(3) /\ ~Beyond(4)
  BY <1>1
<1> QED BY <1>1, <1>2 DEF PassesSaid, Unresolved

\* A line is in none, or in one, of the lists by lines.
LEMMA LineSorts ==
    ASSUME file \in Files, NEW k \in 1..Len(file)
    PROVE  /\ file[k].is # "rule" => k \notin RuleSet /\ k \notin FragmentLines /\ \A words : k \notin LinesGiving(words)
           /\ file[k].is = "rule" =>
                 /\ k \in FragmentLines <=> GivenTo(k, Len(OptionsOf(k)), {"fragment"}) # {}
                 /\ k \in RuleSet <=> k \notin FragmentLines
                 /\ \A words : k \in LinesGiving(words) <=> GivenTo(k, Len(OptionsOf(k)), words) # {}
<1>1. k \in DOMAIN file
  BY FileTyped
<1>2. file[k].is = "rule" => DOMAIN OptionsOf(k) = 1..Len(OptionsOf(k))
  BY OptionsTyped
<1>3. file[k].is = "rule" => (Gives(k, "fragment") <=> GivenTo(k, Len(OptionsOf(k)), {"fragment"}) # {})
  BY <1>2 DEF Gives, GivenTo
<1> QED BY <1>1, <1>3 DEF RuleSet, FragmentLines, LinesGiving

LEMMA NextLine ==
    ASSUME ParseSaid, pass = "lines", line \in 1..Len(file), UNCHANGED <<file, pass, insignificant>>,
           line' = line + 1, option' = 0, Mistakes(line) = {},
           RulesTo(rules', names', line), \A r \in 1..Len(rules') : Unresolved(rules'[r]),
           FragmentsSaid(fragments', line), DirectivesTo(directives', line),
           SitedTo(transitions', {"push=", "set="}, line),
           SitedTo(continuations', {"continue="}, line),
           \A i \in 1..Len(continuations') :
              LET l == continuations'[i].line
              IN  continuations'[i].name = NamesTo(l, Len(OptionsOf(l)), {"continue="})[1],
           SitedTo(predicates', Predicates, line),
           \A i \in 1..Len(predicates') :
              LET l == predicates'[i].line
              IN  /\ predicates'[i].names = NamesTo(l, Len(OptionsOf(l)), Predicates)
                  /\ predicates'[i].after = (GivenTo(l, Len(OptionsOf(l)), {"after="}) # {})
    PROVE  ParseSaid'
<1>1. Len(file) \in Nat /\ line \in Nat /\ file \in Files /\ line' - 1 = line /\ file' = file
  BY FileTyped DEF ParseSaid, Place
<1>2. Place'
  <2>1. \A l \in 1..(line' - 1) : Mistakes(l) = {}
    BY <1>1 DEF ParseSaid, Place
  <2>2. \A l : Mistakes(l)' = Mistakes(l)
    BY FileKept
  <2>3. line' \in 1..(Len(file) + 1)
    BY <1>1
  <2>4. pass' = "lines"
    OBVIOUS
  <2> QED BY <1>1, <2>1, <2>2, <2>3, <2>4 DEF Place
<1>3. LineSaid'
  <2>1. ~(option' > 0)
    OBVIOUS
  <2> QED BY <2>1 DEF LineSaid
<1>4. RulesTo(rules, names, line - 1)'
  <2>1. RulesTo(rules', names', line' - 1)
    BY <1>1
  <2>2. \A said, named, k : RulesTo(said, named, k)' = RulesTo(said, named, k)
    BY FileKept
  <2> QED BY <2>1, <2>2
<1>5. FragmentsSaid(fragments, line - 1)' /\ DirectivesTo(directives, line - 1)'
  <2>1. FragmentsSaid(fragments', line' - 1) /\ DirectivesTo(directives', line' - 1)
    BY <1>1
  <2>2. \A sites, k : FragmentsSaid(sites, k)' = FragmentsSaid(sites, k) /\ DirectivesTo(sites, k)' = DirectivesTo(sites, k)
    BY FileKept
  <2> QED BY <2>1, <2>2
<1>6. SitesSaid'
  <2>1. \A sites, words, k : SitedTo(sites, words, k)' = SitedTo(sites, words, k)
    BY FileKept
  <2>2. \A l, o, words : GivenTo(l, o, words)' = GivenTo(l, o, words) /\ NamesTo(l, o, words)' = NamesTo(l, o, words)
    BY FileKept
  <2>3. \A l : OptionsOf(l)' = OptionsOf(l)
    BY FileKept
  <2>4. \A l : ReadTo(l)' = Len(OptionsOf(l))
    BY <2>3 DEF ReadTo
  <2>5. Noted' = line
    BY <1>1 DEF Noted
  <2>6. SitedTo(transitions, {"push=", "set="}, line - 1)' /\ SitedTo(continuations, {"continue="}, line - 1)'
    <3>1. SitedTo(transitions', {"push=", "set="}, line' - 1) /\ SitedTo(continuations', {"continue="}, line' - 1)
      BY <1>1
    <3> QED BY <2>1, <3>1
  <2>7. SitedTo(predicates, Predicates, Noted)'
    <3>1. SitedTo(predicates', Predicates, Noted')
      BY <2>5
    <3>2. Predicates' = Predicates
      BY DEF Predicates
    <3> QED BY <2>1, <3>1, <3>2
  <2>8. (\A i \in 1..Len(continuations) :
            LET l == continuations[i].line
            IN  continuations[i].name = NamesTo(l, Len(OptionsOf(l)), {"continue="})[1])'
    BY <2>2, <2>3
  <2>9. (\A i \in 1..Len(predicates) :
            LET l == predicates[i].line
            IN  /\ predicates[i].names = NamesTo(l, ReadTo(l), Predicates)
                /\ predicates[i].after = (GivenTo(l, ReadTo(l), {"after="}) # {}))'
    <3>1. Predicates' = Predicates
      BY DEF Predicates
    <3> QED BY <2>2, <2>4, <3>1
  <2> QED BY <2>6, <2>7, <2>8, <2>9 DEF SitesSaid
<1>7. PassesSaid'
  <2>1. insignificant' = <<>>
    BY PassesInLines DEF ParseSaid
  <2>2. pass' = "lines" /\ \A r \in 1..Len(rules') : Unresolved(rules'[r])
    OBVIOUS
  <2>3. \A p \in 1..4 : ~Beyond(p)'
    BY <2>2 DEF Beyond
  <2>4. ~Beyond(2)' /\ ~Beyond(3)' /\ ~Beyond(4)'
    BY <2>3
  <2> QED BY <2>1, <2>2, <2>3, <2>4 DEF PassesSaid, Unresolved
<1> QED BY <1>2, <1>3, <1>4, <1>5, <1>6, <1>7 DEF ParseSaid

\* What is said of the sites where no option is under way.
LEMMA SitesBetween ==
    ASSUME ParseSaid, option = 0
    PROVE  /\ SitedTo(transitions, {"push=", "set="}, line - 1)
           /\ SitedTo(continuations, {"continue="}, line - 1)
           /\ \A i \in 1..Len(continuations) :
                 LET l == continuations[i].line
                 IN  continuations[i].name = NamesTo(l, Len(OptionsOf(l)), {"continue="})[1]
           /\ SitedTo(predicates, Predicates, line - 1)
           /\ \A i \in 1..Len(predicates) :
                 LET l == predicates[i].line
                 IN  /\ predicates[i].names = NamesTo(l, Len(OptionsOf(l)), Predicates)
                     /\ predicates[i].after = (GivenTo(l, Len(OptionsOf(l)), {"after="}) # {})
<1>1. Noted = line - 1 /\ \A l : ReadTo(l) = Len(OptionsOf(l))
  BY DEF Noted, ReadTo
<1> QED BY <1>1 DEF ParseSaid, SitesSaid

\* A line that is no rule adds nothing to the rules nor to the sites of their options.
LEMMA PlainLine ==
    ASSUME ParseSaid, pass = "lines", option = 0, line \in 1..Len(file), file[line].is # "rule", Mistakes(line) = {},
           UNCHANGED <<file, rules, names, transitions, predicates, fragments, continuations, insignificant, pass, option>>,
           line' = line + 1, DirectivesTo(directives', line)
    PROVE  ParseSaid'
<1>1. file \in Files /\ line \in Nat /\ line >= 1
  BY FileTyped DEF ParseSaid, Place
<1>2. line \notin RuleSet /\ line \notin FragmentLines /\ \A words : line \notin LinesGiving(words)
  BY <1>1, LineSorts
<1>3. RulesTo(rules', names', line)
  BY <1>1, <1>2, RulesKept DEF ParseSaid
<1>4. FragmentsSaid(fragments', line)
  BY <1>1, <1>2, FragmentsKept DEF ParseSaid
<1>5. SitedTo(transitions', {"push=", "set="}, line)
  BY <1>1, <1>2, SitesBetween, SitedKept
<1>6. SitedTo(continuations', {"continue="}, line)
  BY <1>1, <1>2, SitesBetween, SitedKept
<1>7. SitedTo(predicates', Predicates, line)
  BY <1>1, <1>2, SitesBetween, SitedKept
<1>8. \A r \in 1..Len(rules') : Unresolved(rules'[r])
  BY PassesInLines DEF ParseSaid
<1>9. \A i \in 1..Len(continuations') :
          LET l == continuations'[i].line
          IN  continuations'[i].name = NamesTo(l, Len(OptionsOf(l)), {"continue="})[1]
  BY SitesBetween
<1>10. \A i \in 1..Len(predicates') :
          LET l == predicates'[i].line
          IN  /\ predicates'[i].names = NamesTo(l, Len(OptionsOf(l)), Predicates)
              /\ predicates'[i].after = (GivenTo(l, Len(OptionsOf(l)), {"after="}) # {})
  BY SitesBetween
<1> QED BY <1>3, <1>4, <1>5, <1>6, <1>7, <1>8, <1>9, <1>10, NextLine

LEMMA LineTaken ==
    ASSUME ParseSaid, pass = "lines", line <= Len(file)
    PROVE  line \in 1..Len(file) /\ file \in Files
BY FileTyped DEF ParseSaid, Place

LEMMA IgnoreKeeps ==
    ASSUME ParseSaid, Ignore
    PROVE  ParseSaid'
<1>1. pass = "lines" /\ option = 0 /\ line \in 1..Len(file) /\ file[line].is = "ignored" /\ file \in Files
  BY LineTaken DEF Ignore, AtLine, Line
<1>2. Mistakes(line) = {}
  BY <1>1 DEF Mistakes
<1>3. DirectivesTo(directives', line)
  BY <1>1, DirectivesKept DEF ParseSaid, Ignore, siteVars
<1> QED BY <1>1, <1>2, <1>3, PlainLine DEF Ignore, siteVars, lineVars

LEMMA DirectiveKeeps ==
    ASSUME ParseSaid, Directive
    PROVE  ParseSaid'
<1>1. pass = "lines" /\ option = 0 /\ line \in 1..Len(file) /\ file[line].is = "directive" /\ file \in Files
  BY LineTaken DEF Directive, AtLine, Line
<1>2. file[line].word = "%insignificant" /\ file[line].names # <<>> /\ "" \notin ToSet(file[line].names)
  BY DEF Directive, Line
<1>3. Mistakes(line) = {}
  BY <1>1, <1>2 DEF Mistakes
<1>4. directives' = directives \o [i \in DOMAIN file[line].names |-> [mode |-> file[line].names[i], line |-> line, at |-> i]]
  BY DEF Directive, Line
<1>5. DirectivesTo(directives, line - 1)
  BY DEF ParseSaid
<1>6. DirectivesTo(directives', line)
  BY <1>1, <1>4, <1>5, DirectivesAdded
<1>7. /\ UNCHANGED <<file, rules, names, transitions, predicates, fragments, continuations, insignificant, pass, option>>
      /\ line' = line + 1
  BY DEF Directive, lineVars
<1> QED BY <1>1, <1>3, <1>6, <1>7, PlainLine

-----------------------------------------------------------------------------
(* A line refused *)

LEMMA FirstMistake ==
    ASSUME Place, line \in 1..Len(file), Mistakes(line) # {}
    PROVE  Mistaken # {} /\ Min(Mistaken) = line
<1>1. DOMAIN file = 1..Len(file) /\ Len(file) \in Nat
  BY FileTyped DEF Place
<1>2. line \in Mistaken /\ Mistaken \in SUBSET Nat
  BY <1>1 DEF Mistaken
<1>3. ASSUME NEW l \in Mistaken PROVE line <= l
  <2>1. l \in 1..Len(file) /\ Mistakes(l) # {}
    BY <1>1, <1>3 DEF Mistaken
  <2>2. l \notin 1..(line - 1)
    BY <2>1 DEF Place
  <2> QED BY <1>1, <2>1, <2>2
<1> QED BY <1>2, <1>3, MinIs

LEMMA RefusedAtLine ==
    ASSUME ParseSaid, line \in 1..Len(file), Mistakes(line) # {}, NEW at2, Refuse(line, at2),
           at2 = Min(Mistakes(line)) \/ Min(Mistakes(line)) > Len(OptionsOf(line))
    PROVE  RefusedSaid'
<1>1. Mistaken # {} /\ Min(Mistaken) = line
  BY FirstMistake DEF ParseSaid
<1>2. file' = file /\ refusal'.line = line /\ refusal'.at = at2
  BY DEF Refuse
<1>3. Mistaken' = Mistaken /\ \A l : Mistakes(l)' = Mistakes(l) /\ OptionsOf(l)' = OptionsOf(l)
  BY <1>2, FileKept
<1>4. Mistaken' # {} /\ refusal'.line = Min(Mistaken')
  BY <1>1, <1>2, <1>3
<1>5. LET first == Min(Mistakes(refusal'.line)) IN refusal'.at = first \/ first > Len(OptionsOf(refusal'.line))
  BY <1>2
<1>6. (LET first == Min(Mistakes(refusal.line)) IN refusal.at = first \/ first > Len(OptionsOf(refusal.line)))'
  BY <1>3, <1>5
<1> QED BY <1>4, <1>6 DEF RefusedSaid

LEMMA BadDirectiveRefused ==
    ASSUME ParseSaid, BadDirective
    PROVE  RefusedSaid'
<1>1. pass = "lines" /\ option = 0 /\ line \in 1..Len(file) /\ file[line].is = "directive" /\ file \in Files
  BY LineTaken DEF BadDirective, AtLine, Line
<1>2. Mistakes(line) = {0}
  BY <1>1 DEF Mistakes, BadDirective, Line
<1>3. Min({0}) = 0
  <2>1. {0} \in SUBSET Nat /\ 0 \in {0} /\ \A y \in {0} : 0 <= y
    OBVIOUS
  <2> QED BY <2>1, MinIs
<1>4. Refuse(line, 0)
  BY DEF BadDirective
<1>5. Mistakes(line) # {} /\ 0 = Min(Mistakes(line))
  BY <1>2, <1>3
<1> QED BY <1>1, <1>4, <1>5, RefusedAtLine

LEMMA BadFieldsRefused ==
    ASSUME ParseSaid, BadFields
    PROVE  RefusedSaid'
<1>1. pass = "lines" /\ option = 0 /\ line \in 1..Len(file) /\ file[line].is = "rule" /\ file \in Files
  BY LineTaken DEF BadFields, AtLine, Line
<1>2. FieldsWrong(line)
  <2>1. file[line].fields \in Nat
    BY <1>1, FileTyped
  <2>2. file[line].fields \notin {2, 3} \/ file[line].pattern \in {"", "invalid"}
    BY DEF BadFields, Line
  <2> DEFINE f == file[line].fields
  <2>3. f \notin {2, 3} => f < 2 \/ f > 3
    <3>1. f \in Nat
      BY <2>1
    <3> HIDE DEF f
    <3> QED BY <3>1
  <2> QED BY <2>2, <2>3 DEF FieldsWrong
<1>3. 0 \in Mistakes(line) /\ Mistakes(line) \subseteq 0..(Len(OptionsOf(line)) + 1)
  BY <1>1, <1>2, RuleMistakes
<1>4. Min(Mistakes(line)) = 0
  <2>1. Mistakes(line) \in SUBSET Nat /\ \A y \in Mistakes(line) : 0 <= y
    BY <1>3
  <2> QED BY <1>3, <2>1, MinIs
<1>5. Refuse(line, 0)
  BY DEF BadFields
<1> QED BY <1>1, <1>3, <1>4, <1>5, RefusedAtLine

LEMMA BadOptionRefused ==
    ASSUME ParseSaid, BadOption
    PROVE  RefusedSaid'
<1>1. option > 0 /\ option <= Len(Options) /\ pass = "lines" /\ (Clashes \/ ~Known) /\ Refuse(line, option)
  BY DEF BadOption, AtOption
<1>2. /\ line \in 1..Len(file) /\ file[line].is = "rule" /\ file \in Files
      /\ option \in 1..(Len(OptionsOf(line)) + 1)
      /\ \A o \in 0..(option - 1) : o \notin Mistakes(line)
      /\ given = { OptionsOf(line)[p].word : p \in 1..(option - 1) }
  BY <1>1 DEF ParseSaid, Place, LineSaid
<1>3. Options = OptionsOf(line) /\ Line = file[line]
  BY DEF Options, OptionsOf, Line
<1>4. option \in 1..Len(OptionsOf(line)) /\ Len(OptionsOf(line)) \in Nat
  <2>1. Len(OptionsOf(line)) \in Nat
    BY <1>2, OptionsTyped
  <2> QED BY <1>1, <1>2, <1>3, <2>1
<1>5. option \in Mistakes(line)
  BY <1>1, <1>2, <1>3, <1>4, OptionRefused
<1>6. Mistakes(line) \subseteq 0..(Len(OptionsOf(line)) + 1)
  BY <1>2, RuleMistakes
<1>7. Min(Mistakes(line)) = option
  <2>1. Mistakes(line) \in SUBSET Nat
    BY <1>6
  <2>2. \A y \in Mistakes(line) : option <= y
    <3> SUFFICES ASSUME NEW y \in Mistakes(line) PROVE option <= y
      OBVIOUS
    <3>1. y \notin 0..(option - 1) /\ y \in Nat
      BY <1>2, <1>6
    <3> QED BY <1>4, <3>1
  <2> QED BY <1>5, <2>1, <2>2, MinIs
<1> QED BY <1>1, <1>2, <1>5, <1>7, RefusedAtLine

-----------------------------------------------------------------------------
(* A line under way *)

\* The sites of the lines up to one are in them.
LEMMA SitesWithin ==
    ASSUME NEW sites, NEW words, NEW k \in Nat, SitedTo(sites, words, k)
    PROVE  \A i \in 1..Len(sites) : sites[i].line \in 1..k
<1> DEFINE S == LinesGiving(words)
<1> HIDE DEF S
<1>1. 1 \in Int /\ k \in Int /\ k >= 1 - 1
  OBVIOUS
<1>2. \A i \in 1..Len(Ascending(S, 1, k)) : Ascending(S, 1, k)[i] \in 1..k
  BY <1>1, AscendingMembers
<1> QED BY <1>2 DEF SitedTo, S

\* A step inside a line adds nothing but to the sites of predicates.
LEMMA SameLine ==
    ASSUME ParseSaid, pass = "lines", option' > 0, option' \in Nat,
           UNCHANGED <<file, line, rules, names, transitions, fragments, continuations, directives, insignificant, pass>>,
           LineSaid', SitedTo(predicates', Predicates, Noted'),
           \A i \in 1..Len(predicates') :
              LET l == predicates'[i].line
                  o == IF l = line THEN option' - 1 ELSE Len(OptionsOf(l))
              IN  /\ predicates'[i].names = NamesTo(l, o, Predicates)
                  /\ predicates'[i].after = (GivenTo(l, o, {"after="}) # {})
    PROVE  ParseSaid'
<1>0. file' = file /\ line' = line
  OBVIOUS
<1>1. Place'
  <2>1. \A l : Mistakes(l)' = Mistakes(l)
    BY FileKept
  <2>2. \A l \in 1..(line - 1) : Mistakes(l) = {}
    BY DEF ParseSaid, Place
  <2>3. pass' = "lines" /\ file \in Files /\ line \in 1..(Len(file) + 1)
    BY DEF ParseSaid, Place
  <2> QED BY <1>0, <2>1, <2>2, <2>3 DEF Place
<1>2. /\ RulesTo(rules, names, line - 1)'
      /\ FragmentsSaid(fragments, line - 1)' /\ DirectivesTo(directives, line - 1)'
  <2>1. RulesTo(rules', names', line' - 1) /\ FragmentsSaid(fragments', line' - 1) /\ DirectivesTo(directives', line' - 1)
    BY DEF ParseSaid
  <2>2. \A said, named, k : RulesTo(said, named, k)' = RulesTo(said, named, k)
    BY FileKept
  <2>3. \A sites, k : FragmentsSaid(sites, k)' = FragmentsSaid(sites, k) /\ DirectivesTo(sites, k)' = DirectivesTo(sites, k)
    BY FileKept
  <2> QED BY <2>1, <2>2, <2>3
<1>3. SitesSaid'
  <2>1. \A sites, words, k : SitedTo(sites, words, k)' = SitedTo(sites, words, k)
    BY FileKept
  <2>2. \A l, o, words : GivenTo(l, o, words)' = GivenTo(l, o, words) /\ NamesTo(l, o, words)' = NamesTo(l, o, words)
    BY FileKept
  <2>3. \A l : OptionsOf(l)' = OptionsOf(l)
    BY FileKept
  <2>4. \A l : ReadTo(l)' = IF l = line THEN option' - 1 ELSE Len(OptionsOf(l))
    BY <2>3 DEF ReadTo
  <2>5. SitedTo(transitions, {"push=", "set="}, line - 1)' /\ SitedTo(continuations, {"continue="}, line - 1)'
    <3>1. SitedTo(transitions', {"push=", "set="}, line' - 1) /\ SitedTo(continuations', {"continue="}, line' - 1)
      BY DEF ParseSaid, SitesSaid
    <3> QED BY <2>1, <3>1
  <2>6. Predicates' = Predicates
    BY DEF Predicates
  <2>7. SitedTo(predicates, Predicates, Noted)'
    BY <2>1, <2>6
  <2>8. (\A i \in 1..Len(continuations) :
            LET l == continuations[i].line
            IN  continuations[i].name = NamesTo(l, Len(OptionsOf(l)), {"continue="})[1])'
    <3>1. \A i \in 1..Len(continuations) :
            LET l == continuations[i].line
            IN  continuations[i].name = NamesTo(l, Len(OptionsOf(l)), {"continue="})[1]
      BY DEF ParseSaid, SitesSaid
    <3> QED BY <2>2, <2>3, <3>1
  <2>9. (\A i \in 1..Len(predicates) :
            LET l == predicates[i].line
            IN  /\ predicates[i].names = NamesTo(l, ReadTo(l), Predicates)
                /\ predicates[i].after = (GivenTo(l, ReadTo(l), {"after="}) # {}))'
    BY <2>2, <2>4, <2>6
  <2> QED BY <2>5, <2>7, <2>8, <2>9 DEF SitesSaid
<1>4. PassesSaid'
  <2>1. insignificant = <<>> /\ \A r \in 1..Len(rules) : Unresolved(rules[r])
    BY PassesInLines DEF ParseSaid
  <2>3. \A p \in 1..4 : ~Beyond(p)'
    BY DEF Beyond
  <2>4. ~Beyond(2)' /\ ~Beyond(3)' /\ ~Beyond(4)'
    BY <2>3
  <2> QED BY <2>1, <2>3, <2>4 DEF PassesSaid, Unresolved
<1> QED BY <1>1, <1>2, <1>3, <1>4 DEF ParseSaid

LEMMA FieldsKeeps ==
    ASSUME ParseSaid, Fields
    PROVE  ParseSaid'
<1>1. pass = "lines" /\ option = 0 /\ line \in 1..Len(file) /\ file[line].is = "rule" /\ file \in Files /\ Line = file[line]
  BY LineTaken DEF Fields, AtLine, Line
<1>2. /\ file[line].fields \in {2, 3} /\ file[line].pattern \notin {"", "invalid"}
      /\ read' = NewRule(Len(rules), file[line].pattern)
      /\ option' = 1 /\ given' = {} /\ fragment' = 0 /\ continuation' = NoName /\ transition' = 0
      /\ UNCHANGED <<file, line, rules, names, siteVars, insignificant, pass>>
  BY <1>1 DEF Fields
<1>10. option' = 1 /\ option' - 1 = 0 /\ option' \in Nat /\ option' > 0
  <2>1. option' = 1
    BY <1>2
  <2> QED BY <2>1
<1>3. 0 \notin Mistakes(line)
  <2> DEFINE f == file[line].fields
  <2>2. ~(f < 2) /\ ~(f > 3)
    <3>1. f \in {2, 3}
      BY <1>2
    <3> HIDE DEF f
    <3> QED BY <3>1
  <2>1. ~FieldsWrong(line)
    BY <1>2, <2>2 DEF FieldsWrong
  <2> QED BY <1>1, <2>1, RuleMistakes
<1>4. Len(OptionsOf(line)) \in Nat
  BY <1>1, OptionsTyped
<1>5. \A words : GivenTo(line, 0, words) = {}
  BY DEF GivenTo
<1>6. /\ SaidTo(read', line, 0) /\ read'.kind = Len(rules) /\ Unresolved(read')
  <2> DEFINE k == Len(rules)
  <2> HIDE DEF k
  <2>1. read' = NewRule(k, file[line].pattern)
    BY <1>2 DEF k
  <2>2. SaidTo(read', line, 0) /\ read'.kind = k /\ Unresolved(read')
    BY <2>1, NewRuleSaid
  <2> QED BY <2>2 DEF k
<1>7. LineSaid'
  <2>1. \A l : Mistakes(l)' = Mistakes(l) /\ OptionsOf(l)' = OptionsOf(l)
    BY <1>2, FileKept
  <2>2. \A l, o, words : GivenTo(l, o, words)' = GivenTo(l, o, words) /\ NamesTo(l, o, words)' = NamesTo(l, o, words)
    BY <1>2, FileKept
  <2>3. \A rule, l, o : SaidTo(rule, l, o)' = SaidTo(rule, l, o)
    BY <1>2, FileKept
  <2>4. option' - 1 = 0 /\ 1 - 1 = 0
    BY <1>10
  <2>5. SaidTo(read, line, option - 1)'
    <3>1. SaidTo(read', line', option' - 1)
      BY <1>2, <1>6, <2>4
    <3> QED BY <2>3, <3>1
  <2>6. \A words : GivenTo(line, option - 1, words)' = {}
    BY <1>2, <1>5, <2>2, <2>4
  <2>7. option' \in 1..(Len(OptionsOf(line)) + 1)
    BY <1>10, <1>4
  <2>8. \A o \in 0..(option' - 1) : o \notin Mistakes(line)
    <3>1. 0..0 = {0}
      OBVIOUS
    <3> QED BY <1>3, <2>4, <3>1
  <2>9. given' = { OptionsOf(line)[p].word : p \in 1..(option' - 1) }
    <3>1. 1..0 = {}
      OBVIOUS
    <3> QED BY <1>2, <2>4, <3>1
  <2>10. /\ line' \in 1..Len(file') /\ file'[line'].is = "rule"
    BY <1>1, <1>2
  <2>11. /\ (\A o \in 0..(option - 1) : o \notin Mistakes(line))'
         /\ (given = { OptionsOf(line)[p].word : p \in 1..(option - 1) })'
         /\ (option \in 1..(Len(OptionsOf(line)) + 1))'
    BY <1>2, <2>1, <2>7, <2>8, <2>9
  <2>12. NoName' = NoName
    BY DEF NoName
  <2>13. /\ (fragment \in Nat /\ (fragment > 0 <=> GivenTo(line, option - 1, {"fragment"}) # {}))'
         /\ (transition \in Nat /\ (transition > 0 <=> GivenTo(line, option - 1, {"push=", "set="}) # {}))'
         /\ (continuation = NoName <=> GivenTo(line, option - 1, {"continue="}) = {})'
         /\ (continuation # NoName => continuation.name = NamesTo(line, option - 1, {"continue="})[1])'
    <3>1. GivenTo(line, option - 1, {"fragment"})' = {} /\ GivenTo(line, option - 1, {"push=", "set="})' = {}
          /\ GivenTo(line, option - 1, {"continue="})' = {}
      BY <2>6
    <3>2. fragment' = 0 /\ transition' = 0 /\ continuation' = NoName
      BY <1>2
    <3> QED BY <2>12, <3>1, <3>2
  <2>14. Unresolved(read)' /\ read'.kind = Len(rules')
    BY <1>2, <1>6 DEF Unresolved
  <2> QED BY <2>5, <2>10, <2>11, <2>13, <2>14 DEF LineSaid
<1>8. SitedTo(predicates', Predicates, Noted')
  <2>1. \A l, o, words : GivenTo(l, o, words)' = GivenTo(l, o, words)
    BY <1>2, FileKept
  <2>2. GivenTo(line, option - 1, Predicates)' = {}
    <3>1. GivenTo(line', option' - 1, Predicates') = {}
      BY <1>10, <1>2, <1>5
    <3> QED BY <2>1, <3>1
  <2>3. Noted' = line - 1
    BY <1>2, <2>2 DEF Noted
  <2> QED BY <1>1, <1>2, <2>3, SitesBetween DEF siteVars
<1>9. ASSUME NEW i \in 1..Len(predicates')
      PROVE  LET l == predicates'[i].line
                 o == IF l = line THEN option' - 1 ELSE Len(OptionsOf(l))
             IN  /\ predicates'[i].names = NamesTo(l, o, Predicates)
                 /\ predicates'[i].after = (GivenTo(l, o, {"after="}) # {})
  <2>1. predicates' = predicates
    BY <1>2 DEF siteVars
  <2>2. predicates[i].line # line
    <3>1. line - 1 \in Nat /\ SitedTo(predicates, Predicates, line - 1)
      BY <1>1, SitesBetween, FileTyped
    <3>2. predicates[i].line \in 1..(line - 1)
      BY <2>1, <3>1, SitesWithin
    <3> QED BY <3>1, <3>2
  <2> QED BY <1>1, <2>1, <2>2, SitesBetween
<1>11. UNCHANGED <<file, line, rules, names, transitions, fragments, continuations, directives, insignificant, pass>>
  BY <1>2 DEF siteVars
<1> QED BY <1>1, <1>10, <1>11, <1>7, <1>8, <1>9, SameLine

LEMMA OptionKeeps ==
    ASSUME ParseSaid, Option
    PROVE  ParseSaid'
<1> DEFINE ops == OptionsOf(line)
           w == ops[option].word
           ns == ops[option].names
           G(words) == GivenTo(line, option - 1, words)
           H(words) == GivenTo(line, option, words)
           N(words) == NamesTo(line, option - 1, words)
           M(words) == NamesTo(line, option, words)
<1>1. /\ pass = "lines" /\ option > 0 /\ option <= Len(Options) /\ ~Clashes /\ Known
      /\ read' = WithOption /\ given' = given \cup {Word}
      /\ fragment' = IF Word = "fragment" THEN option ELSE fragment
      /\ continuation' = IF Word = "continue=" THEN [name |-> Args[1], at |-> option] ELSE continuation
      /\ transition' = IF Word \in {"push=", "set="} THEN option ELSE transition
      /\ predicates' = IF Word \in Predicates
                       THEN Append(predicates, [ rule |-> Len(rules) + 1, after |-> Word = "after=", names |-> Args,
                                                 line |-> line, at |-> option ])
                       ELSE predicates
      /\ option' = option + 1
      /\ UNCHANGED <<file, line, rules, names, transitions, fragments, continuations, directives, insignificant, pass>>
  BY DEF Option, AtOption
<1>2. /\ line \in 1..Len(file) /\ file[line].is = "rule" /\ file \in Files
      /\ option \in 1..(Len(ops) + 1)
      /\ \A o \in 0..(option - 1) : o \notin Mistakes(line)
      /\ given = { ops[p].word : p \in 1..(option - 1) }
      /\ fragment \in Nat /\ (fragment > 0 <=> G({"fragment"}) # {})
      /\ continuation = NoName <=> G({"continue="}) = {}
      /\ continuation # NoName => continuation.name = N({"continue="})[1]
      /\ transition \in Nat /\ (transition > 0 <=> G({"push=", "set="}) # {})
      /\ SaidTo(read, line, option - 1) /\ read.kind = Len(rules) /\ Unresolved(read)
  BY <1>1 DEF ParseSaid, Place, LineSaid
<1>3. Options = ops /\ Line = file[line] /\ Word = w /\ Args = ns
  BY DEF Options, OptionsOf, Line, Word, Args
<1>4. option \in 1..Len(ops) /\ Len(ops) \in Nat /\ option \in Nat /\ option' - 1 = option /\ option' \in Nat /\ option' > 0
  <2>1. Len(ops) \in Nat
    BY <1>2, OptionsTyped
  <2>2. option \in 1..(Len(ops) + 1) /\ option <= Len(ops) /\ option' = option + 1
    BY <1>1, <1>2, <1>3
  <2> HIDE DEF ops
  <2> QED BY <2>1, <2>2
<1>5. option \notin Mistakes(line)
  BY <1>1, <1>2, <1>3, <1>4, OptionRefused
<1>6. SaidTo(read', line, option)
  BY <1>1, <1>2, <1>4, <1>5, SaidStep
<1>7. \A words, sort : (\A v \in words : SortOf(v) = sort) =>
          /\ H(words) # {} <=> w \in words \/ G(words) # {}
          /\ w \in words => G(words) = {} /\ M(words) = ns
          /\ w \notin words => M(words) = N(words)
  <2>1. option \in 1..Len(OptionsOf(line))
    BY <1>4
  <2>2. line \in 1..Len(file) /\ file[line].is = "rule" /\ file \in Files
    BY <1>2
  <2> QED BY <1>5, <2>1, <2>2, GivenSteps
<1>8. \A v : /\ H({v}) # {} <=> w = v \/ G({v}) # {}
             /\ M({v}) = IF w = v THEN ns ELSE N({v})
  <2> SUFFICES ASSUME NEW v PROVE /\ H({v}) # {} <=> w = v \/ G({v}) # {}
                                  /\ M({v}) = IF w = v THEN ns ELSE N({v})
    OBVIOUS
  <2>1. \A x \in {v} : SortOf(x) = SortOf(v)
    OBVIOUS
  <2> QED BY <1>7, <2>1
<1>9. H({"push=", "set="}) # {} <=> w \in {"push=", "set="} \/ G({"push=", "set="}) # {}
  <2>1. \A x \in {"push=", "set="} : SortOf(x) = "transition"
    BY DEF SortOf
  <2> QED BY <1>7, <2>1
<1>10. /\ H(Predicates) # {} <=> w \in Predicates \/ G(Predicates) # {}
       /\ w \in Predicates => G(Predicates) = {} /\ M(Predicates) = ns
       /\ w \notin Predicates => M(Predicates) = N(Predicates)
  <2>1. \A x \in Predicates : SortOf(x) = "predicate"
    BY DEF SortOf, Predicates
  <2> QED BY <1>7, <2>1
<1>11. read'.kind = Len(rules) /\ Unresolved(read')
  <2>1. DOMAIN read = RuleFields
    BY <1>2 DEF SaidTo
  <2> DEFINE new == WithOption
  <2>2. /\ new.kind = read.kind /\ new.after = read.after /\ new.notAfter = read.notAfter
        /\ new.continuation = read.continuation
    BY <2>1, WithOptionFields
  <2>3. read' = new
    BY <1>1
  <2> HIDE DEF new
  <2> QED BY <1>2, <2>2, <2>3 DEF Unresolved
<1>12. given' = { ops[p].word : p \in 1..option }
  <2>1. 1..option = 1..(option - 1) \cup {option}
    BY <1>4
  <2>2. given' = { ops[p].word : p \in 1..(option - 1) } \cup {w}
    BY <1>1, <1>2, <1>3
  <2> HIDE DEF ops
  <2> QED BY <2>1, <2>2
<1>13. \A o \in 0..option : o \notin Mistakes(line)
  <2>1. \A o \in 0..option : o = option \/ o \in 0..(option - 1)
    BY <1>4
  <2> QED BY <1>2, <1>5, <2>1
<1> HIDE DEF w, ns, ops, G, H, N, M
<1>14. fragment' \in Nat /\ (fragment' > 0 <=> H({"fragment"}) # {})
  BY <1>1, <1>2, <1>3, <1>4, <1>8
<1>15. transition' \in Nat /\ (transition' > 0 <=> H({"push=", "set="}) # {})
  BY <1>1, <1>2, <1>3, <1>4, <1>9
<1>16. /\ continuation' = NoName <=> H({"continue="}) = {}
       /\ continuation' # NoName => continuation'.name = M({"continue="})[1]
  <2>1. CASE w = "continue="
    <3>1. continuation' = [name |-> ns[1], at |-> option]
      BY <1>1, <1>3, <2>1
    <3>2. continuation'.at = option /\ NoName.at = 0 /\ continuation'.name = ns[1]
      BY <3>1 DEF NoName
    <3>3. continuation' # NoName
      BY <1>1, <1>4, <3>2
    <3> QED BY <1>8, <2>1, <3>2, <3>3
  <2>2. CASE w # "continue="
    BY <1>1, <1>2, <1>3, <1>8, <2>2
  <2> QED BY <2>1, <2>2
<1>17. LineSaid'
  <2>1. \A l : Mistakes(l)' = Mistakes(l) /\ OptionsOf(l)' = OptionsOf(l)
    BY <1>1, FileKept
  <2>2. \A l, o, words : GivenTo(l, o, words)' = GivenTo(l, o, words) /\ NamesTo(l, o, words)' = NamesTo(l, o, words)
    BY <1>1, FileKept
  <2>3. SaidTo(read, line, option - 1)'
    <3>1. \A rule, l, o : SaidTo(rule, l, o)' = SaidTo(rule, l, o)
      BY <1>1, FileKept
    <3>2. SaidTo(read', line', option' - 1)
      BY <1>1, <1>4, <1>6
    <3> QED BY <3>1, <3>2
  <2>4. \A words : GivenTo(line, option - 1, words)' = H(words) /\ NamesTo(line, option - 1, words)' = M(words)
    BY <1>1, <1>4, <2>2 DEF H, M
  <2>5. /\ GivenTo(line, option - 1, {"fragment"})' = H({"fragment"})
        /\ GivenTo(line, option - 1, {"push=", "set="})' = H({"push=", "set="})
        /\ GivenTo(line, option - 1, {"continue="})' = H({"continue="})
        /\ NamesTo(line, option - 1, {"continue="})' = M({"continue="})
    BY <2>4
  <2>6. NoName' = NoName
    BY DEF NoName
  <2>7. /\ (fragment \in Nat /\ (fragment > 0 <=> GivenTo(line, option - 1, {"fragment"}) # {}))'
        /\ (transition \in Nat /\ (transition > 0 <=> GivenTo(line, option - 1, {"push=", "set="}) # {}))'
        /\ (continuation = NoName <=> GivenTo(line, option - 1, {"continue="}) = {})'
        /\ (continuation # NoName => continuation.name = NamesTo(line, option - 1, {"continue="})[1])'
    BY <1>14, <1>15, <1>16, <2>5, <2>6
  <2>8. /\ (line \in 1..Len(file) /\ file[line].is = "rule")'
        /\ (option \in 1..(Len(OptionsOf(line)) + 1))'
    <3>1. option' \in 1..(Len(ops) + 1)
      <4> DEFINE n == Len(ops)
                 p == option'
      <4>1. n \in Nat /\ option \in 1..n /\ p = option + 1
        BY <1>1, <1>4
      <4> HIDE DEF n, p
      <4>2. p \in 1..(n + 1)
        BY <4>1
      <4> QED BY <4>2 DEF n, p
    <3> QED BY <1>1, <1>2, <2>1, <3>1 DEF ops
  <2>9. (\A o \in 0..(option - 1) : o \notin Mistakes(line))'
    BY <1>1, <1>4, <1>13, <2>1
  <2>10. (given = { OptionsOf(line)[p].word : p \in 1..(option - 1) })'
    BY <1>1, <1>4, <1>12, <2>1 DEF ops
  <2>11. read'.kind = Len(rules') /\ Unresolved(read)'
    BY <1>1, <1>11 DEF Unresolved
  <2> QED BY <2>3, <2>7, <2>8, <2>9, <2>10, <2>11 DEF LineSaid
<1>18. Noted' = IF H(Predicates) # {} THEN line ELSE line - 1
  <2>1. \A l, o, words : GivenTo(l, o, words)' = GivenTo(l, o, words)
    BY <1>1, FileKept
  <2>2. GivenTo(line, option - 1, Predicates)' = H(Predicates)
    <3>1. GivenTo(line', option' - 1, Predicates') = H(Predicates)
      BY <1>1, <1>4 DEF H, Predicates
    <3> QED BY <2>1, <3>1
  <2> QED BY <1>1, <1>4, <2>2 DEF Noted
<1>19. Noted = IF G(Predicates) # {} THEN line ELSE line - 1
  BY <1>1 DEF Noted, G
<1>20. SitedTo(predicates, Predicates, Noted)
  BY DEF ParseSaid, SitesSaid
<1>21. \A i \in 1..Len(predicates) :
          LET l == predicates[i].line
              o == IF l = line THEN option - 1 ELSE Len(OptionsOf(l))
          IN  /\ predicates[i].names = NamesTo(l, o, Predicates)
              /\ predicates[i].after = (GivenTo(l, o, {"after="}) # {})
  BY <1>1 DEF ParseSaid, SitesSaid, ReadTo
<1>22. CASE w \in Predicates
  <2> DEFINE site == [rule |-> Len(rules) + 1, after |-> w = "after=", names |-> ns, line |-> line, at |-> option]
             more == Append(predicates, site)
  <2>1. predicates' = more /\ Noted = line - 1 /\ Noted' = line
    BY <1>1, <1>3, <1>10, <1>18, <1>19, <1>22
  <2>2. line \in LinesGiving(Predicates)
    <3>1. H(Predicates) # {} /\ H(Predicates) \subseteq GivenTo(line, Len(ops), Predicates)
      BY <1>4, <1>10, <1>22 DEF H, GivenTo
    <3> QED BY <1>2, <3>1, FileTyped DEF LinesGiving, ops
  <2>3. site.line = line /\ site.rule = NumberOf(line) /\ site.names = ns /\ site.after = (w = "after=")
    BY DEF NumberOf, ParseSaid, RulesTo
  <2>4. SitedTo(predicates, Predicates, line - 1) /\ line \in Nat /\ line >= 1 /\ line - 1 \in Nat
    BY <1>2, <1>20, <2>1, FileTyped
  <2> HIDE DEF site
  <2>5. SitedTo(more, Predicates, line)
    <3> DEFINE P == Predicates
    <3>1. SitedTo(predicates, P, line - 1) /\ line \in LinesGiving(P)
      BY <2>2, <2>4
    <3> HIDE DEF P
    <3>2. SitedTo(more, P, line)
      BY <2>3, <2>4, <3>1, SitedAdded
    <3> QED BY <3>2 DEF P
  <2>6. \A i \in 1..Len(predicates) : predicates[i].line # line
    <3>1. \A i \in 1..Len(predicates) : predicates[i].line \in 1..(line - 1)
      BY <2>4, SitesWithin
    <3> QED BY <2>4, <3>1
  <2>7. /\ IsSequence(predicates) /\ Len(predicates) \in Nat /\ Len(more) = Len(predicates) + 1
        /\ more[Len(predicates) + 1] = site /\ \A i \in 1..Len(predicates) : more[i] = predicates[i]
    <3>1. IsSequence(predicates)
      BY <2>4 DEF SitedTo
    <3> QED BY <3>1, SequenceTyped, SequenceAppended
  <2> HIDE DEF more
  <2>8. ASSUME NEW i \in 1..Len(more)
        PROVE  LET l == more[i].line
                   o == IF l = line THEN option ELSE Len(OptionsOf(l))
               IN  /\ more[i].names = NamesTo(l, o, Predicates)
                   /\ more[i].after = (GivenTo(l, o, {"after="}) # {})
    <3>1. CASE i \in 1..Len(predicates)
      BY <1>21, <2>6, <2>7, <3>1
    <3>2. CASE i = Len(predicates) + 1
      <4>1. more[i] = site
        BY <2>7, <3>2
      <4>2. H({"after="}) # {} <=> w = "after="
        <5>1. G({"after="}) \subseteq G(Predicates)
          BY DEF G, GivenTo, Predicates
        <5> QED BY <1>8, <1>10, <1>22, <5>1
      <4>3. (H({"after="}) # {}) = (w = "after=")
        BY <4>2
      <4> QED BY <1>10, <1>22, <2>3, <4>1, <4>3 DEF H, M
    <3>3. i \in 1..Len(predicates) \/ i = Len(predicates) + 1
      BY <2>7
    <3> QED BY <3>1, <3>2, <3>3
  <2>9. SitedTo(predicates', Predicates, Noted')
    BY <2>1, <2>5
  <2>10. \A i \in 1..Len(predicates') :
          LET l == predicates'[i].line
              o == IF l = line THEN option' - 1 ELSE Len(OptionsOf(l))
          IN  /\ predicates'[i].names = NamesTo(l, o, Predicates)
              /\ predicates'[i].after = (GivenTo(l, o, {"after="}) # {})
    BY <1>4, <2>1, <2>8
  <2> QED BY <1>1, <1>4, <1>17, <2>9, <2>10, SameLine
<1>23. CASE w \notin Predicates
  <2>1. predicates' = predicates /\ Noted' = Noted
    BY <1>1, <1>3, <1>10, <1>18, <1>19, <1>23
  <2>2. SitedTo(predicates', Predicates, Noted')
    BY <1>20, <2>1
  <2>3. NamesTo(line, option, Predicates) = NamesTo(line, option - 1, Predicates)
    BY <1>10, <1>23 DEF M, N
  <2>4. (GivenTo(line, option, {"after="}) # {}) = (GivenTo(line, option - 1, {"after="}) # {})
    <3>1. w # "after="
      BY <1>23 DEF Predicates
    <3>2. H({"after="}) # {} <=> G({"after="}) # {}
      BY <1>8, <3>1
    <3> QED BY <3>2 DEF H, G
  <2>5. \A i \in 1..Len(predicates') :
          LET l == predicates'[i].line
              o == IF l = line THEN option' - 1 ELSE Len(OptionsOf(l))
          IN  /\ predicates'[i].names = NamesTo(l, o, Predicates)
              /\ predicates'[i].after = (GivenTo(l, o, {"after="}) # {})
    <3> SUFFICES ASSUME NEW i \in 1..Len(predicates)
                 PROVE  LET l == predicates[i].line
                            o == IF l = line THEN option ELSE Len(OptionsOf(l))
                        IN  /\ predicates[i].names = NamesTo(l, o, Predicates)
                            /\ predicates[i].after = (GivenTo(l, o, {"after="}) # {})
      BY <1>4, <2>1
    <3>1. CASE predicates[i].line = line
      BY <1>21, <2>3, <2>4, <3>1
    <3>2. CASE predicates[i].line # line
      BY <1>21, <3>2
    <3> QED BY <3>1, <3>2
  <2> QED BY <1>1, <1>4, <1>17, <2>2, <2>5, SameLine
<1> QED BY <1>22, <1>23

-----------------------------------------------------------------------------
(* The end of a line *)

\* Words that are all different are one word exactly if there is one.
LEMMA OneWord ==
    ASSUME NEW n \in Nat, NEW ws, \A p, q \in 1..n : p < q => ws[p] # ws[q]
    PROVE  Cardinality({ ws[p] : p \in 1..n }) = 1 <=> n = 1
<1> DEFINE T == { ws[p] : p \in 1..n }
           f == [p \in 1..n |-> ws[p]]
<1>1. IsFiniteSet(T)
  <2>1. f \in Surjection(1..n, T)
    <3>1. f \in [1..n -> T] /\ \A t \in T : \E p \in 1..n : f[p] = t
      OBVIOUS
    <3> HIDE DEF f, T
    <3> QED BY <3>1 DEF Surjection
  <2>2. IsFiniteSet(1..n)
    BY FS_Interval
  <2> HIDE DEF f, T
  <2> QED BY <2>1, <2>2, FS_Surjection
<1>2. ASSUME n = 1 PROVE Cardinality(T) = 1
  <2>1. 1..1 = {1}
    OBVIOUS
  <2>2. T = {ws[1]}
    BY <1>2, <2>1
  <2> HIDE DEF T
  <2> QED BY <2>2, FS_Singleton
<1>3. ASSUME Cardinality(T) = 1 PROVE n = 1
  <2>1. \E x : T = {x}
    <3> HIDE DEF T
    <3> QED BY <1>1, <1>3, FS_Singleton
  <2>2. PICK x : T = {x}
    BY <2>1
  <2>3. \A p \in 1..n : ws[p] = x
    BY <2>2
  <2>4. ~(n > 1)
    <3> SUFFICES ASSUME n > 1 PROVE FALSE
      OBVIOUS
    <3>1. 1 \in 1..n /\ 2 \in 1..n /\ 1 < 2
      OBVIOUS
    <3> QED BY <2>3, <3>1
  <2>5. n # 0
    <3> SUFFICES ASSUME n = 0 PROVE FALSE
      OBVIOUS
    <3>1. 1..0 = {}
      OBVIOUS
    <3> QED BY <2>2, <3>1
  <2> QED BY <2>4, <2>5
<1> HIDE DEF T
<1>4. Cardinality(T) = 1 <=> n = 1
  BY <1>2, <1>3
<1> QED BY <1>4 DEF T

LEMMA EndOfOptions ==
    ASSUME ParseSaid, AtEndOfLine
    PROVE  /\ pass = "lines" /\ line \in 1..Len(file) /\ file[line].is = "rule" /\ file \in Files /\ Line = file[line]
           /\ Len(OptionsOf(line)) \in Nat /\ option > 0 /\ option - 1 = Len(OptionsOf(line))
           /\ Mistakes(line) \subseteq {Len(OptionsOf(line)) + 1}
           /\ Len(OptionsOf(line)) + 1 \in Mistakes(line) <=> FragmentWrong(line)
           /\ fragment \in Nat /\ (fragment > 0 <=> line \in FragmentLines)
           /\ Cardinality(given) = 1 <=> Len(OptionsOf(line)) = 1
           /\ (\E i \in DOMAIN fragments : fragments[i].name = Line.name)
                <=> \E k \in FragmentLines : k < line /\ file[k].name = file[line].name
           /\ SaidTo(read, line, Len(OptionsOf(line))) /\ read.kind = Len(rules) /\ Unresolved(read)
<1> DEFINE ops == OptionsOf(line)
           n == Len(ops)
<1>1. /\ pass = "lines" /\ option > 0 /\ option > Len(Options)
  BY DEF AtEndOfLine
<1>2. /\ line \in 1..Len(file) /\ file[line].is = "rule" /\ file \in Files
      /\ option \in 1..(n + 1)
      /\ \A o \in 0..(option - 1) : o \notin Mistakes(line)
      /\ given = { ops[p].word : p \in 1..(option - 1) }
      /\ fragment \in Nat /\ (fragment > 0 <=> GivenTo(line, option - 1, {"fragment"}) # {})
      /\ SaidTo(read, line, option - 1) /\ read.kind = Len(rules) /\ Unresolved(read)
  BY <1>1 DEF ParseSaid, Place, LineSaid
<1>3. Options = ops /\ Line = file[line]
  BY DEF Options, OptionsOf, Line
<1>4. n \in Nat /\ option - 1 = n /\ option \in Nat
  <2>1. n \in Nat
    BY <1>2, OptionsTyped
  <2>2. option \in 1..(n + 1) /\ option > n
    BY <1>1, <1>2, <1>3
  <2> HIDE DEF n
  <2> QED BY <2>1, <2>2
<1>5. /\ Mistakes(line) \subseteq 0..(n + 1)
      /\ \A o \in 1..n : o \in Mistakes(line) <=> OptionWrong(line, o)
      /\ n + 1 \in Mistakes(line) <=> FragmentWrong(line)
  BY <1>2, RuleMistakes
<1>6. Mistakes(line) \subseteq {n + 1}
  <2> SUFFICES ASSUME NEW o \in Mistakes(line) PROVE o = n + 1
    OBVIOUS
  <2>1. o \in 0..(n + 1) /\ o \notin 0..n
    BY <1>2, <1>4, <1>5
  <2> HIDE DEF n
  <2> QED BY <1>4, <2>1
<1>7. fragment > 0 <=> line \in FragmentLines
  BY <1>2, <1>4, LineSorts
<1>8. Cardinality(given) = 1 <=> n = 1
  <2> DEFINE ws == [p \in 1..n |-> ops[p].word]
  <2>1. \A p, q \in 1..n : p < q => ws[p] # ws[q]
    <3> SUFFICES ASSUME NEW p \in 1..n, NEW q \in 1..n, p < q PROVE ops[p].word # ops[q].word
      OBVIOUS
    <3>1. q \in 0..n /\ p \in 1..(q - 1)
      BY <1>4
    <3>2. ~OptionWrong(line, q)
      BY <1>2, <1>4, <1>5, <3>1
    <3>3. SortOf(ops[p].word) # SortOf(ops[q].word)
      BY <3>1, <3>2 DEF OptionWrong
    <3> QED BY <3>3
  <2>2. given = { ws[p] : p \in 1..n }
    BY <1>2, <1>4
  <2> HIDE DEF ws, n
  <2>3. n \in Nat
    BY <1>4
  <2>4. Cardinality({ ws[p] : p \in 1..n }) = 1 <=> n = 1
    BY <2>1, <2>3, OneWord
  <2> QED BY <2>2, <2>4
<1>9. (\E i \in DOMAIN fragments : fragments[i].name = Line.name)
       <=> \E k \in FragmentLines : k < line /\ file[k].name = file[line].name
  <2> DEFINE A == Ascending(FragmentLines, 1, line - 1)
  <2>1. line \in Nat /\ line >= 1 /\ FragmentLines \subseteq 1..Len(file) /\ Len(file) \in Nat
    BY <1>2, FileTyped DEF FragmentLines
  <2>2. /\ \A i \in 1..Len(A) : A[i] \in FragmentLines /\ A[i] \in 1..(line - 1)
        /\ \A k \in 1..(line - 1) : k \in FragmentLines => \E i \in 1..Len(A) : A[i] = k
    <3>1. 1 \in Int /\ line - 1 \in Int /\ line - 1 >= 1 - 1
      BY <2>1
    <3> DEFINE S == FragmentLines
               high == line - 1
    <3> HIDE DEF S, high
    <3>2. /\ \A i \in 1..Len(Ascending(S, 1, high)) : Ascending(S, 1, high)[i] \in S /\ Ascending(S, 1, high)[i] \in 1..high
          /\ \A k \in 1..high : k \in S => \E i \in 1..Len(Ascending(S, 1, high)) : Ascending(S, 1, high)[i] = k
      BY <3>1, AscendingMembers DEF high
    <3> QED BY <3>2 DEF S, high
  <2>3. /\ DOMAIN fragments = 1..Len(fragments) /\ Len(fragments) = Len(A)
        /\ \A i \in 1..Len(A) : fragments[i].name = file[A[i]].name
    BY SequenceTyped DEF ParseSaid, FragmentsSaid, FragmentsTo
  <2>4. \A k \in FragmentLines : k < line => k \in 1..(line - 1)
    BY <2>1
  <2>5. \A k \in 1..(line - 1) : k < line
    BY <2>1
  <2> HIDE DEF A
  <2> QED BY <1>3, <2>2, <2>3, <2>4, <2>5
<1> QED BY <1>1, <1>2, <1>3, <1>4, <1>5, <1>6, <1>7, <1>8, <1>9

LEMMA BadFragmentRefused ==
    ASSUME ParseSaid, BadFragment
    PROVE  RefusedSaid'
<1> DEFINE n == Len(OptionsOf(line))
           place == IF Cardinality(given) # 1 THEN fragment ELSE 0
<1>1. AtEndOfLine /\ fragment > 0 /\ Refuse(line, place)
      /\ (Cardinality(given) # 1 \/ \E i \in DOMAIN fragments : fragments[i].name = Line.name)
  BY DEF BadFragment
<1>2. /\ line \in 1..Len(file) /\ n \in Nat /\ line \in FragmentLines
      /\ Mistakes(line) \subseteq {n + 1} /\ (n + 1 \in Mistakes(line) <=> FragmentWrong(line))
      /\ Cardinality(given) = 1 <=> n = 1
      /\ (\E i \in DOMAIN fragments : fragments[i].name = Line.name)
            <=> \E k \in FragmentLines : k < line /\ file[k].name = file[line].name
      /\ file \in Files /\ file[line].is = "rule"
  BY <1>1, EndOfOptions
<1>3. n # 0
  <2>1. GivenTo(line, n, {"fragment"}) # {}
    BY <1>2, LineSorts
  <2> HIDE DEF n
  <2>2. 1..0 = {}
    OBVIOUS
  <2> QED BY <2>1, <2>2 DEF GivenTo
<1>4. FragmentWrong(line)
  <2>1. n # 1 => n > 1
    <3> HIDE DEF n
    <3> QED BY <1>2, <1>3
  <2> QED BY <1>1, <1>2, <2>1 DEF FragmentWrong
<1>5. Mistakes(line) = {n + 1}
  BY <1>2, <1>4
<1>6. Min(Mistakes(line)) = n + 1 /\ n + 1 > n
  <2> HIDE DEF n
  <2>1. {n + 1} \in SUBSET Nat /\ n + 1 \in {n + 1} /\ \A y \in {n + 1} : n + 1 <= y
    BY <1>2
  <2>2. Min({n + 1}) = n + 1
    BY <2>1, MinIs
  <2> QED BY <1>2, <1>5, <2>2
<1>7. Mistakes(line) # {} /\ Min(Mistakes(line)) > Len(OptionsOf(line))
  BY <1>5, <1>6
<1> HIDE DEF place
<1> QED BY <1>1, <1>2, <1>7, RefusedAtLine

LEMMA FragmentKeeps ==
    ASSUME ParseSaid, Fragment
    PROVE  ParseSaid'
<1> DEFINE n == Len(OptionsOf(line))
<1>1. /\ AtEndOfLine /\ fragment > 0 /\ Cardinality(given) = 1
      /\ \A i \in DOMAIN fragments : fragments[i].name # Line.name
      /\ fragments' = Append(fragments, [name |-> Line.name, pattern |-> read.pattern])
      /\ line' = line + 1 /\ option' = 0
      /\ UNCHANGED <<file, rules, names, transitions, predicates, continuations, directives, insignificant, pass>>
  BY DEF Fragment
<1>2. /\ pass = "lines" /\ line \in 1..Len(file) /\ file[line].is = "rule" /\ file \in Files /\ Line = file[line]
      /\ n \in Nat /\ option > 0 /\ option - 1 = n
      /\ Mistakes(line) \subseteq {n + 1} /\ (n + 1 \in Mistakes(line) <=> FragmentWrong(line))
      /\ line \in FragmentLines /\ n = 1
      /\ ~\E k \in FragmentLines : k < line /\ file[k].name = file[line].name
      /\ SaidTo(read, line, n)
  BY <1>1, EndOfOptions
<1>3. Mistakes(line) = {}
  <2>1. ~(n > 1)
    BY <1>2
  <2>2. ~FragmentWrong(line)
    BY <1>2, <2>1 DEF FragmentWrong
  <2> QED BY <1>2, <2>2
<1>4. OptionsOf(line)[1].word = "fragment" /\ \A words : "fragment" \notin words => GivenTo(line, n, words) = {}
  <2>1. GivenTo(line, n, {"fragment"}) # {}
    BY <1>2, LineSorts
  <2>2. 1..1 = {1}
    OBVIOUS
  <2> QED BY <1>2, <2>1, <2>2 DEF GivenTo
<1>5. /\ line \notin RuleSet /\ line \notin LinesGiving({"push=", "set="}) /\ line \notin LinesGiving({"continue="})
      /\ line \notin LinesGiving(Predicates)
  <2>1. "fragment" \notin {"push=", "set="} /\ "fragment" \notin {"continue="} /\ "fragment" \notin Predicates
    BY DEF Predicates
  <2>2. GivenTo(line, n, {"push=", "set="}) = {} /\ GivenTo(line, n, {"continue="}) = {} /\ GivenTo(line, n, Predicates) = {}
    BY <1>4, <2>1
  <2> QED BY <1>2, <2>2, LineSorts
<1>6. Noted = line - 1
  <2>1. GivenTo(line, option - 1, Predicates) = {}
    BY <1>2, <1>4 DEF Predicates
  <2> QED BY <2>1 DEF Noted
<1>7. line \in Nat /\ line >= 1
  BY <1>2, FileTyped
<1>8. RulesTo(rules', names', line)
  BY <1>1, <1>5, <1>7, RulesKept DEF ParseSaid
<1>9. FragmentsSaid(fragments', line)
  <2> DEFINE made == [name |-> Line.name, pattern |-> read.pattern]
  <2>1. made.name = file[line].name /\ made.pattern = file[line].pattern
    BY <1>2 DEF SaidTo
  <2> HIDE DEF made
  <2>2. FragmentsSaid(fragments, line - 1)
    BY DEF ParseSaid
  <2>3. FragmentsSaid(Append(fragments, made), line)
    BY <1>2, <1>7, <2>1, <2>2, FragmentsAdded
  <2> QED BY <1>1, <2>3 DEF made
<1>10. DirectivesTo(directives', line)
  BY <1>1, <1>2, DirectivesKept DEF ParseSaid
<1>11. SitedTo(transitions', {"push=", "set="}, line) /\ SitedTo(continuations', {"continue="}, line)
  <2>1. SitedTo(transitions, {"push=", "set="}, line - 1) /\ SitedTo(continuations, {"continue="}, line - 1)
    BY DEF ParseSaid, SitesSaid
  <2>2. SitedTo(transitions, {"push=", "set="}, line)
    BY <1>5, <1>7, <2>1, SitedKept
  <2>3. SitedTo(continuations, {"continue="}, line)
    BY <1>5, <1>7, <2>1, SitedKept
  <2> QED BY <1>1, <2>2, <2>3
<1>12. SitedTo(predicates', Predicates, line)
  <2>1. SitedTo(predicates, Predicates, line - 1)
    BY <1>6 DEF ParseSaid, SitesSaid
  <2> DEFINE P == Predicates
  <2> HIDE DEF P
  <2>2. SitedTo(predicates, P, line)
    BY <1>5, <1>7, <2>1, SitedKept DEF P
  <2> QED BY <1>1, <2>2 DEF P
<1>13. \A l : ReadTo(l) = Len(OptionsOf(l))
  BY <1>2 DEF ReadTo
<1>14. \A i \in 1..Len(continuations') :
          LET l == continuations'[i].line
          IN  continuations'[i].name = NamesTo(l, Len(OptionsOf(l)), {"continue="})[1]
  BY <1>1 DEF ParseSaid, SitesSaid
<1>15. \A i \in 1..Len(predicates') :
          LET l == predicates'[i].line
          IN  /\ predicates'[i].names = NamesTo(l, Len(OptionsOf(l)), Predicates)
              /\ predicates'[i].after = (GivenTo(l, Len(OptionsOf(l)), {"after="}) # {})
  BY <1>1, <1>13 DEF ParseSaid, SitesSaid
<1>16. \A r \in 1..Len(rules') : Unresolved(rules'[r])
  BY <1>1, <1>2, PassesInLines DEF ParseSaid
<1> QED BY <1>1, <1>2, <1>3, <1>8, <1>9, <1>10, <1>11, <1>12, <1>14, <1>15, <1>16, NextLine

LEMMA EndLineKeeps ==
    ASSUME ParseSaid, EndLine
    PROVE  ParseSaid'
<1> DEFINE n == Len(OptionsOf(line))
           noted == [name |-> continuation.name, rule |-> Len(rules) + 1, line |-> line, at |-> continuation.at]
<1>1. /\ AtEndOfLine /\ fragment = 0
      /\ transitions' = IF transition > 0 THEN Append(transitions, Site(transition)) ELSE transitions
      /\ continuations' = IF continuation # NoName THEN Append(continuations, noted) ELSE continuations
      /\ rules' = Append(rules, read) /\ names' = Append(names, Line.name)
      /\ line' = line + 1 /\ option' = 0
      /\ UNCHANGED <<file, predicates, fragments, directives, insignificant, pass>>
  BY DEF EndLine
<1>2. /\ pass = "lines" /\ line \in 1..Len(file) /\ file[line].is = "rule" /\ file \in Files /\ Line = file[line]
      /\ n \in Nat /\ option > 0 /\ option - 1 = n
      /\ Mistakes(line) \subseteq {n + 1} /\ (n + 1 \in Mistakes(line) <=> FragmentWrong(line))
      /\ line \notin FragmentLines
      /\ SaidTo(read, line, n) /\ read.kind = Len(rules) /\ Unresolved(read)
  BY <1>1, EndOfOptions
<1>3. Mistakes(line) = {}
  BY <1>2 DEF FragmentWrong
<1>4. line \in RuleSet /\ line \in Nat /\ line >= 1
  BY <1>2, LineSorts, FileTyped
<1>5. /\ continuation = NoName <=> GivenTo(line, n, {"continue="}) = {}
      /\ continuation # NoName => continuation.name = NamesTo(line, n, {"continue="})[1]
      /\ transition \in Nat /\ (transition > 0 <=> GivenTo(line, n, {"push=", "set="}) # {})
  BY <1>2 DEF ParseSaid, LineSaid
<1>6. \A words : line \in LinesGiving(words) <=> GivenTo(line, n, words) # {}
  BY <1>2, LineSorts
<1>7. Len(rules) + 1 = NumberOf(line) /\ IsSequence(rules)
  BY DEF NumberOf, ParseSaid, RulesTo
<1>8. RulesTo(rules', names', line)
  <2>1. RulesTo(rules, names, line - 1)
    BY DEF ParseSaid
  <2>2. RulesTo(Append(rules, read), Append(names, file[line].name), line)
    BY <1>2, <1>4, <2>1, RulesAdded
  <2> QED BY <1>1, <1>2, <2>2
<1>9. FragmentsSaid(fragments', line)
  BY <1>1, <1>2, <1>4, FragmentsKept DEF ParseSaid
<1>10. DirectivesTo(directives', line)
  BY <1>1, <1>2, DirectivesKept DEF ParseSaid
<1>11. SitedTo(transitions', {"push=", "set="}, line)
  <2>1. SitedTo(transitions, {"push=", "set="}, line - 1)
    BY DEF ParseSaid, SitesSaid
  <2>2. CASE transition > 0
    <3> DEFINE site == Site(transition)
    <3>1. site.line = line /\ site.rule = NumberOf(line)
      BY <1>7 DEF Site
    <3>2. line \in LinesGiving({"push=", "set="})
      BY <1>5, <1>6, <2>2
    <3> HIDE DEF site
    <3>3. SitedTo(Append(transitions, site), {"push=", "set="}, line)
      BY <1>4, <2>1, <3>1, <3>2, SitedAdded
    <3> QED BY <1>1, <2>2, <3>3 DEF site
  <2>3. CASE ~(transition > 0)
    <3>1. line \notin LinesGiving({"push=", "set="})
      BY <1>5, <1>6, <2>3
    <3>2. SitedTo(transitions, {"push=", "set="}, line)
      BY <1>4, <2>1, <3>1, SitedKept
    <3> QED BY <1>1, <2>3, <3>2
  <2> QED BY <2>2, <2>3
<1>12. SitedTo(continuations, {"continue="}, line - 1) /\ IsSequence(continuations) /\ Len(continuations) \in Nat
       /\ \A i \in 1..Len(continuations) :
             LET l == continuations[i].line
             IN  continuations[i].name = NamesTo(l, Len(OptionsOf(l)), {"continue="})[1]
  BY SequenceTyped DEF ParseSaid, SitesSaid, SitedTo
<1>13. /\ SitedTo(continuations', {"continue="}, line)
       /\ \A i \in 1..Len(continuations') :
             LET l == continuations'[i].line
             IN  continuations'[i].name = NamesTo(l, Len(OptionsOf(l)), {"continue="})[1]
  <2>2. CASE continuation # NoName
    <3>1. noted.line = line /\ noted.rule = NumberOf(line) /\ noted.name = NamesTo(line, n, {"continue="})[1]
      BY <1>5, <1>7, <2>2
    <3>2. line \in LinesGiving({"continue="})
      BY <1>5, <1>6, <2>2
    <3> HIDE DEF noted
    <3> DEFINE more == Append(continuations, noted)
    <3>3. SitedTo(more, {"continue="}, line)
      BY <1>4, <1>12, <3>1, <3>2, SitedAdded
    <3>4. /\ Len(more) = Len(continuations) + 1 /\ more[Len(continuations) + 1] = noted
          /\ \A i \in 1..Len(continuations) : more[i] = continuations[i]
      BY <1>12, SequenceAppended
    <3>5. continuations' = more
      BY <1>1, <2>2
    <3> HIDE DEF more
    <3>6. ASSUME NEW i \in 1..Len(more)
          PROVE  LET l == more[i].line IN more[i].name = NamesTo(l, Len(OptionsOf(l)), {"continue="})[1]
      <4>1. CASE i \in 1..Len(continuations)
        BY <1>12, <3>4, <4>1
      <4>2. CASE i = Len(continuations) + 1
        BY <3>1, <3>4, <4>2
      <4>3. i \in 1..Len(continuations) \/ i = Len(continuations) + 1
        BY <1>12, <3>4
      <4> QED BY <4>1, <4>2, <4>3
    <3> QED BY <3>3, <3>5, <3>6
  <2>3. CASE continuation = NoName
    <3>1. line \notin LinesGiving({"continue="})
      BY <1>5, <1>6, <2>3
    <3>2. SitedTo(continuations, {"continue="}, line)
      BY <1>4, <1>12, <3>1, SitedKept
    <3> QED BY <1>1, <1>12, <2>3, <3>2
  <2> QED BY <2>2, <2>3
<1>14. SitedTo(predicates', Predicates, line)
  <2>1. SitedTo(predicates, Predicates, Noted)
    BY DEF ParseSaid, SitesSaid
  <2>2. CASE GivenTo(line, n, Predicates) # {}
    BY <1>1, <1>2, <2>1, <2>2 DEF Noted
  <2>3. CASE GivenTo(line, n, Predicates) = {}
    <3> DEFINE P == Predicates
    <3>1. SitedTo(predicates, P, line - 1)
      BY <1>2, <2>1, <2>3 DEF Noted
    <3>2. line \notin LinesGiving(P)
      BY <1>6, <2>3
    <3> HIDE DEF P
    <3>3. SitedTo(predicates, P, line)
      BY <1>4, <3>1, <3>2, SitedKept
    <3> QED BY <1>1, <3>3 DEF P
  <2> QED BY <2>2, <2>3
<1>15. \A i \in 1..Len(predicates') :
          LET l == predicates'[i].line
          IN  /\ predicates'[i].names = NamesTo(l, Len(OptionsOf(l)), Predicates)
              /\ predicates'[i].after = (GivenTo(l, Len(OptionsOf(l)), {"after="}) # {})
  <2>1. \A l : ReadTo(l) = Len(OptionsOf(l))
    BY <1>2 DEF ReadTo
  <2> QED BY <1>1, <2>1 DEF ParseSaid, SitesSaid
<1>16. \A r \in 1..Len(rules') : Unresolved(rules'[r])
  <2> DEFINE more == Append(rules, read)
  <2>1. /\ Len(more) = Len(rules) + 1 /\ more[Len(rules) + 1] = read /\ Len(rules) \in Nat
        /\ \A i \in 1..Len(rules) : more[i] = rules[i]
    BY <1>7, SequenceAppended, SequenceTyped
  <2>2. \A r \in 1..Len(rules) : Unresolved(rules[r])
    BY <1>2, PassesInLines DEF ParseSaid
  <2> HIDE DEF more
  <2>3. \A r \in 1..Len(more) : Unresolved(more[r])
    <3> SUFFICES ASSUME NEW r \in 1..Len(more) PROVE Unresolved(more[r])
      OBVIOUS
    <3>1. r \in 1..Len(rules) \/ r = Len(rules) + 1
      BY <2>1
    <3>2. more[r] = IF r \in 1..Len(rules) THEN rules[r] ELSE read
      BY <2>1, <3>1
    <3> QED BY <1>2, <2>2, <3>2
  <2> QED BY <1>1, <2>3 DEF more
<1> QED BY <1>1, <1>2, <1>3, <1>8, <1>9, <1>10, <1>11, <1>13, <1>14, <1>15, <1>16, NextLine

-----------------------------------------------------------------------------
(* The lines read, the names they give *)

LEMMA GivenMeans ==
    ASSUME file \in Files, NEW l \in 1..Len(file), file[l].is = "rule"
    PROVE  /\ \A w : Gives(l, w) <=> GivenTo(l, Len(OptionsOf(l)), {w}) # {}
           /\ \A words : NamesGiven(l, words) = NamesTo(l, Len(OptionsOf(l)), words)
<1>1. DOMAIN OptionsOf(l) = 1..Len(OptionsOf(l))
  BY OptionsTyped
<1>2. \A words : GivenTo(l, Len(OptionsOf(l)), words) = { o \in DOMAIN OptionsOf(l) : OptionsOf(l)[o].word \in words }
  BY <1>1 DEF GivenTo
<1>3. \A w : Gives(l, w) <=> GivenTo(l, Len(OptionsOf(l)), {w}) # {}
  BY <1>1 DEF Gives, GivenTo
<1>4. \A words : NamesGiven(l, words) = NamesTo(l, Len(OptionsOf(l)), words)
  BY <1>2 DEF NamesGiven, NamesTo
<1> QED BY <1>3, <1>4

\* In a line without a mistake, an option of some words is one of its options, and its names are theirs.
LEMMA NamesWithin ==
    ASSUME file \in Files, NEW l \in 1..Len(file), file[l].is = "rule", NEW words,
           GivenTo(l, Len(OptionsOf(l)), words) # {}
    PROVE  \E o \in 1..Len(OptionsOf(l)) :
               OptionsOf(l)[o].word \in words /\ NamesTo(l, Len(OptionsOf(l)), words) = OptionsOf(l)[o].names
<1> DEFINE G == GivenTo(l, Len(OptionsOf(l)), words)
<1>1. G \in SUBSET Nat
  BY DEF GivenTo
<1>2. Min(G) \in G
  <2>1. G # {}
    OBVIOUS
  <2> HIDE DEF G
  <2> QED BY <1>1, <2>1, MinOfNaturals
<1>3. NamesTo(l, Len(OptionsOf(l)), words) = OptionsOf(l)[Min(G)].names
  BY DEF NamesTo
<1>4. Min(G) \in 1..Len(OptionsOf(l)) /\ OptionsOf(l)[Min(G)].word \in words
  BY <1>2 DEF GivenTo
<1> HIDE DEF G
<1> QED BY <1>3, <1>4

\* What all the lines say once they are read.
LEMMA AfterLines ==
    ASSUME ParseSaid, line = Len(file) + 1, option = 0
    PROVE  /\ file \in Files /\ Len(file) \in Nat /\ Mistaken = {} /\ \A l \in 1..Len(file) : Mistakes(l) = {}
           /\ RuleLines = RuleLinesTo(line - 1) /\ line - 1 = Len(file)
           /\ Len(rules) \in Nat /\ DOMAIN rules = 1..Len(rules) /\ Len(rules) = Len(RuleLines)
           /\ DOMAIN RuleLines = 1..Len(rules)
           /\ Len(names) = Len(rules) /\ DOMAIN names = 1..Len(rules)
           /\ \A r \in 1..Len(rules) :
                 LET l == RuleLines[r]
                 IN  /\ l \in 1..Len(file) /\ file[l].is = "rule" /\ l \in RuleSet /\ NumberOf(l) = r
                     /\ SaidTo(rules[r], l, Len(OptionsOf(l))) /\ rules[r].kind = r - 1 /\ names[r] = file[l].name
           /\ \A l \in RuleSet : l \in 1..Len(file) /\ file[l].is = "rule" /\ NumberOf(l) \in 1..Len(rules) /\ RuleLines[NumberOf(l)] = l
           /\ ToSet(RuleLines) = RuleSet
<1>1. file \in Files /\ \A l \in 1..(line - 1) : Mistakes(l) = {}
  BY DEF ParseSaid, Place
<1>2. Len(file) \in Nat /\ DOMAIN file = 1..Len(file) /\ line - 1 = Len(file)
  BY <1>1, FileTyped
<1>3. Mistaken = {}
  BY <1>1, <1>2 DEF Mistaken
<1>4. RuleLines = RuleLinesTo(line - 1)
  BY <1>1, <1>2, RuleLinesSteps
<1>5. /\ IsSequence(rules) /\ IsSequence(names)
      /\ Len(rules) = Len(RuleLines) /\ Len(names) = Len(rules)
      /\ \A r \in 1..Len(rules) :
            LET l == RuleLines[r]
            IN  SaidTo(rules[r], l, Len(OptionsOf(l))) /\ rules[r].kind = r - 1 /\ names[r] = file[l].name
  BY <1>4 DEF ParseSaid, RulesTo
<1>6. Len(rules) \in Nat /\ DOMAIN rules = 1..Len(rules) /\ DOMAIN names = 1..Len(rules)
  BY <1>5, SequenceTyped
<1>7. /\ \A l \in RuleSet : NumberOf(l) \in 1..Len(RuleLines) /\ RuleLines[NumberOf(l)] = l
      /\ \A r \in 1..Len(RuleLines) : RuleLines[r] \in RuleSet /\ NumberOf(RuleLines[r]) = r
      /\ ToSet(RuleLines) = RuleSet
  BY <1>1, NumberOfRule
<1>8. \A l \in RuleSet : l \in 1..Len(file) /\ file[l].is = "rule"
  BY <1>2 DEF RuleSet
<1>9. DOMAIN RuleLines = 1..Len(rules)
  <2>1. IsSequence(RuleLines)
    <3>1. Len(file) \in 0..Len(file)
      BY <1>2
    <3> QED BY <1>1, <3>1, RuleLinesSteps
  <2> QED BY <1>5, <2>1, SequenceTyped
<1> QED BY <1>1, <1>2, <1>3, <1>4, <1>5, <1>6, <1>7, <1>8, <1>9

\* A line that gives anything but a fragment is a rule.
LEMMA GivingAreRules ==
    ASSUME file \in Files, \A l \in 1..Len(file) : Mistakes(l) = {}, NEW words, "fragment" \notin words
    PROVE  LinesGiving(words) \subseteq RuleSet
<1> SUFFICES ASSUME NEW l \in LinesGiving(words) PROVE l \in RuleSet
  OBVIOUS
<1> DEFINE n == Len(OptionsOf(l))
<1>1. l \in 1..Len(file) /\ file[l].is = "rule" /\ GivenTo(l, n, words) # {}
  BY FileTyped DEF LinesGiving
<1>2. n \in Nat
  BY <1>1, OptionsTyped
<1>3. ~FragmentWrong(l)
  BY <1>1, RuleMistakes
<1>4. ASSUME l \in FragmentLines PROVE FALSE
  <2>1. ~(n > 1)
    BY <1>3, <1>4 DEF FragmentWrong
  <2>2. GivenTo(l, n, {"fragment"}) # {}
    BY <1>1, <1>4, LineSorts
  <2> HIDE DEF n
  <2>3. \A o, p \in 1..n : o = p
    BY <1>2, <2>1
  <2> QED BY <1>1, <2>2, <2>3 DEF GivenTo
<1> QED BY <1>1, <1>4, LineSorts

\* The modes the rules are active in are those their lines populate.
LEMMA ActiveIsPopulated ==
    ASSUME ParseSaid, line = Len(file) + 1, option = 0
    PROVE  \A m : ActiveIn(m) <=> Populated(m)
<1> SUFFICES ASSUME NEW m PROVE ActiveIn(m) <=> Populated(m)
  OBVIOUS
<1>1. DOMAIN rules = 1..Len(rules) /\ DOMAIN RuleLines = 1..Len(rules)
  BY AfterLines
<1>2. \A r \in 1..Len(rules) : rules[r].modes = NamesGiven(RuleLines[r], {"in="})
  <2> SUFFICES ASSUME NEW r \in 1..Len(rules) PROVE rules[r].modes = NamesGiven(RuleLines[r], {"in="})
    OBVIOUS
  <2> DEFINE l == RuleLines[r]
  <2>1. l \in 1..Len(file) /\ file[l].is = "rule" /\ SaidTo(rules[r], l, Len(OptionsOf(l))) /\ file \in Files
    BY AfterLines
  <2>2. NamesGiven(l, {"in="}) = NamesTo(l, Len(OptionsOf(l)), {"in="})
    BY <2>1, GivenMeans
  <2> QED BY <2>1, <2>2 DEF SaidTo
<1>3. ActiveIn(m) <=> \E r \in 1..Len(rules) : m \in (IF NamesGiven(RuleLines[r], {"in="}) = <<>> THEN {Default}
                                                      ELSE ToSet(NamesGiven(RuleLines[r], {"in="})))
  BY <1>1, <1>2 DEF ActiveIn
<1>4. Populated(m) <=> \E r \in 1..Len(rules) : LET ms == NamesGiven(RuleLines[r], {"in="})
                                                IN  IF ms = <<>> THEN m = Default ELSE m \in ToSet(ms)
  BY <1>1 DEF Populated
<1> QED BY <1>3, <1>4

-----------------------------------------------------------------------------
(* The passes over the names *)

LEMMA NoRulesRefused ==
    ASSUME ParseSaid, NoRules
    PROVE  RefusedSaid'
<1>1. line > Len(file) /\ rules = <<>> /\ Refuse(0, 0)
  BY DEF NoRules
<1>2. line = Len(file) + 1 /\ option = 0
  <2>1. file \in Files /\ line \in 1..(Len(file) + 1) /\ option \in Nat /\ (option > 0 => line \in 1..Len(file))
    BY DEF ParseSaid, Place, LineSaid
  <2>2. Len(file) \in Nat
    BY <2>1, FileTyped
  <2> QED BY <1>1, <2>1, <2>2
<1>3. Mistaken = {} /\ Len(RuleLines) = 0 /\ file \in Files /\ Len(file) \in Nat
  BY <1>1, <1>2, AfterLines
<1>4. RuleLines = <<>>
  <2>1. IsSequence(RuleLines)
    <3>1. Len(file) \in 0..Len(file)
      BY <1>3
    <3> QED BY <1>3, <3>1, RuleLinesSteps
  <2> QED BY <1>3, <2>1, SequenceTyped
<1>5. file' = file /\ refusal'.line = 0
  BY <1>1 DEF Refuse
<1>6. Mistaken' = Mistaken /\ RuleLines' = RuleLines
  BY <1>5, FileKept
<1> QED BY <1>3, <1>4, <1>5, <1>6 DEF RefusedSaid

\* A pass that is done leaves all that is said, but for what it resolves.
LEMMA PassKeeps ==
    ASSUME ParseSaid, line = Len(file) + 1, option = 0, UNCHANGED <<file, line, lineVars, names, siteVars>>,
           RulesTo(rules', names, line - 1), PassesSaid'
    PROVE  ParseSaid'
<1>0. /\ file' = file /\ line' = line /\ option' = option /\ names' = names
      /\ UNCHANGED <<transitions, predicates, fragments, continuations, directives>>
  BY DEF lineVars, siteVars
<1>1. Place'
  <2>1. \A l : Mistakes(l)' = Mistakes(l)
    BY <1>0, FileKept
  <2>2. /\ file \in Files /\ line \in 1..(Len(file) + 1) /\ option \in Nat
        /\ \A l \in 1..(line - 1) : Mistakes(l) = {}
    BY DEF ParseSaid, Place
  <2> QED BY <1>0, <2>1, <2>2 DEF Place
<1>2. LineSaid'
  <2>1. ~(option' > 0)
    BY <1>0
  <2> QED BY <2>1 DEF LineSaid
<1>3. RulesTo(rules, names, line - 1)'
  <2>1. RulesTo(rules', names', line' - 1)
    BY <1>0
  <2>2. \A said, named, k : RulesTo(said, named, k)' = RulesTo(said, named, k)
    BY <1>0, FileKept
  <2> QED BY <2>1, <2>2
<1>4. FragmentsSaid(fragments, line - 1)' /\ DirectivesTo(directives, line - 1)'
  <2>1. FragmentsSaid(fragments', line' - 1) /\ DirectivesTo(directives', line' - 1)
    BY <1>0 DEF ParseSaid
  <2>2. \A sites, k : FragmentsSaid(sites, k)' = FragmentsSaid(sites, k) /\ DirectivesTo(sites, k)' = DirectivesTo(sites, k)
    BY <1>0, FileKept
  <2> QED BY <2>1, <2>2
<1>5. SitesSaid'
  <2>1. \A sites, words, k : SitedTo(sites, words, k)' = SitedTo(sites, words, k)
    BY <1>0, FileKept
  <2>2. \A l, o, words : GivenTo(l, o, words)' = GivenTo(l, o, words) /\ NamesTo(l, o, words)' = NamesTo(l, o, words)
    BY <1>0, FileKept
  <2>3. \A l : OptionsOf(l)' = OptionsOf(l)
    BY <1>0, FileKept
  <2>4. \A l : ReadTo(l)' = Len(OptionsOf(l))
    BY <1>0, <2>3 DEF ReadTo
  <2>5. Noted' = line - 1
    BY <1>0 DEF Noted
  <2>6. SitedTo(transitions, {"push=", "set="}, line - 1)' /\ SitedTo(continuations, {"continue="}, line - 1)'
    <3>1. SitedTo(transitions', {"push=", "set="}, line' - 1) /\ SitedTo(continuations', {"continue="}, line' - 1)
      BY <1>0 DEF ParseSaid, SitesSaid
    <3> QED BY <2>1, <3>1
  <2>7. SitedTo(predicates, Predicates, Noted)'
    <3>1. SitedTo(predicates', Predicates, Noted')
      BY <1>0, <2>5, SitesBetween
    <3>2. Predicates' = Predicates
      BY DEF Predicates
    <3> QED BY <2>1, <3>1, <3>2
  <2>8. (\A i \in 1..Len(continuations) :
            LET l == continuations[i].line
            IN  continuations[i].name = NamesTo(l, Len(OptionsOf(l)), {"continue="})[1])'
    BY <1>0, <2>2, <2>3, SitesBetween
  <2>9. (\A i \in 1..Len(predicates) :
            LET l == predicates[i].line
            IN  /\ predicates[i].names = NamesTo(l, ReadTo(l), Predicates)
                /\ predicates[i].after = (GivenTo(l, ReadTo(l), {"after="}) # {}))'
    <3>1. Predicates' = Predicates
      BY DEF Predicates
    <3>2. \A i \in 1..Len(predicates) :
             LET l == predicates[i].line
             IN  /\ predicates[i].names = NamesTo(l, Len(OptionsOf(l)), Predicates)
                 /\ predicates[i].after = (GivenTo(l, Len(OptionsOf(l)), {"after="}) # {})
      BY SitesBetween
    <3> QED BY <1>0, <2>2, <2>4, <3>1, <3>2
  <2> QED BY <2>6, <2>7, <2>8, <2>9 DEF SitesSaid
<1> QED BY <1>1, <1>2, <1>3, <1>4, <1>5 DEF ParseSaid

LEMMA EndOfLinesKeeps ==
    ASSUME ParseSaid, EndOfLines
    PROVE  ParseSaid'
<1>1. /\ line > Len(file) /\ pass = "lines" /\ pass' = "targets"
      /\ UNCHANGED <<file, line, lineVars, rules, names, siteVars, insignificant>>
  BY DEF EndOfLines
<1>2. line = Len(file) + 1 /\ option = 0
  <2>1. file \in Files /\ line \in 1..(Len(file) + 1) /\ option \in Nat /\ (option > 0 => line \in 1..Len(file))
    BY DEF ParseSaid, Place, LineSaid
  <2>2. Len(file) \in Nat
    BY <2>1, FileTyped
  <2> QED BY <1>1, <2>1, <2>2
<1>3. PassesSaid'
  <2>1. insignificant' = <<>> /\ \A r \in 1..Len(rules') : Unresolved(rules'[r])
    BY <1>1, PassesInLines DEF ParseSaid
  <2>2. pass' = "targets"
    BY <1>1
  <2>3. \A p \in 1..4 : ~Beyond(p)'
    BY <2>2 DEF Beyond
  <2>4. ~Beyond(2)' /\ ~Beyond(3)' /\ ~Beyond(4)'
    BY <2>3
  <2> QED BY <2>1, <2>2, <2>3, <2>4 DEF PassesSaid, Unresolved
<1>4. RulesTo(rules', names, line - 1)
  BY <1>1 DEF ParseSaid
<1> QED BY <1>1, <1>2, <1>3, <1>4, PassKeeps

\* A pass that refuses does so at the first name that stands for nothing.
LEMMA RefusedInPass ==
    ASSUME ParseSaid, line = Len(file) + 1, option = 0, NEW p \in 1..4, \A q \in 1..(p - 1) : Dangling[q] = {},
           NEW name, NEW sites, NEW bad, DOMAIN sites = 1..Len(sites), Len(sites) \in Nat, Pass(name, sites, bad),
           Dangling[p] = {} => \A i \in 1..Len(sites) : sites[i] \notin bad,
           \A i \in 1..Len(sites) :
               sites[i] \in bad /\ (\A j \in 1..(i - 1) : sites[j] \notin bad) => sites[i].line = Min(Dangling[p])
    PROVE  RefusedSaid'
<1>1. PICK i \in 1..Len(sites) : /\ sites[i] \in bad /\ \A j \in 1..(i - 1) : sites[j] \notin bad
                                 /\ Refuse(sites[i].line, sites[i].at)
  BY DEF Pass
<1>2. refusal'.line = sites[i].line /\ file' = file
  BY <1>1 DEF Refuse
<1>3. Dangling[p] # {} /\ refusal'.line = Min(Dangling[p])
  BY <1>1, <1>2
<1>4. Mistaken = {}
  BY AfterLines
<1>5. Mistaken' = Mistaken /\ Dangling' = Dangling
  BY <1>2, FileKept, NamesKept
<1> QED BY <1>3, <1>4, <1>5 DEF RefusedSaid

-----------------------------------------------------------------------------
(* The sites of the options *)

\* A site is of a rule, and of the line of that rule.
LEMMA SiteOfRule ==
    ASSUME ParseSaid, line = Len(file) + 1, option = 0, NEW sites, NEW words, "fragment" \notin words,
           SitedTo(sites, words, line - 1)
    PROVE  /\ Len(sites) \in Nat /\ DOMAIN sites = 1..Len(sites) /\ ToSet(sites) = { sites[i] : i \in 1..Len(sites) }
           /\ \A i \in 1..Len(sites) :
                 LET l == sites[i].line
                 IN  /\ l \in 1..Len(file) /\ file[l].is = "rule" /\ l \in RuleSet /\ l \in LinesGiving(words)
                     /\ GivenTo(l, Len(OptionsOf(l)), words) # {}
                     /\ sites[i].rule \in 1..Len(rules) /\ RuleLines[sites[i].rule] = l
           /\ \A l \in LinesGiving(words) : \E i \in 1..Len(sites) : sites[i].line = l
           /\ \A i, j \in 1..Len(sites) : sites[i].line = sites[j].line => i = j
<1> DEFINE S == LinesGiving(words)
           n == Len(file)
           lines == Ascending(S, 1, n)
<1>1. IsSequence(sites) /\ Len(sites) = Len(lines) /\ \A i \in 1..Len(sites) : sites[i].line = lines[i] /\ sites[i].rule = NumberOf(lines[i])
  BY AfterLines DEF SitedTo
<1>2. n \in Nat /\ file \in Files /\ \A l \in 1..n : Mistakes(l) = {}
  BY AfterLines
<1>3. S \subseteq RuleSet
  BY <1>2, GivingAreRules
<1>4. /\ \A i \in 1..Len(lines) : lines[i] \in S
      /\ \A k \in 1..n : k \in S => \E i \in 1..Len(lines) : lines[i] = k
      /\ \A i, j \in 1..Len(lines) : i < j => lines[i] < lines[j]
      /\ \A i \in 1..Len(lines) : lines[i] \in 1..n
  <2>1. 1 \in Int /\ n \in Int /\ n >= 1 - 1
    BY <1>2
  <2> HIDE DEF S, n
  <2> QED BY <2>1, AscendingMembers
<1>5. \A l \in S : l \in 1..n /\ file[l].is = "rule" /\ NumberOf(l) \in 1..Len(rules) /\ RuleLines[NumberOf(l)] = l
  BY <1>3, AfterLines
<1>6. \A l \in S : GivenTo(l, Len(OptionsOf(l)), words) # {}
  BY DEF LinesGiving
<1>7. Len(sites) \in Nat /\ DOMAIN sites = 1..Len(sites) /\ ToSet(sites) = { sites[i] : i \in 1..Len(sites) }
  BY <1>1, SequenceTyped
<1> HIDE DEF S, lines, n
<1>8. \A i \in 1..Len(sites) : sites[i].line \in S /\ sites[i].rule = NumberOf(sites[i].line)
  BY <1>1, <1>4
<1>9. \A l \in S : \E i \in 1..Len(sites) : sites[i].line = l
  BY <1>1, <1>4, <1>5
<1>10. \A i, j \in 1..Len(sites) : sites[i].line = sites[j].line => i = j
  <2>1. \A i, j \in 1..Len(sites) : i < j => sites[i].line < sites[j].line /\ sites[i].line \in Int /\ sites[j].line \in Int
    BY <1>1, <1>2, <1>4, <1>7
  <2>2. \A i, j \in 1..Len(sites) : i < j \/ j < i \/ i = j
    BY <1>7
  <2>3. \A i, j \in 1..Len(sites) : i < j => sites[i].line # sites[j].line
    BY <2>1
  <2> QED BY <2>2, <2>3
<1>11. \A i \in 1..Len(sites) : LET l == sites[i].line
                               IN  /\ l \in 1..n /\ file[l].is = "rule" /\ l \in RuleSet /\ l \in S
                                   /\ GivenTo(l, Len(OptionsOf(l)), words) # {}
                                   /\ sites[i].rule \in 1..Len(rules) /\ RuleLines[sites[i].rule] = l
  BY <1>3, <1>5, <1>6, <1>8
<1> QED BY <1>7, <1>9, <1>10, <1>11 DEF S, n

\* The first of the sites that is bad is of the first line that is wrong.
LEMMA FirstSite ==
    ASSUME ParseSaid, line = Len(file) + 1, option = 0, NEW sites, NEW words, "fragment" \notin words,
           SitedTo(sites, words, line - 1), NEW bad, NEW Wrong, Wrong \subseteq LinesGiving(words),
           \A i \in 1..Len(sites) : sites[i] \in bad <=> sites[i].line \in Wrong
    PROVE  /\ Wrong = {} <=> \A i \in 1..Len(sites) : sites[i] \notin bad
           /\ \A i \in 1..Len(sites) :
                 sites[i] \in bad /\ (\A j \in 1..(i - 1) : sites[j] \notin bad) => sites[i].line = Min(Wrong)
<1> DEFINE S == LinesGiving(words)
           n == Len(file)
<1>1. Len(sites) = Len(Ascending(S, 1, n)) /\ \A i \in 1..Len(sites) : sites[i].line = Ascending(S, 1, n)[i]
  BY AfterLines DEF SitedTo
<1>2. n \in Nat
  BY AfterLines
<1>3. Wrong \subseteq S \cap (1..n)
  BY FileTyped, AfterLines DEF LinesGiving
<1>4. \A i \in 1..Len(sites) : sites[i] \in bad <=> sites[i].line \in Wrong
  OBVIOUS
<1> HIDE DEF S, n
<1>5. Wrong = {} <=> \A i \in 1..Len(sites) : sites[i] \notin bad
  BY ONLY <1>1, <1>2, <1>3, <1>4, NoneBad
<1>6. \A i \in 1..Len(sites) :
         sites[i] \in bad /\ (\A j \in 1..(i - 1) : sites[j] \notin bad) => sites[i].line = Min(Wrong)
  BY ONLY <1>1, <1>2, <1>3, <1>4, FirstBad
<1> QED BY <1>5, <1>6

\* A line of a rule that names something with some words gives one of them.
LEMMA NamingGives ==
    ASSUME file \in Files, NEW l \in 1..Len(file), file[l].is = "rule", NEW words, NamesGiven(l, words) # <<>>
    PROVE  l \in LinesGiving(words)
<1>1. NamesGiven(l, words) = NamesTo(l, Len(OptionsOf(l)), words)
  BY GivenMeans
<1>2. GivenTo(l, Len(OptionsOf(l)), words) # {}
  BY <1>1 DEF NamesTo
<1> QED BY <1>2, FileTyped DEF LinesGiving

\* An option that takes one name has one.
LEMMA OneNamed ==
    ASSUME file \in Files, NEW l \in 1..Len(file), file[l].is = "rule", Mistakes(l) = {}, NEW words,
           words \subseteq {"push=", "set="} \cup OneName, GivenTo(l, Len(OptionsOf(l)), words) # {}
    PROVE  LET s == NamesTo(l, Len(OptionsOf(l)), words) IN s \in Seq(STRING) /\ Len(s) = 1 /\ DOMAIN s = {1}
<1>1. PICK o \in 1..Len(OptionsOf(l)) :
         OptionsOf(l)[o].word \in words /\ NamesTo(l, Len(OptionsOf(l)), words) = OptionsOf(l)[o].names
  BY NamesWithin
<1> DEFINE w == OptionsOf(l)[o].word
           s == OptionsOf(l)[o].names
<1>2. s \in Seq(STRING) /\ Len(s) \in Nat /\ (s = <<>> <=> w \in Alone) /\ (w \in OneName => Len(s) = 1)
  BY <1>1, OptionsTyped
<1>3. ~OptionWrong(l, o)
  BY <1>1, RuleMistakes
<1>4. w \in {"push=", "set="} => ~(Len(s) > 1)
  BY <1>3 DEF OptionWrong
<1>5. w \notin Alone
  BY <1>1 DEF Alone, OneName
<1>6. w \in {"push=", "set="} \cup OneName
  BY <1>1
<1> HIDE DEF w, s
<1>7. Len(s) = 1
  <2>1. Len(s) # 0
    BY <1>2, <1>5
  <2>2. w \in {"push=", "set="} \/ w \in OneName
    BY <1>6
  <2>3. CASE w \in {"push=", "set="}
    <3> DEFINE k == Len(s)
    <3>1. k \in Nat /\ k # 0 /\ ~(k > 1)
      BY <1>2, <1>4, <2>1, <2>3
    <3> HIDE DEF k
    <3>2. k = 1
      BY <3>1
    <3> QED BY <3>2 DEF k
  <2> QED BY <1>2, <2>2, <2>3
<1>8. DOMAIN s = {1}
  BY <1>2, <1>7
<1> QED BY <1>1, <1>2, <1>7, <1>8 DEF s

-----------------------------------------------------------------------------
(* The names that stand for nothing *)

Entering == {"push=", "set="}

\* The transitions that enter no mode are those of the lines whose mode none populates.
LEMMA TargetsDangle ==
    ASSUME ParseSaid, line = Len(file) + 1, option = 0
    PROVE  /\ Dangling[1] \subseteq LinesGiving(Entering)
           /\ \A i \in 1..Len(transitions) : transitions[i] \in EntersNowhere <=> transitions[i].line \in Dangling[1]
<1> DEFINE NG(l) == NamesGiven(l, Entering)
           D == { l \in ToSet(RuleLines) : \E i \in DOMAIN NG(l) : ~Populated(NG(l)[i]) }
<1>1. Dangling[1] = D
  BY DEF Dangling, Entering
<1>2. /\ file \in Files /\ ToSet(RuleLines) = RuleSet /\ \A l \in 1..Len(file) : Mistakes(l) = {}
      /\ \A l \in RuleSet : l \in 1..Len(file) /\ file[l].is = "rule"
  BY AfterLines
<1>3. "fragment" \notin Entering /\ Entering \subseteq {"push=", "set="} \cup OneName
  BY DEF Entering
<1>4. D \subseteq LinesGiving(Entering)
  <2> SUFFICES ASSUME NEW l \in D PROVE l \in LinesGiving(Entering)
    OBVIOUS
  <2>1. l \in RuleSet /\ l \in 1..Len(file) /\ file[l].is = "rule"
    BY <1>2
  <2>2. NG(l) # <<>>
    OBVIOUS
  <2> QED BY <1>2, <2>1, <2>2, NamingGives
<1>5. SitedTo(transitions, Entering, line - 1)
  BY SitesBetween DEF Entering
<1>6. ASSUME NEW i \in 1..Len(transitions) PROVE transitions[i] \in EntersNowhere <=> transitions[i].line \in D
  <2> DEFINE l == transitions[i].line
             r == transitions[i].rule
             n == Len(OptionsOf(l))
  <2>1. /\ ToSet(transitions) = { transitions[j] : j \in 1..Len(transitions) }
        /\ l \in 1..Len(file) /\ file[l].is = "rule" /\ l \in RuleSet /\ GivenTo(l, n, Entering) # {}
        /\ r \in 1..Len(rules) /\ RuleLines[r] = l
    BY <1>3, <1>5, SiteOfRule
  <2>2. SaidTo(rules[r], l, n)
    BY <2>1, AfterLines
  <2>3. rules[r].target = NamesTo(l, n, Entering)[1]
    BY <2>1, <2>2 DEF SaidTo, Entering
  <2>4. DOMAIN NamesTo(l, n, Entering) = {1}
    BY <1>2, <1>3, <2>1, OneNamed
  <2>5. NG(l) = NamesTo(l, n, Entering)
    BY <1>2, <2>1, GivenMeans
  <2>6. l \in D <=> ~Populated(NG(l)[1])
    BY <1>2, <2>1, <2>4, <2>5
  <2>7. transitions[i] \in EntersNowhere <=> ~ActiveIn(rules[r].target)
    BY <2>1 DEF EntersNowhere
  <2>8. ActiveIn(rules[r].target) <=> Populated(rules[r].target)
    BY ActiveIsPopulated
  <2> QED BY <2>3, <2>5, <2>6, <2>7, <2>8
<1> HIDE DEF D
<1> QED BY <1>1, <1>4, <1>6

\* The predicates that name no rule are those of the lines that do.
LEMMA PredicatesDangle ==
    ASSUME ParseSaid, line = Len(file) + 1, option = 0
    PROVE  /\ Dangling[2] \subseteq LinesGiving(Predicates)
           /\ \A i \in 1..Len(predicates) : predicates[i] \in NamesNoRule <=> predicates[i].line \in Dangling[2]
           /\ ToSet(names) = RuleNames
<1> DEFINE NG(l) == NamesGiven(l, Predicates)
           D == { l \in ToSet(RuleLines) : \E i \in DOMAIN NG(l) : NG(l)[i] \notin RuleNames \cup {"^"} }
<1>1. Dangling[2] = D
  BY DEF Dangling, Predicates
<1>2. /\ file \in Files /\ ToSet(RuleLines) = RuleSet
      /\ \A l \in RuleSet : l \in 1..Len(file) /\ file[l].is = "rule"
  BY AfterLines
<1>3. "fragment" \notin Predicates
  BY DEF Predicates
<1>4. D \subseteq LinesGiving(Predicates)
  <2> SUFFICES ASSUME NEW l \in D PROVE l \in LinesGiving(Predicates)
    OBVIOUS
  <2>1. l \in RuleSet /\ l \in 1..Len(file) /\ file[l].is = "rule"
    BY <1>2
  <2>2. NG(l) # <<>>
    OBVIOUS
  <2> QED BY <1>2, <2>1, <2>2, NamingGives
<1>5. SitedTo(predicates, Predicates, line - 1)
  BY SitesBetween
<1>6. ToSet(names) = RuleNames
  <2>1. DOMAIN names = 1..Len(rules) /\ DOMAIN RuleLines = 1..Len(rules) /\ \A r \in 1..Len(rules) : names[r] = file[RuleLines[r]].name
    BY AfterLines
  <2> QED BY <2>1 DEF ToSet, RuleNames
<1>7. ASSUME NEW i \in 1..Len(predicates) PROVE predicates[i] \in NamesNoRule <=> predicates[i].line \in D
  <2> DEFINE l == predicates[i].line
             n == Len(OptionsOf(l))
  <2>1. /\ ToSet(predicates) = { predicates[j] : j \in 1..Len(predicates) }
        /\ l \in 1..Len(file) /\ file[l].is = "rule" /\ l \in RuleSet
    BY <1>3, <1>5, SiteOfRule
  <2>2. predicates[i].names = NamesTo(l, n, Predicates)
    BY SitesBetween
  <2>3. NG(l) = predicates[i].names
    BY <1>2, <2>1, <2>2, GivenMeans
  <2>4. predicates[i] \in NamesNoRule <=> ~(ToSet(predicates[i].names) \subseteq {"^"} \cup ToSet(names))
    BY <2>1 DEF NamesNoRule
  <2>5. ToSet(NG(l)) = { NG(l)[j] : j \in DOMAIN NG(l) }
    BY DEF ToSet
  <2>6. l \in D <=> \E j \in DOMAIN NG(l) : NG(l)[j] \notin RuleNames \cup {"^"}
    BY <1>2, <2>1
  <2>7. l \in D <=> ~(ToSet(NG(l)) \subseteq {"^"} \cup RuleNames)
    <3> DEFINE s == NG(l)
    <3>1. ToSet(s) = { s[j] : j \in DOMAIN s } /\ (l \in D <=> \E j \in DOMAIN s : s[j] \notin RuleNames \cup {"^"})
      BY <2>5, <2>6
    <3> HIDE DEF s, l, D
    <3> QED BY <3>1 DEF s
  <2> DEFINE s == predicates[i].names
             A == {"^"} \cup RuleNames
  <2>8. {"^"} \cup ToSet(names) = A
    BY <1>6
  <2>9. (l \in D <=> ~(ToSet(s) \subseteq A)) /\ (predicates[i] \in NamesNoRule <=> ~(ToSet(s) \subseteq A))
    BY <2>3, <2>4, <2>7, <2>8
  <2> QED BY <2>9
<1> HIDE DEF D
<1> QED BY <1>1, <1>4, <1>6, <1>7

\* The fragments are those of the lines, by name and by pattern.
LEMMA FragmentsNoted ==
    ASSUME ParseSaid, line = Len(file) + 1, option = 0
    PROVE  /\ DOMAIN fragments = 1..Len(fragments) /\ Len(fragments) \in Nat
           /\ \A i \in 1..Len(fragments) :
                 LET f == FragmentsTo(Len(file))[i]
                 IN  f \in FragmentLines /\ f \in 1..Len(file) /\ fragments[i].name = file[f].name /\ fragments[i].pattern = file[f].pattern
           /\ \A f \in FragmentLines : \E i \in 1..Len(fragments) : FragmentsTo(Len(file))[i] = f
           /\ \A i, j \in 1..Len(fragments) : i < j => FragmentsTo(Len(file))[i] < FragmentsTo(Len(file))[j]
<1> DEFINE n == Len(file)
           S == FragmentLines
           lines == Ascending(S, 1, n)
<1>1. /\ IsSequence(fragments) /\ Len(fragments) = Len(lines)
      /\ \A i \in 1..Len(fragments) : fragments[i].name = file[lines[i]].name /\ fragments[i].pattern = file[lines[i]].pattern
  BY AfterLines DEF ParseSaid, FragmentsSaid, FragmentsTo
<1>2. Len(fragments) \in Nat /\ DOMAIN fragments = 1..Len(fragments)
  BY <1>1, SequenceTyped
<1>3. n \in Nat /\ DOMAIN file = 1..n
  BY AfterLines, FileTyped
<1>4. FragmentsTo(n) = lines
  BY DEF FragmentsTo
<1>5. S \subseteq 1..n
  BY <1>3 DEF FragmentLines
<1> HIDE DEF n, S, lines
<1>6. /\ \A i \in 1..Len(lines) : lines[i] \in S /\ lines[i] \in 1..n
      /\ \A k \in 1..n : k \in S => \E i \in 1..Len(lines) : lines[i] = k
      /\ \A i, j \in 1..Len(lines) : i < j => lines[i] < lines[j]
  <2>1. 1 \in Int /\ n \in Int /\ n >= 1 - 1
    BY <1>3
  <2> QED BY <2>1, AscendingMembers DEF lines
<1>7. \A f \in S : \E i \in 1..Len(fragments) : lines[i] = f
  BY <1>1, <1>5, <1>6
<1> QED BY <1>1, <1>2, <1>4, <1>6, <1>7 DEF n, S

\* The continuations of nothing are those of the lines that name none, or do not extend by lines.
LEMMA ContinuationsDangle ==
    ASSUME ParseSaid, line = Len(file) + 1, option = 0
    PROVE  /\ Dangling[3] \subseteq LinesGiving({"continue="})
           /\ \A i \in 1..Len(continuations) : continuations[i] \in ContinuesNothing <=> continuations[i].line \in Dangling[3]
<1> DEFINE W == {"continue="}
           E == {"extend="}
           F == { file[f].name : f \in FragmentLines }
           D == { l \in ToSet(RuleLines) :
                    /\ Gives(l, "continue=")
                    /\ NamesGiven(l, E) # <<"lines">> \/ NamesGiven(l, W)[1] \notin RuleNames \cup F }
<1>1. Dangling[3] = D
  BY DEF Dangling
<1>2. /\ file \in Files /\ ToSet(RuleLines) = RuleSet /\ \A l \in 1..Len(file) : Mistakes(l) = {}
      /\ \A l \in RuleSet : l \in 1..Len(file) /\ file[l].is = "rule"
  BY AfterLines
<1>3. D \subseteq LinesGiving(W)
  <2> SUFFICES ASSUME NEW l \in D PROVE l \in LinesGiving(W)
    OBVIOUS
  <2>1. l \in 1..Len(file) /\ file[l].is = "rule" /\ Gives(l, "continue=")
    BY <1>2
  <2>2. GivenTo(l, Len(OptionsOf(l)), W) # {}
    BY <1>2, <2>1, GivenMeans
  <2> HIDE DEF W
  <2> QED BY <1>2, <2>1, <2>2, FileTyped DEF LinesGiving
<1>4. SitedTo(continuations, W, line - 1)
  BY SitesBetween
<1>5. \A x : (\E i \in DOMAIN fragments : fragments[i].name = x) <=> x \in F
  <2>1. DOMAIN fragments = 1..Len(fragments)
    BY FragmentsNoted
  <2>2. \A i \in 1..Len(fragments) : fragments[i].name \in F
    BY FragmentsNoted
  <2>3. \A f \in FragmentLines : \E i \in 1..Len(fragments) : fragments[i].name = file[f].name
    BY FragmentsNoted
  <2> QED BY <2>1, <2>2, <2>3
<1>6. \A x : Bearers(names, x) # {} <=> x \in RuleNames
  <2>1. \A x : Bearers(names, x) # {} <=> x \in ToSet(names)
    BY DEF Bearers, ToSet
  <2> QED BY <2>1, PredicatesDangle
<1>7. ASSUME NEW i \in 1..Len(continuations) PROVE continuations[i] \in ContinuesNothing <=> continuations[i].line \in D
  <2> DEFINE site == continuations[i]
             l == site.line
             r == site.rule
             n == Len(OptionsOf(l))
             x == NamesTo(l, n, W)[1]
             s == NamesTo(l, n, E)
  <2>1. /\ ToSet(continuations) = { continuations[j] : j \in 1..Len(continuations) }
        /\ l \in 1..Len(file) /\ file[l].is = "rule" /\ l \in RuleSet /\ GivenTo(l, n, W) # {}
        /\ r \in 1..Len(rules) /\ RuleLines[r] = l
    <3>1. "fragment" \notin W
      OBVIOUS
    <3> HIDE DEF W
    <3> QED BY <1>4, <3>1, SiteOfRule
  <2>2. SaidTo(rules[r], l, n)
    BY <2>1, AfterLines
  <2>3. site.name = x
    BY SitesBetween
  <2>4. Gives(l, "continue=") /\ NamesGiven(l, W)[1] = x /\ NamesGiven(l, E) = s
    BY <1>2, <2>1, GivenMeans
  <2>5. rules[r].extend = "lines" <=> s = <<"lines">>
    <3>1. CASE GivenTo(l, n, E) # {}
      <4>1. s \in Seq(STRING) /\ Len(s) = 1
        <5>1. E \subseteq {"push=", "set="} \cup OneName
          BY DEF OneName
        <5> HIDE DEF E
        <5> QED BY <1>2, <2>1, <3>1, <5>1, OneNamed
      <4>2. rules[r].extend = s[1]
        BY <2>2, <3>1 DEF SaidTo
      <4>3. s[1] = "lines" <=> s = <<"lines">>
        <5> HIDE DEF s
        <5> QED BY <4>1
      <4> QED BY <4>2, <4>3
    <3>2. CASE GivenTo(l, n, E) = {}
      <4>1. s = <<>>
        BY <3>2 DEF NamesTo
      <4>2. rules[r].extend = "none"
        BY <2>2, <3>2 DEF SaidTo
      <4>3. <<>> # <<"lines">>
        OBVIOUS
      <4> QED BY <4>1, <4>2, <4>3
    <3> QED BY <3>1, <3>2
  <2>6. l \in D <=> s # <<"lines">> \/ x \notin RuleNames \cup F
    <3>1. l \in D <=> l \in ToSet(RuleLines) /\ Gives(l, "continue=")
                      /\ (NamesGiven(l, E) # <<"lines">> \/ NamesGiven(l, W)[1] \notin RuleNames \cup F)
      OBVIOUS
    <3> HIDE DEF s, x, E, W, F, D, l
    <3> QED BY <1>2, <2>1, <2>4, <3>1
  <2>7. site \in ContinuesNothing <=> rules[r].extend # "lines" \/ ((\A j \in DOMAIN fragments : fragments[j].name # x) /\ Bearers(names, x) = {})
    <3>1. site \in ToSet(continuations)
      BY <2>1
    <3>2. site \in ContinuesNothing <=> rules[r].extend # "lines" \/ ((\A j \in DOMAIN fragments : fragments[j].name # site.name) /\ Bearers(names, site.name) = {})
      <4> HIDE DEF site
      <4> QED BY <3>1 DEF ContinuesNothing, r
    <3> HIDE DEF x, site
    <3> QED BY <2>3, <3>2
  <2>8. (\A j \in DOMAIN fragments : fragments[j].name # x) /\ Bearers(names, x) = {} <=> x \notin RuleNames \cup F
    <3>1. (\E j \in DOMAIN fragments : fragments[j].name = x) <=> x \in F
      BY <1>5
    <3>2. Bearers(names, x) # {} <=> x \in RuleNames
      BY <1>6
    <3> HIDE DEF x, F
    <3> QED BY <3>1, <3>2
  <2>9. site \in ContinuesNothing <=> l \in D
    <3> HIDE DEF x, s, F, D, l, r, E, W, site
    <3> QED BY <2>5, <2>6, <2>7, <2>8
  <2> QED BY <2>9
<1> HIDE DEF D
<1> QED BY <1>1, <1>3, <1>7

\* The first mode of a directive that is no mode is of the first line that lists one.
LEMMA DirectivesDangle ==
    ASSUME ParseSaid, line = Len(file) + 1, option = 0
    PROVE  /\ DOMAIN directives = 1..Len(directives) /\ Len(directives) \in Nat
           /\ Dangling[4] = {} <=> \A i \in 1..Len(directives) : directives[i] \notin NamesNoMode
           /\ \A i \in 1..Len(directives) :
                 directives[i] \in NamesNoMode /\ (\A j \in 1..(i - 1) : directives[j] \notin NamesNoMode)
                    => directives[i].line = Min(Dangling[4])
<1> DEFINE D == { l \in DOMAIN file : file[l].is = "directive" /\ \E i \in DOMAIN file[l].names : ~Populated(file[l].names[i]) }
           N == NamesNoMode
           n == Len(directives)
           L(i) == directives[i].line
<1>1. Dangling[4] = D
  BY DEF Dangling
<1>2. file \in Files /\ DOMAIN file = 1..Len(file) /\ line - 1 = Len(file) /\ Len(file) \in Nat
  BY AfterLines, FileTyped
<1>3. \A l \in 1..Len(file) : file[l].is = "directive" => DOMAIN file[l].names = 1..Len(file[l].names)
  BY <1>2, FileTyped
<1>4. /\ IsSequence(directives)
      /\ \A i, j \in 1..n : i < j => L(i) <= L(j)
      /\ \A i \in 1..n : /\ L(i) \in 1..Len(file) /\ file[L(i)].is = "directive"
                         /\ \E m \in 1..Len(file[L(i)].names) : directives[i].mode = file[L(i)].names[m]
      /\ \A l \in 1..Len(file) : file[l].is = "directive" =>
            \A m \in 1..Len(file[l].names) : \E i \in 1..n : L(i) = l /\ directives[i].mode = file[l].names[m]
  BY <1>2 DEF ParseSaid, DirectivesTo
<1>5. n \in Nat /\ DOMAIN directives = 1..n /\ ToSet(directives) = { directives[i] : i \in 1..n }
  BY <1>4, SequenceTyped
<1>6. \A i \in 1..n : directives[i] \in N <=> ~Populated(directives[i].mode)
  BY <1>5, ActiveIsPopulated DEF NamesNoMode
<1>7. \A i \in 1..n : directives[i] \in N => L(i) \in D
  <2> SUFFICES ASSUME NEW i \in 1..n, directives[i] \in N PROVE L(i) \in D
    OBVIOUS
  <2> DEFINE l == L(i)
  <2>1. l \in 1..Len(file) /\ file[l].is = "directive"
    BY <1>4
  <2>2. PICK m \in 1..Len(file[l].names) : directives[i].mode = file[l].names[m]
    BY <1>4
  <2>3. m \in DOMAIN file[l].names
    BY <1>3, <2>1
  <2>4. ~Populated(file[l].names[m])
    BY <1>6, <2>2
  <2>5. l \in DOMAIN file
    BY <1>2, <2>1
  <2> HIDE DEF l
  <2>6. l \in D
    BY <2>1, <2>3, <2>4, <2>5
  <2> QED BY <2>6 DEF l
<1>8. \A l \in D : \E i \in 1..n : L(i) = l /\ directives[i] \in N
  <2> SUFFICES ASSUME NEW l \in D PROVE \E i \in 1..n : L(i) = l /\ directives[i] \in N
    OBVIOUS
  <2>1. l \in 1..Len(file) /\ file[l].is = "directive"
    BY <1>2
  <2>2. PICK m \in 1..Len(file[l].names) : ~Populated(file[l].names[m])
    BY <1>3, <2>1
  <2>3. PICK i \in 1..n : L(i) = l /\ directives[i].mode = file[l].names[m]
    BY <1>4, <2>1
  <2> QED BY <1>6, <2>2, <2>3
<1>9. D = {} <=> \A i \in 1..n : directives[i] \notin N
  <2> HIDE DEF D, N
  <2> QED BY <1>7, <1>8
<1>10. ASSUME NEW i \in 1..n, directives[i] \in N, \A j \in 1..(i - 1) : directives[j] \notin N
       PROVE  L(i) = Min(D)
  <2>1. D \in SUBSET Nat
    BY <1>2
  <2>2. L(i) \in D
    BY <1>7, <1>10
  <2>3. ASSUME NEW l \in D PROVE L(i) <= l
    <3>1. PICK j \in 1..n : L(j) = l /\ directives[j] \in N
      BY <1>8
    <3>2. j \notin 1..(i - 1)
      BY <1>10, <3>1
    <3>3. j = i \/ i < j
      BY <1>5, <3>2
    <3>4. L(i) \in Nat /\ L(j) \in Nat
      BY <1>2, <1>4
    <3> HIDE DEF D, N, L
    <3> QED BY <1>4, <3>1, <3>3, <3>4
  <2> HIDE DEF D, N, L
  <2> QED BY <2>1, <2>2, <2>3, MinIs
<1> HIDE DEF D
<1> QED BY <1>1, <1>5, <1>9, <1>10

-----------------------------------------------------------------------------
(* Each of the passes *)

\* Past the lines, what the passes before found and resolved.
LEMMA PastLines ==
    ASSUME ParseSaid, pass # "lines"
    PROVE  line = Len(file) + 1 /\ option = 0 /\ PassesSaid
BY DEF ParseSaid, Place

\* What a pass found nothing wrong in, and what the passes are next.
LEMMA PassesNext ==
    ASSUME ParseSaid, pass # "lines", file' = file, line' = line, rules' \in Seq(ToSet(rules')), Len(rules') = Len(rules),
           pass' \in {"predicates", "continuations", "directives", "parsed"},
           \A p \in 1..4 : Beyond(p)' => Dangling[p] = {},
           \A r \in 1..Len(rules) :
              /\ IF Beyond(2)' THEN /\ rules'[r].after = Named(RuleLinesTo(line - 1)[r], "after=")
                                    /\ rules'[r].notAfter = Named(RuleLinesTo(line - 1)[r], "not_after=")
                 ELSE rules'[r].after = {} /\ rules'[r].notAfter = {}
              /\ rules'[r].continuation = IF Beyond(3)' THEN Continued(RuleLinesTo(line - 1)[r]) ELSE "",
           insignificant' = IF Beyond(4)' THEN [i \in 1..Len(directives') |-> directives'[i].mode] ELSE <<>>
    PROVE  PassesSaid'
<1>1. Dangling' = Dangling /\ \A l, w : Named(l, w)' = Named(l, w)
  BY NamesKept
<1>2. \A l : Continued(l)' = Continued(l)
  BY NamesKept
<1>3. RuleLinesTo(line - 1)' = RuleLinesTo(line - 1)
  <2>1. \A k : RuleLinesTo(k)' = RuleLinesTo(k)
    BY FileKept
  <2> QED BY <2>1
<1>4. (\A p \in 1..4 : Beyond(p) => Dangling[p] = {})'
  <2> SUFFICES ASSUME NEW p \in 1..4, Beyond(p)' PROVE Dangling'[p] = {}
    OBVIOUS
  <2> QED BY <1>1
<1>5. (\A r \in 1..Len(rules) :
          /\ IF Beyond(2) THEN /\ rules[r].after = Named(RuleLinesTo(line - 1)[r], "after=")
                               /\ rules[r].notAfter = Named(RuleLinesTo(line - 1)[r], "not_after=")
             ELSE rules[r].after = {} /\ rules[r].notAfter = {}
          /\ rules[r].continuation = IF Beyond(3) THEN Continued(RuleLinesTo(line - 1)[r]) ELSE "")'
  <2> SUFFICES ASSUME NEW r \in 1..Len(rules)
               PROVE  (/\ IF Beyond(2) THEN /\ rules[r].after = Named(RuleLinesTo(line - 1)[r], "after=")
                                            /\ rules[r].notAfter = Named(RuleLinesTo(line - 1)[r], "not_after=")
                          ELSE rules[r].after = {} /\ rules[r].notAfter = {}
                       /\ rules[r].continuation = IF Beyond(3) THEN Continued(RuleLinesTo(line - 1)[r]) ELSE "")'
    OBVIOUS
  <2> DEFINE k == RuleLinesTo(line - 1)[r]
  <2>1. k' = k
    BY <1>3
  <2>2. Named(k, "after=")' = Named(k, "after=") /\ Named(k, "not_after=")' = Named(k, "not_after=")
    <3>1. \A l, w : Named(l, w)' = Named(l, w)
      BY <1>1
    <3> QED BY <2>1, <3>1
  <2>3. Continued(k)' = Continued(k)
    BY <1>2, <2>1
  <2> QED BY <2>2, <2>3
<1>6. pass' \in {"lines", "targets", "predicates", "continuations", "directives", "parsed"}
  OBVIOUS
<1> QED BY <1>4, <1>5, <1>6 DEF PassesSaid

LEMMA CheckTargetsKeeps ==
    ASSUME ParseSaid, CheckTargets
    PROVE  IF pass' = "refused" THEN RefusedSaid' ELSE ParseSaid'
<1>0. pass = "targets"
  BY DEF CheckTargets, Pass, PassTo
<1>1. line = Len(file) + 1 /\ option = 0 /\ PassesSaid
  BY <1>0, PastLines
<1>2. SitedTo(transitions, Entering, line - 1) /\ "fragment" \notin Entering
  BY <1>1, SitesBetween DEF Entering
<1>3. Len(transitions) \in Nat /\ DOMAIN transitions = 1..Len(transitions)
      /\ ToSet(transitions) = { transitions[i] : i \in 1..Len(transitions) }
  BY <1>1, <1>2, SiteOfRule
<1>4. /\ Dangling[1] = {} <=> \A i \in 1..Len(transitions) : transitions[i] \notin EntersNowhere
      /\ \A i \in 1..Len(transitions) :
            transitions[i] \in EntersNowhere /\ (\A j \in 1..(i - 1) : transitions[j] \notin EntersNowhere)
               => transitions[i].line = Min(Dangling[1])
  <2>1. /\ Dangling[1] \subseteq LinesGiving(Entering)
        /\ \A i \in 1..Len(transitions) : transitions[i] \in EntersNowhere <=> transitions[i].line \in Dangling[1]
    BY <1>1, TargetsDangle
  <2> DEFINE D == Dangling[1]
             N == EntersNowhere
  <2>2. ParseSaid
    OBVIOUS
  <2> HIDE DEF D, N
  <2>3. D \subseteq LinesGiving(Entering) /\ \A i \in 1..Len(transitions) : transitions[i] \in N <=> transitions[i].line \in D
    BY <2>1 DEF D, N
  <2>4. D = {} <=> \A i \in 1..Len(transitions) : transitions[i] \notin N
    BY ONLY <1>1, <1>2, <2>2, <2>3, FirstSite
  <2>5. \A i \in 1..Len(transitions) :
            transitions[i] \in N /\ (\A j \in 1..(i - 1) : transitions[j] \notin N) => transitions[i].line = Min(D)
    BY ONLY <1>1, <1>2, <2>2, <2>3, FirstSite
  <2> QED BY <2>4, <2>5 DEF D, N
<1>5. CASE Pass("targets", transitions, EntersNowhere)
  <2>1. 1 \in 1..4 /\ \A q \in 1..(1 - 1) : Dangling[q] = {}
    OBVIOUS
  <2>2. RefusedSaid'
    BY <1>1, <1>3, <1>4, <1>5, <2>1, RefusedInPass
  <2>3. pass' = "refused"
    BY <1>5 DEF Pass, Refuse
  <2> QED BY <2>2, <2>3
<1>6. CASE PassTo("targets", "predicates", EntersNowhere) /\ UNCHANGED <<rules, insignificant>>
  <2>1. pass' = "predicates" /\ EntersNowhere = {} /\ UNCHANGED <<file, line, lineVars, names, siteVars, rules, insignificant>>
    BY <1>6 DEF PassTo
  <2>2. Dangling[1] = {}
    BY <1>4, <2>1
  <2>3. Beyond(1)' /\ ~Beyond(2)' /\ ~Beyond(3)' /\ ~Beyond(4)' /\ ~Beyond(2) /\ ~Beyond(3) /\ ~Beyond(4)
    BY <1>0, <2>1 DEF Beyond
  <2>4. \A p \in 1..4 : Beyond(p)' => p = 1
    <3>1. \A p \in 1..4 : p = 1 \/ p = 2 \/ p = 3 \/ p = 4
      OBVIOUS
    <3> QED BY <2>3, <3>1
  <2>5. RulesTo(rules', names, line - 1) /\ rules' \in Seq(ToSet(rules'))
    <3>1. RulesTo(rules, names, line - 1)
      BY DEF ParseSaid
    <3> QED BY <2>1, <3>1 DEF RulesTo, IsSequence
  <2>6. /\ \A r \in 1..Len(rules) : rules[r].after = {} /\ rules[r].notAfter = {} /\ rules[r].continuation = ""
        /\ insignificant = <<>>
    BY <1>1, <2>3 DEF PassesSaid
  <2>7. PassesSaid'
    BY <1>0, <2>1, <2>2, <2>3, <2>4, <2>5, <2>6, PassesNext
  <2>8. ParseSaid'
    BY <1>1, <2>1, <2>5, <2>7, PassKeeps
  <2> QED BY <2>1, <2>8
<1> QED BY <1>5, <1>6 DEF CheckTargets

LEMMA ApplyDirectivesKeeps ==
    ASSUME ParseSaid, ApplyDirectives
    PROVE  IF pass' = "refused" THEN RefusedSaid' ELSE ParseSaid'
<1>0. pass = "directives"
  BY DEF ApplyDirectives, Pass, PassTo
<1>1. line = Len(file) + 1 /\ option = 0 /\ PassesSaid
  BY <1>0, PastLines
<1>2. Beyond(1) /\ Beyond(2) /\ Beyond(3) /\ ~Beyond(4)
  BY <1>0 DEF Beyond
<1>3. Dangling[1] = {} /\ Dangling[2] = {} /\ Dangling[3] = {}
  BY <1>1, <1>2 DEF PassesSaid
<1>4. /\ DOMAIN directives = 1..Len(directives) /\ Len(directives) \in Nat
      /\ Dangling[4] = {} <=> \A i \in 1..Len(directives) : directives[i] \notin NamesNoMode
      /\ \A i \in 1..Len(directives) :
            directives[i] \in NamesNoMode /\ (\A j \in 1..(i - 1) : directives[j] \notin NamesNoMode)
               => directives[i].line = Min(Dangling[4])
  BY <1>1, DirectivesDangle
<1>5. CASE Pass("directives", directives, NamesNoMode)
  <2>1. 4 \in 1..4 /\ \A q \in 1..(4 - 1) : Dangling[q] = {}
    <3>1. \A q \in 1..(4 - 1) : q = 1 \/ q = 2 \/ q = 3
      OBVIOUS
    <3> QED BY <1>3, <3>1
  <2>2. RefusedSaid'
    BY <1>1, <1>4, <1>5, <2>1, RefusedInPass
  <2>3. pass' = "refused"
    BY <1>5 DEF Pass, Refuse
  <2> QED BY <2>2, <2>3
<1>6. CASE /\ PassTo("directives", "parsed", NamesNoMode)
           /\ insignificant' = [i \in DOMAIN directives |-> directives[i].mode] /\ UNCHANGED rules
  <2>1. pass' = "parsed" /\ NamesNoMode = {} /\ UNCHANGED <<file, line, lineVars, names, siteVars, rules>>
    BY <1>6 DEF PassTo
  <2>2. Dangling[4] = {}
    BY <1>4, <2>1
  <2>3. Beyond(1)' /\ Beyond(2)' /\ Beyond(3)' /\ Beyond(4)'
    BY <2>1 DEF Beyond
  <2>4. \A p \in 1..4 : Dangling[p] = {}
    <3>1. \A p \in 1..4 : p = 1 \/ p = 2 \/ p = 3 \/ p = 4
      OBVIOUS
    <3> QED BY <1>3, <2>2, <3>1
  <2>5. RulesTo(rules', names, line - 1) /\ rules' \in Seq(ToSet(rules'))
    <3>1. RulesTo(rules, names, line - 1)
      BY DEF ParseSaid
    <3> QED BY <2>1, <3>1 DEF RulesTo, IsSequence
  <2>6. \A r \in 1..Len(rules) : /\ rules[r].after = Named(RuleLinesTo(line - 1)[r], "after=")
                                 /\ rules[r].notAfter = Named(RuleLinesTo(line - 1)[r], "not_after=")
                                 /\ rules[r].continuation = Continued(RuleLinesTo(line - 1)[r])
    BY <1>1, <1>2 DEF PassesSaid
  <2>7. insignificant' = [i \in 1..Len(directives') |-> directives'[i].mode]
    BY <1>4, <1>6, <2>1 DEF siteVars
  <2>8. PassesSaid'
    BY <1>0, <2>1, <2>3, <2>4, <2>5, <2>6, <2>7, PassesNext
  <2>9. ParseSaid'
    BY <1>1, <2>1, <2>5, <2>8, PassKeeps
  <2> QED BY <2>1, <2>9
<1> QED BY <1>5, <1>6 DEF ApplyDirectives

\* The kinds of names are those of the rules that bear them.
LEMMA KindsAreNamed ==
    ASSUME ParseSaid, line = Len(file) + 1, option = 0, NEW l, NEW w
    PROVE  KindsOf(NamesGiven(l, {w})) = Named(l, w)
<1> DEFINE s == ToSet(NamesGiven(l, {w}))
           t == s \ {"^"}
           A == { r - 1 : r \in { r \in DOMAIN RuleLines : file[RuleLines[r]].name \in t } }
           B == { EndOfInput : x \in { x \in s : x = "^" } }
           C == { k \in 0..(Len(names) - 1) : names[k + 1] \in t }
<1>1. Named(l, w) = A \cup B
  BY DEF Named
<1>2. KindsOf(NamesGiven(l, {w})) = (IF "^" \in s THEN {EndOfInput} ELSE {}) \cup C
  BY DEF KindsOf
<1>3. /\ Len(rules) \in Nat /\ Len(names) = Len(rules) /\ DOMAIN RuleLines = 1..Len(rules)
      /\ \A r \in 1..Len(rules) : names[r] = file[RuleLines[r]].name
  BY AfterLines
<1> HIDE DEF s, t
<1>4. B = IF "^" \in s THEN {EndOfInput} ELSE {}
  OBVIOUS
<1>5. A = C
  <2> DEFINE n == Len(rules)
  <2>1. A = { r - 1 : r \in { r \in 1..n : names[r] \in t } } /\ C = { k \in 0..(n - 1) : names[k + 1] \in t } /\ n \in Nat
    BY <1>3
  <2> HIDE DEF n, A, C
  <2>2. \A k \in C : k \in A
    <3> SUFFICES ASSUME NEW k \in C PROVE k \in A
      OBVIOUS
    <3>1. k \in 0..(n - 1) /\ names[k + 1] \in t
      BY <2>1
    <3>2. k + 1 \in 1..n /\ (k + 1) - 1 = k
      BY <2>1, <3>1
    <3> QED BY <2>1, <3>1, <3>2
  <2>3. \A k \in A : k \in C
    <3> SUFFICES ASSUME NEW k \in A PROVE k \in C
      OBVIOUS
    <3>1. PICK r \in 1..n : names[r] \in t /\ k = r - 1
      BY <2>1
    <3>2. k \in 0..(n - 1) /\ k + 1 = r
      BY <2>1, <3>1
    <3> QED BY <2>1, <3>1, <3>2
  <2> QED BY <2>2, <2>3
<1> HIDE DEF A, B, C
<1> QED BY <1>1, <1>2, <1>4, <1>5

\* A line has at most one predicate: its names are those of the word it gives.
LEMMA PredicateGiven ==
    ASSUME file \in Files, NEW l \in 1..Len(file), file[l].is = "rule", Mistakes(l) = {}
    PROVE  LET n == Len(OptionsOf(l))
               s == NamesTo(l, n, Predicates)
           IN  /\ GivenTo(l, n, Predicates) = {} =>
                     NamesGiven(l, {"after="}) = <<>> /\ NamesGiven(l, {"not_after="}) = <<>>
               /\ GivenTo(l, n, Predicates) # {} =>
                     IF GivenTo(l, n, {"after="}) # {}
                     THEN NamesGiven(l, {"after="}) = s /\ NamesGiven(l, {"not_after="}) = <<>>
                     ELSE NamesGiven(l, {"after="}) = <<>> /\ NamesGiven(l, {"not_after="}) = s
<1> DEFINE n == Len(OptionsOf(l))
           G == GivenTo(l, n, Predicates)
           A == GivenTo(l, n, {"after="})
           N == GivenTo(l, n, {"not_after="})
           NT(words) == NamesTo(l, n, words)
<1>1. n \in Nat
  BY OptionsTyped
<1>2. \A o \in 1..n : ~OptionWrong(l, o)
  BY RuleMistakes
<1>3. \A o, p \in 1..n : p < o => SortOf(OptionsOf(l)[p].word) # SortOf(OptionsOf(l)[o].word)
  <2> SUFFICES ASSUME NEW o \in 1..n, NEW p \in 1..n, p < o
               PROVE  SortOf(OptionsOf(l)[p].word) # SortOf(OptionsOf(l)[o].word)
    OBVIOUS
  <2>1. ~OptionWrong(l, o)
    BY <1>2
  <2>2. p \in 1..(o - 1)
    BY <1>1
  <2> QED BY <2>1, <2>2 DEF OptionWrong
<1>4. \A v \in Predicates : SortOf(v) = "predicate"
  BY DEF Predicates, SortOf
<1>5. \A o, p \in G : o = p
  <2> SUFFICES ASSUME NEW o \in G, NEW p \in G PROVE o = p
    OBVIOUS
  <2>1. o \in 1..n /\ p \in 1..n /\ OptionsOf(l)[o].word \in Predicates /\ OptionsOf(l)[p].word \in Predicates
    BY DEF GivenTo
  <2>2. SortOf(OptionsOf(l)[p].word) = SortOf(OptionsOf(l)[o].word)
    BY <1>4, <2>1
  <2>3. ~(p < o) /\ ~(o < p)
    BY <1>3, <2>1, <2>2
  <2> HIDE DEF G, n
  <2> QED BY <1>1, <2>1, <2>3
<1>6. A \subseteq G /\ N \subseteq G /\ G = A \cup N /\ A \cap N = {}
  BY DEF GivenTo, Predicates
<1>7. NamesGiven(l, {"after="}) = NT({"after="}) /\ NamesGiven(l, {"not_after="}) = NT({"not_after="})
  BY GivenMeans
<1>8. /\ NT({"after="}) = IF A = {} THEN <<>> ELSE OptionsOf(l)[Min(A)].names
      /\ NT({"not_after="}) = IF N = {} THEN <<>> ELSE OptionsOf(l)[Min(N)].names
      /\ NT(Predicates) = IF G = {} THEN <<>> ELSE OptionsOf(l)[Min(G)].names
  BY DEF NamesTo
<1> HIDE DEF G, A, N, n, NT
<1>9. A # {} => A = G /\ N = {}
  BY <1>5, <1>6
<1>10. N # {} => N = G /\ A = {}
  BY <1>5, <1>6
<1>11. G = {} => A = {} /\ N = {}
  BY <1>6
<1>12. G # {} /\ A = {} => N # {}
  BY <1>6
<1>13. G = {} => NT({"after="}) = <<>> /\ NT({"not_after="}) = <<>>
  BY <1>8, <1>11
<1>14. A # {} => NT({"after="}) = NT(Predicates) /\ NT({"not_after="}) = <<>>
  BY <1>8, <1>9
<1>15. G # {} /\ A = {} => NT({"after="}) = <<>> /\ NT({"not_after="}) = NT(Predicates)
  BY <1>8, <1>10, <1>12
<1> QED BY <1>7, <1>13, <1>14, <1>15 DEF G, A, NT, n

\* The predicate of a rule takes the kinds its line names.
LEMMA PredicatesResolved ==
    ASSUME ParseSaid, line = Len(file) + 1, option = 0, NEW i \in 1..Len(rules)
    PROVE  /\ UNION { KindsOf(s.names) : s \in { s \in PredicateSites(i) : s.after } } = Named(RuleLines[i], "after=")
           /\ UNION { KindsOf(s.names) : s \in { s \in PredicateSites(i) : ~s.after } } = Named(RuleLines[i], "not_after=")
<1> DEFINE l == RuleLines[i]
           n == Len(OptionsOf(l))
           P == PredicateSites(i)
           YA == { s \in P : s.after }
           NA == { s \in P : ~s.after }
           A == NamesGiven(l, {"after="})
           N == NamesGiven(l, {"not_after="})
<1>1. /\ file \in Files /\ l \in 1..Len(file) /\ file[l].is = "rule" /\ l \in RuleSet /\ Mistakes(l) = {}
      /\ NumberOf(l) = i /\ \A r \in 1..Len(rules) : NumberOf(RuleLines[r]) = r
  BY AfterLines
<1>2. SitedTo(predicates, Predicates, line - 1) /\ "fragment" \notin Predicates
  BY SitesBetween DEF Predicates
<1>3. /\ Len(predicates) \in Nat /\ ToSet(predicates) = { predicates[j] : j \in 1..Len(predicates) }
      /\ \A j \in 1..Len(predicates) :
            /\ predicates[j].line \in 1..Len(file)
            /\ GivenTo(predicates[j].line, Len(OptionsOf(predicates[j].line)), Predicates) # {}
            /\ predicates[j].rule \in 1..Len(rules) /\ RuleLines[predicates[j].rule] = predicates[j].line
      /\ \A k \in LinesGiving(Predicates) : \E j \in 1..Len(predicates) : predicates[j].line = k
      /\ \A j, k \in 1..Len(predicates) : predicates[j].line = predicates[k].line => j = k
  BY <1>2, SiteOfRule
<1>4. \A j \in 1..Len(predicates) : predicates[j].rule = i <=> predicates[j].line = l
  BY <1>1, <1>3
<1>5. KindsOf(A) = Named(l, "after=") /\ KindsOf(N) = Named(l, "not_after=")
  BY KindsAreNamed
<1>6. P = { s \in ToSet(predicates) : s.rule = i }
  BY DEF PredicateSites
<1>7. KindsOf(<<>>) = {}
  BY DEF KindsOf, ToSet
<1>8. ASSUME GivenTo(l, n, Predicates) = {} PROVE UNION { KindsOf(s.names) : s \in YA } = KindsOf(A) /\ UNION { KindsOf(s.names) : s \in NA } = KindsOf(N)
  <2>1. A = <<>> /\ N = <<>>
    BY <1>1, <1>8, PredicateGiven
  <2>2. P = {}
    <3>1. \A j \in 1..Len(predicates) : predicates[j].line # l
      BY <1>3, <1>8
    <3> HIDE DEF P, l
    <3> QED BY <1>3, <1>4, <1>6, <3>1
  <2>3. YA = {} /\ NA = {}
    BY <2>2
  <2> HIDE DEF P, YA, NA, A, N
  <2> QED BY <1>7, <2>1, <2>3
<1>9. ASSUME GivenTo(l, n, Predicates) # {} PROVE UNION { KindsOf(s.names) : s \in YA } = KindsOf(A) /\ UNION { KindsOf(s.names) : s \in NA } = KindsOf(N)
  <2>1. l \in LinesGiving(Predicates)
    BY <1>1, <1>9, FileTyped DEF LinesGiving
  <2>2. PICK j \in 1..Len(predicates) : predicates[j].line = l
    BY <1>3, <2>1
  <2> DEFINE s == predicates[j]
  <2>3. P = {s}
    <3>1. \A k \in 1..Len(predicates) : predicates[k].rule = i <=> k = j
      BY <1>3, <1>4, <2>2
    <3> HIDE DEF P, l
    <3> QED BY <1>3, <1>6, <3>1
  <2>4. s.names = NamesTo(l, n, Predicates) /\ s.after = (GivenTo(l, n, {"after="}) # {})
    BY <2>2, SitesBetween
  <2>5. CASE GivenTo(l, n, {"after="}) # {}
    <3>1. A = s.names /\ N = <<>>
      BY <1>1, <1>9, <2>4, <2>5, PredicateGiven
    <3>2. s.after = TRUE
      BY <2>4, <2>5
    <3> HIDE DEF s, P, A, N, l
    <3>3. YA = {s} /\ NA = {}
      BY <2>3, <3>2
    <3> HIDE DEF YA, NA
    <3> QED BY <1>7, <3>1, <3>3
  <2>6. CASE GivenTo(l, n, {"after="}) = {}
    <3>1. A = <<>> /\ N = s.names
      BY <1>1, <1>9, <2>4, <2>6, PredicateGiven
    <3>2. s.after = FALSE
      BY <2>4, <2>6
    <3> HIDE DEF s, P, A, N, l
    <3>3. YA = {} /\ NA = {s}
      BY <2>3, <3>2
    <3> HIDE DEF YA, NA
    <3> QED BY <1>7, <3>1, <3>3
  <2> QED BY <2>5, <2>6
<1> QED BY <1>5, <1>8, <1>9

\* A rule of whose fields only those the passes resolve are changed says what its line says.
LEMMA SaidStill ==
    ASSUME NEW rule, NEW l, NEW o, SaidTo(rule, l, o), NEW r, DOMAIN r = DOMAIN rule,
           \A f \in RuleFields \ {"after", "notAfter", "continuation"} : r[f] = rule[f]
    PROVE  SaidTo(r, l, o) /\ r.kind = rule.kind
<1>1. DOMAIN r = RuleFields
  BY DEF SaidTo
<1>2. /\ r.pattern = rule.pattern /\ r.skip = rule.skip /\ r.op = rule.op /\ r.target = rule.target /\ r.modes = rule.modes
      /\ r.lineStart = rule.lineStart /\ r.indent = rule.indent /\ r.extend = rule.extend /\ r.kind = rule.kind
  BY DEF RuleFields
<1> QED BY <1>1, <1>2 DEF SaidTo

\* The rules with their names resolved are still those of the lines.
LEMMA RulesResolved ==
    ASSUME ParseSaid, line = Len(file) + 1, option = 0, NEW new, new = [i \in 1..Len(rules) |-> new[i]],
           \A i \in 1..Len(rules) :
               SaidTo(new[i], RuleLines[i], Len(OptionsOf(RuleLines[i]))) /\ new[i].kind = rules[i].kind
    PROVE  RulesTo(new, names, line - 1) /\ new \in Seq(ToSet(new)) /\ Len(new) = Len(rules)
<1> DEFINE n == Len(rules)
           T == { new[i] : i \in 1..n }
<1>1. n \in Nat
  BY AfterLines
<1>2. new \in Seq(T) /\ Len(new) = n
  <2>1. \A i \in 1..n : new[i] \in T
    OBVIOUS
  <2>2. new = [i \in 1..n |-> new[i]]
    OBVIOUS
  <2> HIDE DEF n, T
  <2>3. new \in [1..n -> T]
    BY <2>1, <2>2
  <2> QED BY <1>1, <2>3
<1>3. IsSequence(new)
  BY <1>2, TypedSequence
<1>4. /\ RuleLines = RuleLinesTo(line - 1) /\ IsSequence(names) /\ Len(names) = Len(rules) /\ Len(rules) = Len(RuleLines)
      /\ \A r \in 1..Len(rules) : rules[r].kind = r - 1 /\ names[r] = file[RuleLines[r]].name
  BY AfterLines DEF ParseSaid, RulesTo
<1> HIDE DEF n, T
<1>5. \A r \in 1..Len(new) :
         LET l == RuleLinesTo(line - 1)[r]
         IN  SaidTo(new[r], l, Len(OptionsOf(l))) /\ new[r].kind = r - 1 /\ names[r] = file[l].name
  BY <1>2, <1>4 DEF n
<1> QED BY <1>2, <1>3, <1>4, <1>5 DEF RulesTo, IsSequence, n

LEMMA ResolvePredicatesKeeps ==
    ASSUME ParseSaid, ResolvePredicates
    PROVE  IF pass' = "refused" THEN RefusedSaid' ELSE ParseSaid'
<1>0. pass = "predicates"
  BY DEF ResolvePredicates, Pass, PassTo
<1>1. line = Len(file) + 1 /\ option = 0 /\ PassesSaid
  BY <1>0, PastLines
<1>2. SitedTo(predicates, Predicates, line - 1) /\ "fragment" \notin Predicates
  BY <1>1, SitesBetween DEF Predicates
<1>3. Len(predicates) \in Nat /\ DOMAIN predicates = 1..Len(predicates)
      /\ ToSet(predicates) = { predicates[i] : i \in 1..Len(predicates) }
  BY <1>1, <1>2, SiteOfRule
<1>4. /\ Dangling[2] = {} <=> \A i \in 1..Len(predicates) : predicates[i] \notin NamesNoRule
      /\ \A i \in 1..Len(predicates) :
            predicates[i] \in NamesNoRule /\ (\A j \in 1..(i - 1) : predicates[j] \notin NamesNoRule)
               => predicates[i].line = Min(Dangling[2])
  <2> DEFINE D == Dangling[2]
             N == NamesNoRule
  <2>1. D \subseteq LinesGiving(Predicates) /\ \A i \in 1..Len(predicates) : predicates[i] \in N <=> predicates[i].line \in D
    BY <1>1, PredicatesDangle
  <2>2. ParseSaid
    OBVIOUS
  <2> HIDE DEF D, N
  <2>4. D = {} <=> \A i \in 1..Len(predicates) : predicates[i] \notin N
    BY ONLY <1>1, <1>2, <2>2, <2>1, FirstSite
  <2>5. \A i \in 1..Len(predicates) :
            predicates[i] \in N /\ (\A j \in 1..(i - 1) : predicates[j] \notin N) => predicates[i].line = Min(D)
    BY ONLY <1>1, <1>2, <2>2, <2>1, FirstSite
  <2> QED BY <2>4, <2>5 DEF D, N
<1>5. Beyond(1) /\ ~Beyond(2) /\ ~Beyond(3) /\ ~Beyond(4)
  BY <1>0 DEF Beyond
<1>6. Dangling[1] = {}
  <2>1. \A p \in 1..4 : Beyond(p) => Dangling[p] = {}
    BY <1>1 DEF PassesSaid
  <2> QED BY <1>5, <2>1
<1>7. CASE Pass("predicates", predicates, NamesNoRule)
  <2>1. 2 \in 1..4 /\ \A q \in 1..(2 - 1) : Dangling[q] = {}
    <3>1. \A q \in 1..(2 - 1) : q = 1
      OBVIOUS
    <3> QED BY <1>6, <3>1
  <2>2. RefusedSaid'
    BY <1>1, <1>3, <1>4, <1>7, <2>1, RefusedInPass
  <2>3. pass' = "refused"
    BY <1>7 DEF Pass, Refuse
  <2> QED BY <2>2, <2>3
<1> DEFINE YA(i) == UNION { KindsOf(s.names) : s \in { s \in PredicateSites(i) : s.after } }
           NA(i) == UNION { KindsOf(s.names) : s \in { s \in PredicateSites(i) : ~s.after } }
<1>8. CASE /\ PassTo("predicates", "continuations", NamesNoRule)
           /\ rules' = [ i \in DOMAIN rules |-> [ rules[i] EXCEPT !.after = YA(i), !.notAfter = NA(i) ] ]
           /\ UNCHANGED insignificant
  <2>1. pass' = "continuations" /\ NamesNoRule = {} /\ UNCHANGED <<file, line, lineVars, names, siteVars, insignificant>>
    BY <1>8 DEF PassTo
  <2>2. Dangling[2] = {}
    BY <1>4, <2>1
  <2>3. Beyond(1)' /\ Beyond(2)' /\ ~Beyond(3)' /\ ~Beyond(4)'
    BY <2>1 DEF Beyond
  <2>4. \A p \in 1..4 : Beyond(p)' => Dangling[p] = {}
    <3>1. \A p \in 1..4 : p = 1 \/ p = 2 \/ p = 3 \/ p = 4
      OBVIOUS
    <3> QED BY <1>6, <2>2, <2>3, <3>1
  <2>5. /\ DOMAIN rules = 1..Len(rules) /\ RuleLines = RuleLinesTo(line - 1)
        /\ \A i \in 1..Len(rules) : SaidTo(rules[i], RuleLines[i], Len(OptionsOf(RuleLines[i])))
    BY <1>1, AfterLines
  <2>6. rules' = [i \in 1..Len(rules) |-> rules'[i]]
        /\ \A i \in 1..Len(rules) : rules'[i] = [ rules[i] EXCEPT !.after = YA(i), !.notAfter = NA(i) ]
    <3> HIDE DEF YA, NA
    <3> QED BY <1>8, <2>5
  <2>7. ASSUME NEW i \in 1..Len(rules)
        PROVE  /\ SaidTo(rules'[i], RuleLines[i], Len(OptionsOf(RuleLines[i]))) /\ rules'[i].kind = rules[i].kind
               /\ rules'[i].after = YA(i) /\ rules'[i].notAfter = NA(i) /\ rules'[i].continuation = rules[i].continuation
    <3>1. rules'[i] = [ rules[i] EXCEPT !.after = YA(i), !.notAfter = NA(i) ]
      BY <2>6
    <3>2. SaidTo(rules[i], RuleLines[i], Len(OptionsOf(RuleLines[i])))
      BY <2>5
    <3> DEFINE a == YA(i)
               b == NA(i)
               q == rules[i]
               r == rules'[i]
    <3>3. r = [q EXCEPT !.after = a, !.notAfter = b]
      BY <3>1
    <3>4. DOMAIN q = RuleFields
      BY <3>2 DEF SaidTo
    <3> HIDE DEF a, b, q, r
    <3>5. /\ DOMAIN r = DOMAIN q /\ \A f \in RuleFields \ {"after", "notAfter", "continuation"} : r[f] = q[f]
          /\ r.after = a /\ r.notAfter = b /\ r.continuation = q.continuation
      BY <3>3, <3>4 DEF RuleFields
    <3>6. SaidTo(r, RuleLines[i], Len(OptionsOf(RuleLines[i]))) /\ r.kind = q.kind
      BY <3>2, <3>5, SaidStill DEF q
    <3> QED BY <3>5, <3>6 DEF a, b, q, r
  <2>8. \A i \in 1..Len(rules) : YA(i) = Named(RuleLines[i], "after=") /\ NA(i) = Named(RuleLines[i], "not_after=")
    BY <1>1, PredicatesResolved
  <2> HIDE DEF YA, NA
  <2>9. RulesTo(rules', names, line - 1) /\ rules' \in Seq(ToSet(rules')) /\ Len(rules') = Len(rules)
    BY <1>1, <2>6, <2>7, RulesResolved
  <2>10. \A r \in 1..Len(rules) : rules[r].continuation = ""
    BY <1>1, <1>5 DEF PassesSaid
  <2>11. \A r \in 1..Len(rules) : /\ rules'[r].after = Named(RuleLinesTo(line - 1)[r], "after=")
                                  /\ rules'[r].notAfter = Named(RuleLinesTo(line - 1)[r], "not_after=")
                                  /\ rules'[r].continuation = ""
    BY <2>5, <2>7, <2>8, <2>10
  <2>12. insignificant' = <<>>
    BY <1>1, <1>5, <2>1 DEF PassesSaid
  <2>13. PassesSaid'
    BY <1>0, <2>1, <2>3, <2>4, <2>9, <2>11, <2>12, PassesNext
  <2>14. ParseSaid'
    BY <1>1, <2>1, <2>9, <2>13, PassKeeps
  <2> QED BY <2>1, <2>14
<1> QED BY <1>7, <1>8 DEF ResolvePredicates

\* The least of what an ascending sequence has at some places is at the first of them.
LEMMA FirstOfPlaces ==
    ASSUME NEW m \in Nat, NEW L, NEW P, P \subseteq 1..m, P # {}, \A i \in 1..m : L[i] \in Nat,
           \A i, j \in 1..m : i < j => L[i] < L[j], NEW S, \A x : x \in S <=> \E i \in P : x = L[i]
    PROVE  Min(P) \in P /\ Min(S) = L[Min(P)] /\ S # {}
<1>1. P \in SUBSET Nat
  OBVIOUS
<1>2. Min(P) \in P /\ \A i \in P : Min(P) <= i
  BY <1>1, MinOfNaturals
<1> DEFINE k == Min(P)
<1> HIDE DEF k
<1>3. k \in P /\ \A i \in P : k <= i
  BY <1>2 DEF k
<1>4. S \in SUBSET Nat /\ L[k] \in S
  BY <1>3
<1>5. ASSUME NEW y \in S PROVE L[k] <= y
  <2>1. PICK i \in P : y = L[i]
    OBVIOUS
  <2>2. i \in 1..m /\ k \in 1..m /\ (k = i \/ k < i)
    BY <1>3, <2>1
  <2>3. L[k] \in Nat /\ L[i] \in Nat
    BY <2>2
  <2> QED BY <2>1, <2>2, <2>3
<1>6. Min(S) = L[k]
  BY <1>4, <1>5, MinIs
<1> QED BY <1>3, <1>4, <1>6 DEF k

\* Where names are found, the pattern of a name is that of the first line that bears it.
LEMMA PatternOfLine ==
    ASSUME ParseSaid, line = Len(file) + 1, option = 0, NEW l \in 1..Len(file), file[l].is = "rule", Mistakes(l) = {},
           GivenTo(l, Len(OptionsOf(l)), {"continue="}) # {},
           NamesGiven(l, {"continue="})[1] \in RuleNames \cup { file[f].name : f \in FragmentLines }
    PROVE  Continued(l) = PatternOf(NamesGiven(l, {"continue="})[1])
<1> DEFINE W == {"continue="}
           s == NamesGiven(l, W)
           x == s[1]
           bears(lines) == { k \in lines : <<file[k].name>> = s }
           F == { i \in DOMAIN fragments : fragments[i].name = x }
           B == Bearers(names, x)
<1>1. file \in Files
  BY AfterLines
<1>2. s \in Seq(STRING) /\ Len(s) = 1 /\ s = NamesTo(l, Len(OptionsOf(l)), W)
  <2>1. W \subseteq {"push=", "set="} \cup OneName
    BY DEF OneName
  <2>2. NamesGiven(l, W) = NamesTo(l, Len(OptionsOf(l)), W)
    BY <1>1, GivenMeans
  <2>3. GivenTo(l, Len(OptionsOf(l)), W) # {}
    OBVIOUS
  <2> HIDE DEF W
  <2> QED BY <1>1, <2>1, <2>2, <2>3, OneNamed
<1>3. \A v : <<v>> = s <=> v = x
  <2> HIDE DEF s
  <2> QED BY <1>2
<1>4. Gives(l, "continue=")
  BY <1>1, GivenMeans
<1>5. Continued(l) = file[Min(IF bears(FragmentLines) # {} THEN bears(FragmentLines) ELSE bears(ToSet(RuleLines)))].pattern
  BY <1>4 DEF Continued
<1>6. PatternOf(x) = IF F # {} THEN fragments[Min(F)].pattern ELSE rules[Min(B)].pattern
  BY DEF PatternOf
<1> HIDE DEF s, x, W
<1>7. \A lines : bears(lines) = { k \in lines : file[k].name = x }
  BY <1>3
<1>8. CASE F # {}
  <2> DEFINE m == Len(fragments)
             L == FragmentsTo(Len(file))
             S == bears(FragmentLines)
  <2>1. /\ DOMAIN fragments = 1..m /\ m \in Nat
        /\ \A i \in 1..m : /\ L[i] \in FragmentLines /\ L[i] \in 1..Len(file)
                           /\ fragments[i].name = file[L[i]].name /\ fragments[i].pattern = file[L[i]].pattern
        /\ \A f \in FragmentLines : \E i \in 1..m : L[i] = f
        /\ \A i, j \in 1..m : i < j => L[i] < L[j]
    BY FragmentsNoted
  <2>2. F \subseteq 1..m /\ \A i \in 1..m : i \in F <=> file[L[i]].name = x
    BY <2>1
  <2>3. \A k : k \in S <=> k \in FragmentLines /\ file[k].name = x
    BY <1>7
  <2> HIDE DEF F, m, L, S, bears
  <2>4. \A k : k \in S <=> \E i \in F : k = L[i]
    BY <2>1, <2>2, <2>3
  <2>5. \A i \in 1..m : L[i] \in Nat
    <3>1. \A i \in 1..m : L[i] \in 1..Len(file)
      BY <2>1
    <3> QED BY <3>1
  <2>6. Min(F) \in F /\ Min(S) = L[Min(F)] /\ S # {}
    <3>1. m \in Nat /\ \A i, j \in 1..m : i < j => L[i] < L[j]
      BY <2>1
    <3>2. F \subseteq 1..m /\ F # {}
      BY <1>8, <2>2
    <3> QED BY ONLY <2>4, <2>5, <3>1, <3>2, FirstOfPlaces
  <2>7. Continued(l) = file[Min(S)].pattern
    BY <1>5, <2>6 DEF S
  <2> QED BY <1>6, <1>8, <2>1, <2>2, <2>6, <2>7 DEF x, s, W
<1>9. CASE F = {}
  <2> DEFINE m == Len(rules)
             S == bears(ToSet(RuleLines))
  <2>1. /\ m \in Nat /\ DOMAIN names = 1..m /\ ToSet(RuleLines) = RuleSet /\ DOMAIN RuleLines = 1..m
        /\ \A r \in 1..m : RuleLines[r] \in 1..Len(file) /\ names[r] = file[RuleLines[r]].name
                           /\ SaidTo(rules[r], RuleLines[r], Len(OptionsOf(RuleLines[r])))
    BY AfterLines
  <2>2. \A r \in 1..m : rules[r].pattern = file[RuleLines[r]].pattern
    BY <2>1 DEF SaidTo
  <2>3. \A i, j \in 1..m : i < j => RuleLines[i] < RuleLines[j]
    <3> DEFINE n == Len(file)
               R == RuleSet
               A == Ascending(R, 1, n)
    <3>1. RuleLines = A /\ n \in Nat /\ Len(A) = m
      <4>1. RuleLines = RuleLinesTo(line - 1) /\ line - 1 = Len(file) /\ Len(rules) = Len(RuleLines) /\ Len(file) \in Nat
        BY AfterLines
      <4> QED BY <4>1 DEF RuleLinesTo
    <3> HIDE DEF n, R
    <3>2. \A i, j \in 1..Len(A) : i < j => A[i] < A[j]
      <4>1. 1 \in Int /\ n \in Int /\ n >= 1 - 1
        BY <3>1
      <4> QED BY <4>1, AscendingMembers
    <3> HIDE DEF A, m
    <3> QED BY <3>1, <3>2
  <2>4. bears(FragmentLines) = {}
    <3>1. \A f \in FragmentLines : file[f].name # x
      <4> SUFFICES ASSUME NEW f \in FragmentLines, file[f].name = x PROVE FALSE
        OBVIOUS
      <4>1. PICK i \in 1..Len(fragments) : FragmentsTo(Len(file))[i] = f
        BY FragmentsNoted
      <4>2. i \in DOMAIN fragments /\ fragments[i].name = x
        BY <4>1, FragmentsNoted
      <4> QED BY <1>9, <4>2
    <3> QED BY <1>7, <3>1
  <2>5. Continued(l) = file[Min(S)].pattern
    BY <1>5, <2>4
  <2>6. x \in RuleNames
    <3>1. x \in RuleNames \cup { file[f].name : f \in FragmentLines }
      BY DEF x, s, W
    <3>2. \A f \in FragmentLines : file[f].name # x
      BY <1>7, <2>4
    <3> QED BY <3>1, <3>2
  <2>7. B = { i \in 1..m : names[i] = x }
    BY <2>1 DEF Bearers
  <2>8. B # {} /\ B \subseteq 1..m
    BY <2>1, <2>6, <2>7 DEF RuleNames
  <2>9. \A k : k \in S <=> \E i \in B : k = RuleLines[i]
    <3>1. \A k : k \in S <=> k \in ToSet(RuleLines) /\ file[k].name = x
      BY <1>7
    <3>2. \A k : k \in ToSet(RuleLines) <=> \E i \in 1..m : k = RuleLines[i]
      BY <2>1 DEF ToSet
    <3>3. \A i \in 1..m : names[i] = file[RuleLines[i]].name
      BY <2>1
    <3> HIDE DEF S, B, m
    <3>4. \A i \in 1..m : i \in B <=> file[RuleLines[i]].name = x
      BY <2>7, <3>3
    <3>5. B \subseteq 1..m
      BY <2>8
    <3> QED BY ONLY <3>1, <3>2, <3>4, <3>5
  <2>10. \A i \in 1..m : RuleLines[i] \in Nat
    BY <2>1
  <2> HIDE DEF S, B, m
  <2>11. Min(B) \in B /\ Min(S) = RuleLines[Min(B)] /\ S # {}
    <3> DEFINE L == RuleLines
    <3>1. m \in Nat /\ (\A i \in 1..m : L[i] \in Nat) /\ \A i, j \in 1..m : i < j => L[i] < L[j]
      BY <2>1, <2>3, <2>10
    <3>2. \A k : k \in S <=> \E i \in B : k = L[i]
      BY <2>9
    <3> HIDE DEF L
    <3>3. Min(B) \in B /\ Min(S) = L[Min(B)] /\ S # {}
      BY ONLY <2>8, <3>1, <3>2, FirstOfPlaces
    <3> QED BY <3>3 DEF L
  <2> QED BY <1>6, <1>9, <2>2, <2>5, <2>8, <2>11 DEF x, s, W
<1> QED BY <1>8, <1>9

\* What a rule continues with is what its line names.
LEMMA ContinuationsResolved ==
    ASSUME ParseSaid, line = Len(file) + 1, option = 0, Dangling[3] = {}, NEW i \in 1..Len(rules)
    PROVE  LET sites == { s \in ToSet(continuations) : s.rule = i }
           IN  /\ sites = {} => Continued(RuleLines[i]) = ""
               /\ sites # {} => Continued(RuleLines[i]) = PatternOf((CHOOSE s \in sites : TRUE).name)
<1> DEFINE l == RuleLines[i]
           W == {"continue="}
           n == Len(OptionsOf(l))
           S == { s \in ToSet(continuations) : s.rule = i }
           x == NamesGiven(l, W)[1]
<1>1. /\ file \in Files /\ l \in 1..Len(file) /\ file[l].is = "rule" /\ l \in RuleSet /\ Mistakes(l) = {}
      /\ NumberOf(l) = i /\ (\A r \in 1..Len(rules) : NumberOf(RuleLines[r]) = r) /\ ToSet(RuleLines) = RuleSet
  BY AfterLines
<1>2. /\ Len(continuations) \in Nat /\ ToSet(continuations) = { continuations[j] : j \in 1..Len(continuations) }
      /\ \A j \in 1..Len(continuations) :
            /\ continuations[j].line \in 1..Len(file)
            /\ GivenTo(continuations[j].line, Len(OptionsOf(continuations[j].line)), W) # {}
            /\ continuations[j].rule \in 1..Len(rules) /\ RuleLines[continuations[j].rule] = continuations[j].line
      /\ \A k \in LinesGiving(W) : \E j \in 1..Len(continuations) : continuations[j].line = k
  <2>1. SitedTo(continuations, W, line - 1)
    BY SitesBetween
  <2>2. "fragment" \notin W
    OBVIOUS
  <2> HIDE DEF W
  <2> QED BY <2>1, <2>2, SiteOfRule
<1>3. \A j \in 1..Len(continuations) : continuations[j].rule = i <=> continuations[j].line = l
  BY <1>1, <1>2
<1>4. Gives(l, "continue=") <=> GivenTo(l, n, W) # {}
  BY <1>1, GivenMeans
<1>5. \A j \in 1..Len(continuations) : continuations[j].name = NamesTo(continuations[j].line, Len(OptionsOf(continuations[j].line)), W)[1]
  BY SitesBetween
<1>6. NamesGiven(l, W) = NamesTo(l, n, W)
  BY <1>1, GivenMeans
<1>7. \A s \in S : s.name = x /\ GivenTo(l, n, W) # {}
  <2> SUFFICES ASSUME NEW s \in S PROVE s.name = x /\ GivenTo(l, n, W) # {}
    OBVIOUS
  <2>1. PICK j \in 1..Len(continuations) : s = continuations[j] /\ s.rule = i
    BY <1>2
  <2>2. continuations[j].line = l
    BY <1>3, <2>1
  <2> QED BY <1>2, <1>5, <1>6, <2>1, <2>2
<1>8. GivenTo(l, n, W) # {} => S # {}
  <2> SUFFICES ASSUME GivenTo(l, n, W) # {} PROVE S # {}
    OBVIOUS
  <2>1. l \in LinesGiving(W)
    BY <1>1, FileTyped DEF LinesGiving
  <2>2. PICK j \in 1..Len(continuations) : continuations[j].line = l
    BY <1>2, <2>1
  <2>3. continuations[j] \in ToSet(continuations) /\ continuations[j].rule = i
    BY <1>2, <1>3, <2>2
  <2> QED BY <2>3
<1>9. CASE S = {}
  <2>1. ~Gives(l, "continue=")
    BY <1>4, <1>8, <1>9
  <2>2. Continued(l) = ""
    BY <2>1 DEF Continued
  <2> QED BY <1>9, <2>2
<1>10. CASE S # {}
  <2>1. (CHOOSE s \in S : TRUE) \in S
    BY <1>10
  <2>2. (CHOOSE s \in S : TRUE).name = x /\ GivenTo(l, n, W) # {}
    BY <1>7, <2>1
  <2>3. x \in RuleNames \cup { file[f].name : f \in FragmentLines }
    <3> DEFINE F == { file[f].name : f \in FragmentLines }
    <3>1. l \in ToSet(RuleLines) /\ Gives(l, "continue=")
      BY <1>1, <1>4, <2>2
    <3>2. \A k \in ToSet(RuleLines) : Gives(k, "continue=") => NamesGiven(k, W)[1] \in RuleNames \cup F
      BY DEF Dangling
    <3> QED BY <3>1, <3>2
  <2>4. Continued(l) = PatternOf(x)
    BY <1>1, <2>2, <2>3, PatternOfLine
  <2> HIDE DEF S, x, l
  <2>5. Continued(l) = PatternOf((CHOOSE s \in S : TRUE).name)
    BY <2>2, <2>4
  <2> QED BY <1>10, <2>5 DEF S, l
<1> QED BY <1>9, <1>10

LEMMA ResolveContinuationsKeeps ==
    ASSUME ParseSaid, ResolveContinuations
    PROVE  IF pass' = "refused" THEN RefusedSaid' ELSE ParseSaid'
<1> DEFINE W == {"continue="}
<1>0. pass = "continuations"
  BY DEF ResolveContinuations, Pass, PassTo
<1>1. line = Len(file) + 1 /\ option = 0 /\ PassesSaid
  BY <1>0, PastLines
<1>2. SitedTo(continuations, W, line - 1) /\ "fragment" \notin W
  BY <1>1, SitesBetween
<1>3. Len(continuations) \in Nat /\ DOMAIN continuations = 1..Len(continuations)
      /\ ToSet(continuations) = { continuations[i] : i \in 1..Len(continuations) }
  <2> HIDE DEF W
  <2> QED BY <1>1, <1>2, SiteOfRule
<1>4. /\ Dangling[3] = {} <=> \A i \in 1..Len(continuations) : continuations[i] \notin ContinuesNothing
      /\ \A i \in 1..Len(continuations) :
            continuations[i] \in ContinuesNothing /\ (\A j \in 1..(i - 1) : continuations[j] \notin ContinuesNothing)
               => continuations[i].line = Min(Dangling[3])
  <2> DEFINE D == Dangling[3]
             N == ContinuesNothing
  <2>1. D \subseteq LinesGiving(W) /\ \A i \in 1..Len(continuations) : continuations[i] \in N <=> continuations[i].line \in D
    BY <1>1, ContinuationsDangle
  <2>2. ParseSaid
    OBVIOUS
  <2> HIDE DEF D, N, W
  <2>4. D = {} <=> \A i \in 1..Len(continuations) : continuations[i] \notin N
    BY ONLY <1>1, <1>2, <2>2, <2>1, FirstSite
  <2>5. \A i \in 1..Len(continuations) :
            continuations[i] \in N /\ (\A j \in 1..(i - 1) : continuations[j] \notin N) => continuations[i].line = Min(D)
    BY ONLY <1>1, <1>2, <2>2, <2>1, FirstSite
  <2> QED BY <2>4, <2>5 DEF D, N
<1>5. Beyond(1) /\ Beyond(2) /\ ~Beyond(3) /\ ~Beyond(4)
  BY <1>0 DEF Beyond
<1>6. Dangling[1] = {} /\ Dangling[2] = {}
  <2>1. \A p \in 1..4 : Beyond(p) => Dangling[p] = {}
    BY <1>1 DEF PassesSaid
  <2> QED BY <1>5, <2>1
<1>7. CASE Pass("continuations", continuations, ContinuesNothing)
  <2>1. 3 \in 1..4 /\ \A q \in 1..(3 - 1) : Dangling[q] = {}
    <3>1. \A q \in 1..(3 - 1) : q = 1 \/ q = 2
      OBVIOUS
    <3> QED BY <1>6, <3>1
  <2>2. RefusedSaid'
    BY <1>1, <1>3, <1>4, <1>7, <2>1, RefusedInPass
  <2>3. pass' = "refused"
    BY <1>7 DEF Pass, Refuse
  <2> QED BY <2>2, <2>3
<1> DEFINE Sites(i) == { s \in ToSet(continuations) : s.rule = i }
           c(i) == PatternOf((CHOOSE s \in Sites(i) : TRUE).name)
<1>8. CASE /\ PassTo("continuations", "directives", ContinuesNothing)
           /\ rules' = [ i \in DOMAIN rules |->
                           IF Sites(i) = {} THEN rules[i] ELSE [rules[i] EXCEPT !.continuation = c(i)] ]
           /\ UNCHANGED insignificant
  <2>1. pass' = "directives" /\ ContinuesNothing = {} /\ UNCHANGED <<file, line, lineVars, names, siteVars, insignificant>>
    BY <1>8 DEF PassTo
  <2>2. Dangling[3] = {}
    BY <1>4, <2>1
  <2>3. Beyond(1)' /\ Beyond(2)' /\ Beyond(3)' /\ ~Beyond(4)'
    BY <2>1 DEF Beyond
  <2>4. \A p \in 1..4 : Beyond(p)' => Dangling[p] = {}
    <3>1. \A p \in 1..4 : p = 1 \/ p = 2 \/ p = 3 \/ p = 4
      OBVIOUS
    <3> QED BY <1>6, <2>2, <2>3, <3>1
  <2>5. /\ DOMAIN rules = 1..Len(rules) /\ RuleLines = RuleLinesTo(line - 1)
        /\ \A i \in 1..Len(rules) : SaidTo(rules[i], RuleLines[i], Len(OptionsOf(RuleLines[i])))
    BY <1>1, AfterLines
  <2>6. rules' = [i \in 1..Len(rules) |-> rules'[i]]
        /\ \A i \in 1..Len(rules) : rules'[i] = IF Sites(i) = {} THEN rules[i] ELSE [rules[i] EXCEPT !.continuation = c(i)]
    <3> HIDE DEF Sites, c
    <3> QED BY <1>8, <2>5
  <2>7. \A i \in 1..Len(rules) : rules[i].continuation = ""
    BY <1>1, <1>5 DEF PassesSaid
  <2>8. ASSUME NEW i \in 1..Len(rules)
        PROVE  /\ SaidTo(rules'[i], RuleLines[i], Len(OptionsOf(RuleLines[i]))) /\ rules'[i].kind = rules[i].kind
               /\ rules'[i].after = rules[i].after /\ rules'[i].notAfter = rules[i].notAfter
               /\ rules'[i].continuation = Continued(RuleLines[i])
    <3> DEFINE b == c(i)
               q == rules[i]
               r == rules'[i]
    <3>1. /\ Sites(i) = {} => Continued(RuleLines[i]) = ""
          /\ Sites(i) # {} => Continued(RuleLines[i]) = c(i)
      BY <1>1, <2>2, ContinuationsResolved
    <3>2. SaidTo(q, RuleLines[i], Len(OptionsOf(RuleLines[i]))) /\ q.continuation = ""
      BY <2>5, <2>7
    <3>3. r = IF Sites(i) = {} THEN q ELSE [q EXCEPT !.continuation = b]
      BY <2>6
    <3>4. DOMAIN q = RuleFields
      BY <3>2 DEF SaidTo
    <3>5. Continued(RuleLines[i]) = IF Sites(i) = {} THEN "" ELSE b
      BY <3>1
    <3> HIDE DEF b, q, r, Sites
    <3>6. /\ DOMAIN r = DOMAIN q /\ \A f \in RuleFields \ {"after", "notAfter", "continuation"} : r[f] = q[f]
          /\ r.after = q.after /\ r.notAfter = q.notAfter /\ r.continuation = IF Sites(i) = {} THEN "" ELSE b
      BY <3>2, <3>3, <3>4 DEF RuleFields
    <3>7. SaidTo(r, RuleLines[i], Len(OptionsOf(RuleLines[i]))) /\ r.kind = q.kind
      BY <3>2, <3>6, SaidStill DEF q
    <3>8. r.continuation = Continued(RuleLines[i])
      BY <3>5, <3>6
    <3> QED BY <3>6, <3>7, <3>8 DEF q, r
  <2> HIDE DEF Sites, c
  <2>9. RulesTo(rules', names, line - 1) /\ rules' \in Seq(ToSet(rules')) /\ Len(rules') = Len(rules)
    BY <1>1, <2>6, <2>8, RulesResolved
  <2>10. \A r \in 1..Len(rules) : /\ rules[r].after = Named(RuleLinesTo(line - 1)[r], "after=")
                                  /\ rules[r].notAfter = Named(RuleLinesTo(line - 1)[r], "not_after=")
    BY <1>1, <1>5 DEF PassesSaid
  <2>11. \A r \in 1..Len(rules) : /\ rules'[r].after = Named(RuleLinesTo(line - 1)[r], "after=")
                                  /\ rules'[r].notAfter = Named(RuleLinesTo(line - 1)[r], "not_after=")
                                  /\ rules'[r].continuation = Continued(RuleLinesTo(line - 1)[r])
    BY <2>5, <2>8, <2>10
  <2>12. insignificant' = <<>>
    BY <1>1, <1>5, <2>1 DEF PassesSaid
  <2>13. PassesSaid'
    BY <1>0, <2>1, <2>3, <2>4, <2>9, <2>11, <2>12, PassesNext
  <2>14. ParseSaid'
    BY <1>1, <2>1, <2>9, <2>13, PassKeeps
  <2> QED BY <2>1, <2>14
<1> QED BY <1>7, <1>8 DEF ResolveContinuations

-----------------------------------------------------------------------------
(* A grammar means what its lines say *)

LEMMA ParseStarts ==
    ASSUME ParseInit
    PROVE  ParseInv
<1>1. /\ file \in Files /\ line = 1 /\ option = 0 /\ pass = "lines" /\ insignificant = <<>>
      /\ rules = <<>> /\ names = <<>> /\ transitions = <<>> /\ predicates = <<>> /\ fragments = <<>>
      /\ continuations = <<>> /\ directives = <<>>
  BY DEF ParseInit
<1>2. Len(file) \in Nat /\ line - 1 = 0 /\ \A i : i \notin 1..Len(<<>>)
  BY <1>1, FileTyped
<1>3. Place
  <2>1. \A l : l \notin 1..(line - 1)
    BY <1>2
  <2>2. line \in 1..(Len(file) + 1)
    BY <1>1, <1>2
  <2> QED BY <1>1, <2>1, <2>2 DEF Place
<1>4. LineSaid
  BY <1>1 DEF LineSaid
<1>5. \A S : Ascending(S, 1, 0) = <<>>
  <2>1. 1 \in Int /\ 1 - 1 = 0
    OBVIOUS
  <2>2. \A S : Ascending(S, 1, 1 - 1) = <<>>
    BY <2>1, AscendingSteps
  <2> QED BY <2>1, <2>2
<1>6. \A words : SitedTo(<<>>, words, 0)
  BY <1>2, <1>5, EmptySequence DEF SitedTo
<1>7. RulesTo(rules, names, line - 1)
  BY <1>1, <1>2, <1>5, EmptySequence DEF RulesTo, RuleLinesTo
<1>8. FragmentsSaid(fragments, line - 1)
  BY <1>1, <1>2, <1>5, EmptySequence DEF FragmentsSaid, FragmentsTo
<1>9. DirectivesTo(directives, line - 1)
  <2>1. Listed(0) \in Seq(Seq(STRING)) /\ Len(Listed(0)) = 0
    <3> DEFINE T == Seq(STRING)
    <3>1. Listed(0) \in [1..0 -> T] /\ DOMAIN Listed(0) = 1..0
      BY DEF Listed
    <3> HIDE DEF T
    <3>2. Listed(0) \in Seq(T) /\ Len(Listed(0)) = 0
      BY <3>1
    <3> QED BY <3>2 DEF T
  <2> DEFINE f == FlattenSeq(Listed(0))
             s == Listed(0)
  <2>2. f \in Seq(STRING) /\ \A x : (\E k \in 1..Len(f) : f[k] = x) <=> \E i \in 1..Len(s) : \E k \in 1..Len(s[i]) : s[i][k] = x
    BY <2>1, FlattenMembers
  <2>3. f = <<>>
    <3>1. \A i : i \notin 1..Len(s)
      BY <2>1
    <3> HIDE DEF s, f
    <3>2. Len(f) \in Nat /\ \A k : k \notin 1..Len(f)
      BY <2>2, <3>1
    <3>3. Len(f) = 0
      BY <3>2
    <3> QED BY <2>2, <3>3
  <2>4. [i \in 1..Len(<<>>) |-> <<>>[i].mode] = <<>>
    OBVIOUS
  <2>5. \A l : l \notin 1..0
    OBVIOUS
  <2> HIDE DEF f
  <2> QED BY <1>1, <1>2, <2>3, <2>4, <2>5, EmptySequence DEF DirectivesTo, f
<1>10. SitesSaid
  <2>1. Noted = 0
    BY <1>1, <1>2 DEF Noted
  <2> QED BY <1>1, <1>2, <1>6, <2>1 DEF SitesSaid
<1>11. PassesSaid
  BY <1>1, <1>2, PassesInLines
<1>12. pass # "refused"
  BY <1>1
<1> QED BY <1>1, <1>3, <1>4, <1>7, <1>8, <1>9, <1>10, <1>11, <1>12 DEF ParseInv, ParseSaid

LEMMA ParseStays ==
    ASSUME ParseInv, UNCHANGED parseVars
    PROVE  ParseInv'
<1>0. /\ file' = file /\ line' = line /\ option' = option /\ read' = read /\ given' = given /\ fragment' = fragment
      /\ continuation' = continuation /\ transition' = transition /\ rules' = rules /\ names' = names
      /\ transitions' = transitions /\ predicates' = predicates /\ fragments' = fragments
      /\ continuations' = continuations /\ directives' = directives
      /\ insignificant' = insignificant /\ pass' = pass /\ refusal' = refusal
  BY DEF parseVars, lineVars, siteVars
<1>1. /\ \A l : OptionsOf(l)' = OptionsOf(l) /\ Mistakes(l)' = Mistakes(l)
      /\ RuleLines' = RuleLines /\ Mistaken' = Mistaken
      /\ \A k : RuleLinesTo(k)' = RuleLinesTo(k)
      /\ \A l, o, words : GivenTo(l, o, words)' = GivenTo(l, o, words) /\ NamesTo(l, o, words)' = NamesTo(l, o, words)
      /\ \A rule, l, o : SaidTo(rule, l, o)' = SaidTo(rule, l, o)
  BY <1>0, FileKept
<1>2. /\ \A said, named, k : RulesTo(said, named, k)' = RulesTo(said, named, k)
      /\ \A sites, k : FragmentsSaid(sites, k)' = FragmentsSaid(sites, k) /\ DirectivesTo(sites, k)' = DirectivesTo(sites, k)
      /\ \A sites, words, k : SitedTo(sites, words, k)' = SitedTo(sites, words, k)
  BY <1>0, FileKept
<1>3. /\ \A l, w : Named(l, w)' = Named(l, w)
      /\ \A l : Continued(l)' = Continued(l)
      /\ Dangling' = Dangling
  BY <1>0, NamesKept
<1>4. Predicates' = Predicates /\ NoName' = NoName
  BY DEF Predicates, NoName
<1>5. RefusedSaid => RefusedSaid'
  BY <1>0, <1>1, <1>3 DEF RefusedSaid
<1>6. ASSUME ParseSaid PROVE ParseSaid'
  <2>1. Place'
    <3>1. Place
      BY <1>6 DEF ParseSaid
    <3> QED BY <1>0, <1>1, <3>1 DEF Place
  <2>2. LineSaid'
    <3>1. LineSaid
      BY <1>6 DEF ParseSaid
    <3>2. SaidTo(read, line, option - 1)' = SaidTo(read, line, option - 1)
      <4>1. SaidTo(read', line', option' - 1) = SaidTo(read, line, option - 1)
        BY <1>0
      <4> QED BY <1>1, <4>1
    <3>3. OptionsOf(line)' = OptionsOf(line) /\ Mistakes(line)' = Mistakes(line)
      BY <1>0, <1>1
    <3>4. \A words : GivenTo(line, option - 1, words)' = GivenTo(line, option - 1, words)
                     /\ NamesTo(line, option - 1, words)' = NamesTo(line, option - 1, words)
      BY <1>0, <1>1
    <3> QED BY <1>0, <1>4, <3>1, <3>2, <3>3, <3>4 DEF LineSaid, Unresolved
  <2>3. RulesTo(rules, names, line - 1)' /\ FragmentsSaid(fragments, line - 1)' /\ DirectivesTo(directives, line - 1)'
    <3>1. RulesTo(rules', names', line' - 1) /\ FragmentsSaid(fragments', line' - 1) /\ DirectivesTo(directives', line' - 1)
      BY <1>0, <1>6 DEF ParseSaid
    <3> QED BY <1>2, <3>1
  <2>4. SitesSaid'
    <3>1. SitesSaid
      BY <1>6 DEF ParseSaid
    <3>2. Noted' = Noted /\ \A l : ReadTo(l)' = ReadTo(l)
      BY <1>0, <1>1, <1>4 DEF Noted, ReadTo
    <3>3. /\ SitedTo(transitions', {"push=", "set="}, line' - 1) /\ SitedTo(continuations', {"continue="}, line' - 1)
          /\ SitedTo(predicates', Predicates, Noted')
      BY <1>0, <3>1, <3>2 DEF SitesSaid
    <3>4. /\ SitedTo(transitions, {"push=", "set="}, line - 1)' /\ SitedTo(continuations, {"continue="}, line - 1)'
          /\ SitedTo(predicates, Predicates, Noted)'
      BY <1>2, <1>4, <3>3
    <3>5. (\A i \in 1..Len(continuations) :
              LET l == continuations[i].line
              IN  continuations[i].name = NamesTo(l, Len(OptionsOf(l)), {"continue="})[1])'
      BY <1>0, <1>1, <3>1 DEF SitesSaid
    <3>6. (\A i \in 1..Len(predicates) :
              LET l == predicates[i].line
              IN  /\ predicates[i].names = NamesTo(l, ReadTo(l), Predicates)
                  /\ predicates[i].after = (GivenTo(l, ReadTo(l), {"after="}) # {}))'
      <4>1. \A i \in 1..Len(predicates) :
              LET l == predicates[i].line
              IN  /\ predicates[i].names = NamesTo(l, ReadTo(l), Predicates)
                  /\ predicates[i].after = (GivenTo(l, ReadTo(l), {"after="}) # {})
        BY <3>1 DEF SitesSaid
      <4> QED BY <1>0, <1>1, <1>4, <3>2, <4>1
    <3> QED BY <3>4, <3>5, <3>6 DEF SitesSaid
  <2>5. PassesSaid'
    <3>1. PassesSaid
      BY <1>6 DEF ParseSaid
    <3>2. \A p : Beyond(p)' = Beyond(p)
      BY <1>0 DEF Beyond
    <3>3. \A r : RuleLinesTo(line - 1)'[r] = RuleLinesTo(line - 1)[r]
      BY <1>0, <1>1
    <3>4. \A r : LET l == RuleLinesTo(line - 1)[r]
                 IN  /\ Named(l, "after=")' = Named(l, "after=") /\ Named(l, "not_after=")' = Named(l, "not_after=")
                     /\ Continued(l)' = Continued(l)
      <4> SUFFICES ASSUME NEW r
                   PROVE  LET l == RuleLinesTo(line - 1)[r]
                          IN  /\ Named(l, "after=")' = Named(l, "after=") /\ Named(l, "not_after=")' = Named(l, "not_after=")
                              /\ Continued(l)' = Continued(l)
        OBVIOUS
      <4> DEFINE k == RuleLinesTo(line - 1)[r]
      <4>1. k' = k
        BY <3>3
      <4>2. Named(k, "after=")' = Named(k, "after=") /\ Named(k, "not_after=")' = Named(k, "not_after=")
        <5>1. \A l, w : Named(l, w)' = Named(l, w)
          BY <1>3
        <5> QED BY <4>1, <5>1
      <4>3. Continued(k)' = Continued(k)
        BY <1>3, <4>1
      <4> QED BY <4>2, <4>3
    <3>5. (\A p \in 1..4 : Beyond(p) => Dangling[p] = {})'
      BY <1>3, <3>1, <3>2 DEF PassesSaid
    <3> QED BY <1>0, <3>1, <3>2, <3>4, <3>5 DEF PassesSaid
  <2> QED BY <2>1, <2>2, <2>3, <2>4, <2>5 DEF ParseSaid
<1> QED BY <1>0, <1>5, <1>6 DEF ParseInv


LEMMA ParseSteps ==
    ASSUME ParseInv, ParseNext
    PROVE  ParseInv'
<1>1. pass # "refused" /\ file' = file
  <2>1. pass # "refused"
    BY DEF ParseNext, Ignore, Directive, BadDirective, BadFields, Fields, BadOption, Option, BadFragment, Fragment, EndLine,
           NoRules, EndOfLines, AtLine, AtOption, AtEndOfLine, CheckTargets, ResolvePredicates, ResolveContinuations,
           ApplyDirectives, Pass, PassTo
  <2>2. file' = file
    BY DEF ParseNext, Ignore, Directive, BadDirective, BadFields, Fields, BadOption, Option, BadFragment, Fragment, EndLine,
           NoRules, EndOfLines, CheckTargets, ResolvePredicates, ResolveContinuations, ApplyDirectives, Pass, PassTo, Refuse
  <2> QED BY <2>1, <2>2
<1>2. ParseSaid /\ file \in Files
  BY <1>1 DEF ParseInv
<1>3. pass' # "refused" /\ ParseSaid' => ParseInv'
  BY <1>1, <1>2 DEF ParseInv
<1>4. pass' = "refused" /\ RefusedSaid' => ParseInv'
  BY <1>1, <1>2 DEF ParseInv
<1>5. ASSUME NEW number, NEW at2, Refuse(number, at2) PROVE pass' = "refused"
  BY <1>5 DEF Refuse
<1>6. ParseSaid' /\ (pass' = pass \/ pass' = "targets") => ParseInv'
  BY <1>1, <1>3
<1>7. CASE Ignore
  BY <1>2, <1>6, <1>7, IgnoreKeeps DEF Ignore
<1>8. CASE Directive
  BY <1>2, <1>6, <1>8, DirectiveKeeps DEF Directive
<1>9. CASE BadDirective
  BY <1>2, <1>4, <1>9, BadDirectiveRefused DEF BadDirective, Refuse
<1>10. CASE BadFields
  BY <1>2, <1>4, <1>10, BadFieldsRefused DEF BadFields, Refuse
<1>11. CASE Fields
  BY <1>2, <1>6, <1>11, FieldsKeeps DEF Fields
<1>12. CASE BadOption
  BY <1>2, <1>4, <1>12, BadOptionRefused DEF BadOption, Refuse
<1>13. CASE Option
  BY <1>2, <1>6, <1>13, OptionKeeps DEF Option
<1>14. CASE BadFragment
  BY <1>2, <1>4, <1>14, BadFragmentRefused DEF BadFragment, Refuse
<1>15. CASE Fragment
  BY <1>2, <1>6, <1>15, FragmentKeeps DEF Fragment
<1>16. CASE EndLine
  BY <1>2, <1>6, <1>16, EndLineKeeps DEF EndLine
<1>17. CASE NoRules
  BY <1>2, <1>4, <1>17, NoRulesRefused DEF NoRules, Refuse
<1>18. CASE EndOfLines
  BY <1>2, <1>6, <1>18, EndOfLinesKeeps DEF EndOfLines
<1>19. CASE CheckTargets
  BY <1>2, <1>3, <1>4, <1>19, CheckTargetsKeeps
<1>20. CASE ResolvePredicates
  BY <1>2, <1>3, <1>4, <1>20, ResolvePredicatesKeeps
<1>21. CASE ResolveContinuations
  BY <1>2, <1>3, <1>4, <1>21, ResolveContinuationsKeeps
<1>22. CASE ApplyDirectives
  BY <1>2, <1>3, <1>4, <1>22, ApplyDirectivesKeeps
<1> QED
  BY <1>7, <1>8, <1>9, <1>10, <1>11, <1>12, <1>13, <1>14, <1>15, <1>16, <1>17, <1>18, <1>19, <1>20, <1>21, <1>22 DEF ParseNext

\* What is said of a grammar that is accepted.
LEMMA AcceptedMeans ==
    ASSUME ParseInv, pass = "parsed"
    PROVE  /\ ParseSaid /\ line = Len(file) + 1 /\ option = 0
           /\ Mistaken = {} /\ \A p \in 1..4 : Dangling[p] = {}
           /\ DOMAIN rules = 1..Len(rules) /\ Len(rules) = Len(RuleLines)
           /\ \A r \in DOMAIN rules :
                 rules[r].after = Named(RuleLines[r], "after=") /\ rules[r].notAfter = Named(RuleLines[r], "not_after=")
                 /\ rules[r].continuation = Continued(RuleLines[r])
           /\ insignificant = FlattenSeq([l \in DOMAIN file |-> IF file[l].is = "directive" THEN file[l].names ELSE <<>>])
<1>1. ParseSaid /\ pass # "lines"
  BY DEF ParseInv
<1>2. line = Len(file) + 1 /\ option = 0 /\ PassesSaid
  BY <1>1, PastLines
<1>3. Beyond(1) /\ Beyond(2) /\ Beyond(3) /\ Beyond(4)
  BY DEF Beyond
<1>4. \A p \in 1..4 : Dangling[p] = {}
  <2>1. \A p \in 1..4 : p = 1 \/ p = 2 \/ p = 3 \/ p = 4
    OBVIOUS
  <2>2. \A p \in 1..4 : Beyond(p) => Dangling[p] = {}
    BY <1>2 DEF PassesSaid
  <2> QED BY <1>3, <2>1, <2>2
<1>5. /\ Mistaken = {} /\ DOMAIN rules = 1..Len(rules) /\ Len(rules) = Len(RuleLines) /\ RuleLines = RuleLinesTo(line - 1)
      /\ line - 1 = Len(file) /\ file \in Files
  BY <1>1, <1>2, AfterLines
<1>6. \A r \in DOMAIN rules :
         rules[r].after = Named(RuleLines[r], "after=") /\ rules[r].notAfter = Named(RuleLines[r], "not_after=")
         /\ rules[r].continuation = Continued(RuleLines[r])
  BY <1>2, <1>3, <1>5 DEF PassesSaid
<1>7. insignificant = FlattenSeq([l \in DOMAIN file |-> IF file[l].is = "directive" THEN file[l].names ELSE <<>>])
  <2>1. insignificant = [i \in 1..Len(directives) |-> directives[i].mode]
    BY <1>2, <1>3 DEF PassesSaid
  <2>2. [i \in 1..Len(directives) |-> directives[i].mode] = FlattenSeq(Listed(line - 1))
    BY <1>1 DEF ParseSaid, DirectivesTo
  <2>3. Listed(line - 1) = [l \in DOMAIN file |-> IF file[l].is = "directive" THEN file[l].names ELSE <<>>]
    BY <1>5, FileTyped DEF Listed
  <2> QED BY <2>1, <2>2, <2>3
<1> QED BY <1>1, <1>2, <1>4, <1>5, <1>6, <1>7

\* A line that gives a list gives names, none of them empty.
LEMMA ListsGiven ==
    ASSUME file \in Files, NEW l \in 1..Len(file), file[l].is = "rule", Mistakes(l) = {}, NEW w \in Listing
    PROVE  LET s == NamesGiven(l, {w})
           IN  /\ s \in Seq(STRING) /\ DOMAIN s = 1..Len(s) /\ Len(s) \in Nat
               /\ s = <<>> <=> ~Gives(l, w)
               /\ 1 \in DOMAIN s <=> Gives(l, w)
               /\ "" \notin ToSet(s)
<1> DEFINE n == Len(OptionsOf(l))
           s == NamesGiven(l, {w})
<1>1. /\ Gives(l, w) <=> GivenTo(l, n, {w}) # {}
      /\ s = NamesTo(l, n, {w})
  BY GivenMeans
<1>2. CASE GivenTo(l, n, {w}) = {}
  <2>1. s = <<>>
    BY <1>1, <1>2 DEF NamesTo
  <2> HIDE DEF s
  <2>2. s \in Seq(STRING) /\ Len(s) = 0 /\ DOMAIN s = {} /\ DOMAIN s = 1..Len(s)
    BY <2>1
  <2>3. "" \notin ToSet(s)
    BY <2>2 DEF ToSet
  <2>4. ~Gives(l, w)
    BY <1>1, <1>2
  <2>5. Len(s) \in Nat /\ 1 \notin DOMAIN s
    BY <2>2
  <2> QED BY <2>1, <2>2, <2>3, <2>4, <2>5 DEF s
<1>3. CASE GivenTo(l, n, {w}) # {}
  <2>1. PICK o \in 1..n : OptionsOf(l)[o].word = w /\ s = OptionsOf(l)[o].names
    <3>1. \E o \in 1..n : OptionsOf(l)[o].word \in {w} /\ NamesTo(l, n, {w}) = OptionsOf(l)[o].names
      BY <1>3, NamesWithin
    <3> QED BY <1>1, <3>1
  <2>2. s \in Seq(STRING) /\ Len(s) \in Nat /\ (s = <<>> <=> w \in Alone)
    BY <2>1, OptionsTyped
  <2>3. w \notin Alone /\ w # "indent=" /\ w # "extend="
    BY DEF Alone, Listing
  <2>4. ~OptionWrong(l, o)
    BY <2>1, RuleMistakes
  <2>5. \A i \in DOMAIN s : AllowedIn(w, s[i])
    BY <2>1, <2>4 DEF OptionWrong
  <2>6. \A i \in DOMAIN s : s[i] # ""
    BY <2>3, <2>5 DEF AllowedIn
  <2> HIDE DEF s
  <2>7. DOMAIN s = 1..Len(s) /\ 1 \in DOMAIN s
    BY <2>2, <2>3
  <2>8. "" \notin ToSet(s)
    BY <2>6 DEF ToSet
  <2>9. s # <<>>
    BY <2>2, <2>3
  <2> QED BY <1>1, <1>3, <2>2, <2>7, <2>8, <2>9 DEF s
<1> QED BY <1>2, <1>3

\* A line gives at most one option of a sort.
LEMMA OneOfSort ==
    ASSUME file \in Files, NEW l \in 1..Len(file), file[l].is = "rule", Mistakes(l) = {},
           NEW v, NEW w, v # w, SortOf(v) = SortOf(w), Gives(l, v)
    PROVE  ~Gives(l, w)
<1> DEFINE n == Len(OptionsOf(l))
<1>1. n \in Nat /\ DOMAIN OptionsOf(l) = 1..n
  BY OptionsTyped
<1> SUFFICES ASSUME NEW o \in 1..n, OptionsOf(l)[o].word = v, NEW p \in 1..n, OptionsOf(l)[p].word = w
             PROVE  FALSE
  BY <1>1 DEF Gives
<1>2. ~OptionWrong(l, o) /\ ~OptionWrong(l, p)
  BY RuleMistakes
<1>3. o \notin 1..(p - 1) /\ p \notin 1..(o - 1)
  BY <1>2 DEF OptionWrong
<1>4. o # p
  OBVIOUS
<1> HIDE DEF n
<1> QED BY <1>1, <1>3, <1>4

\* What a line says of the indentation: a role or an extension where it gives one.
LEMMA RoleGiven ==
    ASSUME file \in Files, NEW l \in 1..Len(file), file[l].is = "rule", Mistakes(l) = {}, NEW w \in {"indent=", "extend="}
    PROVE  Gives(l, w) => NamesGiven(l, {w})[1] # "none"
<1> DEFINE n == Len(OptionsOf(l))
<1> SUFFICES ASSUME Gives(l, w) PROVE NamesGiven(l, {w})[1] # "none"
  OBVIOUS
<1>1. NamesGiven(l, {w}) = NamesTo(l, n, {w}) /\ GivenTo(l, n, {w}) # {}
  BY GivenMeans
<1>2. PICK o \in 1..n : OptionsOf(l)[o].word \in {w} /\ NamesTo(l, n, {w}) = OptionsOf(l)[o].names
  BY <1>1, NamesWithin
<1>3. ~OptionWrong(l, o)
  BY <1>2, RuleMistakes
<1>4. 1 \in DOMAIN OptionsOf(l)[o].names
  <2>1. {w} \subseteq {"push=", "set="} \cup OneName
    BY DEF OneName
  <2>2. DOMAIN NamesTo(l, n, {w}) = {1}
    BY <1>1, <2>1, OneNamed
  <2> QED BY <1>2, <2>2
<1>5. AllowedIn(w, OptionsOf(l)[o].names[1])
  BY <1>2, <1>3, <1>4 DEF OptionWrong
<1> QED BY <1>1, <1>2, <1>5 DEF AllowedIn

\* What a rule says is what its line gives.
LEMMA RuleMeans ==
    ASSUME ParseSaid, line = Len(file) + 1, option = 0, NEW r \in 1..Len(rules)
    PROVE  LET l == RuleLines[r]
           IN  /\ rules[r].kind = r - 1 /\ names[r] = file[l].name
               /\ rules[r].skip = Gives(l, "skip")
               /\ rules[r].op = CASE Gives(l, "push=") -> "push" [] Gives(l, "set=") -> "set"
                                  [] Gives(l, "pop") -> "pop" [] OTHER -> "none"
               /\ rules[r].op \in {"push", "set"} => <<rules[r].target>> = NamesGiven(l, {"push=", "set="})
               /\ rules[r].modes = NamesGiven(l, {"in="})
               /\ rules[r].lineStart = CASE Gives(l, "line_start") -> "start" [] Gives(l, "not_line_start") -> "inside"
                                         [] OTHER -> "any"
               /\ rules[r].indent = (IF Gives(l, "indent=") THEN NamesGiven(l, {"indent="})[1] ELSE "none")
               /\ rules[r].extend = (IF Gives(l, "extend=") THEN NamesGiven(l, {"extend="})[1] ELSE "none")
               /\ rules[r].pattern = file[l].pattern
<1> DEFINE l == RuleLines[r]
           n == Len(OptionsOf(l))
           G(w) == GivenTo(l, n, {w}) # {}
           s == NamesTo(l, n, Entering)
           q == rules[r]
<1>1. /\ file \in Files /\ l \in 1..Len(file) /\ file[l].is = "rule" /\ Mistakes(l) = {}
      /\ SaidTo(q, l, n) /\ q.kind = r - 1 /\ names[r] = file[l].name
  BY AfterLines
<1>2. (\A w : Gives(l, w) <=> G(w)) /\ \A words : NamesGiven(l, words) = NamesTo(l, n, words)
  BY <1>1, GivenMeans
<1>3. GivenTo(l, n, Entering) # {} <=> G("push=") \/ G("set=")
  BY DEF GivenTo, Entering
<1>4. G("push=") => ~G("set=") /\ ~G("pop")
  <2>1. SortOf("push=") = SortOf("set=") /\ SortOf("push=") = SortOf("pop")
    BY DEF SortOf
  <2> QED BY <1>1, <1>2, <2>1, OneOfSort
<1>5. G("set=") => ~G("pop")
  <2>1. SortOf("set=") = SortOf("pop")
    BY DEF SortOf
  <2> QED BY <1>1, <1>2, <2>1, OneOfSort
<1>6. /\ q.skip = G("skip") /\ q.pattern = file[l].pattern /\ q.modes = NamesTo(l, n, {"in="})
      /\ q.op = IF G("push=") THEN "push" ELSE IF G("set=") THEN "set" ELSE IF G("pop") THEN "pop" ELSE "none"
      /\ GivenTo(l, n, Entering) # {} => q.target = s[1]
  BY <1>1 DEF SaidTo, Entering
<1>7. q.op = CASE Gives(l, "push=") -> "push" [] Gives(l, "set=") -> "set" [] Gives(l, "pop") -> "pop" [] OTHER -> "none"
  <2> HIDE DEF G, l, q
  <2>1. /\ Gives(l, "push=") <=> G("push=")
        /\ Gives(l, "set=") <=> G("set=")
        /\ Gives(l, "pop") <=> G("pop")
    BY <1>2
  <2>2. CASE G("push=")
    BY <1>4, <1>6, <2>1, <2>2
  <2>3. CASE ~G("push=") /\ G("set=")
    BY <1>5, <1>6, <2>1, <2>3
  <2>4. CASE ~G("push=") /\ ~G("set=")
    BY <1>6, <2>1, <2>4
  <2> QED BY <2>2, <2>3, <2>4
<1>8. ASSUME q.op \in {"push", "set"} PROVE <<q.target>> = NamesGiven(l, Entering)
  <2>1. GivenTo(l, n, Entering) # {}
    <3> HIDE DEF G, q
    <3> QED BY <1>3, <1>6, <1>8
  <2>2. q.target = s[1]
    BY <1>6, <2>1
  <2>3. s \in Seq(STRING) /\ Len(s) = 1
    <3>1. Entering \subseteq {"push=", "set="} \cup OneName
      BY DEF Entering
    <3> QED BY <1>1, <2>1, <3>1, OneNamed
  <2>4. <<s[1]>> = s
    <3> HIDE DEF s
    <3> QED BY <2>3
  <2>5. NamesGiven(l, Entering) = s
    BY <1>2
  <2> HIDE DEF s, q
  <2> QED BY <2>2, <2>4, <2>5
<1>9. q.skip = Gives(l, "skip")
  <2>1. (GivenTo(l, n, {"skip"}) # {}) = Gives(l, "skip")
    <3>1. Gives(l, "skip") <=> GivenTo(l, n, {"skip"}) # {}
      BY <1>2
    <3>2. Gives(l, "skip") \in BOOLEAN
      BY DEF Gives
    <3> QED BY <3>1, <3>2
  <2> QED BY <1>6, <2>1
<1>10. q.modes = NamesGiven(l, {"in="})
  BY <1>2, <1>6
<1>11. Entering = {"push=", "set="}
  BY DEF Entering
<1>12. q.lineStart = CASE Gives(l, "line_start") -> "start" [] Gives(l, "not_line_start") -> "inside" [] OTHER -> "any"
  <2>1. q.lineStart = IF Gives(l, "line_start") THEN "start" ELSE IF Gives(l, "not_line_start") THEN "inside" ELSE "any"
    BY <1>1, <1>2 DEF SaidTo
  <2>2. Gives(l, "line_start") => ~Gives(l, "not_line_start")
    <3>1. SortOf("line_start") = SortOf("not_line_start")
      BY DEF SortOf
    <3> QED BY <1>1, <3>1, OneOfSort
  <2> HIDE DEF q, l
  <2> QED BY <2>1, <2>2
<1>13. /\ q.indent = (IF Gives(l, "indent=") THEN NamesGiven(l, {"indent="})[1] ELSE "none")
       /\ q.extend = (IF Gives(l, "extend=") THEN NamesGiven(l, {"extend="})[1] ELSE "none")
  BY <1>1, <1>2 DEF SaidTo
<1> QED BY <1>1, <1>6, <1>7, <1>8, <1>9, <1>10, <1>11, <1>12, <1>13

LEMMA SaidMeans ==
    ASSUME ParseInv
    PROVE  MeansItsLines
<1>1. CASE pass = "parsed"
  <2>1. /\ ParseSaid /\ line = Len(file) + 1 /\ option = 0
        /\ Mistaken = {} /\ \A p \in 1..4 : Dangling[p] = {}
        /\ DOMAIN rules = 1..Len(rules) /\ Len(rules) = Len(RuleLines)
        /\ \A r \in DOMAIN rules :
              rules[r].after = Named(RuleLines[r], "after=") /\ rules[r].notAfter = Named(RuleLines[r], "not_after=")
              /\ rules[r].continuation = Continued(RuleLines[r])
        /\ insignificant = FlattenSeq([l \in DOMAIN file |-> IF file[l].is = "directive" THEN file[l].names ELSE <<>>])
    BY <1>1, AcceptedMeans
  <2>2. \A r \in DOMAIN rules :
           LET l == RuleLines[r]
           IN  /\ rules[r].kind = r - 1 /\ names[r] = file[l].name
               /\ rules[r].skip = Gives(l, "skip")
               /\ rules[r].op = CASE Gives(l, "push=") -> "push" [] Gives(l, "set=") -> "set"
                                  [] Gives(l, "pop") -> "pop" [] OTHER -> "none"
               /\ rules[r].op \in {"push", "set"} => <<rules[r].target>> = NamesGiven(l, {"push=", "set="})
               /\ rules[r].modes = NamesGiven(l, {"in="})
               /\ rules[r].lineStart = CASE Gives(l, "line_start") -> "start" [] Gives(l, "not_line_start") -> "inside"
                                         [] OTHER -> "any"
               /\ rules[r].indent = (IF Gives(l, "indent=") THEN NamesGiven(l, {"indent="})[1] ELSE "none")
               /\ rules[r].extend = (IF Gives(l, "extend=") THEN NamesGiven(l, {"extend="})[1] ELSE "none")
               /\ rules[r].pattern = file[l].pattern
    BY <2>1, RuleMeans
  <2> QED BY <1>1, <2>1, <2>2 DEF MeansItsLines
<1>2. CASE pass = "refused"
  BY <1>2 DEF ParseInv, RefusedSaid, MeansItsLines
<1>3. CASE pass # "parsed" /\ pass # "refused"
  BY <1>3 DEF MeansItsLines
<1> QED BY <1>1, <1>2, <1>3

\* However the command is called, what the parse has read is what the grammar's lines say.
THEOREM GrammarsAsWritten == Spec => []ParseInv
<1>1. Init => ParseInv
  BY ParseStarts DEF Init
<1>2. ParseInv /\ [Next]_cliVars => ParseInv'
  <2> SUFFICES ASSUME ParseInv, [Next]_cliVars PROVE ParseInv'
    OBVIOUS
  <2>1. CASE Parse
    BY <2>1, ParseSteps DEF Parse
  <2>2. CASE Build
    <3>1. UNCHANGED parseVars
      BY <2>2 DEF Build, BuildNext, BuildDispatch, BuildSignificance, BeginUnits, OwnUnit, InsideVariant, StartOwn, StartVariant, Filed,
                  NextMode, Built
    <3> QED BY <3>1, ParseStays
  <2>3. CASE UNCHANGED cliVars
    BY <2>3, ParseStays DEF cliVars, constructionVars
  <2>4. CASE \/ TakeWord \/ Usage \/ HasCommand \/ Informs \/ Check \/ BadExample \/ TakeExample \/ OpenGrammar
             \/ NoGrammar \/ RefusedGrammar \/ HasLexer \/ ReadInput \/ NoInput \/ Dump \/ PrintToken \/ EndOfTokens
    <3>1. UNCHANGED constructionVars
      BY <2>4 DEF TakeWord, Usage, HasCommand, Informs, Check, BadExample, TakeExample, OpenGrammar, NoGrammar,
                  RefusedGrammar, HasLexer, ReadInput, NoInput, Dump, PrintToken, EndOfTokens, Exit, Goes
    <3> QED BY <3>1, ParseStays DEF constructionVars
  <2> QED BY <2>1, <2>2, <2>3, <2>4 DEF Next
<1> QED BY <1>1, <1>2, PTL DEF Spec

\* A grammar that is accepted says what its lines say, its names those of rules anywhere in the file; one
\* that is refused is refused at the first line, or the first name, that is wrong (parse_grammar).
THEOREM GrammarsMeanTheirLines == Spec => []MeansItsLines
<1>1. ParseInv => MeansItsLines
  BY SaidMeans
<1> QED BY <1>1, GrammarsAsWritten, PTL

-----------------------------------------------------------------------------
(* What the parse accepts the constructor builds *)

\* The modes listed by the rules are sequences of names.
LEMMA ModesTyped ==
    ASSUME ParseSaid, line = Len(file) + 1, option = 0, NEW r \in 1..Len(rules)
    PROVE  rules[r].modes \in Seq(STRING) /\ ModesNamed(rules[r]) \in Seq(STRING)
           /\ (rules[r].modes # <<>> => \A m \in ToSet(rules[r].modes) : \E k \in 1..Len(ModesNamed(rules[r])) : ModesNamed(rules[r])[k] = m)
<1> DEFINE l == RuleLines[r]
           n == Len(OptionsOf(l))
           q == rules[r]
           a == q.modes
           b == IF q.op \in {"push", "set"} THEN <<q.target>> ELSE <<>>
<1>1. /\ file \in Files /\ l \in 1..Len(file) /\ file[l].is = "rule" /\ Mistakes(l) = {}
      /\ SaidTo(q, l, n)
  BY AfterLines
<1>2. \A words : NamesTo(l, n, words) \in Seq(STRING)
  <2> SUFFICES ASSUME NEW words PROVE NamesTo(l, n, words) \in Seq(STRING)
    OBVIOUS
  <2>1. CASE GivenTo(l, n, words) = {}
    BY <2>1 DEF NamesTo
  <2>2. CASE GivenTo(l, n, words) # {}
    <3>1. PICK o \in 1..n : NamesTo(l, n, words) = OptionsOf(l)[o].names
      BY <1>1, <2>2, NamesWithin
    <3>2. OptionsOf(l)[o].names \in Seq(STRING)
      BY <1>1, OptionsTyped
    <3> QED BY <3>1, <3>2
  <2> QED BY <2>1, <2>2
<1>3. a \in Seq(STRING)
  BY <1>1, <1>2 DEF SaidTo
<1>4. b \in Seq(STRING)
  <2>1. CASE q.op \in {"push", "set"}
    <3>1. <<q.target>> = NamesGiven(l, {"push=", "set="})
      BY <2>1, RuleMeans
    <3>2. NamesGiven(l, {"push=", "set="}) = NamesTo(l, n, {"push=", "set="})
      BY <1>1, GivenMeans
    <3>3. b = <<q.target>>
      BY <2>1
    <3> QED BY <1>2, <3>1, <3>2, <3>3
  <2>2. CASE q.op \notin {"push", "set"}
    BY <2>2
  <2> QED BY <2>1, <2>2
<1>5. ModesNamed(q) = a \o b
  BY DEF ModesNamed
<1> HIDE DEF a, b
<1>6. a \o b \in Seq(STRING) /\ \A k \in 1..Len(a) : k \in 1..Len(a \o b) /\ (a \o b)[k] = a[k]
  BY <1>3, <1>4
<1>7. \A m \in ToSet(a) : \E k \in 1..Len(a) : a[k] = m
  BY <1>3 DEF ToSet
<1> QED BY <1>3, <1>5, <1>6, <1>7 DEF a

\* Each name listed is interned.
LEMMA InternedHas ==
    ASSUME ParseSaid, line = Len(file) + 1, option = 0, NEW m, ActiveIn(m)
    PROVE  m \in ToSet(Interned)
<1> DEFINE seqs == [i \in DOMAIN rules |-> ModesNamed(rules[i])]
           f == FlattenSeq(seqs)
           listed == <<Default>> \o f
           S == { n \in DOMAIN listed : \A k \in 1..(n - 1) : listed[k] # listed[n] }
           firsts == Ascending(S, 1, Len(listed))
<1>1. DOMAIN rules = 1..Len(rules) /\ Len(rules) \in Nat
  BY AfterLines
<1>2. seqs \in Seq(Seq(STRING)) /\ Len(seqs) = Len(rules) /\ \A i \in 1..Len(rules) : seqs[i] = ModesNamed(rules[i])
  <2> DEFINE T == Seq(STRING)
             n == Len(rules)
  <2>1. \A i \in 1..n : ModesNamed(rules[i]) \in T
    BY ModesTyped
  <2>2. seqs = [i \in 1..n |-> ModesNamed(rules[i])]
    BY <1>1
  <2>3. n \in Nat
    BY <1>1
  <2> HIDE DEF T, n, seqs
  <2>4. seqs \in [1..n -> T]
    BY <2>1, <2>2
  <2>5. seqs \in Seq(T) /\ Len(seqs) = n
    BY <2>3, <2>4
  <2> QED BY <2>2, <2>5 DEF T, n
<1>3. /\ f \in Seq(STRING)
      /\ \A x : (\E k \in 1..Len(f) : f[k] = x) <=> \E i \in 1..Len(seqs) : \E k \in 1..Len(seqs[i]) : seqs[i][k] = x
  <2>1. seqs \in Seq(Seq(STRING))
    BY <1>2
  <2> HIDE DEF seqs
  <2> QED BY <2>1, FlattenMembers
<1>4. /\ IsSequence(listed) /\ listed[1] = Default /\ 1 \in 1..Len(listed)
      /\ \A k \in 1..Len(f) : k + 1 \in 1..Len(listed) /\ listed[k + 1] = f[k]
  <2> DEFINE d == <<Default>>
  <2>1. IsSequence(d) /\ Len(d) = 1 /\ d[1] = Default
    <3>1. d \in Seq({Default}) /\ Len(d) = 1 /\ d[1] = Default
      OBVIOUS
    <3> HIDE DEF d
    <3> QED BY <3>1, TypedSequence
  <2>2. IsSequence(f) /\ Len(f) \in Nat
    <3> HIDE DEF f
    <3> QED BY <1>3, TypedSequence
  <2>3. listed = d \o f
    OBVIOUS
  <2> HIDE DEF d, f, listed
  <2>10. IsSequence(d) /\ IsSequence(f)
    BY <2>1, <2>2
  <2>4. IsSequence(listed) /\ Len(listed) = Len(d) + Len(f)
    BY <2>10, <2>3, SequenceJoined
  <2>5. \A i \in 1..Len(d) : listed[i] = d[i]
    BY ONLY <2>10, <2>3, SequenceJoined
  <2>6. \A i \in 1..Len(f) : listed[Len(d) + i] = f[i]
    BY ONLY <2>10, <2>3, SequenceJoined
  <2> DEFINE n == Len(listed)
             m2 == Len(f)
  <2>7. n = 1 + m2 /\ m2 \in Nat /\ \A i \in 1..m2 : listed[1 + i] = f[i]
    BY <2>1, <2>2, <2>4, <2>6
  <2>8. listed[1] = Default
    BY <2>1, <2>5
  <2> HIDE DEF n, m2
  <2>9. 1 \in 1..n /\ \A k \in 1..m2 : k + 1 \in 1..n /\ listed[k + 1] = f[k]
    BY <2>7
  <2> QED BY <2>4, <2>8, <2>9 DEF n, m2
<1>5. \E n \in 1..Len(listed) : listed[n] = m
  <2>1. PICK i \in DOMAIN rules : m \in (IF rules[i].modes = <<>> THEN {Default} ELSE ToSet(rules[i].modes))
    BY DEF ActiveIn
  <2>2. CASE rules[i].modes = <<>>
    BY <1>4, <2>1, <2>2
  <2>3. CASE rules[i].modes # <<>>
    <3>1. i \in 1..Len(rules) /\ m \in ToSet(rules[i].modes)
      BY <1>1, <2>1, <2>3
    <3>2. \E k \in 1..Len(ModesNamed(rules[i])) : ModesNamed(rules[i])[k] = m
      BY <2>3, <3>1, ModesTyped
    <3>3. i \in 1..Len(seqs) /\ \E k \in 1..Len(seqs[i]) : seqs[i][k] = m
      BY <1>2, <3>1, <3>2
    <3>4. \E k \in 1..Len(f) : f[k] = m
      <4> HIDE DEF seqs, f
      <4> QED BY <1>3, <3>3
    <3> HIDE DEF seqs, f, listed
    <3> QED BY <1>4, <3>4
  <2> QED BY <2>2, <2>3
<1>6. DOMAIN listed = 1..Len(listed) /\ Len(listed) \in Nat
  <2> HIDE DEF listed
  <2> QED BY <1>4, SequenceTyped
<1>7. Interned = [i \in DOMAIN firsts |-> listed[firsts[i]]]
  BY DEF Interned
<1> DEFINE N == Len(listed)
           P == { n \in 1..N : listed[n] = m }
<1> HIDE DEF listed
<1>8. PICK n \in 1..N : n \in S /\ listed[n] = m
  <2>1. P \in SUBSET Nat /\ P # {}
    BY <1>5
  <2>2. Min(P) \in P /\ \A y \in P : Min(P) <= y
    BY <2>1, MinOfNaturals
  <2> DEFINE k == Min(P)
  <2> HIDE DEF k
  <2>3. k \in 1..N /\ listed[k] = m /\ \A y \in 1..N : listed[y] = m => k <= y
    BY <2>2 DEF k
  <2>4. \A y \in 1..(k - 1) : listed[y] # listed[k]
    <3> SUFFICES ASSUME NEW y \in 1..(k - 1), listed[y] = m PROVE FALSE
      BY <2>3
    <3>1. y \in 1..N /\ ~(k <= y)
      BY <1>6, <2>3
    <3> QED BY <2>3, <3>1
  <2>5. k \in S
    BY <1>6, <2>3, <2>4
  <2> QED BY <2>3, <2>5
<1>9. firsts \in Seq(1..N) /\ \E i \in 1..Len(firsts) : firsts[i] = n
  <2>1. 1 \in Int /\ N \in Int /\ N >= 1 - 1
    BY <1>6
  <2> HIDE DEF S, N
  <2> QED BY <1>8, <2>1, AscendingMembers DEF N
<1> HIDE DEF S, firsts
<1>10. PICK i \in DOMAIN firsts : firsts[i] = n
  BY <1>9
<1>11. i \in DOMAIN Interned /\ Interned[i] = m
  BY <1>7, <1>8, <1>10
<1> QED BY <1>11 DEF ToSet

\* A grammar in which no line says what no lexer is made of.
Buildable == \A l \in ToSet(RuleLines) : ~Unbuildable(l)

LEMMA BuildableKept ==
    ASSUME file' = file
    PROVE  Buildable' = Buildable
<1>1. (\A l : OptionsOf(l)' = OptionsOf(l)) /\ RuleLines' = RuleLines
  BY FileKept
<1>2. \A l, words : NamesGiven(l, words)' = NamesGiven(l, words)
  BY <1>1 DEF NamesGiven
<1>3. \A l, w : Gives(l, w)' = Gives(l, w)
  BY <1>1 DEF Gives
<1>4. \A l : ModesSaid(l)' = ModesSaid(l)
  BY <1>2, <1>3 DEF ModesSaid
<1>5. \A l : Unbuildable(l)' = Unbuildable(l)
  BY <1>1, <1>2, <1>3, <1>4 DEF Unbuildable
<1> QED BY <1>1, <1>5 DEF Buildable

\* The modes a rule is active in are those its line says, and a mode is empty where nothing begins in it.
LEMMA EmptyModes ==
    ASSUME ParseSaid, line = Len(file) + 1, option = 0, NEW m
    PROVE  ModeIsEmpty(m) <=> \A k \in ToSet(RuleLines) : m \in ModesSaid(k) => file[k].pattern \in Beginless
<1>1. DOMAIN rules = 1..Len(rules) /\ ToSet(RuleLines) = { RuleLines[r] : r \in 1..Len(rules) }
  BY AfterLines DEF ToSet
<1>2. ASSUME NEW r \in 1..Len(rules)
      PROVE  /\ r \in Active(m) <=> m \in ModesSaid(RuleLines[r])
             /\ rules[r].pattern = file[RuleLines[r]].pattern
  <2> DEFINE l == RuleLines[r]
  <2>1. rules[r].modes = NamesGiven(l, {"in="}) /\ rules[r].pattern = file[l].pattern
    BY RuleMeans
  <2>2. file \in Files /\ l \in 1..Len(file) /\ file[l].is = "rule" /\ Mistakes(l) = {}
    BY AfterLines
  <2>3. rules[r].modes = <<>> <=> ~Gives(l, "in=")
    <3>1. "in=" \in Listing
      BY DEF Listing
    <3> QED BY <2>1, <2>2, <3>1, ListsGiven
  <2>4. r \in Active(m) <=> m \in (IF rules[r].modes = <<>> THEN {Default} ELSE ToSet(rules[r].modes))
    BY <1>1 DEF Active
  <2> HIDE DEF l
  <2> QED BY <2>1, <2>3, <2>4 DEF ModesSaid, l
<1>3. Active(m) \subseteq 1..Len(rules)
  BY <1>1 DEF Active
<1>4. ModeIsEmpty(m) <=> \A r \in 1..Len(rules) : r \in Active(m) => rules[r].pattern \in Beginless
  BY <1>3 DEF ModeIsEmpty, Bucketed
<1> QED BY <1>1, <1>2, <1>4

\* Of a grammar that is accepted, what the constructor finds wrong of a rule is what its line says.
LEMMA AcceptedChecks ==
    ASSUME ParseInv, pass = "parsed", NEW r \in 1..Len(rules)
    PROVE  /\ InvalidKind(rules[r]) \/ InvalidTransition(rules[r]) <=> Unbuildable(RuleLines[r])
           /\ rules[r].after = {} \/ rules[r].notAfter = {}
<1> DEFINE l == RuleLines[r]
           q == rules[r]
           s == NamesGiven(l, {"push=", "set="})
<1>1. /\ ParseSaid /\ line = Len(file) + 1 /\ option = 0 /\ DOMAIN rules = 1..Len(rules) /\ Len(rules) \in Nat
      /\ q.after = Named(l, "after=") /\ q.notAfter = Named(l, "not_after=")
  BY AcceptedMeans, AfterLines
<1>2. file \in Files /\ l \in 1..Len(file) /\ file[l].is = "rule" /\ Mistakes(l) = {}
  BY <1>1, AfterLines
<1>3. /\ q.kind = r - 1 /\ q.skip = Gives(l, "skip") /\ q.pattern = file[l].pattern
      /\ q.op = CASE Gives(l, "push=") -> "push" [] Gives(l, "set=") -> "set" [] Gives(l, "pop") -> "pop" [] OTHER -> "none"
      /\ q.op \in {"push", "set"} => <<q.target>> = s
      /\ q.indent = (IF Gives(l, "indent=") THEN NamesGiven(l, {"indent="})[1] ELSE "none")
      /\ q.extend = (IF Gives(l, "extend=") THEN NamesGiven(l, {"extend="})[1] ELSE "none")
  BY <1>1, RuleMeans
<1>4. InvalidKind(q) <=> Gives(l, "skip") /\ (Gives(l, "indent=") \/ Gives(l, "extend="))
  <2>1. ~(q.kind <= ErrorKind)
    BY <1>1, <1>3 DEF ErrorKind
  <2>2. TakesPart(q) <=> Gives(l, "indent=") \/ Gives(l, "extend=")
    BY <1>2, <1>3, RoleGiven DEF TakesPart
  <2> QED BY <1>3, <2>1, <2>2 DEF InvalidKind
<1>5. q.op \in {"none", "push", "set", "pop"} /\ (q.op \in {"push", "set"} <=> Gives(l, "push=") \/ Gives(l, "set="))
  <2>1. /\ Gives(l, "push=") => ~Gives(l, "set=") /\ ~Gives(l, "pop")
        /\ Gives(l, "set=") => ~Gives(l, "pop")
    <3>1. SortOf("push=") = SortOf("set=") /\ SortOf("push=") = SortOf("pop") /\ SortOf("set=") = SortOf("pop")
      BY DEF SortOf
    <3> QED BY <1>2, <3>1, OneOfSort
  <2> HIDE DEF q, l
  <2> QED BY <1>3, <2>1
<1>6. q.pattern # ""
  <2>1. ~FieldsWrong(l)
    BY <1>2, RuleMistakes
  <2> QED BY <1>3, <2>1 DEF FieldsWrong
<1>7. InvalidTransition(q) <=> \E i \in DOMAIN s : ModeIsEmpty(s[i])
  <2>1. InvalidTransition(q) <=> q.op \in {"push", "set"} /\ ModeIsEmpty(q.target)
    BY <1>5, <1>6 DEF InvalidTransition
  <2>2. CASE q.op \in {"push", "set"}
    <3>1. s = <<q.target>>
      BY <1>3, <2>2
    <3> HIDE DEF s
    <3>2. DOMAIN s = {1} /\ s[1] = q.target
      BY <3>1
    <3> QED BY <2>1, <2>2, <3>2
  <2>3. CASE q.op \notin {"push", "set"}
    <3>1. ~Gives(l, "push=") /\ ~Gives(l, "set=")
      BY <1>5, <2>3
    <3>2. s = <<>>
      BY <3>1 DEF NamesGiven, Gives
    <3> HIDE DEF s
    <3>3. DOMAIN s = {}
      BY <3>2
    <3> QED BY <2>1, <2>3, <3>3
  <2> QED BY <2>2, <2>3
<1>8. \A i \in DOMAIN s : ModeIsEmpty(s[i]) <=> \A k \in ToSet(RuleLines) : s[i] \in ModesSaid(k) => file[k].pattern \in Beginless
  BY <1>1, EmptyModes
<1>9. InvalidKind(q) \/ InvalidTransition(q) <=> Unbuildable(l)
  BY <1>4, <1>7, <1>8 DEF Unbuildable
<1>10. q.after = {} \/ q.notAfter = {}
  <2>1. ~Gives(l, "after=") \/ ~Gives(l, "not_after=")
    <3>1. SortOf("after=") = SortOf("not_after=")
      BY DEF SortOf
    <3> QED BY <1>2, <3>1, OneOfSort
  <2>2. \A w : ~Gives(l, w) => NamesGiven(l, {w}) = <<>>
    BY DEF Gives, NamesGiven
  <2>3. ASSUME NEW w, NamesGiven(l, {w}) = <<>> PROVE Named(l, w) = {}
    <3>1. ToSet(NamesGiven(l, {w})) = {}
      BY <2>3 DEF ToSet
    <3> QED BY <3>1, Zenon DEF Named
  <2> QED BY <1>1, <2>1, <2>2, <2>3
<1> QED BY <1>9, <1>10

\* An accepted grammar is refused for what its lines say, and for nothing the constructor checks afterwards.
LEMMA AcceptedNames ==
    ASSUME ParseInv, pass = "parsed"
    PROVE  /\ (\E i \in DOMAIN rules : InvalidKind(rules[i]) \/ InvalidTransition(rules[i])) <=> ~Buildable
           /\ ~\E i \in DOMAIN rules : rules[i].after # {} /\ rules[i].notAfter # {}
           /\ ToSet(insignificant) \subseteq ToSet(Interned)
<1>1. /\ ParseSaid /\ line = Len(file) + 1 /\ option = 0 /\ DOMAIN rules = 1..Len(rules)
      /\ Dangling[4] = {}
      /\ insignificant = FlattenSeq([l \in DOMAIN file |-> IF file[l].is = "directive" THEN file[l].names ELSE <<>>])
  BY AcceptedMeans
<1>2. \A m : ActiveIn(m) <=> Populated(m)
  BY <1>1, ActiveIsPopulated
<1>3. /\ (\E i \in DOMAIN rules : InvalidKind(rules[i]) \/ InvalidTransition(rules[i])) <=> ~Buildable
      /\ ~\E i \in DOMAIN rules : rules[i].after # {} /\ rules[i].notAfter # {}
  <2>1. ToSet(RuleLines) = { RuleLines[r] : r \in 1..Len(rules) }
    BY <1>1, AfterLines DEF ToSet
  <2> QED BY <1>1, <2>1, AcceptedChecks DEF Buildable
<1>4. ASSUME NEW m \in ToSet(insignificant) PROVE m \in ToSet(Interned)
  <2> DEFINE seqs == [l \in DOMAIN file |-> IF file[l].is = "directive" THEN file[l].names ELSE <<>>]
  <2>1. DOMAIN file = 1..Len(file) /\ Len(file) \in Nat
        /\ \A l \in 1..Len(file) : file[l].is = "directive" => file[l].names \in Seq(STRING)
    BY <1>1, AfterLines, FileTyped
  <2>2. seqs \in Seq(Seq(STRING)) /\ Len(seqs) = Len(file)
    <3> DEFINE T == Seq(STRING)
               n == Len(file)
    <3>1. \A l \in 1..n : (IF file[l].is = "directive" THEN file[l].names ELSE <<>>) \in T
      <4>1. <<>> \in T /\ \A l \in 1..n : file[l].is = "directive" => file[l].names \in T
        BY <2>1
      <4> HIDE DEF T, n
      <4> QED BY <4>1
    <3>2. seqs \in [1..n -> T] /\ n \in Nat
      BY <2>1, <3>1
    <3> HIDE DEF T, n, seqs
    <3>3. seqs \in Seq(T) /\ Len(seqs) = n
      BY <3>2
    <3> QED BY <3>3 DEF T, n
  <2> DEFINE f == FlattenSeq(seqs)
  <2>3. f \in Seq(STRING) /\ \A x : (\E k \in 1..Len(f) : f[k] = x) <=> \E i \in 1..Len(seqs) : \E k \in 1..Len(seqs[i]) : seqs[i][k] = x
    <3> HIDE DEF seqs
    <3> QED BY <2>2, FlattenMembers
  <2>4. \E k \in 1..Len(f) : f[k] = m
    <3>1. m \in ToSet(f)
      BY <1>1
    <3> HIDE DEF f
    <3> QED BY <2>3, <3>1 DEF ToSet
  <2>5. PICK l \in 1..Len(file) : \E k \in 1..Len(seqs[l]) : seqs[l][k] = m
    <3>1. \E l \in 1..Len(seqs) : \E k \in 1..Len(seqs[l]) : seqs[l][k] = m
      <4> HIDE DEF seqs, f
      <4> QED BY <2>3, <2>4
    <3> HIDE DEF seqs
    <3> QED BY <2>2, <3>1
  <2>6. PICK k \in 1..Len(seqs[l]) : seqs[l][k] = m
    BY <2>5
  <2>7. seqs[l] = IF file[l].is = "directive" THEN file[l].names ELSE <<>>
    BY <2>1
  <2>8. file[l].is = "directive" /\ seqs[l] = file[l].names
    <3>1. Len(<<>>) = 0 /\ 1..0 = {}
      OBVIOUS
    <3> HIDE DEF seqs
    <3> QED BY <2>6, <2>7, <3>1
  <2>9. k \in DOMAIN file[l].names /\ file[l].names[k] = m
    <3>1. file[l].names \in Seq(STRING)
      BY <2>1, <2>8
    <3> HIDE DEF seqs
    <3> QED BY <2>6, <2>8, <3>1
  <2>10. \A j \in DOMAIN file : file[j].is = "directive" => \A i \in DOMAIN file[j].names : Populated(file[j].names[i])
    BY <1>1 DEF Dangling
  <2>11. Populated(m)
    BY <2>1, <2>8, <2>9, <2>10
  <2>12. ActiveIn(m)
    BY <1>2, <2>11
  <2> QED BY <1>1, <2>12, InternedHas
<1> QED BY <1>3, <1>4

\* What the construction is told, where it is under way.
BuildInv ==
    /\ stage # "none" => pass = "parsed"
    /\ stage = "significance" => modes = Interned
    /\ stage \in {"significance", "predicates", "units"} => Buildable
    /\ AcceptedBuilds

LEMMA BuildsAccepted ==
    ASSUME ParseInv, BuildInv, [Next]_cliVars
    PROVE  BuildInv'
<1>0. /\ AcceptedBuilds <=> (stage = "invalid" => ~Buildable) /\ (stage = "built" => Buildable)
      /\ AcceptedBuilds' <=> (stage' = "invalid" => ~Buildable') /\ (stage' = "built" => Buildable')
  BY DEF AcceptedBuilds, Buildable
<1>1. ASSUME UNCHANGED constructionVars PROVE BuildInv'
  <2>1. file' = file /\ rules' = rules /\ pass' = pass /\ stage' = stage /\ modes' = modes
    BY <1>1 DEF constructionVars, parseVars, buildVars, tableVars
  <2>2. Interned' = Interned
    BY <2>1 DEF Interned, ModesNamed
  <2>3. Buildable' = Buildable
    BY <2>1, BuildableKept
  <2> QED BY <1>0, <2>1, <2>2, <2>3 DEF BuildInv
<1>2. CASE Parse
  <2>1. pass # "parsed" /\ stage' = stage
    BY <1>2 DEF Parse, ParseNext, Ignore, Directive, BadDirective, BadFields, Fields, BadOption, Option, BadFragment, Fragment,
           EndLine, NoRules, EndOfLines, AtLine, AtOption, AtEndOfLine, CheckTargets, ResolvePredicates, ResolveContinuations,
           ApplyDirectives, Pass, PassTo, buildVars
  <2>2. stage' = "none"
    BY <2>1 DEF BuildInv
  <2> QED BY <1>0, <2>2 DEF BuildInv
<1>3. CASE Build
  <2>1. UNCHANGED parseVars
    BY <1>3 DEF Build, BuildNext, BuildDispatch, BuildSignificance, BeginUnits, OwnUnit, InsideVariant, StartOwn, StartVariant,
                Filed, NextMode, Built
  <2>2. file' = file /\ rules' = rules /\ pass' = pass /\ insignificant' = insignificant
    BY <2>1 DEF parseVars
  <2>3. Buildable' = Buildable
    BY <2>2, BuildableKept
  <2>4. CASE BuildDispatch
    <3>1. pass = "parsed" /\ modes' = Interned
          /\ stage' = IF \E i \in DOMAIN rules : InvalidKind(rules[i]) \/ InvalidTransition(rules[i]) THEN "invalid" ELSE "significance"
      BY <2>4 DEF BuildDispatch, ThrowsIf
    <3>2. stage' = IF Buildable THEN "significance" ELSE "invalid"
      BY <3>1, AcceptedNames
    <3>3. Interned' = Interned
      BY <2>2 DEF Interned, ModesNamed
    <3> QED BY <1>0, <2>2, <2>3, <3>1, <3>2, <3>3 DEF BuildInv
  <2>5. CASE BuildSignificance
    <3>1. stage = "significance" /\ stage' = IF ~(ToSet(insignificant) \subseteq ToSet(modes)) THEN "invalid" ELSE "predicates"
      BY <2>5 DEF BuildSignificance, ThrowsIf
    <3>2. pass = "parsed" /\ modes = Interned /\ Buildable
      BY <3>1 DEF BuildInv
    <3>3. stage' = "predicates"
      BY <3>1, <3>2, AcceptedNames
    <3> QED BY <1>0, <2>2, <2>3, <3>2, <3>3 DEF BuildInv
  <2>6. CASE BeginUnits
    <3>1. /\ stage = "predicates"
          /\ stage' = IF \E i \in DOMAIN rules : rules[i].after # {} /\ rules[i].notAfter # {} THEN "invalid" ELSE "units"
      BY <2>6 DEF BeginUnits, ThrowsIf
    <3>2. pass = "parsed" /\ Buildable
      BY <3>1 DEF BuildInv
    <3>3. stage' = "units"
      BY <3>1, <3>2, AcceptedNames
    <3> QED BY <1>0, <2>2, <2>3, <3>2, <3>3 DEF BuildInv
  <2>7. CASE OwnUnit \/ InsideVariant \/ StartOwn \/ StartVariant \/ NextMode \/ Built
    <3>1. stage = "units" /\ stage' \in {"units", "built"}
      BY <2>7 DEF OwnUnit, InsideVariant, StartOwn, StartVariant, NextMode, Built, Filed, Splitting
    <3> QED BY <1>0, <2>2, <2>3, <3>1 DEF BuildInv
  <2> QED BY <1>3, <2>4, <2>5, <2>6, <2>7 DEF Build, BuildNext
<1>4. CASE UNCHANGED cliVars
  BY <1>1, <1>4 DEF cliVars
<1>5. CASE \/ TakeWord \/ Usage \/ HasCommand \/ Informs \/ Check \/ BadExample \/ TakeExample \/ OpenGrammar
           \/ NoGrammar \/ RefusedGrammar \/ HasLexer \/ ReadInput \/ NoInput \/ Dump \/ PrintToken \/ EndOfTokens
  BY <1>1, <1>5 DEF TakeWord, Usage, HasCommand, Informs, Check, BadExample, TakeExample, OpenGrammar, NoGrammar,
                    RefusedGrammar, HasLexer, ReadInput, NoInput, Dump, PrintToken, EndOfTokens, Exit, Goes
<1> QED BY <1>2, <1>3, <1>4, <1>5 DEF Next

\* The construction, of a grammar that is parsed.
LEMMA BuildsAsTold == Spec => []BuildInv
<1>1. Init => BuildInv
  BY DEF Init, BuildInit, BuildInv, AcceptedBuilds
<1>2. ParseInv /\ BuildInv /\ [Next]_cliVars => BuildInv'
  BY BuildsAccepted
<1> QED BY <1>1, <1>2, GrammarsAsWritten, PTL DEF Spec

\* The lexer's constructor builds a grammar parse_grammar accepts unless a line skips and has a part in the
\* indentation, or enters a mode in which nothing can begin, and refuses it then (build_dispatch,
\* build_significance, build_units).
THEOREM AcceptedGrammarsBuild == Spec => []AcceptedBuilds
<1>1. BuildInv => AcceptedBuilds
  BY DEF BuildInv
<1> QED BY <1>1, BuildsAsTold, PTL

===============================================================================
