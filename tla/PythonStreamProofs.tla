------------------------- MODULE PythonStreamProofs --------------------------
(***************************************************************************)
(* For any threads, chunks and thresholds: a stream is one caller's at a   *)
(* time, the callers get its tokens in order, and the tail it keeps is     *)
(* enough for every error and moved in linear time.                        *)
(***************************************************************************)
EXTENDS PythonStream, TLAPS

-----------------------------------------------------------------------------
(* The invariant holds at first *)

\* No call is under way at first, and the tail is empty.
LEMMA InitInductive == Init => Inductive
<1> SUFFICES ASSUME Init PROVE Inductive
  OBVIOUS
<1> USE PythonAssumption DEF Init, Stream!Init, Stream!NoFailure, NoAnswer, NoTokens
<1>1. TypeOK
  <2>1. pc \in [Threads -> Places] /\ mine \in [Threads -> [from : Nat, to : Nat]]
    BY DEF Places
  <2>2. answer \in [kind : AnswerKinds, from : Nat, to : Nat]
    BY DEF AnswerKinds
  <2>3. failure \in [kind : {"none", "here", "entry"}, at : 0..fed]
    OBVIOUS
  <2>4. /\ fed \in 0..MaxText /\ held \in 0..fed /\ tailEnd \in 0..MaxText /\ tailBase \in 0..tailEnd
        /\ moved \in Nat /\ delivered \in Nat
    OBVIOUS
  <2>5. /\ call \in {"none", "feed", "finish"} /\ finished \in BOOLEAN /\ busy \in BOOLEAN
        /\ type \in {"none", "str", "bytes"} /\ types \subseteq {"str", "bytes"}
        /\ gil \in Threads \cup {Nobody}
    OBVIOUS
  <2> HIDE DEF Init
  <2> QED BY <2>1, <2>2, <2>3, <2>4, <2>5, Zenon DEF TypeOK
<1>2. OneCallAtATime
  BY DEF OneCallAtATime, InCall
<1>3. TailCovers /\ FeedingLinear /\ TailBounded /\ OneType
  BY DEF TailCovers, FeedingLinear, TailBounded, OneType, Stream!Buffered
<1>4. CallsTracked /\ TokensAccounted /\ ErrorCovered
  BY DEF CallsTracked, TokensAccounted, ErrorCovered, InCall
<1> QED BY <1>1, <1>2, <1>3, <1>4 DEF Inductive

-----------------------------------------------------------------------------
(* The GIL, and calls that are refused *)

\* A step that only moves the GIL, or answers without a claim, keeps the invariant.
LEMMA ApartInductive ==
    ASSUME Inductive,
           gil' \in Threads \cup {Nobody},
           answer' \in [kind : AnswerKinds, from : Nat, to : Nat],
           UNCHANGED <<streamVars, tailVars, busy, type, pc, mine, delivered, types>>
    PROVE  Inductive'
<1> USE DEF streamVars, tailVars
<1>1. TypeOK'
  BY DEF Inductive, TypeOK
<1>2. OneCallAtATime'
  BY DEF Inductive, OneCallAtATime
<1>3. TailCovers' /\ FeedingLinear' /\ TailBounded' /\ OneType'
  BY DEF Inductive, TailCovers, FeedingLinear, TailBounded, OneType, Stream!Buffered
<1>4. CallsTracked' /\ TokensAccounted' /\ ErrorCovered'
  BY DEF Inductive, CallsTracked, TokensAccounted, ErrorCovered
<1> QED BY <1>1, <1>2, <1>3, <1>4 DEF Inductive

\* What a step can answer besides tokens.
LEMMA AnswerTyped ==
    /\ NoAnswer \in [kind : AnswerKinds, from : Nat, to : Nat]
    /\ \A kind \in AnswerKinds : Raised(kind) \in [kind : AnswerKinds, from : Nat, to : Nat]
    /\ \A kind \in AnswerKinds, from, to \in Nat :
          Answer(kind, from, to) \in [kind : AnswerKinds, from : Nat, to : Nat]
BY DEF NoAnswer, Raised, Answer, AnswerKinds

\* What the stream holds is a number of characters.
LEMMA BufferedTyped == Inductive => Stream!Buffered \in Nat
BY DEF Inductive, TypeOK, Stream!Buffered

\* The GIL changes hands, a call is refused, or buffered reads.
LEMMA ApartSteps ==
    ASSUME Inductive, NEW t \in Threads,
           \/ Acquire(t) \/ Yield(t) \/ RefuseBusy(t) \/ Buffered(t)
           \/ \E kind \in {"str", "bytes"} : RefuseType(t, kind)
    PROVE  Inductive'
<1>0. gil \in Threads \cup {Nobody} /\ busy \in BOOLEAN
  BY DEF Inductive, TypeOK
<1>1. {"RuntimeError", "TypeError", "buffered"} \subseteq AnswerKinds /\ 0 \in Nat
  BY DEF AnswerKinds
<1>2. CASE Acquire(t) \/ Yield(t)
  BY <1>0, <1>2, ApartInductive, AnswerTyped DEF Acquire, Yield
<1>3. CASE RefuseBusy(t)
  BY <1>0, <1>1, <1>3, ApartInductive, AnswerTyped DEF RefuseBusy, AfterRefusal
<1>4. CASE Buffered(t)
  BY <1>0, <1>1, <1>4, ApartInductive, AnswerTyped, BufferedTyped DEF Buffered
<1>5. ASSUME NEW kind \in {"str", "bytes"}, RefuseType(t, kind) PROVE Inductive'
  BY <1>0, <1>1, <1>5, ApartInductive, AnswerTyped DEF RefuseType
<1> QED BY <1>2, <1>3, <1>4, <1>5

-----------------------------------------------------------------------------
(* A call, up to the stream *)

\* A thread outside the stream that claims it is the only one in it.
LEMMA EntersAlone ==
    ASSUME Inductive, NEW t \in Threads, NEW place \in {"lexing", "refused"},
           pc[t] = "python", ~busy, busy' = TRUE, Goes(t, place),
           call' # "none" <=> place = "lexing"
    PROVE  /\ OneCallAtATime'
           /\ pc' \in [Threads -> Places]
           /\ \A u \in Threads : pc'[u] = IF u = t THEN place ELSE pc[u]
           /\ \A u \in Threads : pc[u] \notin InCall
<1>1. pc \in [Threads -> Places] /\ \A u \in Threads : pc[u] \notin InCall
  BY DEF Inductive, TypeOK, OneCallAtATime
<1>2. \A u \in Threads : pc'[u] = IF u = t THEN place ELSE pc[u]
  BY <1>1 DEF Goes
<1>3. pc' \in [Threads -> Places]
  BY <1>1 DEF Goes, Places
<1>4. \A u \in Threads : pc'[u] \in InCall <=> u = t
  BY <1>1, <1>2 DEF InCall
<1>5. \A u \in Threads : pc'[u] = "lexing" <=> u = t /\ place = "lexing"
  BY <1>1, <1>2 DEF InCall
<1>6. OneCallAtATime'
  BY <1>4, <1>5 DEF OneCallAtATime
<1> QED BY <1>1, <1>2, <1>3, <1>6

\* A feed up to the stream: the claim is taken and the chunk is in the tail.
LEMMA FeedInductive ==
    ASSUME Inductive, NEW t \in Threads, NEW n \in Pieces, NEW kind \in {"str", "bytes"}, Feed(t, n, kind)
    PROVE  Inductive'
<1> DEFINE place == IF finished THEN "refused" ELSE "lexing"
<1>0. n \in Nat /\ MaxText \in Nat /\ Context \in Nat
  BY PythonAssumption
<1>1. /\ fed \in 0..MaxText /\ held \in 0..fed /\ tailEnd \in 0..MaxText /\ tailBase \in 0..tailEnd
      /\ moved \in Nat /\ delivered \in Nat /\ call \in {"none", "feed", "finish"}
      /\ finished \in BOOLEAN /\ ~busy /\ fed <= tailEnd
      /\ failure \in [kind : {"none", "here", "entry"}, at : 0..fed]
      /\ mine \in [Threads -> [from : Nat, to : Nat]]
      /\ gil = t /\ pc[t] = "python" /\ tailEnd + n <= MaxText
  BY DEF Inductive, TypeOK, Feed, Claimed, CallsTracked
<1>2. call = "none"
  BY <1>1 DEF Inductive, OneCallAtATime, InCall
<1>3. /\ held' = held /\ failure' = failure /\ finished' = finished /\ delivered' = delivered
      /\ tailBase' = tailBase /\ moved' = moved /\ tailEnd' = tailEnd + n /\ busy' = TRUE /\ type' = kind
      /\ fed' = IF finished THEN fed ELSE fed + n
      /\ call' = IF finished THEN "none" ELSE "feed"
      /\ mine' = [mine EXCEPT ![t] = [from |-> held, to |-> held]]
      /\ types' = IF finished THEN types ELSE types \cup {kind}
      /\ answer' = NoAnswer /\ gil' \in {Nobody, t}
      /\ Goes(t, place)
  BY <1>1, <1>2 DEF Feed, Calls, Stream!Feed, streamVars, TailWith
<1>4. /\ OneCallAtATime'
      /\ pc' \in [Threads -> Places]
      /\ \A u \in Threads : pc'[u] = IF u = t THEN place ELSE pc[u]
      /\ \A u \in Threads : pc[u] \notin InCall
  BY <1>1, <1>3, EntersAlone
<1>5. /\ mine' \in [Threads -> [from : Nat, to : Nat]]
      /\ \A u \in Threads : mine'[u] = IF u = t THEN [from |-> held, to |-> held] ELSE mine[u]
  BY <1>1, <1>3
<1>6. TypeOK'
  <2>1. types' \subseteq {"str", "bytes"}
    BY <1>3 DEF Inductive, TypeOK
  <2>2. failure' \in [kind : {"none", "here", "entry"}, at : 0..fed']
    BY <1>0, <1>1, <1>3
  <2>3. fed' \in 0..MaxText /\ held' \in 0..fed' /\ tailEnd' \in 0..MaxText /\ tailBase' \in 0..tailEnd'
    BY <1>0, <1>1, <1>3
  <2>4. gil' \in Threads \cup {Nobody} /\ answer' \in [kind : AnswerKinds, from : Nat, to : Nat]
    BY <1>3, AnswerTyped
  <2> QED BY <1>1, <1>3, <1>4, <1>5, <2>1, <2>2, <2>3, <2>4 DEF TypeOK
<1>7. TailCovers' /\ FeedingLinear' /\ TailBounded' /\ ErrorCovered'
  BY <1>0, <1>1, <1>3
     DEF Inductive, TailCovers, FeedingLinear, TailBounded, ErrorCovered, CallsTracked
<1>8. OneType'
  <2>1. \A other \in types : other = type /\ other \in {"str", "bytes"}
    BY DEF Inductive, OneType, TypeOK
  <2>2. type \in {"none", kind}
    BY DEF Feed, TypeFits
  <2> QED BY <1>3, <2>1, <2>2 DEF OneType
<1>9. CallsTracked'
  <2>1. \A u \in Threads : pc'[u] \in {"failing", "refused", "reporting"} => finished'
    BY <1>3, <1>4 DEF Inductive, CallsTracked
  <2> QED BY <1>0, <1>1, <1>3, <2>1 DEF Inductive, CallsTracked
<1>10. TokensAccounted'
  <2>1. delivered = held
    BY <1>1 DEF Inductive, TokensAccounted
  <2> QED BY <1>3, <1>4, <1>5, <2>1 DEF TokensAccounted, InCall
<1> QED BY <1>4, <1>6, <1>7, <1>8, <1>9, <1>10 DEF Inductive


\* A finish up to the stream.
LEMMA FinishInductive ==
    ASSUME Inductive, NEW t \in Threads, Finish(t)
    PROVE  Inductive'
<1> DEFINE place == IF finished THEN "refused" ELSE "lexing"
<1>1. /\ fed \in 0..MaxText /\ held \in 0..fed /\ tailEnd \in 0..MaxText /\ tailBase \in 0..tailEnd
      /\ finished \in BOOLEAN /\ ~busy /\ fed <= tailEnd
      /\ failure \in [kind : {"none", "here", "entry"}, at : 0..fed]
      /\ mine \in [Threads -> [from : Nat, to : Nat]]
      /\ gil = t /\ pc[t] = "python"
  BY DEF Inductive, TypeOK, Finish, Claimed, CallsTracked
<1>2. call = "none"
  BY <1>1 DEF Inductive, OneCallAtATime, InCall
<1>3. /\ held' = held /\ failure' = failure /\ finished' = TRUE /\ delivered' = delivered
      /\ tailBase' = tailBase /\ moved' = moved /\ tailEnd' = tailEnd /\ busy' = TRUE /\ type' = type
      /\ fed' = fed /\ types' = types
      /\ call' = IF finished THEN "none" ELSE "finish"
      /\ mine' = [mine EXCEPT ![t] = [from |-> held, to |-> held]]
      /\ answer' = NoAnswer /\ gil' \in {Nobody, t}
      /\ Goes(t, place)
  BY <1>1, <1>2 DEF Finish, Calls, Stream!Finish, streamVars, tailVars
<1>4. /\ OneCallAtATime'
      /\ pc' \in [Threads -> Places]
      /\ \A u \in Threads : pc'[u] = IF u = t THEN place ELSE pc[u]
      /\ \A u \in Threads : pc[u] \notin InCall
  BY <1>1, <1>3, EntersAlone
<1>5. /\ mine' \in [Threads -> [from : Nat, to : Nat]]
      /\ \A u \in Threads : mine'[u] = IF u = t THEN [from |-> held, to |-> held] ELSE mine[u]
  BY <1>1, <1>3
<1>6. TypeOK'
  <2>1. gil' \in Threads \cup {Nobody} /\ answer' \in [kind : AnswerKinds, from : Nat, to : Nat]
    BY <1>3, AnswerTyped
  <2> QED BY <1>3, <1>4, <1>5, <2>1 DEF Inductive, TypeOK
<1>7. TailCovers' /\ FeedingLinear' /\ TailBounded' /\ ErrorCovered' /\ OneType'
  BY <1>3 DEF Inductive, TailCovers, FeedingLinear, TailBounded, ErrorCovered, OneType
<1>8. CallsTracked'
  BY <1>1, <1>3 DEF CallsTracked
<1>9. TokensAccounted'
  <2>1. delivered = held
    BY <1>1 DEF Inductive, TokensAccounted
  <2> QED BY <1>3, <1>4, <1>5, <2>1 DEF TokensAccounted, InCall
<1> QED BY <1>4, <1>6, <1>7, <1>8, <1>9 DEF Inductive

-----------------------------------------------------------------------------
(* In the stream *)

\* A step of the stream by the thread that lexes: it moves on in the text, and may leave the stream.
LEMMA LexesInductive ==
    ASSUME Inductive, NEW t \in Threads, Lexes(t)
    PROVE  Inductive'
<1> DEFINE place == pc'[t]
<1>1. /\ fed \in 0..MaxText /\ held \in 0..fed /\ tailEnd \in 0..MaxText /\ tailBase \in 0..tailEnd
      /\ finished \in BOOLEAN /\ fed <= tailEnd /\ MaxText \in Nat /\ Context \in Nat
      /\ failure \in [kind : {"none", "here", "entry"}, at : 0..fed]
      /\ pc \in [Threads -> Places] /\ mine \in [Threads -> [from : Nat, to : Nat]]
      /\ call \in {"none", "feed", "finish"}
  BY PythonAssumption DEF Inductive, TypeOK, CallsTracked
<1>2. /\ pc[t] = "lexing" /\ call # "none" /\ busy
      /\ \A u \in Threads : pc[u] \in InCall => u = t
  BY DEF Inductive, OneCallAtATime, InCall, Lexes, Decides, Returns, Fails, InStream
<1>3. /\ UNCHANGED <<tailVars, busy, type, gil, delivered, types>>
      /\ answer' = NoAnswer
      /\ mine' = [mine EXCEPT ![t].to = held']
      /\ \/ Goes(t, "lexing") /\ \E k \in (held + 1)..fed : Stream!Take(k)
         \/ Goes(t, "listing") /\ \E k \in held..fed : Stream!Return(k)
         \/ Goes(t, "failing") /\ \E kind \in {"here", "entry"}, at \in 0..fed, k \in held..fed :
                                      Stream!Fail(kind, at, k)
  BY DEF Lexes, Decides, Returns, Fails, InStream
<1>4. /\ fed' = fed /\ held' \in held..fed
      /\ finished' \in BOOLEAN /\ (finished => finished')
      /\ call' \in {"none", "feed", "finish"}
      /\ failure' \in [kind : {"none", "here", "entry"}, at : 0..fed]
  <2>1. CASE \E k \in (held + 1)..fed : Stream!Take(k)
    BY <1>1, <2>1 DEF Stream!Take
  <2>2. CASE \E k \in held..fed : Stream!Return(k)
    BY <1>1, <2>2 DEF Stream!Return
  <2>3. CASE \E kind \in {"here", "entry"}, at \in 0..fed, k \in held..fed : Stream!Fail(kind, at, k)
    BY <1>1, <2>3 DEF Stream!Fail, Stream!Failed
  <2> QED BY <1>3, <2>1, <2>2, <2>3
<1>5. /\ place \in {"lexing", "listing", "failing"}
      /\ \A u \in Threads : pc'[u] = IF u = t THEN place ELSE pc[u]
      /\ pc' \in [Threads -> Places]
  BY <1>1, <1>3 DEF Goes, Places
<1>6. /\ place = "lexing" => call' = call /\ finished' = finished /\ failure' = failure
      /\ place = "listing" => call' = "none" /\ finished' = finished /\ failure' = failure
      /\ place = "failing" => call' = "none" /\ finished' = TRUE
  BY <1>1, <1>3 DEF Goes, Stream!Take, Stream!Return, Stream!Fail
<1>7. \/ failure' = failure
      \/ failure'.kind = "here" /\ failure'.at >= held
      \/ failure'.kind = "entry"
  BY <1>1, <1>3 DEF Stream!Take, Stream!Return, Stream!Fail, Stream!Failed
<1>8. /\ mine' \in [Threads -> [from : Nat, to : Nat]]
      /\ \A u \in Threads : mine'[u] = IF u = t THEN [from |-> mine[t].from, to |-> held'] ELSE mine[u]
  BY <1>1, <1>3, <1>4
<1>9. TypeOK'
  <2>1. answer' \in [kind : AnswerKinds, from : Nat, to : Nat]
    BY <1>3, AnswerTyped
  <2>2. held' \in 0..fed'
    BY <1>1, <1>4
  <2> QED BY <1>3, <1>4, <1>5, <1>8, <2>1, <2>2 DEF Inductive, TypeOK, tailVars
<1>10. OneCallAtATime'
  <2>1. \A u \in Threads : pc'[u] \in InCall <=> u = t
    BY <1>2, <1>5 DEF InCall
  <2>2. \A u \in Threads : pc'[u] = "lexing" <=> u = t /\ place = "lexing"
    BY <1>2, <1>5 DEF InCall
  <2>3. call' # "none" <=> place = "lexing"
    BY <1>2, <1>5, <1>6
  <2> QED BY <1>2, <1>3, <2>1, <2>2, <2>3 DEF OneCallAtATime
<1>11. TailCovers' /\ FeedingLinear' /\ TailBounded' /\ OneType'
  BY <1>1, <1>2, <1>3, <1>4 DEF Inductive, TailCovers, FeedingLinear, TailBounded, OneType, tailVars
<1>12. ErrorCovered'
  BY <1>1, <1>3, <1>4, <1>7 DEF Inductive, ErrorCovered, TailCovers, tailVars
<1>13. CallsTracked'
  <2>1. \A u \in Threads : pc'[u] \in {"failing", "refused", "reporting"} => finished'
    BY <1>4, <1>5, <1>6 DEF Inductive, CallsTracked
  <2>2. (call' = "feed" => ~finished') /\ (call' = "finish" => finished')
    BY <1>5, <1>6 DEF Inductive, CallsTracked
  <2>3. failure'.kind # "none" => finished'
    BY <1>4, <1>5, <1>6 DEF Inductive, CallsTracked
  <2> QED BY <1>3, <1>4, <2>1, <2>2, <2>3 DEF Inductive, CallsTracked, tailVars
<1>14. TokensAccounted'
  <2>1. mine[t].from = delivered
    BY <1>2 DEF Inductive, TokensAccounted, InCall
  <2>2. \A u \in Threads : pc'[u] \in InCall => u = t
    BY <1>2, <1>5
  <2>3. \A u \in Threads : pc'[u] # "refused"
    BY <1>2, <1>5 DEF InCall
  <2> QED BY <1>2, <1>3, <1>8, <2>1, <2>2, <2>3 DEF TokensAccounted, InCall
<1> QED BY <1>9, <1>10, <1>11, <1>12, <1>13, <1>14 DEF Inductive


-----------------------------------------------------------------------------
(* A call, from the stream on *)

\* What a trim leaves of the tail.
LEMMA TrimKeeps ==
    ASSUME Inductive, Trim,
           UNCHANGED <<held, fed, finished, failure, tailEnd>>
    PROVE  /\ tailBase' \in 0..tailEnd /\ moved' \in Nat
           /\ TailCovers' /\ FeedingLinear' /\ ErrorCovered'
           /\ ~finished => tailEnd - tailBase' <= 2 * (fed - held + Context)
<1>1. /\ fed \in 0..MaxText /\ held \in 0..fed /\ tailEnd \in 0..MaxText /\ tailBase \in 0..tailEnd
      /\ moved \in Nat /\ Context \in Nat /\ MaxText \in Nat
      /\ finished \in BOOLEAN /\ (~finished => tailEnd = fed) /\ moved <= tailBase
      /\ failure.kind # "none" => finished
  BY PythonAssumption DEF Inductive, TypeOK, CallsTracked, FeedingLinear
<1> DEFINE kept == fed - held + Context
<1>2. kept \in Nat /\ Kept = kept
  BY <1>1 DEF Kept, Stream!Buffered
<1>3. CASE ~finished /\ tailEnd - tailBase > 2 * kept
  <2>1. tailBase' = held - Context /\ moved' = moved + kept /\ tailEnd = fed
    BY <1>1, <1>2, <1>3 DEF Trim, Trims
  <2>2. tailBase' > tailBase + kept
    BY <1>1, <1>2, <1>3, <2>1
  <2> HIDE DEF kept
  <2>3. tailBase' \in 0..tailEnd /\ moved' \in Nat /\ FeedingLinear'
    BY <1>1, <1>2, <2>1, <2>2 DEF FeedingLinear
  <2>4. TailCovers' /\ ErrorCovered'
    BY <1>1, <1>3, <2>1 DEF Inductive, TailCovers, ErrorCovered
  <2>5. tailEnd - tailBase' <= 2 * (fed - held + Context)
    BY <1>1, <2>1
  <2> QED BY <2>3, <2>4, <2>5
<1>4. CASE ~(~finished /\ tailEnd - tailBase > 2 * kept)
  <2>1. tailBase' = tailBase /\ moved' = moved
    BY <1>2, <1>4 DEF Trim, Trims
  <2> QED BY <1>1, <1>2, <1>4, <2>1 DEF Inductive, TailCovers, FeedingLinear, ErrorCovered
<1> QED BY <1>3, <1>4

\* The thread that is in the stream leaves it.
LEMMA LeavesInductive ==
    ASSUME Inductive, NEW t \in Threads, NEW from \in {"listing", "failing", "refused"},
           NEW place \in {"python", "reporting"}, Ends(t, from, place),
           (place = "reporting" => from = "failing"),
           Trim \/ (finished /\ UNCHANGED <<tailBase, moved>>),
           delivered' = IF from = "refused" THEN delivered ELSE mine[t].to,
           answer' \in [kind : AnswerKinds, from : Nat, to : Nat]
    PROVE  Inductive'
<1>1. /\ fed \in 0..MaxText /\ held \in 0..fed /\ tailEnd \in 0..MaxText /\ tailBase \in 0..tailEnd
      /\ finished \in BOOLEAN
      /\ pc \in [Threads -> Places] /\ mine \in [Threads -> [from : Nat, to : Nat]]
  BY DEF Inductive, TypeOK
<1>2. /\ pc[t] = from /\ gil = t /\ call = "none"
      /\ \A u \in Threads : pc[u] \in InCall => u = t
  BY DEF Inductive, OneCallAtATime, InCall, Ends
<1>3. /\ UNCHANGED streamVars /\ tailEnd' = tailEnd /\ type' = type /\ gil' = gil /\ types' = types
      /\ busy' = FALSE
      /\ mine' = [mine EXCEPT ![t] = NoTokens]
      /\ Goes(t, place)
  BY DEF Ends
<1>4. /\ tailBase' \in 0..tailEnd /\ moved' \in Nat
      /\ TailCovers' /\ FeedingLinear' /\ ErrorCovered'
      /\ ~finished => tailEnd - tailBase' <= 2 * (fed - held + Context)
  <2>1. CASE Trim
    BY <1>3, <2>1, TrimKeeps DEF streamVars
  <2>2. CASE finished /\ UNCHANGED <<tailBase, moved>>
    BY <1>1, <1>3, <2>2
       DEF Inductive, TypeOK, TailCovers, FeedingLinear, ErrorCovered, streamVars
  <2> QED BY <2>1, <2>2
<1>5. /\ \A u \in Threads : pc'[u] = IF u = t THEN place ELSE pc[u]
      /\ pc' \in [Threads -> Places]
  BY <1>1, <1>3 DEF Goes, Places
<1>6. mine' \in [Threads -> [from : Nat, to : Nat]]
  BY <1>1, <1>3 DEF NoTokens
<1>7. \A u \in Threads : pc'[u] \notin InCall
  BY <1>2, <1>5 DEF InCall
<1>8. delivered' = held
  BY <1>2 DEF Inductive, TokensAccounted, InCall
<1>9. TypeOK'
  <2>1. delivered' \in Nat /\ fed' = fed /\ held' = held
    BY <1>1, <1>3, <1>8 DEF streamVars
  <2>2. TypeOK
    BY DEF Inductive
  <2> QED BY <1>3, <1>4, <1>5, <1>6, <2>1, <2>2 DEF TypeOK, streamVars
<1>10. OneCallAtATime'
  BY <1>2, <1>3, <1>7 DEF OneCallAtATime, InCall, streamVars
<1>11. TailBounded' /\ OneType'
  BY <1>3, <1>4 DEF Inductive, TailBounded, OneType, Stream!Buffered, streamVars
<1>12. CallsTracked'
  BY <1>2, <1>3, <1>5 DEF Inductive, CallsTracked, streamVars
<1>13. TokensAccounted'
  BY <1>3, <1>7, <1>8 DEF TokensAccounted, InCall, streamVars
<1> QED BY <1>4, <1>9, <1>10, <1>11, <1>12, <1>13 DEF Inductive

\* A thread that fails or is refused does so in a stream that has ended.
LEMMA EndedWhere ==
    ASSUME Inductive, NEW t \in Threads, pc[t] \in {"failing", "refused"}
    PROVE  finished
BY DEF Inductive, CallsTracked

\* The end of a call: the list or the error, and the claim given back.
LEMMA AnswersInductive ==
    ASSUME Inductive, NEW t \in Threads, Answers(t)
    PROVE  Inductive'
<1>1. /\ mine[t].from \in Nat /\ mine[t].to \in Nat /\ tailBase \in Nat /\ tailEnd \in Nat
      /\ {"tokens", "LexError", "error", "MemoryError", "window"} \subseteq AnswerKinds
  BY PythonAssumption DEF Inductive, TypeOK, AnswerKinds
<1>2. CASE List(t)
  BY <1>1, <1>2, LeavesInductive, AnswerTyped DEF List
<1>3. CASE ListFails(t)
  BY <1>1, <1>3, LeavesInductive, AnswerTyped DEF ListFails
<1>4. CASE Raise(t)
  <2>1. finished
    BY <1>4, EndedWhere DEF Raise, Ends
  <2> QED BY <1>1, <1>4, <2>1, LeavesInductive, AnswerTyped DEF Raise
<1>5. CASE RaiseFails(t)
  <2>1. finished
    BY <1>5, EndedWhere DEF RaiseFails, Ends
  <2> QED BY <1>1, <1>5, <2>1, LeavesInductive, AnswerTyped DEF RaiseFails
<1>6. CASE Refuse(t)
  <2>1. finished
    BY <1>6, EndedWhere DEF Refuse, Ends
  <2>2. answer' \in [kind : AnswerKinds, from : Nat, to : Nat]
    BY <1>1, <1>6, AnswerTyped DEF Refuse
  <2>3. /\ Ends(t, "refused", "python") /\ UNCHANGED <<tailBase, moved>>
        /\ delivered' = IF "refused" = "refused" THEN delivered ELSE mine[t].to
    BY <1>6 DEF Refuse
  <2> QED BY <2>1, <2>2, <2>3, LeavesInductive
<1>7. CASE Report(t)
  <2>1. /\ pc[t] = "reporting" /\ answer' = Answer("window", tailBase, tailEnd)
        /\ UNCHANGED <<streamVars, tailVars, busy, type, gil, mine, delivered, types>>
        /\ \A u \in Threads : pc'[u] = IF u = t THEN "python" ELSE pc[u]
        /\ pc' \in [Threads -> Places]
    BY <1>7 DEF Report, Goes, Inductive, TypeOK, Places
  <2>2. \A u \in Threads :
          /\ pc'[u] \in InCall <=> pc[u] \in InCall
          /\ pc'[u] = "lexing" <=> pc[u] = "lexing"
          /\ pc'[u] \in InCall => pc'[u] = pc[u]
    BY <2>1 DEF InCall
  <2>3. answer' \in [kind : AnswerKinds, from : Nat, to : Nat]
    BY <1>1, <2>1, AnswerTyped
  <2>4. TypeOK'
    BY <2>1, <2>3 DEF Inductive, TypeOK, streamVars, tailVars
  <2>5. OneCallAtATime'
    BY <2>1, <2>2 DEF Inductive, OneCallAtATime, streamVars
  <2>6. TailCovers' /\ FeedingLinear' /\ TailBounded' /\ OneType' /\ ErrorCovered'
    BY <2>1 DEF Inductive, TailCovers, FeedingLinear, TailBounded, OneType, ErrorCovered,
                Stream!Buffered, streamVars, tailVars
  <2>7. CallsTracked'
    BY <2>1 DEF Inductive, CallsTracked, streamVars, tailVars
  <2>8. TokensAccounted'
    BY <2>1, <2>2 DEF Inductive, TokensAccounted, InCall, streamVars
  <2> QED BY <2>4, <2>5, <2>6, <2>7, <2>8 DEF Inductive
<1> QED BY <1>2, <1>3, <1>4, <1>5, <1>6, <1>7 DEF Answers

-----------------------------------------------------------------------------
(* The theorems *)

\* So every step of every thread keeps the invariant.
LEMMA NextInductive == Inductive /\ [Next]_vars => Inductive'
<1> SUFFICES ASSUME Inductive, [Next]_vars PROVE Inductive'
  OBVIOUS
<1>1. ASSUME NEW t \in Threads,
             Acquire(t) \/ Yield(t) \/ Begins(t) \/ Lexes(t) \/ Answers(t)
      PROVE  Inductive'
  <2>1. CASE Acquire(t) \/ Yield(t)
    BY <2>1, ApartSteps
  <2>2. CASE Begins(t)
    BY <2>2, ApartSteps, FeedInductive, FinishInductive DEF Begins
  <2> QED BY <1>1, <2>1, <2>2, LexesInductive, AnswersInductive
<1>2. CASE UNCHANGED vars
  <2>1. answer' \in [kind : AnswerKinds, from : Nat, to : Nat] /\ gil' \in Threads \cup {Nobody}
    BY <1>2 DEF vars, Inductive, TypeOK
  <2> QED BY <1>2, <2>1, ApartInductive DEF vars
<1> QED BY <1>1, <1>2 DEF Next

\* The invariant holds in every execution, whatever the threads, the chunks and the thresholds.
THEOREM PythonInductive == Safety => []Inductive
BY InitInductive, NextInductive, PTL DEF Safety

\* The claim works: no two threads are in a stream at a time, and a stream is claimed only while one is.
THEOREM CallsExclude == Safety => []OneCallAtATime
<1>1. Inductive => OneCallAtATime
  BY DEF Inductive
<1> QED BY <1>1, PythonInductive, PTL

\* The tail kept for errors covers them, whatever was trimmed.
THEOREM TailKept == Safety => []TailCovers
<1>1. Inductive => TailCovers
  BY DEF Inductive
<1> QED BY <1>1, PythonInductive, PTL

\* Between calls it is at most twice as long as it must be.
THEOREM TailStaysShort == Safety => []TailBounded
<1>1. Inductive => TailBounded
  BY DEF Inductive
<1> QED BY <1>1, PythonInductive, PTL

\* The trims moved no more text than they dropped: feeding is linear in the text.
THEOREM TrimsAmortized == Safety => []FeedingLinear
<1>1. Inductive => FeedingLinear
  BY DEF Inductive
<1> QED BY <1>1, PythonInductive, PTL

\* The type of the first chunk is the type of every chunk the stream took.
THEOREM TypesAgree == Safety => []OneType
<1>1. Inductive => OneType
  BY DEF Inductive
<1> QED BY <1>1, PythonInductive, PTL

-----------------------------------------------------------------------------
(* What a step may not do *)

\* A step answers with tokens or a LexError only as a call ends, with a window only as one is asked for,
\* and with a number only while the stream is free.
LEMMA AnswersWhere ==
    ASSUME [Next]_vars, ~UNCHANGED vars
    PROVE  /\ answer'.kind \in {"tokens", "LexError"} => \E t \in Threads : List(t) \/ Raise(t)
           /\ answer'.kind = "window" => \E t \in Threads : Report(t)
           /\ answer'.kind = "buffered" => \E t \in Threads : Buffered(t)
<1> USE DEF NoAnswer, Raised, Answer
<1>1. PICK t \in Threads : Acquire(t) \/ Yield(t) \/ Begins(t) \/ Lexes(t) \/ Answers(t)
  BY DEF Next
<1>2. CASE Acquire(t) \/ Yield(t)
  BY <1>2 DEF Acquire, Yield
<1>3. CASE Begins(t)
  <2>1. ASSUME RefuseBusy(t) \/ (\E kind \in {"str", "bytes"} : RefuseType(t, kind))
        PROVE  answer'.kind \in {"RuntimeError", "TypeError"}
    BY <2>1 DEF RefuseBusy, RefuseType
  <2>2. ASSUME Finish(t) \/ (\E n \in Pieces, kind \in {"str", "bytes"} : Feed(t, n, kind))
        PROVE  answer'.kind = "none"
    BY <2>2 DEF Finish, Feed
  <2>3. Buffered(t) => answer'.kind = "buffered"
    BY DEF Buffered
  <2> QED BY <1>3, <2>1, <2>2, <2>3 DEF Begins
<1>4. CASE Lexes(t)
  BY <1>4 DEF Lexes, Decides, Returns, Fails, InStream
<1>5. CASE Answers(t)
  BY <1>5 DEF Answers, ListFails, RaiseFails, Refuse, List, Raise, Report
<1> QED BY <1>1, <1>2, <1>3, <1>4, <1>5

\* The stream changes only as a call begins, of a free stream, or in the call that lexes.
LEMMA StreamMovesWhere ==
    ASSUME Inductive, [Next]_vars, NEW t \in Threads, pc[t] \in {"listing", "failing"}
    PROVE  UNCHANGED streamVars
<1>1. CASE UNCHANGED vars
  BY <1>1 DEF vars
<1>2. ASSUME NEW u \in Threads, Acquire(u) \/ Yield(u) \/ Answers(u)
      PROVE  UNCHANGED streamVars
  BY <1>2 DEF Acquire, Yield, Answers, List, ListFails, Raise, RaiseFails, Refuse, Report, Ends
<1>3. ASSUME NEW u \in Threads, Begins(u)
      PROVE  UNCHANGED streamVars
  <2>1. busy
    BY DEF Inductive, OneCallAtATime, InCall
  <2> QED BY <1>3, <2>1 DEF Begins, RefuseType, RefuseBusy, Feed, Finish, Buffered, Claimed
<1>4. ASSUME NEW u \in Threads, Lexes(u)
      PROVE  FALSE
  <2>1. pc[u] = "lexing"
    BY <1>4 DEF Lexes, Decides, Returns, Fails, InStream
  <2> QED BY <2>1 DEF Inductive, OneCallAtATime, InCall
<1> QED BY <1>1, <1>2, <1>3, <1>4 DEF Next

\* No lexeme is read after the text under it moved, and buffered never reads a stream in a call.
THEOREM LexemesValid == Safety => LexemesStayValid
<1>1. Inductive /\ [Next]_vars
      => [ /\ \A t \in Threads :
                 pc[t] \in {"listing", "failing"} /\ pc'[t] = pc[t] => UNCHANGED streamVars
           /\ answer'.kind = "buffered" => \A t \in Threads : pc[t] \notin InCall ]_vars
  <2> SUFFICES ASSUME Inductive, [Next]_vars, ~UNCHANGED vars
               PROVE  /\ \A t \in Threads :
                            pc[t] \in {"listing", "failing"} /\ pc'[t] = pc[t] => UNCHANGED streamVars
                      /\ answer'.kind = "buffered" => \A t \in Threads : pc[t] \notin InCall
    OBVIOUS
  <2>1. \A t \in Threads : pc[t] \in {"listing", "failing"} => UNCHANGED streamVars
    BY StreamMovesWhere
  <2>2. ASSUME answer'.kind = "buffered" PROVE \A t \in Threads : pc[t] \notin InCall
    <3>1. ~busy
      BY <2>2, AnswersWhere DEF Buffered, Claimed
    <3> QED BY <3>1 DEF Inductive, OneCallAtATime
  <2> QED BY <2>1, <2>2
<1> QED BY <1>1, PythonInductive, PTL DEF Safety, LexemesStayValid

\* The callers have the tokens of the text in its order, whichever threads fed it.
THEOREM TokensOrdered == Safety => TokensInOrder
<1>1. Inductive /\ [Next]_vars
      => [answer'.kind \in {"tokens", "LexError"} => answer'.from = delivered]_vars
  <2> SUFFICES ASSUME Inductive, [Next]_vars, ~UNCHANGED vars, answer'.kind \in {"tokens", "LexError"}
               PROVE  answer'.from = delivered
    OBVIOUS
  <2>1. PICK t \in Threads : List(t) \/ Raise(t)
    BY AnswersWhere
  <2>2. answer'.from = mine[t].from /\ pc[t] \in {"listing", "failing"}
    BY <2>1 DEF List, Raise, Ends, Answer
  <2> QED BY <2>2 DEF Inductive, TokensAccounted
<1> QED BY <1>1, PythonInductive, PTL DEF Safety, TokensInOrder

\* The window a snippet is cut from ends at or past the error and, for one at the text held, begins Context
\* before it, whatever other threads did since it was raised.
THEOREM ContextKept == Safety => ContextCovered
<1>1. Inductive /\ [Next]_vars
      => [ answer'.kind = "window" =>
              /\ failure.at <= answer'.to
              /\ failure.kind = "here" => answer'.from = 0 \/ answer'.from + Context <= failure.at ]_vars
  <2> SUFFICES ASSUME Inductive, [Next]_vars, ~UNCHANGED vars, answer'.kind = "window"
               PROVE  /\ failure.at <= answer'.to
                      /\ failure.kind = "here" => answer'.from = 0 \/ answer'.from + Context <= failure.at
    OBVIOUS
  <2>1. PICK t \in Threads : Report(t)
    BY AnswersWhere
  <2>2. answer'.from = tailBase /\ answer'.to = tailEnd
    BY <2>1 DEF Report, Answer
  <2>3. failure.at \in 0..fed /\ fed <= tailEnd /\ fed \in Nat /\ tailEnd \in Nat
    BY PythonAssumption DEF Inductive, TypeOK, CallsTracked
  <2> QED BY <2>2, <2>3 DEF Inductive, ErrorCovered
<1> QED BY <1>1, PythonInductive, PTL DEF Safety, ContextCovered

=============================================================================
