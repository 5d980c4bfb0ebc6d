------------------------------- MODULE Layout -------------------------------
(***************************************************************************)
(* layout(): the pass that inserts NEWLINE, INDENT and DEDENT into the      *)
(* tokens of a text, from where each line's first token begins.             *)
(*                                                                         *)
(* A step takes one token of the input, or, where indentation is measured  *)
(* in the source (tab_policy::python), reads one character of it.          *)
(***************************************************************************)
EXTENDS Integers, Sequences, SequencesExt, FiniteSets

CONSTANT
    Calls   \* The calls: tokens, source, how tabs are measured, the kinds of the entry and value rules,
            \* and the modes that do not shape layout.

EndOfInput == "end_of_input"

Synthetic == {"newline", "indent", "dedent"}

\* Tokens with where they begin in a text, none of a kind the pass adds.
ASSUME LayoutAssumption ==
    \A call \in Calls :
        /\ call.tabs \in {"columns", "python"}
        /\ call.tokens \in Seq([kind : STRING, lexeme : Seq(STRING), mode : STRING,
                                start : [offset : Nat, line : Nat, column : Nat \ {0}]])
        /\ call.source \in Seq(STRING)
        /\ \A i \in DOMAIN call.tokens : call.tokens[i].kind \notin Synthetic

\* The line of a token's last byte; a newline that ends the token ends its line.
LastLine(token) ==
    token.start.line + Cardinality({ i \in 1..(Len(token.lexeme) - 1) : token.lexeme[i] = "nl" })

\* A token that is not the first on its line is not in its first column.
ASSUME LinesAssumption ==
    \A call \in Calls : \A i, j \in DOMAIN call.tokens :
        i < j /\ call.tokens[j].start.line = LastLine(call.tokens[i]) => call.tokens[j].start.column > 1

\* No two tokens of a call are the same: they begin at different places.
ASSUME ApartAssumption ==
    \A call \in Calls : \A i, j \in DOMAIN call.tokens : call.tokens[i] = call.tokens[j] => i = j

VARIABLES
    call,       \* The arguments.
    next,       \* The token of the input to take.
    at, width,  \* indent_meter: the offset measured last, and its measure.
    out,        \* The tokens given.
    levels,     \* levels and measured: the open blocks, as both measures see them.
    started,    \* A token that shapes layout was met.
    opens,      \* The last such token is an entry's, or a value's that opens its line.
    pending,    \* The place in out of a node that may open a block, or 0.
    pendingAt,  \* The column of that node.
    previousLine, \* The last line a token reached.
    endPosition,  \* Where the end-of-input token was.
    outcome     \* "running", "given", or what was thrown.

vars == <<call, next, at, width, out, levels, started, opens, pending, pendingAt, previousLine, endPosition,
          outcome>>

Zero == [tab8 |-> 0, tab1 |-> 0]

Init ==
    /\ call \in Calls
    /\ next = 1
    /\ at = 0 /\ width = Zero
    /\ out = <<>>
    /\ levels = <<Zero>>
    /\ started = FALSE
    /\ opens = FALSE
    /\ pending = 0 /\ pendingAt = Zero
    /\ previousLine = 0
    /\ endPosition = [offset |-> 0, line |-> 1, column |-> 1]
    /\ outcome = "running"

-----------------------------------------------------------------------------
(* The token at hand *)

Current == call.tokens[next]

PythonTabs == call.tabs = "python"

WithRoles == call.entries # {} \/ call.values # {}

Entry(token) == token.kind \in call.entries

Value(token) == token.kind \in call.values

Significant(token) == token.mode \notin call.insignificant

LineStart == Significant(Current) /\ (~started \/ Current.start.line # previousLine)

\* A node past an entry on its line.
Past == Significant(Current) /\ opens /\ ~LineStart

Mark(kind, start) == [kind |-> kind, lexeme |-> <<>>, mode |-> "default", start |-> start]

-----------------------------------------------------------------------------
(* The measure of a token's place on its line *)

\* One more character of the line, its tabs at the next multiple of 8 and as one column; a newline or
\* a form feed starts again.
Widened(measure, c) ==
    IF c \in {"nl", "ff"} THEN Zero
    ELSE [ tab8 |-> IF c = "tab" THEN (measure.tab8 \div 8 + 1) * 8 ELSE measure.tab8 + 1,
           tab1 |-> measure.tab1 + 1 ]

Taking == outcome = "running" /\ next <= Len(call.tokens) /\ Current.kind # EndOfInput

Measures == PythonTabs /\ (LineStart \/ Past)

\* The meter goes back to the start for a token before the last one measured.
From == IF Current.start.offset < at THEN 0 ELSE at

Read ==
    /\ Taking /\ Measures
    /\ Current.start.offset # at /\ Current.start.offset <= Len(call.source)
    /\ width' = IF From = at THEN Widened(width, call.source[at + 1]) ELSE Zero
    /\ at' = IF From = at THEN at + 1 ELSE From
    /\ UNCHANGED <<call, next, out, levels, started, opens, pending, pendingAt, previousLine, endPosition, outcome>>

Fail(error) ==
    /\ outcome' = error
    /\ UNCHANGED <<call, next, at, width, out, levels, started, opens, pending, pendingAt, previousLine, endPosition>>

\* std::invalid_argument: the token is not of this source.
Beyond ==
    /\ Taking /\ Measures
    /\ Current.start.offset > Len(call.source)
    /\ Fail("beyond")

Here == IF PythonTabs THEN width ELSE [tab8 |-> Current.start.column - 1, tab1 |-> 0]

-----------------------------------------------------------------------------
(* A token *)

Takes ==
    /\ next' = next + 1
    /\ UNCHANGED <<call, at, width, endPosition, outcome>>

Reaches == previousLine' = LastLine(Current)

\* The end of the input is remembered, and given last.
EndToken ==
    /\ outcome = "running" /\ next <= Len(call.tokens) /\ Current.kind = EndOfInput
    /\ endPosition' = Current.start
    /\ next' = next + 1
    /\ UNCHANGED <<call, at, width, out, levels, started, opens, pending, pendingAt, previousLine, outcome>>

\* A token of a mode that does not shape layout.
PassThrough ==
    /\ Taking /\ ~Significant(Current)
    /\ Takes /\ Reaches
    /\ out' = Append(out, Current)
    /\ UNCHANGED <<levels, started, opens, pending, pendingAt>>

\* A mutation: the INDENT goes where the value is.
IndentAtValue(given, node) == Append(given, Mark("indent", given[node].start))

\* The INDENT of the block the node at place node opens.
Indented(given, node) == InsertAt(given, node, Mark("indent", given[node].start))

\* A node that may open a block: it waits until it shows itself a collection.
NodeWaits(given, kept, deeper) ==
    /\ Past \/ deeper
    /\ ~Entry(Current)
    /\ pending' = Len(given) + 1 /\ pendingAt' = Here
    /\ levels' = kept
    /\ out' = Append(given, Current)

\* An entry opens one at once.
EntryOpens(given, kept, deeper) ==
    /\ Past \/ deeper
    /\ Entry(Current)
    /\ pending' = 0 /\ pendingAt' = Here
    /\ levels' = Append(kept, Here)
    /\ out' = given \o <<Mark("indent", Current.start), Current>>

\* A value past a waiting node makes it the first key of its block.
ValueShows == pending # 0 /\ Value(Current) /\ ~LineStart

ValueOpens(given, kept, deeper) ==
    /\ ~Past /\ ~deeper /\ ValueShows
    /\ pending' = 0
    /\ levels' = Append(kept, pendingAt)
    /\ out' = Append(Indented(given, pending), Current)
    /\ UNCHANGED pendingAt

\* A mutation: a new line leaves the node of the line before waiting.
PendingKept == pending

\* What waits after a token that opens nothing.
PendingAfter == IF LineStart THEN 0 ELSE pending

OpensNothing(given, kept, deeper) ==
    /\ ~Past /\ ~deeper /\ ~ValueShows
    /\ pending' = PendingAfter
    /\ levels' = kept
    /\ out' = Append(given, Current)
    /\ UNCHANGED pendingAt

\* An entry, or a value that opens its line, arms the node past it.
Arms == Entry(Current) \/ (Value(Current) /\ LineStart)

\* A token that shapes layout, after what its line gave: the tokens given so far, the blocks kept, and
\* whether its line is deeper than them.
Place(given, kept, deeper) ==
    /\ Takes /\ Reaches
    /\ started' = TRUE
    /\ opens' = Arms
    /\ \/ NodeWaits(given, kept, deeper)
       \/ EntryOpens(given, kept, deeper)
       \/ ValueOpens(given, kept, deeper)
       \/ OpensNothing(given, kept, deeper)

\* A token on the line of the one before.
Join ==
    /\ Taking /\ Significant(Current) /\ ~LineStart
    /\ Measures => at = Current.start.offset
    /\ Place(out, levels, FALSE)

\* A line begins, and its measure is known.
NewLine == Taking /\ LineStart /\ (PythonTabs => at = Current.start.offset)

\* The tokens given, and the NEWLINE that ends the line before.
Ended == IF started THEN Append(out, Mark("newline", Current.start)) ELSE out

\* How many of the open blocks a width leaves open: those deeper than it go, up to the last that is not.
Depth(w) == Max({0} \cup { d \in DOMAIN levels : levels[d].tab8 <= w })

\* A mutation: one block goes, however many are deeper.
KeptOne(w) == SubSeq(levels, 1, IF Last(levels).tab8 > w THEN Len(levels) - 1 ELSE Len(levels))

Kept(w) == SubSeq(levels, 1, Depth(w))

Dedents(start, kept) == [i \in 1..(Len(levels) - Len(kept)) |-> Mark("dedent", start)]

Deeper == Here.tab8 > Last(levels).tab8

\* The width is that of an open block.
Fits == Here.tab8 = Last(Kept(Here.tab8)).tab8

\* A mutation: a deeper line may be deeper by its tabs alone.
ClearOnceOpen == PythonTabs /\ ~Deeper => Here.tab1 = Last(Kept(Here.tab8)).tab1

\* The line compares the same way with its tabs as one column.
Clear ==
    PythonTabs => IF Deeper THEN Here.tab1 > Last(levels).tab1
                  ELSE Here.tab1 = Last(Kept(Here.tab8)).tab1

\* A line deeper than its block opens one; where there are roles, only if it shows itself a collection.
Deepen ==
    /\ NewLine /\ Deeper /\ Clear
    /\ IF WithRoles
       THEN Place(Ended, levels, TRUE)
       ELSE Place(Append(Ended, Mark("indent", Current.start)), Append(levels, Here), FALSE)

\* A line at the width of an open block closes those inside it.
Settle ==
    /\ NewLine /\ ~Deeper /\ Fits /\ Clear
    /\ LET kept == Kept(Here.tab8) IN Place(Ended \o Dedents(Current.start, kept), kept, FALSE)

\* layout_error: no open block has the line's width.
Inconsistent ==
    /\ NewLine /\ ~Deeper /\ ~Fits
    /\ Fail("inconsistent")

\* layout_error: what the line closes or opens depends on what a tab is worth.
Mixed ==
    /\ NewLine /\ (Deeper \/ Fits) /\ ~Clear
    /\ Fail("mixed")

\* After the last token: the end of its line, of the blocks still open, and of the input.
Finish ==
    /\ outcome = "running" /\ next > Len(call.tokens)
    /\ out' = (IF started THEN Append(out, Mark("newline", endPosition)) ELSE out)
              \o Dedents(endPosition, Kept(0))
              \o <<Mark(EndOfInput, endPosition)>>
    /\ levels' = Kept(0)
    /\ outcome' = "given"
    /\ UNCHANGED <<call, next, at, width, started, opens, pending, pendingAt, previousLine, endPosition>>

Next ==
    \/ Read
    \/ Beyond
    \/ EndToken
    \/ PassThrough
    \/ Join
    \/ Deepen
    \/ Settle
    \/ Inconsistent
    \/ Mixed
    \/ Finish

Spec == Init /\ [][Next]_vars

-----------------------------------------------------------------------------
(* What the tokens given say of the text *)

Count(kind, tokens) == Cardinality({ i \in DOMAIN tokens : tokens[i].kind = kind })

\* Every DEDENT closes an INDENT, the blocks open are those not closed, and none is left at the end
\* (check 6 of the fuzzers).
Balanced ==
    /\ \A i \in 0..Len(out) : Count("dedent", SubSeq(out, 1, i)) <= Count("indent", SubSeq(out, 1, i))
    /\ Count("indent", out) - Count("dedent", out) = Len(levels) - 1
    /\ outcome = "given" => Len(levels) = 1

\* What stands before a token on its line, since the last form feed.
Before(offset) ==
    LET begins == { i \in 1..offset : call.source[i] \in {"nl", "ff"} }
    IN  SubSeq(call.source, Max({0} \cup begins) + 1, offset)

\* The column of a token: its blanks as a terminal with a tab stop every 8 columns shows them, and
\* their number.
Column(token) ==
    LET blanks == Before(token.start.offset)
        shown[i \in 0..Len(blanks)] ==
            IF i = 0 THEN 0
            ELSE IF blanks[i] = "tab" THEN shown[i - 1] + 8 - (shown[i - 1] % 8) ELSE shown[i - 1] + 1
    IN  IF PythonTabs THEN [tab8 |-> shown[Len(blanks)], tab1 |-> Len(blanks)]
        ELSE [tab8 |-> token.start.column - 1, tab1 |-> 0]

\* The columns of the blocks open after each of the tokens given, to a reader of those tokens alone: a
\* block has the column of the token that opens it.
OpenAfter ==
    LET open[i \in 0..Len(out)] ==
            IF i = 0 THEN <<Zero>>
            ELSE CASE out[i].kind = "indent" -> Append(open[i - 1], Column(out[i + 1]))
                   [] out[i].kind = "dedent" -> Front(open[i - 1])
                   [] OTHER                  -> open[i - 1]
    IN  open

\* The reader finds the blocks the pass had open, at their columns, though an INDENT may be given only
\* when a value past its token shows the collection.
ReadBack == OpenAfter[Len(out)] = levels

\* The tokens taken so far that shape layout, and those of them that begin a line: the first, and the
\* ones past the line of the token before.
Taken == { i \in 1..(next - 1) : call.tokens[i].kind # EndOfInput /\ Significant(call.tokens[i]) }

Begins(i) ==
    \/ \A j \in Taken : j >= i
    \/ LET before == { j \in 1..(i - 1) : call.tokens[j].kind # EndOfInput }
       IN  call.tokens[i].start.line # LastLine(call.tokens[Max(before)])

\* With no roles, the open blocks are the lines that enclose the last, as a reader of the columns sees
\* them: those no later line is as shallow as.  Under tab_policy::python that is so whether a tab is
\* worth 8 columns or one.
LevelsAreEnclosingLines ==
    ~WithRoles /\ outcome = "running" =>
        LET columns == [i \in { i \in Taken : Begins(i) } |-> Column(call.tokens[i])]
            Enclosing(tab) ==
                { columns[i] : i \in { i \in DOMAIN columns :
                      /\ columns[i][tab] > 0
                      /\ \A j \in DOMAIN columns : j > i => columns[j][tab] > columns[i][tab] } }
        IN  /\ ToSet(Tail(levels)) = Enclosing("tab8")
            /\ PythonTabs => ToSet(Tail(levels)) = Enclosing("tab1")
            /\ \A i \in 2..Len(levels) : levels[i].tab8 > levels[i - 1].tab8

\* With roles, a token opens a block when it is an entry, or the first node of a line or past an entry
\* that a value follows on its line before another such node; and where it stands past an entry, or an
\* opening value, or deeper than the blocks around it.
BlocksAreCollections ==
    WithRoles /\ outcome = "running" =>
        LET At(i)       == CHOOSE p \in DOMAIN out : out[p] = call.tokens[i]
            Opens(i)    == At(i) > 1 /\ out[At(i) - 1].kind = "indent"
            Around(i)   == OpenAfter[IF Opens(i) THEN At(i) - 2 ELSE At(i) - 1]
            IsArmed(i)  == Entry(call.tokens[i]) \/ (Value(call.tokens[i]) /\ Begins(i))
            IsNode(i) ==
                IF Begins(i) THEN Column(call.tokens[i]).tab8 > Last(Around(i)).tab8
                ELSE IsArmed(Max({ j \in Taken : j < i }))
            Keyed(i) ==
                LET ends == { j \in Taken : j > i /\ (IsNode(j) \/ Begins(j) \/ Value(call.tokens[j])) }
                IN  ends # {} /\ ~IsNode(Min(ends)) /\ ~Begins(Min(ends))
        IN  \A i \in Taken : Opens(i) <=> IsNode(i) /\ (Entry(call.tokens[i]) \/ Keyed(i))

\* A block is deeper than the one it is in ("Deeper than the block it is in: a deeper line by its test
\* above, a node past an entry by its column").
BlocksDeepen == \A i \in 2..Len(levels) : levels[i].tab8 > levels[i - 1].tab8

=============================================================================
