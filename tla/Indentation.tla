---------------------------- MODULE Indentation -----------------------------
(***************************************************************************)
(* Layout awareness, level B: the open blocks a scan keeps by the columns  *)
(* their collections began at, and how far a token extends over the lines  *)
(* indented past the innermost one.  No state of its own: a scan carries   *)
(* an indent_state, a record of                                            *)
(*   levels   the open blocks' columns (from 0), innermost last, above -1; *)
(*   line     the line of the last token that took part;                   *)
(*   key      that line's key candidate's column, -1 for none;             *)
(*   free     whether that line's next key candidate is kept.              *)
(*                                                                         *)
(* Offsets count from 0: the character at offset o of text is text[o + 1]. *)
(* An extent is decided when no text that may follow can change it; one    *)
(* that is not is Undecided.                                               *)
(***************************************************************************)
EXTENDS Patterns

\* The characters the lines are read by.  A digit is one of the block rule's indicators.
NewLine        == "nl"
Space          == " "
Tab            == "tab"
CarriageReturn == "cr"
Digits  == <<"1", "2", "3", "4", "5", "6", "7", "8", "9">>
Markers == { <<"-", "-", "-">>, <<".", ".", ".">> }

Undecided == -1

LineStartsAt(text, at) == at = 0 \/ text[at] = NewLine

-----------------------------------------------------------------------------
(* The open blocks *)

NoBlocks == [levels |-> <<-1>>, line |-> 0, key |-> -1, free |-> TRUE]

\* The blocks left when those deeper than a column close.
Closed(levels, column) ==
    SubSeq(levels, 1, Max({ i \in DOMAIN levels : levels[i] <= column }))

\* A mutation: a block is opened again at the column it is open at.
OpenedAgain(levels, column) == Append(levels, column)

Opened(levels, column) == IF Last(levels) < column THEN Append(levels, column) ELSE levels

\* A mutation: the extension is read against the root, whatever blocks are open.
RootReference(role, start, state) == -1

\* indent_reference: the innermost block once a token at start, of a rule with this role, will have
\* updated the state.
IndentReference(role, start, state) ==
    LET column == start.column - 1
        top    == IF role = "reset" THEN -1 ELSE Last(Closed(state.levels, column))
    IN  CASE role = "entry" -> Max({top, column})
          [] role = "value" -> Max({top, IF start.line = state.line THEN state.key ELSE -1})
          [] OTHER          -> top

\* apply_indent.
ApplyIndent(role, start, state) ==
    LET column == start.column - 1
        onLine == start.line = state.line
        key    == IF onLine THEN state.key ELSE -1
        free   == ~onLine \/ state.free
        levels == Closed(IF role = "reset" THEN <<-1>> ELSE state.levels, column)
    IN  [ levels |-> CASE role = "entry"              -> Opened(levels, column)
                       [] role = "value" /\ key >= 0  -> Opened(levels, key)
                       [] OTHER                       -> levels,
          line   |-> start.line,
          key    |-> CASE role = "value"         -> -1
                       [] role = "key" /\ free   -> column
                       [] OTHER                  -> key,
          free   |-> role \in {"entry", "value"} \/ (free /\ role # "key") ]

-----------------------------------------------------------------------------
(* The lines of a text *)

\* Where the characters of blanks from offset at on end.
PastAll(text, at, blanks) ==
    Min({Len(text)} \cup { o \in at..(Len(text) - 1) : text[o + 1] \notin blanks })

LeadingSpaces(text, at) == PastAll(text, at, {Space}) - at

PastBlanks(text, at) == PastAll(text, at, {Space, Tab, CarriageReturn})

\* The end of the line that offset at is on: its line break, or the end of the text.
LineEnd(text, at) ==
    Min({Len(text)} \cup { o \in at..(Len(text) - 1) : text[o + 1] = NewLine })

Broken(text, line) == LineEnd(text, line) < Len(text)

\* The lines that begin at offset at, the start of one, or later.
Lines(text, at) == { o \in at..(Len(text) - 1) : o = at \/ text[o] = NewLine }

Blank(text, line) == PastAll(text, line, {Space, CarriageReturn}) >= LineEnd(text, line)

-----------------------------------------------------------------------------
(* Extents *)

\* The column a block's body is indented to, from the lines after its header's line break: what a digit
\* of the match says, else its widest leading blank line or its first line that is not blank.
BlockContent(text, body, match, reference) ==
    LET least     == Max({reference + 1, 1})
        digits    == { i \in DOMAIN match : match[i] \in { Digits[d] : d \in DOMAIN Digits } }
        digit     == CHOOSE d \in DOMAIN Digits : Digits[d] = match[Min(digits)]
        firstLines == { l \in Lines(text, body) :
                          \A k \in Lines(text, body) : k < l => Blank(text, k) }
    IN  IF digits # {} THEN least + digit - 1
        ELSE Max({least} \cup { LeadingSpaces(text, l) : l \in firstLines })

\* block_extent: the rest of the line, then each line that is blank or indented as far as the body.
BlockExtent(text, end, match, reference, final) ==
    LET body    == LineEnd(text, end) + 1
        content == BlockContent(text, body, match, reference)
        less    == { l \in Lines(text, body) :
                       /\ ~Blank(text, l) /\ LeadingSpaces(text, l) < content
                       /\ final \/ Broken(text, l) }
        ends    == { l \in Lines(text, body) :     \* blanks that end the text and are not content
                       /\ Blank(text, l) /\ ~Broken(text, l)
                       /\ ~(LeadingSpaces(text, l) >= content /\ Len(text) - l > content) }
    IN  IF ~final /\ less = {}     \* a line in less also settles the content
        THEN Undecided
        ELSE Min({Len(text)} \cup less \cup ends)

\* A document marker at offset at, and what follows it.
Marked(text, at) ==
    /\ at + 3 <= Len(text) /\ SubSeq(text, at + 1, at + 3) \in Markers
    /\ at + 3 = Len(text) \/ text[at + 4] \in {Space, Tab, CarriageReturn, NewLine}

\* The lines below offset end that are not blank.
Below(text, end) ==
    { l \in Lines(text, LineEnd(text, end) + 1) :
        LET first == PastBlanks(text, l) IN first < Len(text) /\ text[first + 1] # NewLine }

BlankToEnd(text, at) == PastBlanks(text, at) = LineEnd(text, at)

\* The end of what the continuation pattern reads at the first non-blank of a line: the line's own
\* start when it reads nothing.
ReadTo(text, line, continuation) ==
    LET words == SubSeq(text, line + 1, LineEnd(text, line))
        first == PastAll(words, 0, {Space, Tab})
        found == MatchLength(continuation, words, first)
    IN  IF found > 0 THEN line + first + found ELSE line

MarksDocument(text, line) == LeadingSpaces(text, line) = 0 /\ Marked(text, line)

\* What a line below needs for lines_extent to stop there, whatever follows: a dedent, or a line that has
\* come whole, or as far as a marker goes.
StopsThere(text, line, reference) ==
    \/ LeadingSpaces(text, line) <= reference
    \/ IF MarksDocument(text, line) THEN line + 3 < Len(text) ELSE Broken(text, line)

\* lines_extent: the lines indented past the block, each read by the continuation pattern, when nothing
\* but blanks stands between.
LinesExtent(text, end, continuation, reference, final) ==
    LET below   == Below(text, end)
        continued == { l \in below : /\ LeadingSpaces(text, l) > reference
                                     /\ ~MarksDocument(text, l)
                                     /\ ReadTo(text, l, continuation) > l }
        taken   == { l \in below : /\ BlankToEnd(text, end)
                                   /\ \A k \in below : k <= l => k \in continued
                                   /\ \A k \in below :
                                         k < l => BlankToEnd(text, ReadTo(text, k, continuation)) }
        reached == Max({end} \cup { ReadTo(text, l, continuation) : l \in taken })
        next    == Min({Len(text)} \cup (below \ taken))
        decided == /\ \A l \in taken : Broken(text, l)
                   /\ PastBlanks(text, reached) < Len(text)
                   /\ BlankToEnd(text, reached) => next < Len(text) /\ StopsThere(text, next, reference)
    IN  IF final \/ decided THEN reached ELSE Undecided

=============================================================================
