------------------------------ MODULE MCLayout ------------------------------
(* Instances of Layout: small texts, written as the pieces they are lexed into. *)
EXTENDS Layout

\* A piece is blanks or a token: what it is made of, its kind ("blank" for none) and its mode.
Piece(kind, mode, chars) == [kind |-> kind, mode |-> mode, chars |-> chars]

Blank(chars) == Piece("blank", "default", chars)

Sp    == Blank(<<"sp">>)
Tab   == Blank(<<"tab">>)
Eight == Blank([i \in 1..8 |-> "sp"])
FF    == Blank(<<"ff">>)
NL    == Blank(<<"nl">>)
Word  == Piece("word", "default", <<"w">>)
Dash  == Piece("entry", "default", <<"-">>)
Colon == Piece("value", "default", <<":">>)
Flow  == Piece("word", "flow", <<"f">>)
Quote == Piece("word", "default", <<"q", "nl", "q">>)   \* A token that ends on the line below.
Block == Piece("word", "default", <<"b", "nl">>)        \* A token that ends its line.

\* Where a text is after more of its characters.
After(pos, chars) ==
    LET newlines == { i \in DOMAIN chars : chars[i] = "nl" }
    IN  [ offset |-> pos.offset + Len(chars),
          line   |-> pos.line + Cardinality(newlines),
          column |-> IF newlines = {} THEN pos.column + Len(chars) ELSE Len(chars) - Max(newlines) + 1 ]

\* The tokens a lexer gives for the pieces of a text.
Lexed(pieces) ==
    LET begin[i \in 1..(Len(pieces) + 1)] ==
            IF i = 1 THEN [offset |-> 0, line |-> 1, column |-> 1]
            ELSE After(begin[i - 1], pieces[i - 1].chars)
        made == SelectSeq([i \in DOMAIN pieces |-> i], LAMBDA i : pieces[i].kind # "blank")
    IN  [ t \in DOMAIN made |->
            [ kind |-> pieces[made[t]].kind, mode |-> pieces[made[t]].mode,
              lexeme |-> pieces[made[t]].chars, start |-> begin[made[t]] ] ]
        \o << Mark(EndOfInput, begin[Len(pieces) + 1]) >>

Source(pieces) == FlattenSeq([i \in DOMAIN pieces |-> pieces[i].chars])

Call(pieces, tabs, entries, values) ==
    [ tokens |-> Lexed(pieces), source |-> IF tabs = "python" THEN Source(pieces) ELSE <<>>, tabs |-> tabs,
      entries |-> entries, values |-> values, insignificant |-> {"flow"} ]

Upto(S, n) == UNION { [1..k -> S] : k \in 0..n }

\* The texts of n lines, each an indentation and what follows it.
LinesOf(n, indents, contents) ==
    { FlattenSeq([l \in 1..n |-> Append(ls[l], NL)]) : ls \in [1..n -> { i \o c : i \in indents, c \in contents }] }

\* No roles: any order of words, flow tokens and tokens that span lines, at any column; and four lines.
PlainCalls ==
    { Call(p, "columns", {}, {}) :
        p \in Upto({Sp, NL, Word, Flow, Quote}, 5)
              \cup LinesOf(4, {<<>>, <<Sp>>, <<Sp, Sp>>}, {<<Word>>, <<Block, Sp, Word>>}) }

\* tab_policy::python: lines indented by tabs, spaces and form feeds.
TabIndents == { <<>>, <<Sp>>, <<Tab>>, <<Eight>>, <<Sp, Tab>>, <<Tab, Sp>>, <<Tab, FF, Sp>> }
TabCalls   == { Call(p, "python", {}, {}) : p \in LinesOf(3, TabIndents, {<<Word>>}) }

\* A token of another source.
StrayCalls == { [c EXCEPT !.source = <<"w">>] : c \in { Call(<<Word, NL, Sp, Word>>, "python", {}, {}) } }

\* Roles: entries and values, on the lines of a block sequence or mapping.
Contents(n)  == Upto({Word, Dash, Colon}, n) \ {<<>>}
Indents      == { <<>>, <<Sp>>, <<Sp, Sp>> }
RoleTexts ==
    { a \o b : a \in LinesOf(1, {<<>>, <<Sp>>}, Contents(3)), b \in LinesOf(1, Indents, Contents(2)) }
    \cup { a \o b : a \in LinesOf(1, {<<>>}, Contents(2)), b \in LinesOf(1, Indents, Contents(3)) }
    \cup LinesOf(3, Indents, { <<Word>>, <<Word, Colon>>, <<Dash, Dash>> })
    \cup { <<Dash, m>> \o c : m \in {Quote, Block, Flow}, c \in Contents(3) }
Roles(p, tabs) == Call(p, tabs, {"entry"}, {"value"})
RoleCalls == { Roles(p, "columns") : p \in RoleTexts }
             \cup { Roles(p, "python") : p \in LinesOf(2, {<<>>, <<Tab>>}, Contents(2)) }

LayoutCalls == PlainCalls \cup TabCalls \cup StrayCalls \cup RoleCalls

\* An entry on the line that ends a token begun on the line above.
NestingCalls ==
    { Roles(<<Sp, Sp, Sp, Dash, Quote>> \o c, "columns") : c \in Contents(3) }
    \cup { Roles(<<Dash, FF>> \o c, "python") : c \in Contents(3) }

=============================================================================
