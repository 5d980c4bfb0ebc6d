--------------------------- MODULE MCCommandLine ----------------------------
(* Instances of CommandLine: small grammars, written as their lines, and the command lines that use them. *)
EXTENDS CommandLine

Opt(word, listed) == [word |-> word, names |-> listed]

RuleLine(name, options) ==
    [ is |-> "rule", fields |-> IF options = <<>> THEN 2 ELSE 3, name |-> name,
      pattern |-> IF Opt("fragment", <<>>) \in ToSet(options) THEN "f" ELSE name,
      options |-> options ]

Comment == [is |-> "ignored"]

Insignificant(listed) == [is |-> "directive", word |-> "%insignificant", names |-> listed]

\* Every option, with names that are known, unknown or empty.
OptionWords ==
    { Opt(w, <<>>) : w \in {"skip", "pop", "fragment", "line_start", "not_line_start", "other"} }
    \cup { Opt(w, <<n>>) : w \in {"push=", "set=", "in="}, n \in {"m", "default", ""} }
    \cup { Opt(w, <<n>>) : w \in {"after=", "not_after="}, n \in {"A", "^", "Z"} }
    \cup { Opt("in=", <<"default", "m">>), Opt("push=", <<"m", "m">>), Opt("after=", <<"A", "">>),
           Opt("indent=", <<"key">>), Opt("indent=", <<"">>), Opt("extend=", <<"lines">>),
           Opt("extend=", <<"block">>), Opt("extend=", <<"all">>), Opt("continue=", <<"A">>),
           Opt("continue=", <<"Z">>), Opt("continue=", <<"">>) }

\* A rule with any two options, and perhaps a rule in the mode they name.
PairFiles ==
    { <<RuleLine("A", <<>>), RuleLine("B", o)>> \o c :
        o \in [1..2 -> OptionWords], c \in {<<>>, <<RuleLine("A", <<Opt("in=", <<"m">>)>>)>>} }

Never == {"never"}

\* Lines that refer to one another, in any order.
LineKinds ==
    { Comment, Insignificant(<<"m">>), Insignificant(<<"m", "">>), [Insignificant(<<"m">>) EXCEPT !.word = "%other"],
      RuleLine("A", <<>>), RuleLine("A", <<Opt("in=", <<"default", "m">>), Opt("line_start", <<>>)>>),
      RuleLine("B", <<Opt("push=", <<"m">>)>>), RuleLine("B", <<Opt("fragment", <<>>)>>),
      RuleLine("B", <<Opt("after=", <<"A", "B">>)>>), RuleLine("C", <<Opt("not_after=", <<"^">>)>>),
      RuleLine("C", <<Opt("not_after=", <<"A">>), Opt("not_line_start", <<>>)>>),
      RuleLine("C", <<Opt("in=", <<"m">>), Opt("after=", <<"^", "C">>)>>),
      RuleLine("C", <<Opt("extend=", <<"lines">>), Opt("continue=", <<"B">>)>>),
      RuleLine("^", <<>>), [RuleLine("C", <<Opt("in=", <<"m">>)>>) EXCEPT !.pattern = "never"],
      [RuleLine("A", <<>>) EXCEPT !.fields = 4], [RuleLine("A", <<>>) EXCEPT !.pattern = "invalid"] }

GrammarFiles == PairFiles \cup UNION { [1..n -> LineKinds] : n \in 0..3 }

-----------------------------------------------------------------------------
Examples == "python" :> TRUE @@ "json" :> FALSE

Token(kind, lexeme, place) == [kind |-> kind, lexeme |-> lexeme, at |-> place]

\* A text's tokens: lexemes of every byte that is escaped, and what they could be taken for.
Lexemes == { <<"\\", "t">>, <<"tab", "nl">>, <<"\\", "\\", "n">>, <<"cr", "bel", "x">>, <<"\\", "x", "0", "7">> }

Flat(kinds) == { [tokens |-> <<Token(0, l, "1:1")>> \o t, fails |-> f] :
                   l \in Lexemes, t \in { <<Token(k, <<"a">>, "1:2")>> : k \in kinds } \cup {<<>>}, f \in BOOLEAN }

LaidOut == { [tokens |-> <<Token(0, <<"a">>, "1:1"), Token(-3, <<>>, "2:2"), Token(-2, <<>>, "2:3"), Token(-4, <<>>, "2:3"),
                           Token(EndOfInput, <<>>, "2:3")>>, fails |-> f] : f \in BOOLEAN }

World(lexed, laid, files, failing) ==
    [lexed |-> lexed, laid |-> laid, files |-> files, failing |-> failing]

PlainWorld ==
    World([e \in {"raise", "token"} |-> [tokens |-> <<>>, fails |-> FALSE]], [tokens |-> <<>>, fails |-> FALSE], {"g"}, {})

\* Every grammar, with no text.
GrammarCalls == { [argv |-> <<"g">>, world |-> PlainWorld, file |-> f] : f \in GrammarFiles }

OneRule == <<RuleLine("A", <<>>)>>

\* A grammar, or an example, over texts that have errors or not, with options anywhere.
Words == { <<"g">>, <<"g", "-">>, <<"g", "t">>, <<"g", "u">>, <<"--example", "python">>, <<"--example", "json", "t">>,
           <<"--example", "json", "-">> }

WithOptions(words) ==
    { words, <<"--layout">> \o words, Append(words, "--no-layout"), <<"--no-layout">> \o words \o <<"--layout">>,
      <<"--errors=token">> \o words \o <<"--columns=utf16">>, <<"--errors=token", "--layout">> \o words \o <<"--errors=raise">> }

Worlds ==
    { World([e \in {"raise", "token"} |-> IF e = "raise" THEN raised ELSE recovered], laid, {"g", "t"}, {}) :
        raised \in Flat({0}), recovered \in { r \in Flat({ErrorKind}) : r.tokens[1].lexeme = <<"tab", "nl">> },
        laid \in LaidOut }

DumpCalls ==
    { [argv |-> a, world |-> w, file |-> OneRule] : a \in UNION { WithOptions(words) : words \in Words }, w \in Worlds }

\* Commands that lex nothing, and words that name none.
OtherCalls ==
    { [argv |-> a, world |-> [PlainWorld EXCEPT !.failing = f], file |-> OneRule] :
        a \in { <<>>, <<"--layout">>, <<"--version">>, <<"-h", "g">>, <<"--help">>, <<"--list", "--layout">>, <<"--check">>, <<"--example">>,
                 <<"--example", "none">>, <<"missing">>, <<"--layot", "g">>, <<"g", "--layot">>, <<"--columns=utf16", "--check">> },
        f \in {{}, {"json"}} }

Calls == GrammarCalls \cup DumpCalls \cup OtherCalls

=============================================================================
