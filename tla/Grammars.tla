------------------------------ MODULE Grammars ------------------------------
(***************************************************************************)
(* The small grammars the runs lex with, each written to reach one part of *)
(* the scan, and the sets of texts over their characters.                  *)
(***************************************************************************)
EXTENDS Integers, Sequences, SequencesExt

\* head loop* tail, as long as it can be or as short.
Alt(head, loop, tail)  == [head |-> head, loop |-> loop, tail |-> tail, lazy |-> FALSE]
Lazy(head, loop, tail) == [head |-> head, loop |-> loop, tail |-> tail, lazy |-> TRUE]

\* A rule with the fields it leaves out at their defaults.
Plain(kind, alts, before) ==
    [ kind |-> kind, pattern |-> [alts |-> alts, behind |-> before], faithful |-> TRUE,
      skip |-> FALSE, modes |-> {},
      op |-> "none", target |-> "default", after |-> {}, notAfter |-> {}, lineStart |-> "any",
      indent |-> "none", extend |-> "none", continuation |-> [alts |-> alts, behind |-> before] ]

Unfaithful(rule)         == [rule EXCEPT !.faithful = FALSE]
Skipped(rule)            == [rule EXCEPT !.skip = TRUE]
In(modes, rule)          == [rule EXCEPT !.modes = modes]
Act(op, target, rule)    == [rule EXCEPT !.op = op, !.target = target]
After(kinds, rule)       == [rule EXCEPT !.after = kinds]
NotAfter(kinds, rule)    == [rule EXCEPT !.notAfter = kinds]
OnLine(where, rule)      == [rule EXCEPT !.lineStart = where]

Role(indent, rule)       == [rule EXCEPT !.indent = indent]
Extending(extend, rule)  == [rule EXCEPT !.extend = extend]
Continued(alts, rule)    == [rule EXCEPT !.continuation = [alts |-> alts, behind |-> {}]]

TextsUpTo(chars, n) == UNION { [1..m -> chars] : m \in 0..n }

Ascii(chars) == [c \in chars |-> 1]

-----------------------------------------------------------------------------
\* A word of single characters.
Literal(chars) == << Alt([i \in DOMAIN chars |-> {chars[i]}], {}, <<>>) >>

\* Skip rules that push, set and pop: what a step that waits has to undo.  A pop is also active at the
\* root, and "(" nests past the bound, so both bad transitions happen; "a" is unknown in one mode.
ModesChars == {"(", ")", "#", "a"}

ModesRules ==
    << Skipped(In({"default", "inner"}, Act("push", "inner", Plain("open", Literal(<<"(">>), {})))),
       Skipped(In({"default", "inner", "digits"},
                  Act("pop", "default", Plain("close", Literal(<<")">>), {})))),
       Skipped(In({"inner"}, Act("set", "digits", Plain("hash", Literal(<<"#">>), {})))),
       In({"default", "inner"}, Plain("word", << Alt(<<{"a"}>>, {"a"}, <<>>) >>, {})),
       In({"digits"}, Act("set", "inner", Plain("mark", Literal(<<"#", "a">>), {}))) >>

\* A match that arrives late and swallows the tokens before it, beside rules whose match is not
\* their longest (they stay on Pike) and a lazy one.
LateChars == {"a", "b", "z", " "}

LateRules ==
    << Skipped(Plain("space", Literal(<<" ">>), {})),
       Plain("late", << Alt(<<{"a"}>>, {"a", "b", " "}, <<{"z"}>>) >>, {}),
       Unfaithful(Plain("short", Literal(<<"b">>) \o Literal(<<"b", "a">>), {})),
       Plain("letter", << Alt(<<{"a", "b"}>>, {}, <<>>) >>, {}),
       Plain("lazy", << Lazy(<<{"b"}>>, {"a", "b"}, <<{" "}>>) >>, {}) >>

\* The same late match in a mode wholly on its DFA: the munch a piece leaves open is gone on with.
LateDfaRules ==
    << Skipped(Plain("space", Literal(<<" ">>), {})),
       Plain("late", << Alt(<<{"a"}>>, {"a", "b", " "}, <<{"z"}>>) >>, {}),
       Plain("letter", << Alt(<<{"a", "b"}>>, {}, <<>>) >>, {}) >>

\* Recovery: characters no rule begins, a lookbehind, a rule that can match nothing, a rule for the
\* start of a line, one that asks what token came before, and a mode the text may end inside.
RecoveryChars == {"a", "-", "?", "nl"}

RecoveryRules ==
    << In({"default", "inner"}, Plain("word", << Alt(<<{"a"}>>, {"a"}, <<>>) >>, {})),
       Plain("suffix", Literal(<<"-">>), {"a"}),
       OnLine("start", Act("push", "inner", Plain("bullet", Literal(<<"-", "-">>), {}))),
       NotAfter({"word"}, Plain("mark", Literal(<<"?", "a", "a">>), {})),
       Plain("blank", << Alt(<<>>, {"nl"}, <<>>) >>, {"-", "?"}) >>

\* A rule that is only active after a word, and one that is not active there.
AfterChars == {"a", "b", "?", " "}

AfterRules ==
    << Plain("word", Literal(<<"a">>), {}),
       After({"word"}, Plain("unit", Literal(<<"b">>), {})),
       NotAfter({"word"}, Plain("mark", Literal(<<"?">>), {})),
       Skipped(Plain("space", Literal(<<" ">>), {})) >>

\* Words and the blanks between them, each blank a match of its own that no text to come can change.
SkipChars == {"a", " "}

SkipRules ==
    << Skipped(Plain("space", Literal(<<" ">>), {})),
       Plain("word", << Alt(<<{"a"}>>, {"a"}, <<>>) >>, {}) >>

\* A block language: "-" opens an entry, ":" a value, "|" has a block body, and words are keys that
\* continue on the lines below; "---" closes every block, and "[" enters a mode without indentation.
BlockChars == {"-", ":", "|", "2", "a", " ", "[", "nl"}

BlockRules ==
    << Skipped(In({"default", "flow"}, Plain("blank", << Alt(<<{" ", "nl"}>>, {" ", "nl"}, <<>>) >>, {}))),
       Role("reset", Plain("document", Literal(<<"-", "-", "-">>), {})),
       Role("entry", Plain("entry", Literal(<<"-">>), {})),
       In({"default", "flow"}, Role("value", Plain("value", Literal(<<":">>), {}))),
       Extending("block", Plain("block", << Alt(<<{"|"}>>, {"2"}, <<>>) >>, {})),
       In({"default", "flow"}, Continued(<< Alt(<<{"a", "-"}>>, {"a", "-"}, <<>>) >>,
           Role("key", Extending("lines", Plain("scalar", << Alt(<<{"a"}>>, {"a"}, <<>>) >>, {}))))),
       Act("push", "flow", Plain("open", Literal(<<"[">>), {})) >>

\* Texts of such lines: up to n of these fragments.
BlockFragments ==
    { <<"-", " ">>, <<"a">>, <<":">>, <<"|">>, <<"|", "2">>, <<"[">>, <<"nl">>, <<"nl", " ">>,
      <<"nl", " ", " ", "a">>, <<"nl", "-", "-", "-">> }

BlockTextsUpTo(n) == { FlattenSeq(fragments) : fragments \in TextsUpTo(BlockFragments, n) }

\* One rule for any one byte: tokens end inside code points; and one that waits there for a third.
ByteChars == {"nl", "lead2", "lead4", "cont"}

ByteAnnounces ==
    [c \in ByteChars |-> CASE c = "nl" -> 1 [] c = "lead2" -> 2 [] c = "lead4" -> 4 [] OTHER -> 0]

ByteRules(bytes) ==
    << Plain("byte", << Alt(<<bytes>>, {}, <<>>) >>, {}),
       Plain("pair", Literal(<<"cont", "cont", "nl">>), {}) >>

=============================================================================
