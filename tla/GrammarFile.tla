---------------------------- MODULE GrammarFile -----------------------------
(***************************************************************************)
(* parse_grammar: a .lex grammar read line by line into rules, the names   *)
(* its options give resolved once every line is read.  A step reads one    *)
(* line up to its options, one option, or the end of a line, or is one of  *)
(* the four passes after the last line.                                    *)
(*                                                                         *)
(* A line is a record: is, what it is; for a directive its word and the    *)
(* names it lists; for a rule how many fields it has, its name, its        *)
(* pattern (empty, invalid, or one of some patterns) and its options,      *)
(* each a word up to its "=" and the names after it, an empty one          *)
(* where a name is missing.                                                *)
(***************************************************************************)
EXTENDS Integers, Sequences, SequencesExt, FiniteSets

CONSTANT
    Files   \* The grammars: sequences of lines.

Default == "default"

\* The reserved kinds a predicate can meet, below every rule's.
EndOfInput == -5
ErrorKind  == -1

VARIABLES
    file,           \* The text, by lines.
    line,           \* line_no.
    option,         \* The option of the line read last, once its fields are.
    read,           \* The rule of the line.
    given,          \* The options the line has given.
    fragment,       \* extras.fragment: the option that says the line is one, or 0.
    continuation,   \* extras.continuation: the name continue= gives, and the option that does, or none.
    transition,     \* The option with the mode the rule enters, or 0.
    rules, names,   \* parsed.
    transitions, predicates, fragments, continuations, directives,  \* What is to be resolved, in order.
    insignificant,  \* parsed.insignificant_modes.
    pass,           \* "lines", then the pass under way, then "parsed" or "refused".
    refusal         \* The grammar_error: its line and the option it is at, 0 for none.

lineVars  == <<option, read, given, fragment, continuation, transition>>
siteVars  == <<transitions, predicates, fragments, continuations, directives>>
parseVars == <<file, line, lineVars, rules, names, siteVars, insignificant, pass, refusal>>

\* The options, by what comes after their word: nothing, one name, or names with commas between.
Alone   == {"skip", "pop", "fragment", "line_start", "not_line_start", "other"}
OneName == {"indent=", "extend=", "continue="}
Listing == {"push=", "set=", "in=", "after=", "not_after="}

\* A file is its lines, a name what is before a tab of its own (split_grammar_line); a word that ends in = comes
\* with what follows it, one name or some, a comma between two (apply_grammar_options, parse_directive); any other
\* word alone.
ASSUME FilesAssumption ==
    \A f \in Files :
        /\ f \in Seq(ToSet(f))
        /\ \A l \in DOMAIN f :
              /\ f[l].is \in {"ignored", "directive", "rule"}
              /\ f[l].is = "directive" => f[l].names \in Seq(STRING)
              /\ f[l].is = "rule" =>
                    /\ f[l].fields \in Nat
                    /\ f[l].name \in STRING \ {"tab", "nl"}
                    /\ f[l].options \in Seq([word : Alone \cup OneName \cup Listing, names : Seq(STRING)])
                    /\ \A o \in DOMAIN f[l].options :
                          /\ f[l].options[o].names = <<>> <=> f[l].options[o].word \in Alone
                          /\ f[l].options[o].word \in OneName => Len(f[l].options[o].names) = 1

\* The members of a set of integers from low to high, in order.
Ascending(S, low, high) ==
    LET upTo[k \in (low - 1)..high] ==
            IF k < low THEN <<>> ELSE IF k \in S THEN Append(upTo[k - 1], k) ELSE upTo[k - 1]
    IN  upTo[high]

NoRefusal == [line |-> 0, at |-> 0]
NoName    == [name |-> "", at |-> 0]

NewRule(kind, pattern) ==
    [ kind |-> kind, pattern |-> pattern, skip |-> FALSE, modes |-> <<>>, op |-> "none", target |-> "",
      after |-> {}, notAfter |-> {}, lineStart |-> "any", indent |-> "none", extend |-> "none",
      continuation |-> "" ]

ParseInit ==
    /\ file \in Files
    /\ line = 1 /\ option = 0
    /\ read = NewRule(0, "") /\ given = {}
    /\ fragment = 0 /\ continuation = NoName /\ transition = 0
    /\ rules = <<>> /\ names = <<>>
    /\ transitions = <<>> /\ predicates = <<>> /\ fragments = <<>> /\ continuations = <<>> /\ directives = <<>>
    /\ insignificant = <<>>
    /\ pass = "lines" /\ refusal = NoRefusal

Refuse(number, at) ==
    /\ pass' = "refused"
    /\ refusal' = [line |-> number, at |-> at]
    /\ UNCHANGED <<file, line, lineVars, rules, names, siteVars, insignificant>>

-----------------------------------------------------------------------------
(* Lines *)

Line == file[line]

AtLine == pass = "lines" /\ line <= Len(file) /\ option = 0

\* A blank line or a comment.
Ignore ==
    /\ AtLine /\ Line.is = "ignored"
    /\ line' = line + 1
    /\ UNCHANGED <<file, lineVars, rules, names, siteVars, insignificant, pass, refusal>>

\* parse_directive: %insignificant, its modes noted with where they are written.
Directive ==
    /\ AtLine /\ Line.is = "directive"
    /\ Line.word = "%insignificant"
    /\ Line.names # <<>> /\ "" \notin ToSet(Line.names)
    /\ directives' = directives \o [i \in DOMAIN Line.names |-> [mode |-> Line.names[i], line |-> line, at |-> i]]
    /\ line' = line + 1
    /\ UNCHANGED <<file, lineVars, rules, names, transitions, predicates, fragments, continuations,
                   insignificant, pass, refusal>>

BadDirective ==
    /\ AtLine /\ Line.is = "directive"
    /\ Line.word # "%insignificant" \/ Line.names = <<>> \/ "" \in ToSet(Line.names)
    /\ Refuse(line, 0)

\* Not a name, a pattern and perhaps options, or the pattern is empty or none.
BadFields ==
    /\ AtLine /\ Line.is = "rule"
    /\ Line.fields \notin {2, 3} \/ Line.pattern \in {"", "invalid"}
    /\ Refuse(line, 0)

\* The rule of the line, its kind the next one, before its options.
Fields ==
    /\ AtLine /\ Line.is = "rule"
    /\ Line.fields \in {2, 3} /\ Line.pattern \notin {"", "invalid"}
    /\ read' = NewRule(Len(rules), Line.pattern)
    /\ option' = 1
    /\ given' = {} /\ fragment' = 0 /\ continuation' = NoName /\ transition' = 0
    /\ UNCHANGED <<file, line, rules, names, siteVars, insignificant, pass, refusal>>

-----------------------------------------------------------------------------
(* apply_grammar_options: one option at a time *)

Options == IF Line.fields = 3 THEN Line.options ELSE <<>>

Word == Options[option].word
Args == Options[option].names

\* A name the option gives is empty (checked_mode, and the names of the other options).
EmptyName == "" \in ToSet(Args)

AtOption == pass = "lines" /\ option > 0 /\ option <= Len(Options)

\* What a rule takes only one of.
Transitions == {"push=", "set=", "pop"}
Predicates  == {"after=", "not_after="}
LineStarts  == {"line_start", "not_line_start"}

\* A mutation: only the same option twice is seen.
ClashesByName == Word \in given

\* The line gives the option already, or another of the kind it takes one of.
Clashes ==
    \/ Word \in given
    \/ \E kind \in {Transitions, Predicates, LineStarts} : Word \in kind /\ given \cap kind # {}

Known ==
    \/ Word \in {"skip", "pop", "fragment"} \cup LineStarts
    \/ Word \in {"continue=", "in="} \cup Predicates /\ ~EmptyName
    \/ Word \in {"push=", "set="} /\ ~EmptyName /\ Len(Args) = 1     \* no comma in a mode's name
    \/ Word = "indent=" /\ Args[1] \in {"entry", "key", "value", "reset"}
    \/ Word = "extend=" /\ Args[1] \in {"block", "lines"}

BadOption ==
    /\ AtOption
    /\ Clashes \/ ~Known
    /\ Refuse(line, option)

\* The rule with the option.
WithOption ==
    CASE Word = "skip"           -> [read EXCEPT !.skip = TRUE]
      [] Word = "pop"            -> [read EXCEPT !.op = "pop"]
      [] Word = "push="          -> [read EXCEPT !.op = "push", !.target = Args[1]]
      [] Word = "set="           -> [read EXCEPT !.op = "set", !.target = Args[1]]
      [] Word = "in="            -> [read EXCEPT !.modes = Args]
      [] Word = "line_start"     -> [read EXCEPT !.lineStart = "start"]
      [] Word = "not_line_start" -> [read EXCEPT !.lineStart = "inside"]
      [] Word = "indent="        -> [read EXCEPT !.indent = Args[1]]
      [] Word = "extend="        -> [read EXCEPT !.extend = Args[1]]
      [] OTHER                   -> read

Option ==
    /\ AtOption
    /\ ~Clashes /\ Known
    /\ read' = WithOption
    /\ given' = given \cup {Word}
    /\ fragment' = IF Word = "fragment" THEN option ELSE fragment
    /\ continuation' = IF Word = "continue=" THEN [name |-> Args[1], at |-> option] ELSE continuation
    /\ transition' = IF Word \in {"push=", "set="} THEN option ELSE transition
    /\ predicates' = IF Word \in Predicates
                     THEN Append(predicates, [ rule |-> Len(rules) + 1, after |-> Word = "after=", names |-> Args,
                                               line |-> line, at |-> option ])
                     ELSE predicates
    /\ option' = option + 1
    /\ UNCHANGED <<file, line, rules, names, transitions, fragments, continuations, directives, insignificant,
                   pass, refusal>>

AtEndOfLine == pass = "lines" /\ option > 0 /\ option > Len(Options)

\* A fragment with another option, or with the name of one before.
BadFragment ==
    /\ AtEndOfLine /\ fragment > 0
    /\ Cardinality(given) # 1 \/ \E i \in DOMAIN fragments : fragments[i].name = Line.name
    /\ Refuse(line, IF Cardinality(given) # 1 THEN fragment ELSE 0)

Fragment ==
    /\ AtEndOfLine /\ fragment > 0
    /\ Cardinality(given) = 1
    /\ \A i \in DOMAIN fragments : fragments[i].name # Line.name
    /\ fragments' = Append(fragments, [name |-> Line.name, pattern |-> read.pattern])
    /\ line' = line + 1 /\ option' = 0
    /\ UNCHANGED <<file, read, given, fragment, continuation, transition, rules, names, transitions, predicates,
                   continuations, directives, insignificant, pass, refusal>>

\* The site of an option of the line, to be resolved.
Site(at) == [rule |-> Len(rules) + 1, line |-> line, at |-> at]

EndLine ==
    /\ AtEndOfLine /\ fragment = 0
    /\ transitions' = IF transition > 0 THEN Append(transitions, Site(transition)) ELSE transitions
    /\ continuations' = IF continuation # NoName
                        THEN Append(continuations, [ name |-> continuation.name, rule |-> Len(rules) + 1,
                                                     line |-> line, at |-> continuation.at ])
                        ELSE continuations
    /\ rules' = Append(rules, read)
    /\ names' = Append(names, Line.name)
    /\ line' = line + 1 /\ option' = 0
    /\ UNCHANGED <<file, read, given, fragment, continuation, transition, predicates, fragments, directives,
                   insignificant, pass, refusal>>

NoRules ==
    /\ pass = "lines" /\ line > Len(file) /\ rules = <<>>
    /\ Refuse(0, 0)

EndOfLines ==
    /\ pass = "lines" /\ line > Len(file) /\ rules # <<>>
    /\ pass' = "targets"
    /\ UNCHANGED <<file, line, lineVars, rules, names, siteVars, insignificant, refusal>>

-----------------------------------------------------------------------------
(* The names the lines give *)

\* A mutation: a rule that names no mode is in all of them.
ActiveAnywhere(mode) == \E i \in DOMAIN rules : rules[i].modes = <<>> \/ mode \in ToSet(rules[i].modes)

ActiveIn(mode) == \E i \in DOMAIN rules : mode \in (IF rules[i].modes = <<>> THEN {Default} ELSE ToSet(rules[i].modes))

\* A pass over sites: it refuses the first that is bad, or goes on to the next pass.
Pass(name, sites, bad) ==
    /\ pass = name
    /\ \E i \in DOMAIN sites :
          /\ sites[i] \in bad /\ \A j \in 1..(i - 1) : sites[j] \notin bad
          /\ Refuse(sites[i].line, sites[i].at)

PassTo(name, following, bad) ==
    /\ pass = name
    /\ bad = {}
    /\ pass' = following
    /\ UNCHANGED <<file, line, lineVars, names, siteVars, refusal>>

EntersNowhere == { site \in ToSet(transitions) : ~ActiveIn(rules[site.rule].target) }

\* check_transition_targets.
CheckTargets ==
    \/ Pass("targets", transitions, EntersNowhere)
    \/ PassTo("targets", "predicates", EntersNowhere) /\ UNCHANGED <<rules, insignificant>>

NamesNoRule == { site \in ToSet(predicates) : ~(ToSet(site.names) \subseteq {"^"} \cup ToSet(names)) }

\* The kinds a list of names stands for: the input's start for ^, whatever rule bears it, and every rule's
\* that bears another.
KindsOf(listed) ==
    (IF "^" \in ToSet(listed) THEN {EndOfInput} ELSE {})
    \cup { k \in 0..(Len(names) - 1) : names[k + 1] \in ToSet(listed) \ {"^"} }

PredicateSites(i) == { s \in ToSet(predicates) : s.rule = i }

ResolvePredicates ==
    \/ Pass("predicates", predicates, NamesNoRule)
    \/ /\ PassTo("predicates", "continuations", NamesNoRule)
       /\ rules' = [ i \in DOMAIN rules |->
                       [ rules[i] EXCEPT
                           !.after    = UNION { KindsOf(s.names) : s \in { s \in PredicateSites(i) : s.after } },
                           !.notAfter = UNION { KindsOf(s.names) : s \in { s \in PredicateSites(i) : ~s.after } } ] ]
       /\ UNCHANGED insignificant

Bearers(sequence, name) == { i \in DOMAIN sequence : sequence[i] = name }

ContinuesNothing ==
    { site \in ToSet(continuations) :
        \/ rules[site.rule].extend # "lines"
        \/ /\ \A i \in DOMAIN fragments : fragments[i].name # site.name
           /\ Bearers(names, site.name) = {} }

\* The pattern of the fragment of a name, else of the first rule of that name.
PatternOf(name) ==
    LET named == { i \in DOMAIN fragments : fragments[i].name = name }
    IN  IF named # {} THEN fragments[Min(named)].pattern ELSE rules[Min(Bearers(names, name))].pattern

ResolveContinuations ==
    \/ Pass("continuations", continuations, ContinuesNothing)
    \/ /\ PassTo("continuations", "directives", ContinuesNothing)
       /\ rules' = [ i \in DOMAIN rules |->
                       LET sites == { s \in ToSet(continuations) : s.rule = i }
                       IN  IF sites = {} THEN rules[i]
                           ELSE [rules[i] EXCEPT !.continuation = PatternOf((CHOOSE s \in sites : TRUE).name)] ]
       /\ UNCHANGED insignificant

NamesNoMode == { site \in ToSet(directives) : ~ActiveIn(site.mode) }

ApplyDirectives ==
    \/ Pass("directives", directives, NamesNoMode)
    \/ /\ PassTo("directives", "parsed", NamesNoMode)
       /\ insignificant' = [i \in DOMAIN directives |-> directives[i].mode]
       /\ UNCHANGED rules

ParseNext ==
    \/ Ignore
    \/ Directive
    \/ BadDirective
    \/ BadFields
    \/ Fields
    \/ BadOption
    \/ Option
    \/ BadFragment
    \/ Fragment
    \/ EndLine
    \/ NoRules
    \/ EndOfLines
    \/ CheckTargets
    \/ ResolvePredicates
    \/ ResolveContinuations
    \/ ApplyDirectives

-----------------------------------------------------------------------------
(* What a grammar says, read line by line *)

OptionsOf(l) == IF file[l].fields = 3 THEN file[l].options ELSE <<>>

Gives(l, word) == \E o \in DOMAIN OptionsOf(l) : OptionsOf(l)[o].word = word

\* The names the option of a word gives in a line, <<>> for none.
NamesGiven(l, words) ==
    LET at == { o \in DOMAIN OptionsOf(l) : OptionsOf(l)[o].word \in words }
    IN  IF at = {} THEN <<>> ELSE OptionsOf(l)[Min(at)].names

RuleLines == Ascending({ l \in DOMAIN file : file[l].is = "rule" /\ ~Gives(l, "fragment") }, 1, Len(file))

FragmentLines == { l \in DOMAIN file : file[l].is = "rule" /\ Gives(l, "fragment") }

\* The first mistake in the line l itself, by option: 0 for its fields, and past the options for what the
\* whole line says.
Mistakes(l) ==
    LET options == OptionsOf(l)
        WordOf(o) == options[o].word
        \* A rule has one transition, one predicate and one place on the line, and each option once.
        Sort(o) == CASE WordOf(o) \in {"push=", "set=", "pop"} -> "transition"
                     [] WordOf(o) \in {"after=", "not_after="} -> "predicate"
                     [] WordOf(o) \in {"line_start", "not_line_start"} -> "place"
                     [] OTHER -> WordOf(o)
        Allowed(o, name) ==
            CASE WordOf(o) = "indent=" -> name \in {"entry", "key", "value", "reset"}
              [] WordOf(o) = "extend=" -> name \in {"block", "lines"}
              [] OTHER -> name # ""
    IN  CASE file[l].is = "ignored" -> {}
          [] file[l].is = "directive" ->
                IF file[l].word # "%insignificant" \/ file[l].names = <<>> \/ "" \in ToSet(file[l].names)
                THEN {0} ELSE {}
          [] OTHER ->
                { o \in 0..(Len(options) + 1) :
                    CASE o = 0 -> file[l].fields < 2 \/ file[l].fields > 3 \/ file[l].pattern \in {"", "invalid"}
                      [] o \in DOMAIN options ->
                            \/ WordOf(o) = "other"
                            \/ \E i \in DOMAIN options[o].names : ~Allowed(o, options[o].names[i])
                            \/ WordOf(o) \in {"push=", "set="} /\ Len(options[o].names) > 1
                            \/ \E p \in 1..(o - 1) : Sort(p) = Sort(o)
                      [] OTHER ->
                            /\ l \in FragmentLines
                            /\ \/ Len(options) > 1
                               \/ \E k \in FragmentLines : k < l /\ file[k].name = file[l].name }

Mistaken == { l \in DOMAIN file : Mistakes(l) # {} }

\* A mode some rule is active in.
Populated(mode) ==
    \E r \in DOMAIN RuleLines :
        LET modes == NamesGiven(RuleLines[r], {"in="})
        IN  IF modes = <<>> THEN mode = Default ELSE mode \in ToSet(modes)

RuleNames == { file[RuleLines[r]].name : r \in DOMAIN RuleLines }

\* The lines whose names stand for nothing, by the pass that finds them.
Dangling ==
    << { l \in ToSet(RuleLines) :
           \E i \in DOMAIN NamesGiven(l, {"push=", "set="}) : ~Populated(NamesGiven(l, {"push=", "set="})[i]) },
       { l \in ToSet(RuleLines) :
           \E i \in DOMAIN NamesGiven(l, {"after=", "not_after="}) :
               NamesGiven(l, {"after=", "not_after="})[i] \notin RuleNames \cup {"^"} },
       { l \in ToSet(RuleLines) :
           /\ Gives(l, "continue=")
           /\ \/ NamesGiven(l, {"extend="}) # <<"lines">>
              \/ NamesGiven(l, {"continue="})[1] \notin RuleNames \cup { file[f].name : f \in FragmentLines } },
       { l \in DOMAIN file : file[l].is = "directive" /\ \E i \in DOMAIN file[l].names : ~Populated(file[l].names[i]) } >>

\* The kinds of the rules a predicate names, wherever they are in the file.
Named(l, word) ==
    LET listed == NamesGiven(l, {word})
    IN  { r - 1 : r \in { r \in DOMAIN RuleLines : file[RuleLines[r]].name \in ToSet(listed) \ {"^"} } }
        \cup { EndOfInput : x \in { x \in ToSet(listed) : x = "^" } }

\* What a line continues with: the fragment of the name it gives, else the first rule of that name.
Continued(l) ==
    LET bears(lines) == { k \in lines : <<file[k].name>> = NamesGiven(l, {"continue="}) }
    IN  IF ~Gives(l, "continue=") THEN ""
        ELSE file[Min(IF bears(FragmentLines) # {} THEN bears(FragmentLines) ELSE bears(ToSet(RuleLines)))].pattern

\* A grammar that is accepted says what its lines say, each rule the kind of its place among the rules
\* and its names those of rules anywhere in the file; one that is refused is refused at its first mistaken
\* line, and only if every line is right at the first name that stands for nothing.
MeansItsLines ==
    /\ pass = "parsed" =>
          /\ Mistaken = {} /\ \A p \in 1..4 : Dangling[p] = {}
          /\ Len(rules) = Len(RuleLines)
          /\ \A r \in DOMAIN rules :
                LET l == RuleLines[r]
                IN  /\ rules[r].kind = r - 1 /\ names[r] = file[l].name
                    /\ rules[r].skip = Gives(l, "skip")
                    /\ rules[r].op = CASE Gives(l, "push=") -> "push" [] Gives(l, "set=") -> "set"
                                       [] Gives(l, "pop") -> "pop" [] OTHER -> "none"
                    /\ rules[r].op \in {"push", "set"} => <<rules[r].target>> = NamesGiven(l, {"push=", "set="})
                    /\ rules[r].modes = NamesGiven(l, {"in="})
                    /\ rules[r].lineStart = CASE Gives(l, "line_start") -> "start" [] Gives(l, "not_line_start") -> "inside"
                                              [] OTHER -> "any"
                    /\ rules[r].indent = (IF Gives(l, "indent=") THEN NamesGiven(l, {"indent="})[1] ELSE "none")
                    /\ rules[r].extend = (IF Gives(l, "extend=") THEN NamesGiven(l, {"extend="})[1] ELSE "none")
                    /\ rules[r].after = Named(l, "after=") /\ rules[r].notAfter = Named(l, "not_after=")
                    /\ rules[r].pattern = file[l].pattern /\ rules[r].continuation = Continued(l)
          /\ insignificant = FlattenSeq([l \in DOMAIN file |-> IF file[l].is = "directive" THEN file[l].names ELSE <<>>])
    /\ pass = "refused" =>
          \/ /\ Mistaken # {} /\ refusal.line = Min(Mistaken)
             /\ LET at == Min(Mistakes(refusal.line)) IN refusal.at = at \/ at > Len(OptionsOf(refusal.line))
          \/ Mistaken = {} /\ RuleLines = <<>> /\ refusal.line = 0
          \/ /\ Mistaken = {}
             /\ \E p \in 1..4 : /\ Dangling[p] # {} /\ refusal.line = Min(Dangling[p])
                                /\ \A q \in 1..(p - 1) : Dangling[q] = {}

=============================================================================
