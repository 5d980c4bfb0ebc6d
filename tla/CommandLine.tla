---------------------------- MODULE CommandLine -----------------------------
(***************************************************************************)
(* The scilex command (cli/scilex.cpp): it reads its options, loads the    *)
(* grammar named or takes a built-in one, builds the lexer, reads the text *)
(* and prints its tokens, each on a line of its own.  A step is one word   *)
(* of the command line, one step of the grammar's parse or of the lexer's  *)
(* construction, one thing read, or one token printed.                     *)
(*                                                                         *)
(* What the lexer and the layout pass make of the text is part of the      *)
(* invocation: Lexer and Layout are where they are modelled.  Standard     *)
(* output is the sequence of what is written: a name, a position and a     *)
(* byte of a lexeme are one element each.                                  *)
(***************************************************************************)
EXTENDS Construction, TLC

CONSTANTS
    Invocations,    \* The command lines, each with its grammar file, what can be opened, and the texts' tokens.
    Registry        \* The built-in examples: name to whether it is laid out.

\* The words are main's; a token has a kind, the bytes of its lexeme and a line and column.
ASSUME InvocationsAssumption ==
    \A call \in Invocations :
        /\ call.argv \in Seq(STRING)
        /\ \A tokens \in {call.world.laid.tokens} \cup { call.world.lexed[e].tokens : e \in {"raise", "token"} } :
              tokens \in Seq([kind : Int, lexeme : Seq(STRING), at : STRING \ {"tab", "nl"}])

VARIABLES
    argv, world,    \* The invocation: its words, and what is around it.
    at,             \* The word to read next.
    layout, errors, columns,    \* What the options say; layout "unset" leaves it to the grammar.
    args,           \* The other words.
    phase,          \* "options", "command", "grammar", "input", "dump", "print", then "exited".
    consumed,       \* Whether standard input was read.
    toPrint,        \* The tokens still to print.
    output,         \* Standard output.
    status          \* The exit status, -1 until there is one.

optionVars  == <<argv, world, at, layout, errors, columns, args>>
commandVars == <<optionVars, phase, consumed, toPrint, output, status>>
cliVars     == <<constructionVars, commandVars>>

Init ==
    /\ \E call \in Invocations : argv = call.argv /\ world = call.world /\ file = call.file
    /\ ParseInit /\ BuildInit
    /\ at = 1
    /\ layout = "unset" /\ errors = "raise" /\ columns = "bytes"
    /\ args = <<>>
    /\ phase = "options" /\ consumed = FALSE
    /\ toPrint = <<>> /\ output = <<>> /\ status = -1

-----------------------------------------------------------------------------
(* The words of the command line *)

Settings == [ layout  |-> [word \in {"--layout", "--no-layout"} |-> IF word = "--layout" THEN "on" ELSE "off"],
              errors  |-> [word \in {"--errors=token", "--errors=raise"} |->
                              IF word = "--errors=token" THEN "token" ELSE "raise"],
              columns |-> [word \in {"--columns=bytes", "--columns=codepoints", "--columns=utf16"} |->
                              CASE word = "--columns=bytes" -> "bytes"
                                [] word = "--columns=codepoints" -> "codepoints"
                                [] word = "--columns=utf16" -> "utf16"] ]

\* A setting after a word: a later option wins.
After(setting, value, word) == IF word \in DOMAIN Settings[setting] THEN Settings[setting][word] ELSE value

IsOption(word) == \E setting \in DOMAIN Settings : word \in DOMAIN Settings[setting]

\* Any other word, one that looks like an option too, is an argument.
TakeWord ==
    /\ phase = "options" /\ at <= Len(argv)
    /\ layout' = After("layout", layout, argv[at])
    /\ errors' = After("errors", errors, argv[at])
    /\ columns' = After("columns", columns, argv[at])
    /\ args' = IF IsOption(argv[at]) THEN args ELSE Append(args, argv[at])
    /\ at' = at + 1
    /\ UNCHANGED <<constructionVars, argv, world, phase, consumed, toPrint, output, status>>

Goes(to) ==
    /\ phase' = to
    /\ UNCHANGED <<constructionVars, optionVars, consumed, toPrint, output, status>>

Exit(code) ==
    /\ phase' = "exited" /\ status' = code
    /\ UNCHANGED <<constructionVars, optionVars, consumed, toPrint, output>>

Usage == phase = "options" /\ at > Len(argv) /\ args = <<>> /\ Exit(2)

HasCommand == phase = "options" /\ at > Len(argv) /\ args # <<>> /\ Goes("command")

Asks == {"--version", "--help", "-h", "--list"}

\* What they write: the version, the examples' names, or the usage, each line an element.
Told(command) ==
    CASE command = "--version" -> <<"the version", "nl">>
      [] command = "--list" -> FlattenSeq([i \in DOMAIN SetToSeq(DOMAIN Registry) |->
                                              <<SetToSeq(DOMAIN Registry)[i], "nl">>])
      [] OTHER -> <<"the usage", "nl">>

Informs ==
    /\ phase = "command" /\ args[1] \in Asks
    /\ output' = Told(args[1])
    /\ phase' = "exited" /\ status' = 0
    /\ UNCHANGED <<constructionVars, optionVars, consumed, toPrint>>

\* Every example's self-check, those that fail named.
Check ==
    /\ phase = "command" /\ args[1] = "--check"
    /\ Exit(IF world.failing = {} THEN 0 ELSE 1)

-----------------------------------------------------------------------------
(* A lexer: an example's, or that of a grammar file *)

IsExample == args[1] = "--example"

\* find.
IsKnown == Len(args) >= 2 /\ args[2] \in DOMAIN Registry

BadExample ==
    /\ phase = "command" /\ IsExample /\ ~IsKnown
    /\ Exit(2)

TakeExample ==
    /\ phase = "command" /\ IsExample /\ IsKnown
    /\ Goes("input")

Loads == phase = "command" /\ ~IsExample /\ args[1] \notin Asks \cup {"--check"}

OpenGrammar == Loads /\ args[1] \in world.files /\ Goes("grammar")

NoGrammar == Loads /\ args[1] \notin world.files /\ Exit(1)

Parse == phase = "grammar" /\ ParseNext /\ UNCHANGED <<buildVars, commandVars>>

Build == phase = "grammar" /\ BuildNext /\ UNCHANGED commandVars

\* The grammar_error of the parse, or the std::invalid_argument of the constructor.
RefusedGrammar == phase = "grammar" /\ (pass = "refused" \/ stage = "invalid") /\ Exit(1)

HasLexer == phase = "grammar" /\ stage = "built" /\ Goes("input")

-----------------------------------------------------------------------------
(* read_input *)

\* An example's own input, where no path is given; no file's name.
Sample == "the sample"

Path ==
    LET place == IF IsExample THEN 3 ELSE 2
    IN  IF Len(args) >= place THEN args[place] ELSE IF IsExample THEN Sample ELSE "-"

\* A mutation: only a missing path is standard input.
StdinWhenMissing(path) == path = ""

IsStdin(path) == path \in {"", "-"}

ReadInput ==
    /\ phase = "input"
    /\ IsStdin(Path) \/ Path \in world.files \cup {Sample}
    /\ consumed' = IsStdin(Path)
    /\ phase' = "dump"
    /\ UNCHANGED <<constructionVars, optionVars, toPrint, output, status>>

NoInput ==
    /\ phase = "input"
    /\ ~IsStdin(Path) /\ Path \notin world.files \cup {Sample}
    /\ Exit(1)

-----------------------------------------------------------------------------
(* dump *)

\* Whether the tokens are laid out: as the option says, or as the grammar has it.
LaysOut == IF layout = "unset" THEN IsExample /\ Registry[args[2]] ELSE layout = "on"

Lexed == world.lexed[errors]

\* The header, and the tokens to print: those of the scan, printed as they are lexed, or those of the
\* layout pass, made before the first is printed.
Dump ==
    /\ phase = "dump"
    /\ output' = <<columns, "nl">>
    /\ IF LaysOut /\ (Lexed.fails \/ world.laid.fails)
       THEN phase' = "exited" /\ status' = 1 /\ toPrint' = toPrint
       ELSE /\ phase' = "print" /\ status' = status
            /\ toPrint' = IF LaysOut THEN world.laid.tokens ELSE Lexed.tokens
    /\ UNCHANGED <<constructionVars, optionVars, consumed>>

\* layout_name, or the name of an ordinary kind.
NameOf(kind) ==
    CASE kind = EndOfInput -> "EOF"
      [] kind = -4 -> "NEWLINE"
      [] kind = -3 -> "INDENT"
      [] kind = -2 -> "DEDENT"
      [] kind = ErrorKind -> "ERROR"
      [] kind >= 0 /\ IsExample -> "example"
      [] kind \in 0..(Len(names) - 1) /\ ~IsExample -> names[kind + 1]
      [] OTHER -> "?"

\* A mutation: a backslash is written as it is.
EscapedBarely(c) ==
    CASE c = "tab" -> <<"\\", "t">>
      [] c = "nl"  -> <<"\\", "n">>
      [] c = "cr"  -> <<"\\", "r">>
      [] c = "bel" -> <<"\\", "x", "0", "7">>
      [] OTHER     -> <<c>>

\* write_escaped, a byte at a time; "bel" stands for the other control bytes.
Escaped(c) ==
    CASE c = "\\"  -> <<"\\", "\\">>
      [] c = "tab" -> <<"\\", "t">>
      [] c = "nl"  -> <<"\\", "n">>
      [] c = "cr"  -> <<"\\", "r">>
      [] c = "bel" -> <<"\\", "x", "0", "7">>
      [] OTHER     -> <<c>>

LineOf(token) ==
    <<NameOf(token.kind), "tab">> \o FlattenSeq([i \in DOMAIN token.lexeme |-> Escaped(token.lexeme[i])])
    \o <<"tab", token.at, "nl">>

PrintToken ==
    /\ phase = "print" /\ toPrint # <<>>
    /\ output' = output \o LineOf(Head(toPrint))
    /\ toPrint' = Tail(toPrint)
    /\ UNCHANGED <<constructionVars, optionVars, phase, consumed, status>>

\* After the last token: the scan throws what stopped it, or the text is done.
EndOfTokens ==
    /\ phase = "print" /\ toPrint = <<>>
    /\ Exit(IF ~LaysOut /\ Lexed.fails THEN 1 ELSE 0)

Next ==
    \/ TakeWord
    \/ Usage
    \/ HasCommand
    \/ Informs
    \/ Check
    \/ BadExample
    \/ TakeExample
    \/ OpenGrammar
    \/ NoGrammar
    \/ Parse
    \/ Build
    \/ RefusedGrammar
    \/ HasLexer
    \/ ReadInput
    \/ NoInput
    \/ Dump
    \/ PrintToken
    \/ EndOfTokens

Spec == Init /\ [][Next]_cliVars

-----------------------------------------------------------------------------
(* Properties *)

\* What the words say, read at once: the last option of each kind, and the others in order.
Said(setting, default) ==
    LET said == { i \in DOMAIN argv : argv[i] \in DOMAIN Settings[setting] }
    IN  IF said = {} THEN default ELSE Settings[setting][argv[Max(said)]]

Others ==
    LET kept == Ascending({ i \in DOMAIN argv : ~IsOption(argv[i]) }, 1, Len(argv))
    IN  [a \in DOMAIN kept |-> argv[kept[a]]]

\* Whether the words ask for a text's tokens.
LexesText == Others # <<>> /\ Others[1] \notin Asks \cup {"--check"}

OfExample == Others[1] = "--example"

Laid == Said("layout", IF OfExample /\ Registry[Others[2]] THEN "on" ELSE "off") = "on"

\* The tokens the invocation asks for, and whether the text has an error.
Wanted == IF Laid THEN world.laid.tokens ELSE world.lexed[Said("errors", "raise")].tokens

HasError == world.lexed[Said("errors", "raise")].fails \/ (Laid /\ world.laid.fails)

\* What a reader makes of a lexeme as it is written: a backslash and what it escapes.
Unescaped(written) ==
    LET opens[i \in 0..Len(written)] == i > 0 /\ written[i] = "\\" /\ ~opens[i - 1]
        meant(i) ==
            CASE i > 1 /\ opens[i - 1] /\ written[i] = "t" -> <<"tab">>
              [] i > 1 /\ opens[i - 1] /\ written[i] = "n" -> <<"nl">>
              [] i > 1 /\ opens[i - 1] /\ written[i] = "r" -> <<"cr">>
              [] i > 1 /\ opens[i - 1] /\ written[i] = "x" -> <<"bel">>
              [] i > 2 /\ opens[i - 2] /\ written[i - 1] = "x" -> <<>>
              [] i > 3 /\ opens[i - 3] /\ written[i - 2] = "x" -> <<>>
              [] opens[i] -> <<>>
              [] OTHER -> <<written[i]>>
    IN  FlattenSeq([i \in DOMAIN written |-> meant(i)])

\* The lines of the output past its header, each cut at its tabs.
Ends(part, mark) == { i \in DOMAIN part : part[i] = mark }

LinesRead ==
    LET ends == Ascending(Ends(output, "nl"), 1, Len(output))
    IN  [l \in 1..(Len(ends) - 1) |-> SubSeq(output, ends[l] + 1, ends[l + 1] - 1)]

\* The token a line says, by the name of its kind.
TokenRead(written) ==
    LET tabs == Ascending(Ends(written, "tab"), 1, Len(written))
    IN  [ name |-> written[1], lexeme |-> Unescaped(SubSeq(written, tabs[1] + 1, tabs[2] - 1)), at |-> Last(written) ]

\* A line is a token: whatever bytes the lexemes hold, the output read line by line is the tokens of
\* the text up to where the printing is, and all of them in the end ("the lexeme escaped so that a line is a
\* token").  Without layout those before an error are printed; with it, none is, or all are.
OutputReadsBack ==
    LexesText /\ output # <<>> =>
        LET wanted == [ i \in DOMAIN Wanted |-> [ name |-> NameOf(Wanted[i].kind), lexeme |-> Wanted[i].lexeme,
                                                  at |-> Wanted[i].at ] ]
            lines == [ l \in DOMAIN LinesRead |-> TokenRead(LinesRead[l]) ]
        IN  /\ IsPrefix(lines, wanted)
            /\ phase = "exited" => lines = IF Laid /\ HasError THEN <<>> ELSE wanted
            /\ output[1] = Said("columns", "bytes")

\* The status says how it went, and standard input is read only by a lexer that was built: 2 for words that
\* name no command, 0 when every token of the text was printed or what was asked was told, 1 for a grammar,
\* an input or a text with an error, or an example that fails its check.  Something is written for a text
\* once its lexer is built and it is read, and nothing by the check, which reports its failures elsewhere.
StatusTells ==
    phase = "exited" =>
        LET first == IF OfExample THEN 3 ELSE 2
            input == IF Len(Others) >= first THEN Others[first] ELSE IF OfExample THEN Sample ELSE "-"
            known == OfExample => Len(Others) > 1 /\ Others[2] \in DOMAIN Registry
            fine  == OfExample \/ (Others[1] \in world.files /\ stage = "built")
            there == input \in world.files \cup {"-", "", Sample}
        IN  /\ status = 2 <=> Others = <<>> \/ (LexesText /\ ~known)
            /\ LexesText /\ known => (status = 0 <=> fine /\ there /\ ~HasError)
            /\ LexesText /\ known => (consumed <=> fine /\ input \in {"-", ""})
            /\ LexesText => (output # <<>> <=> known /\ fine /\ there)
            /\ ~LexesText => ~consumed
            /\ Others = <<>> => output = <<>>
            /\ Others # <<>> /\ Others[1] \in Asks => status = 0 /\ output = Told(Others[1])
            /\ Others # <<>> /\ Others[1] = "--check" => output = <<>> /\ (status = 0 <=> world.failing = {})

=============================================================================
