-------------------------- MODULE CommandLineProofs ---------------------------
(***************************************************************************)
(* For every grammar file and command line: the tables built answer as the *)
(* lines of the grammar say, the command's status says how it went, and    *)
(* what it prints reads back as the tokens of the text.                    *)
(***************************************************************************)
EXTENDS GrammarProofs

-----------------------------------------------------------------------------
(* The words of the command line *)

\* The words that are no options, among the first.
OthersTo(k) ==
    LET kept == Ascending({ i \in DOMAIN argv : ~IsOption(argv[i]) }, 1, k)
    IN  [a \in DOMAIN kept |-> argv[kept[a]]]

\* A setting as the first words say it.
SaidBy(setting, default, k) ==
    LET said == { i \in 1..k : argv[i] \in DOMAIN Settings[setting] }
    IN  IF said = {} THEN default ELSE Settings[setting][argv[Max(said)]]

\* What is known of the options are the words read.
WordsSaid ==
    /\ argv \in Seq(STRING)
    /\ at \in 1..(Len(argv) + 1)
    /\ args = OthersTo(at - 1)
    /\ layout = SaidBy("layout", "unset", at - 1)
    /\ errors = SaidBy("errors", "raise", at - 1)
    /\ columns = SaidBy("columns", "bytes", at - 1)
    /\ phase # "options" => at = Len(argv) + 1

\* One more word.
LEMMA OthersStep ==
    ASSUME argv \in Seq(STRING), NEW k \in 1..Len(argv)
    PROVE  OthersTo(k) = IF IsOption(argv[k]) THEN OthersTo(k - 1) ELSE Append(OthersTo(k - 1), argv[k])
<1> DEFINE S == { i \in DOMAIN argv : ~IsOption(argv[i]) }
           s == Ascending(S, 1, k - 1)
           t == Ascending(S, 1, k)
           o == [a \in DOMAIN s |-> argv[s[a]]]
<1>1. k \in Int /\ k - 1 \in Int /\ k >= 1 /\ 1 \in Int /\ k - 1 >= 1 - 1 /\ k >= 1 - 1 /\ k \in DOMAIN argv
  OBVIOUS
<1>2. t = IF k \in S THEN Append(s, k) ELSE s
  <2> HIDE DEF S
  <2> QED BY <1>1, OneMore
<1>3. s \in Seq(1..(k - 1)) /\ Len(s) \in Nat
  BY <1>1, AscendingMembers
<1>4. k \in S <=> ~IsOption(argv[k])
  BY <1>1
<1>5. OthersTo(k - 1) = o /\ OthersTo(k) = [a \in DOMAIN t |-> argv[t[a]]]
  BY DEF OthersTo
<1>6. CASE k \notin S
  BY <1>2, <1>4, <1>5, <1>6
<1>7. CASE k \in S
  <2>1. t = Append(s, k)
    BY <1>2, <1>7
  <2> HIDE DEF S, s
  <2>2. DOMAIN s = 1..Len(s)
    BY <1>3
  <2>3. DOMAIN t = 1..(Len(s) + 1) /\ t[Len(s) + 1] = k /\ \A a \in 1..Len(s) : t[a] = s[a]
    <3> HIDE DEF t
    <3> QED BY <1>1, <1>3, <2>1
  <2>4. o \in Seq(STRING) /\ Len(o) = Len(s)
    <3>1. \A a \in 1..Len(s) : s[a] \in 1..Len(argv) /\ argv[s[a]] \in STRING
      <4>1. \A a \in 1..Len(s) : s[a] \in 1..(k - 1)
        BY <1>3
      <4> QED BY <4>1
    <3>2. o = [a \in 1..Len(s) |-> argv[s[a]]]
      BY <2>2
    <3>3. o \in [1..Len(s) -> STRING]
      BY <3>1, <3>2
    <3> HIDE DEF o
    <3> QED BY <1>3, <3>3
  <2>5. Append(o, argv[k]) \in Seq(STRING) /\ Len(Append(o, argv[k])) = Len(s) + 1
        /\ Append(o, argv[k])[Len(s) + 1] = argv[k] /\ \A a \in 1..Len(s) : Append(o, argv[k])[a] = o[a]
    <3> HIDE DEF o
    <3>1. argv[k] \in STRING
      BY <1>1
    <3> QED BY <1>3, <2>4, <3>1
  <2>6. \A a \in 1..Len(s) : o[a] = argv[s[a]]
    BY <2>2
  <2> DEFINE p == Append(o, argv[k])
             q == [a \in DOMAIN t |-> argv[t[a]]]
  <2>7. p = [a \in 1..(Len(s) + 1) |-> p[a]]
    <3> HIDE DEF p, o
    <3>1. p \in Seq(STRING) /\ Len(p) = Len(s) + 1
      BY <2>5 DEF p
    <3> QED BY <3>1
  <2>8. \A a \in 1..(Len(s) + 1) : p[a] = argv[t[a]]
    <3> SUFFICES ASSUME NEW a \in 1..(Len(s) + 1) PROVE p[a] = argv[t[a]]
      OBVIOUS
    <3>1. CASE a = Len(s) + 1
      BY <2>3, <2>5, <3>1
    <3>2. CASE a # Len(s) + 1
      <4>1. a \in 1..Len(s)
        BY <1>3, <3>2
      <4> QED BY <2>3, <2>5, <2>6, <4>1
    <3> QED BY <3>1, <3>2
  <2>9. q = p
    <3>1. q = [a \in 1..(Len(s) + 1) |-> argv[t[a]]]
      BY <2>3
    <3> HIDE DEF p, q, o, t
    <3> QED BY <2>7, <2>8, <3>1
  <2> QED BY <1>4, <1>5, <1>7, <2>9
<1> QED BY <1>6, <1>7

\* A setting, one more word read.
LEMMA WordStep ==
    ASSUME argv \in Seq(STRING), NEW k \in 1..Len(argv), NEW setting, NEW default
    PROVE  SaidBy(setting, default, k) = After(setting, SaidBy(setting, default, k - 1), argv[k])
<1> DEFINE said(j) == { i \in 1..j : argv[i] \in DOMAIN Settings[setting] }
<1>1. CASE argv[k] \in DOMAIN Settings[setting]
  <2> DEFINE M == said(k)
  <2>1. k \in M /\ \A y \in M : y \in Int /\ k >= y
    BY <1>1
  <2> HIDE DEF M
  <2>2. Max(M) = k
    <3>1. Max(M) \in M /\ \A y \in M : Max(M) >= y
      BY <2>1 DEF Max
    <3>2. Max(M) \in Int /\ k \in Int /\ Max(M) >= k /\ k >= Max(M)
      BY <2>1, <3>1
    <3> QED BY <3>2
  <2>3. SaidBy(setting, default, k) = Settings[setting][argv[k]]
    BY <2>1, <2>2 DEF SaidBy, M
  <2> QED BY <1>1, <2>3 DEF After
<1>2. CASE argv[k] \notin DOMAIN Settings[setting]
  <2>1. said(k) = said(k - 1)
    BY <1>2
  <2> QED BY <1>2, <2>1 DEF SaidBy, After
<1> QED BY <1>1, <1>2

\* A bounded set of naturals has the greatest member Max chooses.
LEMMA MaxOfNaturals ==
    ASSUME NEW S \in SUBSET Nat, S # {}, NEW n \in Nat, \A i \in S : i <= n
    PROVE  Max(S) \in S
<1> DEFINE R == { n - i : i \in S }
<1>1. R \in SUBSET Nat /\ R # {}
  <2>1. \A i \in S : n - i \in Nat
    OBVIOUS
  <2>2. R \in SUBSET Nat
    BY <2>1
  <2>3. PICK i \in S : TRUE
    OBVIOUS
  <2> QED BY <2>2, <2>3
<1> DEFINE r == Min(R)
<1>2. r \in R /\ \A y \in R : r <= y
  BY <1>1, MinOfNaturals
<1>3. PICK i \in S : r = n - i
  BY <1>2
<1>4. \A j \in S : i >= j
  <2> TAKE j \in S
  <2>1. n - j \in R /\ n - j \in Nat /\ n - i \in Nat /\ i \in Nat /\ j \in Nat
    OBVIOUS
  <2>2. n - i <= n - j
    <3> HIDE DEF R, r
    <3> QED BY <1>2, <1>3, <2>1
  <2> QED BY <2>1, <2>2
<1> QED BY <1>4 DEF Max

-----------------------------------------------------------------------------
(* The status *)

\* A command that lexes something known.
KnownCommand ==
    /\ args # <<>> /\ args[1] \notin Asks \cup {"--check"}
    /\ IF IsExample THEN IsKnown ELSE args[1] \in world.files

HasInput == IsStdin(Path) \/ Path \in world.files \cup {Sample}

\* What is so in each phase.
PhasesSaid ==
    /\ phase \in {"options", "command", "grammar", "input", "dump", "print", "exited"}
    /\ phase # "exited" => status = -1
    /\ phase \in {"options", "command", "grammar", "input"} => consumed = FALSE
    /\ phase \in {"options", "command", "grammar", "input", "dump"} => output = <<>>
    /\ phase = "command" => args # <<>>
    /\ phase \in {"grammar", "input", "dump", "print"} => KnownCommand
    /\ phase = "grammar" => ~IsExample
    /\ phase \in {"input", "dump", "print"} => IsExample \/ stage = "built"
    /\ phase \in {"dump", "print"} => HasInput /\ consumed = IsStdin(Path)
    /\ phase = "print" => ~(LaysOut /\ (Lexed.fails \/ world.laid.fails))

CommandInv == WordsSaid /\ PhasesSaid /\ StatusTells

\* All words read, what is known is what they say.
LEMMA WordsRead ==
    ASSUME WordsSaid, at = Len(argv) + 1
    PROVE  /\ args = Others
           /\ errors = Said("errors", "raise") /\ columns = Said("columns", "bytes")
           /\ (layout = "unset" => \A default : Said("layout", default) = default)
           /\ (layout # "unset" => \A default : Said("layout", default) = layout)
<1>1. argv \in Seq(STRING) /\ at - 1 = Len(argv) /\ DOMAIN argv = 1..Len(argv)
  BY DEF WordsSaid
<1>2. \A setting, default : SaidBy(setting, default, at - 1) = Said(setting, default)
  BY <1>1 DEF SaidBy, Said
<1>3. OthersTo(at - 1) = Others
  BY <1>1 DEF OthersTo, Others
<1> DEFINE said == { i \in DOMAIN argv : argv[i] \in DOMAIN Settings["layout"] }
           m == Max(said)
<1>4. \A default : Said("layout", default) = IF said = {} THEN default ELSE Settings["layout"][argv[m]]
  BY DEF Said
<1>5. layout = Said("layout", "unset")
  BY <1>2 DEF WordsSaid
<1>6. CASE said = {}
  <2> HIDE DEF said
  <2> QED BY <1>2, <1>3, <1>4, <1>5, <1>6 DEF WordsSaid
<1>7. CASE said # {}
  <2>1. m \in said
    <3>1. said \in SUBSET Nat /\ \A i \in said : i <= Len(argv)
      BY <1>1
    <3>2. Len(argv) \in Nat
      BY <1>1
    <3> HIDE DEF said
    <3>3. Max(said) \in said
      BY ONLY <1>7, <3>1, <3>2, MaxOfNaturals
    <3> QED BY <3>3
  <2>2. Settings["layout"][argv[m]] # "unset"
    <3> HIDE DEF m
    <3>1. argv[m] \in DOMAIN Settings["layout"]
      BY <2>1
    <3> QED BY <3>1 DEF Settings
  <2> HIDE DEF said, m
  <2> QED BY <1>2, <1>3, <1>4, <1>5, <1>7, <2>2 DEF WordsSaid
<1> QED BY <1>6, <1>7

\* Past the words the command does what they say.
LEMMA OptionsMean ==
    ASSUME WordsSaid, at = Len(argv) + 1
    PROVE  /\ args = Others /\ (OfExample <=> IsExample)
           /\ (Laid <=> LaysOut)
           /\ Lexed = world.lexed[Said("errors", "raise")]
           /\ HasError <=> (Lexed.fails \/ (LaysOut /\ world.laid.fails))
<1>1. args = Others /\ Lexed = world.lexed[Said("errors", "raise")]
  BY WordsRead DEF Lexed
<1>2. OfExample <=> IsExample
  BY <1>1 DEF OfExample, IsExample
<1>3. Laid <=> LaysOut
  <2>1. CASE layout = "unset"
    <3>1. Said("layout", IF OfExample /\ Registry[Others[2]] THEN "on" ELSE "off") = (IF OfExample /\ Registry[Others[2]] THEN "on" ELSE "off")
      BY <2>1, WordsRead
    <3>2. Laid <=> OfExample /\ Registry[Others[2]]
      BY <3>1 DEF Laid
    <3> QED BY <1>1, <1>2, <2>1, <3>2 DEF LaysOut
  <2>2. CASE layout # "unset"
    <3>1. Said("layout", IF OfExample /\ Registry[Others[2]] THEN "on" ELSE "off") = layout
      BY <2>2, WordsRead
    <3> QED BY <2>2, <3>1 DEF Laid, LaysOut
  <2> QED BY <2>1, <2>2
<1> QED BY <1>1, <1>2, <1>3 DEF HasError

\* A step past the words leaves what they say.
LEMMA WordsKept ==
    ASSUME WordsSaid, UNCHANGED optionVars, phase = "options" /\ phase' # "options" => at = Len(argv) + 1
    PROVE  WordsSaid'
<1>1. /\ argv' = argv /\ at' = at /\ args' = args /\ layout' = layout /\ errors' = errors /\ columns' = columns
  BY DEF optionVars
<1> QED BY <1>1 DEF WordsSaid, OthersTo, SaidBy

\* What a step that leaves the words and the world alone leaves.
LEMMA WorldKept ==
    ASSUME UNCHANGED optionVars
    PROVE  /\ (KnownCommand' <=> KnownCommand) /\ (IsExample' <=> IsExample) /\ (HasInput' <=> HasInput)
           /\ Path' = Path /\ (LaysOut' <=> LaysOut) /\ Lexed' = Lexed /\ args' = args /\ world' = world
           /\ Others' = Others /\ (HasError' <=> HasError) /\ (OfExample' <=> OfExample)
<1>1. /\ argv' = argv /\ world' = world /\ at' = at /\ args' = args /\ layout' = layout /\ errors' = errors
      /\ columns' = columns
  BY DEF optionVars
<1> QED BY <1>1 DEF KnownCommand, IsExample, IsKnown, HasInput, Path, LaysOut, Lexed, Others, HasError, OfExample, Laid, Said

\* What the status tells of a command that ends.
LEMMA Tells ==
    ASSUME WordsSaid, phase # "options" \/ at > Len(argv), UNCHANGED optionVars, phase' = "exited",
           LET lexes == args # <<>> /\ args[1] \notin Asks \cup {"--check"}
               known == IsExample => IsKnown
               fine  == IsExample \/ (args[1] \in world.files /\ stage' = "built")
           IN  /\ status' = 2 <=> args = <<>> \/ (lexes /\ ~known)
               /\ lexes /\ known => (status' = 0 <=> fine /\ HasInput /\ ~(Lexed.fails \/ (LaysOut /\ world.laid.fails)))
               /\ lexes /\ known => (consumed' <=> fine /\ IsStdin(Path))
               /\ lexes => (output' # <<>> <=> known /\ fine /\ HasInput)
               /\ ~lexes => ~consumed'
               /\ args = <<>> => output' = <<>>
               /\ args # <<>> /\ args[1] \in Asks => status' = 0 /\ output' = Told(args[1])
               /\ args # <<>> /\ args[1] = "--check" => output' = <<>> /\ (status' = 0 <=> world.failing = {})
    PROVE  StatusTells'
<1>1. argv' = argv /\ world' = world
  BY DEF optionVars
<1>2. at = Len(argv) + 1
  <2>1. argv \in Seq(STRING) /\ at \in 1..(Len(argv) + 1) /\ Len(argv) \in Nat
    BY DEF WordsSaid
  <2> QED BY <2>1 DEF WordsSaid
<1>3. args = Others /\ (OfExample <=> IsExample) /\ (HasError <=> (Lexed.fails \/ (LaysOut /\ world.laid.fails)))
  BY <1>2, OptionsMean
<1>4. Others' = Others /\ (OfExample' <=> OfExample) /\ (HasError' <=> HasError)
  BY WorldKept
<1> DEFINE input == IF Len(Others) >= (IF OfExample THEN 3 ELSE 2) THEN Others[IF OfExample THEN 3 ELSE 2]
                    ELSE IF OfExample THEN Sample ELSE "-"
<1>5. Path = input
  BY <1>3 DEF Path
<1>6. HasInput <=> input \in world.files \cup {"-", "", Sample}
  BY <1>5 DEF HasInput, IsStdin
<1>7. IsKnown <=> Len(Others) > 1 /\ Others[2] \in DOMAIN Registry
  <2>1. Len(Others) \in Nat
    <3>1. Others = OthersTo(at - 1) /\ argv \in Seq(STRING) /\ at - 1 = Len(argv) /\ Len(argv) \in Nat
      BY <1>2, <1>3 DEF WordsSaid
    <3> DEFINE S == { i \in DOMAIN argv : ~IsOption(argv[i]) }
               s == Ascending(S, 1, Len(argv))
    <3>2. s \in Seq(1..Len(argv))
      <4>1. 1 \in Int /\ Len(argv) \in Int /\ Len(argv) >= 1 - 1
        BY <3>1
      <4> HIDE DEF S
      <4> QED BY <4>1, AscendingMembers
    <3>3. Others = [a \in DOMAIN s |-> argv[s[a]]]
      BY <3>1 DEF OthersTo
    <3> HIDE DEF s
    <3>4. DOMAIN s = 1..Len(s) /\ Len(s) \in Nat
      BY <3>2
    <3>5. DOMAIN Others = 1..Len(s)
      BY <3>3, <3>4
    <3>6. Others = [a \in 1..Len(s) |-> Others[a]]
      BY <3>3, <3>4
    <3> DEFINE T == { Others[a] : a \in 1..Len(s) }
    <3>7. Others \in Seq(T)
      <4>1. \A a \in 1..Len(s) : Others[a] \in T
        OBVIOUS
      <4> HIDE DEF T
      <4> QED BY <3>4, <3>6, <4>1
    <3> HIDE DEF T
    <3> QED BY <3>7
  <2> QED BY <1>3, <2>1 DEF IsKnown
<1>8. IsStdin(Path) <=> input \in {"-", ""}
  BY <1>5 DEF IsStdin
<1> HIDE DEF input
<1>9. input = (IF Len(Others) >= (IF OfExample THEN 3 ELSE 2) THEN Others[IF OfExample THEN 3 ELSE 2]
              ELSE IF OfExample THEN Sample ELSE "-")
  BY DEF input
<1>10. Others' = Others /\ Told(Others[1])' = Told(Others[1]) /\ (LexesText' <=> LexesText)
  BY <1>4 DEF Told, LexesText
<1>11. LexesText <=> args # <<>> /\ args[1] \notin Asks \cup {"--check"}
  BY <1>3 DEF LexesText
<1> QED BY <1>1, <1>3, <1>4, <1>6, <1>7, <1>8, <1>9, <1>10, <1>11 DEF StatusTells

\* At the start nothing is read.
LEMMA CommandStarts == Init => CommandInv
<1> SUFFICES ASSUME Init PROVE CommandInv
  OBVIOUS
<1>1. /\ at = 1 /\ layout = "unset" /\ errors = "raise" /\ columns = "bytes" /\ args = <<>>
      /\ phase = "options" /\ consumed = FALSE /\ output = <<>> /\ status = -1
  BY DEF Init
<1>2. argv \in Seq(STRING)
  BY InvocationsAssumption DEF Init
<1>3. args = OthersTo(0)
  <2> DEFINE S == { i \in DOMAIN argv : ~IsOption(argv[i]) }
             s == Ascending(S, 1, 1 - 1)
  <2>1. s = <<>>
    <3>1. 1 \in Int
      OBVIOUS
    <3> HIDE DEF S
    <3> QED BY <3>1, AscendingSteps
  <2>2. [a \in DOMAIN s |-> argv[s[a]]] = <<>>
    <3> HIDE DEF s
    <3>1. DOMAIN s = {}
      BY <2>1
    <3> QED BY <3>1
  <2>3. 1 - 1 = 0
    OBVIOUS
  <2> QED BY <1>1, <2>2, <2>3 DEF OthersTo
<1>4. \A setting, default : SaidBy(setting, default, 0) = default
  <2>1. 1..0 = {}
    OBVIOUS
  <2> QED BY <2>1 DEF SaidBy
<1>5. WordsSaid
  <2>1. at - 1 = 0 /\ at \in 1..(Len(argv) + 1)
    BY <1>1, <1>2
  <2> QED BY <1>1, <1>2, <1>3, <1>4, <2>1 DEF WordsSaid
<1> QED BY <1>1, <1>5 DEF CommandInv, PhasesSaid, StatusTells

\* A word is read.
LEMMA TakeWordKeeps ==
    ASSUME CommandInv, TakeWord
    PROVE  CommandInv'
<1>1. phase = "options" /\ phase' = phase /\ at <= Len(argv) /\ at' = at + 1 /\ argv' = argv /\ world' = world
      /\ consumed' = consumed /\ output' = output /\ status' = status /\ stage' = stage
  BY DEF TakeWord, constructionVars, buildVars
<1>2. argv \in Seq(STRING) /\ at \in 1..Len(argv) /\ at' - 1 = at /\ at' \in 1..(Len(argv) + 1)
  BY <1>1 DEF CommandInv, WordsSaid
<1>3. args' = OthersTo(at)
  <2>1. OthersTo(at) = IF IsOption(argv[at]) THEN OthersTo(at - 1) ELSE Append(OthersTo(at - 1), argv[at])
    BY <1>2, OthersStep
  <2>2. args = OthersTo(at - 1)
    BY DEF CommandInv, WordsSaid
  <2> QED BY <2>1, <2>2 DEF TakeWord
<1>4. layout' = SaidBy("layout", "unset", at) /\ errors' = SaidBy("errors", "raise", at)
      /\ columns' = SaidBy("columns", "bytes", at)
  <2>1. \A setting, default : SaidBy(setting, default, at) = After(setting, SaidBy(setting, default, at - 1), argv[at])
    BY <1>2, WordStep
  <2>2. layout = SaidBy("layout", "unset", at - 1) /\ errors = SaidBy("errors", "raise", at - 1)
        /\ columns = SaidBy("columns", "bytes", at - 1)
    BY DEF CommandInv, WordsSaid
  <2>3. layout' = After("layout", layout, argv[at]) /\ errors' = After("errors", errors, argv[at])
        /\ columns' = After("columns", columns, argv[at])
    BY DEF TakeWord
  <2> QED BY <2>1, <2>2, <2>3
<1>5. (OthersTo(at - 1))' = OthersTo(at) /\ (SaidBy("layout", "unset", at - 1))' = SaidBy("layout", "unset", at)
      /\ (SaidBy("errors", "raise", at - 1))' = SaidBy("errors", "raise", at)
      /\ (SaidBy("columns", "bytes", at - 1))' = SaidBy("columns", "bytes", at)
  BY <1>1, <1>2 DEF OthersTo, SaidBy
<1>6. WordsSaid'
  BY <1>1, <1>2, <1>3, <1>4, <1>5 DEF WordsSaid
<1>7. PhasesSaid' /\ StatusTells'
  BY <1>1 DEF CommandInv, PhasesSaid, StatusTells
<1> QED BY <1>6, <1>7 DEF CommandInv

\* A step into another phase.
LEMMA GoesOn ==
    ASSUME CommandInv, NEW to, Goes(to), phase # "exited",
           \/ phase = "options" /\ at = Len(argv) + 1 /\ to = "command" /\ args # <<>>
           \/ phase = "command" /\ to = "grammar" /\ KnownCommand /\ ~IsExample
           \/ phase = "command" /\ to = "input" /\ KnownCommand /\ IsExample
           \/ phase = "grammar" /\ to = "input" /\ stage = "built"
    PROVE  CommandInv'
<1>1. phase' = to /\ UNCHANGED optionVars /\ consumed' = consumed /\ output' = output /\ status' = status /\ stage' = stage
  BY DEF Goes, constructionVars, buildVars
<1>2. WordsSaid'
  BY <1>1, WordsKept DEF CommandInv
<1>3. PhasesSaid' /\ StatusTells'
  BY <1>1, WorldKept DEF CommandInv, PhasesSaid, StatusTells
<1> QED BY <1>2, <1>3 DEF CommandInv

\* A parse or a construction goes on; where the command is elsewhere, nothing does.
LEMMA GrammarGoesOn ==
    ASSUME CommandInv, phase = "grammar" \/ stage' = stage, UNCHANGED commandVars
    PROVE  CommandInv'
<1>1. phase' = phase /\ UNCHANGED optionVars /\ consumed' = consumed /\ output' = output /\ status' = status
  BY DEF commandVars
<1>2. argv' = argv /\ at' = at /\ args' = args /\ layout' = layout /\ errors' = errors /\ columns' = columns /\ world' = world
  BY <1>1 DEF optionVars
<1>3. WordsSaid'
  BY <1>1, <1>2 DEF CommandInv, WordsSaid, OthersTo, SaidBy
<1>4. PhasesSaid'
  BY <1>1, WorldKept DEF CommandInv, PhasesSaid
<1>5. StatusTells'
  <2>1. CASE phase # "exited"
    BY <1>1, <2>1 DEF StatusTells
  <2>2. CASE phase = "exited"
    <3>1. stage' = stage
      BY <2>2
    <3>2. Others' = Others /\ Told(Others[1])' = Told(Others[1]) /\ (LexesText' <=> LexesText)
      BY <1>1, WorldKept DEF Told, LexesText
    <3> QED BY <1>1, <1>2, <3>1, <3>2, WorldKept DEF CommandInv, StatusTells
  <2> QED BY <2>1, <2>2
<1> QED BY <1>3, <1>4, <1>5 DEF CommandInv

\* A command that ends.
LEMMA CommandEnds ==
    ASSUME CommandInv, phase # "exited", phase # "options" \/ at > Len(argv), UNCHANGED optionVars, phase' = "exited", StatusTells'
    PROVE  CommandInv'
<1>1. phase = "options" => at = Len(argv) + 1
  <2>1. argv \in Seq(STRING) /\ at \in 1..(Len(argv) + 1) /\ Len(argv) \in Nat
    BY DEF CommandInv, WordsSaid
  <2> QED BY <2>1
<1>2. WordsSaid'
  BY <1>1, WordsKept DEF CommandInv
<1> QED BY <1>2 DEF CommandInv, PhasesSaid

\* Each step of the command but those of the parse and the construction.
LEMMA CommandSteps ==
    ASSUME CommandInv, BuildInv, phase = "print" => output # <<>>,
           \/ Usage \/ HasCommand \/ Informs \/ Check \/ BadExample \/ TakeExample \/ OpenGrammar
           \/ NoGrammar \/ RefusedGrammar \/ HasLexer \/ ReadInput \/ NoInput \/ Dump \/ PrintToken \/ EndOfTokens
    PROVE  CommandInv'
<1> USE DEF CommandInv
<1>0. argv \in Seq(STRING) /\ Len(argv) \in Nat /\ at \in 1..(Len(argv) + 1)
  BY DEF WordsSaid
<1>1. CASE Usage
  <2>1. phase = "options" /\ at > Len(argv) /\ args = <<>> /\ UNCHANGED optionVars /\ phase' = "exited" /\ status' = 2
        /\ consumed' = consumed /\ output' = output
    BY <1>1 DEF Usage, Exit
  <2>2. StatusTells'
    BY <2>1, Tells DEF PhasesSaid
  <2> QED BY <2>1, <2>2, CommandEnds
<1>2. CASE HasCommand
  <2>1. phase = "options" /\ at = Len(argv) + 1 /\ args # <<>> /\ Goes("command")
    BY <1>0, <1>2 DEF HasCommand
  <2> QED BY <2>1, GoesOn
<1>3. CASE Informs
  <2>1. phase = "command" /\ args # <<>> /\ args[1] \in Asks /\ UNCHANGED optionVars /\ phase' = "exited" /\ status' = 0
        /\ consumed' = consumed /\ output' = Told(args[1])
    BY <1>3 DEF Informs, PhasesSaid
  <2>2. "--check" \notin Asks
    BY DEF Asks
  <2>3. StatusTells'
    BY <2>1, <2>2, Tells DEF PhasesSaid
  <2> QED BY <2>1, <2>3, CommandEnds
<1>4. CASE Check
  <2>1. phase = "command" /\ args # <<>> /\ args[1] = "--check" /\ UNCHANGED optionVars /\ phase' = "exited"
        /\ status' = (IF world.failing = {} THEN 0 ELSE 1) /\ consumed' = consumed /\ output' = output
    BY <1>4 DEF Check, Exit, PhasesSaid
  <2>2. "--check" \notin Asks
    BY DEF Asks
  <2>3. StatusTells'
    BY <2>1, <2>2, Tells DEF PhasesSaid
  <2> QED BY <2>1, <2>3, CommandEnds
<1>5. CASE BadExample
  <2>1. phase = "command" /\ args # <<>> /\ IsExample /\ ~IsKnown /\ UNCHANGED optionVars /\ phase' = "exited" /\ status' = 2
        /\ consumed' = consumed /\ output' = output
    BY <1>5 DEF BadExample, Exit, PhasesSaid
  <2>2. args[1] \notin Asks \cup {"--check"}
    BY <2>1 DEF IsExample, Asks
  <2>3. StatusTells'
    BY <2>1, <2>2, Tells DEF PhasesSaid
  <2> QED BY <2>1, <2>3, CommandEnds
<1>6. CASE TakeExample
  <2>1. phase = "command" /\ args # <<>> /\ IsExample /\ IsKnown /\ Goes("input")
    BY <1>6 DEF TakeExample, PhasesSaid
  <2>2. KnownCommand
    BY <2>1 DEF KnownCommand, IsExample, Asks
  <2> QED BY <2>1, <2>2, GoesOn
<1>7. CASE OpenGrammar
  <2>1. phase = "command" /\ args # <<>> /\ ~IsExample /\ KnownCommand /\ Goes("grammar")
    BY <1>7 DEF OpenGrammar, Loads, PhasesSaid, KnownCommand
  <2> QED BY <2>1, GoesOn
<1>8. CASE NoGrammar
  <2>1. phase = "command" /\ args # <<>> /\ ~IsExample /\ args[1] \notin Asks \cup {"--check"} /\ args[1] \notin world.files
        /\ UNCHANGED optionVars /\ phase' = "exited" /\ status' = 1 /\ consumed' = consumed /\ output' = output
    BY <1>8 DEF NoGrammar, Loads, Exit, PhasesSaid
  <2>2. StatusTells'
    BY <2>1, Tells DEF PhasesSaid
  <2> QED BY <2>1, <2>2, CommandEnds
<1>9. CASE RefusedGrammar
  <2>1. phase = "grammar" /\ (pass = "refused" \/ stage = "invalid") /\ UNCHANGED optionVars /\ phase' = "exited"
        /\ status' = 1 /\ consumed' = consumed /\ output' = output /\ stage' = stage
    BY <1>9 DEF RefusedGrammar, Exit, constructionVars, buildVars
  <2>2. stage' # "built" /\ KnownCommand /\ ~IsExample
    BY <2>1 DEF BuildInv, PhasesSaid
  <2>3. StatusTells'
    BY <2>1, <2>2, Tells DEF PhasesSaid, KnownCommand
  <2> QED BY <2>1, <2>3, CommandEnds
<1>10. CASE HasLexer
  <2>1. phase = "grammar" /\ stage = "built" /\ Goes("input")
    BY <1>10 DEF HasLexer
  <2> QED BY <2>1, GoesOn
<1>11. CASE ReadInput
  <2>1. phase = "input" /\ HasInput /\ consumed' = IsStdin(Path) /\ phase' = "dump" /\ UNCHANGED optionVars
        /\ output' = output /\ status' = status /\ stage' = stage
    BY <1>11 DEF ReadInput, HasInput, constructionVars, buildVars
  <2>2. WordsSaid'
    BY <2>1, WordsKept
  <2>3. PhasesSaid' /\ StatusTells'
    BY <2>1, WorldKept DEF PhasesSaid, StatusTells, IsStdin
  <2> QED BY <2>2, <2>3
<1>12. CASE NoInput
  <2>1. phase = "input" /\ ~HasInput /\ UNCHANGED optionVars /\ phase' = "exited" /\ status' = 1 /\ consumed' = consumed
        /\ output' = output /\ ~IsStdin(Path)
    BY <1>12 DEF NoInput, HasInput, Exit
  <2>2. KnownCommand
    BY <2>1 DEF PhasesSaid
  <2>3. StatusTells'
    BY <2>1, <2>2, Tells DEF PhasesSaid, KnownCommand
  <2> QED BY <2>1, <2>3, CommandEnds
<1>13. CASE Dump
  <2>1. phase = "dump" /\ UNCHANGED optionVars /\ consumed' = consumed /\ stage' = stage /\ output' # <<>>
    BY <1>13 DEF Dump, constructionVars, buildVars
  <2>2. KnownCommand /\ (IsExample \/ stage = "built") /\ HasInput /\ consumed = IsStdin(Path) /\ status = -1
    BY <2>1 DEF PhasesSaid
  <2>3. CASE LaysOut /\ (Lexed.fails \/ world.laid.fails)
    <3>1. phase' = "exited" /\ status' = 1
      BY <1>13, <2>3 DEF Dump
    <3>2. StatusTells'
      BY <2>1, <2>2, <2>3, <3>1, Tells DEF KnownCommand
    <3> QED BY <2>1, <3>1, <3>2, CommandEnds
  <2>4. CASE ~(LaysOut /\ (Lexed.fails \/ world.laid.fails))
    <3>1. phase' = "print" /\ status' = status
      BY <1>13, <2>4 DEF Dump
    <3>2. WordsSaid'
      BY <2>1, WordsKept
    <3>3. PhasesSaid' /\ StatusTells'
      BY <2>1, <2>2, <2>4, <3>1, WorldKept DEF PhasesSaid, StatusTells, IsStdin
    <3> QED BY <3>2, <3>3
  <2> QED BY <2>3, <2>4
<1>14. CASE PrintToken
  <2>1. phase = "print" /\ phase' = phase /\ UNCHANGED optionVars /\ consumed' = consumed /\ stage' = stage /\ status' = status
    BY <1>14 DEF PrintToken, constructionVars, buildVars
  <2>2. WordsSaid'
    BY <2>1, WordsKept
  <2>3. PhasesSaid' /\ StatusTells'
    BY <2>1, WorldKept DEF PhasesSaid, StatusTells, IsStdin
  <2> QED BY <2>2, <2>3
<1>15. CASE EndOfTokens
  <2>1. phase = "print" /\ UNCHANGED optionVars /\ phase' = "exited" /\ consumed' = consumed /\ stage' = stage
        /\ output' # <<>> /\ status' = IF ~LaysOut /\ Lexed.fails THEN 1 ELSE 0
    BY <1>15 DEF EndOfTokens, Exit, constructionVars, buildVars
  <2>2. KnownCommand /\ (IsExample \/ stage = "built") /\ HasInput /\ consumed = IsStdin(Path)
        /\ ~(LaysOut /\ (Lexed.fails \/ world.laid.fails))
    BY <2>1 DEF PhasesSaid
  <2>3. status' = 0 <=> ~(Lexed.fails \/ (LaysOut /\ world.laid.fails))
    BY <2>1, <2>2
  <2>4. status' # 2
    BY <2>1
  <2>5. StatusTells'
    BY <2>1, <2>2, <2>3, <2>4, Tells DEF KnownCommand
  <2> QED BY <2>1, <2>5, CommandEnds
<1> QED BY <1>1, <1>2, <1>3, <1>4, <1>5, <1>6, <1>7, <1>8, <1>9, <1>10, <1>11, <1>12, <1>13, <1>14, <1>15

-----------------------------------------------------------------------------
(* What a rule allows, by its line *)

\* Where a rule may stand on its line, and what it is in the indentation.
LEMMA PlaceMeans ==
    ASSUME ParseInv, pass = "parsed", NEW r \in 1..Len(rules), NEW start \in BOOLEAN
    PROVE  LET l == RuleLines[r]
           IN  /\ rules[r].lineStart \in {"any", IF start THEN "start" ELSE "inside"}
                  <=> (Gives(l, "line_start") => start) /\ (Gives(l, "not_line_start") => ~start)
               /\ rules[r].lineStart = "any" => ~Gives(l, "line_start") /\ ~Gives(l, "not_line_start")
               /\ \A role \in {"entry", "value"} : rules[r].indent = role <=> NamesGiven(l, {"indent="}) = <<role>>
<1> DEFINE l == RuleLines[r]
           n == Len(OptionsOf(l))
           q == rules[r]
           s == NamesGiven(l, {"indent="})
<1>1. ParseSaid /\ line = Len(file) + 1 /\ option = 0
  BY AcceptedMeans
<1>2. file \in Files /\ l \in 1..Len(file) /\ file[l].is = "rule" /\ Mistakes(l) = {} /\ SaidTo(q, l, n)
  BY <1>1, AfterLines
<1>3. (\A w : Gives(l, w) <=> GivenTo(l, n, {w}) # {}) /\ s = NamesTo(l, n, {"indent="})
  BY <1>2, GivenMeans
<1>4. q.lineStart = IF Gives(l, "line_start") THEN "start" ELSE IF Gives(l, "not_line_start") THEN "inside" ELSE "any"
  BY <1>2, <1>3 DEF SaidTo
<1>5. Gives(l, "line_start") => ~Gives(l, "not_line_start")
  <2>1. SortOf("line_start") = SortOf("not_line_start")
    BY DEF SortOf
  <2> QED BY <1>2, <2>1, OneOfSort
<1>6. q.indent = IF GivenTo(l, n, {"indent="}) # {} THEN s[1] ELSE "none"
  BY <1>2, <1>3 DEF SaidTo
<1>7. GivenTo(l, n, {"indent="}) # {} => s \in Seq(STRING) /\ Len(s) = 1
  <2>1. {"indent="} \subseteq {"push=", "set="} \cup OneName
    BY DEF OneName
  <2> QED BY <1>2, <1>3, <2>1, OneNamed
<1>8. GivenTo(l, n, {"indent="}) = {} => s = <<>>
  BY <1>3 DEF NamesTo
<1>9. \A role \in {"entry", "value"} : q.indent = role <=> s = <<role>>
  <2> SUFFICES ASSUME NEW role \in {"entry", "value"} PROVE q.indent = role <=> s = <<role>>
    OBVIOUS
  <2>1. role # "none"
    OBVIOUS
  <2> HIDE DEF s, q
  <2>2. CASE GivenTo(l, n, {"indent="}) # {}
    <3>1. q.indent = s[1] /\ s \in Seq(STRING) /\ Len(s) = 1
      BY <1>6, <1>7, <2>2
    <3>2. s = <<s[1]>>
      BY <3>1
    <3>3. \A x : <<x>>[1] = x
      OBVIOUS
    <3> QED BY <3>1, <3>2, <3>3
  <2>3. CASE GivenTo(l, n, {"indent="}) = {}
    <3>1. s = <<>> /\ q.indent = "none"
      BY <1>6, <1>8, <2>3
    <3>2. <<>> # <<role>>
      OBVIOUS
    <3> QED BY <2>1, <3>1, <3>2
  <2> QED BY <2>2, <2>3
<1>10. q.lineStart \in {"any", IF start THEN "start" ELSE "inside"}
       <=> (Gives(l, "line_start") => start) /\ (Gives(l, "not_line_start") => ~start)
  <2> HIDE DEF q, l
  <2>1. CASE Gives(l, "line_start")
    BY <1>4, <1>5, <2>1
  <2>2. CASE Gives(l, "not_line_start") /\ ~Gives(l, "line_start")
    BY <1>4, <2>2
  <2>3. CASE ~Gives(l, "not_line_start") /\ ~Gives(l, "line_start")
    BY <1>4, <2>3
  <2> QED BY <2>1, <2>2, <2>3
<1>11. q.lineStart = "any" => ~Gives(l, "line_start") /\ ~Gives(l, "not_line_start")
  <2> HIDE DEF q, l
  <2> QED BY <1>4
<1> QED BY <1>9, <1>10, <1>11
\* The kinds a predicate is about are those of the names it gives, "^" the one at the start.
LEMMA NamedMeans ==
    ASSUME ParseInv, pass = "parsed", NEW r \in 1..Len(rules), NEW w \in {"after=", "not_after="},
           NEW previous \in {EndOfInput, ErrorKind} \cup 0..(Len(rules) - 1)
    PROVE  LET l == RuleLines[r]
           IN  /\ previous \in Named(l, w) <=> Lists(l, w, previous)
               /\ Named(l, w) = {} <=> ~Gives(l, w)
               /\ Named(l, w) \subseteq {EndOfInput} \cup 0..(Len(rules) - 1)
<1> DEFINE l == RuleLines[r]
           s == NamesGiven(l, {w})
<1>1. ParseSaid /\ line = Len(file) + 1 /\ option = 0 /\ Dangling[2] = {}
  BY AcceptedMeans
<1>2. /\ file \in Files /\ l \in 1..Len(file) /\ file[l].is = "rule" /\ Mistakes(l) = {} /\ l \in ToSet(RuleLines)
      /\ Len(rules) \in Nat /\ Len(names) = Len(rules) /\ DOMAIN RuleLines = 1..Len(rules)
      /\ \A i \in 1..Len(rules) : names[i] = file[RuleLines[i]].name
  BY <1>1, AfterLines DEF ToSet
<1>3. /\ DOMAIN s = 1..Len(s) /\ Len(s) \in Nat
      /\ 1 \in DOMAIN s <=> Gives(l, w)
      /\ "" \notin ToSet(s)
  <2>1. w \in Listing
    BY DEF Listing
  <2> QED BY <1>2, <2>1, ListsGiven
<1>4. Named(l, w) = (IF "^" \in ToSet(s) THEN {EndOfInput} ELSE {}) \cup { k \in 0..(Len(rules) - 1) : names[k + 1] \in ToSet(s) \ {"^"} }
  <2>1. KindsOf(s) = Named(l, w)
    BY <1>1, KindsAreNamed
  <2> QED BY <1>2, <2>1 DEF KindsOf
<1>5. previous \in Named(l, w) <=> Lists(l, w, previous)
  <2> DEFINE t == ToSet(s)
  <2>1. EndOfInput = -5 /\ ErrorKind = -1 /\ EndOfInput \notin 0..(Len(rules) - 1) /\ ErrorKind \notin 0..(Len(rules) - 1)
    BY <1>2 DEF EndOfInput, ErrorKind
  <2>2. Lists(l, w, previous) <=> IF previous >= 0 THEN names[previous + 1] \in t \ {"^"} ELSE previous = EndOfInput /\ "^" \in t
    BY DEF Lists
  <2>3. Named(l, w) = (IF "^" \in t THEN {EndOfInput} ELSE {}) \cup { k \in 0..(Len(rules) - 1) : names[k + 1] \in t \ {"^"} }
    BY <1>4
  <2> HIDE DEF s, t
  <2>4. CASE previous = EndOfInput
    BY <2>1, <2>2, <2>3, <2>4
  <2>5. CASE previous = ErrorKind
    <3>1. previous # EndOfInput
      BY <2>1, <2>5
    <3> QED BY <2>1, <2>2, <2>3, <2>5, <3>1
  <2>6. CASE previous \in 0..(Len(rules) - 1)
    <3>1. previous # EndOfInput /\ previous # ErrorKind /\ previous >= 0
      BY <2>1, <2>6
    <3> QED BY <2>2, <2>3, <2>6, <3>1
  <2> QED BY <2>4, <2>5, <2>6
<1>6. \A x \in ToSet(s) : x = "^" \/ \E k \in 0..(Len(rules) - 1) : names[k + 1] = x
  <2> SUFFICES ASSUME NEW x \in ToSet(s), x # "^" PROVE \E k \in 0..(Len(rules) - 1) : names[k + 1] = x
    OBVIOUS
  <2> DEFINE n == Len(OptionsOf(l))
             both == NamesTo(l, n, Predicates)
  <2>1. NamesGiven(l, {"after=", "not_after="}) = both
    <3>1. Predicates = {"after=", "not_after="}
      BY DEF Predicates
    <3> QED BY <1>2, <3>1, GivenMeans
  <2>2. GivenTo(l, n, Predicates) # {}
    <3>1. Gives(l, w)
      <4>1. PICK i \in DOMAIN s : s[i] = x
        BY DEF ToSet
      <4> HIDE DEF s
      <4>2. 1 \in DOMAIN s
        <5>1. DOMAIN s = 1..Len(s) /\ Len(s) \in Nat
          BY <1>3
        <5> QED BY <4>1, <5>1
      <4> QED BY <1>3, <4>2
    <3>2. GivenTo(l, n, {w}) # {}
      BY <1>2, <3>1, GivenMeans
    <3> QED BY <3>2 DEF GivenTo, Predicates
  <2>3. s = both \/ s = <<>>
    BY <1>2, <2>2, PredicateGiven
  <2>4. \A i \in DOMAIN both : both[i] \in RuleNames \cup {"^"}
    BY <1>1, <1>2, <2>1 DEF Dangling
  <2>5. PICK i \in DOMAIN s : s[i] = x
    BY DEF ToSet
  <2>6. x \in RuleNames
    <3> HIDE DEF s, both
    <3>1. s # <<>>
      <4>1. DOMAIN <<>> = {}
        OBVIOUS
      <4> QED BY <2>5, <4>1
    <3> QED BY <2>3, <2>4, <2>5, <3>1
  <2>7. PICK q \in 1..Len(rules) : file[RuleLines[q]].name = x
    BY <1>2, <2>6 DEF RuleNames
  <2>8. q - 1 \in 0..(Len(rules) - 1) /\ names[(q - 1) + 1] = x
    <3>1. (q - 1) + 1 = q /\ q - 1 \in 0..(Len(rules) - 1)
      BY <1>2
    <3> QED BY <1>2, <2>7, <3>1
  <2> QED BY <2>8
<1>7. Named(l, w) = {} <=> ~Gives(l, w)
  <2> HIDE DEF s
  <2>1. ToSet(s) = {} <=> 1 \notin DOMAIN s
    <3>1. CASE 1 \in DOMAIN s
      BY <3>1 DEF ToSet
    <3>2. CASE 1 \notin DOMAIN s
      <4>1. DOMAIN s = {}
        <5>1. DOMAIN s = 1..Len(s) /\ Len(s) \in Nat
          BY <1>3
        <5> QED BY <3>2, <5>1
      <4> QED BY <3>2, <4>1 DEF ToSet
    <3> QED BY <3>1, <3>2
  <2> QED BY <1>3, <1>4, <1>6, <2>1
<1> QED BY <1>4, <1>5, <1>7

\* What a rule asks of the token before is what its line does.
LEMMA PredicateMeans ==
    ASSUME ParseInv, pass = "parsed", NEW r \in 1..Len(rules),
           NEW previous \in {EndOfInput, ErrorKind} \cup 0..(Len(rules) - 1)
    PROVE  LET l == RuleLines[r]
           IN  (IF rules[r].after # {} THEN previous \in rules[r].after ELSE previous \notin rules[r].notAfter)
               <=> /\ Gives(l, "after=") => Lists(l, "after=", previous)
                   /\ Gives(l, "not_after=") => ~Lists(l, "not_after=", previous)
<1> DEFINE l == RuleLines[r]
<1>1. ParseSaid /\ line = Len(file) + 1 /\ option = 0 /\ DOMAIN rules = 1..Len(rules)
      /\ rules[r].after = Named(l, "after=") /\ rules[r].notAfter = Named(l, "not_after=")
  BY AcceptedMeans
<1>2. file \in Files /\ l \in 1..Len(file) /\ file[l].is = "rule" /\ Mistakes(l) = {}
  BY <1>1, AfterLines
<1>3. \A w \in {"after=", "not_after="} :
         /\ previous \in Named(l, w) <=> Lists(l, w, previous)
         /\ Named(l, w) = {} <=> ~Gives(l, w)
  BY NamedMeans
<1>4. Gives(l, "after=") => ~Gives(l, "not_after=")
  <2>1. SortOf("after=") = SortOf("not_after=")
    BY DEF SortOf
  <2> QED BY <1>2, <2>1, OneOfSort
<1> HIDE DEF l
<1>5. /\ previous \in Named(l, "after=") <=> Lists(l, "after=", previous)
      /\ previous \in Named(l, "not_after=") <=> Lists(l, "not_after=", previous)
      /\ Named(l, "after=") = {} <=> ~Gives(l, "after=")
      /\ Named(l, "not_after=") = {} <=> ~Gives(l, "not_after=")
  BY <1>3
<1>6. (IF rules[r].after # {} THEN previous \in rules[r].after ELSE previous \notin rules[r].notAfter)
      <=> /\ Gives(l, "after=") => Lists(l, "after=", previous)
          /\ Gives(l, "not_after=") => ~Lists(l, "not_after=", previous)
  BY <1>1, <1>4, <1>5
<1> QED BY <1>6 DEF l

-----------------------------------------------------------------------------
(* The rules active after a kind *)

\* A set of integers bounded below has the least member Min chooses.
LEMMA MinOfIntegers ==
    ASSUME NEW low \in Int, NEW S \in SUBSET Int, S # {}, \A i \in S : low <= i
    PROVE  Min(S) \in S
<1> DEFINE R == { i - low : i \in S }
<1>1. R \in SUBSET Nat /\ R # {}
  <2>1. \A i \in S : i - low \in Nat
    OBVIOUS
  <2>2. PICK i \in S : TRUE
    OBVIOUS
  <2> QED BY <2>1, <2>2
<1> DEFINE r == Min(R)
<1>2. r \in R /\ \A y \in R : r <= y
  <2> HIDE DEF R
  <2> QED BY <1>1, MinOfNaturals
<1>3. PICK i \in S : r = i - low
  BY <1>2
<1>4. \A j \in S : i <= j
  <2> TAKE j \in S
  <2>1. j - low \in R /\ i \in Int /\ j \in Int
    OBVIOUS
  <2>2. i - low <= j - low
    <3> HIDE DEF R, r
    <3> QED BY <1>2, <1>3, <2>1
  <2> QED BY <2>1, <2>2
<1> QED BY <1>4 DEF Min

\* The kinds the predicates of a mode name.
KindsNamed(m) == UNION { rules[i].after \cup rules[i].notAfter : i \in Rules(m) }

LEMMA KindsListed ==
    ASSUME ParseInv, pass = "parsed", NEW m
    PROVE  /\ NamedKinds(m) \in Seq(Int) /\ Len(NamedKinds(m)) \in Nat /\ DOMAIN NamedKinds(m) = 1..Len(NamedKinds(m))
           /\ \A k : (\E v \in 1..Len(NamedKinds(m)) : NamedKinds(m)[v] = k) <=> k \in KindsNamed(m)
           /\ Unnamed(m) \notin KindsNamed(m)
           /\ ErrorKind \notin KindsNamed(m)
<1> DEFINE s == NamedKinds(m)
           U == KindsNamed(m)
           n == Len(rules)
<1>1. ParseSaid /\ line = Len(file) + 1 /\ option = 0 /\ DOMAIN rules = 1..n
      /\ \A r \in DOMAIN rules : rules[r].after = Named(RuleLines[r], "after=") /\ rules[r].notAfter = Named(RuleLines[r], "not_after=")
  BY AcceptedMeans
<1>2. n \in Nat
  BY <1>1, AfterLines
<1>3. \A r \in 1..n : rules[r].after \subseteq {EndOfInput} \cup 0..(n - 1) /\ rules[r].notAfter \subseteq {EndOfInput} \cup 0..(n - 1)
  <2> TAKE r \in 1..n
  <2>1. EndOfInput \in {EndOfInput, ErrorKind} \cup 0..(Len(rules) - 1)
    OBVIOUS
  <2>2. \A w \in {"after=", "not_after="} : Named(RuleLines[r], w) \subseteq {EndOfInput} \cup 0..(Len(rules) - 1)
    BY <2>1, NamedMeans
  <2> QED BY <1>1, <2>2
<1>4. \A i \in Rules(m) : i \in 1..n
  BY <1>1 DEF Rules, Active
<1>5. U \subseteq {EndOfInput} \cup 0..(n - 1)
  BY <1>3, <1>4 DEF KindsNamed
<1> HIDE DEF n
<1>6. EndOfInput = -5 /\ ErrorKind = -1 /\ EndOfInput \in Int /\ n - 1 \in Int /\ n - 1 >= EndOfInput - 1
  BY <1>2 DEF EndOfInput, ErrorKind
<1>7. ErrorKind \notin U
  BY <1>2, <1>5, <1>6
<1>8. s = Ascending(U, EndOfInput, n - 1)
  BY DEF NamedKinds, KindsNamed, n
<1> HIDE DEF s, U
<1>9. /\ s \in Seq(EndOfInput..(n - 1)) /\ Len(s) \in Nat
      /\ \A i \in 1..Len(s) : s[i] \in U
      /\ \A k \in EndOfInput..(n - 1) : k \in U => \E i \in 1..Len(s) : s[i] = k
  <2> DEFINE h   == n - 1
             low == EndOfInput
  <2>1. low \in Int /\ h \in Int /\ h >= low - 1 /\ s = Ascending(U, low, h)
    BY <1>6, <1>8
  <2> HIDE DEF h, low
  <2>2. /\ s \in Seq(low..h) /\ Len(s) \in Nat
        /\ \A i \in 1..Len(s) : s[i] \in U /\ s[i] \in low..h
        /\ \A k \in low..h : k \in U => \E i \in 1..Len(s) : s[i] = k
    BY <2>1, AscendingMembers
  <2> QED BY <2>2 DEF h, low
<1>10. s \in Seq(Int) /\ DOMAIN s = 1..Len(s)
  <2>1. EndOfInput..(n - 1) \subseteq Int
    BY <1>6
  <2> DEFINE T == EndOfInput..(n - 1)
  <2>2. s \in Seq(T) /\ T \subseteq Int
    BY <1>9, <2>1
  <2> HIDE DEF T
  <2>3. DOMAIN s = 1..Len(s) /\ Len(s) \in Nat /\ \A i \in 1..Len(s) : s[i] \in Int
    <3>1. DOMAIN s = 1..Len(s) /\ Len(s) \in Nat /\ \A i \in 1..Len(s) : s[i] \in T
      BY <2>2
    <3>2. \A i \in T : i \in Int
      BY <2>2
    <3> QED BY <3>1, <3>2
  <2>4. s = [i \in 1..Len(s) |-> s[i]]
    BY <2>2
  <2> QED BY <2>3, <2>4
<1>11. \A k \in U : k \in EndOfInput..(n - 1)
  BY <1>2, <1>5, <1>6
<1>12. \A k : (\E v \in 1..Len(s) : s[v] = k) <=> k \in U
  BY <1>9, <1>11
<1>13. Unnamed(m) \notin U
  <2> DEFINE G == { k \in EndOfInput..n : k \notin ToSet(s) }
  <2>1. Unnamed(m) = Min(G)
    BY DEF Unnamed, s, n
  <2>2. ToSet(s) = U
    BY <1>10, <1>12 DEF ToSet
  <2>3. n \in G
    <3>1. n \in EndOfInput..n /\ n \notin EndOfInput..(n - 1)
      BY <1>2, <1>6
    <3> QED BY <1>11, <2>2, <3>1
  <2>4. G \in SUBSET Int /\ \A k \in G : EndOfInput <= k
    BY <1>2, <1>6
  <2>5. \A k \in G : k \notin U
    BY <2>2
  <2> HIDE DEF G
  <2>6. Min(G) \in G
    <3>1. G # {}
      BY <2>3
    <3> QED BY <1>6, <2>4, <3>1, MinOfIntegers
  <2> QED BY <2>1, <2>5, <2>6
<1> QED BY <1>7, <1>9, <1>10, <1>12, <1>13 DEF s, U

\* Kinds no predicate names allow the same.
LEMMA SameUnnamed ==
    ASSUME ParseInv, pass = "parsed", NEW m, NEW previous, previous \notin KindsNamed(m), NEW start \in BOOLEAN
    PROVE  RulesAfter(m, previous, start) = RulesAfter(m, Unnamed(m), start)
<1>1. \A i \in Rules(m) : /\ previous \notin rules[i].after /\ previous \notin rules[i].notAfter
                          /\ Unnamed(m) \notin rules[i].after /\ Unnamed(m) \notin rules[i].notAfter
  BY KindsListed DEF KindsNamed
<1> QED BY <1>1 DEF RulesAfter

\* Where no rule asks for its place on the line, the place does not matter.
LEMMA SameOnLine ==
    ASSUME NEW m, ~ByLine(m), NEW previous
    PROVE  RulesAfter(m, previous, TRUE) = RulesAfter(m, previous, FALSE)
<1>1. \A i \in Rules(m) : rules[i].lineStart = "any"
  BY DEF ByLine
<1> QED BY <1>1 DEF RulesAfter

\* What the lines allow in a mode after a kind, at the start of a line or past it.
Allowed(m, previous, start) ==
    { r \in DOMAIN rules :
        LET l == RuleLines[r]
        IN  /\ modes[m] \in ModesSaid(l)
            /\ Gives(l, "line_start") => start
            /\ Gives(l, "not_line_start") => ~start
            /\ Gives(l, "after=") => Lists(l, "after=", previous)
            /\ Gives(l, "not_after=") => ~Lists(l, "not_after=", previous) }

\* What is active after a kind is what the lines allow.
LEMMA AllowedMeans ==
    ASSUME ParseInv, pass = "parsed", NEW m,
           NEW previous \in {EndOfInput, ErrorKind} \cup 0..(Len(rules) - 1), NEW start \in BOOLEAN
    PROVE  RulesAfter(m, previous, start) = Allowed(m, previous, start)
<1> DEFINE In(r) == modes[m] \in ModesSaid(RuleLines[r])
           On(r) == /\ Gives(RuleLines[r], "line_start") => start
                    /\ Gives(RuleLines[r], "not_line_start") => ~start
           Past(r) == /\ Gives(RuleLines[r], "after=") => Lists(RuleLines[r], "after=", previous)
                      /\ Gives(RuleLines[r], "not_after=") => ~Lists(RuleLines[r], "not_after=", previous)
<1>1. ParseSaid /\ line = Len(file) + 1 /\ option = 0 /\ DOMAIN rules = 1..Len(rules)
  BY AcceptedMeans
<1>2. \A r \in DOMAIN rules : r \in Rules(m) <=> In(r)
  <2> SUFFICES ASSUME NEW r \in 1..Len(rules) PROVE r \in Rules(m) <=> In(r)
    BY <1>1
  <2> DEFINE l == RuleLines[r]
             s == NamesGiven(l, {"in="})
  <2>1. rules[r].modes = s
    BY <1>1, RuleMeans
  <2>2. s = <<>> <=> ~Gives(l, "in=")
    <3>1. file \in Files /\ l \in 1..Len(file) /\ file[l].is = "rule" /\ Mistakes(l) = {} /\ "in=" \in Listing
      BY <1>1, AfterLines DEF Listing
    <3> QED BY <3>1, ListsGiven
  <2>3. r \in Rules(m) <=> modes[m] \in (IF rules[r].modes = <<>> THEN {Default} ELSE ToSet(rules[r].modes))
    BY <1>1 DEF Rules, Active
  <2>4. CASE Gives(l, "in=")
    <3> HIDE DEF s
    <3>1. rules[r].modes # <<>> /\ rules[r].modes = s
      BY <2>1, <2>2, <2>4
    <3>2. r \in Rules(m) <=> modes[m] \in ToSet(s)
      BY <2>3, <3>1
    <3> QED BY <2>4, <3>2 DEF s, ModesSaid
  <2>5. CASE ~Gives(l, "in=")
    <3> HIDE DEF s
    <3>1. rules[r].modes = <<>>
      BY <2>1, <2>2, <2>5
    <3>2. r \in Rules(m) <=> modes[m] \in {Default}
      BY <2>3, <3>1
    <3> QED BY <2>5, <3>2 DEF ModesSaid
  <2> QED BY <2>4, <2>5
<1>3. \A r \in DOMAIN rules : rules[r].lineStart \in {"any", IF start THEN "start" ELSE "inside"} <=> On(r)
  BY <1>1, PlaceMeans
<1>4. \A r \in DOMAIN rules :
         (IF rules[r].after # {} THEN previous \in rules[r].after ELSE previous \notin rules[r].notAfter) <=> Past(r)
  BY <1>1, PredicateMeans
<1>5. Rules(m) \subseteq DOMAIN rules
  BY DEF Rules, Active
<1> HIDE DEF In, On, Past
<1>6. RulesAfter(m, previous, start) = { r \in DOMAIN rules : In(r) /\ On(r) /\ Past(r) }
  BY <1>2, <1>3, <1>4, <1>5 DEF RulesAfter
<1> QED BY <1>6 DEF Allowed, In, On, Past

-----------------------------------------------------------------------------
(* The tables *)

\* A unit of a mode with those rules, filed.
Holds(m, u, wanted) ==
    /\ u \in {m} \cup (Len(modes) + 1)..Len(unitRules)
    /\ unitRules[u] = wanted /\ dispatch[u] = Bucketed(wanted)

\* A table of a mode, filled for its first n kinds.
TableTo(m, table, start, n) ==
    /\ Holds(m, table.own, RulesAfter(m, Unnamed(m), start))
    /\ IsSequence(table.variants) /\ Len(table.variants) = n
    /\ \A v \in 1..n : /\ table.variants[v][1] = NamedKinds(m)[v]
                       /\ Holds(m, table.variants[v][2], RulesAfter(m, NamedKinds(m)[v], start))

IsTable(table) == DOMAIN table = {"own", "variants", "byLine", "single"}

\* The entries of a mode's tables before e.
Filled(m, e) ==
    LET K == Len(NamedKinds(m))
    IN  /\ e \in 2..(2 * K + 3)
        /\ ~ByLine(m) => e <= K + 2
        /\ IsSequence(unitsOf[m])
        /\ \A u \in ToSet(unitsOf[m]) : Holds(m, u, unitRules[u])
        /\ IsTable(inside[m]) /\ inside[m].own = m /\ inside[m].byLine = ByLine(m)
        /\ inside[m].single = (NamedKinds(m) = <<>> /\ ~ByLine(m))
        /\ TableTo(m, inside[m], FALSE, IF e <= K + 2 THEN e - 2 ELSE K)
        /\ IsTable(atStart[m])
        /\ IF e <= K + 2 THEN atStart[m].variants = <<>> ELSE TableTo(m, atStart[m], TRUE, e - K - 3)

LastEntry(m) == LET K == Len(NamedKinds(m)) IN IF ByLine(m) THEN 2 * K + 3 ELSE K + 2

\* A mode whose tables are not begun.
Unfilled(m) == dispatch[m] = Bucketed(Active(modes[m])) /\ IsTable(atStart[m]) /\ atStart[m].variants = <<>>

TablesSized ==
    /\ IsSequence(modes)
    /\ IsSequence(unitRules) /\ IsSequence(dispatch)
    /\ Len(dispatch) = Len(unitRules) /\ Len(modes) <= Len(unitRules)
    /\ DOMAIN unitsOf = DOMAIN modes /\ DOMAIN inside = DOMAIN modes /\ DOMAIN atStart = DOMAIN modes
    /\ mode \in 1..(Len(modes) + 1) /\ entry \in Nat /\ entry >= 1

TablesSaid ==
    /\ stage = "none" => mode = 1 /\ entry = 1
    /\ stage \in {"significance", "predicates"} =>
          mode = 1 /\ entry = 1 /\ IsSequence(modes) /\ dispatch = [m \in DOMAIN modes |-> Bucketed(Active(modes[m]))]
    /\ stage \in {"predicates", "units", "built"} =>
          significant = IF insignificant = <<>> THEN <<>> ELSE [m \in DOMAIN modes |-> modes[m] \notin ToSet(insignificant)]
    /\ stage \in {"units", "built"} =>
          /\ TablesSized
          /\ \A m \in 1..(mode - 1) : Filled(m, LastEntry(m))
          /\ mode <= Len(modes) /\ entry > 1 => Filled(mode, entry)
          /\ mode > Len(modes) => entry = 1
          /\ \A m \in mode..Len(modes) : m > mode \/ entry = 1 => Unfilled(m)
    /\ stage = "built" =>
          /\ mode > Len(modes)
          /\ layoutRoles = [entries |-> KindsWith("entry"), values |-> KindsWith("value")]
          /\ indentModes = [m \in DOMAIN modes |-> m \in DOMAIN significant => significant[m]]

\* What is filled stays so, as long as its units do.
LEMMA FilledKept ==
    ASSUME NEW m, NEW e, Filled(m, e), UNCHANGED <<rules, modes>>,
           Len(unitRules) \in Nat, Len(unitRules') \in Nat, Len(unitRules) <= Len(unitRules'), Len(modes) \in Nat,
           \A u \in {m} \cup (Len(modes) + 1)..Len(unitRules) : unitRules'[u] = unitRules[u] /\ dispatch'[u] = dispatch[u],
           unitsOf'[m] = unitsOf[m], inside'[m] = inside[m], atStart'[m] = atStart[m]
    PROVE  Filled(m, e)'
<1>1. rules' = rules /\ modes' = modes
  OBVIOUS
<1>2. /\ NamedKinds(m)' = NamedKinds(m) /\ ByLine(m)' = ByLine(m) /\ Unnamed(m)' = Unnamed(m)
      /\ \A k, start : RulesAfter(m, k, start)' = RulesAfter(m, k, start)
  <2>1. Rules(m)' = Rules(m)
    BY <1>1 DEF Rules, Active
  <2>2. NamedKinds(m)' = NamedKinds(m)
    BY <1>1, <2>1 DEF NamedKinds
  <2> QED BY <1>1, <2>1, <2>2 DEF ByLine, Unnamed, RulesAfter
<1>3. \A u, wanted : Holds(m, u, wanted) => Holds(m, u, wanted)'
  <2> TAKE u, wanted
  <2> SUFFICES ASSUME Holds(m, u, wanted) PROVE Holds(m, u, wanted)'
    OBVIOUS
  <2>1. u \in {m} \cup (Len(modes) + 1)..Len(unitRules) /\ unitRules[u] = wanted /\ dispatch[u] = Bucketed(wanted)
    BY DEF Holds
  <2>2. u \in {m} \cup (Len(modes) + 1)..Len(unitRules')
    BY <2>1
  <2>3. unitRules'[u] = wanted /\ dispatch'[u] = Bucketed(wanted)
    BY <2>1
  <2> QED BY <1>1, <2>2, <2>3 DEF Holds, Bucketed
<1>4. ASSUME NEW table, NEW start, NEW n, TableTo(m, table, start, n) PROVE TableTo(m, table, start, n)'
  <2>1. Holds(m, table.own, RulesAfter(m, Unnamed(m), start))'
    BY <1>2, <1>3, <1>4 DEF TableTo
  <2> QED BY <1>2, <1>3, <1>4, <2>1 DEF TableTo
<1> DEFINE K == Len(NamedKinds(m))
           n == IF e <= K + 2 THEN e - 2 ELSE K
<1>5. Len(NamedKinds(m))' = K
  BY <1>2
<1>6. /\ e \in 2..(2 * K + 3) /\ (~ByLine(m) => e <= K + 2)
      /\ IsSequence(unitsOf[m]) /\ \A u \in ToSet(unitsOf[m]) : Holds(m, u, unitRules[u])
      /\ IsTable(inside[m]) /\ inside[m].own = m /\ inside[m].byLine = ByLine(m)
      /\ inside[m].single = (NamedKinds(m) = <<>> /\ ~ByLine(m))
      /\ TableTo(m, inside[m], FALSE, n) /\ IsTable(atStart[m])
      /\ IF e <= K + 2 THEN atStart[m].variants = <<>> ELSE TableTo(m, atStart[m], TRUE, e - K - 3)
  BY DEF Filled
<1>7. /\ e \in 2..(2 * K + 3) /\ (~ByLine(m)' => e <= K + 2)
      /\ IsSequence(unitsOf'[m])
      /\ IsTable(inside'[m]) /\ inside'[m].own = m /\ inside'[m].byLine = ByLine(m)'
      /\ inside'[m].single = (NamedKinds(m)' = <<>> /\ ~ByLine(m)') /\ IsTable(atStart'[m])
  <2> HIDE DEF K
  <2> QED BY <1>2, <1>6
<1>8. \A u \in ToSet(unitsOf'[m]) : Holds(m, u, unitRules[u])' /\ unitRules'[u] = unitRules[u]
  <2>1. \A u \in ToSet(unitsOf[m]) : Holds(m, u, unitRules[u])
    BY <1>6
  <2>2. \A u \in ToSet(unitsOf[m]) : u \in {m} \cup (Len(modes) + 1)..Len(unitRules)
    BY <2>1 DEF Holds
  <2>3. \A u \in ToSet(unitsOf[m]) : unitRules'[u] = unitRules[u]
    BY <2>2
  <2> QED BY <1>3, <2>1, <2>3
<1>9. TableTo(m, inside[m], FALSE, n)'
  <2>1. PICK t : t = inside[m]
    OBVIOUS
  <2>2. PICK q : q = n
    OBVIOUS
  <2>3. TableTo(m, t, FALSE, q)'
    BY <1>4, <1>6, <2>1, <2>2
  <2>4. inside'[m] = t /\ n' = q
    BY <1>5, <2>1, <2>2
  <2> HIDE DEF n
  <2> QED BY <2>3, <2>4 DEF TableTo
<1>10. ~(e <= K + 2) => TableTo(m, atStart[m], TRUE, e - K - 3)'
  <2> SUFFICES ASSUME ~(e <= K + 2) PROVE TableTo(m, atStart[m], TRUE, e - K - 3)'
    OBVIOUS
  <2>1. PICK t : t = atStart[m]
    OBVIOUS
  <2>2. PICK q : q = e - K - 3
    OBVIOUS
  <2>3. TableTo(m, t, TRUE, q)'
    BY <1>4, <1>6, <2>1, <2>2
  <2>4. atStart'[m] = t /\ (e - K - 3)' = q
    BY <1>5, <2>1, <2>2
  <2> QED BY <2>3, <2>4 DEF TableTo
<1> QED BY <1>5, <1>6, <1>7, <1>8, <1>9, <1>10 DEF Filled

\* The modes of an accepted grammar, in order.
LEMMA InternedSequence ==
    ASSUME ParseInv, pass = "parsed"
    PROVE  IsSequence(Interned)
<1> DEFINE seqs == [i \in DOMAIN rules |-> ModesNamed(rules[i])]
           f == FlattenSeq(seqs)
           listed == <<Default>> \o f
           S == { n \in DOMAIN listed : \A k \in 1..(n - 1) : listed[k] # listed[n] }
           firsts == Ascending(S, 1, Len(listed))
<1>1. ParseSaid /\ line = Len(file) + 1 /\ option = 0 /\ DOMAIN rules = 1..Len(rules)
  BY AcceptedMeans
<1>2. Len(rules) \in Nat
  BY <1>1, AfterLines
<1>3. seqs \in Seq(Seq(STRING))
  <2> DEFINE T == Seq(STRING)
             n == Len(rules)
  <2>1. \A i \in 1..n : ModesNamed(rules[i]) \in T
    BY <1>1, ModesTyped
  <2>2. seqs = [i \in 1..n |-> ModesNamed(rules[i])]
    BY <1>1
  <2> HIDE DEF T, n, seqs
  <2>3. seqs \in [1..n -> T] /\ n \in Nat
    BY <1>2, <2>1, <2>2 DEF n
  <2>4. seqs \in Seq(T)
    BY <2>3
  <2> QED BY <2>4 DEF T
<1>4. f \in Seq(STRING)
  <2> HIDE DEF seqs
  <2> QED BY <1>3, FlattenMembers
<1>5. Len(listed) \in Nat
  <2> DEFINE d == <<Default>>
  <2>1. IsSequence(d)
    <3>1. d \in Seq({Default})
      OBVIOUS
    <3> HIDE DEF d
    <3> QED BY <3>1, TypedSequence
  <2>2. IsSequence(f)
    <3> HIDE DEF f
    <3> QED BY <1>4, TypedSequence
  <2>3. listed = d \o f
    OBVIOUS
  <2> HIDE DEF d, f, listed
  <2>4. IsSequence(listed)
    BY ONLY <2>1, <2>2, <2>3, SequenceJoined
  <2> QED BY <2>4, SequenceTyped
<1> DEFINE N == Len(listed)
<1>6. firsts \in Seq(1..N)
  <2>1. 1 \in Int /\ N \in Int /\ N >= 1 - 1
    BY <1>5
  <2> HIDE DEF S, N
  <2>2. Ascending(S, 1, N) \in Seq(1..N)
    BY <2>1, AscendingMembers
  <2> QED BY <2>2 DEF N
<1>7. Interned = [i \in DOMAIN firsts |-> listed[firsts[i]]]
  BY DEF Interned
<1> HIDE DEF firsts, listed, N
<1>8. DOMAIN firsts = 1..Len(firsts) /\ Len(firsts) \in Nat
  BY <1>6
<1> DEFINE n == Len(firsts)
           T == { listed[firsts[i]] : i \in 1..n }
<1>9. \A i \in 1..n : listed[firsts[i]] \in T
  OBVIOUS
<1>10. Interned = [i \in 1..n |-> listed[firsts[i]]] /\ n \in Nat
  BY <1>7, <1>8
<1> HIDE DEF T, n
<1>11. Interned \in [1..n -> T]
  BY <1>9, <1>10
<1>12. Interned \in Seq(T) /\ n \in Nat
  BY <1>10, <1>11
<1> HIDE DEF Interned
<1> QED BY <1>12, TypedSequence

\* A sequence over the modes.
LEMMA ByMode ==
    ASSUME NEW s, IsSequence(s), NEW f, DOMAIN f = DOMAIN s, f = [m \in DOMAIN s |-> f[m]]
    PROVE  IsSequence(f) /\ Len(f) = Len(s)
<1> DEFINE n == Len(s)
           T == { f[m] : m \in DOMAIN s }
<1>1. DOMAIN s = 1..n /\ n \in Nat
  BY SequenceTyped
<1>2. \A m \in 1..n : f[m] \in T
  BY <1>1
<1>3. f = [m \in 1..n |-> f[m]]
  BY <1>1
<1> HIDE DEF T, n
<1>4. f \in [1..n -> T]
  BY <1>2, <1>3
<1>5. f \in Seq(T) /\ Len(f) = n
  BY <1>1, <1>4
<1> QED BY <1>5, TypedSequence DEF n

\* The dispatch of the modes, and the significance, before the units.
LEMMA DispatchKeeps ==
    ASSUME ParseInv, BuildInv, TablesSaid, BuildDispatch
    PROVE  TablesSaid'
<1>1. pass = "parsed" /\ stage = "none" /\ modes' = Interned /\ dispatch' = [m \in DOMAIN Interned |-> Bucketed(Active(Interned[m]))]
      /\ stage' \in {"invalid", "significance"} /\ mode' = mode /\ entry' = entry /\ rules' = rules
  BY DEF BuildDispatch, ThrowsIf, parseVars
<1>2. IsSequence(Interned)
  BY <1>1, InternedSequence
<1>3. IsSequence(modes)'
  BY <1>1, <1>2 DEF IsSequence
<1>4. dispatch' = [m \in DOMAIN modes |-> Bucketed(Active(modes[m]))]'
  <2>1. \A m \in DOMAIN Interned : Bucketed(Active(modes[m]))' = Bucketed(Active(Interned[m]))
    BY <1>1 DEF Active, Bucketed
  <2> QED BY <1>1, <2>1
<1> QED BY <1>1, <1>3, <1>4 DEF TablesSaid

LEMMA SignificanceKeeps ==
    ASSUME ParseInv, BuildInv, TablesSaid, BuildSignificance
    PROVE  TablesSaid'
<1>1. /\ stage = "significance" /\ stage' \in {"predicates", "invalid"}
      /\ modes' = modes /\ dispatch' = dispatch /\ mode' = mode /\ entry' = entry /\ rules' = rules
      /\ insignificant' = insignificant
      /\ significant' = IF insignificant = <<>> THEN <<>>
                        ELSE [m \in DOMAIN modes |-> modes[m] \notin ToSet(insignificant)]
  BY DEF BuildSignificance, ThrowsIf, parseVars
<1>2. mode = 1 /\ entry = 1 /\ IsSequence(modes) /\ dispatch = [m \in DOMAIN modes |-> Bucketed(Active(modes[m]))]
  BY <1>1 DEF TablesSaid
<1>3. IsSequence(modes)' /\ dispatch' = [m \in DOMAIN modes |-> Bucketed(Active(modes[m]))]'
  <2>1. \A m : Bucketed(Active(modes[m]))' = Bucketed(Active(modes[m]))
    BY <1>1 DEF Active, Bucketed
  <2> QED BY <1>1, <1>2, <2>1 DEF IsSequence
<1> QED BY <1>1, <1>2, <1>3 DEF TablesSaid

\* The tables begun: no mode is filled.
LEMMA BeginUnitsKeeps ==
    ASSUME ParseInv, BuildInv, TablesSaid, BeginUnits
    PROVE  TablesSaid'
<1>1. /\ stage = "predicates" /\ stage' \in {"units", "invalid"}
      /\ modes' = modes /\ dispatch' = dispatch /\ mode' = mode /\ entry' = entry /\ rules' = rules
      /\ insignificant' = insignificant
      /\ unitRules' = [m \in DOMAIN modes |-> {}]
      /\ unitsOf' = [m \in DOMAIN modes |-> <<>>]
      /\ inside' = [m \in DOMAIN modes |-> NoTable]
      /\ atStart' = [m \in DOMAIN modes |-> NoTable]
      /\ significant' = significant
  BY DEF BeginUnits, ThrowsIf, parseVars
<1>2. mode = 1 /\ entry = 1 /\ IsSequence(modes) /\ dispatch = [m \in DOMAIN modes |-> Bucketed(Active(modes[m]))]
  BY <1>1 DEF TablesSaid
<1>3. DOMAIN modes = 1..Len(modes) /\ Len(modes) \in Nat
  BY <1>2, SequenceTyped
<1>4. IsSequence(unitRules') /\ Len(unitRules') = Len(modes)
  <2>1. DOMAIN unitRules' = DOMAIN modes /\ unitRules' = [m \in DOMAIN modes |-> unitRules'[m]]
    BY <1>1
  <2> QED BY <1>2, <2>1, ByMode
<1>5. IsSequence(dispatch') /\ Len(dispatch') = Len(modes)
  <2>1. DOMAIN dispatch' = DOMAIN modes /\ dispatch' = [m \in DOMAIN modes |-> dispatch'[m]]
    BY <1>1, <1>2
  <2> QED BY <1>2, <2>1, ByMode
<1>6. TablesSized'
  <2>1. IsSequence(modes)' /\ IsSequence(unitRules)' /\ IsSequence(dispatch)'
    BY <1>1, <1>2, <1>4, <1>5 DEF IsSequence
  <2>2. Len(dispatch') = Len(unitRules') /\ Len(modes') <= Len(unitRules')
    BY <1>1, <1>3, <1>4, <1>5
  <2>3. DOMAIN unitsOf' = DOMAIN modes' /\ DOMAIN inside' = DOMAIN modes' /\ DOMAIN atStart' = DOMAIN modes'
    BY <1>1
  <2>4. mode' \in 1..(Len(modes') + 1) /\ entry' \in Nat /\ entry' >= 1
    BY <1>1, <1>2, <1>3
  <2> QED BY <2>1, <2>2, <2>3, <2>4 DEF TablesSized
<1>7. ASSUME NEW m \in 1..Len(modes) PROVE Unfilled(m)'
  <2>1. dispatch'[m] = Bucketed(Active(modes[m])) /\ Bucketed(Active(modes[m]))' = Bucketed(Active(modes[m]))
    BY <1>1, <1>2, <1>3 DEF Active, Bucketed
  <2>2. atStart'[m] = NoTable
    BY <1>1, <1>3
  <2>3. IsTable(NoTable) /\ NoTable.variants = <<>>
    BY DEF IsTable, NoTable
  <2> QED BY <2>1, <2>2, <2>3 DEF Unfilled, IsTable
<1>8. mode' = 1 /\ entry' = 1 /\ Len(modes') = Len(modes) /\ 1..(mode' - 1) = {} /\ Len(modes) \in Nat
  BY <1>1, <1>2, <1>3
<1>9. \A m \in mode'..Len(modes') : Unfilled(m)'
  BY <1>7, <1>8
<1>10. significant' = IF insignificant' = <<>> THEN <<>> ELSE [m \in DOMAIN modes' |-> modes'[m] \notin ToSet(insignificant')]
  BY <1>1 DEF TablesSaid
<1>11. stage' \notin {"none", "significance", "predicates", "built"}
  BY <1>1
<1> QED BY <1>6, <1>8, <1>9, <1>10, <1>11 DEF TablesSaid

\* A filled mode's unit for some rules is one of its own, that holds them; the units before stay.
LEMMA FiledAdds ==
    ASSUME TablesSized, mode \in 1..Len(modes), NEW e, Filled(mode, e), NEW wanted, Filed(wanted)
    PROVE  /\ IsSequence(unitRules') /\ IsSequence(dispatch') /\ Len(dispatch') = Len(unitRules')
           /\ Len(unitRules) \in Nat /\ Len(unitRules') \in Nat /\ Len(unitRules) <= Len(unitRules') /\ Len(modes) \in Nat
           /\ \A u \in 1..Len(unitRules) : unitRules'[u] = unitRules[u] /\ dispatch'[u] = dispatch[u]
           /\ UnitFor(wanted) \in {mode} \cup (Len(modes) + 1)..Len(unitRules')
           /\ unitRules'[UnitFor(wanted)] = wanted /\ dispatch'[UnitFor(wanted)] = Bucketed(wanted)
           /\ DOMAIN unitsOf' = DOMAIN unitsOf /\ \A m \in DOMAIN unitsOf : m # mode => unitsOf'[m] = unitsOf[m]
           /\ IsSequence(unitsOf'[mode])
           /\ \A u \in ToSet(unitsOf'[mode]) :
                 u \in {mode} \cup (Len(modes) + 1)..Len(unitRules') /\ dispatch'[u] = Bucketed(unitRules'[u])
<1> DEFINE units == unitsOf[mode]
           L == Len(unitRules)
           M == Len(modes)
           own == {mode} \cup (M + 1)..L
<1>1. /\ IsSequence(unitRules) /\ IsSequence(dispatch) /\ Len(dispatch) = L /\ M <= L /\ IsSequence(modes)
      /\ DOMAIN unitsOf = DOMAIN modes
  BY DEF TablesSized
<1>2. L \in Nat /\ M \in Nat /\ DOMAIN modes = 1..M
  BY <1>1, SequenceTyped
<1>3. IsSequence(units) /\ \A u \in ToSet(units) : Holds(mode, u, unitRules[u])
  BY DEF Filled
<1>4. \A u \in ToSet(units) : u \in own /\ dispatch[u] = Bucketed(unitRules[u])
  BY <1>3 DEF Holds
<1>5. mode \in 1..M /\ mode \in DOMAIN unitsOf
  BY <1>1, <1>2
<1>6. own \subseteq 1..L /\ own \subseteq Int
  BY <1>1, <1>2, <1>5
<1>7. CASE Same(wanted) # {}
  <2>1. unitRules' = unitRules /\ dispatch' = dispatch /\ unitsOf' = unitsOf
    BY <1>7 DEF Filed
  <2>2. UnitFor(wanted) \in Same(wanted)
    <3>1. Same(wanted) \subseteq own
      BY <1>4 DEF Same
    <3>2. Same(wanted) \in SUBSET Int /\ \A i \in Same(wanted) : 1 <= i
      BY <1>2, <1>6, <3>1
    <3>3. Min(Same(wanted)) \in Same(wanted)
      <4> DEFINE S == Same(wanted)
                 low == 1
      <4>1. low \in Int /\ S \in SUBSET Int /\ S # {} /\ \A i \in S : low <= i
        BY <1>7, <3>2
      <4> HIDE DEF S, low
      <4>2. Min(S) \in S
        BY ONLY <4>1, MinOfIntegers
      <4> QED BY <4>2 DEF S
    <3> QED BY <1>7, <3>3 DEF UnitFor
  <2>3. UnitFor(wanted) \in ToSet(units) /\ unitRules[UnitFor(wanted)] = wanted
    BY <2>2 DEF Same
  <2>4. UnitFor(wanted) \in own /\ dispatch[UnitFor(wanted)] = Bucketed(wanted)
    BY <1>4, <2>3
  <2> HIDE DEF own
  <2>5. UnitFor(wanted) \in {mode} \cup (Len(modes) + 1)..Len(unitRules')
    BY <2>1, <2>4 DEF own
  <2>6. \A u \in ToSet(unitsOf'[mode]) :
           u \in {mode} \cup (Len(modes) + 1)..Len(unitRules') /\ dispatch'[u] = Bucketed(unitRules'[u])
    BY <1>4, <2>1 DEF own
  <2>7. IsSequence(unitRules') /\ IsSequence(dispatch') /\ IsSequence(unitsOf'[mode])
    BY <1>1, <1>3, <2>1
  <2>8. Len(dispatch') = Len(unitRules') /\ Len(unitRules) \in Nat /\ Len(unitRules') \in Nat /\ Len(unitRules) <= Len(unitRules') /\ Len(modes) \in Nat
    BY <1>1, <1>2, <2>1
  <2> QED BY <2>1, <2>3, <2>4, <2>5, <2>6, <2>7, <2>8
<1>8. CASE Same(wanted) = {}
  <2>1. /\ unitRules' = Append(unitRules, wanted) /\ dispatch' = Append(dispatch, Bucketed(wanted))
        /\ unitsOf' = [unitsOf EXCEPT ![mode] = Append(units, L + 1)]
    BY <1>8 DEF Filed
  <2>2. UnitFor(wanted) = L + 1
    BY <1>8 DEF UnitFor
  <2> HIDE DEF L, M, own, units
  <2>3. /\ IsSequence(unitRules') /\ Len(unitRules') = L + 1 /\ unitRules'[L + 1] = wanted
        /\ \A i \in 1..L : unitRules'[i] = unitRules[i]
    BY <1>1, <2>1, SequenceAppended DEF L
  <2>4. /\ IsSequence(dispatch') /\ Len(dispatch') = L + 1 /\ dispatch'[L + 1] = Bucketed(wanted)
        /\ \A i \in 1..L : dispatch'[i] = dispatch[i]
    BY <1>1, <2>1, SequenceAppended
  <2>5. unitsOf'[mode] = Append(units, L + 1)
    BY <1>5, <2>1
  <2>6. IsSequence(unitsOf'[mode])
    BY <1>3, <2>5, SequenceAppended
  <2>7. \A u \in ToSet(unitsOf'[mode]) : u \in ToSet(units) \/ u = L + 1
    <3> DEFINE q == unitsOf'[mode]
               n == Len(units)
    <3>1. Len(q) = n + 1 /\ q[n + 1] = L + 1 /\ \A i \in 1..n : q[i] = units[i]
      BY <1>3, <2>5, SequenceAppended
    <3>2. n \in Nat /\ ToSet(units) = { units[i] : i \in 1..n }
      BY <1>3, SequenceTyped
    <3>3. ToSet(q) = { q[i] : i \in 1..(n + 1) }
      BY <2>6, <3>1, SequenceTyped
    <3> HIDE DEF q, n
    <3>4. \A i \in 1..(n + 1) : i = n + 1 \/ i \in 1..n
      BY <3>2
    <3> QED BY <3>1, <3>2, <3>3, <3>4 DEF q
  <2>8. \A u \in ToSet(unitsOf'[mode]) :
           u \in {mode} \cup (M + 1)..(L + 1) /\ dispatch'[u] = Bucketed(unitRules'[u])
    <3> TAKE u \in ToSet(unitsOf'[mode])
    <3>1. CASE u = L + 1
      BY <1>1, <1>2, <2>3, <2>4, <3>1
    <3>2. CASE u \in ToSet(units)
      <4>1. u \in own /\ dispatch[u] = Bucketed(unitRules[u]) /\ u \in 1..L
        BY <1>4, <1>6, <3>2
      <4>2. u \in {mode} \cup (M + 1)..(L + 1)
        BY <1>2, <4>1 DEF own
      <4> QED BY <2>3, <2>4, <4>1, <4>2
    <3> QED BY <2>7, <3>1, <3>2
  <2>9. DOMAIN unitsOf' = DOMAIN unitsOf /\ \A m \in DOMAIN unitsOf : m # mode => unitsOf'[m] = unitsOf[m]
    BY <2>1
  <2>10. /\ Len(dispatch') = Len(unitRules') /\ L \in Nat /\ Len(unitRules') \in Nat /\ L <= Len(unitRules') /\ M \in Nat
         /\ UnitFor(wanted) \in {mode} \cup (M + 1)..Len(unitRules')
         /\ unitRules'[UnitFor(wanted)] = wanted /\ dispatch'[UnitFor(wanted)] = Bucketed(wanted)
    BY <1>1, <1>2, <2>2, <2>3, <2>4
  <2>11. \A u \in ToSet(unitsOf'[mode]) :
           u \in {mode} \cup (M + 1)..Len(unitRules') /\ dispatch'[u] = Bucketed(unitRules'[u])
    BY <2>3, <2>8
  <2> QED BY <2>3, <2>4, <2>6, <2>9, <2>10, <2>11 DEF L, M
<1> QED BY <1>7, <1>8

\* The last entry of a mode, and what is active in it, are of the rules and the modes.
LEMMA EntriesKept ==
    ASSUME UNCHANGED <<rules, modes>>, NEW m
    PROVE  /\ LastEntry(m)' = LastEntry(m) /\ Bucketed(Active(modes[m]))' = Bucketed(Active(modes[m]))
           /\ NamedKinds(m)' = NamedKinds(m) /\ ByLine(m)' = ByLine(m) /\ Unnamed(m)' = Unnamed(m)
           /\ \A k, start : RulesAfter(m, k, start)' = RulesAfter(m, k, start)
<1>1. rules' = rules /\ modes' = modes
  OBVIOUS
<1>2. Rules(m)' = Rules(m) /\ Bucketed(Active(modes[m]))' = Bucketed(Active(modes[m]))
  BY <1>1 DEF Rules, Active, Bucketed
<1>3. NamedKinds(m)' = NamedKinds(m)
  BY <1>1, <1>2 DEF NamedKinds
<1>4. ByLine(m)' = ByLine(m)
  BY <1>1, <1>2 DEF ByLine
<1>5. Unnamed(m)' = Unnamed(m)
  BY <1>1, <1>3 DEF Unnamed
<1>6. LastEntry(m)' = LastEntry(m)
  BY <1>3, <1>4 DEF LastEntry
<1>7. \A k, start : RulesAfter(m, k, start)' = RulesAfter(m, k, start)
  BY <1>1, <1>2 DEF RulesAfter
<1> QED BY <1>2, <1>3, <1>4, <1>5, <1>6, <1>7

\* A step that fills an entry of a mode leaves the others as they are.
OthersKept ==
    /\ UNCHANGED <<rules, modes, insignificant, significant, mode, stage>>
    /\ Len(unitRules) \in Nat /\ Len(unitRules') \in Nat /\ Len(unitRules) <= Len(unitRules')
    /\ \A u \in 1..Len(unitRules) : u # mode => unitRules'[u] = unitRules[u] /\ dispatch'[u] = dispatch[u]
    /\ \A m \in 1..Len(modes) : m # mode => unitsOf'[m] = unitsOf[m] /\ inside'[m] = inside[m] /\ atStart'[m] = atStart[m]

LEMMA EntryKeeps ==
    ASSUME TablesSaid, stage = "units", mode <= Len(modes), OthersKept, TablesSized', entry' > 1, Filled(mode, entry)'
    PROVE  TablesSaid'
<1>1. /\ TablesSized
      /\ significant = IF insignificant = <<>> THEN <<>> ELSE [m \in DOMAIN modes |-> modes[m] \notin ToSet(insignificant)]
      /\ \A m \in 1..(mode - 1) : Filled(m, LastEntry(m))
      /\ \A m \in mode..Len(modes) : m > mode \/ entry = 1 => Unfilled(m)
  BY DEF TablesSaid
<1>2. /\ rules' = rules /\ modes' = modes /\ insignificant' = insignificant /\ significant' = significant
      /\ mode' = mode /\ stage' = "units" /\ UNCHANGED <<rules, modes>>
  BY DEF OthersKept
<1>3. /\ Len(modes) \in Nat /\ Len(modes) <= Len(unitRules) /\ Len(unitRules) \in Nat /\ Len(unitRules') \in Nat
      /\ Len(unitRules) <= Len(unitRules') /\ mode \in 1..Len(modes)
  <2>1. IsSequence(modes) /\ Len(modes) <= Len(unitRules) /\ mode \in 1..(Len(modes) + 1)
    BY <1>1 DEF TablesSized
  <2>2. Len(modes) \in Nat
    BY <2>1, SequenceTyped
  <2>3. Len(unitRules) \in Nat /\ Len(unitRules') \in Nat /\ Len(unitRules) <= Len(unitRules')
    BY DEF OthersKept
  <2> QED BY <2>1, <2>2, <2>3
<1>4. ASSUME NEW m \in 1..Len(modes), m # mode
      PROVE  /\ \A u \in {m} \cup (Len(modes) + 1)..Len(unitRules) : unitRules'[u] = unitRules[u] /\ dispatch'[u] = dispatch[u]
             /\ unitsOf'[m] = unitsOf[m] /\ inside'[m] = inside[m] /\ atStart'[m] = atStart[m]
  <2>1. \A u \in {m} \cup (Len(modes) + 1)..Len(unitRules) : u \in 1..Len(unitRules) /\ u # mode
    BY <1>3, <1>4
  <2> QED BY <1>4, <2>1 DEF OthersKept
<1>5. ASSUME NEW m \in 1..(mode - 1) PROVE Filled(m, LastEntry(m))'
  <2>1. m \in 1..Len(modes) /\ m # mode
    BY <1>3, <1>5
  <2>2. PICK e : e = LastEntry(m)
    OBVIOUS
  <2>3. Filled(m, e)
    BY <1>1, <1>5, <2>2
  <2>4. Filled(m, e)'
    <3>1. /\ \A u \in {m} \cup (Len(modes) + 1)..Len(unitRules) : unitRules'[u] = unitRules[u] /\ dispatch'[u] = dispatch[u]
          /\ unitsOf'[m] = unitsOf[m] /\ inside'[m] = inside[m] /\ atStart'[m] = atStart[m]
      BY <1>4, <2>1
    <3>2. /\ Len(unitRules) \in Nat /\ Len(unitRules') \in Nat /\ Len(unitRules) <= Len(unitRules') /\ Len(modes) \in Nat
      BY <1>3
    <3>3. UNCHANGED <<rules, modes>>
      BY <1>2
    <3> QED BY ONLY <2>3, <3>1, <3>2, <3>3, FilledKept
  <2>5. LastEntry(m)' = e
    BY <1>2, <2>2, EntriesKept
  <2> QED BY <2>4, <2>5 DEF Filled
<1>6. ASSUME NEW m \in mode..Len(modes), m > mode PROVE Unfilled(m)'
  <2>1. Unfilled(m)
    BY <1>1, <1>6
  <2>2. m \in 1..Len(modes) /\ m # mode
    BY <1>3, <1>6
  <2>3. dispatch'[m] = dispatch[m] /\ atStart'[m] = atStart[m]
    BY <1>4, <2>2
  <2>4. Bucketed(Active(modes[m]))' = Bucketed(Active(modes[m]))
    BY <1>2, EntriesKept
  <2> QED BY <2>1, <2>3, <2>4 DEF Unfilled, IsTable
<1>7. \A m \in 1..(mode' - 1) : Filled(m, LastEntry(m))'
  BY <1>2, <1>5
<1>8. \A m \in mode'..Len(modes') : m > mode' \/ entry' = 1 => Unfilled(m)'
  <2>1. entry' # 1
    <3>1. entry' \in Nat
      BY DEF TablesSized
    <3> QED BY <3>1
  <2> QED BY <1>2, <1>6, <2>1
<1>9. significant' = IF insignificant' = <<>> THEN <<>> ELSE [m \in DOMAIN modes' |-> modes'[m] \notin ToSet(insignificant')]
  BY <1>1, <1>2
<1>10. ~(mode' > Len(modes'))
  BY <1>2, <1>3
<1>11. stage' = "units"
  BY <1>2
<1> QED BY <1>7, <1>8, <1>9, <1>10, <1>11 DEF TablesSaid

\* The first entry of a mode: its own unit.
LEMMA OwnUnitKeeps ==
    ASSUME ParseInv, BuildInv, TablesSaid, OwnUnit
    PROVE  TablesSaid'
<1> DEFINE own == RulesAfter(mode, Unnamed(mode), FALSE)
           M == Len(modes)
           L == Len(unitRules)
           K == Len(NamedKinds(mode))
<1>1. /\ stage = "units" /\ mode <= M /\ entry = 1 /\ entry' = 2
      /\ unitRules' = [unitRules EXCEPT ![mode] = own]
      /\ dispatch' = [dispatch EXCEPT ![mode] = IF own # Rules(mode) THEN Bucketed(own) ELSE dispatch[mode]]
      /\ unitsOf' = [unitsOf EXCEPT ![mode] = <<mode>>]
      /\ inside' = [inside EXCEPT ![mode] = [ own |-> mode, variants |-> <<>>, byLine |-> ByLine(mode),
                                              single |-> NamedKinds(mode) = <<>> /\ ~ByLine(mode) ]]
      /\ stage' = stage /\ modes' = modes /\ significant' = significant /\ atStart' = atStart /\ mode' = mode
      /\ rules' = rules /\ insignificant' = insignificant /\ pass = "parsed"
  BY DEF OwnUnit, Splitting, parseVars, BuildInv
<1>2. TablesSized /\ Unfilled(mode)
  <2>1. TablesSized /\ \A m \in mode..Len(modes) : m > mode \/ entry = 1 => Unfilled(m)
    BY <1>1 DEF TablesSaid
  <2>2. Len(modes) \in Nat /\ mode \in 1..(Len(modes) + 1)
    BY <2>1, SequenceTyped DEF TablesSized
  <2>3. mode \in mode..Len(modes)
    BY <1>1, <2>2
  <2> QED BY <1>1, <2>1, <2>3
<1>3. /\ IsSequence(modes) /\ IsSequence(unitRules) /\ IsSequence(dispatch) /\ Len(dispatch) = L /\ M <= L
      /\ DOMAIN unitsOf = DOMAIN modes /\ DOMAIN inside = DOMAIN modes /\ DOMAIN atStart = DOMAIN modes
      /\ mode \in 1..(M + 1)
  BY <1>2 DEF TablesSized
<1>4. /\ L \in Nat /\ M \in Nat /\ DOMAIN modes = 1..M /\ DOMAIN unitRules = 1..L /\ DOMAIN dispatch = 1..L
  BY <1>3, SequenceTyped
<1>5. mode \in 1..M /\ mode \in 1..L
  BY <1>1, <1>3, <1>4
<1>6. K \in Nat
  BY <1>1, KindsListed
<1> HIDE DEF own, M, L, K
<1>7. dispatch'[mode] = Bucketed(own) /\ unitRules'[mode] = own
  <2>1. dispatch[mode] = Bucketed(Rules(mode))
    BY <1>2 DEF Unfilled, Rules
  <2>2. dispatch'[mode] = IF own # Rules(mode) THEN Bucketed(own) ELSE dispatch[mode]
    BY <1>1, <1>4, <1>5
  <2>3. unitRules'[mode] = own
    BY <1>1, <1>4, <1>5
  <2> QED BY <2>1, <2>2, <2>3
<1>8. /\ IsSequence(unitRules') /\ Len(unitRules') = L /\ IsSequence(dispatch') /\ Len(dispatch') = L
  <2>1. DOMAIN unitRules' = DOMAIN unitRules /\ unitRules' = [m \in DOMAIN unitRules |-> unitRules'[m]]
    BY <1>1
  <2>2. DOMAIN dispatch' = DOMAIN dispatch /\ dispatch' = [m \in DOMAIN dispatch |-> dispatch'[m]]
    BY <1>1
  <2>3. IsSequence(unitRules') /\ Len(unitRules') = L
    BY <1>3, <2>1, ByMode DEF L
  <2>4. IsSequence(dispatch') /\ Len(dispatch') = L
    BY <1>3, <2>2, ByMode
  <2> QED BY <2>3, <2>4
<1>9. OthersKept
  <2>1. \A u \in 1..L : u # mode => unitRules'[u] = unitRules[u] /\ dispatch'[u] = dispatch[u]
    BY <1>1, <1>4
  <2>2. \A m \in 1..M : m # mode => unitsOf'[m] = unitsOf[m] /\ inside'[m] = inside[m] /\ atStart'[m] = atStart[m]
    BY <1>1, <1>3, <1>4
  <2>3. L \in Nat /\ Len(unitRules') \in Nat /\ L <= Len(unitRules')
    BY <1>4, <1>8
  <2> QED BY <1>1, <2>1, <2>2, <2>3 DEF OthersKept, L, M
<1>10. TablesSized'
  <2>1. IsSequence(modes)' /\ IsSequence(unitRules)' /\ IsSequence(dispatch)'
    BY <1>1, <1>3, <1>8 DEF IsSequence
  <2>2. Len(dispatch') = Len(unitRules') /\ Len(modes') <= Len(unitRules')
    BY <1>1, <1>3, <1>8 DEF M
  <2>3. DOMAIN unitsOf' = DOMAIN modes' /\ DOMAIN inside' = DOMAIN modes' /\ DOMAIN atStart' = DOMAIN modes'
    BY <1>1, <1>3
  <2>4. mode' \in 1..(Len(modes') + 1) /\ entry' \in Nat /\ entry' >= 1
    BY <1>1, <1>3 DEF M
  <2> QED BY <2>1, <2>2, <2>3, <2>4 DEF TablesSized
<1>11. Filled(mode, entry)'
  <2>1. UNCHANGED <<rules, modes>>
    BY <1>1
  <2>2. PICK n : n = mode
    OBVIOUS
  <2>3. /\ NamedKinds(n)' = NamedKinds(n) /\ ByLine(n)' = ByLine(n) /\ Unnamed(n)' = Unnamed(n)
        /\ RulesAfter(n, Unnamed(n), FALSE)' = own
    <3>1. /\ NamedKinds(n)' = NamedKinds(n) /\ ByLine(n)' = ByLine(n) /\ Unnamed(n)' = Unnamed(n)
          /\ \A k, start : RulesAfter(n, k, start)' = RulesAfter(n, k, start)
      BY <2>1, EntriesKept
    <3>2. PICK k : k = Unnamed(n)
      OBVIOUS
    <3>3. RulesAfter(n, k, FALSE)' = RulesAfter(n, k, FALSE)
      BY <3>1
    <3>4. RulesAfter(n, k, FALSE) = own
      BY <2>2, <3>2 DEF own
    <3>5. Unnamed(n)' = k
      BY <3>1, <3>2
    <3>6. RulesAfter(n, Unnamed(n), FALSE)' = RulesAfter(n, k, FALSE)'
      BY <3>5 DEF RulesAfter
    <3> QED BY <3>1, <3>3, <3>4, <3>6
  <2>4. Len(NamedKinds(n))' = K /\ K \in Nat
    BY <1>6, <2>2, <2>3 DEF K
  <2>5. entry' = 2 /\ mode' = n
    BY <1>1, <2>2
  <2>6. /\ unitsOf'[n] = <<n>> /\ atStart'[n] = atStart[n]
        /\ inside'[n] = [ own |-> n, variants |-> <<>>, byLine |-> ByLine(n),
                          single |-> NamedKinds(n) = <<>> /\ ~ByLine(n) ]
    BY <1>1, <1>3, <1>4, <1>5, <2>2
  <2>7. IsTable(atStart[n]) /\ atStart[n].variants = <<>>
    BY <1>2, <2>2 DEF Unfilled
  <2>8. unitRules'[n] = own /\ dispatch'[n] = Bucketed(own)
    BY <1>7, <2>2
  <2> HIDE DEF own, K
  <2>9. Holds(n, n, RulesAfter(n, Unnamed(n), FALSE))'
    BY <1>1, <2>3, <2>8 DEF Holds, Bucketed
  <2>10. Holds(n, n, unitRules[n])'
    BY <1>1, <2>8 DEF Holds, Bucketed
  <2>11. IsSequence(unitsOf'[n]) /\ \A u \in ToSet(unitsOf'[n]) : u = n
    <3> DEFINE s == <<n>>
    <3>1. s \in Seq({n}) /\ Len(s) = 1 /\ s[1] = n
      OBVIOUS
    <3>2. unitsOf'[n] = s
      BY <2>6
    <3> HIDE DEF s
    <3>3. IsSequence(s)
      BY <3>1, TypedSequence
    <3>4. ToSet(s) = { s[i] : i \in 1..Len(s) }
      BY <3>3, SequenceTyped
    <3> QED BY <3>1, <3>2, <3>3, <3>4
  <2>12. TableTo(n, inside[n], FALSE, 0)'
    <3>1. inside'[n].own = n /\ inside'[n].variants = <<>>
      BY <2>6
    <3>2. IsSequence(inside'[n].variants) /\ Len(inside'[n].variants) = 0 /\ 1..0 = {}
      BY <3>1, EmptySequence
    <3> QED BY <2>9, <3>1, <3>2 DEF TableTo, IsSequence
  <2>13. /\ IsTable(inside'[n]) /\ inside'[n].own = n /\ inside'[n].byLine = ByLine(n)'
         /\ inside'[n].single = (NamedKinds(n)' = <<>> /\ ~ByLine(n)')
    BY <2>3, <2>6 DEF IsTable
  <2>14. 2 \in 2..(2 * K + 3) /\ 2 <= K + 2 /\ 2 - 2 = 0
    BY <2>4
  <2>15. Filled(n, 2)'
    <3>1. \A u \in ToSet(unitsOf'[n]) : Holds(n, u, unitRules[u])'
      BY <2>10, <2>11
    <3>2. IsTable(atStart'[n]) /\ atStart'[n].variants = <<>>
      BY <2>6, <2>7
    <3> QED BY <2>4, <2>11, <2>12, <2>13, <2>14, <3>1, <3>2 DEF Filled, IsTable, IsSequence
  <2> QED BY <2>5, <2>15 DEF Filled
<1> QED BY <1>1, <1>9, <1>10, <1>11, EntryKeeps DEF M

\* A table stays filled, as long as its units do.
LEMMA TableKept ==
    ASSUME NEW m, UNCHANGED <<rules, modes>>,
           Len(unitRules) \in Nat, Len(unitRules') \in Nat, Len(unitRules) <= Len(unitRules'), Len(modes) \in Nat,
           \A u \in {m} \cup (Len(modes) + 1)..Len(unitRules) : unitRules'[u] = unitRules[u] /\ dispatch'[u] = dispatch[u],
           NEW table, NEW start, NEW n, TableTo(m, table, start, n)
    PROVE  TableTo(m, table, start, n)'
<1>1. rules' = rules /\ modes' = modes
  OBVIOUS
<1>2. /\ NamedKinds(m)' = NamedKinds(m) /\ ByLine(m)' = ByLine(m) /\ Unnamed(m)' = Unnamed(m)
      /\ \A k, s : RulesAfter(m, k, s)' = RulesAfter(m, k, s)
  BY EntriesKept
<1>3. \A u, wanted : Holds(m, u, wanted) => Holds(m, u, wanted)'
  <2> TAKE u, wanted
  <2> SUFFICES ASSUME Holds(m, u, wanted) PROVE Holds(m, u, wanted)'
    OBVIOUS
  <2>1. u \in {m} \cup (Len(modes) + 1)..Len(unitRules) /\ unitRules[u] = wanted /\ dispatch[u] = Bucketed(wanted)
    BY DEF Holds
  <2>2. u \in {m} \cup (Len(modes) + 1)..Len(unitRules')
    BY <2>1
  <2>3. unitRules'[u] = wanted /\ dispatch'[u] = Bucketed(wanted)
    BY <2>1
  <2> QED BY <1>1, <2>2, <2>3 DEF Holds, Bucketed
<1>4. Holds(m, table.own, RulesAfter(m, Unnamed(m), start))'
  BY <1>2, <1>3 DEF TableTo
<1> QED BY <1>2, <1>3, <1>4 DEF TableTo

\* A unit of a mode filed: what the other modes have stays, and what this one had.
LEMMA FiledKeeps ==
    ASSUME TablesSaid, stage = "units", mode <= Len(modes), entry > 1, NEW wanted, Filed(wanted),
           NEW m, m = mode, NEW u, u = UnitFor(wanted), DOMAIN inside' = DOMAIN inside, DOMAIN atStart' = DOMAIN atStart,
           \A k \in DOMAIN inside : k # m => inside'[k] = inside[k] /\ atStart'[k] = atStart[k]
    PROVE  /\ OthersKept /\ TablesSized' /\ Filled(m, entry) /\ entry \in Nat
           /\ Holds(m, u, wanted)' /\ IsSequence(unitsOf'[m]) /\ \A i \in ToSet(unitsOf'[m]) : Holds(m, i, unitRules[i])'
           /\ \A table, start, n : TableTo(m, table, start, n) => TableTo(m, table, start, n)'
<1> DEFINE M == Len(modes)
           L == Len(unitRules)
<1>1. TablesSized /\ Filled(mode, entry)
  BY DEF TablesSaid
<1>2. /\ IsSequence(modes) /\ IsSequence(unitRules) /\ IsSequence(dispatch) /\ Len(dispatch) = L /\ M <= L
      /\ DOMAIN unitsOf = DOMAIN modes /\ DOMAIN inside = DOMAIN modes /\ DOMAIN atStart = DOMAIN modes
      /\ mode \in 1..(M + 1) /\ entry \in Nat
  BY <1>1 DEF TablesSized
<1>3. L \in Nat /\ M \in Nat /\ DOMAIN modes = 1..M /\ mode \in 1..M
  BY <1>2, SequenceTyped
<1>4. /\ rules' = rules /\ modes' = modes /\ insignificant' = insignificant /\ significant' = significant
      /\ mode' = mode /\ stage' = stage /\ entry' = entry + 1
  BY DEF Filed, parseVars
<1> HIDE DEF M, L
<1>5. PICK e : e = entry
  OBVIOUS
<1>6. /\ IsSequence(unitRules') /\ IsSequence(dispatch') /\ Len(dispatch') = Len(unitRules')
      /\ Len(unitRules) \in Nat /\ Len(unitRules') \in Nat /\ Len(unitRules) <= Len(unitRules')
      /\ \A i \in 1..Len(unitRules) : unitRules'[i] = unitRules[i] /\ dispatch'[i] = dispatch[i]
      /\ UnitFor(wanted) \in {mode} \cup (Len(modes) + 1)..Len(unitRules')
      /\ unitRules'[UnitFor(wanted)] = wanted /\ dispatch'[UnitFor(wanted)] = Bucketed(wanted)
      /\ DOMAIN unitsOf' = DOMAIN unitsOf /\ \A i \in DOMAIN unitsOf : i # mode => unitsOf'[i] = unitsOf[i]
      /\ IsSequence(unitsOf'[mode])
      /\ \A i \in ToSet(unitsOf'[mode]) :
            i \in {mode} \cup (Len(modes) + 1)..Len(unitRules') /\ dispatch'[i] = Bucketed(unitRules'[i])
  <2>1. mode \in 1..Len(modes) /\ Filled(mode, e)
    BY <1>1, <1>3, <1>5 DEF M
  <2> QED BY <1>1, <2>1, FiledAdds
<1>7. OthersKept
  BY <1>2, <1>3, <1>4, <1>6 DEF OthersKept, M
<1>8. TablesSized'
  <2>1. IsSequence(modes)' /\ IsSequence(unitRules)' /\ IsSequence(dispatch)'
    BY <1>2, <1>4, <1>6 DEF IsSequence
  <2>2. Len(dispatch') = Len(unitRules') /\ Len(modes') <= Len(unitRules')
    BY <1>2, <1>3, <1>4, <1>6 DEF M, L
  <2>3. DOMAIN unitsOf' = DOMAIN modes' /\ DOMAIN inside' = DOMAIN modes' /\ DOMAIN atStart' = DOMAIN modes'
    BY <1>2, <1>4, <1>6
  <2>4. mode' \in 1..(Len(modes') + 1) /\ entry' \in Nat /\ entry' >= 1
    BY <1>2, <1>4 DEF M
  <2> QED BY <2>1, <2>2, <2>3, <2>4 DEF TablesSized
<1>9. Holds(m, u, wanted)'
  BY <1>4, <1>6 DEF Holds, Bucketed
<1>10. IsSequence(unitsOf'[m]) /\ \A i \in ToSet(unitsOf'[m]) : Holds(m, i, unitRules[i])'
  BY <1>4, <1>6 DEF Holds, Bucketed
<1>11. \A table, start, n : TableTo(m, table, start, n) => TableTo(m, table, start, n)'
  <2> TAKE table, start, n
  <2> SUFFICES ASSUME TableTo(m, table, start, n) PROVE TableTo(m, table, start, n)'
    OBVIOUS
  <2>1. \A i \in {m} \cup (Len(modes) + 1)..Len(unitRules) : unitRules'[i] = unitRules[i] /\ dispatch'[i] = dispatch[i]
    <3>1. \A i \in {m} \cup (M + 1)..L : i \in 1..L
      BY <1>2, <1>3
    <3> QED BY <1>6, <3>1 DEF L, M
  <2>2. Len(unitRules) \in Nat /\ Len(unitRules') \in Nat /\ Len(unitRules) <= Len(unitRules') /\ Len(modes) \in Nat
    BY <1>3, <1>6 DEF M
  <2>3. UNCHANGED <<rules, modes>>
    BY <1>4
  <2>4. TableTo(m, table, start, n)
    OBVIOUS
  <2> QED BY ONLY <2>1, <2>2, <2>3, <2>4, TableKept
<1> QED BY <1>1, <1>2, <1>7, <1>8, <1>9, <1>10, <1>11

\* A variant added to a table.
LEMMA VariantAdded ==
    ASSUME NEW m, NEW t, NEW start, NEW n \in Nat, TableTo(m, t, start, n)', NEW k, NEW u, k = NamedKinds(m)'[n + 1],
           Holds(m, u, RulesAfter(m, k, start))', NEW added, added.own = t.own, added.variants = Append(t.variants, <<k, u>>)
    PROVE  TableTo(m, added, start, n + 1)'
<1>1. /\ Holds(m, t.own, RulesAfter(m, Unnamed(m), start))' /\ IsSequence(t.variants) /\ Len(t.variants) = n
      /\ \A v \in 1..n : t.variants[v][1] = NamedKinds(m)'[v] /\ Holds(m, t.variants[v][2], RulesAfter(m, NamedKinds(m)[v], start))'
  BY DEF TableTo, IsSequence
<1> DEFINE s == added.variants
           q == t.variants
           x == <<k, u>>
<1>2. IsSequence(s) /\ Len(s) = n + 1 /\ s[n + 1] = x /\ \A v \in 1..n : s[v] = q[v]
  <2>1. IsSequence(q) /\ s = Append(q, x) /\ Len(q) = n
    BY <1>1
  <2> HIDE DEF s, q, x
  <2> QED BY <2>1, SequenceAppended
<1>3. x[1] = k /\ x[2] = u
  OBVIOUS
<1> HIDE DEF s, x
<1>4. ASSUME NEW v \in 1..(n + 1)
      PROVE  s[v][1] = NamedKinds(m)'[v] /\ Holds(m, s[v][2], RulesAfter(m, NamedKinds(m)[v], start))'
  <2>1. CASE v \in 1..n
    BY <1>1, <1>2, <2>1
  <2>2. CASE v = n + 1
    <3>1. s[v][1] = NamedKinds(m)'[v] /\ s[v][2] = u
      BY <1>2, <1>3, <2>2
    <3>2. Holds(m, u, RulesAfter(m, NamedKinds(m)[v], start))'
      <4>1. NamedKinds(m)'[v] = k
        BY <2>2
      <4>2. RulesAfter(m, NamedKinds(m)[v], start)' = RulesAfter(m, k, start)'
        BY <4>1 DEF RulesAfter
      <4> QED BY <4>2 DEF Holds
    <3> QED BY <3>1, <3>2
  <2> QED BY <2>1, <2>2
<1> QED BY <1>1, <1>2, <1>4 DEF TableTo, s, IsSequence

\* What filled means, in the next state.
LEMMA FilledIs ==
    ASSUME NEW m, NEW e,
           (e \in 2..(2 * Len(NamedKinds(m)) + 3))',
           (~ByLine(m) => e <= Len(NamedKinds(m)) + 2)',
           IsSequence(unitsOf[m])', (\A i \in ToSet(unitsOf[m]) : Holds(m, i, unitRules[i]))',
           IsTable(inside[m])', (inside[m].own = m)', (inside[m].byLine = ByLine(m))', 
           (inside[m].single = (NamedKinds(m) = <<>> /\ ~ByLine(m)))',
           TableTo(m, inside[m], FALSE, IF e <= Len(NamedKinds(m)) + 2 THEN e - 2 ELSE Len(NamedKinds(m)))',
           IsTable(atStart[m])',
           (IF e <= Len(NamedKinds(m)) + 2 THEN atStart[m].variants = <<>> ELSE TableTo(m, atStart[m], TRUE, e - Len(NamedKinds(m)) - 3))'
    PROVE  Filled(m, e)'
BY DEF Filled

\* After a kind a predicate names, past the start of a line.
LEMMA InsideKeeps ==
    ASSUME ParseInv, BuildInv, TablesSaid, InsideVariant
    PROVE  TablesSaid'
<1> DEFINE kind == NamedKinds(mode)[entry - 1]
           wanted == RulesAfter(mode, kind, FALSE)
<1>1. /\ stage = "units" /\ mode <= Len(modes) /\ entry \in 2..(Kinds + 1) /\ Filed(wanted)
      /\ inside' = [inside EXCEPT ![mode].variants = Append(@, <<kind, UnitFor(wanted)>>)]
      /\ atStart' = atStart
  BY DEF InsideVariant, Splitting
<1>2. rules' = rules /\ modes' = modes /\ mode' = mode /\ entry' = entry + 1 /\ pass = "parsed" /\ UNCHANGED <<rules, modes>>
  BY <1>1 DEF Filed, parseVars, BuildInv
<1>3. PICK m : m = mode
  OBVIOUS
<1>4. PICK u : u = UnitFor(wanted)
  OBVIOUS
<1>5. PICK k : k = kind
  OBVIOUS
<1>6. PICK w : w = wanted
  OBVIOUS
<1>7. PICK e : e = entry
  OBVIOUS
<1>8. PICK t : t = inside[m]
  OBVIOUS
<1>9. PICK K : K = Len(NamedKinds(m))
  OBVIOUS
<1>10. /\ NamedKinds(m)' = NamedKinds(m) /\ ByLine(m)' = ByLine(m)
       /\ \A x, start : RulesAfter(m, x, start)' = RulesAfter(m, x, start)
  BY <1>2, EntriesKept
<1>11. K \in Nat
  BY <1>2, <1>9, KindsListed
<1>12. e \in 2..(K + 1) /\ e \in Nat
  BY <1>1, <1>3, <1>7, <1>9, <1>11 DEF Kinds
<1>13. k = NamedKinds(m)[e - 1] /\ w = RulesAfter(m, k, FALSE) /\ Filed(w) /\ u = UnitFor(w)
  BY <1>1, <1>3, <1>4, <1>5, <1>6, <1>7
<1> HIDE DEF kind, wanted
<1>14. DOMAIN inside = DOMAIN modes /\ m \in DOMAIN inside
  <2>1. TablesSized
    BY <1>1 DEF TablesSaid
  <2>2. IsSequence(modes) /\ DOMAIN inside = DOMAIN modes /\ mode \in 1..(Len(modes) + 1)
    BY <2>1 DEF TablesSized
  <2>3. DOMAIN modes = 1..Len(modes) /\ Len(modes) \in Nat
    BY <2>2, SequenceTyped
  <2> QED BY <1>1, <1>3, <2>2, <2>3
<1>15. DOMAIN inside' = DOMAIN inside /\ \A i \in DOMAIN inside : i # m => inside'[i] = inside[i] /\ atStart'[i] = atStart[i]
  BY <1>1, <1>3
<1>16. /\ OthersKept /\ TablesSized' /\ Filled(m, e)
       /\ Holds(m, u, w)' /\ IsSequence(unitsOf'[m]) /\ \A i \in ToSet(unitsOf'[m]) : Holds(m, i, unitRules[i])'
       /\ \A table, start, n : TableTo(m, table, start, n) => TableTo(m, table, start, n)'
  <2>1. entry > 1 /\ DOMAIN atStart' = DOMAIN atStart
    BY <1>1, <1>7, <1>12
  <2>2. Filled(m, entry)
    BY <1>1, <1>3, <2>1 DEF TablesSaid
  <2>3. stage = "units" /\ mode <= Len(modes)
    BY <1>1
  <2>4. Filled(m, e)
    BY <1>7, <2>2
  <2>5. /\ OthersKept /\ TablesSized' 
        /\ Holds(m, u, w)' /\ IsSequence(unitsOf'[m]) /\ \A i \in ToSet(unitsOf'[m]) : Holds(m, i, unitRules[i])'
        /\ \A table, start, n : TableTo(m, table, start, n) => TableTo(m, table, start, n)'
    BY <1>3, <1>13, <1>15, <2>1, <2>3, FiledKeeps
  <2> QED BY <2>4, <2>5
<1>17. /\ IsTable(t) /\ t.own = m /\ t.byLine = ByLine(m) /\ t.single = (NamedKinds(m) = <<>> /\ ~ByLine(m))
       /\ TableTo(m, t, FALSE, e - 2) /\ IsTable(atStart[m]) /\ atStart[m].variants = <<>>
  <2>1. e <= K + 2
    BY <1>11, <1>12
  <2> QED BY <1>8, <1>9, <1>16, <2>1 DEF Filled
<1> DEFINE added == inside'[m]
<1>18. /\ DOMAIN added = DOMAIN t /\ added.own = t.own /\ added.byLine = t.byLine /\ added.single = t.single
       /\ added.variants = Append(t.variants, <<k, u>>)
  <2>1. added = [t EXCEPT !.variants = Append(@, <<k, u>>)]
    BY <1>1, <1>3, <1>4, <1>5, <1>8, <1>14
  <2>2. DOMAIN t = {"own", "variants", "byLine", "single"}
    BY <1>17 DEF IsTable
  <2> HIDE DEF added
  <2> QED BY <2>1, <2>2
<1>19. TableTo(m, inside[m], FALSE, e - 1)'
  <2>1. PICK x : x = added
    OBVIOUS
  <2>2. PICK n : n = e - 2
    OBVIOUS
  <2>3. n \in Nat /\ n + 1 = e - 1
    BY <1>12, <2>2
  <2>4. TableTo(m, t, FALSE, n)'
    BY <1>16, <1>17, <2>2
  <2>5. k = NamedKinds(m)'[n + 1]
    BY <1>10, <1>13, <2>3
  <2>6. Holds(m, u, RulesAfter(m, k, FALSE))'
    BY <1>10, <1>13, <1>16 DEF Holds
  <2>7. x.own = t.own /\ x.variants = Append(t.variants, <<k, u>>)
    BY <1>18, <2>1
  <2>8. TableTo(m, x, FALSE, n + 1)'
    BY ONLY <2>3, <2>4, <2>5, <2>6, <2>7, VariantAdded
  <2>9. inside'[m] = x
    BY <2>1
  <2> HIDE DEF added
  <2> QED BY <2>3, <2>8, <2>9 DEF TableTo
<1>20. PICK f : f = e + 1
  OBVIOUS
<1>21. Filled(m, f)'
  <2>1. Len(NamedKinds(m))' = K
    BY <1>9, <1>10
  <2>2. f \in 2..(2 * K + 3) /\ f <= K + 2 /\ f - 2 = e - 1
    BY <1>11, <1>12, <1>20
  <2>3. /\ IsTable(inside'[m]) /\ inside'[m].own = m /\ inside'[m].byLine = ByLine(m)'
        /\ inside'[m].single = (NamedKinds(m)' = <<>> /\ ~ByLine(m)')
    BY <1>10, <1>17, <1>18 DEF IsTable
  <2>4. IsTable(atStart'[m]) /\ atStart'[m].variants = <<>>
    BY <1>1, <1>17
  <2> HIDE DEF added
  <2>6. (IF f <= Len(NamedKinds(m)) + 2 THEN f - 2 ELSE Len(NamedKinds(m)))' = e - 1
    BY <2>1, <2>2
  <2>7. TableTo(m, inside[m], FALSE, IF f <= Len(NamedKinds(m)) + 2 THEN f - 2 ELSE Len(NamedKinds(m)))'
    BY <1>19, <2>6 DEF TableTo
  <2>8. /\ IsTable(inside[m])' /\ IsTable(atStart[m])' /\ IsSequence(unitsOf[m])'
        /\ (\A i \in ToSet(unitsOf[m]) : Holds(m, i, unitRules[i]))'
    BY <1>16, <2>3, <2>4 DEF IsTable, IsSequence
  <2>9. (f <= Len(NamedKinds(m)) + 2)' /\ (f \in 2..(2 * Len(NamedKinds(m)) + 3))'
    BY <2>1, <2>2
  <2>10. /\ (inside[m].own = m)' /\ (inside[m].byLine = ByLine(m))'
         /\ (inside[m].single = (NamedKinds(m) = <<>> /\ ~ByLine(m)))'
    BY <2>3
  <2>11. (IF f <= Len(NamedKinds(m)) + 2 THEN atStart[m].variants = <<>>
          ELSE TableTo(m, atStart[m], TRUE, f - Len(NamedKinds(m)) - 3))'
    BY <2>4, <2>9
  <2>12. (~ByLine(m) => f <= Len(NamedKinds(m)) + 2)'
    BY <2>9
  <2> QED BY ONLY <2>7, <2>8, <2>9, <2>10, <2>11, <2>12, FilledIs
<1>22. entry' = f /\ mode' = m
  BY <1>2, <1>3, <1>7, <1>20
<1>23. Filled(mode, entry)'
  BY <1>22, <1>21 DEF Filled
<1>24. entry' > 1
  BY <1>12, <1>20, <1>22
<1> QED BY <1>1, <1>16, <1>23, <1>24, EntryKeeps

\* At the start of a line, after a kind none names.
LEMMA StartOwnKeeps ==
    ASSUME ParseInv, BuildInv, TablesSaid, StartOwn
    PROVE  TablesSaid'
<1> DEFINE kind == Unnamed(mode)
           wanted == RulesAfter(mode, kind, TRUE)
<1>1. /\ stage = "units" /\ mode <= Len(modes) /\ ByLine(mode) /\ entry = Kinds + 2 /\ Filed(wanted)
      /\ atStart' = [atStart EXCEPT ![mode].own = UnitFor(wanted)]
      /\ inside' = inside
  BY DEF StartOwn, Splitting
<1>2. rules' = rules /\ modes' = modes /\ mode' = mode /\ entry' = entry + 1 /\ pass = "parsed" /\ UNCHANGED <<rules, modes>>
  BY <1>1 DEF Filed, parseVars, BuildInv
<1>3. PICK m : m = mode
  OBVIOUS
<1>4. PICK u : u = UnitFor(wanted)
  OBVIOUS
<1>5. PICK k : k = kind
  OBVIOUS
<1>6. PICK w : w = wanted
  OBVIOUS
<1>7. PICK e : e = entry
  OBVIOUS
<1>8. PICK t : t = atStart[m]
  OBVIOUS
<1>9. PICK K : K = Len(NamedKinds(m))
  OBVIOUS
<1>10. /\ NamedKinds(m)' = NamedKinds(m) /\ ByLine(m)' = ByLine(m) /\ Unnamed(m)' = Unnamed(m)
       /\ \A x, start : RulesAfter(m, x, start)' = RulesAfter(m, x, start)
  BY <1>2, EntriesKept
<1>11. K \in Nat
  BY <1>2, <1>9, KindsListed
<1>12. e = K + 2 /\ e \in Nat
  BY <1>1, <1>3, <1>7, <1>9, <1>11 DEF Kinds
<1>13. k = Unnamed(m) /\ w = RulesAfter(m, k, TRUE) /\ Filed(w) /\ u = UnitFor(w) /\ ByLine(m)
  BY <1>1, <1>3, <1>4, <1>5, <1>6, <1>7
<1> HIDE DEF kind, wanted
<1>14. DOMAIN inside = DOMAIN modes /\ DOMAIN atStart = DOMAIN modes /\ m \in DOMAIN atStart
  <2>1. TablesSized
    BY <1>1 DEF TablesSaid
  <2>2. IsSequence(modes) /\ DOMAIN inside = DOMAIN modes /\ DOMAIN atStart = DOMAIN modes /\ mode \in 1..(Len(modes) + 1)
    BY <2>1 DEF TablesSized
  <2>3. DOMAIN modes = 1..Len(modes) /\ Len(modes) \in Nat
    BY <2>2, SequenceTyped
  <2> QED BY <1>1, <1>3, <2>2, <2>3
<1>15. DOMAIN atStart' = DOMAIN atStart /\ \A i \in DOMAIN inside : i # m => inside'[i] = inside[i] /\ atStart'[i] = atStart[i]
  BY <1>1, <1>3, <1>14
<1>16. /\ OthersKept /\ TablesSized' /\ Filled(m, e)
       /\ Holds(m, u, w)' /\ IsSequence(unitsOf'[m]) /\ \A i \in ToSet(unitsOf'[m]) : Holds(m, i, unitRules[i])'
       /\ \A table, start, n : TableTo(m, table, start, n) => TableTo(m, table, start, n)'
  <2>1. entry > 1 /\ DOMAIN inside' = DOMAIN inside
    BY <1>1, <1>7, <1>11, <1>12
  <2>2. Filled(m, entry)
    BY <1>1, <1>3, <2>1 DEF TablesSaid
  <2>3. stage = "units" /\ mode <= Len(modes)
    BY <1>1
  <2>4. Filled(m, e)
    BY <1>7, <2>2
  <2>5. /\ OthersKept /\ TablesSized'
        /\ Holds(m, u, w)' /\ IsSequence(unitsOf'[m]) /\ \A i \in ToSet(unitsOf'[m]) : Holds(m, i, unitRules[i])'
        /\ \A table, start, n : TableTo(m, table, start, n) => TableTo(m, table, start, n)'
    BY <1>3, <1>13, <1>15, <2>1, <2>3, FiledKeeps
  <2> QED BY <2>4, <2>5
<1>17. /\ IsTable(inside[m]) /\ inside[m].own = m /\ inside[m].byLine = ByLine(m)
       /\ inside[m].single = (NamedKinds(m) = <<>> /\ ~ByLine(m))
       /\ TableTo(m, inside[m], FALSE, K) /\ IsTable(t) /\ t.variants = <<>>
  <2>1. e <= K + 2 /\ e - 2 = K
    BY <1>11, <1>12
  <2> QED BY <1>8, <1>9, <1>16, <2>1 DEF Filled
<1> DEFINE added == atStart'[m]
<1>18. DOMAIN added = DOMAIN t /\ added.own = u /\ added.variants = <<>>
  <2>1. added = [t EXCEPT !.own = u]
    BY <1>1, <1>3, <1>4, <1>8, <1>14
  <2>2. DOMAIN t = {"own", "variants", "byLine", "single"}
    BY <1>17 DEF IsTable
  <2> HIDE DEF added
  <2> QED BY <1>17, <2>1, <2>2
<1>19. TableTo(m, atStart[m], TRUE, e - K - 2)'
  <2>1. e - K - 2 = 0 /\ 1..0 = {}
    BY <1>11, <1>12
  <2>2. Holds(m, u, RulesAfter(m, Unnamed(m), TRUE))'
    <3>1. RulesAfter(m, Unnamed(m), TRUE)' = w
      <4>1. Unnamed(m)' = k
        BY <1>10, <1>13
      <4>2. RulesAfter(m, Unnamed(m), TRUE)' = RulesAfter(m, k, TRUE)'
        BY <4>1 DEF RulesAfter
      <4> QED BY <1>10, <1>13, <4>2
    <3> QED BY <1>16, <3>1 DEF Holds
  <2>3. IsSequence(added.variants) /\ Len(added.variants) = 0
    BY <1>18, EmptySequence
  <2>4. Holds(m, atStart[m].own, RulesAfter(m, Unnamed(m), TRUE))'
    BY <1>18, <2>2 DEF Holds
  <2>5. TableTo(m, atStart[m], TRUE, 0)'
    BY <2>1, <2>3, <2>4 DEF TableTo, IsSequence
  <2> HIDE DEF added
  <2> QED BY <2>1, <2>5 DEF TableTo
<1>20. PICK f : f = e + 1
  OBVIOUS
<1>21. Filled(m, f)'
  <2>1. Len(NamedKinds(m))' = K
    BY <1>9, <1>10
  <2>2. f \in 2..(2 * K + 3) /\ ~(f <= K + 2) /\ f - K - 3 = e - K - 2
    BY <1>11, <1>12, <1>20
  <2>3. /\ IsTable(inside'[m]) /\ inside'[m].own = m /\ inside'[m].byLine = ByLine(m)'
        /\ inside'[m].single = (NamedKinds(m)' = <<>> /\ ~ByLine(m)')
    BY <1>1, <1>10, <1>17 DEF IsTable
  <2>4. IsTable(atStart'[m])
    BY <1>17, <1>18 DEF IsTable
  <2> HIDE DEF added
  <2>5. (IF f <= Len(NamedKinds(m)) + 2 THEN f - 2 ELSE Len(NamedKinds(m)))' = K
    BY <2>1, <2>2
  <2>6. TableTo(m, inside[m], FALSE, K)'
    <3>1. PICK x : x = inside[m]
      OBVIOUS
    <3>2. TableTo(m, x, FALSE, K)'
      BY <1>16, <1>17, <3>1
    <3>3. inside'[m] = x
      BY <1>1, <3>1
    <3> QED BY <3>2, <3>3 DEF TableTo
  <2>7. TableTo(m, inside[m], FALSE, IF f <= Len(NamedKinds(m)) + 2 THEN f - 2 ELSE Len(NamedKinds(m)))'
    BY <2>5, <2>6 DEF TableTo
  <2>8. /\ IsTable(inside[m])' /\ IsTable(atStart[m])' /\ IsSequence(unitsOf[m])'
        /\ (\A i \in ToSet(unitsOf[m]) : Holds(m, i, unitRules[i]))'
    BY <1>16, <2>3, <2>4 DEF IsTable, IsSequence
  <2>9. ~(f <= Len(NamedKinds(m)) + 2)' /\ (f \in 2..(2 * Len(NamedKinds(m)) + 3))' /\ (f - Len(NamedKinds(m)) - 3)' = e - K - 2
    BY <2>1, <2>2
  <2>10. /\ (inside[m].own = m)' /\ (inside[m].byLine = ByLine(m))'
         /\ (inside[m].single = (NamedKinds(m) = <<>> /\ ~ByLine(m)))'
    BY <2>3
  <2>11. (IF f <= Len(NamedKinds(m)) + 2 THEN atStart[m].variants = <<>>
          ELSE TableTo(m, atStart[m], TRUE, f - Len(NamedKinds(m)) - 3))'
    <3>1. TableTo(m, atStart[m], TRUE, f - Len(NamedKinds(m)) - 3)'
      BY <1>19, <2>9 DEF TableTo
    <3> QED BY <2>9, <3>1
  <2>12. (~ByLine(m) => f <= Len(NamedKinds(m)) + 2)'
    BY <1>10, <1>13
  <2> QED BY ONLY <2>7, <2>8, <2>9, <2>10, <2>11, <2>12, FilledIs
<1>22. entry' = f /\ mode' = m
  BY <1>2, <1>3, <1>7, <1>20
<1>23. Filled(mode, entry)'
  BY <1>21, <1>22 DEF Filled
<1>24. entry' > 1
  BY <1>11, <1>12, <1>20, <1>22
<1> QED BY <1>1, <1>16, <1>23, <1>24, EntryKeeps

\* At the start of a line, after a kind a predicate names.
LEMMA StartVariantKeeps ==
    ASSUME ParseInv, BuildInv, TablesSaid, StartVariant
    PROVE  TablesSaid'
<1> DEFINE kind == NamedKinds(mode)[entry - Kinds - 2]
           wanted == RulesAfter(mode, kind, TRUE)
<1>1. /\ stage = "units" /\ mode <= Len(modes) /\ ByLine(mode) /\ entry \in (Kinds + 3)..(2 * Kinds + 2) /\ Filed(wanted)
      /\ atStart' = [atStart EXCEPT ![mode].variants = Append(@, <<kind, UnitFor(wanted)>>)]
      /\ inside' = inside
  BY DEF StartVariant, Splitting
<1>2. rules' = rules /\ modes' = modes /\ mode' = mode /\ entry' = entry + 1 /\ pass = "parsed" /\ UNCHANGED <<rules, modes>>
  BY <1>1 DEF Filed, parseVars, BuildInv
<1>3. PICK m : m = mode
  OBVIOUS
<1>4. PICK u : u = UnitFor(wanted)
  OBVIOUS
<1>5. PICK k : k = kind
  OBVIOUS
<1>6. PICK w : w = wanted
  OBVIOUS
<1>7. PICK e : e = entry
  OBVIOUS
<1>8. PICK t : t = atStart[m]
  OBVIOUS
<1>9. PICK K : K = Len(NamedKinds(m))
  OBVIOUS
<1>10. /\ NamedKinds(m)' = NamedKinds(m) /\ ByLine(m)' = ByLine(m) /\ Unnamed(m)' = Unnamed(m)
       /\ \A x, start : RulesAfter(m, x, start)' = RulesAfter(m, x, start)
  BY <1>2, EntriesKept
<1>11. K \in Nat
  BY <1>2, <1>9, KindsListed
<1>12. e \in (K + 3)..(2 * K + 2) /\ e \in Nat
  BY <1>1, <1>3, <1>7, <1>9, <1>11 DEF Kinds
<1>13. k = NamedKinds(m)[e - K - 2] /\ w = RulesAfter(m, k, TRUE) /\ Filed(w) /\ u = UnitFor(w) /\ ByLine(m)
  BY <1>1, <1>3, <1>4, <1>5, <1>6, <1>7, <1>9 DEF Kinds
<1> HIDE DEF kind, wanted
<1>14. DOMAIN inside = DOMAIN modes /\ DOMAIN atStart = DOMAIN modes /\ m \in DOMAIN atStart
  <2>1. TablesSized
    BY <1>1 DEF TablesSaid
  <2>2. IsSequence(modes) /\ DOMAIN inside = DOMAIN modes /\ DOMAIN atStart = DOMAIN modes /\ mode \in 1..(Len(modes) + 1)
    BY <2>1 DEF TablesSized
  <2>3. DOMAIN modes = 1..Len(modes) /\ Len(modes) \in Nat
    BY <2>2, SequenceTyped
  <2> QED BY <1>1, <1>3, <2>2, <2>3
<1>15. DOMAIN atStart' = DOMAIN atStart /\ \A i \in DOMAIN inside : i # m => inside'[i] = inside[i] /\ atStart'[i] = atStart[i]
  BY <1>1, <1>3, <1>14
<1>16. /\ OthersKept /\ TablesSized' /\ Filled(m, e)
       /\ Holds(m, u, w)' /\ IsSequence(unitsOf'[m]) /\ \A i \in ToSet(unitsOf'[m]) : Holds(m, i, unitRules[i])'
       /\ \A table, start, n : TableTo(m, table, start, n) => TableTo(m, table, start, n)'
  <2>1. entry > 1 /\ DOMAIN inside' = DOMAIN inside
    BY <1>1, <1>7, <1>11, <1>12
  <2>2. Filled(m, entry)
    BY <1>1, <1>3, <2>1 DEF TablesSaid
  <2>3. stage = "units" /\ mode <= Len(modes)
    BY <1>1
  <2>4. Filled(m, e)
    BY <1>7, <2>2
  <2>5. /\ OthersKept /\ TablesSized'
        /\ Holds(m, u, w)' /\ IsSequence(unitsOf'[m]) /\ \A i \in ToSet(unitsOf'[m]) : Holds(m, i, unitRules[i])'
        /\ \A table, start, n : TableTo(m, table, start, n) => TableTo(m, table, start, n)'
    BY <1>3, <1>13, <1>15, <2>1, <2>3, FiledKeeps
  <2> QED BY <2>4, <2>5
<1>17. /\ IsTable(inside[m]) /\ inside[m].own = m /\ inside[m].byLine = ByLine(m)
       /\ inside[m].single = (NamedKinds(m) = <<>> /\ ~ByLine(m))
       /\ TableTo(m, inside[m], FALSE, K) /\ IsTable(t) /\ TableTo(m, t, TRUE, e - K - 3)
  <2>1. ~(e <= K + 2)
    BY <1>11, <1>12
  <2> QED BY <1>8, <1>9, <1>16, <2>1 DEF Filled
<1> DEFINE added == atStart'[m]
<1>18. DOMAIN added = DOMAIN t /\ added.own = t.own /\ added.variants = Append(t.variants, <<k, u>>)
  <2>1. added = [t EXCEPT !.variants = Append(@, <<k, u>>)]
    BY <1>1, <1>3, <1>4, <1>5, <1>8, <1>14
  <2>2. DOMAIN t = {"own", "variants", "byLine", "single"}
    BY <1>17 DEF IsTable
  <2> HIDE DEF added
  <2> QED BY <2>1, <2>2
<1>19. TableTo(m, atStart[m], TRUE, e - K - 2)'
  <2>1. PICK x : x = added
    OBVIOUS
  <2>2. PICK n : n = e - K - 3
    OBVIOUS
  <2>3. n \in Nat /\ n + 1 = e - K - 2
    BY <1>11, <1>12, <2>2
  <2>4. TableTo(m, t, TRUE, n)'
    BY <1>16, <1>17, <2>2
  <2>5. k = NamedKinds(m)'[n + 1]
    BY <1>10, <1>13, <2>3
  <2>6. Holds(m, u, RulesAfter(m, k, TRUE))'
    BY <1>10, <1>13, <1>16 DEF Holds
  <2>7. x.own = t.own /\ x.variants = Append(t.variants, <<k, u>>)
    BY <1>18, <2>1
  <2>8. TableTo(m, x, TRUE, n + 1)'
    BY ONLY <2>3, <2>4, <2>5, <2>6, <2>7, VariantAdded
  <2>9. atStart'[m] = x
    BY <2>1
  <2> HIDE DEF added
  <2> QED BY <2>3, <2>8, <2>9 DEF TableTo
<1>20. PICK f : f = e + 1
  OBVIOUS
<1>21. Filled(m, f)'
  <2>1. Len(NamedKinds(m))' = K
    BY <1>9, <1>10
  <2>2. f \in 2..(2 * K + 3) /\ ~(f <= K + 2) /\ f - K - 3 = e - K - 2
    BY <1>11, <1>12, <1>20
  <2>3. /\ IsTable(inside'[m]) /\ inside'[m].own = m /\ inside'[m].byLine = ByLine(m)'
        /\ inside'[m].single = (NamedKinds(m)' = <<>> /\ ~ByLine(m)')
    BY <1>1, <1>10, <1>17 DEF IsTable
  <2>4. IsTable(atStart'[m])
    BY <1>17, <1>18 DEF IsTable
  <2> HIDE DEF added
  <2>5. (IF f <= Len(NamedKinds(m)) + 2 THEN f - 2 ELSE Len(NamedKinds(m)))' = K
    BY <2>1, <2>2
  <2>6. TableTo(m, inside[m], FALSE, K)'
    <3>1. PICK x : x = inside[m]
      OBVIOUS
    <3>2. TableTo(m, x, FALSE, K)'
      BY <1>16, <1>17, <3>1
    <3>3. inside'[m] = x
      BY <1>1, <3>1
    <3> QED BY <3>2, <3>3 DEF TableTo
  <2>7. TableTo(m, inside[m], FALSE, IF f <= Len(NamedKinds(m)) + 2 THEN f - 2 ELSE Len(NamedKinds(m)))'
    BY <2>5, <2>6 DEF TableTo
  <2>8. /\ IsTable(inside[m])' /\ IsTable(atStart[m])' /\ IsSequence(unitsOf[m])'
        /\ (\A i \in ToSet(unitsOf[m]) : Holds(m, i, unitRules[i]))'
    BY <1>16, <2>3, <2>4 DEF IsTable, IsSequence
  <2>9. ~(f <= Len(NamedKinds(m)) + 2)' /\ (f \in 2..(2 * Len(NamedKinds(m)) + 3))' /\ (f - Len(NamedKinds(m)) - 3)' = e - K - 2
    BY <2>1, <2>2
  <2>10. /\ (inside[m].own = m)' /\ (inside[m].byLine = ByLine(m))'
         /\ (inside[m].single = (NamedKinds(m) = <<>> /\ ~ByLine(m)))'
    BY <2>3
  <2>11. (IF f <= Len(NamedKinds(m)) + 2 THEN atStart[m].variants = <<>>
          ELSE TableTo(m, atStart[m], TRUE, f - Len(NamedKinds(m)) - 3))'
    <3>1. TableTo(m, atStart[m], TRUE, f - Len(NamedKinds(m)) - 3)'
      BY <1>19, <2>9 DEF TableTo
    <3> QED BY <2>9, <3>1
  <2>12. (~ByLine(m) => f <= Len(NamedKinds(m)) + 2)'
    BY <1>10, <1>13
  <2> QED BY ONLY <2>7, <2>8, <2>9, <2>10, <2>11, <2>12, FilledIs
<1>22. entry' = f /\ mode' = m
  BY <1>2, <1>3, <1>7, <1>20
<1>23. Filled(mode, entry)'
  BY <1>21, <1>22 DEF Filled
<1>24. entry' > 1
  BY <1>11, <1>12, <1>20, <1>22
<1> QED BY <1>1, <1>16, <1>23, <1>24, EntryKeeps

\* Where the variables of the construction stay, what is said of the tables does.
LEMMA TablesStay ==
    ASSUME TablesSaid, UNCHANGED constructionVars
    PROVE  TablesSaid'
<1>1. /\ rules' = rules /\ insignificant' = insignificant /\ stage' = stage /\ modes' = modes /\ significant' = significant
      /\ dispatch' = dispatch /\ unitRules' = unitRules /\ unitsOf' = unitsOf /\ inside' = inside /\ atStart' = atStart
      /\ mode' = mode /\ entry' = entry /\ layoutRoles' = layoutRoles /\ indentModes' = indentModes
  BY DEF constructionVars, parseVars, buildVars, tableVars
<1>2. \A m : /\ LastEntry(m)' = LastEntry(m) /\ Bucketed(Active(modes[m]))' = Bucketed(Active(modes[m]))
             /\ NamedKinds(m)' = NamedKinds(m) /\ ByLine(m)' = ByLine(m) /\ Unnamed(m)' = Unnamed(m)
             /\ \A k, start : RulesAfter(m, k, start)' = RulesAfter(m, k, start)
  BY <1>1, EntriesKept
<1>3. \A m, e : stage \in {"units", "built"} /\ Filled(m, e) => Filled(m, e)'
  <2> TAKE m, e
  <2> SUFFICES ASSUME stage \in {"units", "built"}, Filled(m, e) PROVE Filled(m, e)'
    OBVIOUS
  <2>1. Len(unitRules) \in Nat /\ Len(unitRules') \in Nat /\ Len(unitRules) <= Len(unitRules') /\ Len(modes) \in Nat
    <3>1. IsSequence(modes) /\ IsSequence(unitRules)
      BY DEF TablesSaid, TablesSized
    <3> QED BY <1>1, <3>1, SequenceTyped
  <2>2. UNCHANGED <<rules, modes>> /\ unitsOf'[m] = unitsOf[m] /\ inside'[m] = inside[m] /\ atStart'[m] = atStart[m]
    BY <1>1
  <2>3. \A u \in {m} \cup (Len(modes) + 1)..Len(unitRules) : unitRules'[u] = unitRules[u] /\ dispatch'[u] = dispatch[u]
    BY <1>1
  <2>4. Filled(m, e)
    OBVIOUS
  <2> QED BY ONLY <2>1, <2>2, <2>3, <2>4, FilledKept
<1>4. \A m : stage \in {"units", "built"} /\ Filled(m, LastEntry(m)) => Filled(m, LastEntry(m))'
  <2> TAKE m
  <2> SUFFICES ASSUME stage \in {"units", "built"}, Filled(m, LastEntry(m)) PROVE Filled(m, LastEntry(m))'
    OBVIOUS
  <2>1. PICK e : e = LastEntry(m)
    OBVIOUS
  <2>2. Filled(m, e)' /\ LastEntry(m)' = e
    BY <1>2, <1>3, <2>1
  <2> QED BY <2>2 DEF Filled
<1>5. \A m : Unfilled(m) => Unfilled(m)'
  BY <1>1, <1>2 DEF Unfilled
<1>6. stage \in {"units", "built"} /\ Filled(mode, entry) => Filled(mode, entry)'
  <2>1. PICK m, e : m = mode /\ e = entry
    OBVIOUS
  <2>2. stage \in {"units", "built"} /\ Filled(m, e) => Filled(m, e)'
    BY <1>3
  <2>3. mode' = m /\ entry' = e
    BY <1>1, <2>1
  <2> QED BY <2>1, <2>2, <2>3 DEF Filled
<1>7. TablesSized => TablesSized'
  BY <1>1 DEF TablesSized, IsSequence
<1>8. KindsWith("entry")' = KindsWith("entry") /\ KindsWith("value")' = KindsWith("value")
  BY <1>1 DEF KindsWith
<1>9. (\A i \in DOMAIN modes : dispatch[i] = Bucketed(Active(modes[i]))) => (\A i \in DOMAIN modes : dispatch[i] = Bucketed(Active(modes[i])))'
  BY <1>1, <1>2
<1>10. CASE stage \in {"units", "built"}
  <2>1. /\ TablesSized'
        /\ significant' = IF insignificant' = <<>> THEN <<>> ELSE [m \in DOMAIN modes' |-> modes'[m] \notin ToSet(insignificant')]
        /\ \A m \in 1..(mode' - 1) : Filled(m, LastEntry(m))'
        /\ mode' <= Len(modes') /\ entry' > 1 => Filled(mode, entry)'
        /\ mode' > Len(modes') => entry' = 1
        /\ \A m \in mode'..Len(modes') : m > mode' \/ entry' = 1 => Unfilled(m)'
    BY <1>1, <1>4, <1>5, <1>6, <1>7, <1>10 DEF TablesSaid
  <2>2. stage' = "built" =>
          /\ mode' > Len(modes')
          /\ layoutRoles' = [entries |-> KindsWith("entry"), values |-> KindsWith("value")]'
          /\ indentModes' = [m \in DOMAIN modes |-> m \in DOMAIN significant => significant[m]]'
    BY <1>1, <1>8 DEF TablesSaid
  <2>3. stage' \in {"units", "built"}
    BY <1>1, <1>10
  <2> QED BY <2>1, <2>2, <2>3 DEF TablesSaid
<1>11. CASE stage \in {"significance", "predicates"}
  <2>1. mode = 1 /\ entry = 1 /\ IsSequence(modes) /\ dispatch = [m \in DOMAIN modes |-> Bucketed(Active(modes[m]))]
    BY <1>11 DEF TablesSaid
  <2>2. dispatch' = [m \in DOMAIN modes |-> Bucketed(Active(modes[m]))]'
    BY <1>1, <1>2, <2>1
  <2>3. IsSequence(modes)'
    BY <1>1, <2>1 DEF IsSequence
  <2>4. stage = "predicates" => significant' = IF insignificant' = <<>> THEN <<>> ELSE [m \in DOMAIN modes' |-> modes'[m] \notin ToSet(insignificant')]
    BY <1>1 DEF TablesSaid
  <2> QED BY <1>1, <1>11, <2>1, <2>2, <2>3, <2>4 DEF TablesSaid
<1>12. CASE stage \notin {"significance", "predicates", "units", "built"}
  BY <1>1, <1>12 DEF TablesSaid
<1> QED BY <1>10, <1>11, <1>12

LEMMA NextModeKeeps ==
    ASSUME ParseInv, BuildInv, TablesSaid, NextMode
    PROVE  TablesSaid'
<1> DEFINE K == Len(NamedKinds(mode))
<1>1. /\ stage = "units" /\ mode <= Len(modes) /\ entry > (IF ByLine(mode) THEN 2 * K + 2 ELSE K + 1)
      /\ mode' = mode + 1 /\ entry' = 1
      /\ rules' = rules /\ insignificant' = insignificant /\ stage' = stage /\ modes' = modes /\ significant' = significant
      /\ dispatch' = dispatch /\ unitRules' = unitRules /\ unitsOf' = unitsOf /\ inside' = inside /\ atStart' = atStart
      /\ pass = "parsed"
  BY DEF NextMode, Splitting, Kinds, parseVars, BuildInv
<1>2. K \in Nat
  BY <1>1, KindsListed
<1> HIDE DEF K
<1>3. /\ TablesSized
      /\ significant = IF insignificant = <<>> THEN <<>> ELSE [m \in DOMAIN modes |-> modes[m] \notin ToSet(insignificant)]
      /\ \A m \in 1..(mode - 1) : Filled(m, LastEntry(m))
      /\ mode <= Len(modes) /\ entry > 1 => Filled(mode, entry)
      /\ \A m \in mode..Len(modes) : m > mode \/ entry = 1 => Unfilled(m)
  BY <1>1 DEF TablesSaid
<1>4. /\ IsSequence(modes) /\ IsSequence(unitRules) /\ IsSequence(dispatch) /\ Len(dispatch) = Len(unitRules) /\ Len(modes) <= Len(unitRules)
      /\ DOMAIN unitsOf = DOMAIN modes /\ DOMAIN inside = DOMAIN modes /\ DOMAIN atStart = DOMAIN modes
      /\ mode \in 1..(Len(modes) + 1) /\ entry \in Nat
  BY <1>3 DEF TablesSized
<1>5. Len(modes) \in Nat /\ Len(unitRules) \in Nat
  BY <1>4, SequenceTyped
<1>6. Filled(mode, LastEntry(mode))
  <2>1. entry > 1
    <3>1. CASE ByLine(mode)
      BY <1>1, <1>2, <1>4, <3>1
    <3>2. CASE ~ByLine(mode)
      BY <1>1, <1>2, <1>4, <3>2
    <3> QED BY <3>1, <3>2
  <2>2. Filled(mode, entry)
    BY <1>1, <1>3, <2>1
  <2>3. entry \in 2..(2 * K + 3) /\ (~ByLine(mode) => entry <= K + 2)
    BY <2>2 DEF Filled, K
  <2>4. LastEntry(mode) = IF ByLine(mode) THEN 2 * K + 3 ELSE K + 2
    BY DEF LastEntry, K
  <2>5. entry = LastEntry(mode)
    <3>1. CASE ByLine(mode)
      <4>1. entry > 2 * K + 2 /\ LastEntry(mode) = 2 * K + 3
        BY <1>1, <2>4, <3>1
      <4>2. entry \in 2..(2 * K + 3)
        BY <2>3
      <4> QED BY ONLY <1>2, <1>4, <4>1, <4>2
    <3>2. CASE ~ByLine(mode)
      <4>1. entry > K + 1 /\ entry <= K + 2 /\ LastEntry(mode) = K + 2
        BY <1>1, <2>3, <2>4, <3>2
      <4> QED BY <1>2, <1>4, <4>1
    <3> QED BY <3>1, <3>2
  <2> QED BY <2>2, <2>5
<1>7. ASSUME NEW m \in 1..mode PROVE Filled(m, LastEntry(m))'
  <2>1. PICK e : e = LastEntry(m)
    OBVIOUS
  <2>2. Filled(m, e)
    <3>1. Filled(m, LastEntry(m))
      <4>1. m = mode \/ m \in 1..(mode - 1)
        BY <1>4
      <4> QED BY <1>3, <1>6, <4>1
    <3> QED BY <2>1, <3>1
  <2>3. Filled(m, e)'
    <3>1. /\ UNCHANGED <<rules, modes>>
          /\ Len(unitRules) \in Nat /\ Len(unitRules') \in Nat /\ Len(unitRules) <= Len(unitRules') /\ Len(modes) \in Nat
          /\ \A u \in {m} \cup (Len(modes) + 1)..Len(unitRules) : unitRules'[u] = unitRules[u] /\ dispatch'[u] = dispatch[u]
          /\ unitsOf'[m] = unitsOf[m] /\ inside'[m] = inside[m] /\ atStart'[m] = atStart[m]
      BY <1>1, <1>5
    <3> QED BY ONLY <2>2, <3>1, FilledKept
  <2>4. LastEntry(m)' = e
    BY <1>1, <2>1, EntriesKept
  <2> QED BY <2>3, <2>4 DEF Filled
<1>8. ASSUME NEW m \in (mode + 1)..Len(modes) PROVE Unfilled(m)'
  <2>1. m \in mode..Len(modes) /\ m > mode
    BY <1>4, <1>5
  <2>2. Unfilled(m)
    BY <1>3, <2>1
  <2>3. Bucketed(Active(modes[m]))' = Bucketed(Active(modes[m]))
    BY <1>1, EntriesKept
  <2> QED BY <1>1, <2>2, <2>3 DEF Unfilled
<1>9. TablesSized'
  <2>1. IsSequence(modes)' /\ IsSequence(unitRules)' /\ IsSequence(dispatch)'
    BY <1>1, <1>4 DEF IsSequence
  <2>2. Len(dispatch') = Len(unitRules') /\ Len(modes') <= Len(unitRules')
    BY <1>1, <1>4
  <2>3. DOMAIN unitsOf' = DOMAIN modes' /\ DOMAIN inside' = DOMAIN modes' /\ DOMAIN atStart' = DOMAIN modes'
    BY <1>1, <1>4
  <2>4. mode' \in 1..(Len(modes') + 1) /\ entry' \in Nat /\ entry' >= 1
    BY <1>1, <1>4, <1>5
  <2> QED BY <2>1, <2>2, <2>3, <2>4 DEF TablesSized
<1>10. \A m \in 1..(mode' - 1) : Filled(m, LastEntry(m))'
  <2>1. mode' - 1 = mode
    BY <1>1, <1>4
  <2> QED BY <1>7, <2>1
<1>11. \A m \in mode'..Len(modes') : Unfilled(m)'
  BY <1>1, <1>8
<1>12. significant' = IF insignificant' = <<>> THEN <<>> ELSE [m \in DOMAIN modes' |-> modes'[m] \notin ToSet(insignificant')]
  BY <1>1, <1>3
<1>13. stage' = "units" /\ entry' = 1
  BY <1>1
<1> QED BY <1>9, <1>10, <1>11, <1>12, <1>13 DEF TablesSaid

LEMMA BuiltKeeps ==
    ASSUME ParseInv, BuildInv, TablesSaid, Built
    PROVE  TablesSaid'
<1>1. /\ stage = "units" /\ mode > Len(modes) /\ stage' = "built"
      /\ rules' = rules /\ insignificant' = insignificant /\ modes' = modes /\ significant' = significant
      /\ dispatch' = dispatch /\ unitRules' = unitRules /\ unitsOf' = unitsOf /\ inside' = inside /\ atStart' = atStart
      /\ mode' = mode /\ entry' = entry
      /\ layoutRoles' = [entries |-> KindsWith("entry"), values |-> KindsWith("value")]
      /\ indentModes' = [m \in DOMAIN modes |-> m \in DOMAIN significant => significant[m]]
  BY DEF Built, parseVars, tableVars
<1>2. /\ TablesSized
      /\ significant = IF insignificant = <<>> THEN <<>> ELSE [m \in DOMAIN modes |-> modes[m] \notin ToSet(insignificant)]
      /\ \A m \in 1..(mode - 1) : Filled(m, LastEntry(m))
      /\ entry = 1
  BY <1>1 DEF TablesSaid
<1>3. IsSequence(modes) /\ IsSequence(unitRules) /\ mode \in 1..(Len(modes) + 1)
  BY <1>2 DEF TablesSized
<1>4. Len(modes) \in Nat /\ Len(unitRules) \in Nat
  BY <1>3, SequenceTyped
<1>5. ASSUME NEW m \in 1..(mode - 1) PROVE Filled(m, LastEntry(m))'
  <2>1. PICK e : e = LastEntry(m)
    OBVIOUS
  <2>2. Filled(m, e)
    BY <1>2, <1>5, <2>1
  <2>3. Filled(m, e)'
    <3>1. /\ UNCHANGED <<rules, modes>>
          /\ Len(unitRules) \in Nat /\ Len(unitRules') \in Nat /\ Len(unitRules) <= Len(unitRules') /\ Len(modes) \in Nat
          /\ \A u \in {m} \cup (Len(modes) + 1)..Len(unitRules) : unitRules'[u] = unitRules[u] /\ dispatch'[u] = dispatch[u]
          /\ unitsOf'[m] = unitsOf[m] /\ inside'[m] = inside[m] /\ atStart'[m] = atStart[m]
      BY <1>1, <1>4
    <3> QED BY ONLY <2>2, <3>1, FilledKept
  <2>4. LastEntry(m)' = e
    BY <1>1, <2>1, EntriesKept
  <2> QED BY <2>3, <2>4 DEF Filled
<1>6. TablesSized'
  BY <1>1, <1>2 DEF TablesSized, IsSequence
<1>7. KindsWith("entry")' = KindsWith("entry") /\ KindsWith("value")' = KindsWith("value")
  BY <1>1 DEF KindsWith
<1>8. ~(mode' <= Len(modes')) /\ mode'..Len(modes') = {} /\ mode' > Len(modes') /\ entry' = 1
  BY <1>1, <1>2, <1>3, <1>4
<1>9. /\ layoutRoles' = [entries |-> KindsWith("entry"), values |-> KindsWith("value")]'
      /\ indentModes' = [m \in DOMAIN modes |-> m \in DOMAIN significant => significant[m]]'
  BY <1>1, <1>7
<1>10. significant' = IF insignificant' = <<>> THEN <<>> ELSE [m \in DOMAIN modes' |-> modes'[m] \notin ToSet(insignificant')]
  BY <1>1, <1>2
<1>11. \A m \in 1..(mode' - 1) : Filled(m, LastEntry(m))'
  BY <1>1, <1>5
<1> QED BY <1>1, <1>6, <1>8, <1>9, <1>10, <1>11 DEF TablesSaid

LEMMA TablesKeep ==
    ASSUME ParseInv, BuildInv, TablesSaid, [Next]_cliVars
    PROVE  TablesSaid'
<1>1. CASE Parse
  <2>1. pass # "parsed" /\ UNCHANGED buildVars
    BY <1>1 DEF Parse, ParseNext, Ignore, Directive, BadDirective, BadFields, Fields, BadOption, Option, BadFragment, Fragment,
           EndLine, NoRules, EndOfLines, AtLine, AtOption, AtEndOfLine, CheckTargets, ResolvePredicates, ResolveContinuations,
           ApplyDirectives, Pass, PassTo
  <2>2. stage' = stage /\ mode' = mode /\ entry' = entry /\ stage = "none"
    BY <2>1 DEF buildVars, tableVars, BuildInv
  <2> QED BY <2>2 DEF TablesSaid
<1>2. CASE Build
  BY <1>2, DispatchKeeps, SignificanceKeeps, BeginUnitsKeeps, OwnUnitKeeps, InsideKeeps, StartOwnKeeps, StartVariantKeeps, NextModeKeeps,
     BuiltKeeps DEF Build, BuildNext
<1>3. CASE UNCHANGED cliVars
  BY <1>3, TablesStay DEF cliVars
<1>4. CASE \/ TakeWord \/ Usage \/ HasCommand \/ Informs \/ Check \/ BadExample \/ TakeExample \/ OpenGrammar
           \/ NoGrammar \/ RefusedGrammar \/ HasLexer \/ ReadInput \/ NoInput \/ Dump \/ PrintToken \/ EndOfTokens
  <2>1. UNCHANGED constructionVars
    BY <1>4 DEF TakeWord, Usage, HasCommand, Informs, Check, BadExample, TakeExample, OpenGrammar, NoGrammar,
                RefusedGrammar, HasLexer, ReadInput, NoInput, Dump, PrintToken, EndOfTokens, Exit, Goes
  <2> QED BY <2>1, TablesStay
<1> QED BY <1>1, <1>2, <1>3, <1>4 DEF Next

\* The tables, as they are filled.
LEMMA TablesFilled == Spec => []TablesSaid
<1>1. Init => TablesSaid
  BY DEF Init, BuildInit, TablesSaid
<1>2. ParseInv /\ BuildInv /\ TablesSaid /\ [Next]_cliVars => TablesSaid'
  BY TablesKeep
<1> QED BY <1>1, <1>2, GrammarsAsWritten, BuildsAsTold, PTL DEF Spec

-----------------------------------------------------------------------------
(* What the tables answer *)

\* A table of a mode, filled, gives the unit of what is active after a kind.
LEMMA TableAnswers ==
    ASSUME ParseInv, pass = "parsed", NEW m, NEW table, NEW start \in BOOLEAN, NEW K, K = Len(NamedKinds(m)),
           TableTo(m, table, start, K), NEW previous
    PROVE  LET found == { v \in DOMAIN table.variants : table.variants[v][1] = previous }
           IN  Holds(m, IF found # {} THEN table.variants[Min(found)][2] ELSE table.own, RulesAfter(m, previous, start))
<1> DEFINE s == table.variants
           found == { v \in DOMAIN s : s[v][1] = previous }
           U == KindsNamed(m)
<1>1. /\ K \in Nat /\ \A k : (\E v \in 1..K : NamedKinds(m)[v] = k) <=> k \in U
  BY KindsListed
<1>2. /\ Holds(m, table.own, RulesAfter(m, Unnamed(m), start)) /\ IsSequence(s) /\ Len(s) = K
      /\ \A v \in 1..K : s[v][1] = NamedKinds(m)[v] /\ Holds(m, s[v][2], RulesAfter(m, NamedKinds(m)[v], start))
  BY DEF TableTo
<1>3. DOMAIN s = 1..K
  BY <1>2, SequenceTyped
<1> HIDE DEF s, U
<1>4. CASE found # {}
  <2> DEFINE v == Min(found)
  <2>1. v \in found
    <3>1. found \in SUBSET Nat
      BY <1>1, <1>3
    <3> HIDE DEF found
    <3> QED BY <1>4, <3>1, MinOfNaturals
  <2>2. v \in 1..K /\ s[v][1] = previous
    BY <1>3, <2>1
  <2> HIDE DEF v, found
  <2>3. NamedKinds(m)[v] = previous /\ Holds(m, s[v][2], RulesAfter(m, NamedKinds(m)[v], start))
    BY <1>2, <2>2
  <2>4. Holds(m, s[v][2], RulesAfter(m, previous, start))
    BY <2>3
  <2> QED BY <1>4, <2>4 DEF v, found, s
<1>5. CASE found = {}
  <2>1. previous \notin U
    <3>1. \A v \in 1..K : NamedKinds(m)[v] # previous
      BY <1>2, <1>3, <1>5
    <3> QED BY <1>1, <3>1
  <2>2. RulesAfter(m, previous, start) = RulesAfter(m, Unnamed(m), start)
    BY <2>1, SameUnnamed DEF U
  <2>3. Holds(m, table.own, RulesAfter(m, previous, start))
    BY <1>2, <2>2
  <2> HIDE DEF found
  <2> QED BY <1>5, <2>3 DEF found, s
<1> QED BY <1>4, <1>5

\* The unit that munches in a mode whose tables are filled holds what is active there.
LEMMA UnitAnswers ==
    ASSUME ParseInv, pass = "parsed", NEW m, Filled(m, LastEntry(m)), NEW previous, NEW start \in BOOLEAN
    PROVE  Holds(m, UnitOf(m, previous, start), RulesAfter(m, previous, start))
<1> DEFINE K == Len(NamedKinds(m))
<1>1. K \in Nat /\ \A k : (\E v \in 1..K : NamedKinds(m)[v] = k) <=> k \in KindsNamed(m)
  BY KindsListed
<1>2. LastEntry(m) = IF ByLine(m) THEN 2 * K + 3 ELSE K + 2
  BY DEF LastEntry
<1> HIDE DEF K
<1>3. LastEntry(m) <= K + 2 <=> ~ByLine(m)
  <2>1. CASE ByLine(m)
    <3>1. ~(LastEntry(m) <= K + 2)
      BY <1>1, <1>2, <2>1
    <3> QED BY <2>1, <3>1
  <2>2. CASE ~ByLine(m)
    <3>1. LastEntry(m) <= K + 2
      BY <1>1, <1>2, <2>2
    <3> QED BY <2>2, <3>1
  <2> QED BY <2>1, <2>2
<1>4. (IF LastEntry(m) <= K + 2 THEN LastEntry(m) - 2 ELSE K) = K
  <2>1. CASE ByLine(m)
    BY <1>3, <2>1
  <2>2. CASE ~ByLine(m)
    <3>1. LastEntry(m) = K + 2
      BY <1>2, <2>2
    <3> QED BY <1>1, <3>1
  <2> QED BY <2>1, <2>2
<1>5. /\ inside[m].own = m /\ inside[m].byLine = ByLine(m) /\ inside[m].single = (NamedKinds(m) = <<>> /\ ~ByLine(m))
      /\ TableTo(m, inside[m], FALSE, K)
  <2>1. /\ inside[m].own = m /\ inside[m].byLine = ByLine(m) /\ inside[m].single = (NamedKinds(m) = <<>> /\ ~ByLine(m))
        /\ TableTo(m, inside[m], FALSE, IF LastEntry(m) <= K + 2 THEN LastEntry(m) - 2 ELSE K)
    BY DEF Filled, K
  <2> QED BY <1>4, <2>1
<1>6. ByLine(m) => TableTo(m, atStart[m], TRUE, K)
  <2> SUFFICES ASSUME ByLine(m) PROVE TableTo(m, atStart[m], TRUE, K)
    OBVIOUS
  <2>1. ~(LastEntry(m) <= K + 2)
    BY <1>3
  <2>2. TableTo(m, atStart[m], TRUE, LastEntry(m) - K - 3)
    BY <2>1 DEF Filled, K
  <2>3. LastEntry(m) - K - 3 = K
    BY <1>1, <1>2
  <2> QED BY <2>2, <2>3
<1> DEFINE table == IF inside[m].byLine /\ start THEN atStart[m] ELSE inside[m]
           found == { v \in DOMAIN table.variants : table.variants[v][1] = previous }
<1>7. UnitOf(m, previous, start) =
          IF inside[m].single THEN m ELSE IF found # {} THEN table.variants[Min(found)][2] ELSE table.own
  BY DEF UnitOf
<1>8. CASE inside[m].single
  <2>1. NamedKinds(m) = <<>> /\ ~ByLine(m)
    BY <1>5, <1>8
  <2>2. K = 0
    BY <2>1 DEF K
  <2>3. previous \notin KindsNamed(m)
    BY <1>1, <2>2
  <2>4. RulesAfter(m, previous, FALSE) = RulesAfter(m, Unnamed(m), FALSE)
    BY <2>3, SameUnnamed
  <2>5. RulesAfter(m, previous, start) = RulesAfter(m, Unnamed(m), FALSE)
    <3>1. CASE start
      BY <2>1, <2>4, <3>1, SameOnLine
    <3>2. CASE ~start
      <4>1. start = FALSE
        BY <3>2
      <4> QED BY <2>4, <4>1
    <3> QED BY <3>1, <3>2
  <2>6. Holds(m, m, RulesAfter(m, Unnamed(m), FALSE))
    BY <1>5 DEF TableTo
  <2> QED BY <1>7, <1>8, <2>5, <2>6
<1>9. CASE ~inside[m].single
  <2>1. CASE ByLine(m) /\ start
    <3>1. table = atStart[m] /\ start = TRUE
      BY <1>5, <2>1
    <3>2. TableTo(m, table, TRUE, K)
      BY <1>6, <2>1, <3>1
    <3> HIDE DEF table
    <3>3. Holds(m, IF found # {} THEN table.variants[Min(found)][2] ELSE table.own, RulesAfter(m, previous, TRUE))
      BY <3>2, TableAnswers DEF K
    <3> QED BY <1>7, <1>9, <3>1, <3>3
  <2>2. CASE ~(ByLine(m) /\ start)
    <3>1. table = inside[m]
      BY <1>5, <2>2
    <3>2. TableTo(m, table, FALSE, K)
      BY <1>5, <3>1
    <3>3. RulesAfter(m, previous, start) = RulesAfter(m, previous, FALSE)
      <4>1. CASE start
        BY <2>2, <4>1, SameOnLine
      <4>2. CASE ~start
        <5>1. start = FALSE
          BY <4>2
        <5> QED BY <5>1
      <4> QED BY <4>1, <4>2
    <3> HIDE DEF table
    <3>4. Holds(m, IF found # {} THEN table.variants[Min(found)][2] ELSE table.own, RulesAfter(m, previous, FALSE))
      BY <3>2, TableAnswers DEF K
    <3> QED BY <1>7, <1>9, <3>3, <3>4
  <2> QED BY <2>1, <2>2
<1> QED BY <1>8, <1>9

\* The names of the directives are the insignificant modes.
LEMMA InsignificantGiven ==
    ASSUME ParseInv, pass = "parsed", NEW x
    PROVE  /\ x \in ToSet(insignificant) <=> \E l \in DOMAIN file : file[l].is = "directive" /\ x \in ToSet(file[l].names)
           /\ insignificant = <<>> => x \notin ToSet(insignificant)
<1> DEFINE seqs == [l \in DOMAIN file |-> IF file[l].is = "directive" THEN file[l].names ELSE <<>>]
           f == FlattenSeq(seqs)
<1>1. ParseSaid /\ line = Len(file) + 1 /\ option = 0 /\ insignificant = f
  BY AcceptedMeans
<1>2. /\ DOMAIN file = 1..Len(file) /\ Len(file) \in Nat
      /\ \A l \in 1..Len(file) : file[l].is = "directive" => file[l].names \in Seq(STRING)
  BY <1>1, AfterLines, FileTyped
<1>3. seqs \in Seq(Seq(STRING)) /\ Len(seqs) = Len(file)
  <2> DEFINE T == Seq(STRING)
             n == Len(file)
  <2>1. \A l \in 1..n : (IF file[l].is = "directive" THEN file[l].names ELSE <<>>) \in T
    <3>1. <<>> \in T /\ \A l \in 1..n : file[l].is = "directive" => file[l].names \in T
      BY <1>2
    <3> HIDE DEF T, n
    <3> QED BY <3>1
  <2>2. seqs \in [1..n -> T] /\ n \in Nat
    BY <1>2, <2>1
  <2> HIDE DEF T, n, seqs
  <2>3. seqs \in Seq(T) /\ Len(seqs) = n
    BY <2>2
  <2> QED BY <2>3 DEF T, n
<1>4. f \in Seq(STRING) /\ ((\E k \in 1..Len(f) : f[k] = x) <=> \E i \in 1..Len(seqs) : \E k \in 1..Len(seqs[i]) : seqs[i][k] = x)
  <2>1. f \in Seq(STRING) /\ \A y : (\E k \in 1..Len(f) : f[k] = y) <=> \E i \in 1..Len(seqs) : \E k \in 1..Len(seqs[i]) : seqs[i][k] = y
    <3> HIDE DEF seqs
    <3> QED BY <1>3, FlattenMembers
  <2> HIDE DEF f, seqs
  <2> QED BY <2>1
<1>5. \A l \in 1..Len(file) : (\E k \in 1..Len(seqs[l]) : seqs[l][k] = x)
                                  <=> file[l].is = "directive" /\ x \in ToSet(file[l].names)
  <2> TAKE l \in 1..Len(file)
  <2>1. CASE file[l].is = "directive"
    <3>1. seqs[l] = file[l].names /\ file[l].names \in Seq(STRING)
      BY <1>2, <2>1
    <3> DEFINE s == file[l].names
    <3>2. x \in ToSet(s) <=> \E k \in 1..Len(s) : s[k] = x
      <4>1. IsSequence(s)
        <5> HIDE DEF s
        <5>1. s \in Seq(STRING)
          BY <3>1 DEF s
        <5> QED BY <5>1, TypedSequence
      <4>2. ToSet(s) = { s[k] : k \in 1..Len(s) }
        BY <4>1, SequenceTyped
      <4> HIDE DEF s
      <4> QED BY <4>2
    <3> HIDE DEF seqs
    <3> QED BY <2>1, <3>1, <3>2
  <2>2. CASE file[l].is # "directive"
    <3>1. seqs[l] = <<>>
      BY <1>2, <2>2
    <3>2. Len(seqs[l]) = 0 /\ 1..0 = {}
      BY <3>1
    <3> HIDE DEF seqs
    <3> QED BY <2>2, <3>2
  <2> QED BY <2>1, <2>2
<1>6. x \in ToSet(f) <=> \E k \in 1..Len(f) : f[k] = x
  <2> HIDE DEF f
  <2>1. ToSet(f) = { f[k] : k \in 1..Len(f) }
    BY <1>4, TypedSequence, SequenceTyped
  <2> QED BY <2>1
<1>7. f = <<>> => x \notin ToSet(f)
  BY DEF ToSet
<1> HIDE DEF f, seqs
<1> QED BY <1>1, <1>2, <1>3, <1>4, <1>5, <1>6, <1>7

\* What the layout pass and the indentation are told.
LEMMA RolesAnswer ==
    ASSUME ParseInv, TablesSaid, pass = "parsed", stage = "built"
    PROVE  /\ \A r \in DOMAIN rules :
              /\ r - 1 \in layoutRoles.entries <=> NamesGiven(RuleLines[r], {"indent="}) = <<"entry">>
              /\ r - 1 \in layoutRoles.values <=> NamesGiven(RuleLines[r], {"indent="}) = <<"value">>
           /\ \A m \in DOMAIN modes :
              indentModes[m] <=> \A l \in DOMAIN file : file[l].is = "directive" => modes[m] \notin ToSet(file[l].names)
<1>1. /\ layoutRoles = [entries |-> KindsWith("entry"), values |-> KindsWith("value")]
      /\ indentModes = [m \in DOMAIN modes |-> m \in DOMAIN significant => significant[m]]
      /\ significant = IF insignificant = <<>> THEN <<>> ELSE [m \in DOMAIN modes |-> modes[m] \notin ToSet(insignificant)]
  BY DEF TablesSaid
<1>2. ParseSaid /\ line = Len(file) + 1 /\ option = 0 /\ DOMAIN rules = 1..Len(rules)
  BY AcceptedMeans
<1>3. Len(rules) \in Nat /\ \A r \in 1..Len(rules) : rules[r].kind = r - 1
  BY <1>2, AfterLines
<1>4. ASSUME NEW r \in DOMAIN rules, NEW role \in {"entry", "value"}
      PROVE  r - 1 \in KindsWith(role) <=> NamesGiven(RuleLines[r], {"indent="}) = <<role>>
  <2>1. rules[r].indent = role <=> NamesGiven(RuleLines[r], {"indent="}) = <<role>>
    BY <1>2, <1>4, PlaceMeans
  <2>2. \A i \in DOMAIN rules : rules[i].kind = r - 1 <=> i = r
    BY <1>2, <1>3, <1>4
  <2>3. r - 1 \in KindsWith(role) <=> rules[r].indent = role
    BY <1>4, <2>2 DEF KindsWith
  <2> QED BY <2>1, <2>3
<1>5. ASSUME NEW m \in DOMAIN modes PROVE indentModes[m] <=> modes[m] \notin ToSet(insignificant)
  <2>1. indentModes[m] = (m \in DOMAIN significant => significant[m])
    BY <1>1, <1>5
  <2>2. CASE insignificant = <<>>
    <3>1. m \notin DOMAIN significant
      BY <1>1, <1>5, <2>2
    <3>2. modes[m] \notin ToSet(insignificant)
      BY <2>2, InsignificantGiven
    <3> QED BY <2>1, <3>1, <3>2
  <2>3. CASE insignificant # <<>>
    <3>1. m \in DOMAIN significant /\ significant[m] = (modes[m] \notin ToSet(insignificant))
      BY <1>1, <1>5, <2>3
    <3> QED BY <2>1, <3>1
  <2> QED BY <2>2, <2>3
<1>6. \A m \in DOMAIN modes :
         indentModes[m] <=> \A l \in DOMAIN file : file[l].is = "directive" => modes[m] \notin ToSet(file[l].names)
  <2> TAKE m \in DOMAIN modes
  <2>1. modes[m] \in ToSet(insignificant) <=> \E l \in DOMAIN file : file[l].is = "directive" /\ modes[m] \in ToSet(file[l].names)
    BY InsignificantGiven
  <2> QED BY <1>5, <2>1
<1>7. layoutRoles.entries = KindsWith("entry") /\ layoutRoles.values = KindsWith("value")
  BY <1>1
<1> QED BY <1>4, <1>6, <1>7

\* Those of them something begins.
Answered(m, previous, start) == { r \in Allowed(m, previous, start) : file[RuleLines[r]].pattern \notin Beginless }

\* The lexer's tables answer as the grammar is written: whatever token came before and wherever the line
\* starts, the unit they give holds the rules whose options allow it there, its dispatch files those of
\* them a text may begin with, and the layout pass is told of the roles and the modes the file gives (build_units, build_significance).
THEOREM TablesAnswerAsWritten == Spec => []TablesAnswer
<1>1. ASSUME ParseInv, BuildInv, TablesSaid PROVE TablesAnswer
  <2> SUFFICES ASSUME stage = "built" PROVE TablesAnswer
    BY DEF TablesAnswer
  <2>1. pass = "parsed"
    BY <1>1 DEF BuildInv
  <2>2. ParseSaid /\ line = Len(file) + 1 /\ option = 0 /\ DOMAIN rules = 1..Len(rules)
    BY <1>1, <2>1, AcceptedMeans
  <2>3. Len(rules) \in Nat /\ \A r \in 1..Len(rules) : rules[r].kind = r - 1
    BY <2>2, AfterLines
  <2>4. \A m \in DOMAIN modes : Filled(m, LastEntry(m))
    <3>1. TablesSized /\ mode > Len(modes) /\ \A m \in 1..(mode - 1) : Filled(m, LastEntry(m))
      BY <1>1 DEF TablesSaid
    <3>2. IsSequence(modes) /\ mode \in 1..(Len(modes) + 1)
      BY <3>1 DEF TablesSized
    <3>3. Len(modes) \in Nat /\ DOMAIN modes = 1..Len(modes)
      BY <3>2, SequenceTyped
    <3> QED BY <3>1, <3>2, <3>3
  <2>5. { rules[i].kind : i \in DOMAIN rules } \subseteq 0..(Len(rules) - 1)
    BY <2>2, <2>3
  <2>6. ASSUME NEW m \in DOMAIN modes, NEW start \in BOOLEAN,
               NEW previous \in {EndOfInput, ErrorKind} \cup { rules[i].kind : i \in DOMAIN rules }
        PROVE  unitRules[UnitOf(m, previous, start)] = Allowed(m, previous, start)
               /\ dispatch[UnitOf(m, previous, start)] = Answered(m, previous, start)
    <3>1. RulesAfter(m, previous, start) = Allowed(m, previous, start)
      <4>1. ParseInv /\ pass = "parsed" /\ previous \in {EndOfInput, ErrorKind} \cup 0..(Len(rules) - 1) /\ start \in BOOLEAN
        BY <1>1, <2>1, <2>5, <2>6
      <4> QED BY ONLY <4>1, AllowedMeans
    <3>2. Holds(m, UnitOf(m, previous, start), RulesAfter(m, previous, start))
      BY <1>1, <2>1, <2>4, <2>6, UnitAnswers
    <3>3. Bucketed(Allowed(m, previous, start)) = Answered(m, previous, start)
      <4>1. \A r \in DOMAIN rules : rules[r].pattern = file[RuleLines[r]].pattern
        BY <2>2, RuleMeans
      <4>2. Allowed(m, previous, start) \subseteq DOMAIN rules
        BY DEF Allowed
      <4> QED BY <4>1, <4>2 DEF Bucketed, Answered
    <3> QED BY <3>1, <3>2, <3>3 DEF Holds
  <2>7. /\ \A r \in DOMAIN rules :
              /\ r - 1 \in layoutRoles.entries <=> NamesGiven(RuleLines[r], {"indent="}) = <<"entry">>
              /\ r - 1 \in layoutRoles.values <=> NamesGiven(RuleLines[r], {"indent="}) = <<"value">>
        /\ \A m \in DOMAIN modes :
              indentModes[m] <=> \A l \in DOMAIN file : file[l].is = "directive" => modes[m] \notin ToSet(file[l].names)
    BY <1>1, <2>1, RolesAnswer
  <2>8. \A m \in DOMAIN modes, previous \in {EndOfInput, ErrorKind} \cup { rules[i].kind : i \in DOMAIN rules }, start \in BOOLEAN :
            unitRules[UnitOf(m, previous, start)] = Allowed(m, previous, start)
            /\ dispatch[UnitOf(m, previous, start)] = Answered(m, previous, start)
    BY <2>6
  <2> QED BY ONLY <2>7, <2>8, ZenonT(30) DEF TablesAnswer, Allowed, Answered
<1> QED BY <1>1, GrammarsAsWritten, BuildsAsTold, TablesFilled, PTL

-----------------------------------------------------------------------------
(* What is written of a lexeme reads back *)

\* What is written: strings, those the code names among them (no prover knows a literal for one).
Written ==
    STRING \cup {"\\", "t", "n", "r", "x", "0", "7", "tab", "nl", "cr", "bel", "bytes", "codepoints", "utf16",
                "EOF", "NEWLINE", "INDENT", "DEDENT", "ERROR", "example", "?"}

\* Whether each backslash written opens an escape, and what is meant by each byte.
Opens(w) == LET opens[i \in 0..Len(w)] == i > 0 /\ w[i] = "\\" /\ ~opens[i - 1] IN opens

MeansAt(after, afterX, afterOne, opens, c) ==
    CASE after /\ c = "t" -> <<"tab">>
      [] after /\ c = "n" -> <<"nl">>
      [] after /\ c = "r" -> <<"cr">>
      [] after /\ c = "x" -> <<"bel">>
      [] afterX -> <<>>
      [] afterOne -> <<>>
      [] opens -> <<>>
      [] OTHER -> <<c>>

Meant(w, i) ==
    MeansAt(i > 1 /\ Opens(w)[i - 1], i > 2 /\ Opens(w)[i - 2] /\ w[i - 1] = "x", i > 3 /\ Opens(w)[i - 3] /\ w[i - 2] = "x",
            Opens(w)[i], w[i])

LEMMA UnescapedIs == \A w : Unescaped(w) = FlattenSeq([i \in DOMAIN w |-> Meant(w, i)])
BY DEF Unescaped, Meant, MeansAt, Opens

LEMMA OpensSteps ==
    ASSUME NEW w \in Seq(Written)
    PROVE  /\ Opens(w) \in [0..Len(w) -> BOOLEAN] /\ ~Opens(w)[0]
           /\ \A i \in 1..Len(w) : Opens(w)[i] <=> w[i] = "\\" /\ ~Opens(w)[i - 1]
<1> DEFINE n == Len(w)
           step == [p \in (1..n) \X BOOLEAN |-> w[p[1]] = "\\" /\ ~p[2]]
           Is(g) == g = [i \in 0..n |-> i > 0 /\ w[i] = "\\" /\ ~g[i - 1]]
<1>1. n \in Nat
  OBVIOUS
<1>2. step \in [(1..n) \X BOOLEAN -> BOOLEAN]
      /\ \A i \in 1..n, b \in BOOLEAN : step[<<i, b>>] = (w[i] = "\\" /\ ~b)
  OBVIOUS
<1>3. PICK f : Iterates(f, n, BOOLEAN, FALSE, step)
  <2> HIDE DEF n, step
  <2> QED BY <1>1, <1>2, Iterated
<1>4. f \in [0..n -> BOOLEAN] /\ f[0] = FALSE /\ \A i \in 1..n : f[i] = step[<<i, f[i - 1]>>]
  BY <1>3 DEF Iterates
<1>5. \A i \in 1..n : f[i] = (w[i] = "\\" /\ ~f[i - 1])
  <2> HIDE DEF step
  <2>1. \A i \in 1..n : i - 1 \in 0..n
    BY <1>1
  <2>2. \A i \in 1..n : f[i - 1] \in BOOLEAN
    BY <1>4, <2>1
  <2> QED BY <1>2, <1>4, <2>2
<1> HIDE DEF step
<1>6. Is(f)
  <2>1. \A i \in 0..n : f[i] = (i > 0 /\ w[i] = "\\" /\ ~f[i - 1])
    <3> TAKE i \in 0..n
    <3>1. CASE i = 0
      BY <1>4, <3>1
    <3>2. CASE i # 0
      <4>1. i \in 1..n /\ i > 0
        BY <1>1, <3>2
      <4> QED BY <1>5, <4>1
    <3> QED BY <3>1, <3>2
  <2>2. f = [i \in 0..n |-> f[i]]
    BY <1>4
  <2> QED BY <2>1, <2>2
<1>7. Is(Opens(w))
  <2>1. Opens(w) = CHOOSE g : Is(g)
    BY DEF Opens
  <2> HIDE DEF Is
  <2> QED BY <1>6, <2>1
<1> DEFINE o == Opens(w)
<1> HIDE DEF o
<1>8. \A i \in 0..n : o[i] = (i > 0 /\ w[i] = "\\" /\ ~o[i - 1])
  BY <1>7 DEF o
<1>9. o \in [0..n -> BOOLEAN]
  <2>1. o = [i \in 0..n |-> i > 0 /\ w[i] = "\\" /\ ~o[i - 1]]
    BY <1>7 DEF o
  <2> QED BY <2>1
<1>10. 0 \in 0..n /\ \A i \in 1..n : i \in 0..n /\ i > 0
  BY <1>1
<1> QED BY <1>8, <1>9, <1>10 DEF o

\* A sequence and one element more.
LEMMA OneLonger ==
    ASSUME NEW T, NEW w \in Seq(T), NEW c \in T
    PROVE  /\ Len(w) \in Nat /\ Append(w, c) \in Seq(T) /\ Len(Append(w, c)) = Len(w) + 1
           /\ Append(w, c)[Len(w) + 1] = c
           /\ \A i \in 1..Len(w) : Append(w, c)[i] = w[i]
OBVIOUS

LEMMA OneJoined ==
    ASSUME NEW T, NEW s \in Seq(T), NEW c \in T
    PROVE  <<c>> \in Seq(T) /\ s \o <<c>> = Append(s, c) /\ s \o <<>> = s
BY ConcatEmptySeq

\* More written leaves what opened.
LEMMA OpensKept ==
    ASSUME NEW w \in Seq(Written), NEW c \in Written, NEW v, v = Append(w, c)
    PROVE  /\ v \in Seq(Written) /\ Len(v) = Len(w) + 1 /\ v[Len(w) + 1] = c /\ \A i \in 1..Len(w) : v[i] = w[i]
           /\ \A i \in 0..Len(w) : Opens(v)[i] <=> Opens(w)[i]
           /\ Opens(v)[Len(w) + 1] <=> c = "\\" /\ ~Opens(w)[Len(w)]
<1> DEFINE n == Len(w)
           Good == { i \in 0..n : Opens(v)[i] <=> Opens(w)[i] }
<1>1. n \in Nat /\ v \in Seq(Written) /\ Len(v) = n + 1 /\ v[n + 1] = c /\ \A i \in 1..n : v[i] = w[i]
  BY OneLonger
<1>2. /\ ~Opens(w)[0] /\ \A i \in 1..n : Opens(w)[i] <=> w[i] = "\\" /\ ~Opens(w)[i - 1]
      /\ ~Opens(v)[0] /\ \A i \in 1..(n + 1) : Opens(v)[i] <=> v[i] = "\\" /\ ~Opens(v)[i - 1]
  BY <1>1, OpensSteps
<1> HIDE DEF n
<1>3. 0 \in Good
  BY <1>1, <1>2
<1>4. ASSUME NEW i \in (0 + 1)..n, i - 1 \in Good PROVE i \in Good
  <2>1. i \in 1..n /\ i \in 1..(n + 1) /\ i \in 0..n
    BY <1>1
  <2> QED BY <1>1, <1>2, <1>4, <2>1
<1>5. \A i \in 0..n : i \in Good
  <2> HIDE DEF Good
  <2>1. 0 \in Int /\ n \in Int
    BY <1>1
  <2> QED BY <1>3, <1>4, <2>1, Upward
<1>6. n \in 0..n /\ n + 1 \in 1..(n + 1) /\ (n + 1) - 1 = n
  BY <1>1
<1> QED BY <1>1, <1>2, <1>5, <1>6 DEF n

\* Where a reader is in what is written: after a backslash that opens, and one or two bytes past its x.
AfterBackslash(w) == Opens(w)[Len(w)]
AfterX(w)         == Len(w) > 1 /\ Opens(w)[Len(w) - 1] /\ w[Len(w)] = "x"
AfterXAndOne(w)   == Len(w) > 2 /\ Opens(w)[Len(w) - 2] /\ w[Len(w) - 1] = "x"


\* What a byte more means, by where the reader is.
MeansNext(w, c) == MeansAt(AfterBackslash(w), AfterX(w), AfterXAndOne(w), c = "\\" /\ ~AfterBackslash(w), c)

\* A byte means a few at most.
LEMMA MeansBytes ==
    ASSUME NEW after, NEW afterX, NEW afterOne, NEW opens, NEW c \in Written
    PROVE  MeansAt(after, afterX, afterOne, opens, c) \in Seq(Written)
<1> DEFINE T == Seq(Written)
<1>1. <<c>> \in T /\ <<>> \in T /\ <<"tab">> \in T /\ <<"nl">> \in T /\ <<"cr">> \in T /\ <<"bel">> \in T
  <2>1. <<>> \in T
    OBVIOUS
  <2> HIDE DEF T
  <2>2. \A d \in Written : <<d>> \in T
    BY <2>1, OneJoined DEF T
  <2>3. {"tab", "nl", "cr", "bel"} \subseteq Written
    BY DEF Written
  <2> HIDE DEF T
  <2> QED BY <2>1, <2>2, <2>3
<1> HIDE DEF T
<1>2. MeansAt(after, afterX, afterOne, opens, c) \in T
  BY <1>1 DEF MeansAt
<1> QED BY <1>2 DEF T

\* A byte more adds what it means to what was read.
LEMMA ReadsOneMore ==
    ASSUME NEW w \in Seq(Written), NEW c \in Written, NEW v, v = Append(w, c)
    PROVE  /\ v \in Seq(Written) /\ Unescaped(w) \in Seq(Written)
           /\ Unescaped(v) = Unescaped(w) \o MeansNext(w, c)
           /\ AfterBackslash(v) <=> c = "\\" /\ ~AfterBackslash(w)
           /\ AfterX(v) <=> AfterBackslash(w) /\ c = "x"
           /\ AfterXAndOne(v) <=> AfterX(w)
<1> DEFINE n == Len(w)
           s == [i \in 1..n |-> Meant(w, i)]
           T == Seq(Written)
<1>1. /\ n \in Nat /\ v \in Seq(Written) /\ Len(v) = n + 1 /\ v[n + 1] = c /\ \A i \in 1..n : v[i] = w[i]
      /\ \A i \in 0..n : Opens(v)[i] <=> Opens(w)[i]
      /\ Opens(v)[n + 1] <=> c = "\\" /\ ~Opens(w)[n]
      /\ DOMAIN w = 1..n /\ DOMAIN v = 1..(n + 1)
  <2>1. v \in Seq(Written) /\ Len(v) = Len(w) + 1 /\ v[Len(w) + 1] = c
    BY OpensKept
  <2>2. \A i \in 1..Len(w) : v[i] = w[i]
    BY OpensKept
  <2>3. \A i \in 0..Len(w) : Opens(v)[i] <=> Opens(w)[i]
    BY OpensKept
  <2>4. Opens(v)[Len(w) + 1] <=> c = "\\" /\ ~Opens(w)[Len(w)]
    BY OpensKept
  <2>5. Len(w) \in Nat /\ DOMAIN w = 1..Len(w) /\ DOMAIN v = 1..Len(v)
    BY <2>1, LenProperties
  <2> QED BY <2>1, <2>2, <2>3, <2>4, <2>5
<1>0. ~Opens(w)[0]
  BY OpensSteps
<1>2. \A i \in 1..n : w[i] \in Written
  BY <1>1
<1> HIDE DEF n
<1>3. \A i \in 1..n : Meant(w, i) \in T
  BY <1>2, MeansBytes DEF Meant
<1>4. s \in Seq(T) /\ Len(s) = n
  <2> HIDE DEF T
  <2> QED BY <1>1, <1>3
<1>5. \A i \in 1..n : Meant(v, i) = Meant(w, i)
  <2> TAKE i \in 1..n
  <2>1. /\ v[i] = w[i] /\ (Opens(v)[i] <=> Opens(w)[i])
        /\ i > 1 => (Opens(v)[i - 1] <=> Opens(w)[i - 1])
        /\ i > 2 => (Opens(v)[i - 2] <=> Opens(w)[i - 2]) /\ v[i - 1] = w[i - 1]
        /\ i > 3 => (Opens(v)[i - 3] <=> Opens(w)[i - 3]) /\ v[i - 2] = w[i - 2]
    <3>1. i \in 0..n /\ (i > 1 => i - 1 \in 0..n) /\ (i > 2 => i - 2 \in 0..n /\ i - 1 \in 1..n)
          /\ (i > 3 => i - 3 \in 0..n /\ i - 2 \in 1..n)
      BY <1>1
    <3> QED BY <1>1, <3>1
  <2> DEFINE a == i > 1 /\ Opens(w)[i - 1]
             b == i > 2 /\ Opens(w)[i - 2] /\ w[i - 1] = "x"
             d == i > 3 /\ Opens(w)[i - 3] /\ w[i - 2] = "x"
             e == i > 1 /\ Opens(v)[i - 1]
             f == i > 2 /\ Opens(v)[i - 2] /\ v[i - 1] = "x"
             g == i > 3 /\ Opens(v)[i - 3] /\ v[i - 2] = "x"
  <2>2. (a <=> e) /\ (b <=> f) /\ (d <=> g)
    BY <2>1
  <2>3. Meant(w, i) = MeansAt(a, b, d, Opens(w)[i], w[i]) /\ Meant(v, i) = MeansAt(e, f, g, Opens(v)[i], v[i])
    BY DEF Meant
  <2> HIDE DEF a, b, d, e, f, g
  <2> QED BY <2>1, <2>2, <2>3 DEF MeansAt
<1>6. Meant(v, n + 1) = MeansNext(w, c)
  <2>1. v[n + 1] = c /\ (Opens(v)[n + 1] <=> c = "\\" /\ ~AfterBackslash(w))
    BY <1>1 DEF AfterBackslash, n
  <2>2. n + 1 > 1 /\ Opens(v)[(n + 1) - 1] <=> AfterBackslash(w)
    <3>1. (n + 1) - 1 = n /\ n \in 0..n /\ (n + 1 > 1 <=> n # 0)
      BY <1>1
    <3> QED BY <1>0, <1>1, <3>1 DEF AfterBackslash, n
  <2>3. n + 1 > 2 /\ Opens(v)[(n + 1) - 2] /\ v[(n + 1) - 1] = "x" <=> AfterX(w)
    <3>1. (n + 1) - 1 = n /\ (n + 1) - 2 = n - 1 /\ (n + 1 > 2 <=> n > 1) /\ (n > 1 => n \in 1..n /\ n - 1 \in 0..n)
      BY <1>1
    <3> QED BY <1>1, <3>1 DEF AfterX, n
  <2>4. n + 1 > 3 /\ Opens(v)[(n + 1) - 3] /\ v[(n + 1) - 2] = "x" <=> AfterXAndOne(w)
    <3>1. (n + 1) - 2 = n - 1 /\ (n + 1) - 3 = n - 2 /\ (n + 1 > 3 <=> n > 2) /\ (n > 2 => n - 1 \in 1..n /\ n - 2 \in 0..n)
      BY <1>1
    <3> QED BY <1>1, <3>1 DEF AfterXAndOne, n
  <2> DEFINE a == n + 1 > 1 /\ Opens(v)[(n + 1) - 1]
             b == n + 1 > 2 /\ Opens(v)[(n + 1) - 2] /\ v[(n + 1) - 1] = "x"
             d == n + 1 > 3 /\ Opens(v)[(n + 1) - 3] /\ v[(n + 1) - 2] = "x"
  <2>5. Meant(v, n + 1) = MeansAt(a, b, d, Opens(v)[n + 1], v[n + 1])
    BY DEF Meant
  <2>6. (a <=> AfterBackslash(w)) /\ (b <=> AfterX(w)) /\ (d <=> AfterXAndOne(w))
    BY <2>2, <2>3, <2>4
  <2> HIDE DEF a, b, d
  <2> QED BY <2>1, <2>5, <2>6 DEF MeansAt, MeansNext
<1> DEFINE t == [i \in 1..(n + 1) |-> Meant(v, i)]
           last == MeansNext(w, c)
<1>7. last \in T
  BY MeansBytes DEF MeansNext
<1>8. t = Append(s, last)
  <2>0. /\ \A i \in 1..n : s[i] = Meant(w, i)
        /\ \A i \in 1..(n + 1) : t[i] = Meant(v, i)
        /\ t = [i \in 1..(n + 1) |-> t[i]]
    OBVIOUS
  <2> HIDE DEF T, t, last, s
  <2> DEFINE a == Append(s, last)
  <2>1. a \in Seq(T) /\ Len(a) = n + 1 /\ a[n + 1] = last /\ \A i \in 1..n : a[i] = s[i]
    BY <1>4, <1>7, OneLonger
  <2> HIDE DEF a
  <2>2. a = [i \in 1..(n + 1) |-> a[i]]
    BY <1>1, <2>1
  <2>3. \A i \in 1..(n + 1) : a[i] = t[i]
    <3> TAKE i \in 1..(n + 1)
    <3>1. CASE i = n + 1
      BY <1>6, <2>0, <2>1, <3>1 DEF last
    <3>2. CASE i # n + 1
      <4>1. i \in 1..n
        BY <1>1, <3>2
      <4> QED BY <1>5, <2>0, <2>1, <4>1
    <3> QED BY <3>1, <3>2
  <2> QED BY <2>0, <2>2, <2>3 DEF a
<1>9. FlattenSeq(s) \in Seq(Written) /\ FlattenSeq(Append(s, last)) = FlattenSeq(s) \o last
  <2>1. s \in Seq(Seq(Written)) /\ last \in Seq(Written)
    BY <1>4, <1>7
  <2> HIDE DEF s, last
  <2> QED BY <2>1, FlattenAppend
<1>10. Unescaped(w) = FlattenSeq(s) /\ Unescaped(v) = FlattenSeq(t)
  BY <1>1, UnescapedIs
<1>11. /\ AfterBackslash(v) <=> c = "\\" /\ ~AfterBackslash(w)
       /\ AfterX(v) <=> AfterBackslash(w) /\ c = "x"
       /\ AfterXAndOne(v) <=> AfterX(w)
  <2>1. AfterBackslash(v) <=> c = "\\" /\ ~AfterBackslash(w)
    BY <1>1 DEF AfterBackslash, n
  <2>2. AfterX(v) <=> AfterBackslash(w) /\ c = "x"
    <3>1. (n + 1) - 1 = n /\ n \in 0..n /\ (n + 1 > 1 <=> n # 0)
      BY <1>1
    <3> QED BY <1>0, <1>1, <3>1 DEF AfterBackslash, AfterX, n
  <2>3. AfterXAndOne(v) <=> AfterX(w)
    <3>1. (n + 1) - 1 = n /\ (n + 1) - 2 = n - 1 /\ (n + 1 > 2 <=> n > 1) /\ (n > 1 => n \in 1..n /\ n - 1 \in 0..n)
      BY <1>1
    <3>2. n > 1 => v[n] = w[n] /\ (Opens(v)[n - 1] <=> Opens(w)[n - 1])
      BY <1>1, <3>1
    <3>3. AfterXAndOne(v) <=> n > 1 /\ Opens(v)[n - 1] /\ v[n] = "x"
      BY <1>1, <3>1 DEF AfterXAndOne
    <3> QED BY <3>2, <3>3 DEF AfterX, n
  <2> QED BY <2>1, <2>2, <2>3
<1> HIDE DEF s, t, last
<1>12. Unescaped(v) = Unescaped(w) \o MeansNext(w, c)
  BY <1>8, <1>9, <1>10 DEF last
<1>13. Unescaped(w) \in Seq(Written)
  BY <1>9, <1>10
<1> QED BY <1>1, <1>11, <1>12, <1>13

\* What is written so far says whole bytes.
Whole(w) == ~AfterBackslash(w) /\ ~AfterX(w) /\ ~AfterXAndOne(w)

\* A byte as it is written reads back, whatever was written before.
LEMMA ReadsByte ==
    ASSUME NEW w \in Seq(Written), Whole(w), NEW c \in Written
    PROVE  /\ w \o Escaped(c) \in Seq(Written) /\ Unescaped(w) \in Seq(Written)
           /\ Unescaped(w \o Escaped(c)) = Append(Unescaped(w), c)
           /\ Whole(w \o Escaped(c))
<1> DEFINE b == Append(w, "\\")
           u == Unescaped(w)
<1>0. u \in Seq(Written)
  BY ReadsOneMore
<1>00. b = Append(w, "\\") /\ \A d : Append(b, d) = w \o <<"\\", d>>
  BY DEF b
<1> HIDE DEF b
<1>1. /\ b \in Seq(Written) /\ Unescaped(b) = u
      /\ AfterBackslash(b) /\ ~AfterX(b) /\ ~AfterXAndOne(b)
  <2>1. MeansNext(w, "\\") = <<>>
    BY DEF MeansNext, MeansAt, Whole
  <2>2. /\ b \in Seq(Written) /\ Unescaped(b) = u \o <<>>
        /\ AfterBackslash(b) /\ ~AfterX(b) /\ ~AfterXAndOne(b)
    <3> HIDE DEF u
    <3>1. "\\" \in Written
      BY DEF Written
    <3>2. /\ b \in Seq(Written) /\ Unescaped(b) = Unescaped(w) \o MeansNext(w, "\\")
          /\ AfterBackslash(b) <=> "\\" = "\\" /\ ~AfterBackslash(w)
          /\ AfterX(b) <=> AfterBackslash(w) /\ "\\" = "x"
          /\ AfterXAndOne(b) <=> AfterX(w)
      BY ONLY <1>00, <3>1, w \in Seq(Written), ReadsOneMore
    <3> QED BY <2>1, <3>2 DEF Whole, u
  <2>3. u \o <<>> = u
    <3> HIDE DEF u
    <3> QED BY <1>0, ConcatEmptySeq
  <2> QED BY <2>2, <2>3
<1> HIDE DEF u
<1>2. ASSUME NEW d \in Written, NEW e \in Written, MeansNext(b, d) = <<e>>, d # "x",
             w \o <<"\\", d>> = w \o Escaped(c), e = c
      PROVE  /\ w \o Escaped(c) \in Seq(Written) /\ Unescaped(w \o Escaped(c)) = Append(u, c)
             /\ Whole(w \o Escaped(c))
  <2> DEFINE v == Append(b, d)
  <2>1. /\ v \in Seq(Written) /\ Unescaped(v) = u \o <<e>> /\ ~AfterBackslash(v) /\ ~AfterX(v) /\ ~AfterXAndOne(v)
    BY <1>1, <1>2, ReadsOneMore
  <2>2. v = w \o <<"\\", d>>
    BY DEF b
  <2>3. u \o <<e>> = Append(u, e)
    BY <1>0, <1>2, OneJoined
  <2> HIDE DEF v
  <2> QED BY <1>2, <2>1, <2>2, <2>3 DEF Whole
<1>3. CASE c = "\\"
  <2>1. MeansNext(b, "\\") = <<"\\">>
    BY <1>1 DEF MeansNext, MeansAt
  <2>2. Escaped(c) = <<"\\", "\\">>
    BY <1>3 DEF Escaped
  <2> QED BY <1>0, <1>2, <1>3, <2>1, <2>2 DEF u
<1>4. CASE c = "tab"
  <2>1. MeansNext(b, "t") = <<"tab">>
    BY <1>1 DEF MeansNext, MeansAt
  <2>2. Escaped(c) = <<"\\", "t">>
    BY <1>4 DEF Escaped
  <2>3. {"t", "tab"} \subseteq Written
    BY DEF Written
  <2> QED BY <1>0, <1>2, <1>4, <2>1, <2>2, <2>3 DEF u
<1>5. CASE c = "nl"
  <2>1. MeansNext(b, "n") = <<"nl">>
    BY <1>1 DEF MeansNext, MeansAt
  <2>2. Escaped(c) = <<"\\", "n">>
    BY <1>5 DEF Escaped
  <2>3. {"n", "nl"} \subseteq Written
    BY DEF Written
  <2> QED BY <1>0, <1>2, <1>5, <2>1, <2>2, <2>3 DEF u
<1>6. CASE c = "cr"
  <2>1. MeansNext(b, "r") = <<"cr">>
    BY <1>1 DEF MeansNext, MeansAt
  <2>2. Escaped(c) = <<"\\", "r">>
    BY <1>6 DEF Escaped
  <2>3. {"r", "cr"} \subseteq Written
    BY DEF Written
  <2> QED BY <1>0, <1>2, <1>6, <2>1, <2>2, <2>3 DEF u
<1>7. CASE c = "bel"
  <2> DEFINE x == Append(b, "x")
             y == Append(x, "0")
             z == Append(y, "7")
             r == u \o <<"bel">>
  <2>0. {"x", "0", "7", "bel"} \subseteq Written
    BY DEF Written
  <2>1. MeansNext(b, "x") = <<"bel">>
    BY <1>1 DEF MeansNext, MeansAt
  <2>2. x \in Seq(Written) /\ Unescaped(x) = r /\ ~AfterBackslash(x) /\ AfterX(x) /\ ~AfterXAndOne(x)
    BY <1>1, <2>0, <2>1, ReadsOneMore
  <2>3. r \in Seq(Written) /\ r = Append(u, "bel")
    BY <1>0, <2>0, OneJoined, OneLonger
  <2> HIDE DEF x, r
  <2>4. MeansNext(x, "0") = <<>>
    BY <2>2 DEF MeansNext, MeansAt
  <2>5. y \in Seq(Written) /\ Unescaped(y) = r \o <<>> /\ ~AfterBackslash(y) /\ ~AfterX(y) /\ AfterXAndOne(y)
    <3>1. y = Append(x, "0") /\ "0" \in Written
      BY <2>0
    <3> HIDE DEF y
    <3>2. /\ y \in Seq(Written) /\ Unescaped(y) = Unescaped(x) \o MeansNext(x, "0")
          /\ AfterBackslash(y) <=> "0" = "\\" /\ ~AfterBackslash(x)
          /\ AfterX(y) <=> AfterBackslash(x) /\ "0" = "x"
          /\ AfterXAndOne(y) <=> AfterX(x)
      BY ONLY <2>2, <3>1, ReadsOneMore
    <3> QED BY <2>2, <2>4, <3>2
  <2>6. r \o <<>> = r
    BY <2>3, ConcatEmptySeq
  <2> HIDE DEF y
  <2>7. MeansNext(y, "7") = <<>>
    BY <2>5 DEF MeansNext, MeansAt
  <2>8. z \in Seq(Written) /\ Unescaped(z) = r \o <<>> /\ ~AfterBackslash(z) /\ ~AfterX(z) /\ ~AfterXAndOne(z)
    BY <2>0, <2>5, <2>6, <2>7, ReadsOneMore
  <2>9. z = w \o <<"\\", "x", "0", "7">>
    BY DEF x, y, b
  <2>10. Escaped(c) = <<"\\", "x", "0", "7">>
    BY <1>7 DEF Escaped
  <2> HIDE DEF z
  <2> QED BY <1>0, <1>7, <2>3, <2>6, <2>8, <2>9, <2>10 DEF Whole, u
<1>8. CASE c \notin {"\\", "tab", "nl", "cr", "bel"}
  <2> DEFINE v == Append(w, c)
  <2>1. MeansNext(w, c) = <<c>>
    BY <1>8 DEF MeansNext, MeansAt, Whole
  <2>2. v \in Seq(Written) /\ Unescaped(v) = u \o <<c>> /\ ~AfterBackslash(v) /\ ~AfterX(v) /\ ~AfterXAndOne(v)
    BY <1>8, <2>1, ReadsOneMore DEF Whole, u
  <2>3. Escaped(c) = <<c>> /\ w \o <<c>> = v /\ u \o <<c>> = Append(u, c)
    BY <1>0, <1>8 DEF Escaped
  <2> HIDE DEF v
  <2> QED BY <1>0, <2>2, <2>3 DEF Whole, u
<1> QED BY <1>3, <1>4, <1>5, <1>6, <1>7, <1>8


\* No byte of what is written of a lexeme ends it.
Plain(w) == w \in Seq(Written) /\ \A i \in 1..Len(w) : w[i] \notin {"tab", "nl"}

LEMMA EscapedPlain ==
    ASSUME NEW c \in Written
    PROVE  Plain(Escaped(c))
<1>1. {"\\", "t", "n", "r", "x", "0", "7"} \subseteq Written
  BY DEF Written
<1>2. \A T : \A a, b, d, e \in T :
          /\ <<a>> \in Seq(T) /\ Len(<<a>>) = 1
          /\ <<a, b>> \in Seq(T) /\ Len(<<a, b>>) = 2
          /\ <<a, b, d, e>> \in Seq(T) /\ Len(<<a, b, d, e>>) = 4
  OBVIOUS
<1>3. /\ \A i \in 1..1 : i = 1
      /\ \A i \in 1..2 : i = 1 \/ i = 2
      /\ \A i \in 1..4 : i = 1 \/ i = 2 \/ i = 3 \/ i = 4
  OBVIOUS
<1> DEFINE two(d) == <<"\\", d>>
           four == <<"\\", "x", "0", "7">>
<1>4. ASSUME NEW d \in {"\\", "t", "n", "r"} PROVE Plain(two(d))
  <2>1. two(d) \in Seq(Written) /\ Len(two(d)) = 2
    BY <1>1, <1>2
  <2>2. two(d)[1] = "\\" /\ two(d)[2] = d
    OBVIOUS
  <2> HIDE DEF two
  <2> QED BY <1>3, <2>1, <2>2 DEF Plain
<1>5. Plain(four)
  <2>1. four \in Seq(Written) /\ Len(four) = 4
    BY <1>1, <1>2
  <2>2. four[1] = "\\" /\ four[2] = "x" /\ four[3] = "0" /\ four[4] = "7"
    OBVIOUS
  <2> HIDE DEF four
  <2> QED BY <1>3, <2>1, <2>2 DEF Plain
<1>6. CASE c \in {"\\", "tab", "nl", "cr", "bel"}
  BY <1>4, <1>5, <1>6 DEF Escaped
<1>7. CASE c \notin {"\\", "tab", "nl", "cr", "bel"}
  <2> DEFINE one == <<c>>
  <2>1. one \in Seq(Written) /\ Len(one) = 1 /\ one[1] = c
    BY <1>2
  <2> HIDE DEF one
  <2>2. Plain(one)
    BY <1>3, <1>7, <2>1 DEF Plain
  <2> QED BY <1>7, <2>2 DEF Escaped, one
<1> QED BY <1>6, <1>7

LEMMA PlainJoined ==
    ASSUME NEW v, Plain(v), NEW w, Plain(w)
    PROVE  Plain(v \o w)
<1>1. v \in Seq(Written) /\ w \in Seq(Written)
  BY DEF Plain
<1>2. /\ Len(v) \in Nat /\ Len(w) \in Nat /\ v \o w \in Seq(Written) /\ Len(v \o w) = Len(v) + Len(w)
      /\ \A i \in 1..(Len(v) + Len(w)) : (v \o w)[i] = IF i <= Len(v) THEN v[i] ELSE w[i - Len(v)]
  BY <1>1, ConcatProperties, LenProperties
<1> DEFINE u == v \o w
<1> HIDE DEF u
<1>3. \A i \in 1..Len(u) : u[i] \notin {"tab", "nl"}
  <2> TAKE i \in 1..Len(u)
  <2>1. i <= Len(v) => i \in 1..Len(v)
    BY <1>2 DEF u
  <2>2. ~(i <= Len(v)) => i - Len(v) \in 1..Len(w)
    BY <1>2 DEF u
  <2> QED BY <1>2, <2>1, <2>2 DEF Plain, u
<1> QED BY <1>2, <1>3 DEF Plain, u

\* What is written of a lexeme.
Escaping(q) == FlattenSeq([i \in DOMAIN q |-> Escaped(q[i])])

\* Whatever bytes a lexeme holds, what is written of it has no tab or newline and reads back.
LEMMA ReadsLexeme ==
    ASSUME NEW q \in Seq(STRING)
    PROVE  Plain(Escaping(q)) /\ Unescaped(Escaping(q)) = q
<1> DEFINE n == Len(q)
           E(k) == [i \in 1..k |-> Escaped(q[i])]
           G(k) == FlattenSeq(E(k))
           P(k) == [i \in 1..k |-> q[i]]
           Good == { k \in 0..n : Plain(G(k)) /\ Whole(G(k)) /\ Unescaped(G(k)) = P(k) }
           T == Seq(Written)
<1>1. n \in Nat /\ DOMAIN q = 1..n /\ \A i \in 1..n : q[i] \in Written
  BY DEF Written
<1>2. \A i \in 1..n : Plain(Escaped(q[i])) /\ Escaped(q[i]) \in T
  BY <1>1, EscapedPlain DEF Plain
<1>3. \A k \in 0..n : E(k) \in Seq(T) /\ Len(E(k)) = k
  <2> HIDE DEF T
  <2> SUFFICES ASSUME NEW k \in 0..n PROVE E(k) \in Seq(T) /\ Len(E(k)) = k
    OBVIOUS
  <2>1. k \in Nat /\ \A i \in 1..k : Escaped(q[i]) \in T
    BY <1>1, <1>2
  <2> QED BY <2>1
<1>4. 0 \in Good
  <2> DEFINE w == <<>>
  <2>1. E(0) = <<>> /\ P(0) = <<>> /\ <<>> \in Seq(Written) /\ Len(<<>>) = 0
    <3>1. 1..0 = {}
      OBVIOUS
    <3> QED BY <3>1
  <2>2. G(0) = <<>>
    BY <2>1 DEF FlattenSeq
  <2>3. Unescaped(<<>>) = FlattenSeq([i \in DOMAIN w |-> Meant(w, i)])
    BY UnescapedIs
  <2>4. [i \in DOMAIN w |-> Meant(w, i)] = <<>>
    <3>1. DOMAIN w = {}
      OBVIOUS
    <3> QED BY <3>1
  <2>5. Unescaped(<<>>) = <<>>
    BY <2>3, <2>4 DEF FlattenSeq
  <2>6. ~Opens(<<>>)[0]
    BY <2>1, OpensSteps
  <2>7. Plain(<<>>) /\ Whole(<<>>)
    BY <2>1, <2>6 DEF Plain, Whole, AfterBackslash, AfterX, AfterXAndOne
  <2>8. 0 \in 0..n
    BY <1>1
  <2> QED BY <2>1, <2>2, <2>5, <2>7, <2>8
<1>5. ASSUME NEW k \in (0 + 1)..n, k - 1 \in Good PROVE k \in Good
  <2> DEFINE e == Escaped(q[k])
             w == G(k - 1)
             g == E(k - 1)
             f == E(k)
             p == P(k - 1)
  <2>1. k \in 1..n /\ k - 1 \in 0..n /\ k \in 0..n /\ (k - 1) + 1 = k
    BY <1>1
  <2>2. Plain(e) /\ e \in Seq(Written) /\ q[k] \in Written
    BY <1>1, <1>2, <2>1
  <2>3. g \in Seq(Seq(Written)) /\ Len(g) = k - 1 /\ f \in Seq(Seq(Written)) /\ Len(f) = k
    BY <1>3, <2>1
  <2>4. f = Append(g, e)
    <3>1. f = [i \in 1..k |-> f[i]] /\ (\A i \in 1..(k - 1) : g[i] = Escaped(q[i])) /\ \A i \in 1..k : f[i] = Escaped(q[i])
      OBVIOUS
    <3> HIDE DEF f, g, E
    <3> DEFINE a == Append(g, e)
    <3>2. a \in Seq(T) /\ Len(a) = k /\ a[k] = e /\ \A i \in 1..(k - 1) : a[i] = g[i]
      <4> HIDE DEF e
      <4> QED BY <2>1, <2>2, <2>3, OneLonger
    <3> HIDE DEF a
    <3>3. a = [i \in 1..k |-> a[i]]
      <4> HIDE DEF T
      <4> QED BY <2>1, <3>2
    <3>4. \A i \in 1..k : a[i] = f[i]
      <4> TAKE i \in 1..k
      <4>1. i = k \/ i \in 1..(k - 1)
        BY <2>1
      <4> QED BY <3>1, <3>2, <4>1
    <3> QED BY <3>1, <3>3, <3>4 DEF a
  <2>5. G(k) = w \o e
    <3> HIDE DEF f, g, e, E
    <3>1. FlattenSeq(f) = FlattenSeq(g) \o e
      BY <2>2, <2>3, <2>4, FlattenAppend
    <3> QED BY <3>1 DEF f, g
  <2>6. Plain(w) /\ Whole(w) /\ Unescaped(w) = p /\ w \in Seq(Written)
    BY <1>5 DEF Plain
  <2> HIDE DEF w, p, G
  <2>7. Whole(w \o e) /\ Unescaped(w \o e) = Append(p, q[k])
    BY <2>2, <2>6, ReadsByte
  <2>8. Plain(w \o e)
    BY <2>2, <2>6, PlainJoined
  <2>9. Append(p, q[k]) = P(k)
    <3>1. p \in Seq(Written) /\ Len(p) = k - 1 /\ \A i \in 1..(k - 1) : p[i] = q[i]
      <4>1. \A i \in 1..(k - 1) : q[i] \in Written
        BY <1>1, <2>1
      <4>2. k - 1 \in Nat
        BY <2>1
      <4> QED BY <4>1, <4>2 DEF p
    <3> DEFINE a == Append(p, q[k])
               b == P(k)
    <3>2. a \in Seq(Written) /\ Len(a) = k /\ a[k] = q[k] /\ \A i \in 1..(k - 1) : a[i] = p[i]
      BY <2>1, <2>2, <3>1, OneLonger
    <3> HIDE DEF a
    <3>3. a = [i \in 1..k |-> a[i]]
      BY <2>1, <3>2
    <3>4. \A i \in 1..k : a[i] = q[i]
      <4> TAKE i \in 1..k
      <4>1. i = k \/ i \in 1..(k - 1)
        BY <2>1
      <4> QED BY <3>1, <3>2, <4>1
    <3> QED BY <3>3, <3>4 DEF a
  <2> HIDE DEF e, P
  <2> QED BY <2>1, <2>5, <2>7, <2>8, <2>9
<1>6. n \in Good
  <2> HIDE DEF Good
  <2>1. 0 \in Int /\ n \in Int /\ n \in 0..n
    BY <1>1
  <2>2. \A k \in 0..n : k \in Good
    BY <1>4, <1>5, <2>1, Upward
  <2> QED BY <2>1, <2>2
<1>7. G(n) = Escaping(q) /\ P(n) = q
  BY <1>1 DEF Escaping
<1> HIDE DEF G, P
<1> QED BY <1>6, <1>7


-----------------------------------------------------------------------------
(* What is written reads line by line *)

EndsOf(out) == Ascending(Ends(out, "nl"), 1, Len(out))

LinesOf(out) == LET ends == EndsOf(out) IN [l \in 1..(Len(ends) - 1) |-> SubSeq(out, ends[l] + 1, ends[l + 1] - 1)]

\* A line, with its end and no other.
IsLine(t) == t \in Seq(Written) /\ Len(t) > 0 /\ t[Len(t)] = "nl" /\ \A i \in 1..(Len(t) - 1) : t[i] # "nl"

\* What is written so far ends a line.
Ended(out) == LET ends == EndsOf(out) IN Len(ends) > 0 /\ ends[Len(ends)] = Len(out)

\* A line more ends once.
LEMMA EndAdded ==
    ASSUME NEW out \in Seq(Written), NEW t, IsLine(t)
    PROVE  /\ out \o t \in Seq(Written) /\ Len(out \o t) = Len(out) + Len(t)
           /\ EndsOf(out \o t) = Append(EndsOf(out), Len(out) + Len(t))
<1> DEFINE n == Len(out)
           m == Len(t)
           more == out \o t
           S == Ends(out, "nl")
           R == Ends(more, "nl")
           A(k) == Ascending(R, 1, k)
           Good == { k \in n..(n + m - 1) : A(k) = A(n) }
<1>1. /\ n \in Nat /\ m \in Nat /\ m > 0 /\ more \in Seq(Written) /\ Len(more) = n + m
      /\ \A i \in 1..(n + m) : more[i] = IF i <= n THEN out[i] ELSE t[i - n]
  <2>1. t \in Seq(Written) /\ m > 0
    BY DEF IsLine
  <2> HIDE DEF more
  <2> QED BY <2>1, ConcatProperties, LenProperties DEF more
<1>2. DOMAIN out = 1..n /\ DOMAIN more = 1..(n + m)
  <2> HIDE DEF more
  <2> QED BY <1>1
<1> HIDE DEF n, m, more
<1>3. \A k \in 1..n : k \in S <=> k \in R
  BY <1>1, <1>2 DEF Ends
<1>4. n + m \in R /\ \A k \in (n + 1)..(n + m - 1) : k \notin R
  <2>1. t[m] = "nl" /\ \A i \in 1..(m - 1) : t[i] # "nl"
    BY DEF IsLine, m
  <2>2. n + m \in 1..(n + m) /\ ~(n + m <= n) /\ (n + m) - n = m
    BY <1>1
  <2>3. n + m \in R
    BY <1>1, <1>2, <2>1, <2>2 DEF Ends
  <2>4. ASSUME NEW k \in (n + 1)..(n + m - 1) PROVE k \notin R
    <3>1. k \in 1..(n + m) /\ ~(k <= n) /\ k - n \in 1..(m - 1)
      BY <1>1
    <3> QED BY <1>1, <1>2, <2>1, <3>1 DEF Ends
  <2> QED BY <2>3, <2>4
<1> HIDE DEF S, R
<1>5. \A k \in Int : k >= 1 => A(k) = IF k \in R THEN Append(A(k - 1), k) ELSE A(k - 1)
  <2>1. 1 \in Int
    OBVIOUS
  <2>2. \A k \in Int : k >= 1 => Ascending(R, 1, k) = IF k \in R THEN Append(Ascending(R, 1, k - 1), k)
                                                      ELSE Ascending(R, 1, k - 1)
    BY <2>1, AscendingSteps
  <2> QED BY <2>2
<1>6. A(n) = Ascending(S, 1, n)
  <2>1. 1 \in Int /\ n \in Int /\ n >= 1 - 1
    BY <1>1
  <2> QED BY <1>3, <2>1, AscendingAgrees
<1> HIDE DEF A
<1>7. A(n + m - 1) = A(n)
  <2>1. n \in Good
    BY <1>1
  <2>2. ASSUME NEW k \in (n + 1)..(n + m - 1), k - 1 \in Good PROVE k \in Good
    <3>1. k \in Int /\ k >= 1 /\ k \in n..(n + m - 1) /\ k \notin R
      BY <1>1, <1>4
    <3> QED BY <1>5, <2>2, <3>1
  <2>3. n \in Int /\ n + m - 1 \in Int /\ n + m - 1 \in n..(n + m - 1)
    BY <1>1
  <2> HIDE DEF Good
  <2>4. n + m - 1 \in Good
    BY <2>1, <2>2, <2>3, Upward
  <2> QED BY <2>4 DEF Good
<1>8. A(n + m) = Append(A(n), n + m)
  <2>1. n + m \in Int /\ n + m >= 1 /\ (n + m) - 1 = n + m - 1
    BY <1>1
  <2> QED BY <1>4, <1>5, <1>7, <2>1
<1>9. EndsOf(more) = A(n + m) /\ EndsOf(out) = A(n)
  BY <1>1, <1>6 DEF EndsOf, A, S, R, n
<1> QED BY <1>1, <1>8, <1>9 DEF n, m, more

\* It is one line more to read, and the others are as they were.
LEMMA LineAdded ==
    ASSUME NEW out \in Seq(Written), Ended(out), NEW t, IsLine(t)
    PROVE  /\ out \o t \in Seq(Written) /\ Ended(out \o t) /\ Len(out \o t) > 0
           /\ Len(out) > 0 => (out \o t)[1] = out[1]
           /\ Len(EndsOf(out \o t)) = Len(EndsOf(out)) + 1 /\ Len(EndsOf(out)) \in Nat \ {0}
           /\ \A l \in 1..(Len(EndsOf(out)) - 1) : LinesOf(out \o t)[l] = LinesOf(out)[l]
           /\ LinesOf(out \o t)[Len(EndsOf(out))] = SubSeq(t, 1, Len(t) - 1)
<1> DEFINE n == Len(out)
           m == Len(t)
           more == out \o t
           e == EndsOf(out)
           f == EndsOf(more)
           q == Len(e)
<1>1. more \in Seq(Written) /\ Len(more) = n + m /\ f = Append(e, n + m)
  BY EndAdded
<1>2. /\ n \in Nat /\ m \in Nat /\ m > 0 /\ t \in Seq(Written)
      /\ \A i \in 1..(n + m) : more[i] = IF i <= n THEN out[i] ELSE t[i - n]
  <2>1. t \in Seq(Written) /\ m > 0
    BY DEF IsLine
  <2> HIDE DEF more
  <2> QED BY <2>1, ConcatProperties, LenProperties DEF more
<1>3. e \in Seq(1..n) /\ q \in Nat /\ \A i \in 1..q : e[i] \in 1..n
  <2>1. 1 \in Int /\ n \in Int /\ n >= 1 - 1
    BY <1>2
  <2>2. e \in Seq(1..n) /\ q \in Nat
    BY <2>1, AscendingMembers DEF EndsOf
  <2> HIDE DEF e
  <2> QED BY <2>2
<1>4. q > 0 /\ e[q] = n
  BY DEF Ended
<1> HIDE DEF n, m, more, e
<1>5. Len(f) = q + 1 /\ f[q + 1] = n + m /\ \A i \in 1..q : f[i] = e[i]
  <2>1. e \in Seq(Int) /\ n + m \in Int
    BY <1>2, <1>3
  <2> QED BY <1>1, <2>1, OneLonger
<1> HIDE DEF f, q
<1>6. /\ LinesOf(out) = [l \in 1..(q - 1) |-> SubSeq(out, e[l] + 1, e[l + 1] - 1)]
      /\ LinesOf(more) = [l \in 1..(Len(f) - 1) |-> SubSeq(more, f[l] + 1, f[l + 1] - 1)]
  BY DEF LinesOf, e, f, q
<1>7. ASSUME NEW l \in 1..(q - 1) PROVE LinesOf(more)[l] = LinesOf(out)[l]
  <2>1. l \in 1..(Len(f) - 1) /\ l \in 1..q /\ l + 1 \in 1..q
    BY <1>3, <1>5
  <2> DEFINE low == e[l] + 1
             high == e[l + 1] - 1
  <2>2. low \in Int /\ high \in Int /\ low >= 1 /\ high <= n
    BY <1>2, <1>3, <2>1
  <2>3. LinesOf(more)[l] = SubSeq(more, low, high) /\ LinesOf(out)[l] = SubSeq(out, low, high)
    BY <1>5, <1>6, <2>1
  <2> HIDE DEF low, high
  <2>4. \A i \in low..high : more[i] = out[i] /\ out[i] \in Written
    <3> TAKE i \in low..high
    <3>1. i \in 1..n /\ i \in 1..(n + m) /\ i <= n
      BY <1>2, <2>2
    <3>2. out[i] \in Written
      BY <3>1 DEF n
    <3> QED BY <1>2, <3>1, <3>2
  <2> DEFINE x == SubSeq(more, low, high)
             y == SubSeq(out, low, high)
  <2>5. /\ x \in Seq(Written) /\ Len(x) = (IF low <= high THEN high - low + 1 ELSE 0)
        /\ \A i \in 1..(high - low + 1) : x[i] = more[low + i - 1]
    BY <2>2, <2>4, SubSeqProperties
  <2>6. /\ y \in Seq(Written) /\ Len(y) = (IF low <= high THEN high - low + 1 ELSE 0)
        /\ \A i \in 1..(high - low + 1) : y[i] = out[low + i - 1]
    BY <2>2, <2>4, SubSeqProperties
  <2> HIDE DEF x, y
  <2>7. \A i \in 1..Len(x) : x[i] = y[i]
    <3> TAKE i \in 1..Len(x)
    <3>1. i \in 1..(high - low + 1) /\ low + i - 1 \in low..high
      BY <2>2, <2>5
    <3> QED BY <2>4, <2>5, <2>6, <3>1
  <2>8. x = y
    BY <2>5, <2>6, <2>7, SeqEqual
  <2> QED BY <2>3, <2>8 DEF x, y
<1>8. LinesOf(more)[q] = SubSeq(t, 1, m - 1)
  <2>1. q \in 1..(Len(f) - 1) /\ q \in 1..q
    BY <1>3, <1>4, <1>5
  <2> DEFINE x == SubSeq(more, n + 1, n + m - 1)
             y == SubSeq(t, 1, m - 1)
  <2>2. LinesOf(more)[q] = x
    <3>1. f[q] = n /\ f[q + 1] = n + m
      BY <1>4, <1>5, <2>1
    <3>2. LinesOf(more)[q] = SubSeq(more, f[q] + 1, f[q + 1] - 1)
      BY <1>6, <2>1
    <3>3. f[q] + 1 = n + 1 /\ f[q + 1] - 1 = n + m - 1
      BY <1>2, <3>1
    <3> QED BY ONLY <3>2, <3>3 DEF x
  <2>3. ASSUME NEW i \in 1..(m - 1) PROVE more[n + i] = t[i] /\ t[i] \in Written
    <3>1. n + i \in 1..(n + m) /\ ~(n + i <= n) /\ (n + i) - n = i /\ i \in 1..m
      BY <1>2
    <3>2. t[i] \in Written
      BY <1>2, <3>1 DEF m
    <3> QED BY <1>2, <3>1, <3>2
  <2>4. \A i \in (n + 1)..(n + m - 1) : more[i] \in Written
    <3> TAKE i \in (n + 1)..(n + m - 1)
    <3>1. i - n \in 1..(m - 1) /\ n + (i - n) = i
      BY <1>2
    <3> QED BY <2>3, <3>1
  <2>5. n + 1 \in Int /\ n + m - 1 \in Int /\ 1 \in Int /\ m - 1 \in Int
        /\ (n + m - 1) - (n + 1) + 1 = m - 1 /\ (m - 1) - 1 + 1 = m - 1 /\ (n + 1 <= n + m - 1 <=> 1 <= m - 1)
    BY <1>2
  <2>6. /\ x \in Seq(Written) /\ Len(x) = (IF n + 1 <= n + m - 1 THEN (n + m - 1) - (n + 1) + 1 ELSE 0)
        /\ \A i \in 1..((n + m - 1) - (n + 1) + 1) : x[i] = more[n + 1 + i - 1]
    BY <2>4, <2>5, SubSeqProperties
  <2>7. /\ y \in Seq(Written) /\ Len(y) = (IF 1 <= m - 1 THEN (m - 1) - 1 + 1 ELSE 0)
        /\ \A i \in 1..((m - 1) - 1 + 1) : y[i] = t[1 + i - 1]
    BY <2>3, <2>5, SubSeqProperties
  <2> HIDE DEF x, y
  <2>8. Len(x) = m - 1 /\ Len(y) = m - 1
    BY <1>2, <2>5, <2>6, <2>7
  <2>9. \A i \in 1..Len(x) : x[i] = y[i]
    <3> TAKE i \in 1..Len(x)
    <3>1. i \in 1..(m - 1) /\ n + 1 + i - 1 = n + i /\ 1 + i - 1 = i
      BY <1>2, <2>8
    <3> QED BY <2>3, <2>5, <2>6, <2>7, <3>1
  <2>10. x = y
    BY <2>6, <2>7, <2>8, <2>9, SeqEqual
  <2> QED BY <2>2, <2>10 DEF y
<1>9. Ended(more)
  <2>1. q + 1 > 0
    BY <1>3
  <2> QED BY <1>1, <1>5, <2>1 DEF Ended, f
<1>10. Len(more) > 0 /\ (n > 0 => more[1] = out[1])
  BY <1>1, <1>2
<1>11. q \in Nat \ {0}
  BY <1>3, <1>4
<1> QED BY <1>1, <1>5, <1>7, <1>8, <1>9, <1>10, <1>11 DEF n, m, more, e, f, q


\* Two members in ascending order.
LEMMA TwoAscending ==
    ASSUME NEW S, NEW low \in Int, NEW high \in Int, high >= low - 1, NEW x \in low..high, NEW y \in low..high, x < y, S = {x, y}
    PROVE  Ascending(S, low, high)[1] = x /\ Ascending(S, low, high)[2] = y
<1> DEFINE s == Ascending(S, low, high)
<1>1. /\ s \in Seq(low..high) /\ Len(s) \in Nat
      /\ \A i, j \in 1..Len(s) : i < j => s[i] < s[j]
      /\ \A i \in 1..Len(s) : s[i] \in S /\ s[i] \in low..high
      /\ \A k \in low..high : k \in S => \E i \in 1..Len(s) : s[i] = k
  <2>1. s \in Seq(low..high) /\ Len(s) \in Nat
    BY AscendingMembers
  <2>2. \A i, j \in 1..Len(s) : i < j => s[i] < s[j]
    BY AscendingMembers
  <2>3. \A i \in 1..Len(s) : s[i] \in S /\ s[i] \in low..high
    BY AscendingMembers
  <2>4. \A k \in low..high : k \in S => \E i \in 1..Len(s) : s[i] = k
    BY ONLY low \in Int, high \in Int, high >= low - 1, AscendingMembers DEF s
  <2> QED BY <2>1, <2>2, <2>3, <2>4
<1> HIDE DEF s
<1>2. PICK i \in 1..Len(s) : s[i] = x
  BY <1>1
<1>3. PICK j \in 1..Len(s) : s[j] = y
  BY <1>1
<1>4. \A k \in 1..Len(s) : s[k] = x \/ s[k] = y
  BY <1>1
<1>5. i < j
  <2>1. ~(j < i) /\ j # i
    BY <1>1, <1>2, <1>3
  <2> QED BY <1>1, <2>1
<1>6. i = 1
  <2>1. SUFFICES ASSUME i # 1 PROVE FALSE
    OBVIOUS
  <2>2. 1 \in 1..Len(s) /\ 1 < i
    BY <1>1, <2>1
  <2>3. s[1] < x
    BY <1>1, <1>2, <2>2
  <2> QED BY <1>4, <2>2, <2>3
<1>7. j = 2
  <2>1. SUFFICES ASSUME j # 2 PROVE FALSE
    OBVIOUS
  <2>2. 2 \in 1..Len(s) /\ i < 2 /\ 2 < j
    BY <1>1, <1>5, <1>6, <2>1
  <2>3. x < s[2] /\ s[2] < y
    BY <1>1, <1>2, <1>3, <2>2
  <2> QED BY <1>4, <2>2, <2>3
<1> QED BY <1>2, <1>3, <1>6, <1>7 DEF s

\* A part of a sequence.
LEMMA PartOf ==
    ASSUME NEW T, NEW t \in Seq(T), NEW low \in Nat, NEW high \in Nat, low >= 1, high <= Len(t), high >= low - 1
    PROVE  /\ SubSeq(t, low, high) \in Seq(T) /\ Len(SubSeq(t, low, high)) = high - low + 1
           /\ \A i \in 1..(high - low + 1) : SubSeq(t, low, high)[i] = t[low + i - 1]
<1>1. Len(t) \in Nat /\ \A i \in 1..Len(t) : t[i] \in T
  OBVIOUS
<1>2. \A i \in low..high : t[i] \in T
  <2> TAKE i \in low..high
  <2>1. i \in 1..Len(t)
    BY <1>1
  <2> QED BY <1>1, <2>1
<1>3. low \in Int /\ high \in Int /\ (IF low <= high THEN high - low + 1 ELSE 0) = high - low + 1
  OBVIOUS
<1>4. /\ SubSeq(t, low, high) \in Seq(T) /\ Len(SubSeq(t, low, high)) = (IF low <= high THEN high - low + 1 ELSE 0)
      /\ \A i \in 1..(high - low + 1) : SubSeq(t, low, high)[i] = t[low + i - 1]
  BY <1>2, <1>3, SubSeqProperties
<1> QED BY <1>3, <1>4

\* Two sequences joined.
LEMMA JoinedIs ==
    ASSUME NEW T, NEW s \in Seq(T), NEW t \in Seq(T), NEW a, a = s \o t
    PROVE  /\ a \in Seq(T) /\ Len(a) = Len(s) + Len(t)
           /\ \A i \in 1..Len(s) : a[i] = s[i]
           /\ \A i \in 1..Len(t) : a[Len(s) + i] = t[i]
OBVIOUS

\* A token's line is one line, and says the token.
LEMMA LineReads ==
    ASSUME NEW name \in Written \ {"tab", "nl"}, NEW place \in Written \ {"tab", "nl"}, NEW q \in Seq(STRING),
           NEW t, t = <<name, "tab">> \o Escaping(q) \o <<"tab", place, "nl">>
    PROVE  IsLine(t) /\ TokenRead(SubSeq(t, 1, Len(t) - 1)) = [name |-> name, lexeme |-> q, at |-> place]
<1> DEFINE a == <<name, "tab">>
           w == Escaping(q)
           z == <<"tab", place, "nl">>
           m == Len(w)
           b == SubSeq(t, 1, m + 4)
<1>1. Plain(w) /\ Unescaped(w) = q /\ w \in Seq(Written) /\ m \in Nat /\ \A i \in 1..m : w[i] \notin {"tab", "nl"}
  <2>1. Plain(w) /\ Unescaped(w) = q
    BY ReadsLexeme
  <2> HIDE DEF w
  <2> QED BY <2>1, LenProperties DEF Plain
<1>2. a \in Seq(Written) /\ Len(a) = 2 /\ a[1] = name /\ a[2] = "tab"
  <2>1. "tab" \in Written
    BY DEF Written
  <2> QED BY <2>1
<1>3. z \in Seq(Written) /\ Len(z) = 3 /\ z[1] = "tab" /\ z[2] = place /\ z[3] = "nl"
  <2>1. {"tab", "nl"} \subseteq Written
    BY DEF Written
  <2> QED BY <2>1
<1> HIDE DEF a, w, z
<1> DEFINE u == a \o w
<1>4. /\ u \in Seq(Written) /\ Len(u) = 2 + m /\ u[1] = name /\ u[2] = "tab" /\ \A i \in 1..m : u[2 + i] = w[i]
  <2>0. u = a \o w /\ m = Len(w)
    OBVIOUS
  <2> HIDE DEF u, m
  <2>1. /\ u \in Seq(Written) /\ Len(u) = Len(a) + Len(w)
        /\ \A i \in 1..Len(a) : u[i] = a[i]
        /\ \A i \in 1..Len(w) : u[Len(a) + i] = w[i]
    <3>1. a \in Seq(Written) /\ w \in Seq(Written)
      BY <1>1, <1>2
    <3>2. u \in Seq(Written) /\ Len(u) = Len(a) + Len(w)
      BY <2>0, <3>1, JoinedIs
    <3>3. \A i \in 1..Len(a) : u[i] = a[i]
      BY <2>0, <3>1, JoinedIs
    <3>4. \A i \in 1..Len(w) : u[Len(a) + i] = w[i]
      BY <2>0, <3>1, JoinedIs
    <3> QED BY <3>2, <3>3, <3>4
  <2>2. 1 \in 1..2 /\ 2 \in 1..2
    OBVIOUS
  <2> QED BY <1>2, <2>0, <2>1, <2>2
<1> HIDE DEF u, m
<1>5. /\ t \in Seq(Written) /\ Len(t) = (2 + m) + 3
      /\ \A i \in 1..(2 + m) : t[i] = u[i]
      /\ \A i \in 1..3 : t[(2 + m) + i] = z[i]
  <2>1. t = u \o z
    BY DEF u, a, w, z
  <2>2. /\ t \in Seq(Written) /\ Len(t) = Len(u) + Len(z)
        /\ \A i \in 1..Len(u) : t[i] = u[i]
        /\ \A i \in 1..Len(z) : t[Len(u) + i] = z[i]
    <3>0. u \in Seq(Written) /\ z \in Seq(Written)
      BY <1>3, <1>4
    <3>1. t \in Seq(Written) /\ Len(t) = Len(u) + Len(z)
      BY ONLY <3>0, <2>1, JoinedIs
    <3>2. \A i \in 1..Len(u) : t[i] = u[i]
      BY ONLY <3>0, <2>1, JoinedIs
    <3>3. \A i \in 1..Len(z) : t[Len(u) + i] = z[i]
      BY ONLY <3>0, <2>1, JoinedIs
    <3> QED BY <3>1, <3>2, <3>3
  <2> QED BY <1>3, <1>4, <2>2
<1>6. /\ t[1] = name /\ t[2] = "tab" /\ t[m + 3] = "tab" /\ t[m + 4] = place /\ t[m + 5] = "nl"
      /\ Len(t) = m + 5 /\ \A i \in 1..m : t[i + 2] = w[i]
  <2>0. m \in Nat
    BY <1>1 DEF m
  <2>1. t[1] = name /\ t[2] = "tab"
    <3>1. 1 \in 1..(2 + m) /\ 2 \in 1..(2 + m)
      BY <2>0
    <3> QED BY <1>4, <1>5, <3>1
  <2>2. t[m + 3] = "tab" /\ t[m + 4] = place /\ t[m + 5] = "nl"
    <3>1. (2 + m) + 1 = m + 3 /\ (2 + m) + 2 = m + 4 /\ (2 + m) + 3 = m + 5 /\ 1 \in 1..3 /\ 2 \in 1..3 /\ 3 \in 1..3
      BY <2>0
    <3>2. t[(2 + m) + 1] = z[1] /\ t[(2 + m) + 2] = z[2] /\ t[(2 + m) + 3] = z[3]
      BY <1>5, <3>1
    <3> QED BY <1>3, <3>1, <3>2
  <2>3. ASSUME NEW i \in 1..m PROVE t[i + 2] = w[i]
    <3>1. 2 + i \in 1..(2 + m) /\ i + 2 = 2 + i
      BY <2>0
    <3> QED BY <1>4, <1>5, <3>1
  <2>4. (2 + m) + 3 = m + 5
    BY <2>0
  <2> QED BY <1>5, <2>1, <2>2, <2>3, <2>4
<1>7. ASSUME NEW i \in 1..(m + 5)
      PROVE  i = 1 \/ i = 2 \/ (i - 2 \in 1..m /\ (i - 2) + 2 = i) \/ i = m + 3 \/ i = m + 4 \/ i = m + 5
  BY <1>1
<1>8. IsLine(t)
  <2>1. ASSUME NEW i \in 1..(m + 4) PROVE t[i] # "nl"
    <3>1. i \in 1..(m + 5) /\ i # m + 5
      BY <1>1
    <3>2. i - 2 \in 1..m => t[(i - 2) + 2] = w[i - 2] /\ w[i - 2] # "nl"
      BY <1>1, <1>6
    <3> QED BY <1>6, <1>7, <3>1, <3>2
  <2>2. (m + 5) - 1 = m + 4 /\ m + 5 > 0
    BY <1>1
  <2> QED BY <1>5, <1>6, <2>1, <2>2 DEF IsLine
<1>9. b \in Seq(Written) /\ Len(b) = m + 4 /\ \A i \in 1..(m + 4) : b[i] = t[i]
  <2>1. /\ 1 \in Nat /\ m + 4 \in Nat /\ 1 >= 1 /\ m + 4 <= Len(t) /\ m + 4 >= 1 - 1 /\ (m + 4) - 1 + 1 = m + 4
        /\ \A i \in 1..(m + 4) : 1 + i - 1 = i
    BY <1>1, <1>6 DEF m
  <2>2. /\ b \in Seq(Written) /\ Len(b) = (m + 4) - 1 + 1
        /\ \A i \in 1..((m + 4) - 1 + 1) : b[i] = t[1 + i - 1]
    BY ONLY <1>5, <2>1, PartOf DEF b
  <2> HIDE DEF b
  <2> QED BY <2>1, <2>2
<1> HIDE DEF b
<1>10. DOMAIN b = 1..(m + 4)
  BY <1>9
<1>11. Ends(b, "tab") = {2, m + 3}
  <2>1. 2 \in 1..(m + 4) /\ m + 3 \in 1..(m + 4)
    BY <1>1
  <2>2. ASSUME NEW i \in 1..(m + 4), i # 2, i # m + 3 PROVE t[i] # "tab"
    <3>1. i \in 1..(m + 5) /\ i # m + 5
      BY <1>1
    <3>2. i - 2 \in 1..m => t[(i - 2) + 2] = w[i - 2] /\ w[i - 2] # "tab"
      BY <1>1, <1>6
    <3> QED BY <1>6, <1>7, <2>2, <3>1, <3>2
  <2>3. b[2] = "tab" /\ b[m + 3] = "tab"
    BY <1>6, <1>9, <2>1
  <2>4. \A i \in 1..(m + 4) : i # 2 /\ i # m + 3 => b[i] # "tab"
    BY <1>9, <2>2
  <2>5. \A i \in 1..(m + 4) : b[i] = "tab" <=> i = 2 \/ i = m + 3
    BY <2>3, <2>4
  <2>6. Ends(b, "tab") = { i \in 1..(m + 4) : b[i] = "tab" }
    BY <1>10 DEF Ends
  <2> QED BY <2>1, <2>5, <2>6
<1> DEFINE tabs == Ascending(Ends(b, "tab"), 1, Len(b))
<1>12. tabs[1] = 2 /\ tabs[2] = m + 3
  <2> DEFINE S == Ends(b, "tab")
             n == m + 4
             y == m + 3
  <2>1. 1 \in Int /\ n \in Int /\ n >= 1 - 1 /\ 2 \in 1..n /\ y \in 1..n /\ 2 < y
    BY <1>1 DEF m
  <2>2. S = {2, y} /\ Len(b) = n
    BY <1>9, <1>11
  <2> HIDE DEF S, n, y
  <2>3. Ascending(S, 1, n)[1] = 2 /\ Ascending(S, 1, n)[2] = y
    BY <2>1, <2>2, TwoAscending
  <2> QED BY <2>2, <2>3 DEF S, y
<1>13. SubSeq(b, 3, m + 2) = w
  <2> DEFINE x == SubSeq(b, 3, m + 2)
  <2>1. /\ 3 \in Nat /\ m + 2 \in Nat /\ 3 >= 1 /\ m + 2 <= Len(b) /\ m + 2 >= 3 - 1 /\ (m + 2) - 3 + 1 = m
        /\ \A i \in 1..m : 3 + i - 1 = i + 2 /\ i + 2 \in 1..(m + 4)
    BY <1>1, <1>9 DEF m
  <2>2. /\ x \in Seq(Written) /\ Len(x) = (m + 2) - 3 + 1
        /\ \A i \in 1..((m + 2) - 3 + 1) : x[i] = b[3 + i - 1]
    BY <1>9, <2>1, PartOf
  <2> HIDE DEF x
  <2>3. Len(x) = m /\ \A i \in 1..m : x[i] = w[i]
    <3>1. Len(x) = m /\ \A i \in 1..m : x[i] = b[3 + i - 1]
      BY <2>1, <2>2
    <3>2. \A i \in 1..m : x[i] = b[i + 2]
      BY <2>1, <3>1
    <3>3. \A i \in 1..m : b[i + 2] = t[i + 2] /\ t[i + 2] = w[i]
      BY <1>6, <1>9, <2>1
    <3> QED BY <3>1, <3>2, <3>3
  <2>4. x = w
    BY <1>1, <2>2, <2>3, SeqEqual DEF m
  <2> QED BY <2>4 DEF x
<1>14. b[1] = name /\ b[Len(b)] = place
  <2>1. 1 \in 1..(m + 4) /\ m + 4 \in 1..(m + 4)
    BY <1>1
  <2> QED BY <1>6, <1>9, <2>1
<1> HIDE DEF tabs
<1>15. TokenRead(b) = [name |-> name, lexeme |-> q, at |-> place]
  <2>1. SubSeq(b, tabs[1] + 1, tabs[2] - 1) = w
    <3>1. tabs[1] + 1 = 3 /\ tabs[2] - 1 = m + 2
      <4>1. 2 + 1 = 3 /\ (m + 3) - 1 = m + 2
        BY <1>1 DEF m
      <4> QED BY <1>12, <4>1
    <3> QED BY <1>13, <3>1
  <2>2. TokenRead(b) = [ name |-> b[1], lexeme |-> Unescaped(SubSeq(b, tabs[1] + 1, tabs[2] - 1)), at |-> b[Len(b)] ]
    BY DEF TokenRead, Last, tabs
  <2> QED BY <1>1, <1>14, <2>1, <2>2
<1>16. Len(t) - 1 = m + 4
  BY <1>1, <1>6 DEF m
<1> QED BY <1>8, <1>15, <1>16 DEF b


-----------------------------------------------------------------------------
(* The output *)

Tokens == [kind : Int, lexeme : Seq(STRING), at : STRING \ {"tab", "nl"}]

\* The texts' tokens, and settings that are some.
WorldSaid ==
    /\ \A tokens \in {world.laid.tokens} \cup { world.lexed[e].tokens : e \in {"raise", "token"} } : tokens \in Seq(Tokens)
    /\ errors \in {"raise", "token"} /\ columns \in {"bytes", "codepoints", "utf16"}

\* A token as its line says it.
SaidOf(token) == [name |-> NameOf(token.kind), lexeme |-> token.lexeme, at |-> token.at]

\* The output is its header and the lines of the first tokens wanted.
Printed(n) ==
    /\ output \in Seq(Written) /\ Len(output) > 0 /\ output[1] = columns
    /\ Ended(output) /\ Len(EndsOf(output)) = n + 1
    /\ \A l \in 1..n : TokenRead(LinesOf(output)[l]) = SaidOf(Wanted[l])

OutputSaid ==
    /\ WorldSaid
    /\ phase = "print" => output # <<>>
    /\ LexesText /\ output # <<>> =>
          /\ at = Len(argv) + 1 /\ phase \in {"print", "exited"}
          /\ \E n \in 0..Len(Wanted) :
                /\ Printed(n)
                /\ phase = "print" => toPrint = SubSeq(Wanted, n + 1, Len(Wanted))
                /\ phase = "exited" => n = IF Laid /\ HasError THEN 0 ELSE Len(Wanted)

\* A word leaves a setting one of its own.
LEMMA SettingsGiven ==
    ASSUME NEW word, errors \in {"raise", "token"}, columns \in {"bytes", "codepoints", "utf16"}
    PROVE  /\ After("errors", errors, word) \in {"raise", "token"}
           /\ After("columns", columns, word) \in {"bytes", "codepoints", "utf16"}
BY DEF After, Settings

LEMMA WantedTyped ==
    ASSUME WorldSaid, WordsSaid, at = Len(argv) + 1
    PROVE  /\ Wanted \in Seq(Tokens) /\ Len(Wanted) \in Nat
           /\ Wanted = IF LaysOut THEN world.laid.tokens ELSE Lexed.tokens
           /\ columns = Said("columns", "bytes")
<1>1. Lexed = world.lexed[Said("errors", "raise")] /\ (Laid <=> LaysOut) /\ columns = Said("columns", "bytes")
  BY OptionsMean, WordsRead
<1>2. Lexed.tokens \in Seq(Tokens) /\ world.laid.tokens \in Seq(Tokens)
  BY DEF WorldSaid, Lexed
<1>3. Wanted = IF LaysOut THEN world.laid.tokens ELSE Lexed.tokens
  BY <1>1 DEF Wanted
<1> DEFINE w == Wanted
<1>4. w \in Seq(Tokens)
  BY <1>2, <1>3
<1> HIDE DEF w
<1>5. Len(w) \in Nat
  BY <1>4, LenProperties
<1> QED BY <1>1, <1>3, <1>4, <1>5 DEF w

\* A name is written as one.
LEMMA NamesWritten ==
    ASSUME ParseInv, BuildInv, CommandInv, phase = "print", NEW kind \in Int
    PROVE  NameOf(kind) \in Written \ {"tab", "nl"}
<1>1. {"EOF", "NEWLINE", "INDENT", "DEDENT", "ERROR", "example", "?"} \subseteq Written \ {"tab", "nl"}
  BY DEF Written
<1>2. ASSUME ~IsExample, kind \in 0..(Len(names) - 1) PROVE names[kind + 1] \in Written \ {"tab", "nl"}
  <2>1. pass = "parsed"
    BY <1>2 DEF CommandInv, PhasesSaid, BuildInv
  <2>2. ParseSaid /\ line = Len(file) + 1 /\ option = 0
    BY <2>1, AcceptedMeans
  <2>3. /\ file \in Files /\ Len(file) \in Nat /\ Len(names) = Len(rules) /\ Len(rules) \in Nat
        /\ \A r \in 1..Len(rules) :
              RuleLines[r] \in 1..Len(file) /\ file[RuleLines[r]].is = "rule" /\ names[r] = file[RuleLines[r]].name
    BY <2>2, AfterLines
  <2> DEFINE r == kind + 1
             l == RuleLines[r]
  <2>4. r \in 1..Len(rules)
    BY <1>2, <2>3
  <2>5. l \in 1..Len(file) /\ file[l].is = "rule" /\ names[r] = file[l].name
    <3> HIDE DEF r
    <3> QED BY <2>3, <2>4
  <2>6. l \in DOMAIN file
    BY <2>3, <2>5, FileTyped
  <2>7. file[l].name \in STRING \ {"tab", "nl"}
    <3> HIDE DEF l
    <3> QED BY <2>3, <2>5, <2>6, FilesAssumption
  <2> QED BY <2>5, <2>7 DEF Written
<1> QED BY <1>1, <1>2 DEF NameOf

\* What an unchanged world and words leave.
LEMMA WantedKept ==
    ASSUME UNCHANGED optionVars
    PROVE  /\ (WorldSaid' <=> WorldSaid) /\ Wanted' = Wanted /\ (Laid' <=> Laid) /\ (HasError' <=> HasError)
           /\ at' = at /\ argv' = argv /\ columns' = columns /\ (IsExample' <=> IsExample)
           /\ (LexesText' <=> LexesText)
<1>1. /\ argv' = argv /\ world' = world /\ at' = at /\ args' = args /\ layout' = layout /\ errors' = errors
      /\ columns' = columns
  BY DEF optionVars
<1> QED BY <1>1, WorldKept DEF WorldSaid, Wanted, Laid, Said, OfExample, Others, LexesText

\* A text's tokens are printed only where the words ask for them.
LEMMA LexingAsked ==
    ASSUME WordsSaid, at = Len(argv) + 1, KnownCommand
    PROVE  LexesText
BY WordsRead DEF KnownCommand, LexesText

\* What was printed stays, where nothing more is.
LEMMA PrintedStays ==
    ASSUME UNCHANGED optionVars, names' = names, NEW out, output' = out
    PROVE  \A n : Printed(n)' <=> /\ out \in Seq(Written) /\ Len(out) > 0 /\ out[1] = columns
                                  /\ Ended(out) /\ Len(EndsOf(out)) = n + 1
                                  /\ \A l \in 1..n : TokenRead(LinesOf(out)[l]) = SaidOf(Wanted[l])
<1>1. Wanted' = Wanted /\ columns' = columns /\ (IsExample' <=> IsExample)
  BY WantedKept
<1>2. \A kind : NameOf(kind)' = NameOf(kind)
  BY <1>1 DEF NameOf
<1>3. \A l : SaidOf(Wanted[l])' = SaidOf(Wanted[l])
  BY <1>1, <1>2 DEF SaidOf
<1>4. (Ended(output)' <=> Ended(out)) /\ EndsOf(output)' = EndsOf(out) /\ LinesOf(output)' = LinesOf(out)
  BY DEF Ended, EndsOf, LinesOf
<1>5. \A l : TokenRead(LinesOf(output)[l])' = TokenRead(LinesOf(out)[l])
  BY <1>4 DEF TokenRead
<1>6. ASSUME NEW n
      PROVE  Printed(n)' <=> /\ output' \in Seq(Written) /\ Len(output') > 0 /\ output'[1] = columns'
                             /\ Ended(output)' /\ Len(EndsOf(output)') = n + 1
                             /\ \A l \in 1..n : TokenRead(LinesOf(output)[l])' = SaidOf(Wanted[l])'
  BY DEF Printed
<1> QED BY <1>1, <1>3, <1>4, <1>5, <1>6

\* A step that prints nothing.
LEMMA OutputStays ==
    ASSUME OutputSaid, CommandInv, UNCHANGED optionVars, output' = output,
           \/ phase \notin {"print", "exited"} /\ phase' # "print"
           \/ phase' = phase /\ toPrint' = toPrint /\ names' = names
    PROVE  OutputSaid'
<1>1. /\ WorldSaid' /\ Wanted' = Wanted /\ (Laid' <=> Laid) /\ (HasError' <=> HasError) /\ at' = at /\ argv' = argv
      /\ (LexesText' <=> LexesText)
  BY WantedKept DEF OutputSaid
<1>2. CASE phase \notin {"print", "exited"} /\ phase' # "print"
  <2>1. output = <<>>
    BY <1>2 DEF CommandInv, PhasesSaid
  <2> QED BY <1>1, <1>2, <2>1 DEF OutputSaid
<1>3. CASE phase' = phase /\ toPrint' = toPrint /\ names' = names
  <2>1. \A n : Printed(n) => Printed(n)'
    BY <1>3, PrintedStays DEF Printed
  <2> QED BY <1>1, <1>3, <2>1 DEF OutputSaid
<1> QED BY <1>2, <1>3

\* The header is a line.
LEMMA HeaderIsLine ==
    ASSUME NEW c \in {"bytes", "codepoints", "utf16"}, NEW t, t = <<c, "nl">>
    PROVE  /\ t \in Seq(Written) /\ Len(t) > 0 /\ t[1] = c
           /\ Ended(t) /\ Len(EndsOf(t)) = 1
<1> DEFINE e == <<>>
<1>1. c \in Written /\ "nl" \in Written /\ c # "nl"
  BY DEF Written
<1>2. t \in Seq(Written) /\ Len(t) = 2 /\ t[1] = c /\ t[2] = "nl"
  BY <1>1
<1>3. IsLine(t)
  <2>1. \A i \in 1..(2 - 1) : i = 1
    OBVIOUS
  <2> QED BY <1>1, <1>2, <2>1 DEF IsLine
<1>4. e \in Seq(Written) /\ Len(e) = 0 /\ e \o t = t
  BY <1>2, ConcatEmptySeq
<1>5. EndsOf(e) = <<>>
  <2>1. 1 \in Int /\ 1 - 1 = 0
    OBVIOUS
  <2> DEFINE S == Ends(e, "nl")
  <2> HIDE DEF S
  <2>2. Ascending(S, 1, 1 - 1) = <<>>
    BY <2>1, AscendingSteps
  <2> QED BY <1>4, <2>1, <2>2 DEF EndsOf, S
<1> HIDE DEF e
<1>6. EndsOf(t) = Append(<<>>, 0 + 2)
  <2>1. EndsOf(e \o t) = Append(EndsOf(e), Len(e) + Len(t))
    BY <1>3, <1>4, EndAdded
  <2> QED BY <1>2, <1>4, <1>5, <2>1
<1> DEFINE f == Append(<<>>, 0 + 2)
<1>7. Len(f) = 1 /\ f[1] = 2
  OBVIOUS
<1> HIDE DEF f
<1>8. Ended(t) /\ Len(EndsOf(t)) = 1
  BY <1>2, <1>6, <1>7 DEF Ended, f
<1> QED BY <1>2, <1>8

\* Dumping writes the header.
LEMMA DumpWrites ==
    ASSUME OutputSaid, CommandInv, Dump
    PROVE  OutputSaid'
<1>1. phase = "dump" /\ UNCHANGED optionVars /\ output' = <<columns, "nl">> /\ names' = names
  BY DEF Dump, constructionVars, parseVars
<1>2. at = Len(argv) + 1 /\ WordsSaid /\ WorldSaid
  BY <1>1 DEF CommandInv, WordsSaid, OutputSaid
<1>3. Wanted \in Seq(Tokens) /\ Len(Wanted) \in Nat /\ Wanted = IF LaysOut THEN world.laid.tokens ELSE Lexed.tokens
  BY <1>2, WantedTyped
<1>4. (Laid <=> LaysOut) /\ (HasError <=> (Lexed.fails \/ (LaysOut /\ world.laid.fails)))
  BY <1>2, OptionsMean
<1>5. /\ WorldSaid' /\ Wanted' = Wanted /\ (Laid' <=> Laid) /\ (HasError' <=> HasError) /\ at' = at /\ argv' = argv
      /\ columns' = columns
  BY <1>1, <1>2, WantedKept
<1>6. Printed(0)'
  <2> DEFINE t == <<columns, "nl">>
  <2>1. columns \in {"bytes", "codepoints", "utf16"} /\ 1..0 = {}
    BY <1>2 DEF WorldSaid
  <2>2. t \in Seq(Written) /\ Len(t) > 0 /\ t[1] = columns /\ Ended(t) /\ Len(EndsOf(t)) = 1
    BY <2>1, HeaderIsLine
  <2> HIDE DEF t
  <2>3. output' = t
    BY <1>1 DEF t
  <2> QED BY <1>5, <2>1, <2>2, <2>3 DEF Printed, Ended, EndsOf
<1>7. output' # <<>>
  BY <1>1
<1>8. 0 \in 0..Len(Wanted)
  BY <1>3
<1>9. CASE LaysOut /\ (Lexed.fails \/ world.laid.fails)
  <2>1. phase' = "exited" /\ Laid /\ HasError
    BY <1>4, <1>9 DEF Dump
  <2> QED BY <1>2, <1>5, <1>6, <1>7, <1>8, <2>1 DEF OutputSaid
<1>10. CASE ~(LaysOut /\ (Lexed.fails \/ world.laid.fails))
  <2>1. phase' = "print" /\ toPrint' = Wanted
    BY <1>3, <1>10 DEF Dump
  <2>2. SubSeq(Wanted, 0 + 1, Len(Wanted)) = Wanted
    BY <1>3, SubSeqFull
  <2> QED BY <1>2, <1>5, <1>6, <1>7, <1>8, <2>1, <2>2 DEF OutputSaid
<1> QED BY <1>9, <1>10

\* Printing a token writes its line.
LEMMA PrintWrites ==
    ASSUME OutputSaid, CommandInv, ParseInv, BuildInv, PrintToken
    PROVE  OutputSaid'
<1>1. /\ phase = "print" /\ phase' = phase /\ toPrint # <<>> /\ UNCHANGED optionVars /\ names' = names
      /\ output' = output \o LineOf(Head(toPrint)) /\ toPrint' = Tail(toPrint)
  BY DEF PrintToken, constructionVars, parseVars
<1>2. at = Len(argv) + 1 /\ WordsSaid /\ WorldSaid /\ output # <<>> /\ KnownCommand
  BY <1>1 DEF CommandInv, WordsSaid, PhasesSaid, OutputSaid
<1>3. Wanted \in Seq(Tokens) /\ Len(Wanted) \in Nat
  BY <1>2, WantedTyped
<1>4. PICK n \in 0..Len(Wanted) : Printed(n) /\ toPrint = SubSeq(Wanted, n + 1, Len(Wanted))
  BY <1>1, <1>2, LexingAsked DEF OutputSaid
<1> DEFINE w == Wanted
           m == Len(w)
           token == w[n + 1]
           t == LineOf(token)
           out == output
<1>5. n + 1 \in 1..m /\ n \in Nat
  <2>1. n = m => toPrint = <<>>
    <3>1. n + 1 \in Int /\ m \in Int /\ (n = m => m < n + 1)
      BY <1>3
    <3> HIDE DEF w, m
    <3>2. n = m => SubSeq(w, n + 1, m) = <<>>
      BY <3>1, SubSeqEmpty
    <3> QED BY <1>4, <3>2 DEF w, m
  <2>2. n \in 0..m /\ m \in Nat /\ n # m
    BY <1>1, <1>3, <1>4, <2>1
  <2> HIDE DEF m
  <2> QED BY <2>2
<1>6. Head(toPrint) = token /\ Tail(toPrint) = SubSeq(w, (n + 1) + 1, m)
  <2>1. w \in Seq(Tokens) /\ m \in m..m /\ m \in (n + 1)..m /\ m = Len(w)
    BY <1>3, <1>5
  <2> HIDE DEF w, m
  <2>2. Head(SubSeq(w, n + 1, m)) = w[n + 1] /\ Tail(SubSeq(w, n + 1, m)) = SubSeq(w, (n + 1) + 1, m)
    BY <1>5, <2>1, HeadTailOfSubSeq
  <2> QED BY <1>4, <2>2 DEF w, m
<1>7. token.kind \in Int /\ token.lexeme \in Seq(STRING) /\ token.at \in STRING \ {"tab", "nl"}
  <2>1. w \in Seq(Tokens) /\ n + 1 \in 1..Len(w)
    BY <1>3, <1>5
  <2> HIDE DEF w
  <2>2. w[n + 1] \in Tokens
    BY <2>1, ElementOfSeq
  <2> QED BY <2>2 DEF Tokens
<1> HIDE DEF token
<1>8. NameOf(token.kind) \in Written \ {"tab", "nl"} /\ token.at \in Written \ {"tab", "nl"}
  BY <1>1, <1>7, NamesWritten DEF Written
<1>9. t = <<NameOf(token.kind), "tab">> \o Escaping(token.lexeme) \o <<"tab", token.at, "nl">>
  BY DEF LineOf, Escaping
<1> HIDE DEF t
<1>10. IsLine(t) /\ TokenRead(SubSeq(t, 1, Len(t) - 1)) = SaidOf(token)
  <2>1. IsLine(t) /\ TokenRead(SubSeq(t, 1, Len(t) - 1)) = [name |-> NameOf(token.kind), lexeme |-> token.lexeme, at |-> token.at]
    BY <1>7, <1>8, <1>9, LineReads
  <2> QED BY <2>1 DEF SaidOf
<1>11. /\ out \in Seq(Written) /\ Len(out) > 0 /\ out[1] = columns
       /\ Ended(out) /\ Len(EndsOf(out)) = n + 1
       /\ \A l \in 1..n : TokenRead(LinesOf(out)[l]) = SaidOf(w[l])
  BY <1>4 DEF Printed
<1>12. output' = out \o t
  BY <1>1, <1>6 DEF t
<1> HIDE DEF out
<1> DEFINE more == out \o t
<1>13. /\ more \in Seq(Written) /\ Ended(more) /\ Len(more) > 0 /\ more[1] = columns
       /\ Len(EndsOf(more)) = (n + 1) + 1
       /\ \A l \in 1..n : LinesOf(more)[l] = LinesOf(out)[l]
       /\ LinesOf(more)[n + 1] = SubSeq(t, 1, Len(t) - 1)
  <2>1. more \in Seq(Written) /\ Ended(more) /\ Len(more) > 0 /\ more[1] = columns
    BY <1>10, <1>11, LineAdded
  <2>2. Len(EndsOf(more)) = Len(EndsOf(out)) + 1
    BY <1>10, <1>11, LineAdded
  <2>3. \A l \in 1..(Len(EndsOf(out)) - 1) : LinesOf(more)[l] = LinesOf(out)[l]
    BY <1>10, <1>11, LineAdded
  <2>4. LinesOf(more)[Len(EndsOf(out))] = SubSeq(t, 1, Len(t) - 1)
    BY <1>10, <1>11, LineAdded
  <2>5. (n + 1) - 1 = n
    BY <1>5
  <2> HIDE DEF more
  <2> QED BY <1>11, <2>1, <2>2, <2>3, <2>4, <2>5
<1> HIDE DEF more
<1>14. \A l \in 1..(n + 1) : TokenRead(LinesOf(more)[l]) = SaidOf(w[l])
  <2> TAKE l \in 1..(n + 1)
  <2>1. l \in 1..n \/ l = n + 1
    BY <1>5
  <2> QED BY <1>10, <1>11, <1>13, <2>1 DEF token
<1>15. Printed(n + 1)'
  BY <1>1, <1>12, <1>13, <1>14, PrintedStays DEF more, w
<1>16. /\ WorldSaid' /\ Wanted' = Wanted /\ at' = at /\ argv' = argv
  BY <1>1, <1>2, WantedKept
<1>17. n + 1 \in 0..Len(Wanted) /\ toPrint' = SubSeq(Wanted, (n + 1) + 1, Len(Wanted))
  BY <1>1, <1>5, <1>6
<1>18. output' # <<>>
  <2>1. Len(more) > 0
    BY <1>13
  <2>2. Len(<<>>) = 0
    OBVIOUS
  <2> QED BY <1>12, <2>1, <2>2 DEF more
<1> QED BY <1>1, <1>2, <1>15, <1>16, <1>17, <1>18 DEF OutputSaid

\* After the last token all are printed.
LEMMA EndWrites ==
    ASSUME OutputSaid, CommandInv, EndOfTokens
    PROVE  OutputSaid'
<1>1. phase = "print" /\ phase' = "exited" /\ toPrint = <<>> /\ UNCHANGED optionVars /\ output' = output /\ names' = names
  BY DEF EndOfTokens, Exit, constructionVars, parseVars
<1>2. at = Len(argv) + 1 /\ WordsSaid /\ WorldSaid /\ output # <<>> /\ KnownCommand /\ ~(LaysOut /\ (Lexed.fails \/ world.laid.fails))
  BY <1>1 DEF CommandInv, WordsSaid, PhasesSaid, OutputSaid
<1>3. Wanted \in Seq(Tokens) /\ Len(Wanted) \in Nat /\ ~(Laid /\ HasError)
  BY <1>2, WantedTyped, OptionsMean
<1>4. PICK n \in 0..Len(Wanted) : Printed(n) /\ toPrint = SubSeq(Wanted, n + 1, Len(Wanted))
  BY <1>1, <1>2, LexingAsked DEF OutputSaid
<1>5. n = Len(Wanted)
  <2> DEFINE w == Wanted
             m == Len(w)
             s == SubSeq(w, n + 1, m)
  <2>1. n + 1 \in Nat /\ m \in Nat /\ n + 1 >= 1 /\ m <= Len(w) /\ m >= (n + 1) - 1 /\ m - (n + 1) + 1 = m - n /\ n \in Int
    BY <1>3, <1>4
  <2>2. w \in Seq(Tokens)
    BY <1>3
  <2> HIDE DEF w, m
  <2>3. Len(s) = m - (n + 1) + 1
    BY <2>1, <2>2, PartOf
  <2>4. s = <<>>
    BY <1>1, <1>4 DEF w, m
  <2> HIDE DEF s
  <2>5. m - n = 0
    <3>1. Len(<<>>) = 0
      OBVIOUS
    <3> QED BY <2>1, <2>3, <2>4, <3>1
  <2>6. n = m
    BY <2>1, <2>5
  <2> QED BY <2>6 DEF w, m
<1>6. /\ WorldSaid' /\ Wanted' = Wanted /\ (Laid' <=> Laid) /\ (HasError' <=> HasError) /\ at' = at /\ argv' = argv
  BY <1>1, <1>2, WantedKept
<1>7. Printed(n)'
  BY <1>1, <1>4, PrintedStays DEF Printed
<1> QED BY <1>1, <1>2, <1>3, <1>4, <1>5, <1>6, <1>7 DEF OutputSaid


LEMMA OutputStarts == Init => OutputSaid
<1> SUFFICES ASSUME Init PROVE OutputSaid
  OBVIOUS
<1>1. errors = "raise" /\ columns = "bytes" /\ phase = "options" /\ output = <<>>
  BY DEF Init
<1>2. \A tokens \in {world.laid.tokens} \cup { world.lexed[e].tokens : e \in {"raise", "token"} } : tokens \in Seq(Tokens)
  <2>1. PICK call \in Invocations : world = call.world
    BY DEF Init
  <2> QED BY <2>1, InvocationsAssumption DEF Tokens
<1> QED BY <1>1, <1>2 DEF OutputSaid, WorldSaid

LEMMA OutputSteps ==
    ASSUME OutputSaid, CommandInv, ParseInv, BuildInv, [Next]_cliVars
    PROVE  OutputSaid'
<1>1. CASE TakeWord
  <2>1. /\ phase = "options" /\ phase' = phase /\ output' = output /\ world' = world
        /\ errors' = After("errors", errors, argv[at]) /\ columns' = After("columns", columns, argv[at])
    BY <1>1 DEF TakeWord
  <2>2. output' = <<>>
    BY <2>1 DEF CommandInv, PhasesSaid
  <2>3. WorldSaid'
    BY <2>1, SettingsGiven DEF OutputSaid, WorldSaid
  <2> QED BY <2>1, <2>2, <2>3 DEF OutputSaid
<1>2. CASE Parse \/ Build
  <2>1. phase = "grammar" /\ phase' = phase /\ UNCHANGED optionVars /\ output' = output
    BY <1>2 DEF Parse, Build, commandVars
  <2> QED BY <2>1, OutputStays
<1>3. CASE UNCHANGED cliVars
  <2>1. phase' = phase /\ toPrint' = toPrint /\ names' = names /\ UNCHANGED optionVars /\ output' = output
    BY <1>3 DEF cliVars, constructionVars, parseVars, commandVars
  <2> QED BY <2>1, OutputStays
<1>4. CASE \/ Usage \/ HasCommand \/ Check \/ BadExample \/ TakeExample \/ OpenGrammar
           \/ NoGrammar \/ RefusedGrammar \/ HasLexer \/ ReadInput \/ NoInput
  <2>1. phase \notin {"print", "exited"} /\ phase' # "print" /\ UNCHANGED optionVars /\ output' = output
    BY <1>4 DEF Usage, HasCommand, Check, BadExample, TakeExample, OpenGrammar, NoGrammar, Loads,
                RefusedGrammar, HasLexer, ReadInput, NoInput, Exit, Goes
  <2> QED BY <2>1, OutputStays
<1>5. CASE Informs
  <2>1. phase = "command" /\ phase' = "exited" /\ UNCHANGED optionVars /\ args[1] \in Asks /\ WordsSaid /\ WorldSaid
    BY <1>5 DEF Informs, CommandInv, OutputSaid
  <2>2. at = Len(argv) + 1
    BY <2>1 DEF WordsSaid
  <2>3. ~LexesText
    BY <2>1, <2>2, WordsRead DEF LexesText
  <2> QED BY <2>1, <2>3, WantedKept DEF OutputSaid
<1> QED BY <1>1, <1>2, <1>3, <1>4, <1>5, DumpWrites, PrintWrites, EndWrites DEF Next

\* What is known of the words, in each phase, of the status and of the output.
LEMMA CommandAsTold == Spec => [](CommandInv /\ OutputSaid)
<1>1. Init => CommandInv /\ OutputSaid
  BY CommandStarts, OutputStarts
<1>2. CommandInv /\ OutputSaid /\ BuildInv /\ [Next]_cliVars => CommandInv'
  <2> SUFFICES ASSUME CommandInv, OutputSaid, BuildInv, [Next]_cliVars PROVE CommandInv'
    OBVIOUS
  <2>1. CASE TakeWord
    BY <2>1, TakeWordKeeps
  <2>2. CASE Parse \/ Build
    <3>1. phase = "grammar" /\ UNCHANGED commandVars
      BY <2>2 DEF Parse, Build
    <3> QED BY <3>1, GrammarGoesOn
  <2>3. CASE UNCHANGED cliVars
    <3>1. stage' = stage /\ UNCHANGED commandVars
      BY <2>3 DEF cliVars, constructionVars, buildVars
    <3> QED BY <3>1, GrammarGoesOn
  <2>4. phase = "print" => output # <<>>
    BY DEF OutputSaid
  <2> QED BY <2>1, <2>2, <2>3, <2>4, CommandSteps DEF Next
<1>3. CommandInv /\ OutputSaid /\ ParseInv /\ BuildInv /\ [Next]_cliVars => OutputSaid'
  BY OutputSteps
<1> QED BY <1>1, <1>2, <1>3, GrammarsAsWritten, BuildsAsTold, PTL DEF Spec

\* However the command is called, its status says how it went, what it tells is what was asked, something
\* is written for a text just where its lexer is built and it is read, and standard input is read only
\* with a lexer that was built (main, list, check, read_input, dump).
THEOREM CommandsTellTheirStatus == Spec => []StatusTells
<1>1. CommandInv => StatusTells
  BY DEF CommandInv
<1> QED BY <1>1, CommandAsTold, PTL

\* What is printed, read line by line.
LEMMA ReadsBack ==
    ASSUME OutputSaid, CommandInv
    PROVE  OutputReadsBack
<1> DEFINE wanted == [ i \in DOMAIN Wanted |-> [ name |-> NameOf(Wanted[i].kind), lexeme |-> Wanted[i].lexeme,
                                                 at |-> Wanted[i].at ] ]
           lines == [ l \in DOMAIN LinesRead |-> TokenRead(LinesRead[l]) ]
           Read == /\ IsPrefix(lines, wanted)
                   /\ phase = "exited" => lines = IF Laid /\ HasError THEN <<>> ELSE wanted
                   /\ output[1] = Said("columns", "bytes")
<1>1. SUFFICES ASSUME LexesText /\ output # <<>> PROVE Read
  BY DEF OutputReadsBack
<1>2. WorldSaid /\ WordsSaid /\ at = Len(argv) + 1
  BY <1>1 DEF OutputSaid, CommandInv
<1>3. Wanted \in Seq(Tokens) /\ Len(Wanted) \in Nat /\ columns = Said("columns", "bytes")
  BY <1>2, WantedTyped
<1>4. PICK n \in 0..Len(Wanted) : Printed(n) /\ (phase = "exited" => n = IF Laid /\ HasError THEN 0 ELSE Len(Wanted))
  BY <1>1 DEF OutputSaid
<1> DEFINE m == Len(Wanted)
           R == { SaidOf(Wanted[i]) : i \in 1..m }
<1>5. wanted = [i \in 1..m |-> SaidOf(Wanted[i])]
  <2>1. DOMAIN Wanted = 1..m
    BY <1>3, LenProperties
  <2> QED BY <2>1 DEF SaidOf
<1>6. lines = [l \in 1..n |-> SaidOf(Wanted[l])]
  <2>1. LinesRead = LinesOf(output)
    BY DEF LinesRead, LinesOf, EndsOf
  <2>2. DOMAIN LinesOf(output) = 1..n
    <3>1. DOMAIN LinesOf(output) = 1..(Len(EndsOf(output)) - 1)
      BY DEF LinesOf
    <3>2. Len(EndsOf(output)) = n + 1 /\ (n + 1) - 1 = n
      BY <1>4 DEF Printed
    <3> QED BY <3>1, <3>2
  <2>3. \A l \in 1..n : TokenRead(LinesOf(output)[l]) = SaidOf(Wanted[l])
    BY <1>4 DEF Printed
  <2> QED BY <2>1, <2>2, <2>3
<1>7. n \in Nat /\ m \in Nat /\ n <= m
  BY <1>3, <1>4
<1> HIDE DEF wanted, lines, m
<1>8. wanted \in Seq(R) /\ Len(wanted) = m /\ \A i \in 1..m : wanted[i] = SaidOf(Wanted[i])
  <2>1. \A i \in 1..m : SaidOf(Wanted[i]) \in R
    OBVIOUS
  <2> HIDE DEF R
  <2> QED BY <1>5, <1>7, <2>1
<1>9. lines \in Seq(R) /\ Len(lines) = n /\ \A l \in 1..n : lines[l] = wanted[l]
  <2>1. \A l \in 1..n : SaidOf(Wanted[l]) \in R /\ l \in 1..m
    BY <1>7
  <2> HIDE DEF R
  <2>2. lines \in Seq(R) /\ Len(lines) = n
    BY <1>6, <1>7, <2>1
  <2> QED BY <1>6, <1>8, <2>1, <2>2
<1> HIDE DEF R
<1>10. IsPrefix(lines, wanted)
  <2> DEFINE s == SubSeq(wanted, 1, n)
  <2>1. 1 \in Nat /\ 1 >= 1 /\ n <= Len(wanted) /\ n >= 1 - 1 /\ n - 1 + 1 = n /\ \A i \in 1..n : 1 + i - 1 = i
    BY <1>7, <1>8
  <2>2. /\ s \in Seq(R) /\ Len(s) = n - 1 + 1 /\ \A i \in 1..(n - 1 + 1) : s[i] = wanted[1 + i - 1]
    BY <1>7, <1>8, <2>1, PartOf
  <2> HIDE DEF s
  <2>3. Len(s) = n /\ \A i \in 1..n : lines[i] = s[i]
    BY <1>9, <2>1, <2>2
  <2>4. lines = s
    BY <1>9, <2>2, <2>3, SeqEqual
  <2>5. SubSeq(lines, 1, Len(lines)) = lines
    BY <1>9, SubSeqFull
  <2> QED BY <1>7, <1>8, <1>9, <2>4, <2>5 DEF IsPrefix, s
<1>11. phase = "exited" => lines = IF Laid /\ HasError THEN <<>> ELSE wanted
  <2>1. n = 0 => lines = <<>>
    BY <1>9
  <2>2. n = m => lines = wanted
    BY <1>8, <1>9, SeqEqual
  <2> QED BY <1>4, <2>1, <2>2 DEF m
<1>12. output[1] = Said("columns", "bytes")
  BY <1>3, <1>4 DEF Printed
<1> QED BY <1>10, <1>11, <1>12

\* Whatever bytes the lexemes hold, what the command prints, read line by line and each lexeme unescaped, is
\* the text's tokens up to where the printing is, and all of them once it ends but where a layout pass met an
\* error (dump, write_escaped).
THEOREM OutputSaysTheTokens == Spec => []OutputReadsBack
<1>1. OutputSaid /\ CommandInv => OutputReadsBack
  BY ReadsBack
<1> QED BY <1>1, CommandAsTold, PTL

=============================================================================
