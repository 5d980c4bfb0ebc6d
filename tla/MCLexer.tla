------------------------------ MODULE MCLexer -------------------------------
(* Instances of Lexer: the grammars of Grammars over all the texts up to a length. *)
EXTENDS PythonScan, Grammars

ScanChars    == ModesChars \cup LateChars \cup BlockChars \cup AfterChars
ScanAscii    == Ascii(ScanChars)
ScanGrammars == {ModesRules, LateRules, BlockRules, AfterRules}
ModesTexts   == TextsUpTo(ModesChars, 5)
LateTexts    == TextsUpTo(LateChars, 5)
BlockTexts   == BlockTextsUpTo(4)
AfterTexts   == TextsUpTo(AfterChars, 4)
ScanTexts    == ModesTexts \cup LateTexts \cup BlockTexts \cup AfterTexts

\* Texts over the characters of their grammar.
ScanInit ==
    /\ \/ rules = ModesRules /\ text \in ModesTexts
       \/ rules = LateRules  /\ text \in LateTexts
       \/ rules = BlockRules /\ text \in BlockTexts
       \/ rules = AfterRules /\ text \in AfterTexts
    /\ PythonInit

\* Who drives the iterator: a C++ caller that goes on after an error, or the Python generator, which
\* does not.  The first never yields to Python.
ByCaller == generator = "new" /\ UNCHANGED <<generator, needsAdvance, given>>

ConstructAlone == Construct /\ ByCaller

IncrementAlone == Increment /\ ByCaller

Iterated == [][ConstructAlone \/ IncrementAlone \/ PythonNext]_pythonVars

ScanSpec == ScanInit /\ Iterated

\* A lead no code point begins with, beside the others.
MalformedChars   == ByteChars \cup {"bad2"}
RecoverChars     == RecoveryChars \cup MalformedChars
RecoverAnnounces == ByteAnnounces @@ ("bad2" :> 2) @@ Ascii(RecoveryChars)
RecoverGrammars  == {RecoveryRules, ByteRules(MalformedChars)}
RecoverTexts     == TextsUpTo(RecoveryChars, 5) \cup TextsUpTo(MalformedChars, 5)

RecoverSpec == PythonInit /\ Iterated

AfterAscii    == Ascii(AfterChars)
AfterGrammars == {AfterRules}

=============================================================================
