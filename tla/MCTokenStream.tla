--------------------------- MODULE MCTokenStream ----------------------------
(* Instances of TokenStream: the grammars of Grammars over all the texts up to a length. *)
EXTENDS TokenStream, Grammars

ScanChars    == ModesChars \cup LateChars \cup BlockChars
ScanAscii    == Ascii(ScanChars)
ScanGrammars == {ModesRules, LateRules, LateDfaRules, BlockRules}

ModesTexts == TextsUpTo(ModesChars, 4)
LateTexts  == TextsUpTo(LateChars, 4)
BlockTexts == BlockTextsUpTo(3)
              \cup { <<"-", " ", "|", "nl", " ">> \o t : t \in BlockTextsUpTo(2) }
              \cup { <<"a", ":", " ", "a", "nl">> \o t : t \in BlockTextsUpTo(2) }
ScanTexts  == ModesTexts \cup LateTexts \cup BlockTexts

\* Texts over the characters of their grammar.
ScanInit ==
    /\ \/ rules = ModesRules /\ text \in ModesTexts
       \/ rules \in {LateRules, LateDfaRules} /\ text \in LateTexts
       \/ rules = BlockRules /\ text \in BlockTexts
    /\ Init

ScanSpec == ScanInit /\ [][Next]_vars

SkipAscii    == Ascii(SkipChars)
SkipGrammars == {SkipRules}
SkipTexts    == TextsUpTo(SkipChars, 5)

RecoverChars     == RecoveryChars \cup ByteChars
RecoverAnnounces == ByteAnnounces @@ Ascii(RecoveryChars)
RecoverGrammars  == {RecoveryRules, ByteRules(ByteChars)}
RecoverTexts     == TextsUpTo(RecoveryChars, 4) \cup TextsUpTo(ByteChars, 5)

\* For the temporal properties: texts that nest in modes, cut anywhere.
ModesAscii    == Ascii(ModesChars)
ModesGrammars == {ModesRules}
ShortTexts    == TextsUpTo({"(", "#", "a"}, 3)

=============================================================================
