---------------------------- MODULE Construction ----------------------------
(***************************************************************************)
(* The lexer built from a grammar that was accepted: its modes numbered,   *)
(* its rules checked again, its insignificant modes found, and each mode   *)
(* split into the units that munch in it by the token before and the start *)
(* of a line.  A step is one of the constructor's passes, or one entry of  *)
(* a mode's tables.                                                        *)
(*                                                                         *)
(* Modes and units count from 1: a mode's number is that of its own unit.  *)
(***************************************************************************)
EXTENDS GrammarFile

CONSTANT
    Beginless   \* The patterns REAL says no byte begins.

VARIABLES
    stage,          \* "none", "significance", "predicates", "units", then "built" or "invalid".
    modes,          \* mode_names_.
    significant,    \* mode_significant_.
    dispatch,       \* per_mode_: by unit, the rules filed in its dispatch.
    unitRules,      \* unit_rules_: by unit, its active rules.
    unitsOf,        \* units_of_mode_.
    inside, atStart,    \* inside_line_ and line_start_: by mode, a unit by the kind before.
    mode, entry,    \* The mode being split, and the entry of its tables to fill.
    layoutRoles,    \* layout_roles_: the kinds of the entry and the value rules.
    indentModes     \* indent_modes_: by mode, whether its tokens take part in the indentation.

tableVars == <<modes, significant, dispatch, unitRules, unitsOf, inside, atStart, mode, entry>>
buildVars == <<stage, tableVars, layoutRoles, indentModes>>
constructionVars == <<parseVars, buildVars>>

\* A unit by kind: own after a kind no predicate names, variants for the others.
NoTable == [own |-> 0, variants |-> <<>>, byLine |-> FALSE, single |-> FALSE]

BuildInit ==
    /\ stage = "none"
    /\ modes = <<>> /\ significant = <<>>
    /\ dispatch = <<>> /\ unitRules = <<>> /\ unitsOf = <<>>
    /\ inside = <<>> /\ atStart = <<>>
    /\ mode = 1 /\ entry = 1
    /\ layoutRoles = [entries |-> {}, values |-> {}] /\ indentModes = <<>>

-----------------------------------------------------------------------------
(* build_dispatch *)

\* The modes a rule names, in the order they are interned.
ModesNamed(rule) == rule.modes \o (IF rule.op \in {"push", "set"} THEN <<rule.target>> ELSE <<>>)

\* intern_mode over every rule: "default" first, and each name once.
Interned ==
    LET listed == <<Default>> \o FlattenSeq([i \in DOMAIN rules |-> ModesNamed(rules[i])])
        firsts == Ascending({ n \in DOMAIN listed : \A k \in 1..(n - 1) : listed[k] # listed[n] }, 1, Len(listed))
    IN  [f \in DOMAIN firsts |-> listed[firsts[f]]]

\* rule_active_in_mode.
Active(name) ==
    { i \in DOMAIN rules : name \in (IF rules[i].modes = <<>> THEN {Default} ELSE ToSet(rules[i].modes)) }

\* add_to_mode: a rule is filed by the bytes its pattern begins with, or with those that may match nothing.
Bucketed(filed) == { i \in filed : rules[i].pattern \notin Beginless }

TakesPart(rule) == rule.indent # "none" \/ rule.extend # "none"

\* validate_kinds: a reserved kind, or a rule that is skipped and has a part in the indentation.
InvalidKind(rule) == rule.kind <= ErrorKind \/ (rule.skip /\ TakesPart(rule))

ModeIsEmpty(name) == Bucketed(Active(name)) = {}

\* validate_transitions: no pattern to go by, or a mode entered whose dispatch has no rule.
InvalidTransition(rule) ==
    /\ rule.op # "none"
    /\ rule.pattern = "" \/ (rule.op # "pop" /\ ModeIsEmpty(rule.target))

\* What is invalid throws (std::invalid_argument).
ThrowsIf(bad, next) == stage' = IF bad THEN "invalid" ELSE next

BuildDispatch ==
    /\ pass = "parsed" /\ stage = "none"
    /\ modes' = Interned
    /\ dispatch' = [m \in DOMAIN Interned |-> Bucketed(Active(Interned[m]))]
    /\ ThrowsIf(\E i \in DOMAIN rules : InvalidKind(rules[i]) \/ InvalidTransition(rules[i]), "significance")
    /\ UNCHANGED <<parseVars, significant, unitRules, unitsOf, inside, atStart, mode, entry, layoutRoles, indentModes>>

\* build_significance: with no insignificant mode the policy stays empty; an unknown one is refused.
BuildSignificance ==
    /\ stage = "significance"
    /\ significant' = IF insignificant = <<>> THEN <<>>
                      ELSE [m \in DOMAIN modes |-> modes[m] \notin ToSet(insignificant)]
    /\ ThrowsIf(~(ToSet(insignificant) \subseteq ToSet(modes)), "predicates")
    /\ UNCHANGED <<parseVars, modes, dispatch, unitRules, unitsOf, inside, atStart, mode, entry, layoutRoles,
                   indentModes>>

-----------------------------------------------------------------------------
(* build_units: one mode after the other *)

\* The tables empty, and every rule's predicates checked again: after and not_after are not for one rule.
BeginUnits ==
    /\ stage = "predicates"
    /\ ThrowsIf(\E i \in DOMAIN rules : rules[i].after # {} /\ rules[i].notAfter # {}, "units")
    /\ unitRules' = [m \in DOMAIN modes |-> {}]
    /\ unitsOf' = [m \in DOMAIN modes |-> <<>>]
    /\ inside' = [m \in DOMAIN modes |-> NoTable]
    /\ atStart' = [m \in DOMAIN modes |-> NoTable]
    /\ UNCHANGED <<parseVars, modes, significant, dispatch, mode, entry, layoutRoles, indentModes>>

Rules(m) == Active(modes[m])

\* The kinds a predicate of the mode names, ascending.
NamedKinds(m) ==
    Ascending(UNION { rules[i].after \cup rules[i].notAfter : i \in Rules(m) }, EndOfInput, Len(rules) - 1)

\* A mutation: the lowest kind stands for those not named.
UnnamedLowest(m) == EndOfInput

\* A kind none names stands for all of them: the first gap.
Unnamed(m) == Min({ k \in EndOfInput..Len(rules) : k \notin ToSet(NamedKinds(m)) })

RulesAfter(m, previous, start) ==
    { i \in Rules(m) :
        /\ rules[i].lineStart \in {"any", IF start THEN "start" ELSE "inside"}
        /\ IF rules[i].after # {} THEN previous \in rules[i].after ELSE previous \notin rules[i].notAfter }

ByLine(m) == \E i \in Rules(m) : rules[i].lineStart # "any"

Splitting == stage = "units" /\ mode <= Len(modes)

\* The mode's own unit: past the start of a line, after a kind none names.
OwnUnit ==
    /\ Splitting /\ entry = 1
    /\ LET own == RulesAfter(mode, Unnamed(mode), FALSE)
       IN  /\ unitRules' = [unitRules EXCEPT ![mode] = own]
           /\ dispatch' = [dispatch EXCEPT ![mode] = IF own # Rules(mode) THEN Bucketed(own) ELSE @]
    /\ unitsOf' = [unitsOf EXCEPT ![mode] = <<mode>>]
    /\ inside' = [inside EXCEPT ![mode] = [ own |-> mode, variants |-> <<>>, byLine |-> ByLine(mode),
                                            single |-> NamedKinds(mode) = <<>> /\ ~ByLine(mode) ]]
    /\ entry' = 2
    /\ UNCHANGED <<parseVars, stage, modes, significant, atStart, mode, layoutRoles, indentModes>>

\* unit_for: a unit of the mode with those rules, or a new one.
Same(wanted) == { u \in ToSet(unitsOf[mode]) : unitRules[u] = wanted }

UnitFor(wanted) == IF Same(wanted) # {} THEN Min(Same(wanted)) ELSE Len(unitRules) + 1

Filed(wanted) ==
    /\ unitRules' = IF Same(wanted) # {} THEN unitRules ELSE Append(unitRules, wanted)
    /\ dispatch' = IF Same(wanted) # {} THEN dispatch ELSE Append(dispatch, Bucketed(wanted))
    /\ unitsOf' = IF Same(wanted) # {} THEN unitsOf
                  ELSE [unitsOf EXCEPT ![mode] = Append(@, Len(unitRules) + 1)]
    /\ entry' = entry + 1
    /\ UNCHANGED <<parseVars, stage, modes, significant, mode, layoutRoles, indentModes>>

Kinds == Len(NamedKinds(mode))

\* After a kind a predicate names, past the start of a line.
InsideVariant ==
    /\ Splitting /\ entry \in 2..(Kinds + 1)
    /\ LET kind   == NamedKinds(mode)[entry - 1]
           wanted == RulesAfter(mode, kind, FALSE)
       IN  /\ Filed(wanted)
           /\ inside' = [inside EXCEPT ![mode].variants = Append(@, <<kind, UnitFor(wanted)>>)]
    /\ UNCHANGED atStart

\* At the start of a line, where a rule asks for it: after a kind none names, then after the others.
StartOwn ==
    /\ Splitting /\ ByLine(mode) /\ entry = Kinds + 2
    /\ LET wanted == RulesAfter(mode, Unnamed(mode), TRUE)
       IN  /\ Filed(wanted)
           /\ atStart' = [atStart EXCEPT ![mode].own = UnitFor(wanted)]
    /\ UNCHANGED inside

StartVariant ==
    /\ Splitting /\ ByLine(mode) /\ entry \in (Kinds + 3)..(2 * Kinds + 2)
    /\ LET kind   == NamedKinds(mode)[entry - Kinds - 2]
           wanted == RulesAfter(mode, kind, TRUE)
       IN  /\ Filed(wanted)
           /\ atStart' = [atStart EXCEPT ![mode].variants = Append(@, <<kind, UnitFor(wanted)>>)]
    /\ UNCHANGED inside

NextMode ==
    /\ Splitting /\ entry > (IF ByLine(mode) THEN 2 * Kinds + 2 ELSE Kinds + 1)
    /\ mode' = mode + 1 /\ entry' = 1
    /\ UNCHANGED <<parseVars, stage, modes, significant, dispatch, unitRules, unitsOf, inside, atStart, layoutRoles,
                   indentModes>>

KindsWith(role) == { rules[i].kind : i \in { i \in DOMAIN rules : rules[i].indent = role } }

\* What the layout pass and the indentation are told; no mode is left out where no policy was given.
Built ==
    /\ stage = "units" /\ mode > Len(modes)
    /\ stage' = "built"
    /\ layoutRoles' = [entries |-> KindsWith("entry"), values |-> KindsWith("value")]
    /\ indentModes' = [m \in DOMAIN modes |-> m \in DOMAIN significant => significant[m]]
    /\ UNCHANGED <<parseVars, tableVars>>

BuildNext ==
    \/ BuildDispatch
    \/ BuildSignificance
    \/ BeginUnits
    \/ OwnUnit
    \/ InsideVariant
    \/ StartOwn
    \/ StartVariant
    \/ NextMode
    \/ Built

-----------------------------------------------------------------------------
(* What the tables answer *)

\* unit_of: the unit that munches in a mode after a token of a kind, at the start of a line or past it.
UnitOf(m, previous, start) ==
    LET table == IF inside[m].byLine /\ start THEN atStart[m] ELSE inside[m]
        found == { v \in DOMAIN table.variants : table.variants[v][1] = previous }
    IN  IF inside[m].single THEN m ELSE IF found # {} THEN table.variants[Min(found)][2] ELSE table.own

\* The modes the rule of a line is active in, as its options say.
ModesSaid(l) == IF Gives(l, "in=") THEN ToSet(NamesGiven(l, {"in="})) ELSE {Default}

\* What parse_grammar lets through and no lexer is made of: a rule that is skipped and has a part in the
\* indentation, or one that enters a mode in which nothing can begin.
Unbuildable(l) ==
    \/ Gives(l, "skip") /\ (Gives(l, "indent=") \/ Gives(l, "extend="))
    \/ \E i \in DOMAIN NamesGiven(l, {"push=", "set="}) :
          \A k \in ToSet(RuleLines) :
              NamesGiven(l, {"push=", "set="})[i] \in ModesSaid(k) => file[k].pattern \in Beginless

\* The constructor refuses no grammar parse_grammar accepts but for those two things, and refuses it for
\* each of them: what it checks of kinds, of empty patterns, of modes entered or left out of the layout and
\* of predicates was found line by line already.
AcceptedBuilds ==
    stage \in {"invalid", "built"} => (stage = "invalid" <=> \E l \in ToSet(RuleLines) : Unbuildable(l))

\* A predicate lists a token of a kind: by ^ none before, else the name of its rule.  ^ is no rule's name here.
Lists(l, word, kind) ==
    LET listed == ToSet(NamesGiven(l, {word}))
    IN  IF kind >= 0 THEN names[kind + 1] \in listed \ {"^"} ELSE kind = EndOfInput /\ "^" \in listed

\* Whatever token came before and wherever the line starts, the unit the tables give holds the rules
\* whose predicates allow it there, and its dispatch those of them something begins: those the file's options say, by name.
\* The layout pass is told the kinds of the entry and value rules and the modes to leave out.
TablesAnswer ==
    stage = "built" =>
        /\ \A r \in DOMAIN rules :
              /\ r - 1 \in layoutRoles.entries <=> NamesGiven(RuleLines[r], {"indent="}) = <<"entry">>
              /\ r - 1 \in layoutRoles.values <=> NamesGiven(RuleLines[r], {"indent="}) = <<"value">>
        /\ \A m \in DOMAIN modes :
              indentModes[m] <=> \A l \in DOMAIN file : file[l].is = "directive" => modes[m] \notin ToSet(file[l].names)
        /\ \A m \in DOMAIN modes, previous \in {EndOfInput, ErrorKind} \cup { rules[i].kind : i \in DOMAIN rules },
              start \in BOOLEAN :
               LET unit == UnitOf(m, previous, start)
                   allowed == { r \in DOMAIN rules :
                                  LET l == RuleLines[r]
                                  IN  /\ modes[m] \in ModesSaid(l)
                                      /\ Gives(l, "line_start") => start
                                      /\ Gives(l, "not_line_start") => ~start
                                      /\ Gives(l, "after=") => Lists(l, "after=", previous)
                                      /\ Gives(l, "not_after=") => ~Lists(l, "not_after=", previous) }
               IN  /\ unitRules[unit] = allowed
                   /\ dispatch[unit] = { r \in allowed : file[RuleLines[r]].pattern \notin Beginless }

=============================================================================
