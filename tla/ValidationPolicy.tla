-------------------------- MODULE ValidationPolicy --------------------------
(***************************************************************************)
(* How the rules of WithValidation become the level at which a finding is  *)
(* reported, or its suppression (compileValidationPolicy, findingLevel).   *)
(* NewPipeline takes the rules in the order they were given, collects what *)
(* is wrong with them and fails if anything is; the compiled policy does   *)
(* not change afterwards.  One step takes one rule, for all its codes.     *)
(***************************************************************************)
EXTENDS Naturals, Sequences, FiniteSets

CONSTANTS
    Code,          \* validation codes
    DefaultLevel,  \* the level of each
    Mandatory,     \* those of class resolution, which cannot be suppressed
    Unknown,       \* a number that is no code
    RuleLists      \* the rules of a configuration

Level == {"warning", "error"}
ActionName == {"suppress", "warning", "error"}

(* What an option of the public interface makes of its codes, none meaning *)
(* all that fit: WithSuppressValidation, WithValidationErrorsAsWarnings,   *)
(* WithValidationWarningsAsErrors.                                         *)
LevelOf == [suppress |-> "any", warning |-> "error", error |-> "warning"]

Rule == {r \in [action : ActionName, level : Level \cup {"any"}, codes : SUBSET (Code \cup {Unknown})] :
           r.level = LevelOf[r.action]}

ASSUME CodeAssumption ==
    /\ DefaultLevel \in [Code -> Level]
    /\ Mandatory \subseteq Code
    /\ Unknown \notin Code
    /\ "none" \notin Code

ASSUME RulesAssumption == RuleLists \subseteq Seq(Rule)

VARIABLES
    rules,     \* the rules as given
    taken,     \* how many have been compiled
    actions,   \* the action first seen for each code
    policy,    \* validationPolicy
    problems   \* something is wrong with the rules

policyVars == <<rules, taken, actions, policy, problems>>

NoPolicy == [settings |-> [c \in Code |-> "none"],
             suppressAll |-> FALSE, errorsAsWarnings |-> FALSE, warningsAsErrors |-> FALSE]

PolicyInit ==
    /\ rules \in RuleLists /\ taken = 0
    /\ actions = [c \in Code |-> "none"]
    /\ policy = NoPolicy
    /\ problems = FALSE

-----------------------------------------------------------------------------
Explicit(rule) == rule.codes # {}

(* The codes a rule is about; without codes, those at its level.           *)
Selected(rule) ==
    IF Explicit(rule) THEN rule.codes \cap Code
    ELSE {c \in Code : rule.level = "any" \/ DefaultLevel[c] = rule.level}

(* To suppress everything leaves out what is mandatory.                    *)
Recorded(rule) ==
    IF ~Explicit(rule) /\ rule.action = "suppress" THEN Selected(rule) \ Mandatory
    ELSE Selected(rule)

Conflicting(rule, seen) == {c \in Recorded(rule) : seen[c] \notin {"none", rule.action}}

(* applyValidationPolicyCode, for every code of the rule.                  *)
Refuses(rule, seen) ==
    \/ Unknown \in rule.codes
    \/ Conflicting(rule, seen) # {}
    \/ rule.action = "suppress" /\ rule.codes \cap Mandatory # {}

(* Slip: every code the rule selects gets its action at once, in place of  *)
(* a flag, also what is mandatory.                                         *)
SettingsForAll(rule, seen, old) ==
    [old EXCEPT !.settings = [c \in Code |-> IF c \in Selected(rule) \ Conflicting(rule, seen)
                                             THEN rule.action ELSE old.settings[c]]]

(* Codes that are named get a setting, the others a flag for all.          *)
Adjusted(rule, seen, old) ==
    IF Explicit(rule)
    THEN [old EXCEPT !.settings =
            [c \in Code |->
               IF /\ c \in rule.codes \ Conflicting(rule, seen)
                  /\ ~(rule.action = "suppress" /\ c \in Mandatory)
               THEN rule.action ELSE old.settings[c]]]
    ELSE CASE rule.action = "suppress" -> [old EXCEPT !.suppressAll = TRUE]
           [] rule.action = "warning"  -> [old EXCEPT !.errorsAsWarnings = TRUE]
           [] rule.action = "error"    -> [old EXCEPT !.warningsAsErrors = TRUE]

TakeRule ==
    /\ taken < Len(rules)
    /\ LET rule == rules[taken + 1]
       IN /\ actions' = [c \in Code |-> IF c \in Recorded(rule) /\ actions[c] = "none"
                                        THEN rule.action ELSE actions[c]]
          /\ policy' = Adjusted(rule, actions, policy)
          /\ problems' = (problems \/ Refuses(rule, actions))
    /\ taken' = taken + 1
    /\ UNCHANGED rules

Compiled == taken = Len(rules) /\ ~problems

-----------------------------------------------------------------------------
(* findingLevel: a level, or "suppressed".                                 *)
FindingLevel(code) ==
    CASE policy.settings[code] = "suppress" -> "suppressed"
      [] policy.settings[code] \in Level -> policy.settings[code]
      [] policy.settings[code] = "none" ->
           IF policy.suppressAll /\ code \notin Mandatory THEN "suppressed"
           ELSE IF DefaultLevel[code] = "error"
                THEN IF policy.errorsAsWarnings THEN "warning" ELSE "error"
                ELSE IF policy.warningsAsErrors THEN "error" ELSE "warning"

PolicySpec == PolicyInit /\ [][TakeRule]_policyVars

-----------------------------------------------------------------------------
(* The variables keep their types.                                         *)
PolicyTypeOK ==
    /\ rules \in RuleLists /\ taken \in 0 .. Len(rules)
    /\ actions \in [Code -> ActionName \cup {"none"}]
    /\ policy \in [settings : [Code -> ActionName \cup {"none"}], suppressAll : BOOLEAN,
                   errorsAsWarnings : BOOLEAN, warningsAsErrors : BOOLEAN]
    /\ problems \in BOOLEAN

(* What the rules ask for a code.                                          *)
Asks(rule, code, action) == code \in Recorded(rule) /\ rule.action = action

Asked(code) == {action \in ActionName : \E i \in 1 .. Len(rules) : Asks(rules[i], code, action)}

Sound ==
    /\ \A i \in 1 .. Len(rules) :
         /\ Unknown \notin rules[i].codes
         /\ rules[i].action = "suppress" => rules[i].codes \cap Mandatory = {}
    /\ \A code \in Code : \A a, b \in Asked(code) : a = b

(* Rules are accepted if and only if no code is asked for two things and   *)
(* nothing impossible is asked, whatever their order; and an accepted      *)
(* policy gives every code exactly what was asked for it, though named     *)
(* codes and whole levels are kept in different places and looked up one   *)
(* before the other (config.go:126-231, validation.go:2156-2199).  What is *)
(* mandatory is never suppressed.                                          *)
PolicyExact ==
    taken = Len(rules) =>
      /\ ~problems <=> Sound
      /\ ~problems =>
           \A code \in Code :
             /\ FindingLevel(code) =
                  (IF Asked(code) = {"suppress"} THEN "suppressed"
                   ELSE IF Asked(code) = {} THEN DefaultLevel[code]
                   ELSE CHOOSE level \in Asked(code) : TRUE)
             /\ code \in Mandatory => FindingLevel(code) # "suppressed"
=============================================================================
