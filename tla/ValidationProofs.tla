-------------------------- MODULE ValidationProofs --------------------------
(***************************************************************************)
(* Theorems about ValidationPolicy and NestedValidation, for any set of    *)
(* codes and any lists of rules, any schema and any events.                *)
(*                                                                         *)
(* The policy: at every moment the recorded actions, the settings and the  *)
(* flags describe the rules taken so far, and a problem has a reason.      *)
(*                                                                         *)
(* The walk: what an event calls for is cut into places (Origins), each    *)
(* with the findings that are raised there and nowhere else.  Every task   *)
(* that is left has a path where it will run and a region of places that   *)
(* it will pass; the regions do not meet, and the places in none of them   *)
(* are done.  What is visited, found and said describes just those.        *)
(***************************************************************************)
EXTENDS NestedValidation, Iteration, SequenceTheorems, FiniteSetTheorems

SoFar == 1 .. taken

(* What is wrong among the rules taken so far.                             *)
Impossible(i) ==
    \/ Unknown \in rules[i].codes
    \/ rules[i].action = "suppress" /\ rules[i].codes \cap Mandatory # {}

Disagree(i, j, c) ==
    /\ c \in Recorded(rules[i]) /\ c \in Recorded(rules[j])
    /\ rules[i].action # rules[j].action

(* The first action asked for a code stays recorded.                       *)
ActionsInv ==
    \A c \in Code :
      /\ actions[c] = "none" => \A i \in SoFar : c \notin Recorded(rules[i])
      /\ actions[c] # "none" => \E i \in SoFar : c \in Recorded(rules[i]) /\ actions[c] = rules[i].action

(* A problem has a reason, and without one all rules agree.                *)
ProblemsInv ==
    /\ problems => \/ \E i \in SoFar : Impossible(i)
                   \/ \E i, j \in SoFar, c \in Code : Disagree(i, j, c)
    /\ ~problems => \A i \in SoFar :
                      /\ ~Impossible(i)
                      /\ \A c \in Code : c \in Recorded(rules[i]) => actions[c] = rules[i].action

(* Settings are what rules with codes asked for.                           *)
SettingsInv ==
    ~problems => \A c \in Code :
      /\ \A i \in SoFar : c \in rules[i].codes => policy.settings[c] = rules[i].action
      /\ policy.settings[c] # "none" =>
           \E i \in SoFar : c \in rules[i].codes /\ policy.settings[c] = rules[i].action

(* Flags are what rules without codes asked for.                           *)
Bare(i, action) == ~Explicit(rules[i]) /\ rules[i].action = action

FlagsInv ==
    /\ policy.suppressAll <=> \E i \in SoFar : Bare(i, "suppress")
    /\ policy.errorsAsWarnings <=> \E i \in SoFar : Bare(i, "warning")
    /\ policy.warningsAsErrors <=> \E i \in SoFar : Bare(i, "error")

PolicyInv == PolicyTypeOK /\ ActionsInv /\ ProblemsInv /\ SettingsInv /\ FlagsInv

-----------------------------------------------------------------------------
(* A rule of the list is one that the three options make.                  *)
LEMMA RuleFacts ==
    ASSUME rules \in RuleLists, NEW i \in 1 .. Len(rules)
    PROVE  /\ rules[i].action \in ActionName
           /\ rules[i].codes \subseteq Code \cup {Unknown}
           /\ rules[i].action = "suppress" => rules[i].level = "any"
           /\ rules[i].action = "warning" => rules[i].level = "error"
           /\ rules[i].action = "error" => rules[i].level = "warning"
  <1>1. rules \in Seq(Rule)
    BY RulesAssumption
  <1>2. rules[i] \in Rule
    BY <1>1
  <1> QED
    BY <1>2 DEF Rule, LevelOf, ActionName

(* Nothing is compiled before the first rule.                              *)
LEMMA PolicyInitially == PolicyInit => PolicyInv
  <1> SUFFICES ASSUME PolicyInit PROVE PolicyInv
    OBVIOUS
  <1>1. SoFar = {}
    BY DEF SoFar, PolicyInit
  <1>2. Len(rules) \in Nat
    BY RulesAssumption DEF PolicyInit
  <1>3. PolicyTypeOK
    <2>1. actions \in [Code -> ActionName \cup {"none"}]
      BY DEF PolicyInit
    <2>2. policy \in [settings : [Code -> ActionName \cup {"none"}], suppressAll : BOOLEAN,
                      errorsAsWarnings : BOOLEAN, warningsAsErrors : BOOLEAN]
      <3>1. [c \in Code |-> "none"] \in [Code -> ActionName \cup {"none"}]
        OBVIOUS
      <3> QED
        BY <3>1 DEF PolicyInit, NoPolicy
    <2>3. taken \in 0 .. Len(rules)
      BY <1>2 DEF PolicyInit
    <2> QED
      BY <2>1, <2>2, <2>3 DEF PolicyInit, PolicyTypeOK
  <1>4. ActionsInv /\ ProblemsInv /\ SettingsInv
    BY <1>1 DEF PolicyInit, ActionsInv, ProblemsInv, SettingsInv, NoPolicy
  <1>5. FlagsInv
    BY <1>1 DEF PolicyInit, FlagsInv, NoPolicy
  <1> QED
    BY <1>3, <1>4, <1>5 DEF PolicyInv

-----------------------------------------------------------------------------
(* One more rule, for each part of the invariant.                          *)
LEMMA TakeKept ==
    ASSUME PolicyInv, TakeRule
    PROVE  PolicyInv'
  <1> DEFINE n == taken + 1
             rule == rules[n]
  <1>0. /\ rules' = rules /\ taken' = n /\ n \in 1 .. Len(rules)
        /\ taken \in Nat /\ Len(rules) \in Nat
    <2>1. Len(rules) \in Nat
      BY RulesAssumption DEF PolicyInv, PolicyTypeOK
    <2> QED
      BY <2>1 DEF TakeRule, PolicyInv, PolicyTypeOK
  <1>1. /\ SoFar' = SoFar \cup {n} /\ n \notin SoFar
        /\ SoFar \subseteq 1 .. Len(rules)
    BY <1>0 DEF SoFar
  <1>2. /\ rule.action \in ActionName /\ rule.action # "none"
        /\ rule.codes \subseteq Code \cup {Unknown}
    BY <1>0, RuleFacts DEF PolicyInv, PolicyTypeOK, ActionName
  <1>3. /\ actions' = [c \in Code |-> IF c \in Recorded(rule) /\ actions[c] = "none"
                                      THEN rule.action ELSE actions[c]]
        /\ policy' = Adjusted(rule, actions, policy)
        /\ problems' = (problems \/ Refuses(rule, actions))
    BY DEF TakeRule
  <1>4. \A i \in SoFar' : /\ Recorded(rules'[i]) = Recorded(rules[i])
                           /\ Explicit(rules'[i]) = Explicit(rules[i])
    BY <1>0
  <1>5. policy' \in [settings : [Code -> ActionName \cup {"none"}], suppressAll : BOOLEAN,
                     errorsAsWarnings : BOOLEAN, warningsAsErrors : BOOLEAN]
    BY <1>2, <1>3 DEF PolicyInv, PolicyTypeOK, Adjusted, ActionName
  <1>6. PolicyTypeOK'
    <2>1. actions' \in [Code -> ActionName \cup {"none"}]
      BY <1>2, <1>3 DEF PolicyInv, PolicyTypeOK
    <2>2. problems' \in BOOLEAN
      BY <1>3 DEF PolicyInv, PolicyTypeOK, Refuses
    <2> QED
      BY <1>0, <1>5, <2>1, <2>2 DEF PolicyInv, PolicyTypeOK
  <1>7. ActionsInv'
    <2> SUFFICES ASSUME NEW c \in Code
                 PROVE  /\ actions'[c] = "none" => \A i \in SoFar' : c \notin Recorded(rules[i])
                        /\ actions'[c] # "none" =>
                             \E i \in SoFar' : c \in Recorded(rules[i]) /\ actions'[c] = rules[i].action
      BY <1>0 DEF ActionsInv
    <2>1. /\ actions[c] = "none" => \A i \in SoFar : c \notin Recorded(rules[i])
          /\ actions[c] # "none" => \E i \in SoFar : c \in Recorded(rules[i]) /\ actions[c] = rules[i].action
      BY DEF PolicyInv, ActionsInv
    <2> QED
      BY <1>1, <1>2, <1>3, <2>1
  <1>8. ProblemsInv'
    <2>1. CASE problems
      BY <1>0, <1>1, <1>3, <2>1 DEF PolicyInv, ProblemsInv, Impossible, Disagree
    <2>2. CASE ~problems /\ Refuses(rule, actions)
      <3>1. CASE Conflicting(rule, actions) # {}
        <4>1. PICK c \in Code : c \in Recorded(rule) /\ actions[c] \notin {"none", rule.action}
          BY <3>1, <1>2 DEF Conflicting, Recorded, Selected
        <4>2. PICK i \in SoFar : c \in Recorded(rules[i]) /\ actions[c] = rules[i].action
          BY <4>1 DEF PolicyInv, ActionsInv
        <4> QED
          BY <4>1, <4>2, <1>0, <1>1, <1>3, <2>2 DEF ProblemsInv, Disagree
      <3>2. CASE Conflicting(rule, actions) = {}
        <4>1. Impossible(n)
          BY <2>2, <3>2 DEF Refuses, Impossible
        <4> QED
          BY <4>1, <1>0, <1>1, <1>3, <2>2 DEF ProblemsInv, Impossible
      <3> QED
        BY <3>1, <3>2
    <2>3. CASE ~problems /\ ~Refuses(rule, actions)
      <3>1. ~Impossible(n) /\ Conflicting(rule, actions) = {}
        BY <2>3 DEF Refuses, Impossible
      <3>2. \A c \in Code : c \in Recorded(rule) => actions'[c] = rule.action
        BY <3>1, <1>3 DEF Conflicting
      <3>3. \A i \in SoFar : /\ ~Impossible(i)
                              /\ \A c \in Code : c \in Recorded(rules[i]) => actions'[c] = rules[i].action
        <4>1. \A i \in SoFar : /\ ~Impossible(i)
                                /\ \A c \in Code : c \in Recorded(rules[i]) => actions[c] = rules[i].action
          BY <2>3 DEF PolicyInv, ProblemsInv
        <4>2. \A c \in Code : actions[c] = "none" => \A i \in SoFar : c \notin Recorded(rules[i])
          BY DEF PolicyInv, ActionsInv
        <4> QED
          BY <4>1, <4>2, <1>3
      <3> QED
        BY <3>1, <3>2, <3>3, <1>0, <1>1, <1>3, <2>3 DEF ProblemsInv, Impossible
    <2> QED
      BY <2>1, <2>2, <2>3
  <1>9. SettingsInv'
    <2> SUFFICES ASSUME ~problems', NEW c \in Code
                 PROVE  /\ \A i \in SoFar' : c \in rules[i].codes => policy'.settings[c] = rules[i].action
                        /\ policy'.settings[c] # "none" =>
                             \E i \in SoFar' : c \in rules[i].codes /\ policy'.settings[c] = rules[i].action
      BY <1>0 DEF SettingsInv
    <2>1. ~problems /\ ~Refuses(rule, actions)
      BY <1>3
    <2>2. /\ \A i \in SoFar : c \in rules[i].codes => policy.settings[c] = rules[i].action
          /\ policy.settings[c] # "none" =>
               \E i \in SoFar : c \in rules[i].codes /\ policy.settings[c] = rules[i].action
      BY <2>1 DEF PolicyInv, SettingsInv
    <2>3. policy'.settings[c] = IF c \in rule.codes THEN rule.action ELSE policy.settings[c]
      <3>1. c \in rule.codes => ~(rule.action = "suppress" /\ c \in Mandatory)
        BY <2>1 DEF Refuses
      <3>2. Conflicting(rule, actions) = {}
        BY <2>1 DEF Refuses
      <3> QED
        BY <3>1, <3>2, <1>2, <1>3 DEF Adjusted, Explicit, PolicyInv, PolicyTypeOK, ActionName
    <2>4. \A i \in SoFar : c \in rules[i].codes /\ c \in rule.codes => rules[i].action = rule.action
      <3>1. SUFFICES ASSUME NEW i \in SoFar, c \in rules[i].codes, c \in rule.codes
                     PROVE  rules[i].action = rule.action
        OBVIOUS
      <3>2. c \in Recorded(rules[i]) /\ c \in Recorded(rule)
        BY <3>1 DEF Recorded, Selected, Explicit
      <3>3. actions[c] = rules[i].action
        BY <2>1, <3>1, <3>2 DEF PolicyInv, ProblemsInv
      <3>4. rules[i].action # "none"
        BY <1>1, RuleFacts DEF PolicyInv, PolicyTypeOK, ActionName
      <3> QED
        BY <2>1, <3>2, <3>3, <3>4 DEF Refuses, Conflicting
    <2> QED
      BY <1>1, <2>2, <2>3, <2>4
  <1>10. FlagsInv'
    <2>1. /\ policy'.suppressAll = (policy.suppressAll \/ Bare(n, "suppress"))
          /\ policy'.errorsAsWarnings = (policy.errorsAsWarnings \/ Bare(n, "warning"))
          /\ policy'.warningsAsErrors = (policy.warningsAsErrors \/ Bare(n, "error"))
      BY <1>2, <1>3 DEF Adjusted, Bare, PolicyInv, PolicyTypeOK, ActionName
    <2>2. \A action \in ActionName :
            (\E i \in SoFar' : Bare(i, action)') <=> ((\E i \in SoFar : Bare(i, action)) \/ Bare(n, action))
      BY <1>0, <1>1 DEF Bare
    <2> QED
      BY <2>1, <2>2 DEF PolicyInv, FlagsInv, ActionName
  <1> QED
    BY <1>6, <1>7, <1>8, <1>9, <1>10 DEF PolicyInv

(* Recorded actions, settings, flags and problems describe the rules taken *)
(* so far (compileValidationPolicy, config.go:126-231).                    *)
THEOREM PolicyInvariant == PolicySpec => []PolicyInv
  <1>1. PolicyInv /\ [TakeRule]_policyVars => PolicyInv'
    <2> SUFFICES ASSUME PolicyInv, [TakeRule]_policyVars PROVE PolicyInv'
      OBVIOUS
    <2>1. CASE TakeRule
      BY <2>1, TakeKept
    <2>2. CASE UNCHANGED policyVars
      BY <2>2 DEF policyVars, PolicyInv, PolicyTypeOK, ActionsInv, ProblemsInv, SettingsInv, FlagsInv,
                  SoFar, Impossible, Disagree, Bare
    <2> QED
      BY <2>1, <2>2
  <1> QED
    BY <1>1, PolicyInitially, PTL DEF PolicySpec
-----------------------------------------------------------------------------
(* All rules taken and no problem: what each code was asked for and where  *)
(* findingLevel finds it.                                                  *)
LEMMA LevelAsAsked ==
    ASSUME PolicyInv, taken = Len(rules), ~problems, NEW code \in Code
    PROVE  /\ Asked(code) = (IF actions[code] = "none" THEN {} ELSE {actions[code]})
           /\ FindingLevel(code) = (CASE actions[code] = "none" -> DefaultLevel[code]
                                      [] actions[code] = "suppress" -> "suppressed"
                                      [] OTHER -> actions[code])
           /\ code \in Mandatory => actions[code] # "suppress"
  <1>1. SoFar = 1 .. Len(rules)
    BY DEF SoFar
  <1>2. \A i \in 1 .. Len(rules) :
          /\ rules[i].action \in ActionName
          /\ rules[i].action = "suppress" => rules[i].level = "any"
          /\ rules[i].action = "warning" => rules[i].level = "error"
          /\ rules[i].action = "error" => rules[i].level = "warning"
    BY RuleFacts DEF PolicyInv, PolicyTypeOK
  <1>3. /\ actions[code] = "none" => \A i \in 1 .. Len(rules) : code \notin Recorded(rules[i])
        /\ actions[code] # "none" =>
             \E i \in 1 .. Len(rules) : code \in Recorded(rules[i]) /\ actions[code] = rules[i].action
    BY <1>1 DEF PolicyInv, ActionsInv
  <1>4. \A i \in 1 .. Len(rules) : /\ ~Impossible(i)
                                   /\ code \in Recorded(rules[i]) => actions[code] = rules[i].action
    BY <1>1 DEF PolicyInv, ProblemsInv
  <1>5. actions[code] \in ActionName \cup {"none"}
    BY DEF PolicyInv, PolicyTypeOK
  <1>6. Asked(code) = (IF actions[code] = "none" THEN {} ELSE {actions[code]})
    BY <1>2, <1>3, <1>4 DEF Asked, Asks
  <1>7. code \in Mandatory => actions[code] # "suppress"
    <2> SUFFICES ASSUME code \in Mandatory, actions[code] = "suppress" PROVE FALSE
      OBVIOUS
    <2>1. PICK i \in 1 .. Len(rules) : code \in Recorded(rules[i]) /\ rules[i].action = "suppress"
      BY <1>3
    <2>2. CASE Explicit(rules[i])
      <3>1. code \in rules[i].codes
        BY <2>1, <2>2 DEF Recorded, Selected
      <3> QED
        BY <2>1, <3>1, <1>4 DEF Impossible
    <2>3. CASE ~Explicit(rules[i])
      BY <2>1, <2>3 DEF Recorded
    <2> QED
      BY <2>2, <2>3
  <1>8. \A i \in 1 .. Len(rules) : code \in rules[i].codes => code \in Recorded(rules[i])
    BY DEF Recorded, Selected, Explicit
  <1>9. /\ \A i \in 1 .. Len(rules) : code \in rules[i].codes => policy.settings[code] = rules[i].action
        /\ policy.settings[code] # "none" =>
             \E i \in 1 .. Len(rules) : code \in rules[i].codes /\ policy.settings[code] = rules[i].action
    BY <1>1 DEF PolicyInv, SettingsInv
  <1>10. /\ policy.suppressAll <=> \E i \in 1 .. Len(rules) : Bare(i, "suppress")
         /\ policy.errorsAsWarnings <=> \E i \in 1 .. Len(rules) : Bare(i, "warning")
         /\ policy.warningsAsErrors <=> \E i \in 1 .. Len(rules) : Bare(i, "error")
    BY <1>1 DEF PolicyInv, FlagsInv
  <1>11. DefaultLevel[code] \in {"warning", "error"}
    BY CodeAssumption DEF Level
  <1>12. policy.settings[code] \in ActionName \cup {"none"}
    BY DEF PolicyInv, PolicyTypeOK
  <1>13. FindingLevel(code) = (CASE actions[code] = "none" -> DefaultLevel[code]
                                [] actions[code] = "suppress" -> "suppressed"
                                [] OTHER -> actions[code])
    <2>1. CASE policy.settings[code] # "none"
      <3>1. policy.settings[code] = actions[code]
        BY <2>1, <1>4, <1>8, <1>9
      <3> QED
        BY <2>1, <3>1, <1>12 DEF FindingLevel, ActionName, Level
    <2>2. CASE policy.settings[code] = "none"
      <3>1. \A i \in 1 .. Len(rules) : code \notin rules[i].codes
        BY <2>2, <1>2, <1>9 DEF ActionName
      <3>2. \A i \in 1 .. Len(rules) : code \in Recorded(rules[i]) =>
              /\ ~Explicit(rules[i])
              /\ rules[i].level = "any" \/ DefaultLevel[code] = rules[i].level
              /\ rules[i].action = "suppress" => code \notin Mandatory
        BY <3>1 DEF Recorded, Selected
      <3>3. policy.suppressAll /\ code \notin Mandatory => actions[code] = "suppress"
        <4> SUFFICES ASSUME policy.suppressAll, code \notin Mandatory PROVE actions[code] = "suppress"
          OBVIOUS
        <4>1. PICK i \in 1 .. Len(rules) : Bare(i, "suppress")
          BY <1>10
        <4>2. code \in Recorded(rules[i])
          BY <4>1, <1>2 DEF Bare, Recorded, Selected
        <4> QED
          BY <4>1, <4>2, <1>4 DEF Bare
      <3>4. policy.errorsAsWarnings /\ DefaultLevel[code] = "error" => actions[code] = "warning"
        <4> SUFFICES ASSUME policy.errorsAsWarnings, DefaultLevel[code] = "error" PROVE actions[code] = "warning"
          OBVIOUS
        <4>1. PICK i \in 1 .. Len(rules) : Bare(i, "warning")
          BY <1>10
        <4>2. code \in Recorded(rules[i])
          BY <4>1, <1>2 DEF Bare, Recorded, Selected
        <4> QED
          BY <4>1, <4>2, <1>4 DEF Bare
      <3>5. policy.warningsAsErrors /\ DefaultLevel[code] = "warning" => actions[code] = "error"
        <4> SUFFICES ASSUME policy.warningsAsErrors, DefaultLevel[code] = "warning" PROVE actions[code] = "error"
          OBVIOUS
        <4>1. PICK i \in 1 .. Len(rules) : Bare(i, "error")
          BY <1>10
        <4>2. code \in Recorded(rules[i])
          BY <4>1, <1>2 DEF Bare, Recorded, Selected
        <4> QED
          BY <4>1, <4>2, <1>4 DEF Bare
      <3>6. actions[code] = "suppress" => policy.suppressAll /\ code \notin Mandatory
        BY <1>3, <1>7, <1>10, <3>2 DEF Bare
      <3>7. actions[code] = "warning" => policy.errorsAsWarnings /\ DefaultLevel[code] = "error"
        BY <1>2, <1>3, <1>10, <3>2 DEF Bare
      <3>8. actions[code] = "error" => policy.warningsAsErrors /\ DefaultLevel[code] = "warning"
        BY <1>2, <1>3, <1>10, <3>2 DEF Bare
      <3> QED
        BY <2>2, <1>5, <1>11, <3>3, <3>4, <3>5, <3>6, <3>7, <3>8 DEF FindingLevel, ActionName, Level
    <2> QED
      BY <2>1, <2>2
  <1> QED
    BY <1>6, <1>7, <1>13

(* When all rules are taken, problems are what makes them unsound.         *)
LEMMA ProblemsAreUnsound ==
    ASSUME PolicyInv, taken = Len(rules)
    PROVE  ~problems <=> Sound
  <1>1. SoFar = 1 .. Len(rules)
    BY DEF SoFar
  <1>2. problems \in BOOLEAN
    BY DEF PolicyInv, PolicyTypeOK
  <1>3. ASSUME ~problems PROVE Sound
    <2>1. \A i \in 1 .. Len(rules) : ~Impossible(i)
      BY <1>1, <1>3 DEF PolicyInv, ProblemsInv
    <2>2. \A code \in Code : \A x, y \in Asked(code) : x = y
      BY <1>3, LevelAsAsked
    <2> QED
      BY <2>1, <2>2 DEF Sound, Impossible
  <1>4. ASSUME problems PROVE ~Sound
    <2>1. CASE \E i \in SoFar : Impossible(i)
      BY <1>1, <2>1 DEF Impossible, Sound
    <2>2. CASE \E i, j \in SoFar, c \in Code : Disagree(i, j, c)
      <3>1. PICK i \in SoFar, j \in SoFar, c \in Code : Disagree(i, j, c)
        BY <2>2
      <3>2. rules[i].action \in Asked(c) /\ rules[j].action \in Asked(c)
        BY <1>1, <3>1, RuleFacts DEF Asked, Asks, Disagree, PolicyInv, PolicyTypeOK
      <3> QED
        BY <3>1, <3>2 DEF Sound, Disagree
    <2> QED
      BY <1>4, <2>1, <2>2 DEF PolicyInv, ProblemsInv
  <1> QED
    BY <1>2, <1>3, <1>4

(* Variables of the compilation keep their types.                          *)
THEOREM PolicyTypeCorrect == PolicySpec => []PolicyTypeOK
  <1>1. PolicyInv => PolicyTypeOK
    BY DEF PolicyInv
  <1> QED
    BY <1>1, PolicyInvariant, PTL

(* Accepted or not, for a reason; and then each code as it was asked.      *)
LEMMA PolicyHolds == PolicyInv => PolicyExact
  <1> SUFFICES ASSUME PolicyInv, taken = Len(rules)
               PROVE  /\ ~problems <=> Sound
                      /\ ~problems =>
                           \A code \in Code :
                             /\ FindingLevel(code) =
                                  (IF Asked(code) = {"suppress"} THEN "suppressed"
                                   ELSE IF Asked(code) = {} THEN DefaultLevel[code]
                                   ELSE CHOOSE level \in Asked(code) : TRUE)
                             /\ code \in Mandatory => FindingLevel(code) # "suppressed"
    BY DEF PolicyExact
  <1>1. ~problems <=> Sound
    BY ProblemsAreUnsound
  <1>2. ASSUME ~problems, NEW code \in Code
        PROVE  /\ FindingLevel(code) =
                    (IF Asked(code) = {"suppress"} THEN "suppressed"
                     ELSE IF Asked(code) = {} THEN DefaultLevel[code]
                     ELSE CHOOSE level \in Asked(code) : TRUE)
               /\ code \in Mandatory => FindingLevel(code) # "suppressed"
    <2>1. /\ Asked(code) = (IF actions[code] = "none" THEN {} ELSE {actions[code]})
          /\ FindingLevel(code) = (CASE actions[code] = "none" -> DefaultLevel[code]
                                     [] actions[code] = "suppress" -> "suppressed"
                                     [] OTHER -> actions[code])
          /\ code \in Mandatory => actions[code] # "suppress"
      BY <1>2, LevelAsAsked
    <2>2. DefaultLevel[code] \in {"warning", "error"}
      BY <1>2, CodeAssumption DEF Level
    <2>3. actions[code] \in ActionName \cup {"none"}
      BY <1>2 DEF PolicyInv, PolicyTypeOK
    <2>4. \A x : (CHOOSE level \in {x} : TRUE) = x
      OBVIOUS
    <2>5. CASE actions[code] = "none"
      BY <2>1, <2>2, <2>5
    <2>6. CASE actions[code] = "suppress"
      BY <2>1, <2>6
    <2>7. CASE actions[code] \in {"warning", "error"}
      <3>1. Asked(code) = {actions[code]} /\ FindingLevel(code) = actions[code]
        BY <2>1, <2>7
      <3> QED
        BY <3>1, <2>4, <2>7
    <2> QED
      BY <2>3, <2>5, <2>6, <2>7 DEF ActionName
  <1> QED
    BY <1>1, <1>2

(* For all codes and rules: accepted if and only if they can be satisfied, *)
(* every code reported as asked, nothing mandatory suppressed              *)
(* (compileValidationPolicy, findingLevel).                                *)
THEOREM PolicyIsExact == PolicySpec => []PolicyExact
  BY PolicyHolds, PolicyInvariant, PTL

(* Nothing but TakeRule changes the policy.                                *)
LEMMA PolicyStays ==
    ASSUME PolicyInv, TakeRule \/ UNCHANGED policyVars
    PROVE  PolicyInv'
  <1>1. CASE TakeRule
    BY <1>1, TakeKept
  <1>2. CASE UNCHANGED policyVars
    BY <1>2 DEF policyVars, PolicyInv, PolicyTypeOK, ActionsInv, ProblemsInv, SettingsInv, FlagsInv,
                SoFar, Impossible, Disagree, Bare
  <1> QED
    BY <1>1, <1>2

-----------------------------------------------------------------------------
(* Induction over sequences, of a set of them.                             *)
LEMMA SeqInduct ==
    ASSUME NEW S, NEW T, <<>> \in T,
           \A s \in Seq(S), x \in S : s \in T => Append(s, x) \in T
    PROVE  Seq(S) \subseteq T
<1> DEFINE R == {n \in Nat : \A s \in Seq(S) : Len(s) = n => s \in T}
<1>1. 0 \in R
  BY EmptySeq
<1>2. ASSUME NEW n \in Nat, n \in R PROVE n + 1 \in R
  <2> SUFFICES ASSUME NEW s \in Seq(S), Len(s) = n + 1 PROVE s \in T
    OBVIOUS
  <2>1. s # <<>>
    BY EmptySeq
  <2>2. PICK t \in Seq(S), x \in S : s = Append(t, x)
    BY <2>1, SequenceEmptyOrAppend
  <2>3. Len(t) \in Nat /\ Len(s) = Len(t) + 1
    BY <2>2, AppendProperties, LenProperties
  <2>4. Len(t) = n
    BY <2>3
  <2>5. QED BY <1>2, <2>2, <2>4
<1> HIDE DEF R
<1>3. Nat \subseteq R
  BY <1>1, <1>2, NatInduct
<1>4. QED BY <1>3, LenProperties DEF R

(* What Kept computes, one element after the other.                        *)
LEMMA KeptSteps ==
    ASSUME NEW S, NEW s \in Seq(S), NEW good
    PROVE  \E f : /\ f[0] = <<>>
                  /\ \A n \in 1 .. Len(s) :
                       f[n] = IF s[n] \in good THEN Append(f[n - 1], s[n]) ELSE f[n - 1]
                  /\ Kept(s, good) = f[Len(s)]
<1> DEFINE Is(f, m) == f = [n \in 0 .. m |-> IF n = 0 THEN <<>>
                                             ELSE IF s[n] \in good THEN Append(f[n - 1], s[n]) ELSE f[n - 1]]
           R == {m \in Nat : \E f : Is(f, m)}
<1>1. 0 \in R
  <2>1. Is([n \in 0 .. 0 |-> <<>>], 0)
    OBVIOUS
  <2>2. QED BY <2>1
<1>2. ASSUME NEW m \in Nat, m \in R PROVE m + 1 \in R
  <2>1. PICK f : Is(f, m)
    BY <1>2
  <2> DEFINE last == IF s[m + 1] \in good THEN Append(f[m], s[m + 1]) ELSE f[m]
             g == [n \in 0 .. m + 1 |-> IF n = m + 1 THEN last ELSE f[n]]
             h == [n \in 0 .. m + 1 |-> IF n = 0 THEN <<>>
                                        ELSE IF s[n] \in good THEN Append(g[n - 1], s[n]) ELSE g[n - 1]]
  <2> HIDE DEF last
  <2>2. ASSUME NEW n \in 0 .. m + 1 PROVE g[n] = h[n]
    <3>1. CASE n = 0
      BY <2>1, <3>1
    <3>2. CASE n \in 1 .. m
      <4>1. g[n] = f[n] /\ g[n - 1] = f[n - 1]
        BY <3>2
      <4>2. f[n] = IF s[n] \in good THEN Append(f[n - 1], s[n]) ELSE f[n - 1]
        <5>1. n \in 0 .. m /\ n # 0
          BY <3>2
        <5> HIDE DEF last, g, h
        <5>2. QED BY <2>1, <5>1
      <4>3. h[n] = IF s[n] \in good THEN Append(g[n - 1], s[n]) ELSE g[n - 1]
        BY <3>2
      <4> HIDE DEF g, h
      <4>4. QED BY <4>1, <4>2, <4>3
    <3>3. CASE n = m + 1
      <4>1. g[n] = last /\ g[n - 1] = f[m] /\ n # 0
        BY <3>3
      <4>2. h[n] = IF s[n] \in good THEN Append(g[n - 1], s[n]) ELSE g[n - 1]
        BY <3>3
      <4> HIDE DEF g, h
      <4>3. QED BY <3>3, <4>1, <4>2 DEF last
    <3>4. QED BY <3>1, <3>2, <3>3
  <2>3. g = h
    <3>1. DOMAIN g = 0 .. m + 1 /\ DOMAIN h = 0 .. m + 1 /\ g = [n \in 0 .. m + 1 |-> g[n]]
          /\ h = [n \in 0 .. m + 1 |-> h[n]]
      OBVIOUS
    <3> HIDE DEF g, h
    <3>2. QED BY <2>2, <3>1
  <2>4. Is(g, m + 1)
    BY <2>3
  <2> HIDE DEF Is, g
  <2>5. QED BY <2>4
<1>3. PICK f : Is(f, Len(s))
  <2>1. Len(s) \in Nat
    BY LenProperties
  <2> HIDE DEF R
  <2>2. Len(s) \in R
    BY <1>1, <1>2, <2>1, NatInduct
  <2>3. QED BY <2>2 DEF R
<1> DEFINE c == CHOOSE g : Is(g, Len(s))
<1>4. Is(c, Len(s))
  <2> HIDE DEF Is
  <2>1. QED BY <1>3
<1>5. Kept(s, good) = c[Len(s)]
  BY DEF Kept
<1>6. Len(s) \in Nat
  BY LenProperties
<1> HIDE DEF c
<1>7. c[0] = <<>>
  BY <1>4, <1>6
<1>8. ASSUME NEW n \in 1 .. Len(s)
      PROVE  c[n] = IF s[n] \in good THEN Append(c[n - 1], s[n]) ELSE c[n - 1]
  <2>1. n \in 0 .. Len(s) /\ n # 0
    BY <1>6
  <2>2. QED BY <1>4, <2>1
<1>9. QED BY <1>5, <1>7, <1>8

(* Nothing is kept of nothing; the last element comes last.                *)
LEMMA KeptEmpty == ASSUME NEW good PROVE Kept(<<>>, good) = <<>>
<1> DEFINE s == <<>>
<1>1. s \in Seq(Nat) /\ Len(s) = 0
  BY EmptySeq
<1> HIDE DEF s
<1>2. PICK f : /\ f[0] = <<>>
               /\ \A n \in 1 .. Len(s) :
                    f[n] = IF s[n] \in good THEN Append(f[n - 1], s[n]) ELSE f[n - 1]
               /\ Kept(s, good) = f[Len(s)]
  BY <1>1, KeptSteps
<1>3. QED BY <1>1, <1>2 DEF s

(* One more element is kept if it is good.                                 *)
LEMMA KeptAppend ==
    ASSUME NEW S, NEW s \in Seq(S), NEW x \in S, NEW good
    PROVE  Kept(Append(s, x), good) =
             IF x \in good THEN Append(Kept(s, good), x) ELSE Kept(s, good)
<1> DEFINE t == Append(s, x)
           m == Len(s)
<1>1. /\ t \in Seq(S) /\ Len(t) = m + 1 /\ m \in Nat
      /\ \A n \in 1 .. m : t[n] = s[n]
      /\ t[m + 1] = x
  BY AppendProperties, LenProperties
<1>2. PICK f : /\ f[0] = <<>>
               /\ \A n \in 1 .. m : f[n] = IF s[n] \in good THEN Append(f[n - 1], s[n]) ELSE f[n - 1]
               /\ Kept(s, good) = f[m]
  BY KeptSteps
<1> HIDE DEF t
<1>3. PICK g : /\ g[0] = <<>>
               /\ \A n \in 1 .. Len(t) : g[n] = IF t[n] \in good THEN Append(g[n - 1], t[n]) ELSE g[n - 1]
               /\ Kept(t, good) = g[Len(t)]
  BY <1>1, KeptSteps
<1> DEFINE R == {n \in 0 .. m : f[n] = g[n]}
<1>4. 0 .. m \subseteq R
  <2>1. 0 \in R
    BY <1>1, <1>2, <1>3
  <2>2. ASSUME NEW n \in 0 .. m - 1, n \in R PROVE n + 1 \in R
    <3>1. n + 1 \in 1 .. m /\ n + 1 \in 1 .. Len(t) /\ (n + 1) - 1 = n /\ n + 1 \in 0 .. m
      BY <1>1, <2>2
    <3>2. f[n + 1] = IF s[n + 1] \in good THEN Append(f[n], s[n + 1]) ELSE f[n]
      BY <1>2, <3>1
    <3>3. g[n + 1] = IF t[n + 1] \in good THEN Append(g[n], t[n + 1]) ELSE g[n]
      BY <1>3, <3>1
    <3>4. QED BY <1>1, <2>2, <3>1, <3>2, <3>3
  <2> HIDE DEF R
  <2>3. QED BY <1>1, <2>1, <2>2, BoundedInduct
<1>5. f[m] = g[m]
  <2>1. m \in 0 .. m
    BY <1>1
  <2>2. QED BY <1>4, <2>1
<1>6. g[m + 1] = IF t[m + 1] \in good THEN Append(g[m], t[m + 1]) ELSE g[m]
  <2>1. m + 1 \in 1 .. Len(t) /\ (m + 1) - 1 = m
    BY <1>1
  <2>2. QED BY <1>3, <2>1
<1>7. QED BY <1>1, <1>2, <1>3, <1>5, <1>6 DEF t

(* Where a sequence has elements that are in a set.                        *)
Hits(u, good) == {i \in DOMAIN u : u[i] \in good}

(* What is kept, how much of it, and how often.                            *)
LEMMA KeptFacts ==
    ASSUME NEW S, NEW s \in Seq(S), NEW good
    PROVE  /\ Kept(s, good) \in Seq(S)
           /\ ToSet(Kept(s, good)) = ToSet(s) \cap good
           /\ Len(Kept(s, good)) = Cardinality(Hits(s, good))
           /\ IsFiniteSet(Hits(s, good))
<1> DEFINE T == {u \in Seq(S) : /\ Kept(u, good) \in Seq(S)
                               /\ ToSet(Kept(u, good)) = ToSet(u) \cap good
                               /\ Len(Kept(u, good)) = Cardinality(Hits(u, good))
                               /\ IsFiniteSet(Hits(u, good))}
<1>1. <<>> \in T
  <2>1. Hits(<<>>, good) = {} /\ ToSet(<<>>) = {}
    BY DEF ToSet, Hits
  <2>2. QED BY <2>1, KeptEmpty, EmptySeq, FS_EmptySet
<1>2. ASSUME NEW u \in Seq(S), NEW x \in S, u \in T PROVE Append(u, x) \in T
  <2> DEFINE w == Append(u, x)
             m == Len(u)
             k == Kept(u, good)
  <2>1. /\ w \in Seq(S) /\ Len(w) = m + 1 /\ m \in Nat
        /\ \A n \in 1 .. m : w[n] = u[n]
        /\ w[m + 1] = x /\ DOMAIN w = 1 .. m + 1 /\ DOMAIN u = 1 .. m
    BY AppendProperties, LenProperties
  <2>2. k \in Seq(S) /\ ToSet(k) = ToSet(u) \cap good /\ Len(k) = Cardinality(Hits(u, good)) /\ IsFiniteSet(Hits(u, good))
    BY <1>2
  <2>3. Kept(w, good) = IF x \in good THEN Append(k, x) ELSE k
    BY KeptAppend
  <2>4. /\ Append(k, x) \in Seq(S) /\ Len(Append(k, x)) = Len(k) + 1
        /\ Len(k) \in Nat /\ DOMAIN k = 1 .. Len(k)
        /\ DOMAIN Append(k, x) = 1 .. Len(k) + 1
        /\ \A n \in 1 .. Len(k) : Append(k, x)[n] = k[n]
        /\ Append(k, x)[Len(k) + 1] = x
    <3>0. k \in Seq(S) /\ x \in S
      BY <2>2
    <3> HIDE DEF w, k
    <3>1. /\ Append(k, x) \in Seq(S) /\ Len(Append(k, x)) = Len(k) + 1
          /\ \A n \in 1 .. Len(k) : Append(k, x)[n] = k[n]
          /\ Append(k, x)[Len(k) + 1] = x
      BY <3>0, AppendProperties
    <3>2. Len(k) \in Nat /\ DOMAIN k = 1 .. Len(k) /\ DOMAIN Append(k, x) = 1 .. Len(Append(k, x))
      BY <2>2, <3>1, LenProperties
    <3>3. QED BY <3>1, <3>2
  <2> HIDE DEF w, k
  <2>5. ToSet(w) = ToSet(u) \cup {x}
    BY <2>1 DEF ToSet
  <2>6. ToSet(Append(k, x)) = ToSet(k) \cup {x}
    BY <2>4 DEF ToSet
  <2>7. Hits(w, good) = (IF x \in good THEN Hits(u, good) \cup {m + 1} ELSE Hits(u, good)) /\ m + 1 \notin Hits(u, good)
    BY <2>1 DEF Hits
  <2>8. Cardinality(Hits(u, good) \cup {m + 1}) = Cardinality(Hits(u, good)) + 1 /\ IsFiniteSet(Hits(u, good) \cup {m + 1})
    <3> DEFINE A == Hits(u, good)
    <3>1. IsFiniteSet(A) /\ m + 1 \notin A
      BY <2>2, <2>7
    <3> HIDE DEF A
    <3>2. Cardinality(A \cup {m + 1}) = Cardinality(A) + 1 /\ IsFiniteSet(A \cup {m + 1})
      BY <3>1, FS_AddElement
    <3>3. QED BY <3>2 DEF A
  <2>9. CASE x \in good
    <3>1. Kept(w, good) = Append(k, x) /\ Hits(w, good) = Hits(u, good) \cup {m + 1}
      BY <2>3, <2>7, <2>9
    <3>2. ToSet(Append(k, x)) = ToSet(w) \cap good
      BY ONLY <2>2, <2>5, <2>6, <2>9
    <3>3. Len(Append(k, x)) = Cardinality(Hits(u, good) \cup {m + 1})
      BY ONLY <2>2, <2>4, <2>8
    <3>4. w \in Seq(S) /\ Append(k, x) \in Seq(S) /\ IsFiniteSet(Hits(u, good) \cup {m + 1})
      BY <2>1, <2>4, <2>8
    <3>5. w \in T
      BY ONLY <3>1, <3>2, <3>3, <3>4
    <3>6. QED BY <3>5 DEF w
  <2>10. CASE x \notin good
    BY <2>1, <2>2, <2>3, <2>5, <2>7, <2>10 DEF w
  <2>11. QED BY <2>9, <2>10
<1> HIDE DEF T
<1>3. Seq(S) \subseteq T
  BY <1>1, <1>2, SeqInduct
<1>4. QED BY <1>3 DEF T

-----------------------------------------------------------------------------
(* Elements of paths: attribute names and array indexes.                   *)
Element == STRING
Path == Seq(Element)

(* A sequence of something.                                                *)
Sequence(s) == s \in Seq(ToSet(s))

(* p is above q, or is it.                                                 *)
Under(p, q) == Len(p) <= Len(q) /\ \A i \in 1 .. Len(p) : q[i] = p[i]

(* The attribute that a place belongs to: itself or, of an array, its.     *)
Owner(p) == IF IsName(Last(p)) THEN p ELSE Front(p)

(* What an event holds at a path.                                          *)
Node(p, v) == [at |-> p, value |-> v]

(* Attribute a is active at the entered object o.                          *)
Gives(e, o, a) == o \in Entered(e) /\ a \in AttributesAt(e, o) /\ Active(e.profiles, a)
PlaceOf(o, a) == Append(o.at, a.name)

(* n is a value of it: the only one, or an element.                        *)
ElementAt(o, a, i) == Node(Append(PlaceOf(o, a), Index[i]), At(o.value, a.name).of[i])
Single(e, n, o, a) ==
    /\ Gives(e, o, a) /\ ~a.array
    /\ n = Node(PlaceOf(o, a), At(o.value, a.name)) /\ Present(At(o.value, a.name))
OfArray(e, n, o, a) ==
    /\ Gives(e, o, a) /\ a.array /\ At(o.value, a.name).k = "array"
    /\ \E i \in DOMAIN At(o.value, a.name).of : n = ElementAt(o, a, i)
ValueOf(e, n, o, a) == Single(e, n, o, a) \/ OfArray(e, n, o, a)

(* What the walk does one after the other, each with its findings.         *)
Origin(kind, p) == [kind |-> kind, at |-> p]
Begin == Origin("begin", <<>>)
End == Origin("end", <<>>)

Origins(e) ==
    {Begin, End}
    \cup {Origin("value", v.at) : v \in Values(e)}
    \cup {Origin("leave", o.at) : o \in Entered(e) \ {Root(e)}}
    \cup UNION {{Origin("attribute", Append(o.at, a.name)) : a \in AttributesAt(e, o)} : o \in Entered(e)}

(* The end of the object at a path.                                        *)
LeaveOf(p) == IF p = <<>> THEN End ELSE Origin("leave", p)

(* What is found at each.                                                  *)
RaisedAt(e, x, f) ==
    \/ x = Begin /\ f = Finding("ClassDeprecated", <<>>) /\ Schema[Class].deprecated
    \/ x = End /\ f \in ToSet(TypeUIDWrong(e))
    \/ \E o \in Entered(e) : \E a \in AttributesAt(e, o) : \E code \in AttributeFaults(e, o, a) :
         x = Origin("attribute", PlaceOf(o, a)) /\ f = Finding(code, PlaceOf(o, a))
    \/ \E v \in Values(e) : \E code \in ValueFaults(e, v) :
         x = Origin("value", v.at) /\ f = Finding(code, v.at)
    \/ \E o \in Entered(e) : x = LeaveOf(o.at) /\ f \in ObjectWrong(e, o)

FoundIn(e, from) == {f \in Wrong(e) : \E x \in from : RaisedAt(e, x, f)}

(* What a task will do, from its place on.                                 *)
PlaceRegion(e, p) == {x \in Origins(e) : Under(p, x.at)}

ValueRegion(e, p) == PlaceRegion(e, p) \ {Origin("attribute", p)}

ItemRegion(e, p, type, next) ==
    {x \in Origins(e) : \E k \in DOMAIN Attributes(type) :
       k >= next /\ Under(Append(p, Attributes(type)[k].name), x.at)}

ArrayRegion(e, p, v, next) ==
    {x \in Origins(e) : \E k \in DOMAIN v.of : k >= next /\ Under(Append(p, Index[k]), x.at)}

Region(e, task, p) ==
    CASE task.do = "item" -> ItemRegion(e, p, task.type, task.next)
      [] task.do = "array" -> ArrayRegion(e, p, task.value, task.next)
      [] task.do = "value" -> ValueRegion(e, p)
      [] task.do = "leave" -> {Origin("leave", p)}
      [] task.do = "end" -> {End}
      [] task.do = "pop" -> {}

(* The path after a task; what a task has to be at its path.               *)
After(task, p) == IF task.do = "pop" THEN Front(p) ELSE p

Fits(e, task, p) ==
    CASE task.do = "item" ->
           /\ Node(p, task.item) \in Entered(e) /\ task.type = TypeAt(e, Node(p, task.item))
           /\ task.next \in Nat \ {0} /\ task = Item(task.type, task.item, task.next)
      [] task.do = "array" ->
           /\ \E o \in Entered(e) : /\ Gives(e, o, task.of) /\ p = PlaceOf(o, task.of)
                                    /\ task.value = At(o.value, task.of.name)
           /\ task.of.array /\ task.value.k = "array"
           /\ task.next \in Nat \ {0} /\ task = Elements(task.of, task.value, task.next)
      [] task.do = "value" -> \E o \in Entered(e) : ValueOf(e, Node(p, task.value), o, task.of)
      [] task.do = "leave" ->
           /\ Node(p, task.item) \in Entered(e) \ {Root(e)} /\ task.type = TypeAt(e, Node(p, task.item))
      [] task.do = "end" -> p = <<>>
      [] task.do = "pop" -> p # <<>>

(* The tasks of a walk; those that judge a value.                          *)
Task == {"item", "array", "value", "leave", "end", "pop"}
Judging == {"value", "array"}
Prior(task, p) == HasPriorAttribute(p, task.of.name)

(* A value is in an attribute, or an element of an array; if it stops the  *)
(* walk, nothing has been visited since its attribute was.                 *)
Framed(tasks, at, seen, i) ==
    /\ i + 2 \in DOMAIN tasks /\ tasks[i + 1].do = "pop"
    /\ \/ tasks[i + 2].do = "item"
       \/ /\ tasks[i].do = "value" /\ tasks[i + 2].do = "array"
          /\ tasks[i + 2].of = tasks[i].of /\ ~IsName(Last(at[i]))
    /\ Prior(tasks[i], at[i]) =>
         /\ seen # <<>> /\ Owner(at[i]) = Last(seen)
         /\ \A j \in 1 .. i - 1 : tasks[j].do # "item"

(* The tasks, the path at each, and the empty path after the last: each    *)
(* fits its place, the last is the end, and no two pass the same origin.   *)
Plan(e, tasks, at, seen) ==
    /\ Sequence(tasks) /\ Sequence(at) /\ Len(at) = Len(tasks) + 1 /\ at[Len(at)] = <<>>
    /\ \A i \in DOMAIN tasks :
         /\ at[i] \in Path /\ at[i + 1] = After(tasks[i], at[i])
         /\ tasks[i].do \in Task /\ Fits(e, tasks[i], at[i])
         /\ tasks[i].do = "end" <=> i = Len(tasks)
         /\ \A j \in DOMAIN tasks : i # j => Region(e, tasks[i], at[i]) \cap Region(e, tasks[j], at[j]) = {}
         /\ tasks[i].do \in Judging => Framed(tasks, at, seen, i)

(* What has been done.                                                     *)
Past(e, tasks, at) == {x \in Origins(e) : \A i \in DOMAIN tasks : x \notin Region(e, tasks[i], at[i])}

(* Visited once: the active attributes that have been passed.              *)
VisitsInv(e, past, seen) ==
    /\ seen \in Seq(Path) /\ IsInjective(seen)
    /\ \A q \in ToSet(seen) : \E o \in Entered(e) : \E a \in AttributesAt(e, o) :
         Gives(e, o, a) /\ q = PlaceOf(o, a) /\ Origin("attribute", q) \in past
    /\ \A o \in Entered(e) : \A a \in AttributesAt(e, o) :
         Gives(e, o, a) /\ Origin("attribute", PlaceOf(o, a)) \in past => PlaceOf(o, a) \in ToSet(seen)

Limit(p) == Finding("EventTraversalLimited", p)

(* The limit is said when the first is passed, for the first visited of    *)
(* all attributes whose values the walk will stop at.                      *)
LimitInv(e, past, seen, said) ==
    \/ said = <<>> /\ \A m \in Limited(e) : Origin("value", m.at) \notin past
    \/ \E n \in Limited(e) :
         /\ said = <<Limit(n.at)>>
         /\ \E i \in DOMAIN seen :
              /\ seen[i] = Owner(n.at)
              /\ \A m \in Limited(e), j \in DOMAIN seen : seen[j] = Owner(m.at) => i <= j

Shown(wrong) == {f \in wrong : FindingLevel(f.code) # "suppressed"}
Hidden(wrong, level) == {f \in wrong : FindingLevel(f.code) = "suppressed" /\ DefaultLevel[f.code] = level}

(* What is wrong is reported once at the level of its code, or counted.    *)
Tally(wrong, reports, counts) ==
    /\ IsFiniteSet(wrong) /\ Sequence(reports) /\ counts \in [Level -> Nat]
    /\ ToSet(reports) = {[code |-> f.code, path |-> f.path, level |-> FindingLevel(f.code)] : f \in Shown(wrong)}
    /\ Len(reports) = Cardinality(Shown(wrong))
    /\ \A level \in Level : counts[level] = Cardinality(Hidden(wrong, level))

(* An event is walked, or has been; its class is known.                    *)
Walking(at) ==
    /\ Compiled /\ ClassIssue(event.item) = "none"
    /\ Plan(event, todo, at, visits) /\ at[1] = path
    /\ VisitsInv(event, Past(event, todo, at), visits)
    /\ LimitInv(event, Past(event, todo, at), visits, issues)
    /\ Tally(FoundIn(event, Past(event, todo, at)), findings, suppressed)
    /\ done <=> todo = <<>>

(* An event without a class has been refused.                              *)
Refused ==
    LET issue == Finding(ClassIssue(event.item), <<"class_uid">>)
    IN /\ Compiled /\ ClassIssue(event.item) # "none"
       /\ todo = <<>> /\ path = <<>> /\ visits = <<>> /\ done
       /\ issues = <<issue>> /\ Tally({issue}, findings, suppressed)

(* Nothing has been done with the event.                                   *)
Waiting ==
    /\ todo = <<[do |-> "begin"]>> /\ path = <<>> /\ visits = <<>>
    /\ findings = <<>> /\ suppressed = [level \in Level |-> 0]
    /\ issues = <<>> /\ done = FALSE

-----------------------------------------------------------------------------
(* A path and one more element.                                            *)
LEMMA Longer ==
    ASSUME NEW p \in Path, NEW x \in Element
    PROVE  /\ Append(p, x) \in Path /\ Append(p, x) # <<>>
           /\ Len(Append(p, x)) = Len(p) + 1 /\ Len(p) \in Nat
           /\ \A i \in 1 .. Len(p) : Append(p, x)[i] = p[i]
           /\ Append(p, x)[Len(p) + 1] = x
           /\ DOMAIN Append(p, x) = 1 .. Len(p) + 1 /\ DOMAIN p = 1 .. Len(p)
           /\ Front(Append(p, x)) = p /\ Last(Append(p, x)) = x
<1> DEFINE q == Append(p, x)
<1>1. /\ q \in Path /\ q # <<>> /\ Len(q) = Len(p) + 1 /\ Len(p) \in Nat
      /\ \A i \in 1 .. Len(p) : q[i] = p[i]
      /\ q[Len(p) + 1] = x
  BY AppendProperties, LenProperties DEF Path
<1>2. DOMAIN q = 1 .. Len(p) + 1 /\ DOMAIN p = 1 .. Len(p)
  BY <1>1, LenProperties DEF Path
<1> HIDE DEF q
<1>3. Last(q) = x
  BY <1>1 DEF Last
<1>4. Front(q) = p
  <2>1. Front(q) = SubSeq(q, 1, Len(p))
    BY <1>1 DEF Front
  <2>2. \A i \in 1 .. Len(p) : q[i] \in Element
    BY <1>1 DEF Path
  <2>3. /\ SubSeq(q, 1, Len(p)) \in Path
        /\ Len(SubSeq(q, 1, Len(p))) = Len(p)
        /\ \A i \in 1 .. Len(p) : SubSeq(q, 1, Len(p))[i] = q[i]
    BY <1>1, <2>2, SubSeqProperties DEF Path
  <2>4. QED BY <1>1, <2>1, <2>3, SeqEqual DEF Path
<1>5. QED BY <1>1, <1>2, <1>3, <1>4 DEF q

(* A path that is not empty is a shorter one and its last element.         *)
LEMMA Shorter ==
    ASSUME NEW p \in Path, p # <<>>
    PROVE  /\ Front(p) \in Path /\ Last(p) \in Element
           /\ p = Append(Front(p), Last(p))
           /\ Len(p) \in Nat /\ Len(p) > 0 /\ Len(Front(p)) = Len(p) - 1
<1>1. PICK q \in Path, x \in Element : p = Append(q, x)
  BY SequenceEmptyOrAppend DEF Path
<1>2. Front(Append(q, x)) = q /\ Last(Append(q, x)) = x /\ Len(Append(q, x)) = Len(q) + 1 /\ Len(q) \in Nat
  BY Longer
<1>3. Front(p) = q /\ Last(p) = x /\ Len(p) = Len(q) + 1
  BY <1>1, <1>2
<1>4. QED BY <1>1, <1>2, <1>3

(* Two paths that are made longer.                                         *)
LEMMA SameLonger ==
    ASSUME NEW p \in Path, NEW q \in Path, NEW x \in Element, NEW y \in Element,
           Append(p, x) = Append(q, y)
    PROVE  p = q /\ x = y
<1>1. Front(Append(p, x)) = p /\ Last(Append(p, x)) = x
  BY Longer
<1>2. Front(Append(q, y)) = q /\ Last(Append(q, y)) = y
  BY Longer
<1>3. QED BY <1>1, <1>2

(* The empty path.                                                         *)
LEMMA EmptyPath == <<>> \in Path /\ Len(<<>>) = 0 /\ DOMAIN <<>> = {}
BY EmptySeq DEF Path

-----------------------------------------------------------------------------
(* Above and below.                                                        *)
LEMMA UnderItself == ASSUME NEW p \in Path PROVE Under(p, p)
<1>1. Len(p) \in Nat
  BY LenProperties DEF Path
<1>2. QED BY <1>1 DEF Under

(* Everything is under the empty path.                                     *)
LEMMA UnderAll == ASSUME NEW p \in Path PROVE Under(<<>>, p)
<1>1. Len(p) \in Nat
  BY LenProperties DEF Path
<1>2. QED BY <1>1, EmptyPath DEF Under

(* What is above what is above is above.                                   *)
LEMMA UnderTrans ==
    ASSUME NEW p \in Path, NEW q \in Path, NEW r \in Path, Under(p, q), Under(q, r)
    PROVE  Under(p, r)
<1>1. Len(p) \in Nat /\ Len(q) \in Nat /\ Len(r) \in Nat
  BY LenProperties DEF Path
<1>2. QED BY <1>1 DEF Under

(* Above a longer path: above the shorter one, or the path itself.         *)
LEMMA UnderLonger ==
    ASSUME NEW p \in Path, NEW q \in Path, NEW x \in Element
    PROVE  Under(p, Append(q, x)) <=> Under(p, q) \/ p = Append(q, x)
<1> DEFINE r == Append(q, x)
<1>1. /\ r \in Path /\ Len(r) = Len(q) + 1 /\ Len(q) \in Nat /\ Len(p) \in Nat
      /\ \A i \in 1 .. Len(q) : r[i] = q[i]
  BY Longer, LenProperties DEF Path
<1> HIDE DEF r
<1>2. CASE Len(p) <= Len(q)
  BY <1>1, <1>2 DEF Under
<1>3. CASE Len(p) > Len(q)
  <2>1. ~Under(p, q)
    BY <1>1, <1>3 DEF Under
  <2>2. ASSUME Under(p, r) PROVE p = r
    <3>1. Len(p) = Len(r) /\ \A i \in 1 .. Len(p) : p[i] = r[i]
      BY <1>1, <1>3, <2>2 DEF Under
    <3>2. QED BY <1>1, <3>1, SeqEqual DEF Path
  <2>3. QED BY <1>1, <2>1, <2>2, UnderItself DEF r
<1>4. QED BY <1>1, <1>2, <1>3 DEF r

(* No path is under two of the same parent.                                *)
LEMMA UnderApart ==
    ASSUME NEW p \in Path, NEW x \in Element, NEW y \in Element, NEW q \in Path,
           Under(Append(p, x), q), Under(Append(p, y), q)
    PROVE  x = y
<1>1. /\ Len(Append(p, x)) = Len(p) + 1 /\ Append(p, x)[Len(p) + 1] = x /\ Len(p) \in Nat
      /\ Len(Append(p, y)) = Len(p) + 1 /\ Append(p, y)[Len(p) + 1] = y
  BY Longer
<1>2. QED BY <1>1 DEF Under

(* What is under a longer path is further down, by its element.            *)
LEMMA UnderFurther ==
    ASSUME NEW p \in Path, NEW x \in Element, NEW q \in Path, Under(Append(p, x), q)
    PROVE  Under(p, q) /\ Len(q) > Len(p) /\ q # p /\ q # <<>> /\ q[Len(p) + 1] = x
<1>1. /\ Len(Append(p, x)) = Len(p) + 1 /\ Append(p, x)[Len(p) + 1] = x /\ Len(p) \in Nat
      /\ \A i \in 1 .. Len(p) : Append(p, x)[i] = p[i] /\ Len(q) \in Nat
  BY Longer, LenProperties DEF Path
<1>2. QED BY <1>1, EmptyPath DEF Under

(* What is above a path and not the path is above its parent.              *)
LEMMA UnderShorter ==
    ASSUME NEW p \in Path, NEW q \in Path, Under(p, q), p # q
    PROVE  q # <<>> /\ Under(p, Front(q))
<1>1. CASE q = <<>>
  <2>1. Len(p) = 0
    BY <1>1, EmptyPath, LenProperties DEF Under, Path
  <2>2. QED BY <1>1, <2>1, EmptySeq DEF Path
<1>2. CASE q # <<>>
  <2>1. Front(q) \in Path /\ Last(q) \in Element /\ q = Append(Front(q), Last(q))
    BY <1>2, Shorter
  <2>2. Under(p, Append(Front(q), Last(q))) <=> Under(p, Front(q)) \/ p = Append(Front(q), Last(q))
    BY <2>1, UnderLonger
  <2>3. QED BY <1>2, <2>1, <2>2
<1>3. QED BY <1>1, <1>2

-----------------------------------------------------------------------------
(* Names.                                                                  *)
LEMMA NamesEmpty == Names(<<>>) = <<>>
BY KeptEmpty DEF Names

(* The names of a longer path: an index adds none.                         *)
LEMMA NamesLonger ==
    ASSUME NEW p \in Path, NEW x \in Element
    PROVE  Names(Append(p, x)) = IF IsName(x) THEN Append(Names(p), x) ELSE Names(p)
<1> DEFINE good == Element \ ToSet(Index)
<1>1. Kept(Append(p, x), good) = IF x \in good THEN Append(Kept(p, good), x) ELSE Kept(p, good)
  BY KeptAppend DEF Path
<1>2. x \in good <=> IsName(x)
  BY DEF IsName
<1>3. Names(p) = Kept(p, good) /\ Names(Append(p, x)) = Kept(Append(p, x), good)
  BY DEF Names, Element
<1>4. QED BY <1>1, <1>2, <1>3

(* The names of a path are its elements that are names.                    *)
LEMMA NamesType ==
    ASSUME NEW p \in Path
    PROVE  /\ Names(p) \in Path
           /\ \A x : x \in ToSet(Names(p)) <=> x \in ToSet(p) /\ IsName(x)
<1> DEFINE good == Element \ ToSet(Index)
<1>1. Kept(p, good) \in Path /\ ToSet(Kept(p, good)) = ToSet(p) \cap good
  BY KeptFacts DEF Path
<1>2. ToSet(p) \subseteq Element
  BY ElementOfSeq, LenProperties DEF Path, ToSet
<1>3. QED BY <1>1, <1>2 DEF Names, IsName, Element

(* Names have no indexes.                                                  *)
LEMMA NamesTwice ==
    ASSUME NEW p \in Path
    PROVE  Names(Names(p)) = Names(p)
<1> DEFINE T == {q \in Path : Names(Names(q)) = Names(q)}
<1>1. <<>> \in T
  BY NamesEmpty, EmptyPath
<1>2. ASSUME NEW q \in Path, NEW x \in Element, q \in T PROVE Append(q, x) \in T
  <2>1. Append(q, x) \in Path /\ Names(q) \in Path
    BY Longer, NamesType
  <2>2. CASE IsName(x)
    BY <1>2, <2>1, <2>2, NamesLonger
  <2>3. CASE ~IsName(x)
    BY <1>2, <2>1, <2>3, NamesLonger
  <2>4. QED BY <2>2, <2>3
<1> HIDE DEF T
<1>3. Path \subseteq T
  BY <1>1, <1>2, SeqInduct DEF Path
<1>4. QED BY <1>3 DEF T

(* Whether an attribute occurs above does not depend on indexes.           *)
LEMMA PriorOfNames ==
    ASSUME NEW p \in Path, NEW x
    PROVE  HasPriorAttribute(Names(p), x) = HasPriorAttribute(p, x)
BY NamesTwice DEF HasPriorAttribute

-----------------------------------------------------------------------------
(* What Contents collects, level by level.                                 *)
LEMMA ContentsSteps ==
    ASSUME NEW item
    PROVE  \E f : /\ f[0] = {Node(<<>>, item)}
                  /\ \A n \in 1 .. MaxDepth : f[n] = UNION {Children(node) : node \in f[n - 1]}
                  /\ Contents(item) = UNION {f[n] : n \in 0 .. MaxDepth}
<1> DEFINE Is(f, m) == f = [n \in 0 .. m |-> IF n = 0 THEN {[at |-> <<>>, value |-> item]}
                                             ELSE UNION {Children(node) : node \in f[n - 1]}]
           R == {m \in Nat : \E f : Is(f, m)}
<1>1. 0 \in R
  <2>1. Is([n \in 0 .. 0 |-> {[at |-> <<>>, value |-> item]}], 0)
    OBVIOUS
  <2>2. QED BY <2>1
<1>2. ASSUME NEW m \in Nat, m \in R PROVE m + 1 \in R
  <2>1. PICK f : Is(f, m)
    BY <1>2
  <2> DEFINE last == UNION {Children(node) : node \in f[m]}
             g == [n \in 0 .. m + 1 |-> IF n = m + 1 THEN last ELSE f[n]]
             h == [n \in 0 .. m + 1 |-> IF n = 0 THEN {[at |-> <<>>, value |-> item]}
                                        ELSE UNION {Children(node) : node \in g[n - 1]}]
  <2> HIDE DEF last
  <2>2. ASSUME NEW n \in 0 .. m + 1 PROVE g[n] = h[n]
    <3>1. CASE n = 0
      BY <2>1, <3>1
    <3>2. CASE n \in 1 .. m
      <4>1. g[n] = f[n] /\ g[n - 1] = f[n - 1]
        BY <3>2
      <4>2. f[n] = UNION {Children(node) : node \in f[n - 1]}
        <5>1. n \in 0 .. m /\ n # 0
          BY <3>2
        <5> HIDE DEF last, g, h
        <5>2. QED BY <2>1, <5>1
      <4>3. h[n] = UNION {Children(node) : node \in g[n - 1]}
        <5>1. n \in 0 .. m + 1 /\ n # 0
          BY <3>2
        <5> HIDE DEF last, g
        <5>2. QED BY <5>1
      <4> HIDE DEF g, h
      <4>4. QED BY <4>1, <4>2, <4>3
    <3>3. CASE n = m + 1
      <4>1. g[n] = last /\ g[n - 1] = f[m] /\ n # 0
        BY <3>3
      <4>2. h[n] = UNION {Children(node) : node \in g[n - 1]}
        BY <3>3
      <4> HIDE DEF g, h
      <4>3. QED BY <3>3, <4>1, <4>2 DEF last
    <3>4. QED BY <3>1, <3>2, <3>3
  <2>3. g = h
    <3>1. DOMAIN g = 0 .. m + 1 /\ DOMAIN h = 0 .. m + 1 /\ g = [n \in 0 .. m + 1 |-> g[n]]
          /\ h = [n \in 0 .. m + 1 |-> h[n]]
      OBVIOUS
    <3> HIDE DEF g, h
    <3>2. QED BY <2>2, <3>1
  <2>4. Is(g, m + 1)
    BY <2>3
  <2> HIDE DEF Is, g
  <2>5. QED BY <2>4
<1>3. PICK f : Is(f, MaxDepth)
  <2>1. MaxDepth \in Nat
    BY IndexAssumption
  <2> HIDE DEF R
  <2>2. MaxDepth \in R
    BY <1>1, <1>2, <2>1, NatInduct
  <2>3. QED BY <2>2 DEF R
<1> DEFINE c == CHOOSE g : Is(g, MaxDepth)
<1>4. Is(c, MaxDepth)
  <2> HIDE DEF Is
  <2>1. QED BY <1>3
<1>5. Contents(item) = UNION {c[n] : n \in 0 .. MaxDepth}
  BY DEF Contents
<1>6. MaxDepth \in Nat
  BY IndexAssumption
<1> HIDE DEF c
<1>7. c[0] = {Node(<<>>, item)}
  BY <1>4, <1>6 DEF Node
<1>8. ASSUME NEW n \in 1 .. MaxDepth
      PROVE  c[n] = UNION {Children(node) : node \in c[n - 1]}
  <2>1. n \in 0 .. MaxDepth /\ n # 0
    BY <1>6
  <2>2. QED BY <1>4, <2>1
<1>9. QED BY <1>5, <1>7, <1>8

-----------------------------------------------------------------------------
(* A map's children are at their names, an array's at its indexes.         *)
LEMMA Child ==
    ASSUME NEW m, NEW n
    PROVE  n \in Children(m) <=>
             \/ /\ m.value.k = "map"
                /\ \E x \in DOMAIN m.value.at : n = Node(Append(m.at, x), m.value.at[x])
             \/ /\ m.value.k = "array"
                /\ \E i \in DOMAIN m.value.of : n = Node(Append(m.at, Index[i]), m.value.of[i])
BY DEF Children, Node

(* The indexes are elements, not names, and differ.                        *)
LEMMA Indexes ==
    /\ Len(Index) \in Nat /\ DOMAIN Index = 1 .. Len(Index)
    /\ \A i \in 1 .. Len(Index) : Index[i] \in Element /\ ~IsName(Index[i])
    /\ \A i, j \in 1 .. Len(Index) : Index[i] = Index[j] => i = j
<1>1. Index \in Seq(Element) /\ IsInjective(Index)
  BY IndexAssumption DEF Element
<1>2. Len(Index) \in Nat /\ DOMAIN Index = 1 .. Len(Index)
  BY <1>1, LenProperties
<1>3. \A i \in 1 .. Len(Index) : Index[i] \in Element
  BY <1>1, ElementOfSeq
<1>4. \A i \in 1 .. Len(Index) : Index[i] \in ToSet(Index)
  BY <1>2 DEF ToSet
<1>5. \A i, j \in 1 .. Len(Index) : Index[i] = Index[j] => i = j
  BY <1>1, <1>2 DEF IsInjective
<1>6. QED BY <1>2, <1>3, <1>4, <1>5 DEF IsName

(* Well-formed maps have names, well-formed arrays indexes.                *)
LEMMA Formed ==
    ASSUME NEW v, WellFormed(v)
    PROVE  /\ v.k = "map" => /\ IsFiniteSet(DOMAIN v.at)
                             /\ \A x \in DOMAIN v.at : x \in Element /\ IsName(x)
           /\ v.k = "array" => /\ DOMAIN v.of \subseteq 1 .. Len(Index)
                               /\ \E n \in 0 .. Len(Index) : DOMAIN v.of = 1 .. n
           /\ v.k \in {"null", "text", "int", "map", "array"}
<1>1. CASE v.k = "map"
  <2>1. IsFiniteSet(DOMAIN v.at) /\ DOMAIN v.at \subseteq Element \ ToSet(Index)
    BY <1>1 DEF WellFormed, Element
  <2>2. QED BY <1>1, <2>1 DEF IsName
<1>2. CASE v.k = "array"
  <2>1. PICK n \in 0 .. Len(Index) : DOMAIN v.of = 1 .. n
    BY <1>2 DEF WellFormed
  <2>2. 1 .. n \subseteq 1 .. Len(Index)
    BY Indexes
  <2>3. QED BY <1>2, <2>1, <2>2
<1>3. QED BY <1>1, <1>2 DEF WellFormed

-----------------------------------------------------------------------------
(* The nodes of an event.                                                  *)
LEMMA RootIn == ASSUME NEW e \in Events PROVE Root(e) \in Contents(e.item)
<1>1. PICK f : /\ f[0] = {Node(<<>>, e.item)}
               /\ \A n \in 1 .. MaxDepth : f[n] = UNION {Children(node) : node \in f[n - 1]}
               /\ Contents(e.item) = UNION {f[n] : n \in 0 .. MaxDepth}
  BY ContentsSteps
<1>2. 0 \in 0 .. MaxDepth
  BY IndexAssumption
<1>3. QED BY <1>1, <1>2 DEF Root, Node

(* Contents are formed like JSON, and closed under containment.            *)
LEMMA NodeFormed ==
    ASSUME NEW e \in Events, NEW m \in Contents(e.item)
    PROVE  WellFormed(m.value) /\ Children(m) \subseteq Contents(e.item)
BY EventAssumption

(* Everything in an event but the event is in something of it.             *)
LEMMA NodeParent ==
    ASSUME NEW e \in Events, NEW n \in Contents(e.item)
    PROVE  n = Root(e) \/ \E m \in Contents(e.item) : n \in Children(m)
<1>1. PICK f : /\ f[0] = {Node(<<>>, e.item)}
               /\ \A k \in 1 .. MaxDepth : f[k] = UNION {Children(node) : node \in f[k - 1]}
               /\ Contents(e.item) = UNION {f[k] : k \in 0 .. MaxDepth}
  BY ContentsSteps
<1>2. PICK k \in 0 .. MaxDepth : n \in f[k]
  BY <1>1
<1>3. CASE k = 0
  BY <1>1, <1>2, <1>3 DEF Root, Node
<1>4. CASE k # 0
  <2>1. k \in 1 .. MaxDepth /\ k - 1 \in 0 .. MaxDepth
    BY <1>4, IndexAssumption
  <2>2. PICK m \in f[k - 1] : n \in Children(m)
    BY <1>1, <1>2, <2>1
  <2>3. m \in Contents(e.item)
    BY <1>1, <2>1
  <2>4. QED BY <2>2, <2>3
<1>5. QED BY <1>3, <1>4

(* A node of an event has a path.                                          *)
LEMMA NodePath ==
    ASSUME NEW e \in Events, NEW n \in Contents(e.item)
    PROVE  n.at \in Path /\ n = Node(n.at, n.value)
<1>1. PICK f : /\ f[0] = {Node(<<>>, e.item)}
               /\ \A k \in 1 .. MaxDepth : f[k] = UNION {Children(node) : node \in f[k - 1]}
               /\ Contents(e.item) = UNION {f[k] : k \in 0 .. MaxDepth}
  BY ContentsSteps
<1> DEFINE R == {k \in 0 .. MaxDepth : \A m \in f[k] : m.at \in Path /\ m = Node(m.at, m.value)}
<1>2. MaxDepth \in Nat
  BY IndexAssumption
<1>3. 0 \in R
  BY <1>1, <1>2, EmptyPath DEF Node
<1>4. ASSUME NEW k \in 0 .. MaxDepth - 1, k \in R PROVE k + 1 \in R
  <2>1. k + 1 \in 1 .. MaxDepth /\ k + 1 \in 0 .. MaxDepth /\ (k + 1) - 1 = k
    BY <1>2
  <2>2. ASSUME NEW m \in f[k + 1] PROVE m.at \in Path /\ m = Node(m.at, m.value)
    <3>1. PICK p \in f[k] : m \in Children(p)
      BY <1>1, <2>1
    <3>2. p \in Contents(e.item) /\ p.at \in Path
      BY <1>1, <1>4
    <3>3. WellFormed(p.value)
      BY <3>2, NodeFormed
    <3>4. \E x \in Element : \E v : m = Node(Append(p.at, x), v)
      <4>1. CASE p.value.k = "map"
        <5>1. PICK x \in DOMAIN p.value.at : m = Node(Append(p.at, x), p.value.at[x])
          BY <3>1, <4>1, Child
        <5>2. x \in Element
          BY <3>3, <4>1, Formed
        <5>3. QED BY <5>1, <5>2
      <4>2. CASE p.value.k = "array"
        <5>1. PICK i \in DOMAIN p.value.of : m = Node(Append(p.at, Index[i]), p.value.of[i])
          BY <3>1, <4>2, Child
        <5>2. Index[i] \in Element
          BY <3>3, <4>2, Formed, Indexes
        <5>3. QED BY <5>1, <5>2
      <4>3. QED BY <3>1, <4>1, <4>2, Child
    <3>5. QED BY <3>2, <3>4, Longer DEF Node
  <2>3. QED BY <2>1, <2>2
<1> HIDE DEF R
<1>5. 0 .. MaxDepth \subseteq R
  BY <1>2, <1>3, <1>4, BoundedInduct
<1>6. PICK k \in 0 .. MaxDepth : n \in f[k]
  BY <1>1
<1>7. k \in R
  BY <1>5
<1>8. QED BY <1>6, <1>7 DEF R

(* A value holds another one at a name or an index.                        *)
Holds(v, x, w) ==
    \/ v.k = "map" /\ IsName(x) /\ x \in DOMAIN v.at /\ w = v.at[x]
    \/ v.k = "array" /\ ~IsName(x) /\ \E i \in DOMAIN v.of : x = Index[i] /\ w = v.of[i]

(* The node a path leads to, and what is above it.                         *)
LEMMA NodeAbove ==
    ASSUME NEW e \in Events, NEW n \in Contents(e.item), n.at # <<>>
    PROVE  \E m \in Contents(e.item) :
             m.at = Front(n.at) /\ Holds(m.value, Last(n.at), n.value)
<1>1. n # Root(e)
  BY DEF Root
<1>2. PICK m \in Contents(e.item) : n \in Children(m)
  BY <1>1, NodeParent
<1>3. m.at \in Path /\ WellFormed(m.value)
  BY NodePath, NodeFormed
<1>4. CASE m.value.k = "map"
  <2>1. PICK x \in DOMAIN m.value.at : n = Node(Append(m.at, x), m.value.at[x])
    BY <1>2, <1>4, Child
  <2>2. x \in Element /\ IsName(x)
    BY <1>3, <1>4, Formed
  <2>3. n.at = Append(m.at, x) /\ n.value = m.value.at[x]
    BY <2>1 DEF Node
  <2>4. Front(n.at) = m.at /\ Last(n.at) = x
    BY <1>3, <2>2, <2>3, Longer
  <2>5. QED BY <1>4, <2>2, <2>3, <2>4 DEF Holds
<1>5. CASE m.value.k = "array"
  <2>1. PICK i \in DOMAIN m.value.of : n = Node(Append(m.at, Index[i]), m.value.of[i])
    BY <1>2, <1>5, Child
  <2>2. Index[i] \in Element /\ ~IsName(Index[i])
    BY <1>3, <1>5, Formed, Indexes
  <2>3. n.at = Append(m.at, Index[i]) /\ n.value = m.value.of[i]
    BY <2>1 DEF Node
  <2>4. Front(n.at) = m.at /\ Last(n.at) = Index[i]
    BY <1>3, <2>2, <2>3, Longer
  <2>5. QED BY <1>5, <2>2, <2>3, <2>4 DEF Holds
<1>6. QED BY <1>2, <1>4, <1>5, Child

(* What maps and arrays of an event hold are nodes of it.                  *)
LEMMA NodeBelow ==
    ASSUME NEW e \in Events, NEW m \in Contents(e.item)
    PROVE  /\ m.value.k = "map" =>
                \A x \in DOMAIN m.value.at : Node(Append(m.at, x), m.value.at[x]) \in Contents(e.item)
           /\ m.value.k = "array" =>
                \A i \in DOMAIN m.value.of : Node(Append(m.at, Index[i]), m.value.of[i]) \in Contents(e.item)
BY NodeFormed, Child

(* There is one node at a path.                                            *)
LEMMA NodeOnly ==
    ASSUME NEW e \in Events, NEW m \in Contents(e.item), NEW n \in Contents(e.item), m.at = n.at
    PROVE  m = n
<1> DEFINE T == {p \in Path : \A u, v \in Contents(e.item) : u.at = p /\ v.at = p => u = v}
<1>1. <<>> \in T
  <2>1. ASSUME NEW u \in Contents(e.item), u.at = <<>> PROVE u = Root(e)
    <3>1. SUFFICES ASSUME NEW o \in Contents(e.item), u \in Children(o) PROVE FALSE
      BY NodeParent
    <3>2. o.at \in Path /\ WellFormed(o.value)
      BY NodePath, NodeFormed
    <3>3. \E x \in Element : u.at = Append(o.at, x)
      BY <3>1, <3>2, Child, Formed, Indexes DEF Node
    <3>4. QED BY <2>1, <3>2, <3>3, Longer
  <2>2. QED BY <2>1, EmptyPath
<1>2. ASSUME NEW q \in Path, NEW x \in Element, q \in T PROVE Append(q, x) \in T
  <2> SUFFICES ASSUME NEW u \in Contents(e.item), NEW v \in Contents(e.item),
                      u.at = Append(q, x), v.at = Append(q, x)
               PROVE  u = v
    BY Longer
  <2>1. /\ u.at # <<>> /\ Front(u.at) = q /\ Last(u.at) = x
        /\ v.at # <<>> /\ Front(v.at) = q /\ Last(v.at) = x
    BY Longer
  <2>2. PICK k \in Contents(e.item) : k.at = q /\ Holds(k.value, x, u.value)
    BY <2>1, NodeAbove
  <2>3. PICK l \in Contents(e.item) : l.at = q /\ Holds(l.value, x, v.value)
    BY <2>1, NodeAbove
  <2>4. k = l
    BY <1>2, <2>2, <2>3
  <2>5. u.value = v.value
    <3>1. CASE IsName(x)
      BY <2>2, <2>3, <2>4, <3>1 DEF Holds
    <3>2. CASE ~IsName(x)
      <4>1. PICK i \in DOMAIN k.value.of : x = Index[i] /\ u.value = k.value.of[i]
        BY <2>2, <3>2 DEF Holds
      <4>2. PICK j \in DOMAIN k.value.of : x = Index[j] /\ v.value = k.value.of[j]
        BY <2>3, <2>4, <3>2 DEF Holds
      <4>3. DOMAIN k.value.of \subseteq 1 .. Len(Index)
        BY <2>2, <3>2, NodeFormed, Formed DEF Holds
      <4>4. i = j
        BY <4>1, <4>2, <4>3, Indexes
      <4>5. QED BY <4>1, <4>2, <4>4
    <3>3. QED BY <3>1, <3>2
  <2>6. u = Node(u.at, u.value) /\ v = Node(v.at, v.value)
    BY NodePath
  <2>7. QED BY <2>5, <2>6
<1> HIDE DEF T
<1>3. Path \subseteq T
  BY <1>1, <1>2, SeqInduct DEF Path
<1>4. m.at \in T
  BY <1>3, NodePath
<1>5. QED BY <1>4 DEF T

-----------------------------------------------------------------------------
(* The attributes of a type.                                               *)
LEMMA AttributeFacts ==
    ASSUME NEW t \in DOMAIN Schema
    PROVE  /\ Attributes(t) \in Seq(Attribute)
           /\ DOMAIN Attributes(t) = 1 .. Len(Attributes(t)) /\ Len(Attributes(t)) \in Nat
           /\ \A i \in DOMAIN Attributes(t) :
                /\ Attributes(t)[i] \in ToSet(Attributes(t))
                /\ Attributes(t)[i].name \in Element /\ IsName(Attributes(t)[i].name)
                /\ \A j \in DOMAIN Attributes(t) :
                     Attributes(t)[i].name = Attributes(t)[j].name => i = j
           /\ \A a, b \in ToSet(Attributes(t)) : a.name = b.name => a = b
           /\ \A a \in ToSet(Attributes(t)) :
                /\ a.name \in Element /\ IsName(a.name)
                /\ \E i \in DOMAIN Attributes(t) : a = Attributes(t)[i]
<1> DEFINE s == Attributes(t)
<1>1. /\ s \in Seq(Attribute)
      /\ \A i \in DOMAIN s : /\ IsName(s[i].name)
                             /\ \A j \in 1 .. i - 1 : s[j].name # s[i].name
  BY SchemaAssumption DEF Attributes, IsName
<1> HIDE DEF s
<1>2. DOMAIN s = 1 .. Len(s) /\ Len(s) \in Nat
  BY <1>1, LenProperties
<1>3. \A i \in DOMAIN s : s[i] \in ToSet(s) /\ s[i].name \in Element
  <2>1. \A i \in DOMAIN s : s[i] \in Attribute
    BY <1>1, <1>2, ElementOfSeq
  <2>2. QED BY <2>1 DEF ToSet, Attribute, Element
<1>4. \A i, j \in DOMAIN s : s[i].name = s[j].name => i = j
  BY <1>1, <1>2
<1>5. \A a \in ToSet(s) : \E i \in DOMAIN s : a = s[i]
  BY DEF ToSet
<1>6. QED BY <1>1, <1>2, <1>3, <1>4, <1>5 DEF s

(* Where nothing is good nothing is kept.                                  *)
LEMMA KeptNone ==
    ASSUME NEW S, NEW s \in Seq(S), NEW good, ToSet(s) \cap good = {}
    PROVE  Kept(s, good) = <<>>
<1> DEFINE k == Kept(s, good)
<1>1. k \in Seq(S) /\ ToSet(k) = {}
  BY KeptFacts
<1> HIDE DEF k
<1>2. DOMAIN k = 1 .. Len(k) /\ Len(k) \in Nat
  BY <1>1, LenProperties
<1>3. DOMAIN k = {}
  BY <1>1 DEF ToSet
<1>4. Len(k) = 0
  BY <1>2, <1>3
<1>5. QED BY <1>1, <1>4, EmptySeq DEF k

(* Where one element is good it is kept.                                   *)
LEMMA KeptOne ==
    ASSUME NEW S, NEW s \in Seq(S), NEW good, NEW i \in DOMAIN s,
           \A j \in DOMAIN s : s[j] \in good <=> j = i
    PROVE  Kept(s, good) = <<s[i]>>
<1> DEFINE k == Kept(s, good)
<1>0. s \in Seq(S)
  OBVIOUS
<1>1. k \in Seq(S) /\ ToSet(k) = ToSet(s) \cap good /\ Len(k) = Cardinality(Hits(s, good))
  BY ONLY <1>0, KeptFacts
<1>2. Hits(s, good) = {i}
  BY DEF Hits
<1>3. ToSet(s) \cap good = {s[i]}
  BY DEF ToSet
<1>4. Cardinality({i}) = 1
  BY FS_Singleton
<1>5. Len(k) = 1
  BY <1>1, <1>2, <1>4
<1> HIDE DEF k
<1>6. DOMAIN k = 1 .. 1
  BY <1>1, <1>5, LenProperties
<1>7. k[1] = s[i]
  <2>1. k[1] \in ToSet(k)
    BY <1>6 DEF ToSet
  <2>2. QED BY <1>1, <1>3, <2>1
<1>8. s[i] \in S /\ k[1] \in S
  <2>1. DOMAIN s = 1 .. Len(s)
    BY LenProperties
  <2>2. QED BY <1>7, <2>1, ElementOfSeq
<1>9. k = <<k[1]>>
  <2> DEFINE u == <<k[1]>>
  <2>1. u \in Seq(S) /\ Len(u) = 1 /\ u[1] = k[1]
    BY <1>8
  <2> HIDE DEF u
  <2>2. k = u
    BY <1>1, <1>5, <2>1, SeqEqual
  <2>3. QED BY <2>2 DEF u
<1>10. QED BY <1>7, <1>9 DEF k

(* What AttributeOf finds.                                                 *)
LEMMA Lookup ==
    ASSUME NEW profiles, NEW t \in DOMAIN Schema, NEW a \in ToSet(Attributes(t)), Active(profiles, a)
    PROVE  AttributeOf(profiles, t, a.name) = <<a>>
<1> DEFINE s == Attributes(t)
           good == {b \in ToSet(s) : b.name = a.name /\ Active(profiles, b)}
<1>1. PICK i \in DOMAIN s : a = s[i]
  BY AttributeFacts
<1>2. ASSUME NEW j \in DOMAIN s PROVE s[j] \in good <=> j = i
  <2>1. s[j] \in ToSet(s) /\ (s[j].name = s[i].name => j = i)
    BY <1>1, AttributeFacts
  <2>2. QED BY <1>1, <2>1
<1>3. s \in Seq(Attribute)
  BY AttributeFacts
<1> HIDE DEF s, good
<1>4. Kept(s, good) = <<s[i]>>
  BY <1>1, <1>2, <1>3, KeptOne
<1>5. QED BY <1>1, <1>4 DEF AttributeOf, s, good

(* A name that no active attribute has is not found.                       *)
LEMMA LookupFails ==
    ASSUME NEW profiles, NEW t \in DOMAIN Schema, NEW x,
           \A a \in ToSet(Attributes(t)) : a.name = x => ~Active(profiles, a)
    PROVE  AttributeOf(profiles, t, x) = <<>>
<1> DEFINE good == {b \in ToSet(Attributes(t)) : b.name = x /\ Active(profiles, b)}
<1>1. good = {}
  OBVIOUS
<1>2. Attributes(t) \in Seq(Attribute)
  BY AttributeFacts
<1> HIDE DEF good
<1>3. Kept(Attributes(t), good) = <<>>
  BY <1>1, <1>2, KeptNone
<1>4. QED BY <1>3 DEF AttributeOf, good

(* What is found is the active attribute of the name.                      *)
LEMMA LookupFound ==
    ASSUME NEW profiles, NEW t \in DOMAIN Schema, NEW x, AttributeOf(profiles, t, x) # <<>>
    PROVE  \E a \in ToSet(Attributes(t)) :
             a.name = x /\ Active(profiles, a) /\ AttributeOf(profiles, t, x) = <<a>>
<1>1. PICK a \in ToSet(Attributes(t)) : a.name = x /\ Active(profiles, a)
  BY LookupFails
<1>2. QED BY <1>1, Lookup

-----------------------------------------------------------------------------
(* Along names, one by one.                                                *)
Status == {"open", "undefined", "limited"}
Outset == [type |-> Class, status |-> "open"]

(* What Entering computes, one name after the other.                       *)
LEMMA EnteringSteps ==
    ASSUME NEW profiles, NEW names \in Path
    PROVE  \E f : /\ f[0] = Outset
                  /\ \A n \in 1 .. Len(names) : f[n] = Follow(profiles, f[n - 1], SubSeq(names, 1, n))
                  /\ Entering(profiles, names) = f[Len(names)]
<1> DEFINE Is(f, m) == f = [n \in 0 .. m |-> IF n = 0 THEN [type |-> Class, status |-> "open"]
                                             ELSE Follow(profiles, f[n - 1], SubSeq(names, 1, n))]
           R == {m \in Nat : \E f : Is(f, m)}
<1>1. 0 \in R
  <2>1. Is([n \in 0 .. 0 |-> [type |-> Class, status |-> "open"]], 0)
    OBVIOUS
  <2>2. QED BY <2>1
<1>2. ASSUME NEW m \in Nat, m \in R PROVE m + 1 \in R
  <2>1. PICK f : Is(f, m)
    BY <1>2
  <2> DEFINE last == Follow(profiles, f[m], SubSeq(names, 1, m + 1))
             g == [n \in 0 .. m + 1 |-> IF n = m + 1 THEN last ELSE f[n]]
             h == [n \in 0 .. m + 1 |-> IF n = 0 THEN [type |-> Class, status |-> "open"]
                                        ELSE Follow(profiles, g[n - 1], SubSeq(names, 1, n))]
  <2> HIDE DEF last
  <2>2. ASSUME NEW n \in 0 .. m + 1 PROVE g[n] = h[n]
    <3>1. CASE n = 0
      BY <2>1, <3>1
    <3>2. CASE n \in 1 .. m
      <4>1. g[n] = f[n] /\ g[n - 1] = f[n - 1]
        BY <3>2
      <4>2. f[n] = Follow(profiles, f[n - 1], SubSeq(names, 1, n))
        <5>1. n \in 0 .. m /\ n # 0
          BY <3>2
        <5> HIDE DEF last, g, h
        <5>2. QED BY <2>1, <5>1
      <4>3. h[n] = Follow(profiles, g[n - 1], SubSeq(names, 1, n))
        <5>1. n \in 0 .. m + 1 /\ n # 0
          BY <3>2
        <5> HIDE DEF last, g
        <5>2. QED BY <5>1
      <4> HIDE DEF g, h
      <4>4. QED BY <4>1, <4>2, <4>3
    <3>3. CASE n = m + 1
      <4>1. g[n] = last /\ g[n - 1] = f[m] /\ n # 0
        BY <3>3
      <4>2. h[n] = Follow(profiles, g[n - 1], SubSeq(names, 1, n))
        BY <3>3
      <4> HIDE DEF g, h
      <4>3. QED BY <3>3, <4>1, <4>2 DEF last
    <3>4. QED BY <3>1, <3>2, <3>3
  <2>3. g = h
    <3>1. DOMAIN g = 0 .. m + 1 /\ DOMAIN h = 0 .. m + 1 /\ g = [n \in 0 .. m + 1 |-> g[n]]
          /\ h = [n \in 0 .. m + 1 |-> h[n]]
      OBVIOUS
    <3> HIDE DEF g, h
    <3>2. QED BY <2>2, <3>1
  <2>4. Is(g, m + 1)
    BY <2>3
  <2> HIDE DEF Is, g
  <2>5. QED BY <2>4
<1>6. Len(names) \in Nat
  BY LenProperties DEF Path
<1>3. PICK f : Is(f, Len(names))
  <2> HIDE DEF R
  <2>2. Len(names) \in R
    BY <1>1, <1>2, <1>6, NatInduct
  <2>3. QED BY <2>2 DEF R
<1> DEFINE c == CHOOSE g : Is(g, Len(names))
<1>4. Is(c, Len(names))
  <2> HIDE DEF Is
  <2>1. QED BY <1>3
<1>5. Entering(profiles, names) = c[Len(names)]
  BY DEF Entering
<1> HIDE DEF c
<1>7. c[0] = Outset
  BY <1>4, <1>6 DEF Outset
<1>8. ASSUME NEW n \in 1 .. Len(names)
      PROVE  c[n] = Follow(profiles, c[n - 1], SubSeq(names, 1, n))
  <2>1. n \in 0 .. Len(names) /\ n # 0
    BY <1>6
  <2>2. QED BY <1>4, <2>1
<1>9. QED BY <1>5, <1>7, <1>8

(* Before the first name it is at the class.                               *)
LEMMA EnteringEmpty == ASSUME NEW profiles PROVE Entering(profiles, <<>>) = Outset
<1> DEFINE p == <<>>
<1>1. p \in Path /\ Len(p) = 0
  BY EmptyPath
<1> HIDE DEF p
<1>2. Entering(profiles, p) = Outset
  BY <1>1, EnteringSteps
<1>3. QED BY <1>2 DEF p

(* One more name is one more step.                                         *)
LEMMA EnteringLonger ==
    ASSUME NEW profiles, NEW p \in Path, NEW x \in Element
    PROVE  Entering(profiles, Append(p, x)) = Follow(profiles, Entering(profiles, p), Append(p, x))
<1> DEFINE q == Append(p, x)
           m == Len(p)
<1>1. q \in Path /\ Len(q) = m + 1 /\ m \in Nat /\ \A i \in 1 .. m : q[i] = p[i]
  BY Longer
<1> HIDE DEF q
<1>2. PICK f : /\ f[0] = Outset
               /\ \A n \in 1 .. m : f[n] = Follow(profiles, f[n - 1], SubSeq(p, 1, n))
               /\ Entering(profiles, p) = f[m]
  BY EnteringSteps
<1>3. PICK g : /\ g[0] = Outset
               /\ \A n \in 1 .. Len(q) : g[n] = Follow(profiles, g[n - 1], SubSeq(q, 1, n))
               /\ Entering(profiles, q) = g[Len(q)]
  BY <1>1, EnteringSteps
<1> HIDE DEF m
<1> DEFINE R == {n \in 0 .. m : f[n] = g[n]}
<1>4. 0 .. m \subseteq R
  <2>1. 0 \in R
    BY <1>1, <1>2, <1>3
  <2>2. ASSUME NEW n \in 0 .. m - 1, n \in R PROVE n + 1 \in R
    <3>1. n + 1 \in 1 .. m /\ n + 1 \in 1 .. Len(q) /\ (n + 1) - 1 = n /\ n + 1 \in 0 .. m
      BY <1>1, <2>2
    <3>2. SubSeq(p, 1, n + 1) = SubSeq(q, 1, n + 1)
      <4>1. \A i \in 1 .. n + 1 : p[i] = q[i] /\ p[i] \in Element
        <5>1. \A i \in 1 .. m : p[i] \in Element
          BY ElementOfSeq DEF Path, m
        <5>2. QED BY <1>1, <3>1, <5>1
      <4>2. n + 1 \in Int /\ n \in Nat
        BY <1>1, <2>2
      <4>3. /\ SubSeq(p, 1, n + 1) \in Seq(Element) /\ Len(SubSeq(p, 1, n + 1)) = n + 1
            /\ \A i \in 1 .. n + 1 : SubSeq(p, 1, n + 1)[i] = p[i]
        BY <4>1, <4>2, SubSeqProperties
      <4>4. /\ SubSeq(q, 1, n + 1) \in Seq(Element) /\ Len(SubSeq(q, 1, n + 1)) = n + 1
            /\ \A i \in 1 .. n + 1 : SubSeq(q, 1, n + 1)[i] = q[i]
        BY <4>1, <4>2, SubSeqProperties
      <4>5. QED BY <4>1, <4>3, <4>4, SeqEqual
    <3>3. f[n + 1] = Follow(profiles, f[n], SubSeq(p, 1, n + 1))
      BY <1>2, <3>1
    <3>4. g[n + 1] = Follow(profiles, g[n], SubSeq(q, 1, n + 1))
      BY <1>3, <3>1
    <3>5. QED BY <1>1, <2>2, <3>1, <3>2, <3>3, <3>4
  <2> HIDE DEF R
  <2>3. QED BY <1>1, <2>1, <2>2, BoundedInduct
<1>5. f[m] = g[m]
  <2>1. m \in 0 .. m
    BY <1>1
  <2>2. QED BY <1>4, <2>1
<1>6. g[m + 1] = Follow(profiles, g[m], SubSeq(q, 1, m + 1))
  <2>1. m + 1 \in 1 .. Len(q) /\ (m + 1) - 1 = m
    BY <1>1
  <2>2. QED BY <1>3, <2>1
<1>7. SubSeq(q, 1, m + 1) = q
  BY <1>1, SubSeqFull DEF Path
<1>8. QED BY <1>1, <1>2, <1>3, <1>5, <1>6, <1>7 DEF q

(* It is at a type of the schema, in one of three states.                  *)
LEMMA EnteringType ==
    ASSUME NEW profiles, NEW p \in Path
    PROVE  Entering(profiles, p) \in [type : DOMAIN Schema, status : Status]
<1> DEFINE T == {q \in Path : Entering(profiles, q) \in [type : DOMAIN Schema, status : Status]}
<1>1. <<>> \in T
  BY EnteringEmpty, EmptyPath, SchemaAssumption DEF Outset, Status
<1>2. ASSUME NEW q \in Path, NEW x \in Element, q \in T PROVE Append(q, x) \in T
  <2> DEFINE state == Entering(profiles, q)
             r == Append(q, x)
  <2>1. state \in [type : DOMAIN Schema, status : Status]
    BY <1>2
  <2>2. Entering(profiles, r) = Follow(profiles, state, r) /\ r \in Path
    BY EnteringLonger, Longer
  <2> HIDE DEF state, r
  <2>3. Follow(profiles, state, r) \in [type : DOMAIN Schema, status : Status]
    BY <2>1 DEF Follow, Status
  <2>4. QED BY <2>2, <2>3 DEF r
<1> HIDE DEF T
<1>3. Path \subseteq T
  BY <1>1, <1>2, SeqInduct DEF Path
<1>4. QED BY <1>3 DEF T

(* One name further, from an open state.                                   *)
LEMMA FollowOpen ==
    ASSUME NEW profiles, NEW p \in Path, NEW x \in Element,
           Entering(profiles, p).status = "open",
           NEW a \in ToSet(Attributes(Entering(profiles, p).type)), a.name = x, Active(profiles, a)
    PROVE  /\ Entering(profiles, Append(p, x)).status =
                (IF HasPriorAttribute(Append(p, x), x) THEN "limited"
                 ELSE IF a.holds = "object" /\ a.type \in DOMAIN Schema THEN "open" ELSE "undefined")
           /\ Entering(profiles, Append(p, x)).status = "open" => Entering(profiles, Append(p, x)).type = a.type
<1> DEFINE s == Entering(profiles, p)
           q == Append(p, x)
<1>1. s \in [type : DOMAIN Schema, status : Status] /\ s.status = "open"
  BY EnteringType
<1>2. Entering(profiles, q) = Follow(profiles, s, q) /\ Last(q) = x
  BY EnteringLonger, Longer
<1>3. AttributeOf(profiles, s.type, x) = <<a>>
  BY <1>1, Lookup
<1> HIDE DEF s, q
<1>4. <<a>> # <<>> /\ <<a>>[1] = a
  OBVIOUS
<1>5. CASE HasPriorAttribute(q, x)
  BY <1>1, <1>2, <1>3, <1>4, <1>5 DEF Follow, q
<1>6. CASE ~HasPriorAttribute(q, x) /\ a.holds = "object" /\ a.type \in DOMAIN Schema
  BY <1>1, <1>2, <1>3, <1>4, <1>6 DEF Follow, q
<1>7. CASE ~HasPriorAttribute(q, x) /\ ~(a.holds = "object" /\ a.type \in DOMAIN Schema)
  BY <1>1, <1>2, <1>3, <1>4, <1>7 DEF Follow, q
<1>8. QED BY <1>5, <1>6, <1>7 DEF q

(* What is open was open one name earlier, and has the name.               *)
LEMMA FollowOpened ==
    ASSUME NEW profiles, NEW p \in Path, NEW x \in Element,
           Entering(profiles, Append(p, x)).status = "open"
    PROVE  /\ Entering(profiles, p).status = "open"
           /\ AttributeOf(profiles, Entering(profiles, p).type, x) # <<>>
<1> DEFINE s == Entering(profiles, p)
           q == Append(p, x)
<1>1. s \in [type : DOMAIN Schema, status : Status]
  BY EnteringType
<1>2. Entering(profiles, q) = Follow(profiles, s, q) /\ Last(q) = x
  BY EnteringLonger, Longer
<1> HIDE DEF s, q
<1>3. s.status = "open"
  BY <1>1, <1>2 DEF Follow, q
<1>4. AttributeOf(profiles, s.type, x) # <<>>
  BY <1>1, <1>2, <1>3 DEF Follow, q
<1>5. QED BY <1>3, <1>4 DEF s

(* A name is defined in what its front leads into.                         *)
LEMMA DefinedLonger ==
    ASSUME NEW profiles, NEW p \in Path, NEW x \in Element
    PROVE  Definition(profiles, Append(p, x)) = "defined" <=>
             /\ Entering(profiles, p).status = "open"
             /\ AttributeOf(profiles, Entering(profiles, p).type, x) # <<>>
<1>1. Front(Append(p, x)) = p /\ Last(Append(p, x)) = x
  BY Longer
<1>2. Entering(profiles, p).status \in Status
  BY EnteringType
<1>3. QED BY <1>1, <1>2 DEF Definition, Status

-----------------------------------------------------------------------------
(* Where indexes are, element by element.                                  *)
LEMMA ShapedEmpty == ASSUME NEW e PROVE Shaped(e, <<>>)
BY EmptyPath DEF Shaped

(* A longer path is shaped if indexes and arrays agree at its end.         *)
LEMMA ShapedLonger ==
    ASSUME NEW e, NEW p \in Path, NEW x \in Element
    PROVE  Shaped(e, Append(p, x)) <=>
             /\ Shaped(e, p)
             /\ p = <<>> => IsName(x)
             /\ p # <<>> /\ IsName(Last(p)) => (ArrayAt(e, p) <=> ~IsName(x))
             /\ p # <<>> /\ ~IsName(Last(p)) => IsName(x)
<1> DEFINE q == Append(p, x)
           m == Len(p)
           Good(r, k) == IF IsName(r[k]) THEN k < Len(r) => (ArrayAt(e, SubSeq(r, 1, k)) <=> ~IsName(r[k + 1]))
                         ELSE k > 1 /\ IsName(r[k - 1])
<1>1. /\ q \in Path /\ Len(q) = m + 1 /\ m \in Nat /\ DOMAIN q = 1 .. m + 1 /\ DOMAIN p = 1 .. m
      /\ \A i \in 1 .. m : q[i] = p[i]
      /\ q[m + 1] = x
  BY Longer
<1>2. Shaped(e, q) <=> \A k \in 1 .. m + 1 : Good(q, k)
  BY <1>1 DEF Shaped
<1>3. Shaped(e, p) <=> \A k \in 1 .. m : Good(p, k)
  BY <1>1 DEF Shaped
<1> HIDE DEF q
<1>4. ASSUME NEW k \in 1 .. m PROVE SubSeq(q, 1, k) = SubSeq(p, 1, k)
  <2>1. k \in Int /\ k \in Nat
    BY <1>1
  <2>2. \A i \in 1 .. m : p[i] \in Element
    BY ElementOfSeq DEF Path
  <2>3. \A i \in 1 .. k : p[i] = q[i] /\ p[i] \in Element
    BY <1>1, <2>1, <2>2
  <2>4. /\ SubSeq(p, 1, k) \in Seq(Element) /\ Len(SubSeq(p, 1, k)) = k
        /\ \A i \in 1 .. k : SubSeq(p, 1, k)[i] = p[i]
    BY <1>1, <2>1, <2>3, SubSeqProperties
  <2>5. /\ SubSeq(q, 1, k) \in Seq(Element) /\ Len(SubSeq(q, 1, k)) = k
        /\ \A i \in 1 .. k : SubSeq(q, 1, k)[i] = q[i]
    BY <1>1, <2>1, <2>3, SubSeqProperties
  <2>6. QED BY <2>3, <2>4, <2>5, SeqEqual
<1>5. SubSeq(p, 1, m) = p
  BY SubSeqFull DEF Path
<1>6. p = <<>> <=> m = 0
  BY <1>1, EmptySeq DEF Path
<1>7. p # <<>> => Last(p) = p[m]
  BY DEF Last
<1>8. \A k \in 1 .. m : k < m => (Good(q, k) <=> Good(p, k))
  <2> SUFFICES ASSUME NEW k \in 1 .. m, k < m PROVE Good(q, k) <=> Good(p, k)
    OBVIOUS
  <2>1. /\ SubSeq(q, 1, k) = SubSeq(p, 1, k) /\ q[k] = p[k] /\ q[k + 1] = p[k + 1]
        /\ k < Len(q) /\ k < Len(p)
    BY <1>1, <1>4
  <2>2. k > 1 => q[k - 1] = p[k - 1]
    BY <1>1
  <2>3. QED BY <2>1, <2>2
<1>9. m > 0 => (Good(q, m) <=> Good(p, m) /\ (IsName(p[m]) => (ArrayAt(e, p) <=> ~IsName(x))))
  <2> SUFFICES ASSUME m > 0
               PROVE Good(q, m) <=> Good(p, m) /\ (IsName(p[m]) => (ArrayAt(e, p) <=> ~IsName(x)))
    OBVIOUS
  <2>1. m \in 1 .. m /\ m < Len(q) /\ ~(m < Len(p)) /\ q[m] = p[m] /\ SubSeq(q, 1, m) = p
    BY <1>1, <1>4, <1>5
  <2>2. m > 1 => q[m - 1] = p[m - 1]
    BY <1>1
  <2>3. QED BY <1>1, <2>1, <2>2
<1>10. Good(q, m + 1) <=> (IsName(x) \/ (m > 0 /\ IsName(p[m])))
  <2>1. ~(m + 1 < Len(q)) /\ (m + 1) - 1 = m /\ (m > 0 => q[m] = p[m])
    BY <1>1
  <2>2. QED BY <1>1, <2>1
<1> HIDE DEF Good
<1>11. (\A k \in 1 .. m + 1 : Good(q, k)) <=>
         /\ \A k \in 1 .. m : k < m => Good(p, k)
         /\ m > 0 => Good(q, m)
         /\ Good(q, m + 1)
  BY <1>1, <1>8
<1>12. (\A k \in 1 .. m : Good(p, k)) <=>
         /\ \A k \in 1 .. m : k < m => Good(p, k)
         /\ m > 0 => Good(p, m)
  BY <1>1
<1>13. QED BY <1>1, <1>2, <1>3, <1>6, <1>7, <1>9, <1>10, <1>11, <1>12 DEF q

(* A path that is shaped has a name.                                       *)
LEMMA ShapedNamed ==
    ASSUME NEW e, NEW p \in Path, p # <<>>, Shaped(e, p)
    PROVE  Names(p) \in Path /\ Names(p) # <<>>
<1>1. DOMAIN p = 1 .. Len(p) /\ Len(p) \in Nat /\ Len(p) > 0
  BY Shorter, LenProperties DEF Path
<1>2. 1 \in DOMAIN p
  BY <1>1
<1>3. IsName(p[1])
  BY <1>2 DEF Shaped
<1>4. p[1] \in ToSet(Names(p))
  BY <1>2, <1>3, NamesType DEF ToSet
<1>5. ToSet(<<>>) = {}
  BY EmptyPath DEF ToSet
<1>6. QED BY <1>4, <1>5, NamesType

-----------------------------------------------------------------------------
(* The attribute of a place.                                               *)
LEMMA FoundLonger ==
    ASSUME NEW e, NEW p \in Path, NEW x \in Element
    PROVE  /\ IsName(x) => Found(e, Append(p, x)) =
                             AttributeOf(e.profiles, Entering(e.profiles, Names(p)).type, x)
           /\ ~IsName(x) => Found(e, Append(p, x)) = Found(e, p)
<1>1. CASE IsName(x)
  <2>1. Names(Append(p, x)) = Append(Names(p), x)
    BY <1>1, NamesLonger
  <2>2. Front(Append(Names(p), x)) = Names(p) /\ Last(Append(Names(p), x)) = x
    BY NamesType, Longer
  <2>3. QED BY <1>1, <2>1, <2>2 DEF Found
<1>2. CASE ~IsName(x)
  BY <1>2, NamesLonger DEF Found
<1>3. QED BY <1>1, <1>2

(* What is open is defined.                                                *)
LEMMA OpenDefined ==
    ASSUME NEW profiles, NEW p \in Path, p # <<>>, Entering(profiles, p).status = "open"
    PROVE  Definition(profiles, p) = "defined"
<1> DEFINE q == Front(p)
           x == Last(p)
<1>1. q \in Path /\ x \in Element /\ p = Append(q, x)
  BY Shorter
<1> HIDE DEF q, x
<1>2. Entering(profiles, Append(q, x)).status = "open"
  BY <1>1
<1>3. /\ Entering(profiles, q).status = "open"
      /\ AttributeOf(profiles, Entering(profiles, q).type, x) # <<>>
  BY <1>1, <1>2, FollowOpened
<1>4. Definition(profiles, Append(q, x)) = "defined"
  BY <1>1, <1>3, DefinedLonger
<1>5. QED BY <1>1, <1>4

-----------------------------------------------------------------------------
(* The objects that are entered.                                           *)
LEMMA ValueNode ==
    ASSUME NEW e \in Events, NEW n \in Values(e)
    PROVE  /\ n \in Contents(e.item) /\ n.at \in Path /\ n.at # <<>> /\ Shaped(e, n.at)
           /\ n = Node(n.at, n.value) /\ WellFormed(n.value)
           /\ Definition(e.profiles, Names(n.at)) = "defined"
           /\ IsName(Last(n.at)) => Present(n.value) /\ ~ArrayAt(e, n.at)
<1>1. n \in Contents(e.item)
  BY DEF Values
<1>2. n.at \in Path /\ n = Node(n.at, n.value) /\ WellFormed(n.value)
  BY <1>1, NodePath, NodeFormed
<1>3. QED BY <1>1, <1>2 DEF Values

(* An object that is entered: a map at a path that is open.                *)
LEMMA EnteredNode ==
    ASSUME NEW e \in Events, NEW o \in Entered(e)
    PROVE  /\ o \in Contents(e.item) /\ o.at \in Path /\ o = Node(o.at, o.value)
           /\ o.value.k = "map" /\ WellFormed(o.value) /\ Shaped(e, o.at)
           /\ Names(o.at) \in Path /\ Entering(e.profiles, Names(o.at)).status = "open"
           /\ TypeAt(e, o) \in DOMAIN Schema
           /\ o = Root(e) \/ o \in Values(e)
           /\ o.at = <<>> <=> o = Root(e)
           /\ o.at # <<>> /\ IsName(Last(o.at)) => ~ArrayAt(e, o.at)
<1>1. /\ o = Root(e) \/ o \in Values(e)
      /\ o.value.k = "map" /\ Entering(e.profiles, Names(o.at)).status = "open"
  BY DEF Entered, StatusAt
<1>2. o \in Contents(e.item)
  BY <1>1, RootIn, ValueNode
<1>3. o.at \in Path /\ o = Node(o.at, o.value) /\ WellFormed(o.value)
  BY <1>2, NodePath, NodeFormed
<1>4. Shaped(e, o.at)
  BY <1>1, ValueNode, ShapedEmpty DEF Root
<1>5. Names(o.at) \in Path
  BY <1>3, NamesType
<1>6. TypeAt(e, o) \in DOMAIN Schema
  BY <1>5, EnteringType DEF TypeAt
<1>7. o.at = <<>> <=> o = Root(e)
  BY <1>1, ValueNode DEF Root
<1>8. o.at # <<>> /\ IsName(Last(o.at)) => ~ArrayAt(e, o.at)
  BY <1>1, <1>7, ValueNode
<1>9. QED BY <1>1, <1>2, <1>3, <1>4, <1>5, <1>6, <1>7, <1>8

(* The event itself is entered, as an object of the class.                 *)
LEMMA EnteredRoot == ASSUME NEW e \in Events PROVE Root(e) \in Entered(e) /\ TypeAt(e, Root(e)) = Class
<1>1. e.item.k = "map"
  BY EventAssumption
<1>2. Entering(e.profiles, <<>>) = Outset
  BY EnteringEmpty
<1>3. QED BY <1>1, <1>2, NamesEmpty DEF Entered, Root, StatusAt, Outset, TypeAt

(* One object is entered at a path.                                        *)
LEMMA EnteredOnly ==
    ASSUME NEW e \in Events, NEW o \in Entered(e), NEW u \in Entered(e), o.at = u.at
    PROVE  o = u
BY EnteredNode, NodeOnly

(* There is one value at a path.                                           *)
LEMMA ValueOnly ==
    ASSUME NEW e \in Events, NEW o \in Values(e), NEW u \in Values(e), o.at = u.at
    PROVE  o = u
BY ValueNode, NodeOnly

-----------------------------------------------------------------------------
(* Attribute a is active at the entered object o.                          *)


(* An attribute of an object has a place of its own under it.              *)
LEMMA AttributeName ==
    ASSUME NEW e \in Events, NEW o \in Entered(e), NEW a \in AttributesAt(e, o)
    PROVE  /\ a.name \in Element /\ IsName(a.name)
           /\ PlaceOf(o, a) \in Path /\ PlaceOf(o, a) # <<>>
           /\ Front(PlaceOf(o, a)) = o.at /\ Last(PlaceOf(o, a)) = a.name
           /\ Names(PlaceOf(o, a)) = Append(Names(o.at), a.name)
           /\ \A b \in AttributesAt(e, o) : a.name = b.name => a = b
<1>1. TypeAt(e, o) \in DOMAIN Schema /\ o.at \in Path
  BY EnteredNode
<1>2. /\ a.name \in Element /\ IsName(a.name)
      /\ \A b \in AttributesAt(e, o) : a.name = b.name => a = b
  BY <1>1, AttributeFacts DEF AttributesAt
<1>3. QED BY <1>1, <1>2, Longer, NamesLonger DEF PlaceOf

(* A place tells the object and the attribute.                             *)
LEMMA PlaceOnly ==
    ASSUME NEW e \in Events, NEW o \in Entered(e), NEW a \in AttributesAt(e, o),
           NEW u \in Entered(e), NEW b \in AttributesAt(e, u), PlaceOf(o, a) = PlaceOf(u, b)
    PROVE  o = u /\ a = b
<1>1. o.at = u.at /\ a.name = b.name
  BY AttributeName
<1>2. o = u
  BY <1>1, EnteredOnly
<1>3. QED BY <1>1, <1>2, AttributeName

(* The place of an active attribute is one that a name can denote.         *)
LEMMA Given ==
    ASSUME NEW e \in Events, NEW o, NEW a, Gives(e, o, a)
    PROVE  /\ Shaped(e, PlaceOf(o, a))
           /\ Definition(e.profiles, Names(PlaceOf(o, a))) = "defined"
           /\ Found(e, PlaceOf(o, a)) = <<a>>
           /\ Declared(e, PlaceOf(o, a)) = a
           /\ ArrayAt(e, PlaceOf(o, a)) <=> a.array
<1> DEFINE q == PlaceOf(o, a)
           p == o.at
           x == a.name
           s == Entering(e.profiles, Names(p))
<1>1. o \in Entered(e) /\ a \in AttributesAt(e, o) /\ Active(e.profiles, a)
  BY DEF Gives
<1>2. /\ p \in Path /\ x \in Element /\ IsName(x) /\ q = Append(p, x) /\ q \in Path
      /\ Names(q) = Append(Names(p), x)
  BY <1>1, EnteredNode, AttributeName DEF PlaceOf
<1>3. /\ Shaped(e, p) /\ Names(p) \in Path /\ s.status = "open"
      /\ s.type = TypeAt(e, o) /\ TypeAt(e, o) \in DOMAIN Schema
      /\ p # <<>> /\ IsName(Last(p)) => ~ArrayAt(e, p)
  BY <1>1, EnteredNode DEF TypeAt
<1> HIDE DEF q, s, p, x
<1>4. AttributeOf(e.profiles, s.type, x) = <<a>>
  BY <1>1, <1>3, Lookup DEF AttributesAt, x
<1>5. <<a>> # <<>> /\ <<a>>[1] = a
  OBVIOUS
<1>6. Shaped(e, q)
  BY <1>2, <1>3, ShapedLonger
<1>7. Definition(e.profiles, Names(q)) = "defined"
  <2> DEFINE ns == Names(p)
  <2>1. ns \in Path /\ Names(q) = Append(ns, x) /\ Entering(e.profiles, ns) = s
    BY <1>2, <1>3 DEF s
  <2> HIDE DEF ns
  <2>2. /\ Entering(e.profiles, ns).status = "open"
        /\ AttributeOf(e.profiles, Entering(e.profiles, ns).type, x) # <<>>
    BY <1>3, <1>4, <1>5, <2>1
  <2>3. Definition(e.profiles, Append(ns, x)) = "defined"
    BY <1>2, <2>1, <2>2, DefinedLonger
  <2>4. QED BY <2>1, <2>3
<1>8. Found(e, q) = <<a>>
  BY <1>2, <1>4, FoundLonger DEF s
<1>9. Declared(e, q) = a /\ (ArrayAt(e, q) <=> a.array)
  BY <1>5, <1>8 DEF Declared, ArrayAt
<1>10. QED BY <1>6, <1>7, <1>8, <1>9 DEF q

(* A path that an attribute is at, and a node.                             *)
LEMMA Taken ==
    ASSUME NEW e \in Events, NEW n \in Contents(e.item), n.at # <<>>, IsName(Last(n.at)),
           Shaped(e, n.at), Definition(e.profiles, Names(n.at)) = "defined"
    PROVE  \E o, a : /\ Gives(e, o, a) /\ n.at = PlaceOf(o, a)
                     /\ a.name \in DOMAIN o.value.at /\ n.value = o.value.at[a.name]
<1> DEFINE q == Front(n.at)
           x == Last(n.at)
           s == Entering(e.profiles, Names(q))
<1>1. q \in Path /\ x \in Element /\ n.at = Append(q, x)
  BY NodePath, Shorter
<1>2. PICK o \in Contents(e.item) : o.at = q /\ Holds(o.value, x, n.value)
  BY NodeAbove
<1>3. o.value.k = "map" /\ x \in DOMAIN o.value.at /\ n.value = o.value.at[x]
  BY <1>2 DEF Holds
<1> HIDE DEF q, x, s
<1>4. IsName(x) /\ Shaped(e, Append(q, x)) /\ Definition(e.profiles, Names(Append(q, x))) = "defined"
  BY <1>1 DEF x
<1>5. Names(Append(q, x)) = Append(Names(q), x) /\ Names(q) \in Path
  BY <1>1, <1>4, NamesLonger, NamesType
<1>6. s.status = "open" /\ AttributeOf(e.profiles, s.type, x) # <<>>
  BY <1>1, <1>4, <1>5, DefinedLonger DEF s
<1>7. Shaped(e, q) /\ (q # <<>> /\ IsName(Last(q)) => ~ArrayAt(e, q))
  BY <1>1, <1>4, ShapedLonger
<1>8. o \in Entered(e)
  <2>1. CASE q = <<>>
    <3>1. o = Root(e)
      BY <1>2, <2>1, RootIn, NodeOnly DEF Root
    <3>2. QED BY <3>1, EnteredRoot
  <2>2. CASE q # <<>>
    <3>1. Names(q) # <<>>
      BY <1>1, <1>7, <2>2, ShapedNamed
    <3>2. Definition(e.profiles, Names(q)) = "defined"
      BY <1>5, <1>6, <3>1, OpenDefined DEF s
    <3>3. Present(o.value)
      BY <1>3 DEF Present
    <3>4. o \in Values(e)
      BY <1>2, <1>7, <2>2, <3>2, <3>3 DEF Values
    <3>5. QED BY <1>2, <1>3, <1>6, <3>4 DEF Entered, StatusAt, s
  <2>3. QED BY <2>1, <2>2
<1>9. s.type = TypeAt(e, o) /\ TypeAt(e, o) \in DOMAIN Schema
  BY <1>2, <1>8, EnteredNode DEF TypeAt, s
<1>10. PICK a \in ToSet(Attributes(TypeAt(e, o))) : a.name = x /\ Active(e.profiles, a)
  BY <1>6, <1>9, LookupFound
<1>11. Gives(e, o, a)
  BY <1>8, <1>10 DEF Gives, AttributesAt
<1>12. n.at = PlaceOf(o, a)
  BY <1>1, <1>2, <1>10 DEF PlaceOf
<1>13. QED BY <1>3, <1>10, <1>11, <1>12

-----------------------------------------------------------------------------
(* n is a value of attribute a of the entered object o: the attribute's,   *)
(* or an element of its array.                                             *)




(* An attribute that is present is a node of the event.                    *)
LEMMA Attached ==
    ASSUME NEW e \in Events, NEW o \in Entered(e), NEW a \in AttributesAt(e, o),
           Present(At(o.value, a.name))
    PROVE  /\ a.name \in DOMAIN o.value.at /\ At(o.value, a.name) = o.value.at[a.name]
           /\ Node(PlaceOf(o, a), At(o.value, a.name)) \in Contents(e.item)
           /\ WellFormed(At(o.value, a.name))
<1>1. a.name \in DOMAIN o.value.at /\ At(o.value, a.name) = o.value.at[a.name]
  BY DEF At, Present, Absent
<1>2. Node(PlaceOf(o, a), At(o.value, a.name)) \in Contents(e.item)
  BY <1>1, EnteredNode, NodeBelow DEF PlaceOf
<1>3. QED BY <1>1, <1>2, NodeFormed DEF Node

(* An element of an array is a node of the event, at its index.            *)
LEMMA ElementFacts ==
    ASSUME NEW e \in Events, NEW o \in Entered(e), NEW a \in AttributesAt(e, o),
           At(o.value, a.name).k = "array", NEW i \in DOMAIN At(o.value, a.name).of
    PROVE  /\ i \in 1 .. Len(Index) /\ Index[i] \in Element /\ ~IsName(Index[i])
           /\ ElementAt(o, a, i).at = Append(PlaceOf(o, a), Index[i])
           /\ ElementAt(o, a, i).at \in Path /\ ElementAt(o, a, i).at # <<>>
           /\ Front(ElementAt(o, a, i).at) = PlaceOf(o, a)
           /\ Last(ElementAt(o, a, i).at) = Index[i]
           /\ Names(ElementAt(o, a, i).at) = Names(PlaceOf(o, a))
           /\ ElementAt(o, a, i) \in Contents(e.item)
           /\ ElementAt(o, a, i).value = At(o.value, a.name).of[i]
<1> DEFINE v == At(o.value, a.name)
           q == PlaceOf(o, a)
<1>1. Present(v) /\ v.k = "array"
  BY DEF Present
<1>2. Node(q, v) \in Contents(e.item) /\ WellFormed(v)
  BY <1>1, Attached
<1>3. q \in Path
  BY AttributeName
<1>4. ElementAt(o, a, i) = Node(Append(q, Index[i]), v.of[i])
  BY DEF ElementAt
<1>5. i \in DOMAIN v.of
  OBVIOUS
<1> HIDE DEF q, v
<1>6. i \in 1 .. Len(Index) /\ Index[i] \in Element /\ ~IsName(Index[i])
  BY <1>1, <1>2, <1>5, Formed, Indexes
<1>7. Node(q, v).at = q /\ Node(q, v).value = v
  BY DEF Node
<1>8. Node(Append(q, Index[i]), v.of[i]) \in Contents(e.item)
  BY <1>1, <1>2, <1>5, <1>7, NodeBelow
<1>9. ElementAt(o, a, i).at = Append(q, Index[i]) /\ ElementAt(o, a, i).value = v.of[i]
  BY <1>4 DEF Node
<1>10. QED BY <1>3, <1>4, <1>6, <1>8, <1>9, Longer, NamesLonger DEF q, v

-----------------------------------------------------------------------------
(* Values are values of attributes, and the other way round.               *)
LEMMA ValueFrom ==
    ASSUME NEW e \in Events, NEW n, NEW o, NEW a, ValueOf(e, n, o, a)
    PROVE  /\ n \in Values(e) /\ Declared(e, n.at) = a
           /\ o \in Entered(e) /\ a \in AttributesAt(e, o) /\ Active(e.profiles, a)
           /\ Names(n.at) = Append(Names(o.at), a.name)
           /\ Owner(n.at) = PlaceOf(o, a) /\ PlaceOf(o, a) \in Path
           /\ n.at \in Path /\ Under(PlaceOf(o, a), n.at)
           /\ n.at = PlaceOf(o, a) <=> ~a.array
<1>1. o \in Entered(e) /\ a \in AttributesAt(e, o) /\ Active(e.profiles, a)
  BY DEF ValueOf, Single, OfArray, Gives
<1> DEFINE q == PlaceOf(o, a)
           v == At(o.value, a.name)
<1>2. /\ Shaped(e, q) /\ Definition(e.profiles, Names(q)) = "defined"
      /\ Found(e, q) = <<a>> /\ Declared(e, q) = a /\ (ArrayAt(e, q) <=> a.array)
  BY <1>1, Given DEF Gives
<1>3. /\ q \in Path /\ q # <<>> /\ Last(q) = a.name /\ IsName(Last(q))
      /\ Names(q) = Append(Names(o.at), a.name)
  BY <1>1, AttributeName
<1>4. CASE Single(e, n, o, a)
  <2>1. Present(v) /\ ~a.array /\ n = Node(q, v)
    BY <1>4 DEF Single
  <2>2. n \in Contents(e.item) /\ n.at = q /\ n.value = v
    BY <1>1, <2>1, Attached DEF Node
  <2>3. ~ArrayAt(e, q)
    BY <1>2, <2>1
  <2> HIDE DEF q, v
  <2>4. n \in Values(e)
    BY <1>2, <1>3, <2>1, <2>2, <2>3 DEF Values
  <2>5. Owner(q) = q
    BY <1>3 DEF Owner
  <2>6. Under(q, n.at)
    BY <1>3, <2>2, UnderItself
  <2>7. QED BY <1>1, <1>2, <1>3, <2>1, <2>2, <2>4, <2>5, <2>6 DEF q
<1>5. CASE OfArray(e, n, o, a)
  <2>1. PICK i \in DOMAIN v.of : n = ElementAt(o, a, i)
    BY <1>5 DEF OfArray
  <2>2. v.k = "array" /\ a.array
    BY <1>5 DEF OfArray
  <2>3. /\ Index[i] \in Element /\ ~IsName(Index[i])
        /\ n.at = Append(q, Index[i]) /\ n.at \in Path /\ n.at # <<>>
        /\ Front(n.at) = q /\ Last(n.at) = Index[i] /\ Names(n.at) = Names(q)
        /\ n \in Contents(e.item)
    BY <1>1, <2>1, <2>2, ElementFacts
  <2>4. ArrayAt(e, q)
    BY <1>2, <2>2
  <2> HIDE DEF q, v
  <2>5. Shaped(e, n.at)
    BY <1>2, <1>3, <2>3, <2>4, ShapedLonger
  <2>6. n \in Values(e)
    BY <1>2, <2>3, <2>5 DEF Values
  <2>7. Found(e, n.at) = Found(e, q)
    BY <1>3, <2>3, FoundLonger
  <2>8. Declared(e, n.at) = a
    BY <1>2, <2>7 DEF Declared
  <2>9. Owner(n.at) = q
    BY <2>3 DEF Owner
  <2>10. Under(q, n.at) /\ n.at # q
    BY <1>3, <2>3, UnderItself, UnderFurther, UnderLonger
  <2>11. QED BY <1>1, <1>3, <2>2, <2>3, <2>6, <2>8, <2>9, <2>10 DEF q
<1>6. QED BY <1>4, <1>5 DEF ValueOf

(* Every value is one of an attribute.                                     *)
LEMMA ValueHas ==
    ASSUME NEW e \in Events, NEW n \in Values(e)
    PROVE  \E o, a : ValueOf(e, n, o, a)
<1>1. /\ n \in Contents(e.item) /\ n.at \in Path /\ n.at # <<>> /\ Shaped(e, n.at)
      /\ n = Node(n.at, n.value)
      /\ Definition(e.profiles, Names(n.at)) = "defined"
      /\ IsName(Last(n.at)) => Present(n.value) /\ ~ArrayAt(e, n.at)
  BY ValueNode
<1>2. CASE IsName(Last(n.at))
  <2>1. PICK o, a : /\ Gives(e, o, a) /\ n.at = PlaceOf(o, a)
                    /\ a.name \in DOMAIN o.value.at /\ n.value = o.value.at[a.name]
    BY <1>1, <1>2, Taken
  <2>2. n.value = At(o.value, a.name)
    BY <2>1 DEF At
  <2>3. ~a.array
    BY <1>1, <1>2, <2>1, Given
  <2>4. Single(e, n, o, a)
    BY <1>1, <1>2, <2>1, <2>2, <2>3 DEF Single
  <2>5. QED BY <2>4 DEF ValueOf
<1>3. CASE ~IsName(Last(n.at))
  <2> DEFINE q == Front(n.at)
             x == Last(n.at)
  <2>1. q \in Path /\ x \in Element /\ n.at = Append(q, x) /\ ~IsName(x)
    BY <1>1, <1>3, Shorter
  <2>2. PICK m \in Contents(e.item) : m.at = q /\ Holds(m.value, x, n.value)
    BY <1>1, NodeAbove
  <2>3. m.value.k = "array" /\ \E i \in DOMAIN m.value.of : x = Index[i] /\ n.value = m.value.of[i]
    BY <2>1, <2>2 DEF Holds
  <2> HIDE DEF q, x
  <2>4. q # <<>> /\ IsName(Last(q)) /\ Shaped(e, q) /\ ArrayAt(e, q)
    BY <1>1, <2>1, ShapedLonger
  <2>5. Names(n.at) = Names(q)
    BY <2>1, NamesLonger
  <2>6. PICK o, a : /\ Gives(e, o, a) /\ m.at = PlaceOf(o, a)
                    /\ a.name \in DOMAIN o.value.at /\ m.value = o.value.at[a.name]
    BY <1>1, <2>2, <2>4, <2>5, Taken
  <2>7. m.value = At(o.value, a.name)
    BY <2>6 DEF At
  <2>8. a.array
    BY <2>2, <2>4, <2>6, Given
  <2>9. PICK i \in DOMAIN m.value.of : x = Index[i] /\ n.value = m.value.of[i]
    BY <2>3
  <2>10. n = ElementAt(o, a, i)
    BY <1>1, <2>1, <2>2, <2>6, <2>7, <2>9 DEF ElementAt
  <2>11. OfArray(e, n, o, a)
    BY <2>3, <2>6, <2>7, <2>8, <2>9, <2>10 DEF OfArray
  <2>12. QED BY <2>11 DEF ValueOf
<1>4. QED BY <1>2, <1>3

(* What is done with it.                                                   *)
LEMMA ValueStatus ==
    ASSUME NEW e \in Events, NEW n, NEW o, NEW a, ValueOf(e, n, o, a)
    PROVE  /\ n \in Entered(e) <=> Enterable(a, n.value) /\ ~HasPriorAttribute(n.at, a.name)
           /\ n \in Limited(e) <=> Enterable(a, n.value) /\ HasPriorAttribute(n.at, a.name)
           /\ n \in Entered(e) => TypeAt(e, n) = a.type
<1> DEFINE p == Names(o.at)
           x == a.name
           s == Entering(e.profiles, Append(p, x))
<1>1. /\ n \in Values(e) /\ Declared(e, n.at) = a
      /\ o \in Entered(e) /\ a \in AttributesAt(e, o) /\ Active(e.profiles, a)
      /\ Names(n.at) = Append(p, x) /\ n.at \in Path
  BY ValueFrom
<1>2. /\ p \in Path /\ Entering(e.profiles, p).status = "open"
      /\ a \in ToSet(Attributes(Entering(e.profiles, p).type)) /\ x \in Element
  BY <1>1, EnteredNode, AttributeName DEF AttributesAt, TypeAt
<1> HIDE DEF p
<1>3. /\ s.status = (IF HasPriorAttribute(Append(p, x), x) THEN "limited"
                     ELSE IF a.holds = "object" /\ a.type \in DOMAIN Schema THEN "open" ELSE "undefined")
      /\ s.status = "open" => s.type = a.type
  BY <1>1, <1>2, FollowOpen
<1>4. HasPriorAttribute(Append(p, x), x) <=> HasPriorAttribute(n.at, x)
  BY <1>1, PriorOfNames
<1>5. StatusAt(e, n) = s.status /\ TypeAt(e, n) = s.type
  BY <1>1 DEF StatusAt, TypeAt
<1> HIDE DEF s, x
<1>6. n \in Entered(e) <=> n.value.k = "map" /\ s.status = "open"
  BY <1>1, <1>5 DEF Entered
<1>7. n \in Limited(e) <=> Enterable(a, n.value) /\ s.status = "limited"
  BY <1>1, <1>5 DEF Limited
<1>8. QED BY <1>3, <1>4, <1>5, <1>6, <1>7 DEF Enterable, x

(* The owner of a value tells its object and attribute.                    *)
LEMMA ValueOfOnly ==
    ASSUME NEW e \in Events, NEW n, NEW m, NEW o, NEW a, NEW u, NEW b,
           ValueOf(e, n, o, a), ValueOf(e, m, u, b), Owner(n.at) = Owner(m.at)
    PROVE  o = u /\ a = b
BY ValueFrom, PlaceOnly

-----------------------------------------------------------------------------
(* Induction over paths, from all shorter ones.                            *)
LEMMA PathInduct ==
    ASSUME NEW T, \A p \in Path : (\A r \in Path : Len(r) < Len(p) => r \in T) => p \in T
    PROVE  Path \subseteq T
<1> DEFINE R == {n \in Nat : \A p \in Path : Len(p) < n => p \in T}
<1>0. \A p \in Path : Len(p) \in Nat
  BY LenProperties DEF Path
<1>1. 0 \in R
  BY <1>0
<1>2. ASSUME NEW n \in Nat, n \in R PROVE n + 1 \in R
  <2> SUFFICES ASSUME NEW p \in Path, Len(p) < n + 1 PROVE p \in T
    OBVIOUS
  <2>1. \A r \in Path : Len(r) < Len(p) => r \in T
    BY <1>0, <1>2
  <2>2. QED BY <2>1
<1> HIDE DEF R
<1>3. Nat \subseteq R
  BY <1>1, <1>2, NatInduct
<1>4. ASSUME NEW p \in Path PROVE p \in T
  <2>1. Len(p) + 1 \in R /\ Len(p) < Len(p) + 1
    BY <1>0, <1>3
  <2>2. QED BY <2>1 DEF R
<1>5. QED BY <1>4

-----------------------------------------------------------------------------
(* What an origin is.                                                      *)
LEMMA OriginCases ==
    ASSUME NEW e \in Events, NEW x
    PROVE  x \in Origins(e) <=>
             \/ x = Begin \/ x = End
             \/ \E o \in Entered(e) : \E a \in AttributesAt(e, o) : x = Origin("attribute", PlaceOf(o, a))
             \/ \E v \in Values(e) : x = Origin("value", v.at)
             \/ \E o \in Entered(e) : o # Root(e) /\ x = Origin("leave", o.at)
<1> DEFINE attributes == UNION {{Origin("attribute", Append(o.at, a.name)) : a \in AttributesAt(e, o)} : o \in Entered(e)}
           values == {Origin("value", v.at) : v \in Values(e)}
           leaves == {Origin("leave", o.at) : o \in Entered(e) \ {Root(e)}}
<1>1. x \in attributes <=>
        \E o \in Entered(e) : \E a \in AttributesAt(e, o) : x = Origin("attribute", PlaceOf(o, a))
  BY DEF PlaceOf
<1>2. x \in values <=> \E v \in Values(e) : x = Origin("value", v.at)
  OBVIOUS
<1>3. x \in leaves <=> \E o \in Entered(e) : o # Root(e) /\ x = Origin("leave", o.at)
  OBVIOUS
<1>4. Origins(e) = {Begin, End} \cup values \cup leaves \cup attributes
  BY DEF Origins
<1> HIDE DEF attributes, values, leaves
<1>5. QED BY <1>1, <1>2, <1>3, <1>4

(* An origin is at a path.                                                 *)
LEMMA OriginPath ==
    ASSUME NEW e \in Events, NEW x \in Origins(e)
    PROVE  x.at \in Path
<1>1. Begin.at = <<>> /\ End.at = <<>> /\ \A k, p : Origin(k, p).at = p
  BY DEF Begin, End, Origin
<1>2. QED BY <1>1, OriginCases, EmptyPath, AttributeName, ValueNode, EnteredNode

(* Origins tell their kind and their path.                                 *)
LEMMA OriginDiffer ==
    /\ \A k, l, p, q : Origin(k, p) = Origin(l, q) <=> k = l /\ p = q
    /\ \A k, p : Origin(k, p).at = p /\ Origin(k, p).kind = k
    /\ Begin = Origin("begin", <<>>) /\ End = Origin("end", <<>>)
<1>1. \A k, p : Origin(k, p).at = p /\ Origin(k, p).kind = k
  BY DEF Origin
<1>2. \A k, l, p, q : Origin(k, p) = Origin(l, q) => k = l /\ p = q
  BY <1>1
<1>3. QED BY <1>1, <1>2 DEF Begin, End

(* Where a value's object is.                                              *)
LEMMA ValueAbove ==
    ASSUME NEW e \in Events, NEW n, NEW o, NEW a, ValueOf(e, n, o, a),
           NEW p \in Path, Under(p, n.at), p # n.at
    PROVE  Under(p, PlaceOf(o, a))
<1> DEFINE q == PlaceOf(o, a)
<1>1. /\ q \in Path /\ n.at \in Path /\ (n.at = q <=> ~a.array)
      /\ o \in Entered(e) /\ a \in AttributesAt(e, o)
  BY ValueFrom
<1>2. CASE ~a.array
  BY <1>1, <1>2
<1>3. CASE a.array
  <2>1. OfArray(e, n, o, a)
    BY <1>3 DEF ValueOf, Single
  <2>2. PICK i \in DOMAIN At(o.value, a.name).of : n = ElementAt(o, a, i)
    BY <2>1 DEF OfArray
  <2>3. At(o.value, a.name).k = "array"
    BY <2>1 DEF OfArray
  <2>4. n.at = Append(q, Index[i]) /\ Index[i] \in Element
    BY <1>1, <2>2, <2>3, ElementFacts
  <2> HIDE DEF q
  <2>5. QED BY <1>1, <2>4, UnderLonger DEF q
<1>4. QED BY <1>2, <1>3

(* What is above a place and not the place is above its object.            *)
LEMMA PlaceAbove ==
    ASSUME NEW e \in Events, NEW o \in Entered(e), NEW a \in AttributesAt(e, o),
           NEW p \in Path, Under(p, PlaceOf(o, a)), p # PlaceOf(o, a)
    PROVE  Under(p, o.at)
<1>1. PlaceOf(o, a) \in Path /\ Front(PlaceOf(o, a)) = o.at
  BY AttributeName
<1>2. QED BY <1>1, UnderShorter

(* A place is one below its object.                                        *)
LEMMA PlaceBelow ==
    ASSUME NEW e \in Events, NEW o \in Entered(e), NEW a \in AttributesAt(e, o)
    PROVE  /\ Under(o.at, PlaceOf(o, a)) /\ o.at # PlaceOf(o, a)
           /\ Len(PlaceOf(o, a)) = Len(o.at) + 1 /\ Len(o.at) \in Nat
<1>1. o.at \in Path /\ a.name \in Element
  BY EnteredNode, AttributeName
<1>2. Len(PlaceOf(o, a)) = Len(o.at) + 1 /\ Len(o.at) \in Nat
  BY <1>1, Longer DEF PlaceOf
<1>3. QED BY <1>1, <1>2, UnderItself, UnderLonger DEF PlaceOf

(* A value is below its object.                                            *)
LEMMA ValueLength ==
    ASSUME NEW e \in Events, NEW n, NEW o, NEW a, ValueOf(e, n, o, a)
    PROVE  Len(o.at) < Len(n.at) /\ Under(o.at, n.at)
<1>1. /\ o \in Entered(e) /\ a \in AttributesAt(e, o) /\ Under(PlaceOf(o, a), n.at)
      /\ PlaceOf(o, a) \in Path /\ n.at \in Path
  BY ValueFrom
<1>2. /\ Under(o.at, PlaceOf(o, a)) /\ Len(PlaceOf(o, a)) = Len(o.at) + 1
      /\ Len(o.at) \in Nat /\ o.at \in Path
  BY <1>1, PlaceBelow, EnteredNode
<1>3. Len(PlaceOf(o, a)) <= Len(n.at) /\ Len(n.at) \in Nat
  BY <1>1, LenProperties DEF Under, Path
<1>4. QED BY <1>1, <1>2, <1>3, UnderTrans

-----------------------------------------------------------------------------
(* Below the place of an attribute there are its values and what is below  *)
(* them.                                                                   *)
LEMMA Descend ==
    ASSUME NEW e \in Events, NEW o \in Entered(e), NEW a \in AttributesAt(e, o),
           NEW n \in Values(e), Under(PlaceOf(o, a), n.at)
    PROVE  \E m : ValueOf(e, m, o, a) /\ Under(m.at, n.at)
<1> DEFINE q == PlaceOf(o, a)
           T == {p \in Path : \A v \in Values(e) : v.at = p /\ Under(q, p) =>
                                \E m : ValueOf(e, m, o, a) /\ Under(m.at, p)}
<1>1. q \in Path /\ q # <<>>
  BY AttributeName
<1>2. ASSUME NEW p \in Path, \A r \in Path : Len(r) < Len(p) => r \in T PROVE p \in T
  <2> SUFFICES ASSUME NEW v \in Values(e), v.at = p, Under(q, p)
               PROVE  \E m : ValueOf(e, m, o, a) /\ Under(m.at, p)
    OBVIOUS
  <2>1. PICK u, b : ValueOf(e, v, u, b)
    BY ValueHas
  <2>2. /\ u \in Entered(e) /\ b \in AttributesAt(e, u) /\ Owner(p) = PlaceOf(u, b)
        /\ Under(PlaceOf(u, b), p) /\ PlaceOf(u, b) \in Path
    BY <2>1, ValueFrom
  <2>3. CASE PlaceOf(u, b) = q
    <3>1. u = o /\ b = a
      BY <2>2, <2>3, PlaceOnly
    <3>2. QED BY <2>1, <3>1, UnderItself
  <2>4. CASE PlaceOf(u, b) # q
    <3>1. Under(q, PlaceOf(u, b))
      <4>1. CASE q = p
        <5>1. IsName(Last(p))
          BY <4>1, AttributeName
        <5>2. QED BY <2>2, <2>4, <4>1, <5>1 DEF Owner
      <4>2. CASE q # p
        BY <1>1, <2>1, <4>2, ValueAbove
      <4>3. QED BY <4>1, <4>2
    <3>2. Under(q, u.at)
      BY <1>1, <2>2, <2>4, <3>1, PlaceAbove
    <3>3. u.at # <<>> /\ u.at \in Path
      <4>1. Len(q) \in Nat /\ Len(q) > 0
        BY <1>1, Shorter
      <4>2. QED BY <2>2, <3>2, <4>1, EmptyPath, EnteredNode DEF Under
    <3>4. u \in Values(e)
      BY <2>2, <3>3, EnteredNode
    <3>5. Len(u.at) < Len(p) /\ Under(u.at, p)
      BY <2>1, ValueLength
    <3>6. u.at \in T
      BY <1>2, <3>3, <3>5
    <3>7. PICK m : ValueOf(e, m, o, a) /\ Under(m.at, u.at)
      BY <3>2, <3>4, <3>6
    <3>8. m.at \in Path
      BY <3>7, ValueFrom
    <3>9. QED BY <3>3, <3>5, <3>7, <3>8, UnderTrans
  <2>5. QED BY <2>3, <2>4
<1> HIDE DEF T
<1>3. Path \subseteq T
  BY <1>2, PathInduct
<1>4. n.at \in T
  BY <1>3, ValueNode
<1>5. QED BY <1>4 DEF T

(* Below a value there is something only if it is entered.                 *)
LEMMA Inside ==
    ASSUME NEW e \in Events, NEW n \in Values(e) \cup {Root(e)},
           NEW m \in Values(e), Under(n.at, m.at), n.at # m.at
    PROVE  n \in Entered(e) /\ \E b \in AttributesAt(e, n) : Under(PlaceOf(n, b), m.at)
<1> DEFINE T == {p \in Path : \A v \in Values(e) : v.at = p /\ Under(n.at, p) /\ n.at # p =>
                                n \in Entered(e) /\ \E b \in AttributesAt(e, n) : Under(PlaceOf(n, b), p)}
<1>1. n.at \in Path /\ n \in Contents(e.item) /\ (n.at = <<>> => n = Root(e))
  BY ValueNode, RootIn, EmptyPath DEF Root
<1>2. ASSUME NEW p \in Path, \A r \in Path : Len(r) < Len(p) => r \in T PROVE p \in T
  <2> SUFFICES ASSUME NEW v \in Values(e), v.at = p, Under(n.at, p), n.at # p
               PROVE  n \in Entered(e) /\ \E b \in AttributesAt(e, n) : Under(PlaceOf(n, b), p)
    OBVIOUS
  <2>1. PICK u, b : ValueOf(e, v, u, b)
    BY ValueHas
  <2>2. /\ u \in Entered(e) /\ b \in AttributesAt(e, u) /\ Owner(p) = PlaceOf(u, b)
        /\ Under(PlaceOf(u, b), p) /\ PlaceOf(u, b) \in Path
        /\ (p = PlaceOf(u, b) <=> ~b.array)
    BY <2>1, ValueFrom
  <2>3. Under(n.at, PlaceOf(u, b))
    BY <1>1, <2>1, ValueAbove
  <2>4. n.at # PlaceOf(u, b)
    <3> SUFFICES ASSUME n.at = PlaceOf(u, b) PROVE FALSE
      OBVIOUS
    <3>1. n \in Values(e) /\ IsName(Last(n.at))
      BY <2>2, <1>1, AttributeName DEF Root
    <3>2. PICK w, c : ValueOf(e, n, w, c)
      BY <3>1, ValueHas
    <3>3. /\ w \in Entered(e) /\ c \in AttributesAt(e, w) /\ Owner(n.at) = PlaceOf(w, c)
          /\ (n.at = PlaceOf(w, c) <=> ~c.array)
      BY <3>2, ValueFrom
    <3>4. Owner(n.at) = n.at
      BY <3>1 DEF Owner
    <3>5. w = u /\ c = b
      BY <2>2, <3>3, <3>4, PlaceOnly
    <3>6. QED BY <2>2, <3>3, <3>4, <3>5
  <2>5. Under(n.at, u.at) /\ u.at \in Path /\ u \in Contents(e.item)
    BY <1>1, <2>2, <2>3, <2>4, PlaceAbove, EnteredNode
  <2>6. CASE u.at = n.at
    <3>1. u = n
      BY <1>1, <2>5, <2>6, NodeOnly
    <3>2. QED BY <2>2, <3>1
  <2>7. CASE u.at # n.at
    <3>1. u.at # <<>>
      BY <1>1, <2>5, <2>7, UnderShorter
    <3>2. u \in Values(e)
      BY <2>2, <3>1, EnteredNode
    <3>3. Len(u.at) < Len(p) /\ Under(u.at, p)
      BY <2>1, ValueLength
    <3>4. u.at \in T
      BY <1>2, <2>5, <3>3
    <3>5. n \in Entered(e) /\ \E c \in AttributesAt(e, n) : Under(PlaceOf(n, c), u.at)
      BY <2>5, <2>7, <3>2, <3>4
    <3>6. PICK c \in AttributesAt(e, n) : Under(PlaceOf(n, c), u.at)
      BY <3>5
    <3>7. PlaceOf(n, c) \in Path
      BY <3>5, AttributeName
    <3>8. QED BY <2>5, <3>3, <3>5, <3>6, <3>7, UnderTrans
  <2>8. QED BY <2>6, <2>7
<1> HIDE DEF T
<1>3. Path \subseteq T
  BY <1>2, PathInduct
<1>4. m.at \in T
  BY <1>3, ValueNode
<1>5. QED BY <1>4 DEF T

-----------------------------------------------------------------------------
(* Everything is below an attribute of the event, but its begin and end.   *)
LEMMA Rooted ==
    ASSUME NEW e \in Events, NEW n \in Values(e) \cup {Root(e)}, NEW x \in Origins(e),
           x # Begin, x # End, Under(n.at, x.at), x # Origin("attribute", n.at),
           x # Origin("value", n.at), x # Origin("leave", n.at)
    PROVE  n \in Entered(e) /\ \E b \in AttributesAt(e, n) : Under(PlaceOf(n, b), x.at)
<1>0. n.at \in Path /\ n \in Contents(e.item) /\ (n.at = <<>> => n = Root(e))
  BY ValueNode, RootIn, EmptyPath DEF Root
<1>1. CASE \E o \in Entered(e) : \E a \in AttributesAt(e, o) : x = Origin("attribute", PlaceOf(o, a))
  <2>0. PICK o \in Entered(e) : \E a \in AttributesAt(e, o) : x = Origin("attribute", PlaceOf(o, a))
    BY <1>1
  <2>1. PICK a \in AttributesAt(e, o) : x = Origin("attribute", PlaceOf(o, a))
    BY <2>0
  <2>2. x.at = PlaceOf(o, a) /\ PlaceOf(o, a) # n.at /\ PlaceOf(o, a) \in Path
    BY <2>1, OriginDiffer, AttributeName
  <2>3. Under(n.at, o.at) /\ o.at \in Path /\ o \in Contents(e.item)
    BY <1>0, <2>2, PlaceAbove, EnteredNode
  <2>4. CASE o.at = n.at
    <3>1. o = n
      BY <1>0, <2>3, <2>4, NodeOnly
    <3>2. QED BY <2>2, <3>1, UnderItself
  <2>5. CASE o.at # n.at
    <3>1. o.at # <<>>
      BY <1>0, <2>3, <2>5, UnderShorter
    <3>2. o \in Values(e)
      BY <3>1, EnteredNode
    <3>3. n \in Entered(e)
      BY <2>3, <2>5, <3>2, Inside
    <3>4. PICK b \in AttributesAt(e, n) : Under(PlaceOf(n, b), o.at)
      BY <2>3, <2>5, <3>2, Inside
    <3>5. Under(o.at, PlaceOf(o, a)) /\ PlaceOf(n, b) \in Path
      BY <3>3, PlaceBelow, AttributeName
    <3>6. Under(PlaceOf(n, b), PlaceOf(o, a))
      BY <2>2, <2>3, <3>4, <3>5, UnderTrans
    <3>7. QED BY <2>2, <3>3, <3>6
  <2>6. QED BY <2>4, <2>5
<1>2. CASE \E v \in Values(e) : x = Origin("value", v.at) \/ x = Origin("leave", v.at)
  <2>1. PICK v \in Values(e) : x = Origin("value", v.at) \/ x = Origin("leave", v.at)
    BY <1>2
  <2>2. x.at = v.at /\ v.at # n.at
    BY <2>1, OriginDiffer
  <2>3. QED BY <2>2, Inside
<1>3. CASE \E o \in Entered(e) : o # Root(e) /\ x = Origin("leave", o.at)
  BY <1>2, <1>3, EnteredNode
<1>4. QED BY <1>1, <1>2, <1>3, OriginCases

(* All of these are origins.                                               *)
LEMMA Origined ==
    ASSUME NEW e \in Events
    PROVE  /\ Begin \in Origins(e) /\ End \in Origins(e)
           /\ \A o \in Entered(e) : \A a \in AttributesAt(e, o) : Origin("attribute", PlaceOf(o, a)) \in Origins(e)
           /\ \A v \in Values(e) : Origin("value", v.at) \in Origins(e)
           /\ \A o \in Entered(e) : o # Root(e) => Origin("leave", o.at) \in Origins(e)
BY OriginCases

(* An object's attributes, from one on.                                    *)
LEMMA ItemHas ==
    ASSUME NEW e \in Events, NEW o \in Entered(e), NEW x
    PROVE  x \in ItemRegion(e, o.at, TypeAt(e, o), 1) <=>
             x \in Origins(e) /\ \E b \in AttributesAt(e, o) : Under(PlaceOf(o, b), x.at)
<1> DEFINE s == Attributes(TypeAt(e, o))
<1>1. TypeAt(e, o) \in DOMAIN Schema
  BY EnteredNode
<1>2. /\ DOMAIN s = 1 .. Len(s) /\ Len(s) \in Nat
      /\ \A k \in DOMAIN s : s[k] \in ToSet(s)
      /\ \A b \in ToSet(s) : \E k \in DOMAIN s : b = s[k]
  BY <1>1, AttributeFacts
<1>3. AttributesAt(e, o) = ToSet(s)
  BY DEF AttributesAt
<1>4. x \in ItemRegion(e, o.at, TypeAt(e, o), 1) <=>
        x \in Origins(e) /\ \E k \in DOMAIN s : k >= 1 /\ Under(Append(o.at, s[k].name), x.at)
  BY DEF ItemRegion
<1> HIDE DEF s
<1>5. \A k \in DOMAIN s : k >= 1
  BY <1>2
<1>6. QED BY <1>2, <1>3, <1>4, <1>5 DEF PlaceOf

(* The rest of an object: its next attribute and what is after that.       *)
LEMMA ItemSplit ==
    ASSUME NEW e \in Events, NEW o \in Entered(e), NEW t, t = TypeAt(e, o),
           NEW k \in DOMAIN Attributes(t)
    PROVE  /\ Attributes(t)[k] \in AttributesAt(e, o)
           /\ ItemRegion(e, o.at, t, k) = PlaceRegion(e, PlaceOf(o, Attributes(t)[k]))
                                          \cup ItemRegion(e, o.at, t, k + 1)
           /\ PlaceRegion(e, PlaceOf(o, Attributes(t)[k])) \cap ItemRegion(e, o.at, t, k + 1) = {}
<1> DEFINE s == Attributes(t)
           p == o.at
<1>1. t \in DOMAIN Schema /\ p \in Path
  BY EnteredNode
<1>2. /\ DOMAIN s = 1 .. Len(s) /\ Len(s) \in Nat
      /\ \A i \in DOMAIN s : /\ s[i] \in ToSet(s) /\ s[i].name \in Element
                             /\ \A j \in DOMAIN s : s[i].name = s[j].name => i = j
  BY <1>1, AttributeFacts
<1>3. s[k] \in AttributesAt(e, o)
  BY <1>2 DEF AttributesAt
<1>4. \A x, n : x \in ItemRegion(e, p, t, n) <=>
        x \in Origins(e) /\ \E i \in DOMAIN s : i >= n /\ Under(Append(p, s[i].name), x.at)
  BY DEF ItemRegion
<1>5. \A x : x \in PlaceRegion(e, PlaceOf(o, s[k])) <=> x \in Origins(e) /\ Under(Append(p, s[k].name), x.at)
  BY DEF PlaceRegion, PlaceOf
<1> HIDE DEF s, p
<1>6. \A i \in DOMAIN s : i >= k <=> i = k \/ i >= k + 1
  BY <1>2 DEF s
<1>7. k \in DOMAIN s
  BY DEF s
<1>8. ASSUME NEW x \in Origins(e), NEW i \in DOMAIN s, i >= k + 1,
             Under(Append(p, s[i].name), x.at), Under(Append(p, s[k].name), x.at)
      PROVE  FALSE
  <2>1. s[i].name = s[k].name
    BY <1>1, <1>2, <1>7, <1>8, OriginPath, UnderApart
  <2>2. i = k
    BY <1>2, <1>7, <2>1
  <2>3. QED BY <1>2, <1>7, <1>8, <2>2
<1>9. PlaceRegion(e, PlaceOf(o, s[k])) \cap ItemRegion(e, p, t, k + 1) = {}
  BY <1>4, <1>5, <1>8
<1>10. ItemRegion(e, p, t, k) = PlaceRegion(e, PlaceOf(o, s[k])) \cup ItemRegion(e, p, t, k + 1)
  BY <1>4, <1>5, <1>6, <1>7
<1>11. QED BY <1>3, <1>9, <1>10 DEF s, p

(* After its last attribute an object has nothing left.                    *)
LEMMA ItemEnd ==
    ASSUME NEW e \in Events, NEW p, NEW t \in DOMAIN Schema, NEW k \in Nat, k > Len(Attributes(t))
    PROVE  ItemRegion(e, p, t, k) = {}
<1>1. DOMAIN Attributes(t) = 1 .. Len(Attributes(t)) /\ Len(Attributes(t)) \in Nat
  BY AttributeFacts
<1>2. QED BY <1>1 DEF ItemRegion

-----------------------------------------------------------------------------
(* All of a walk.                                                          *)
LEMMA WholeSplit ==
    ASSUME NEW e \in Events
    PROVE  /\ Origins(e) = {Begin, End} \cup ItemRegion(e, <<>>, Class, 1)
           /\ Begin \notin ItemRegion(e, <<>>, Class, 1)
           /\ End \notin ItemRegion(e, <<>>, Class, 1)
<1>1. Root(e) \in Entered(e) /\ TypeAt(e, Root(e)) = Class /\ Root(e).at = <<>>
  BY EnteredRoot DEF Root
<1>2. \A x : x \in ItemRegion(e, <<>>, Class, 1) <=>
               x \in Origins(e) /\ \E b \in AttributesAt(e, Root(e)) : Under(PlaceOf(Root(e), b), x.at)
  BY <1>1, ItemHas
<1>3. ASSUME NEW b \in AttributesAt(e, Root(e)) PROVE ~Under(PlaceOf(Root(e), b), <<>>)
  <2>1. Len(PlaceOf(Root(e), b)) = Len(Root(e).at) + 1 /\ Len(Root(e).at) \in Nat
    BY <1>1, PlaceBelow
  <2>2. QED BY <2>1, EmptyPath DEF Under
<1>4. Begin.at = <<>> /\ End.at = <<>>
  BY OriginDiffer
<1>5. ASSUME NEW x \in Origins(e), x # Begin, x # End PROVE x \in ItemRegion(e, <<>>, Class, 1)
  <2>1. Under(Root(e).at, x.at)
    BY <1>1, OriginPath, UnderAll
  <2>2. /\ x # Origin("attribute", Root(e).at) /\ x # Origin("value", Root(e).at)
        /\ x # Origin("leave", Root(e).at)
    <3>1. x.at # <<>>
      <4>1. \A o \in Entered(e) : \A a \in AttributesAt(e, o) : PlaceOf(o, a) # <<>>
        BY AttributeName
      <4>2. \A v \in Values(e) : v.at # <<>>
        BY ValueNode
      <4>3. \A o \in Entered(e) : o # Root(e) => o.at # <<>>
        BY EnteredNode
      <4>4. QED BY <1>5, <4>1, <4>2, <4>3, OriginCases, OriginDiffer
    <3>2. QED BY <1>1, <3>1, OriginDiffer
  <2>3. \E b \in AttributesAt(e, Root(e)) : Under(PlaceOf(Root(e), b), x.at)
    BY <1>5, <2>1, <2>2, Rooted
  <2>4. QED BY <1>2, <2>3
<1>6. QED BY <1>2, <1>3, <1>4, <1>5, Origined

(* A value, and what is in it.                                             *)
LEMMA LeafSplit ==
    ASSUME NEW e \in Events, NEW n \in Values(e), n \notin Entered(e)
    PROVE  ValueRegion(e, n.at) = {Origin("value", n.at)}
<1>1. n.at \in Path /\ n.at # <<>>
  BY ValueNode
<1>2. ASSUME NEW x \in ValueRegion(e, n.at) PROVE x = Origin("value", n.at)
  <2>1. x \in Origins(e) /\ Under(n.at, x.at) /\ x # Origin("attribute", n.at)
    BY DEF ValueRegion, PlaceRegion
  <2>2. x # Begin /\ x # End
    <3>1. ~Under(n.at, <<>>)
      BY <1>1, EmptyPath, UnderShorter
    <3>2. QED BY <2>1, <3>1, OriginDiffer
  <2>3. x # Origin("leave", n.at)
    <3> SUFFICES ASSUME x = Origin("leave", n.at) PROVE FALSE
      OBVIOUS
    <3>1. PICK o \in Entered(e) : o # Root(e) /\ x = Origin("leave", o.at)
      BY <2>1, OriginCases, OriginDiffer
    <3>2. o.at = n.at
      BY <3>1, OriginDiffer
    <3>3. o \in Values(e)
      BY <3>1, EnteredNode
    <3>4. QED BY <3>2, <3>3, ValueOnly
  <2>4. QED BY <2>1, <2>2, <2>3, Rooted
<1>3. Origin("value", n.at) \in ValueRegion(e, n.at)
  BY <1>1, Origined, OriginDiffer, UnderItself DEF ValueRegion, PlaceRegion
<1>4. QED BY <1>2, <1>3

(* An object that is entered: itself, its attributes, and its end.         *)
LEMMA EnteredSplit ==
    ASSUME NEW e \in Events, NEW n \in Values(e), n \in Entered(e)
    PROVE  /\ ValueRegion(e, n.at) = {Origin("value", n.at), Origin("leave", n.at)}
                                     \cup ItemRegion(e, n.at, TypeAt(e, n), 1)
           /\ Origin("value", n.at) \notin ItemRegion(e, n.at, TypeAt(e, n), 1)
           /\ Origin("leave", n.at) \notin ItemRegion(e, n.at, TypeAt(e, n), 1)
<1>1. n.at \in Path /\ n.at # <<>> /\ n # Root(e)
  BY ValueNode DEF Root
<1>2. \A x : x \in ItemRegion(e, n.at, TypeAt(e, n), 1) <=>
               x \in Origins(e) /\ \E b \in AttributesAt(e, n) : Under(PlaceOf(n, b), x.at)
  BY ItemHas
<1>3. ASSUME NEW b \in AttributesAt(e, n)
      PROVE  /\ ~Under(PlaceOf(n, b), n.at)
             /\ \A x \in Origins(e) : Under(PlaceOf(n, b), x.at) => Under(n.at, x.at) /\ x.at # n.at
  <2>1. PlaceOf(n, b) = Append(n.at, b.name) /\ b.name \in Element
    BY AttributeName DEF PlaceOf
  <2>2. \A q \in Path : Under(Append(n.at, b.name), q) => Under(n.at, q) /\ q # n.at
    BY <1>1, <2>1, UnderFurther
  <2>3. QED BY <1>1, <2>1, <2>2, OriginPath
<1>4. ASSUME NEW x \in ValueRegion(e, n.at), x # Origin("value", n.at), x # Origin("leave", n.at)
      PROVE  x \in ItemRegion(e, n.at, TypeAt(e, n), 1)
  <2>1. x \in Origins(e) /\ Under(n.at, x.at) /\ x # Origin("attribute", n.at)
    BY DEF ValueRegion, PlaceRegion
  <2>2. x # Begin /\ x # End
    <3>1. ~Under(n.at, <<>>)
      BY <1>1, EmptyPath, UnderShorter
    <3>2. QED BY <2>1, <3>1, OriginDiffer
  <2>3. \E b \in AttributesAt(e, n) : Under(PlaceOf(n, b), x.at)
    BY <1>4, <2>1, <2>2, Rooted
  <2>4. QED BY <1>2, <2>1, <2>3
<1>5. Origin("value", n.at) \in ValueRegion(e, n.at) /\ Origin("leave", n.at) \in ValueRegion(e, n.at)
  BY <1>1, Origined, OriginDiffer, UnderItself DEF ValueRegion, PlaceRegion
<1>6. ItemRegion(e, n.at, TypeAt(e, n), 1) \subseteq ValueRegion(e, n.at)
  BY <1>2, <1>3, OriginDiffer DEF ValueRegion, PlaceRegion
<1>7. QED BY <1>2, <1>3, <1>4, <1>5, <1>6, OriginDiffer

-----------------------------------------------------------------------------
(* An attribute, and its values.                                           *)
LEMMA PlaceSplit ==
    ASSUME NEW e \in Events, NEW o \in Entered(e), NEW a \in AttributesAt(e, o)
    PROVE  /\ \A x : x \in PlaceRegion(e, PlaceOf(o, a)) <=>
                       \/ x = Origin("attribute", PlaceOf(o, a))
                       \/ \E m : ValueOf(e, m, o, a) /\ x \in ValueRegion(e, m.at)
           /\ \A m : ValueOf(e, m, o, a) => Origin("attribute", PlaceOf(o, a)) \notin ValueRegion(e, m.at)
<1> DEFINE q == PlaceOf(o, a)
<1>1. q \in Path /\ q # <<>> /\ IsName(Last(q))
  BY AttributeName
<1>2. ASSUME NEW m, ValueOf(e, m, o, a)
      PROVE  Origin("attribute", q) \notin ValueRegion(e, m.at) /\ ValueRegion(e, m.at) \subseteq PlaceRegion(e, q)
  <2>1. Under(q, m.at) /\ m.at \in Path
    BY <1>2, ValueFrom
  <2>2. ASSUME Under(m.at, q) PROVE m.at = q
    <3>1. Len(m.at) = Len(q) /\ Len(q) \in Nat /\ \A i \in 1 .. Len(q) : m.at[i] = q[i]
      BY <1>1, <2>1, <2>2, LenProperties DEF Under, Path
    <3>2. QED BY <1>1, <2>1, <3>1, SeqEqual DEF Path
  <2>3. Origin("attribute", q) \notin ValueRegion(e, m.at)
    BY <2>2, OriginDiffer DEF ValueRegion, PlaceRegion
  <2>4. ASSUME NEW x \in ValueRegion(e, m.at) PROVE x \in PlaceRegion(e, q)
    BY <1>1, <2>1, OriginPath, UnderTrans DEF ValueRegion, PlaceRegion
  <2>5. QED BY <2>3, <2>4
<1>3. ASSUME NEW x \in PlaceRegion(e, q), x # Origin("attribute", q)
      PROVE  \E m : ValueOf(e, m, o, a) /\ x \in ValueRegion(e, m.at)
  <2>1. x \in Origins(e) /\ Under(q, x.at) /\ x.at \in Path
    BY OriginPath DEF PlaceRegion
  <2>2. CASE \E v \in Values(e) : x = Origin("value", v.at) \/ x = Origin("leave", v.at)
    <3>1. PICK v \in Values(e) : x = Origin("value", v.at) \/ x = Origin("leave", v.at)
      BY <2>2
    <3>2. x.at = v.at /\ \A p : x # Origin("attribute", p)
      BY <3>1, OriginDiffer
    <3>3. PICK m : ValueOf(e, m, o, a) /\ Under(m.at, v.at)
      BY <2>1, <3>2, Descend
    <3>4. QED BY <2>1, <3>2, <3>3 DEF ValueRegion, PlaceRegion
  <2>3. CASE \E u \in Entered(e) : \E b \in AttributesAt(e, u) : x = Origin("attribute", PlaceOf(u, b))
    <3>0. PICK u \in Entered(e) : \E b \in AttributesAt(e, u) : x = Origin("attribute", PlaceOf(u, b))
      BY <2>3
    <3>1. PICK b \in AttributesAt(e, u) : x = Origin("attribute", PlaceOf(u, b))
      BY <3>0
    <3>2. x.at = PlaceOf(u, b) /\ q # PlaceOf(u, b)
      BY <1>3, <3>1, OriginDiffer
    <3>3. Under(q, u.at)
      BY <1>1, <2>1, <3>2, PlaceAbove
    <3>4. u.at # <<>> /\ u.at \in Path
      BY <1>1, <3>3, EmptyPath, UnderShorter, EnteredNode
    <3>5. u \in Values(e)
      BY <3>4, EnteredNode
    <3>6. PICK m : ValueOf(e, m, o, a) /\ Under(m.at, u.at)
      BY <3>3, <3>5, Descend
    <3>7. m.at \in Path
      BY <3>6, ValueFrom
    <3>8. Under(u.at, x.at) /\ Len(x.at) = Len(u.at) + 1 /\ Len(u.at) \in Nat
      BY <3>2, PlaceBelow
    <3>9. Under(m.at, x.at)
      BY <2>1, <3>4, <3>6, <3>7, <3>8, UnderTrans
    <3>10. m.at # x.at
      BY <3>6, <3>8 DEF Under
    <3>11. QED BY <2>1, <3>6, <3>9, <3>10, OriginDiffer DEF ValueRegion, PlaceRegion
  <2>4. CASE \E u \in Entered(e) : u # Root(e) /\ x = Origin("leave", u.at)
    BY <2>2, <2>4, EnteredNode
  <2>5. CASE x = Begin \/ x = End
    <3>1. x.at = <<>>
      BY <2>5, OriginDiffer
    <3>2. QED BY <1>1, <2>1, <3>1, EmptyPath, UnderShorter
  <2>6. QED BY <2>1, <2>2, <2>3, <2>4, <2>5, OriginCases
<1>4. Origin("attribute", q) \in PlaceRegion(e, q)
  BY <1>1, Origined, OriginDiffer, UnderItself DEF PlaceRegion
<1>5. QED BY <1>2, <1>3, <1>4

-----------------------------------------------------------------------------
(* No attribute is at an index.                                            *)
LEMMA NoAttributeAtIndex ==
    ASSUME NEW e \in Events, NEW p \in Path, NEW x \in Element, ~IsName(x)
    PROVE  Origin("attribute", Append(p, x)) \notin Origins(e)
<1> SUFFICES ASSUME Origin("attribute", Append(p, x)) \in Origins(e) PROVE FALSE
  OBVIOUS
<1>1. PICK o \in Entered(e) : \E a \in AttributesAt(e, o) :
        Origin("attribute", Append(p, x)) = Origin("attribute", PlaceOf(o, a))
  BY OriginCases, OriginDiffer
<1>0. PICK a \in AttributesAt(e, o) : Origin("attribute", Append(p, x)) = Origin("attribute", PlaceOf(o, a))
  BY <1>1
<1>2. Append(p, x) = PlaceOf(o, a)
  BY <1>0 DEF Origin
<1>3. a.name \in Element /\ IsName(a.name) /\ o.at \in Path
  BY AttributeName, EnteredNode
<1>4. x = a.name
  BY <1>2, <1>3, SameLonger DEF PlaceOf
<1>5. QED BY <1>3, <1>4

(* The elements of an array, from one on.                                  *)
LEMMA ArraySplit ==
    ASSUME NEW e \in Events, NEW q \in Path, NEW v, NEW n \in 0 .. Len(Index), DOMAIN v.of = 1 .. n,
           NEW i \in DOMAIN v.of
    PROVE  /\ ArrayRegion(e, q, v, i) = ValueRegion(e, Append(q, Index[i])) \cup ArrayRegion(e, q, v, i + 1)
           /\ ValueRegion(e, Append(q, Index[i])) \cap ArrayRegion(e, q, v, i + 1) = {}
<1> DEFINE D == DOMAIN v.of
<1>1. /\ D = 1 .. n /\ i \in D /\ i \in Nat
      /\ \A k \in D : k \in Nat /\ Index[k] \in Element /\ ~IsName(Index[k])
      /\ \A k \in D : Index[k] = Index[i] => k = i
  BY Indexes
<1>2. \A x, m : x \in ArrayRegion(e, q, v, m) <=>
        x \in Origins(e) /\ \E k \in D : k >= m /\ Under(Append(q, Index[k]), x.at)
  BY DEF ArrayRegion
<1> HIDE DEF D
<1>3. Origin("attribute", Append(q, Index[i])) \notin Origins(e)
  BY <1>1, NoAttributeAtIndex
<1>4. \A x : x \in ValueRegion(e, Append(q, Index[i])) <=>
               x \in Origins(e) /\ Under(Append(q, Index[i]), x.at)
  BY <1>3 DEF ValueRegion, PlaceRegion
<1>5. \A k \in D : k >= i <=> k = i \/ k >= i + 1
  BY <1>1
<1>6. ASSUME NEW x \in Origins(e), NEW k \in D, k >= i + 1,
             Under(Append(q, Index[k]), x.at), Under(Append(q, Index[i]), x.at)
      PROVE  FALSE
  <2>1. Index[k] = Index[i]
    BY <1>1, <1>6, OriginPath, UnderApart
  <2>2. k = i
    BY <1>1, <2>1
  <2>3. QED BY <1>1, <1>6, <2>2
<1>7. ValueRegion(e, Append(q, Index[i])) \cap ArrayRegion(e, q, v, i + 1) = {}
  BY <1>2, <1>4, <1>6
<1>8. ArrayRegion(e, q, v, i) = ValueRegion(e, Append(q, Index[i])) \cup ArrayRegion(e, q, v, i + 1)
  BY <1>1, <1>2, <1>4, <1>5
<1>9. QED BY <1>7, <1>8

(* After its last element an array has nothing left.                       *)
LEMMA ArrayEnd ==
    ASSUME NEW e \in Events, NEW q, NEW v, NEW n \in Nat, DOMAIN v.of = 1 .. n,
           NEW k \in Nat \ {0}, k \notin DOMAIN v.of
    PROVE  ArrayRegion(e, q, v, k) = {}
BY DEF ArrayRegion

-----------------------------------------------------------------------------
(* What is at an attribute: nothing else, one value, the elements.         *)
LEMMA PlaceAlone ==
    ASSUME NEW e \in Events, NEW o \in Entered(e), NEW a \in AttributesAt(e, o),
           \A m : ~ValueOf(e, m, o, a)
    PROVE  PlaceRegion(e, PlaceOf(o, a)) = {Origin("attribute", PlaceOf(o, a))}
BY PlaceSplit

(* Attributes without a value to look into.                                *)
LEMMA NoValueOf ==
    ASSUME NEW e \in Events, NEW o, NEW a,
           \/ ~Active(e.profiles, a)
           \/ ~Present(At(o.value, a.name))
           \/ a.array /\ At(o.value, a.name).k # "array"
    PROVE  \A m : ~ValueOf(e, m, o, a)
BY DEF ValueOf, Single, OfArray, Gives, Present

(* An attribute that is no array: itself and its value.                    *)
LEMMA PlaceSingle ==
    ASSUME NEW e \in Events, NEW o, NEW a, Gives(e, o, a), ~a.array, Present(At(o.value, a.name))
    PROVE  /\ PlaceRegion(e, PlaceOf(o, a)) = {Origin("attribute", PlaceOf(o, a))}
                                              \cup ValueRegion(e, PlaceOf(o, a))
           /\ Origin("attribute", PlaceOf(o, a)) \notin ValueRegion(e, PlaceOf(o, a))
           /\ ValueOf(e, Node(PlaceOf(o, a), At(o.value, a.name)), o, a)
<1>1. o \in Entered(e) /\ a \in AttributesAt(e, o)
  BY DEF Gives
<1>2. Origin("attribute", PlaceOf(o, a)) \in PlaceRegion(e, PlaceOf(o, a))
  BY <1>1, PlaceSplit
<1>3. ValueOf(e, Node(PlaceOf(o, a), At(o.value, a.name)), o, a)
  BY DEF ValueOf, Single
<1>4. QED BY <1>2, <1>3 DEF ValueRegion

(* An attribute that is an array: itself and its elements.                 *)
LEMMA PlaceArray ==
    ASSUME NEW e \in Events, NEW o, NEW a, Gives(e, o, a), a.array, At(o.value, a.name).k = "array"
    PROVE  /\ PlaceRegion(e, PlaceOf(o, a)) = {Origin("attribute", PlaceOf(o, a))}
                                              \cup ArrayRegion(e, PlaceOf(o, a), At(o.value, a.name), 1)
           /\ Origin("attribute", PlaceOf(o, a)) \notin ArrayRegion(e, PlaceOf(o, a), At(o.value, a.name), 1)
<1> DEFINE q == PlaceOf(o, a)
           v == At(o.value, a.name)
           R == ArrayRegion(e, q, v, 1)
<1>1. o \in Entered(e) /\ a \in AttributesAt(e, o) /\ Present(v)
  BY DEF Gives, Present
<1>2. \A m : ValueOf(e, m, o, a) <=> \E i \in DOMAIN v.of : m = ElementAt(o, a, i)
  BY DEF ValueOf, Single, OfArray
<1>3. \A i \in DOMAIN v.of : /\ i \in 1 .. Len(Index) /\ Index[i] \in Element /\ ~IsName(Index[i])
                             /\ ElementAt(o, a, i).at = Append(q, Index[i])
  BY <1>1, ElementFacts
<1>4. q \in Path
  BY <1>1, AttributeName
<1>5. \A x : x \in R <=> x \in Origins(e) /\ \E i \in DOMAIN v.of : i >= 1 /\ Under(Append(q, Index[i]), x.at)
  BY DEF ArrayRegion
<1>6. \A i \in DOMAIN v.of : i >= 1
  BY <1>3, Indexes
<1>7. ASSUME NEW i \in DOMAIN v.of, NEW x
      PROVE  x \in ValueRegion(e, ElementAt(o, a, i).at) <=> x \in Origins(e) /\ Under(Append(q, Index[i]), x.at)
  <2>1. Origin("attribute", Append(q, Index[i])) \notin Origins(e)
    BY <1>3, <1>4, NoAttributeAtIndex
  <2>2. QED BY <1>3, <2>1 DEF ValueRegion, PlaceRegion
<1> HIDE DEF v, R
<1>8. \A x : x \in R <=> \E m : ValueOf(e, m, o, a) /\ x \in ValueRegion(e, m.at)
  BY <1>2, <1>5, <1>6, <1>7
<1>9. /\ \A x : x \in PlaceRegion(e, q) <=> x = Origin("attribute", q) \/ x \in R
      /\ Origin("attribute", q) \notin R
  BY <1>1, <1>8, PlaceSplit
<1>10. PlaceRegion(e, q) = {Origin("attribute", q)} \cup R /\ Origin("attribute", q) \notin R
  BY <1>9
<1>11. QED BY <1>10 DEF v, R

-----------------------------------------------------------------------------
(* Findings tell their code and their path.                                *)
LEMMA FindingDiffer ==
    /\ \A c, p : Finding(c, p).code = c /\ Finding(c, p).path = p
    /\ \A c, d, p, q : Finding(c, p) = Finding(d, q) <=> c = d /\ p = q
BY DEF Finding

(* Ends of objects tell their path.                                        *)
LEMMA LeaveDiffer ==
    ASSUME NEW p, NEW q
    PROVE  /\ LeaveOf(p) = LeaveOf(q) => p = q
           /\ LeaveOf(p).at = p /\ LeaveOf(p).kind \in {"end", "leave"}
           /\ LeaveOf(<<>>) = End /\ (p # <<>> => LeaveOf(p) = Origin("leave", p))
BY DEF LeaveOf, Origin, End

(* Findings are raised at origins.                                         *)
LEMMA RaisedPlace ==
    ASSUME NEW e \in Events, NEW x, NEW f, RaisedAt(e, x, f)
    PROVE  x \in Origins(e)
<1>1. CASE \E o \in Entered(e) : x = LeaveOf(o.at) /\ f \in ObjectWrong(e, o)
  <2>1. PICK o \in Entered(e) : x = LeaveOf(o.at)
    BY <1>1
  <2>2. CASE o = Root(e)
    BY <2>1, <2>2, LeaveDiffer, Origined DEF Root
  <2>3. CASE o # Root(e)
    BY <2>1, <2>3, LeaveDiffer, Origined, EnteredNode
  <2>4. QED BY <2>2, <2>3
<1>2. CASE x = Begin \/ x = End
  BY <1>2, Origined
<1>3. CASE \E o \in Entered(e) : \E a \in AttributesAt(e, o) : x = Origin("attribute", PlaceOf(o, a))
  BY <1>3, Origined
<1>4. CASE \E v \in Values(e) : x = Origin("value", v.at)
  BY <1>4, Origined
<1>5. QED BY <1>1, <1>2, <1>3, <1>4 DEF RaisedAt

(* What is wrong is what is raised at some origin.                         *)
LEMMA WrongCases ==
    ASSUME NEW e \in Events, NEW f
    PROVE  f \in Wrong(e) <=> \E x \in Origins(e) : RaisedAt(e, x, f)
<1>1. f \in Wrong(e) <=>
        \/ f = Finding("ClassDeprecated", <<>>) /\ Schema[Class].deprecated
        \/ f \in ToSet(TypeUIDWrong(e))
        \/ \E v \in Values(e) : \E code \in ValueFaults(e, v) : f = Finding(code, v.at)
        \/ \E o \in Entered(e) : f \in ObjectWrong(e, o)
        \/ \E o \in Entered(e) : \E a \in AttributesAt(e, o) : \E code \in AttributeFaults(e, o, a) :
             f = Finding(code, PlaceOf(o, a))
  BY DEF Wrong, PlaceOf
<1>2. ASSUME NEW v \in Values(e), NEW code \in ValueFaults(e, v), f = Finding(code, v.at)
      PROVE  RaisedAt(e, Origin("value", v.at), f)
  BY <1>2 DEF RaisedAt
<1>3. ASSUME NEW o \in Entered(e), f \in ObjectWrong(e, o)
      PROVE  RaisedAt(e, LeaveOf(o.at), f)
  BY <1>3 DEF RaisedAt
<1>4. ASSUME NEW o \in Entered(e), NEW a \in AttributesAt(e, o), NEW code \in AttributeFaults(e, o, a),
             f = Finding(code, PlaceOf(o, a))
      PROVE  RaisedAt(e, Origin("attribute", PlaceOf(o, a)), f)
  BY <1>4 DEF RaisedAt
<1>5. /\ f = Finding("ClassDeprecated", <<>>) /\ Schema[Class].deprecated => RaisedAt(e, Begin, f)
      /\ f \in ToSet(TypeUIDWrong(e)) => RaisedAt(e, End, f)
  BY DEF RaisedAt
<1>6. f \in Wrong(e) => \E x : RaisedAt(e, x, f)
  BY <1>1, <1>2, <1>3, <1>4, <1>5
<1>7. ASSUME NEW x, RaisedAt(e, x, f) PROVE f \in Wrong(e)
  BY <1>1, <1>7 DEF RaisedAt
<1>8. QED BY <1>6, <1>7, RaisedPlace

(* By its code and its path a finding has one origin.                      *)
TypeUIDCodes == {"TypeUIDIncorrect", "TypeUIDExpectedValueOverflow"}
LeaveCodes == {"ConstraintFailed", "AttributeUnknown"}
ValueCodes == {"AttributeWrongType", "SchemaBugObjectMissing", "ObjectDeprecated"}
AttributeCodes == {"AttributeRequiresProfile", "AttributeDeprecated", "AttributeWrongType",
                   "AttributeRequiredMissing", "AttributeRecommendedMissing"}

(* The codes of the type_uid's findings.                                   *)
LEMMA TypeUIDCoded ==
    ASSUME NEW e, NEW f \in ToSet(TypeUIDWrong(e))
    PROVE  f.code \in TypeUIDCodes /\ f.path = <<"type_uid">> /\ f = Finding(f.code, f.path)
BY DEF TypeUIDWrong, ToSet, When, Finding, TypeUIDCodes

(* The findings of an object as a whole.                                   *)
LEMMA ObjectCoded ==
    ASSUME NEW e, NEW o, NEW f
    PROVE  f \in ObjectWrong(e, o) <=>
             \/ f = Finding("ConstraintFailed", o.at) /\ ConstraintFails(TypeAt(e, o), o.value)
             \/ /\ TypeAt(e, o) # AnyObject
                /\ \E name \in UnknownNames(TypeAt(e, o), o.value) :
                     f = Finding("AttributeUnknown", Append(o.at, name))
BY DEF ObjectWrong

(* The codes of an attribute's findings.                                   *)
LEMMA AttributeCoded ==
    ASSUME NEW e, NEW o, NEW a, NEW code \in AttributeFaults(e, o, a)
    PROVE  /\ code \in AttributeCodes
           /\ code = "AttributeWrongType" =>
                a.array /\ At(o.value, a.name).k # "array" /\ Present(At(o.value, a.name))
BY DEF AttributeFaults, AttributeCodes

(* The codes of a value's findings.                                        *)
LEMMA ValueCoded ==
    ASSUME NEW e, NEW v, NEW code \in ValueFaults(e, v)
    PROVE  code \in ValueCodes
BY DEF ValueFaults, ValueCodes

(* Unknown names are names, finitely many.                                 *)
LEMMA UnknownPlace ==
    ASSUME NEW e \in Events, NEW o \in Entered(e), NEW t, NEW name \in UnknownNames(t, o.value)
    PROVE  name \in Element /\ IsName(name) /\ IsFiniteSet(UnknownNames(t, o.value))
<1>1. /\ IsFiniteSet(DOMAIN o.value.at)
      /\ \A x \in DOMAIN o.value.at : x \in Element /\ IsName(x)
  BY EnteredNode, Formed
<1>2. UnknownNames(t, o.value) \subseteq DOMAIN o.value.at
  BY DEF UnknownNames
<1>3. QED BY <1>1, <1>2, FS_Subset

-----------------------------------------------------------------------------
(* Where a value is, its attribute is not the wrong type for an array.     *)
LEMMA WrongTypeApart ==
    ASSUME NEW e \in Events, NEW o \in Entered(e), NEW a \in AttributesAt(e, o),
           a.array, At(o.value, a.name).k # "array", NEW v \in Values(e), v.at = PlaceOf(o, a)
    PROVE  FALSE
<1>1. PICK u, b : ValueOf(e, v, u, b)
  BY ValueHas
<1>2. u \in Entered(e) /\ b \in AttributesAt(e, u) /\ Owner(v.at) = PlaceOf(u, b)
      /\ (v.at = PlaceOf(u, b) <=> ~b.array)
  BY <1>1, ValueFrom
<1>3. Owner(v.at) = v.at
  BY AttributeName DEF Owner
<1>4. o = u /\ a = b
  BY <1>2, <1>3, PlaceOnly
<1>5. QED BY <1>2, <1>3, <1>4

(* Where findings are raised, by their code and path.                      *)
LEMMA RaisedCases ==
    ASSUME NEW e \in Events, NEW x, NEW f, RaisedAt(e, x, f)
    PROVE  \/ x = Begin /\ f = Finding("ClassDeprecated", <<>>)
           \/ x = End /\ f.code \in TypeUIDCodes
           \/ \E o \in Entered(e) : \E a \in AttributesAt(e, o) :
                /\ x = Origin("attribute", PlaceOf(o, a)) /\ f.code \in AttributeCodes /\ f.path = PlaceOf(o, a)
                /\ f.code = "AttributeWrongType" => a.array /\ At(o.value, a.name).k # "array"
           \/ \E v \in Values(e) : x = Origin("value", v.at) /\ f.code \in ValueCodes /\ f.path = v.at
           \/ \E o \in Entered(e) : /\ x = LeaveOf(o.at)
                                    /\ \/ f.code = "ConstraintFailed" /\ f.path = o.at
                                       \/ /\ f.code = "AttributeUnknown"
                                          /\ \E name \in Element : f.path = Append(o.at, name)
<1>1. CASE x = Begin /\ f = Finding("ClassDeprecated", <<>>)
  BY <1>1
<1>2. CASE x = End /\ f \in ToSet(TypeUIDWrong(e))
  BY <1>2, TypeUIDCoded
<1>3. CASE \E o \in Entered(e) : \E a \in AttributesAt(e, o) : \E code \in AttributeFaults(e, o, a) :
             x = Origin("attribute", PlaceOf(o, a)) /\ f = Finding(code, PlaceOf(o, a))
  <2>1. PICK o \in Entered(e) : \E a \in AttributesAt(e, o) : \E code \in AttributeFaults(e, o, a) :
             x = Origin("attribute", PlaceOf(o, a)) /\ f = Finding(code, PlaceOf(o, a))
    BY <1>3
  <2>2. PICK a \in AttributesAt(e, o) : \E code \in AttributeFaults(e, o, a) :
             x = Origin("attribute", PlaceOf(o, a)) /\ f = Finding(code, PlaceOf(o, a))
    BY <2>1
  <2>3. PICK code \in AttributeFaults(e, o, a) :
             x = Origin("attribute", PlaceOf(o, a)) /\ f = Finding(code, PlaceOf(o, a))
    BY <2>2
  <2>4. f.code = code /\ f.path = PlaceOf(o, a)
    BY <2>3 DEF Finding
  <2>5. QED BY <2>3, <2>4, AttributeCoded
<1>4. CASE \E v \in Values(e) : \E code \in ValueFaults(e, v) :
             x = Origin("value", v.at) /\ f = Finding(code, v.at)
  <2>1. PICK v \in Values(e) : \E code \in ValueFaults(e, v) :
             x = Origin("value", v.at) /\ f = Finding(code, v.at)
    BY <1>4
  <2>2. PICK code \in ValueFaults(e, v) : x = Origin("value", v.at) /\ f = Finding(code, v.at)
    BY <2>1
  <2>3. f.code = code /\ f.path = v.at
    BY <2>2 DEF Finding
  <2>4. QED BY <2>2, <2>3, ValueCoded
<1>5. CASE \E o \in Entered(e) : x = LeaveOf(o.at) /\ f \in ObjectWrong(e, o)
  <2>1. PICK o \in Entered(e) : x = LeaveOf(o.at) /\ f \in ObjectWrong(e, o)
    BY <1>5
  <2>2. CASE f = Finding("ConstraintFailed", o.at)
    BY <2>1, <2>2 DEF Finding
  <2>3. CASE \E name \in UnknownNames(TypeAt(e, o), o.value) : f = Finding("AttributeUnknown", Append(o.at, name))
    <3>1. PICK name \in UnknownNames(TypeAt(e, o), o.value) : f = Finding("AttributeUnknown", Append(o.at, name))
      BY <2>3
    <3>2. name \in Element
      BY UnknownPlace
    <3>3. f.code = "AttributeUnknown" /\ f.path = Append(o.at, name)
      BY <3>1 DEF Finding
    <3>4. QED BY <2>1, <3>2, <3>3
  <2>4. QED BY <2>1, <2>2, <2>3, ObjectCoded
<1>6. QED BY <1>1, <1>2, <1>3, <1>4, <1>5 DEF RaisedAt

(* A finding is raised at one origin.                                      *)
LEMMA RaisedOnce ==
    ASSUME NEW e \in Events, NEW x, NEW y, NEW f, RaisedAt(e, x, f), RaisedAt(e, y, f)
    PROVE  x = y
<1> DEFINE AtBegin(z) == z = Begin /\ f = Finding("ClassDeprecated", <<>>)
           AtEnd(z) == z = End /\ f.code \in TypeUIDCodes
           AtAttribute(z) == \E o \in Entered(e) : \E a \in AttributesAt(e, o) :
                /\ z = Origin("attribute", PlaceOf(o, a)) /\ f.code \in AttributeCodes /\ f.path = PlaceOf(o, a)
                /\ f.code = "AttributeWrongType" => a.array /\ At(o.value, a.name).k # "array"
           AtValue(z) == \E v \in Values(e) : z = Origin("value", v.at) /\ f.code \in ValueCodes /\ f.path = v.at
           AtLeave(z) == \E o \in Entered(e) : /\ z = LeaveOf(o.at)
                                    /\ \/ f.code = "ConstraintFailed" /\ f.path = o.at
                                       \/ /\ f.code = "AttributeUnknown"
                                          /\ \E name \in Element : f.path = Append(o.at, name)
<1>1. AtBegin(x) \/ AtEnd(x) \/ AtAttribute(x) \/ AtValue(x) \/ AtLeave(x)
  BY RaisedCases
<1>2. AtBegin(y) \/ AtEnd(y) \/ AtAttribute(y) \/ AtValue(y) \/ AtLeave(y)
  BY RaisedCases
<1>3. /\ \A z : AtBegin(z) => z = Begin /\ f.code = "ClassDeprecated"
      /\ \A z : AtEnd(z) => z = End /\ f.code \in TypeUIDCodes
      /\ \A z : AtAttribute(z) => z = Origin("attribute", f.path) /\ f.code \in AttributeCodes
      /\ \A z : AtValue(z) => z = Origin("value", f.path) /\ f.code \in ValueCodes
      /\ \A z : AtLeave(z) => f.code \in LeaveCodes
  BY DEF Finding, LeaveCodes
<1>4. ASSUME AtLeave(x), AtLeave(y) PROVE x = y
  <2>1. PICK o \in Entered(e) : /\ x = LeaveOf(o.at)
                                /\ \/ f.code = "ConstraintFailed" /\ f.path = o.at
                                   \/ /\ f.code = "AttributeUnknown"
                                      /\ \E name \in Element : f.path = Append(o.at, name)
    BY <1>4
  <2>2. PICK u \in Entered(e) : /\ y = LeaveOf(u.at)
                                /\ \/ f.code = "ConstraintFailed" /\ f.path = u.at
                                   \/ /\ f.code = "AttributeUnknown"
                                      /\ \E name \in Element : f.path = Append(u.at, name)
    BY <1>4
  <2>3. o.at \in Path /\ u.at \in Path
    BY EnteredNode
  <2>4. o.at = u.at
    BY <2>1, <2>2, <2>3, SameLonger
  <2>5. QED BY <2>1, <2>2, <2>4
<1>5. ASSUME NEW z, NEW w, AtAttribute(z), AtValue(w) PROVE FALSE
  <2>1. f.code = "AttributeWrongType"
    BY <1>3, <1>5 DEF AttributeCodes, ValueCodes
  <2>2. PICK o \in Entered(e) : \E a \in AttributesAt(e, o) :
          f.path = PlaceOf(o, a) /\ a.array /\ At(o.value, a.name).k # "array"
    BY <1>5, <2>1
  <2>3. PICK a \in AttributesAt(e, o) : f.path = PlaceOf(o, a) /\ a.array /\ At(o.value, a.name).k # "array"
    BY <2>2
  <2>4. PICK v \in Values(e) : f.path = v.at
    BY <1>5
  <2>5. QED BY <2>3, <2>4, WrongTypeApart
<1> HIDE DEF AtBegin, AtEnd, AtAttribute, AtValue, AtLeave
<1>6. QED
  BY <1>1, <1>2, <1>3, <1>4, <1>5 DEF TypeUIDCodes, LeaveCodes, AttributeCodes, ValueCodes

-----------------------------------------------------------------------------
(* What is found at a place.                                               *)
LEMMA FoundAt ==
    ASSUME NEW e \in Events, NEW x \in Origins(e)
    PROVE  \A f : f \in FoundIn(e, {x}) <=> RaisedAt(e, x, f)
BY WrongCases DEF FoundIn

(* One more origin adds its findings, and none twice.                      *)
LEMMA FoundWith ==
    ASSUME NEW e \in Events, NEW past, NEW x, x \notin past
    PROVE  /\ FoundIn(e, past \cup {x}) = FoundIn(e, past) \cup FoundIn(e, {x})
           /\ FoundIn(e, past) \cap FoundIn(e, {x}) = {}
BY RaisedOnce DEF FoundIn

(* All origins have raised all that is wrong.                              *)
LEMMA FoundAll ==
    ASSUME NEW e \in Events
    PROVE  FoundIn(e, Origins(e)) = Wrong(e) /\ FoundIn(e, {}) = {}
BY WrongCases DEF FoundIn

(* The end of an object is no other origin.                                *)
LEMMA LeaveNot ==
    ASSUME NEW p
    PROVE  /\ LeaveOf(p) # Begin
           /\ \A q : LeaveOf(p) # Origin("attribute", q) /\ LeaveOf(p) # Origin("value", q)
BY DEF LeaveOf, Begin, End, Origin

(* What is raised when the class is resolved.                              *)
LEMMA RaisedBegin ==
    ASSUME NEW e \in Events, NEW f
    PROVE  RaisedAt(e, Begin, f) <=> f = Finding("ClassDeprecated", <<>>) /\ Schema[Class].deprecated
<1>1. /\ Begin # End /\ \A p : Begin # Origin("attribute", p) /\ Begin # Origin("value", p) /\ Begin # LeaveOf(p)
  BY OriginDiffer, LeaveNot
<1>2. QED BY <1>1 DEF RaisedAt

(* What is raised at an attribute.                                         *)
LEMMA RaisedAttribute ==
    ASSUME NEW e \in Events, NEW o \in Entered(e), NEW a \in AttributesAt(e, o), NEW f
    PROVE  RaisedAt(e, Origin("attribute", PlaceOf(o, a)), f) <=>
             \E code \in AttributeFaults(e, o, a) : f = Finding(code, PlaceOf(o, a))
<1> DEFINE x == Origin("attribute", PlaceOf(o, a))
<1>1. x # Begin /\ x # End /\ \A p : x # Origin("value", p) /\ x # LeaveOf(p)
  BY OriginDiffer, LeaveNot
<1>2. \A u \in Entered(e) : \A b \in AttributesAt(e, u) :
        x = Origin("attribute", PlaceOf(u, b)) => u = o /\ b = a
  BY OriginDiffer, PlaceOnly
<1> HIDE DEF x
<1>3. RaisedAt(e, x, f) <=>
        \E u \in Entered(e) : \E b \in AttributesAt(e, u) : \E code \in AttributeFaults(e, u, b) :
          x = Origin("attribute", PlaceOf(u, b)) /\ f = Finding(code, PlaceOf(u, b))
  BY <1>1 DEF RaisedAt
<1>4. QED BY <1>2, <1>3 DEF x

(* What is raised at a value.                                              *)
LEMMA RaisedValue ==
    ASSUME NEW e \in Events, NEW v \in Values(e), NEW f
    PROVE  RaisedAt(e, Origin("value", v.at), f) <=> \E code \in ValueFaults(e, v) : f = Finding(code, v.at)
<1> DEFINE x == Origin("value", v.at)
<1>1. x # Begin /\ x # End /\ \A p : x # Origin("attribute", p) /\ x # LeaveOf(p)
  BY OriginDiffer, LeaveNot
<1>2. \A u \in Values(e) : x = Origin("value", u.at) => u = v
  BY OriginDiffer, ValueOnly
<1> HIDE DEF x
<1>3. RaisedAt(e, x, f) <=>
        \E u \in Values(e) : \E code \in ValueFaults(e, u) : x = Origin("value", u.at) /\ f = Finding(code, u.at)
  BY <1>1 DEF RaisedAt
<1>4. QED BY <1>2, <1>3 DEF x

(* What is raised at the end of an object.                                 *)
LEMMA RaisedLeave ==
    ASSUME NEW e \in Events, NEW o \in Entered(e), NEW f
    PROVE  RaisedAt(e, LeaveOf(o.at), f) <=>
             f \in ObjectWrong(e, o) \/ (o = Root(e) /\ f \in ToSet(TypeUIDWrong(e)))
<1> DEFINE x == LeaveOf(o.at)
<1>1. x # Begin /\ \A p : x # Origin("attribute", p) /\ x # Origin("value", p)
  BY LeaveNot
<1>2. \A u \in Entered(e) : x = LeaveOf(u.at) => u = o
  BY LeaveDiffer, EnteredOnly
<1>3. x = End <=> o = Root(e)
  <2>1. o.at = <<>> => x = End
    BY LeaveDiffer
  <2>2. o.at # <<>> => x = Origin("leave", o.at)
    BY LeaveDiffer
  <2>3. QED BY <2>1, <2>2, OriginDiffer, EnteredNode
<1> HIDE DEF x
<1>4. RaisedAt(e, x, f) <=>
        \/ x = End /\ f \in ToSet(TypeUIDWrong(e))
        \/ \E u \in Entered(e) : x = LeaveOf(u.at) /\ f \in ObjectWrong(e, u)
  BY <1>1 DEF RaisedAt
<1>5. QED BY <1>2, <1>3, <1>4 DEF x

-----------------------------------------------------------------------------
(* Length, domain and elements of a sequence.                              *)
LEMMA SequenceFacts ==
    ASSUME NEW S, NEW s \in Seq(S)
    PROVE  /\ Sequence(s) /\ ToSet(s) \subseteq S /\ Len(s) \in Nat /\ DOMAIN s = 1 .. Len(s)
           /\ \A i \in 1 .. Len(s) : s[i] \in ToSet(s)
           /\ \A x \in ToSet(s) : \E i \in 1 .. Len(s) : x = s[i]
           /\ s = <<>> <=> Len(s) = 0
<1>1. s \in [1 .. Len(s) -> S] /\ Len(s) \in Nat /\ DOMAIN s = 1 .. Len(s)
  BY LenProperties
<1>2. ToSet(s) = {s[i] : i \in 1 .. Len(s)}
  BY <1>1 DEF ToSet
<1>3. s \in [1 .. Len(s) -> ToSet(s)]
  BY <1>1, <1>2
<1>4. s \in Seq(ToSet(s))
  BY <1>1, <1>3, SeqDef
<1>5. s = <<>> <=> Len(s) = 0
  BY EmptySeq
<1>6. QED BY <1>1, <1>2, <1>4, <1>5 DEF Sequence

(* Length, domain and elements of two in a row.                            *)
LEMMA SequenceJoin ==
    ASSUME NEW s, NEW t, Sequence(s), Sequence(t)
    PROVE  /\ Sequence(s \o t) /\ ToSet(s \o t) = ToSet(s) \cup ToSet(t)
           /\ Len(s \o t) = Len(s) + Len(t) /\ Len(s) \in Nat /\ Len(t) \in Nat
           /\ DOMAIN (s \o t) = 1 .. Len(s) + Len(t)
           /\ \A i \in 1 .. Len(s) : (s \o t)[i] = s[i]
           /\ \A i \in 1 .. Len(t) : (s \o t)[Len(s) + i] = t[i]
<1> DEFINE S == ToSet(s) \cup ToSet(t)
           r == s \o t
<1>1. s \in Seq(S) /\ t \in Seq(S)
  BY SeqMonotonic DEF Sequence
<1>2. Len(s) \in Nat /\ Len(t) \in Nat /\ DOMAIN s = 1 .. Len(s) /\ DOMAIN t = 1 .. Len(t)
  BY <1>1, LenProperties
<1>3. /\ r \in Seq(S) /\ Len(r) = Len(s) + Len(t)
      /\ \A i \in 1 .. Len(s) + Len(t) : r[i] = IF i <= Len(s) THEN s[i] ELSE t[i - Len(s)]
  BY <1>1, ConcatProperties
<1> HIDE DEF r, S
<1>4. DOMAIN r = 1 .. Len(s) + Len(t) /\ Sequence(r)
  BY <1>3, SequenceFacts
<1>5. \A i \in 1 .. Len(s) : r[i] = s[i]
  BY <1>2, <1>3
<1>6. \A i \in 1 .. Len(t) : r[Len(s) + i] = t[i]
  <2> TAKE i \in 1 .. Len(t)
  <2>1. Len(s) + i \in 1 .. Len(s) + Len(t) /\ ~(Len(s) + i <= Len(s)) /\ Len(s) + i - Len(s) = i
    BY <1>2
  <2>2. QED BY <1>3, <2>1
<1>7. ToSet(r) \subseteq ToSet(s) \cup ToSet(t)
  BY <1>3, SequenceFacts DEF S
<1>8. ToSet(s) \cup ToSet(t) \subseteq ToSet(r)
  <2>1. ASSUME NEW i \in 1 .. Len(s) PROVE s[i] \in ToSet(r)
    BY <1>2, <1>4, <1>5 DEF ToSet
  <2>2. ASSUME NEW i \in 1 .. Len(t) PROVE t[i] \in ToSet(r)
    <3>1. Len(s) + i \in DOMAIN r
      BY <1>2, <1>4
    <3>2. QED BY <1>6, <3>1 DEF ToSet
  <2>3. QED BY <1>2, <2>1, <2>2 DEF ToSet
<1>9. QED BY <1>2, <1>3, <1>4, <1>5, <1>6, <1>7, <1>8 DEF r

(* As many elements of an injective sequence as there are indexes.         *)
LEMMA CountIndexes ==
    ASSUME NEW s, Sequence(s), IsInjective(s), NEW T, T \subseteq ToSet(s)
    PROVE  /\ IsFiniteSet({i \in DOMAIN s : s[i] \in T}) /\ IsFiniteSet(T)
           /\ Cardinality({i \in DOMAIN s : s[i] \in T}) = Cardinality(T)
<1> DEFINE I == {i \in DOMAIN s : s[i] \in T}
           g == [i \in I |-> s[i]]
<1>1. DOMAIN s = 1 .. Len(s) /\ Len(s) \in Nat
  BY LenProperties DEF Sequence
<1>2. IsFiniteSet(I)
  <2>1. IsFiniteSet(1 .. Len(s))
    BY <1>1, FS_Interval
  <2>2. I \in SUBSET (1 .. Len(s))
    BY <1>1
  <2>3. QED BY <2>1, <2>2, FS_Subset
<1>3. g \in [I -> T]
  OBVIOUS
<1>4. \A a, b \in I : g[a] = g[b] => a = b
  BY DEF IsInjective
<1>5. \A y \in T : \E x \in I : g[x] = y
  BY DEF ToSet
<1> HIDE DEF I, g
<1>6. ExistsBijection(I, T)
  BY <1>3, <1>4, <1>5 DEF ExistsBijection, Bijection, Injection, Surjection, IsInjective
<1>7. QED BY <1>2, <1>6, FS_Bijection DEF I

(* Members of two sets that do not meet.                                   *)
LEMMA JoinCount ==
    ASSUME NEW A, NEW B, IsFiniteSet(A), IsFiniteSet(B), A \cap B = {}
    PROVE  /\ IsFiniteSet(A \cup B) /\ Cardinality(A \cup B) = Cardinality(A) + Cardinality(B)
           /\ Cardinality(A) \in Nat /\ Cardinality(B) \in Nat
<1>1. /\ IsFiniteSet(A \cup B)
      /\ Cardinality(A \cup B) = Cardinality(A) + Cardinality(B) - Cardinality(A \cap B)
  BY FS_Union
<1>2. Cardinality(A \cap B) = 0 /\ Cardinality(A) \in Nat /\ Cardinality(B) \in Nat
  BY FS_EmptySet, FS_CardinalityType
<1>3. QED BY <1>1, <1>2

Reported(f) == [code |-> f.code, path |-> f.path, level |-> FindingLevel(f.code)]

(* Findings that are raised are reported or counted, once each.            *)
LEMMA RaiseTally ==
    ASSUME NEW F, NEW raised, Sequence(raised), IsInjective(raised), ToSet(raised) \cap F = {},
           Tally(F, findings, suppressed), Raise(raised)
    PROVE  Tally(F \cup ToSet(raised), findings', suppressed')
<1> DEFINE R == ToSet(raised)
           good == {f \in R : FindingLevel(f.code) # "suppressed"}
           reported == Kept(raised, good)
           new == [i \in DOMAIN reported |-> Reported(reported[i])]
           bad(level) == {f \in R : FindingLevel(f.code) = "suppressed" /\ DefaultLevel[f.code] = level}
           Omitted(level) == {i \in DOMAIN raised : /\ FindingLevel(raised[i].code) = "suppressed"
                                                    /\ DefaultLevel[raised[i].code] = level}
<1>1. /\ findings' = findings \o new
      /\ suppressed' = [level \in Level |-> suppressed[level] + Cardinality(Omitted(level))]
  BY DEF Raise, Reported
<1>2. raised \in Seq(R) /\ \A i \in DOMAIN raised : raised[i] \in R
  BY DEF Sequence, ToSet
<1>3. IsFiniteSet(F) /\ Sequence(findings) /\ suppressed \in [Level -> Nat]
  BY DEF Tally
<1>4. IsFiniteSet(R)
  BY CountIndexes
<1>5. /\ reported \in Seq(R) /\ ToSet(reported) = R \cap good
      /\ Len(reported) = Cardinality({i \in DOMAIN raised : raised[i] \in good})
  <2>1. raised \in Seq(R)
    BY <1>2
  <2> HIDE DEF R, good
  <2>2. /\ Kept(raised, good) \in Seq(R)
        /\ ToSet(Kept(raised, good)) = ToSet(raised) \cap good
        /\ Len(Kept(raised, good)) = Cardinality({i \in DOMAIN raised : raised[i] \in good})
    BY ONLY <2>1, KeptFacts DEF Hits
  <2>3. QED BY <2>2 DEF R
<1>6. good \subseteq R /\ R \cap good = good /\ IsFiniteSet(good) /\ Len(reported) = Cardinality(good)
  <2>1. good \subseteq R
    OBVIOUS
  <2> HIDE DEF good, reported
  <2>2. QED BY <1>5, <2>1, CountIndexes
<1>7. /\ DOMAIN reported = 1 .. Len(reported) /\ Len(reported) \in Nat
      /\ \A i \in DOMAIN reported : reported[i] \in good
      /\ \A f \in good : \E i \in DOMAIN reported : f = reported[i]
  <2> HIDE DEF reported, R, good
  <2>1. /\ DOMAIN reported = 1 .. Len(reported) /\ Len(reported) \in Nat
        /\ \A i \in 1 .. Len(reported) : reported[i] \in ToSet(reported)
        /\ \A x \in ToSet(reported) : \E i \in 1 .. Len(reported) : x = reported[i]
    BY <1>5, SequenceFacts
  <2>2. QED BY <1>5, <1>6, <2>1
<1>8. /\ Sequence(new) /\ Len(new) = Cardinality(good)
      /\ ToSet(new) = {Reported(f) : f \in good}
  <2> HIDE DEF reported, good
  <2>1. DOMAIN new = 1 .. Len(reported)
    BY <1>7
  <2>2. ToSet(new) = {Reported(f) : f \in good}
    BY <1>7 DEF ToSet
  <2>3. new \in [1 .. Len(reported) -> ToSet(new)]
    BY <1>7, <2>1 DEF ToSet
  <2>4. new \in Seq(ToSet(new))
    BY <1>7, <2>3, SeqDef
  <2>5. Len(new) = Len(reported)
    BY <1>7, <2>1, <2>4, LenProperties
  <2>6. QED BY <1>6, <2>2, <2>4, <2>5 DEF Sequence
<1>9. Shown(F \cup R) = Shown(F) \cup good /\ Shown(F) \cap good = {} /\ IsFiniteSet(Shown(F))
  <2>1. Shown(F) \in SUBSET F
    BY DEF Shown
  <2>2. IsFiniteSet(Shown(F))
    BY <1>3, <2>1, FS_Subset
  <2>3. QED BY <2>1, <2>2 DEF Shown
<1>10. /\ Sequence(findings') /\ Len(findings') = Cardinality(Shown(F \cup R))
       /\ ToSet(findings') = {Reported(f) : f \in Shown(F \cup R)}
  <2>1. ToSet(findings) = {Reported(f) : f \in Shown(F)} /\ Len(findings) = Cardinality(Shown(F))
    BY DEF Tally, Reported
  <2> HIDE DEF new, good, R
  <2>2. Sequence(findings') /\ ToSet(findings') = ToSet(findings) \cup ToSet(new)
        /\ Len(findings') = Len(findings) + Len(new)
    BY <1>1, <1>3, <1>8, SequenceJoin
  <2>3. Cardinality(Shown(F \cup R)) = Cardinality(Shown(F)) + Cardinality(good)
    BY <1>6, <1>9, JoinCount
  <2>4. ToSet(findings') = {Reported(f) : f \in Shown(F \cup R)}
    BY <1>8, <1>9, <2>1, <2>2
  <2>5. QED BY <1>8, <2>1, <2>2, <2>3, <2>4
<1>11. ASSUME NEW level \in Level
       PROVE  suppressed'[level] \in Nat /\ suppressed'[level] = Cardinality(Hidden(F \cup R, level))
  <2>1. Hidden(F \cup R, level) = Hidden(F, level) \cup bad(level) /\ Hidden(F, level) \cap bad(level) = {}
        /\ Hidden(F, level) \in SUBSET F /\ bad(level) \subseteq R
    BY DEF Hidden
  <2>2. IsFiniteSet(Hidden(F, level))
    BY <1>3, <2>1, FS_Subset
  <2>3. Omitted(level) = {i \in DOMAIN raised : raised[i] \in bad(level)}
    BY <1>2
  <2>4. suppressed[level] = Cardinality(Hidden(F, level))
    BY DEF Tally
  <2>5. suppressed'[level] = suppressed[level] + Cardinality(Omitted(level))
    BY <1>1
  <2> HIDE DEF bad, Omitted, R
  <2>6. IsFiniteSet(bad(level)) /\ Cardinality(Omitted(level)) = Cardinality(bad(level))
    BY <2>1, <2>3, CountIndexes DEF R
  <2>7. /\ Cardinality(Hidden(F \cup R, level)) = Cardinality(Hidden(F, level)) + Cardinality(bad(level))
        /\ Cardinality(Hidden(F, level)) \in Nat /\ Cardinality(bad(level)) \in Nat
    BY <2>1, <2>2, <2>6, JoinCount
  <2>8. QED BY <2>4, <2>5, <2>6, <2>7
<1>12. suppressed' \in [Level -> Nat]
  BY <1>1, <1>11
<1>13. IsFiniteSet(F \cup R)
  BY <1>3, <1>4, JoinCount
<1>14. QED BY <1>10, <1>11, <1>12, <1>13 DEF Tally, Reported

-----------------------------------------------------------------------------
(* A sequence with something else in front.                                *)
LEMMA Spliced ==
    ASSUME NEW s, NEW t, Sequence(s), Sequence(t), s # <<>>
    PROVE  /\ Sequence(t \o Tail(s)) /\ Len(t \o Tail(s)) = Len(t) + Len(s) - 1
           /\ Len(s) \in Nat \ {0} /\ Len(t) \in Nat
           /\ DOMAIN s = 1 .. Len(s) /\ DOMAIN (t \o Tail(s)) = 1 .. Len(t) + Len(s) - 1
           /\ \A i \in 1 .. Len(t) : (t \o Tail(s))[i] = t[i]
           /\ \A i \in 2 .. Len(s) : (t \o Tail(s))[Len(t) + i - 1] = s[i]
           /\ \A i \in 1 .. Len(t) + Len(s) - 1 :
                i <= Len(t) \/ (i - Len(t) + 1 \in 2 .. Len(s) /\ (t \o Tail(s))[i] = s[i - Len(t) + 1])
<1> DEFINE r == t \o Tail(s)
           u == Tail(s)
<1>1. s \in Seq(ToSet(s)) /\ Len(s) \in Nat \ {0} /\ Len(t) \in Nat /\ DOMAIN s = 1 .. Len(s)
  BY LenProperties, EmptySeq DEF Sequence
<1>2. /\ u \in Seq(ToSet(s)) /\ Len(u) = Len(s) - 1
      /\ \A i \in 1 .. Len(u) : u[i] = s[i + 1]
  BY <1>1, HeadTailProperties
<1> HIDE DEF u
<1>3. Sequence(u)
  BY <1>2, SequenceFacts
<1>4. /\ Sequence(t \o u) /\ Len(t \o u) = Len(t) + Len(u)
      /\ DOMAIN (t \o u) = 1 .. Len(t) + Len(u)
      /\ \A i \in 1 .. Len(t) : (t \o u)[i] = t[i]
      /\ \A i \in 1 .. Len(u) : (t \o u)[Len(t) + i] = u[i]
  BY <1>3, SequenceJoin
<1> DEFINE w == t \o u
<1>5. w = r
  BY DEF u
<1> HIDE DEF w, r
<1>6. /\ Sequence(w) /\ Len(w) = Len(t) + Len(s) - 1
      /\ DOMAIN w = 1 .. Len(t) + Len(s) - 1
      /\ \A i \in 1 .. Len(t) : w[i] = t[i]
      /\ \A i \in 1 .. Len(s) - 1 : w[Len(t) + i] = s[i + 1]
  BY <1>1, <1>2, <1>4 DEF w
<1>7. ASSUME NEW i \in 2 .. Len(s) PROVE w[Len(t) + i - 1] = s[i]
  <2>1. i - 1 \in 1 .. Len(s) - 1 /\ Len(t) + (i - 1) = Len(t) + i - 1 /\ i - 1 + 1 = i
    BY <1>1
  <2>2. QED BY <1>6, <2>1
<1>8. ASSUME NEW i \in 1 .. Len(t) + Len(s) - 1, ~(i <= Len(t))
      PROVE  i - Len(t) + 1 \in 2 .. Len(s) /\ w[i] = s[i - Len(t) + 1]
  <2>1. i - Len(t) + 1 \in 2 .. Len(s) /\ Len(t) + (i - Len(t) + 1) - 1 = i
    BY <1>1, <1>8
  <2>2. QED BY <1>7, <2>1
<1>9. QED BY <1>1, <1>5, <1>6, <1>7, <1>8 DEF r

(* The first task of a plan is replaced by those it leaves.                *)
LEMMA Advance ==
    ASSUME NEW e \in Events, NEW tasks, NEW at, NEW seen, NEW ts, NEW bs, NEW seen2, NEW tasks2, NEW at2,
           Plan(e, tasks, at, seen), tasks # <<>>,
           Sequence(ts), Sequence(bs), Len(bs) = Len(ts),
           tasks2 = ts \o Tail(tasks), at2 = bs \o Tail(at),
           tasks[1].do = "end" => Len(ts) = 0,
           \A i \in 1 .. Len(ts) :
             /\ bs[i] \in Path /\ ts[i].do \in Task /\ ts[i].do # "end" /\ Fits(e, ts[i], bs[i])
             /\ Region(e, ts[i], bs[i]) \subseteq Region(e, tasks[1], at[1])
             /\ at2[i + 1] = After(ts[i], bs[i]),
           \A i, j \in 1 .. Len(ts) : i # j => Region(e, ts[i], bs[i]) \cap Region(e, ts[j], bs[j]) = {},
           \A i \in 1 .. Len(ts) : ts[i].do \in Judging => Framed(tasks2, at2, seen2, i),
           \A i \in 2 .. Len(tasks) : tasks[i].do \in Judging /\ Prior(tasks[i], at[i]) =>
             /\ seen2 # <<>> /\ Last(seen2) = Last(seen)
             /\ \A j \in 1 .. Len(ts) : ts[j].do # "item"
    PROVE  Plan(e, tasks2, at2, seen2)
<1> DEFINE m == Len(ts)
           n == Len(tasks)
<1>a. \A i, j \in 1 .. m : i # j => Region(e, ts[i], bs[i]) \cap Region(e, ts[j], bs[j]) = {}
  OBVIOUS
<1>b. \A i \in 1 .. m : ts[i].do \in Judging => Framed(tasks2, at2, seen2, i)
  OBVIOUS
<1>1. /\ Sequence(tasks) /\ Sequence(at) /\ Len(at) = n + 1 /\ at[n + 1] = <<>>
      /\ DOMAIN tasks = 1 .. n /\ n \in Nat \ {0} /\ m \in Nat /\ at # <<>>
  <2>1. /\ Sequence(tasks) /\ Sequence(at) /\ Len(at) = n + 1 /\ at[n + 1] = <<>>
    BY DEF Plan
  <2>2. DOMAIN tasks = 1 .. n /\ n \in Nat \ {0} /\ m \in Nat
    BY <2>1, SequenceFacts DEF Sequence
  <2>3. at # <<>>
    BY <2>1, <2>2, SequenceFacts DEF Sequence
  <2>4. QED BY <2>1, <2>2, <2>3
<1>2. /\ Sequence(tasks2) /\ Len(tasks2) = m + n - 1 /\ DOMAIN tasks2 = 1 .. m + n - 1
      /\ \A i \in 1 .. m : tasks2[i] = ts[i]
      /\ \A i \in 2 .. n : tasks2[m + i - 1] = tasks[i]
      /\ \A i \in 1 .. m + n - 1 : i <= m \/ (i - m + 1 \in 2 .. n /\ tasks2[i] = tasks[i - m + 1])
  BY <1>1, Spliced
<1>3. /\ Sequence(at2) /\ Len(at2) = m + n
      /\ \A i \in 1 .. m : at2[i] = bs[i]
      /\ \A i \in 2 .. n + 1 : at2[m + i - 1] = at[i]
      /\ \A i \in 1 .. m + n : i <= m \/ (i - m + 1 \in 2 .. n + 1 /\ at2[i] = at[i - m + 1])
  <2>0. /\ Sequence(bs \o Tail(at)) /\ Len(bs \o Tail(at)) = Len(bs) + Len(at) - 1
        /\ \A i \in 1 .. Len(bs) : (bs \o Tail(at))[i] = bs[i]
        /\ \A i \in 2 .. Len(at) : (bs \o Tail(at))[Len(bs) + i - 1] = at[i]
        /\ \A i \in 1 .. Len(bs) + Len(at) - 1 :
             i <= Len(bs) \/ (i - Len(bs) + 1 \in 2 .. Len(at) /\ (bs \o Tail(at))[i] = at[i - Len(bs) + 1])
    <3>1. Sequence(at) /\ Sequence(bs) /\ at # <<>>
      BY <1>1
    <3>2. QED BY ONLY <3>1, Spliced
  <2>1. /\ Sequence(at2) /\ Len(at2) = Len(bs) + Len(at) - 1
        /\ \A i \in 1 .. Len(bs) : at2[i] = bs[i]
        /\ \A i \in 2 .. Len(at) : at2[Len(bs) + i - 1] = at[i]
        /\ \A i \in 1 .. Len(bs) + Len(at) - 1 :
             i <= Len(bs) \/ (i - Len(bs) + 1 \in 2 .. Len(at) /\ at2[i] = at[i - Len(bs) + 1])
    BY <2>0
  <2>2. Len(bs) = m /\ Len(at) = n + 1 /\ Len(bs) + Len(at) - 1 = m + n
    BY <1>1
  <2>3. QED BY <2>1, <2>2
<1>4. Len(at2) = Len(tasks2) + 1 /\ at2[Len(at2)] = <<>>
  <2>1. m + (n + 1) - 1 = m + n /\ n + 1 \in 2 .. n + 1
    BY <1>1
  <2>2. QED BY <1>1, <1>2, <1>3, <2>1
<1>5. \A k \in 1 .. n :
        /\ at[k] \in Path /\ at[k + 1] = After(tasks[k], at[k])
        /\ tasks[k].do \in Task /\ Fits(e, tasks[k], at[k])
        /\ tasks[k].do = "end" <=> k = n
        /\ \A j \in 1 .. n : k # j => Region(e, tasks[k], at[k]) \cap Region(e, tasks[j], at[j]) = {}
        /\ tasks[k].do \in Judging => Framed(tasks, at, seen, k)
  BY <1>1 DEF Plan
<1> DEFINE Rest(i) == i - m + 1
<1>6. ASSUME NEW i \in 1 .. m + n - 1, ~(i <= m)
      PROVE  /\ Rest(i) \in 2 .. n /\ tasks2[i] = tasks[Rest(i)] /\ at2[i] = at[Rest(i)]
             /\ at2[i + 1] = at[Rest(i) + 1]
  <2>1. i \in 1 .. m + n /\ i + 1 \in 1 .. m + n /\ ~(i + 1 <= m) /\ (i + 1) - m + 1 = Rest(i) + 1
    BY <1>1, <1>6
  <2>2. QED BY <1>2, <1>3, <1>6, <2>1
<1>7. ASSUME NEW i \in 1 .. m
      PROVE  i \in 1 .. m + n - 1 /\ tasks2[i] = ts[i] /\ at2[i] = bs[i]
  BY <1>1, <1>2, <1>3
<1>8. ASSUME NEW i \in 1 .. m + n - 1
      PROVE  /\ at2[i] \in Path /\ at2[i + 1] = After(tasks2[i], at2[i])
             /\ tasks2[i].do \in Task /\ Fits(e, tasks2[i], at2[i])
             /\ tasks2[i].do = "end" <=> i = m + n - 1
  <2>1. CASE i <= m
    <3>1. i \in 1 .. m
      BY <1>1, <2>1
    <3>2. i # m + n - 1
      <4> SUFFICES ASSUME i = m + n - 1 PROVE FALSE
        OBVIOUS
      <4>1. n = 1
        BY <1>1, <3>1
      <4>2. tasks[1].do = "end"
        BY <1>5, <4>1
      <4>3. QED BY <1>1, <3>1, <4>2
    <3>3. QED BY <1>7, <3>1, <3>2
  <2>2. CASE ~(i <= m)
    <3>1. /\ Rest(i) \in 2 .. n /\ tasks2[i] = tasks[Rest(i)] /\ at2[i] = at[Rest(i)]
          /\ at2[i + 1] = at[Rest(i) + 1]
      BY <1>6, <2>2
    <3>2. Rest(i) \in 1 .. n /\ (i = m + n - 1 <=> Rest(i) = n)
      <4>1. i \in Int /\ m \in Int /\ n \in Int /\ i - m + 1 \in 2 .. n
        BY <1>1, <3>1
      <4>2. QED BY ONLY <4>1
    <3> HIDE DEF Rest
    <3>3. QED BY <1>5, <3>1, <3>2
  <2>3. QED BY <2>1, <2>2
<1>9. ASSUME NEW i \in 1 .. m + n - 1, NEW j \in 1 .. m + n - 1, i # j
      PROVE  Region(e, tasks2[i], at2[i]) \cap Region(e, tasks2[j], at2[j]) = {}
  <2>0. ASSUME NEW k \in 1 .. m, NEW l \in 2 .. n
        PROVE  Region(e, ts[k], bs[k]) \cap Region(e, tasks[l], at[l]) = {}
    <3>1. l \in 1 .. n /\ 1 \in 1 .. n /\ l # 1
      BY <1>1
    <3>2. Region(e, tasks[1], at[1]) \cap Region(e, tasks[l], at[l]) = {}
      BY <1>5, <3>1
    <3>3. Region(e, ts[k], bs[k]) \subseteq Region(e, tasks[1], at[1])
      OBVIOUS
    <3>4. QED BY <3>2, <3>3
  <2>1. CASE i <= m /\ j <= m
    <3>1. i \in 1 .. m /\ j \in 1 .. m
      BY <1>1, <2>1
    <3>2. Region(e, ts[i], bs[i]) \cap Region(e, ts[j], bs[j]) = {}
      BY ONLY <1>a, <1>9, <3>1
    <3>3. tasks2[i] = ts[i] /\ at2[i] = bs[i] /\ tasks2[j] = ts[j] /\ at2[j] = bs[j]
      BY <1>7, <3>1
    <3>4. QED BY ONLY <3>2, <3>3
  <2>2. CASE i <= m /\ ~(j <= m)
    <3>1. i \in 1 .. m
      BY <1>1, <2>2
    <3>2. Rest(j) \in 2 .. n /\ tasks2[j] = tasks[Rest(j)] /\ at2[j] = at[Rest(j)]
      BY <1>6, <2>2
    <3>3. Region(e, ts[i], bs[i]) \cap Region(e, tasks[Rest(j)], at[Rest(j)]) = {}
      BY <2>0, <3>1, <3>2
    <3>4. tasks2[i] = ts[i] /\ at2[i] = bs[i]
      BY <1>7, <3>1
    <3>5. QED BY ONLY <3>2, <3>3, <3>4
  <2>3. CASE ~(i <= m) /\ j <= m
    <3>1. j \in 1 .. m
      BY <1>1, <2>3
    <3>2. Region(e, ts[j], bs[j]) \cap Region(e, tasks[Rest(i)], at[Rest(i)]) = {}
      BY <1>6, <2>0, <2>3, <3>1
    <3>3. QED BY <1>6, <1>7, <2>3, <3>1, <3>2
  <2>4. CASE ~(i <= m) /\ ~(j <= m)
    <3>1. Rest(i) # Rest(j) /\ Rest(i) \in 1 .. n /\ Rest(j) \in 1 .. n
      BY <1>1, <1>6, <1>9, <2>4
    <3>2. Region(e, tasks[Rest(i)], at[Rest(i)]) \cap Region(e, tasks[Rest(j)], at[Rest(j)]) = {}
      <4> HIDE DEF Rest
      <4> QED BY <1>5, <3>1
    <3>3. QED BY <1>6, <2>4, <3>2
  <2>5. QED BY <2>1, <2>2, <2>3, <2>4
<1>10. ASSUME NEW i \in 1 .. m + n - 1, tasks2[i].do \in Judging
       PROVE  Framed(tasks2, at2, seen2, i)
  <2>1. CASE i <= m
    <3>1. i \in 1 .. m
      BY <1>1, <2>1
    <3>2. ts[i].do \in Judging
      BY <1>7, <1>10, <3>1
    <3>3. QED BY ONLY <1>b, <3>1, <3>2
  <2>2. CASE ~(i <= m)
    <3> DEFINE k == Rest(i)
    <3>1. k \in 2 .. n /\ tasks2[i] = tasks[k] /\ at2[i] = at[k] /\ i = m + k - 1
      BY <1>1, <1>6, <2>2
    <3>2. Framed(tasks, at, seen, k)
      <4>1. k \in 1 .. n
        BY <1>1, <3>1
      <4> HIDE DEF k
      <4> QED BY <1>5, <1>10, <3>1, <4>1
    <3> HIDE DEF k
    <3>3. k + 2 \in 1 .. n /\ tasks[k + 1].do = "pop"
          /\ \/ tasks[k + 2].do = "item"
             \/ /\ tasks[k].do = "value" /\ tasks[k + 2].do = "array"
                /\ tasks[k + 2].of = tasks[k].of /\ ~IsName(Last(at[k]))
      BY <1>1, <3>2 DEF Framed
    <3>4. i + 2 \in 1 .. m + n - 1 /\ tasks2[i + 1] = tasks[k + 1] /\ tasks2[i + 2] = tasks[k + 2]
      <4>0. m \in Nat /\ n \in Int /\ k \in 2 .. n /\ k + 2 \in 1 .. n /\ i = m + k - 1
        <5>1. m \in Nat /\ n \in Int
          BY <1>1
        <5>2. QED BY ONLY <3>1, <3>3, <5>1
      <4>1. k + 1 \in 2 .. n /\ k + 2 \in 2 .. n /\ i + 1 = m + (k + 1) - 1 /\ i + 2 = m + (k + 2) - 1
        BY ONLY <4>0
      <4>2. i + 2 \in 1 .. m + n - 1
        BY ONLY <4>0
      <4>3. QED BY <1>2, <4>1, <4>2
    <3>5. ASSUME Prior(tasks[k], at[k])
          PROVE  /\ seen2 # <<>> /\ Owner(at[k]) = Last(seen2)
                 /\ \A j \in 1 .. i - 1 : tasks2[j].do # "item"
      <4>1. Owner(at[k]) = Last(seen) /\ \A j \in 1 .. k - 1 : tasks[j].do # "item"
        BY <3>2, <3>5 DEF Framed
      <4>2. seen2 # <<>> /\ Last(seen2) = Last(seen) /\ \A j \in 1 .. m : ts[j].do # "item"
        BY <1>10, <3>1, <3>5
      <4>3. ASSUME NEW j \in 1 .. i - 1 PROVE tasks2[j].do # "item"
        <5>1. j \in 1 .. m + n - 1
          BY <1>1, <3>1
        <5>2. CASE j <= m
          <6>1. j \in 1 .. m
            BY <1>1, <5>2
          <6>2. QED BY <1>7, <4>2, <6>1
        <5>3. CASE ~(j <= m)
          <6>0. Rest(j) \in 2 .. n /\ tasks2[j] = tasks[Rest(j)]
            BY ONLY <1>6, <5>1, <5>3
          <6>1. Rest(j) \in 1 .. k - 1
            <7>1. m \in Int /\ n \in Int
              BY <1>1
            <7>2. i = m + k - 1 /\ k \in 2 .. n
              BY <3>1
            <7>3. j \in 1 .. i - 1 /\ j - m + 1 \in 2 .. n
              BY <6>0
            <7>4. QED BY ONLY <7>1, <7>2, <7>3
          <6>2. QED BY <4>1, <6>0, <6>1
        <5>4. QED BY <5>2, <5>3
      <4>4. QED BY <4>1, <4>2, <4>3
    <3>6. i + 2 \in DOMAIN tasks2 /\ tasks2[i + 1].do = "pop"
      BY <1>2, <3>3, <3>4
    <3>7. \/ tasks2[i + 2].do = "item"
          \/ /\ tasks2[i].do = "value" /\ tasks2[i + 2].do = "array"
             /\ tasks2[i + 2].of = tasks2[i].of /\ ~IsName(Last(at2[i]))
      BY <3>1, <3>3, <3>4
    <3>8. Prior(tasks2[i], at2[i]) =>
            /\ seen2 # <<>> /\ Owner(at2[i]) = Last(seen2)
            /\ \A j \in 1 .. i - 1 : tasks2[j].do # "item"
      BY <3>1, <3>5
    <3>9. QED BY ONLY <3>6, <3>7, <3>8 DEF Framed
  <2>3. QED BY <2>1, <2>2
<1>11. \A i \in DOMAIN tasks2 :
         /\ at2[i] \in Path /\ at2[i + 1] = After(tasks2[i], at2[i])
         /\ tasks2[i].do \in Task /\ Fits(e, tasks2[i], at2[i])
         /\ tasks2[i].do = "end" <=> i = Len(tasks2)
         /\ \A j \in DOMAIN tasks2 : i # j => Region(e, tasks2[i], at2[i]) \cap Region(e, tasks2[j], at2[j]) = {}
         /\ tasks2[i].do \in Judging => Framed(tasks2, at2, seen2, i)
  <2> TAKE i \in DOMAIN tasks2
  <2>1. i \in 1 .. m + n - 1 /\ Len(tasks2) = m + n - 1
    BY <1>2
  <2>2. /\ at2[i] \in Path /\ at2[i + 1] = After(tasks2[i], at2[i])
        /\ tasks2[i].do \in Task /\ Fits(e, tasks2[i], at2[i])
        /\ tasks2[i].do = "end" <=> i = Len(tasks2)
    BY <1>8, <2>1
  <2>3. \A j \in DOMAIN tasks2 : i # j => Region(e, tasks2[i], at2[i]) \cap Region(e, tasks2[j], at2[j]) = {}
    BY <1>2, <1>9, <2>1
  <2>4. tasks2[i].do \in Judging => Framed(tasks2, at2, seen2, i)
    BY <1>10, <2>1
  <2>5. QED BY ONLY <2>2, <2>3, <2>4
<1>12. Sequence(tasks2) /\ Sequence(at2)
  BY <1>2, <1>3
<1>13. QED BY ONLY <1>4, <1>11, <1>12 DEF Plan

(* What has been done since.                                               *)
LEMMA AdvancePast ==
    ASSUME NEW e \in Events, NEW tasks, NEW at, NEW seen, NEW ts, NEW bs, NEW D,
           Plan(e, tasks, at, seen), tasks # <<>>,
           Sequence(ts), Sequence(bs), Len(bs) = Len(ts), D \subseteq Origins(e),
           \A x \in Origins(e) : x \in Region(e, tasks[1], at[1]) <=>
             x \in D \/ \E i \in 1 .. Len(ts) : x \in Region(e, ts[i], bs[i]),
           \A x \in D : \A i \in 1 .. Len(ts) : x \notin Region(e, ts[i], bs[i])
    PROVE  /\ Past(e, ts \o Tail(tasks), bs \o Tail(at)) = Past(e, tasks, at) \cup D
           /\ Past(e, tasks, at) \cap D = {}
<1> DEFINE m == Len(ts)
           n == Len(tasks)
           tasks2 == ts \o Tail(tasks)
           at2 == bs \o Tail(at)
<1>1. /\ Sequence(tasks) /\ Sequence(at) /\ Len(at) = n + 1
      /\ DOMAIN tasks = 1 .. n /\ n \in Nat \ {0} /\ m \in Nat /\ at # <<>>
  <2>1. /\ Sequence(tasks) /\ Sequence(at) /\ Len(at) = n + 1
    BY DEF Plan
  <2>2. DOMAIN tasks = 1 .. n /\ n \in Nat \ {0} /\ m \in Nat
    BY <2>1, SequenceFacts DEF Sequence
  <2>3. at # <<>>
    BY <2>1, <2>2, SequenceFacts DEF Sequence
  <2>4. QED BY <2>1, <2>2, <2>3
<1>2. /\ DOMAIN tasks2 = 1 .. m + n - 1
      /\ \A i \in 1 .. m : tasks2[i] = ts[i]
      /\ \A i \in 2 .. n : tasks2[m + i - 1] = tasks[i]
      /\ \A i \in 1 .. m + n - 1 : i <= m \/ (i - m + 1 \in 2 .. n /\ tasks2[i] = tasks[i - m + 1])
  BY <1>1, Spliced
<1>3. /\ \A i \in 1 .. m : at2[i] = bs[i]
      /\ \A i \in 2 .. n + 1 : at2[m + i - 1] = at[i]
      /\ \A i \in 1 .. m + n : i <= m \/ (i - m + 1 \in 2 .. n + 1 /\ at2[i] = at[i - m + 1])
  <2>1. Sequence(at) /\ Sequence(bs) /\ at # <<>>
    BY <1>1
  <2>2. /\ \A i \in 1 .. Len(bs) : (bs \o Tail(at))[i] = bs[i]
        /\ \A i \in 2 .. Len(at) : (bs \o Tail(at))[Len(bs) + i - 1] = at[i]
        /\ \A i \in 1 .. Len(bs) + Len(at) - 1 :
             \/ i <= Len(bs)
             \/ i - Len(bs) + 1 \in 2 .. Len(at) /\ (bs \o Tail(at))[i] = at[i - Len(bs) + 1]
    BY ONLY <2>1, Spliced
  <2>3. Len(bs) = m /\ Len(at) = n + 1 /\ m + (n + 1) - 1 = m + n
    BY <1>1
  <2>4. at2 = bs \o Tail(at)
    OBVIOUS
  <2> HIDE DEF m, n, at2
  <2>5. QED BY <2>2, <2>3, <2>4
<1>4. \A k, j \in 1 .. n : k # j => Region(e, tasks[k], at[k]) \cap Region(e, tasks[j], at[j]) = {}
  BY <1>1 DEF Plan
<1>5. \A x : x \in Past(e, tasks, at) <=>
               x \in Origins(e) /\ \A k \in 1 .. n : x \notin Region(e, tasks[k], at[k])
  BY <1>1 DEF Past
<1>6. \A x : x \in Past(e, tasks2, at2) <=>
               x \in Origins(e) /\ \A i \in 1 .. m + n - 1 : x \notin Region(e, tasks2[i], at2[i])
  BY <1>2 DEF Past
<1> HIDE DEF tasks2, at2
<1>7. ASSUME NEW x
      PROVE  (\A i \in 1 .. m + n - 1 : x \notin Region(e, tasks2[i], at2[i])) <=>
               /\ \A i \in 1 .. m : x \notin Region(e, ts[i], bs[i])
               /\ \A k \in 2 .. n : x \notin Region(e, tasks[k], at[k])
  <2>1. ASSUME NEW i \in 1 .. m PROVE i \in 1 .. m + n - 1 /\ tasks2[i] = ts[i] /\ at2[i] = bs[i]
    BY <1>1, <1>2, <1>3
  <2>2. ASSUME NEW k \in 2 .. n
        PROVE  m + k - 1 \in 1 .. m + n - 1 /\ tasks2[m + k - 1] = tasks[k] /\ at2[m + k - 1] = at[k]
    <3>1. m + k - 1 \in 1 .. m + n - 1 /\ k \in 2 .. n + 1
      BY <1>1
    <3>2. QED BY <1>2, <1>3, <3>1
  <2>3. ASSUME NEW i \in 1 .. m + n - 1
        PROVE  \/ i \in 1 .. m
               \/ i - m + 1 \in 2 .. n /\ tasks2[i] = tasks[i - m + 1] /\ at2[i] = at[i - m + 1]
    <3>1. i \in 1 .. m + n /\ (i <= m => i \in 1 .. m)
      BY <1>1
    <3>2. QED BY <1>2, <1>3, <3>1
  <2>4. ASSUME \A i \in 1 .. m + n - 1 : x \notin Region(e, tasks2[i], at2[i])
        PROVE  /\ \A i \in 1 .. m : x \notin Region(e, ts[i], bs[i])
               /\ \A k \in 2 .. n : x \notin Region(e, tasks[k], at[k])
    <3>1. ASSUME NEW i \in 1 .. m PROVE x \notin Region(e, ts[i], bs[i])
      BY <2>1, <2>4
    <3>2. ASSUME NEW k \in 2 .. n PROVE x \notin Region(e, tasks[k], at[k])
      <4>1. x \notin Region(e, tasks2[m + k - 1], at2[m + k - 1])
        BY <2>2, <2>4
      <4>2. QED BY <2>2, <4>1
    <3>3. QED BY <3>1, <3>2
  <2>5. ASSUME \A i \in 1 .. m : x \notin Region(e, ts[i], bs[i]),
               \A k \in 2 .. n : x \notin Region(e, tasks[k], at[k]),
               NEW i \in 1 .. m + n - 1
        PROVE  x \notin Region(e, tasks2[i], at2[i])
    <3>1. CASE i \in 1 .. m
      BY <2>1, <2>5, <3>1
    <3>2. CASE i - m + 1 \in 2 .. n /\ tasks2[i] = tasks[i - m + 1] /\ at2[i] = at[i - m + 1]
      <4>1. x \notin Region(e, tasks[i - m + 1], at[i - m + 1])
        BY <2>5, <3>2
      <4>2. QED BY <3>2, <4>1
    <3>3. QED BY <2>3, <3>1, <3>2
  <2>6. QED BY <2>4, <2>5
<1>8. \A k \in 1 .. n : k = 1 \/ k \in 2 .. n
  BY <1>1
<1>9. 1 \in 1 .. n /\ \A k \in 2 .. n : k \in 1 .. n /\ k # 1
  BY <1>1
<1>10. \A x \in D : /\ x \in Origins(e) /\ x \in Region(e, tasks[1], at[1])
                    /\ \A k \in 2 .. n : x \notin Region(e, tasks[k], at[k])
  <2> TAKE x \in D
  <2>1. x \in Origins(e) /\ x \in Region(e, tasks[1], at[1])
    OBVIOUS
  <2>2. ASSUME NEW k \in 2 .. n PROVE x \notin Region(e, tasks[k], at[k])
    <3>1. Region(e, tasks[1], at[1]) \cap Region(e, tasks[k], at[k]) = {}
      BY <1>4, <1>9
    <3>2. QED BY <2>1, <3>1
  <2>3. QED BY <2>1, <2>2
<1>11. Past(e, tasks, at) \cap D = {}
  BY <1>5, <1>9, <1>10
<1>12. ASSUME NEW x PROVE x \in Past(e, tasks2, at2) <=> x \in Past(e, tasks, at) \cup D
  <2>1. x \in Past(e, tasks2, at2) <=>
          /\ x \in Origins(e) /\ \A i \in 1 .. m : x \notin Region(e, ts[i], bs[i])
          /\ \A k \in 2 .. n : x \notin Region(e, tasks[k], at[k])
    BY <1>6, <1>7
  <2>2. x \in Past(e, tasks, at) <=>
          /\ x \in Origins(e) /\ x \notin Region(e, tasks[1], at[1])
          /\ \A k \in 2 .. n : x \notin Region(e, tasks[k], at[k])
    BY <1>5, <1>8, <1>9
  <2>3. QED BY <1>10, <2>1, <2>2
<1>13. Past(e, tasks2, at2) = Past(e, tasks, at) \cup D
  BY <1>12
<1>14. QED BY <1>11, <1>13 DEF tasks2, at2

-----------------------------------------------------------------------------
(* The first task, its path and the next one's.                            *)
LEMMA PlanFirst ==
    ASSUME NEW e \in Events, NEW tasks, NEW at, NEW seen, Plan(e, tasks, at, seen), tasks # <<>>
    PROVE  /\ Head(tasks) = tasks[1] /\ at[1] \in Path /\ at[2] = After(tasks[1], at[1])
           /\ tasks[1].do \in Task /\ Fits(e, tasks[1], at[1])
           /\ tasks[1].do = "end" <=> Len(tasks) = 1
           /\ tasks[1].do \in Judging => Framed(tasks, at, seen, 1)
           /\ Sequence(tasks) /\ Sequence(at) /\ Len(at) = Len(tasks) + 1 /\ at # <<>>
           /\ Len(tasks) \in Nat \ {0} /\ DOMAIN tasks = 1 .. Len(tasks)
<1>1. Sequence(tasks) /\ Sequence(at) /\ Len(at) = Len(tasks) + 1
  BY DEF Plan
<1>2. DOMAIN tasks = 1 .. Len(tasks) /\ Len(tasks) \in Nat \ {0}
  BY <1>1, SequenceFacts DEF Sequence
<1>3. at # <<>>
  BY <1>1, <1>2, SequenceFacts DEF Sequence
<1>4. Head(tasks) = tasks[1]
  BY <1>1, HeadTailProperties DEF Sequence
<1>5. 1 \in DOMAIN tasks /\ 1 + 1 = 2 /\ (1 = Len(tasks) <=> Len(tasks) = 1)
  BY <1>2
<1>6. /\ at[1] \in Path /\ at[1 + 1] = After(tasks[1], at[1])
      /\ tasks[1].do \in Task /\ Fits(e, tasks[1], at[1])
      /\ tasks[1].do = "end" <=> 1 = Len(tasks)
      /\ tasks[1].do \in Judging => Framed(tasks, at, seen, 1)
  BY <1>5 DEF Plan
<1>7. QED BY <1>1, <1>2, <1>3, <1>4, <1>5, <1>6

(* A task passes origins only.                                             *)
LEMMA RegionIn ==
    ASSUME NEW e \in Events, NEW task, NEW p, task.do \in Task, Fits(e, task, p)
    PROVE  Region(e, task, p) \subseteq Origins(e)
<1>1. CASE task.do = "item"
  BY <1>1 DEF Region, ItemRegion
<1>2. CASE task.do = "array"
  BY <1>2 DEF Region, ArrayRegion
<1>3. CASE task.do = "value"
  BY <1>3 DEF Region, ValueRegion, PlaceRegion
<1>4. CASE task.do = "leave"
  <2>1. Node(p, task.item) \in Entered(e) /\ Node(p, task.item) # Root(e)
    BY <1>4 DEF Fits
  <2>2. Origin("leave", p) \in Origins(e)
    BY <2>1, Origined DEF Node
  <2>3. QED BY <1>4, <2>2 DEF Region
<1>5. CASE task.do = "end"
  BY <1>5, Origined DEF Region
<1>6. CASE task.do = "pop"
  BY <1>6 DEF Region
<1>7. QED BY <1>1, <1>2, <1>3, <1>4, <1>5, <1>6 DEF Task

(* What stops the walk comes before any object.                            *)
LEMMA Behind ==
    ASSUME NEW e \in Events, NEW tasks, NEW at, NEW seen, Plan(e, tasks, at, seen),
           NEW i \in DOMAIN tasks, tasks[i].do \in Judging, Prior(tasks[i], at[i])
    PROVE  /\ seen # <<>> /\ Owner(at[i]) = Last(seen)
           /\ \A j \in 1 .. i - 1 : tasks[j].do # "item"
<1>1. Framed(tasks, at, seen, i)
  BY DEF Plan
<1>2. QED BY <1>1 DEF Framed

(* Behind an object's attributes no task is at the boundary.               *)
LEMMA BehindItem ==
    ASSUME NEW e \in Events, NEW tasks, NEW at, NEW seen, Plan(e, tasks, at, seen), tasks # <<>>,
           tasks[1].do = "item", NEW i \in 2 .. Len(tasks)
    PROVE  ~(tasks[i].do \in Judging /\ Prior(tasks[i], at[i]))
<1>1. i \in DOMAIN tasks /\ 1 \in 1 .. i - 1
  BY PlanFirst
<1>2. QED BY <1>1, Behind

(* A value is at a path.                                                   *)
LEMMA ValuePlace ==
    ASSUME NEW e \in Events, NEW n, NEW o, NEW a, ValueOf(e, n, o, a)
    PROVE  n.at \in Path /\ n.at # <<>> /\ n = Node(n.at, n.value)
BY ValueFrom, ValueNode

(* An index does not matter to the boundary.                               *)
LEMMA PriorUp ==
    ASSUME NEW p \in Path, p # <<>>, ~IsName(Last(p)), NEW x
    PROVE  HasPriorAttribute(Front(p), x) <=> HasPriorAttribute(p, x)
<1>1. Front(p) \in Path /\ Last(p) \in Element /\ p = Append(Front(p), Last(p))
  BY Shorter
<1>2. Names(p) = Names(Front(p))
  BY <1>1, NamesLonger
<1>3. QED BY <1>2 DEF HasPriorAttribute

(* Behind a value above the boundary no task is at the boundary.           *)
LEMMA BehindValue ==
    ASSUME NEW e \in Events, NEW tasks, NEW at, NEW seen, Plan(e, tasks, at, seen), tasks # <<>>,
           tasks[1].do = "value", ~Prior(tasks[1], at[1]), NEW i \in 2 .. Len(tasks)
    PROVE  ~(tasks[i].do \in Judging /\ Prior(tasks[i], at[i]))
<1> DEFINE n == Len(tasks)
<1>1. /\ DOMAIN tasks = 1 .. n /\ n \in Nat /\ at[1] \in Path /\ at[2] = at[1]
      /\ Fits(e, tasks[1], at[1])
  <2>1. QED BY PlanFirst DEF After
<1>2. /\ 3 \in DOMAIN tasks /\ tasks[2].do = "pop"
      /\ \/ tasks[3].do = "item"
         \/ tasks[3].do = "array" /\ tasks[3].of = tasks[1].of /\ ~IsName(Last(at[1]))
  <2>1. Framed(tasks, at, seen, 1) /\ 1 + 1 = 2 /\ 1 + 2 = 3
    BY PlanFirst DEF Judging
  <2>2. QED BY <2>1 DEF Framed
<1> SUFFICES ASSUME tasks[i].do \in Judging, Prior(tasks[i], at[i]) PROVE FALSE
  OBVIOUS
<1>3. i \in DOMAIN tasks /\ i # 2
  BY <1>1, <1>2 DEF Judging
<1>4. \A j \in 1 .. i - 1 : tasks[j].do # "item"
  BY <1>3, Behind
<1>5. CASE tasks[3].do = "item"
  <2>1. i # 3
    BY <1>5 DEF Judging
  <2>2. 3 \in 1 .. i - 1
    BY <1>1, <1>3, <2>1
  <2>3. QED BY <1>4, <1>5, <2>2
<1>6. CASE tasks[3].do = "array" /\ tasks[3].of = tasks[1].of /\ ~IsName(Last(at[1]))
  <2>1. at[3] = Front(at[1])
    <3>1. 2 \in DOMAIN tasks /\ 2 + 1 = 3
      BY <1>1, <1>2
    <3>2. at[2 + 1] = After(tasks[2], at[2])
      BY <3>1 DEF Plan
    <3>3. QED BY <1>1, <1>2, <3>1, <3>2 DEF After
  <2>2. at[1] # <<>>
    <3>1. PICK o \in Entered(e) : ValueOf(e, Node(at[1], tasks[1].value), o, tasks[1].of)
      BY <1>1 DEF Fits
    <3>2. QED BY <3>1, ValuePlace DEF Node
  <2>3. ~Prior(tasks[3], at[3])
    BY <1>1, <1>6, <2>1, <2>2, PriorUp DEF Prior
  <2>4. i # 3
    BY <2>3
  <2>5. 5 \in DOMAIN tasks /\ tasks[4].do = "pop" /\ tasks[5].do = "item"
    <3>1. Framed(tasks, at, seen, 3) /\ 3 + 1 = 4 /\ 3 + 2 = 5
      BY <1>2, <1>6 DEF Plan, Judging
    <3>2. QED BY <1>6, <3>1 DEF Framed
  <2>6. i # 4 /\ i # 5
    BY <2>5 DEF Judging
  <2>7. 5 \in 1 .. i - 1
    BY <1>1, <1>3, <2>4, <2>6
  <2>8. QED BY <1>4, <2>5, <2>7
<1>7. QED BY <1>2, <1>5, <1>6

-----------------------------------------------------------------------------
(* What a task leaves: nothing.                                            *)
LEMMA EmptySequence == Sequence(<<>>) /\ Len(<<>>) = 0
BY EmptySeq DEF Sequence

(* The first task is dropped, and its region done.                         *)
LEMMA Drop ==
    ASSUME NEW e \in Events, NEW tasks, NEW at, NEW seen, Plan(e, tasks, at, seen), tasks # <<>>
    PROVE  /\ Plan(e, <<>> \o Tail(tasks), <<>> \o Tail(at), seen)
           /\ Past(e, <<>> \o Tail(tasks), <<>> \o Tail(at)) = Past(e, tasks, at) \cup Region(e, tasks[1], at[1])
           /\ Past(e, tasks, at) \cap Region(e, tasks[1], at[1]) = {}
           /\ (<<>> \o Tail(at))[1] = at[2]
           /\ <<>> \o Tail(tasks) = <<>> <=> tasks[1].do = "end"
<1>1. /\ Sequence(tasks) /\ Sequence(at) /\ Len(at) = Len(tasks) + 1 /\ at # <<>>
      /\ Len(tasks) \in Nat \ {0} /\ DOMAIN tasks = 1 .. Len(tasks)
      /\ tasks[1].do = "end" <=> Len(tasks) = 1
  BY PlanFirst
<1>2. \A i \in 2 .. Len(tasks) : tasks[i].do \in Judging /\ Prior(tasks[i], at[i]) => seen # <<>>
  BY <1>1, Behind
<1>3. \A i \in 1 .. Len(<<>>) : FALSE
  BY EmptySequence
<1> DEFINE none == <<>>
<1>4. Sequence(none) /\ Len(none) = 0 /\ \A i \in 1 .. Len(none) : FALSE
  BY <1>3, EmptySequence
<1> HIDE DEF none
<1>5. Plan(e, none \o Tail(tasks), none \o Tail(at), seen)
  <2> DEFINE tasks2 == none \o Tail(tasks)
             at2 == none \o Tail(at)
  <2>1. tasks2 = none \o Tail(tasks) /\ at2 = none \o Tail(at)
    OBVIOUS
  <2> HIDE DEF tasks2, at2
  <2>2. Plan(e, tasks2, at2, seen)
    BY <1>2, <1>4, <2>1, Advance
  <2>3. QED BY <2>1, <2>2
<1> DEFINE D == Region(e, tasks[1], at[1])
<1>6. D \subseteq Origins(e)
  BY PlanFirst, RegionIn
<1>7. /\ Past(e, none \o Tail(tasks), none \o Tail(at)) = Past(e, tasks, at) \cup D
      /\ Past(e, tasks, at) \cap D = {}
  <2>1. \A x \in Origins(e) : x \in Region(e, tasks[1], at[1]) <=>
             x \in D \/ \E i \in 1 .. Len(none) : x \in Region(e, none[i], none[i])
    BY <1>4
  <2>2. \A x \in D : \A i \in 1 .. Len(none) : x \notin Region(e, none[i], none[i])
    BY <1>4
  <2> HIDE DEF D
  <2>3. QED BY <1>4, <1>6, <2>1, <2>2, AdvancePast
<1>8. (none \o Tail(at))[1] = at[2]
  <2>1. \A i \in 2 .. Len(at) : (none \o Tail(at))[Len(none) + i - 1] = at[i]
    BY <1>1, <1>4, Spliced
  <2>2. 2 \in 2 .. Len(at) /\ Len(none) + 2 - 1 = 1
    BY <1>1, <1>4
  <2>3. QED BY <2>1, <2>2
<1>9. none \o Tail(tasks) = <<>> <=> tasks[1].do = "end"
  <2>1. Sequence(none \o Tail(tasks)) /\ Len(none \o Tail(tasks)) = Len(none) + Len(tasks) - 1
    BY <1>1, <1>4, Spliced
  <2>2. none \o Tail(tasks) = <<>> <=> Len(none \o Tail(tasks)) = 0
    BY <2>1, SequenceFacts DEF Sequence
  <2>3. QED BY <1>1, <1>4, <2>1, <2>2
<1>10. QED BY <1>5, <1>7, <1>8, <1>9 DEF none

-----------------------------------------------------------------------------
(* A value is at the boundary where its attribute is.                      *)
LEMMA PriorOwner ==
    ASSUME NEW p \in Path, p # <<>>, NEW x
    PROVE  HasPriorAttribute(Owner(p), x) <=> HasPriorAttribute(p, x)
BY PriorUp DEF Owner

(* A value is ahead and its attribute is not only at that attribute.       *)
LEMMA Detached ==
    ASSUME NEW e \in Events, NEW task, NEW p \in Path, task.do \in Task, Fits(e, task, p),
           NEW m, NEW o, NEW a, ValueOf(e, m, o, a),
           Origin("value", m.at) \in Region(e, task, p),
           Origin("attribute", PlaceOf(o, a)) \notin Region(e, task, p)
    PROVE  /\ task.do \in Judging /\ Owner(p) = PlaceOf(o, a) /\ task.of = a /\ p # <<>>
<1> DEFINE q == PlaceOf(o, a)
<1>1. /\ o \in Entered(e) /\ a \in AttributesAt(e, o) /\ q \in Path /\ Owner(m.at) = q
      /\ m.at \in Path /\ m \in Values(e)
  BY ValueFrom
<1>2. Origin("attribute", q) \in Origins(e)
  BY <1>1, Origined
<1>3. q # <<>> /\ IsName(Last(q)) /\ Owner(q) = q
  BY <1>1, AttributeName DEF Owner
<1>4. \A r \in Path : Under(r, m.at) /\ r # m.at => Under(r, q)
  BY ValueAbove
<1>5. /\ Origin("attribute", q).at = q /\ Origin("value", m.at).at = m.at
      /\ \A r : Origin("attribute", q) = Origin("attribute", r) => q = r
      /\ \A r : Origin("value", m.at) # Origin("leave", r)
      /\ Origin("value", m.at) # End
  BY OriginDiffer
<1>6. CASE task.do = "value"
  <2>1. PICK u \in Entered(e) : ValueOf(e, Node(p, task.value), u, task.of)
    BY <1>6 DEF Fits
  <2>2. /\ Owner(p) = PlaceOf(u, task.of) /\ task.of \in AttributesAt(e, u) /\ p # <<>>
    BY <2>1, ValueFrom, ValuePlace DEF Node
  <2>3. \A x : x \in Region(e, task, p) <=> x \in Origins(e) /\ Under(p, x.at) /\ x # Origin("attribute", p)
    BY <1>6 DEF Region, ValueRegion, PlaceRegion
  <2>4. Owner(p) = q
    <3>1. CASE p = m.at
      BY <1>1, <3>1
    <3>2. CASE p # m.at
      <4>1. Under(p, q)
        BY <1>4, <1>5, <2>3, <3>2
      <4>2. p = q
        BY <1>2, <1>5, <2>3, <4>1
      <4>3. QED BY <1>3, <4>2
    <3>3. QED BY <3>1, <3>2
  <2>5. task.of = a
    BY <1>1, <2>1, <2>2, <2>4, PlaceOnly
  <2>6. QED BY <1>6, <2>2, <2>4, <2>5 DEF Judging
<1>7. CASE task.do = "array"
  <2>1. PICK u \in Entered(e) : /\ Gives(e, u, task.of) /\ p = PlaceOf(u, task.of)
                                /\ task.value = At(u.value, task.of.name)
    BY <1>7 DEF Fits
  <2>2. task.of \in AttributesAt(e, u) /\ task.value.k = "array" /\ Present(At(u.value, task.of.name))
    BY <1>7, <2>1 DEF Fits, Gives, Present
  <2>3. p # <<>> /\ Owner(p) = p
    BY <2>1, <2>2, AttributeName DEF Owner
  <2>4. PICK k \in DOMAIN task.value.of : k >= task.next /\ Under(Append(p, Index[k]), m.at)
    BY <1>5, <1>7 DEF Region, ArrayRegion
  <2>5. Index[k] \in Element /\ ~IsName(Index[k])
    BY <2>1, <2>2, ElementFacts
  <2>6. Append(p, Index[k]) \in Path /\ Last(Append(p, Index[k])) = Index[k] /\ Front(Append(p, Index[k])) = p
    BY <2>5, Longer
  <2>7. CASE Append(p, Index[k]) = m.at
    <3>1. Owner(m.at) = p
      BY <2>5, <2>6, <2>7 DEF Owner
    <3>2. p = q
      BY <1>1, <3>1
    <3>3. task.of = a
      BY <1>1, <2>1, <2>2, <3>2, PlaceOnly
    <3>4. QED BY <1>7, <2>3, <3>2, <3>3 DEF Judging
  <2>8. CASE Append(p, Index[k]) # m.at
    <3>1. Under(Append(p, Index[k]), q)
      BY <1>4, <2>4, <2>6, <2>8
    <3>2. Origin("attribute", q) \in ArrayRegion(e, p, task.value, task.next)
      BY <1>2, <1>5, <2>4, <3>1 DEF ArrayRegion
    <3>3. QED BY <1>7, <3>2 DEF Region
  <2>9. QED BY <2>7, <2>8
<1>8. CASE task.do = "item"
  <2>1. PICK k \in DOMAIN Attributes(task.type) :
          k >= task.next /\ Under(Append(p, Attributes(task.type)[k].name), m.at)
    BY <1>5, <1>8 DEF Region, ItemRegion
  <2> DEFINE x == Attributes(task.type)[k].name
             r == Append(p, x)
  <2>2. task.type \in DOMAIN Schema
    BY <1>8, EnteredNode DEF Fits
  <2>3. x \in Element /\ IsName(x)
    BY <2>2, AttributeFacts
  <2>4. r \in Path /\ Last(r) = x
    BY <2>3, Longer
  <2>5. Under(r, q)
    <3>1. CASE r = m.at
      BY <1>1, <2>3, <2>4, <3>1, UnderItself DEF Owner
    <3>2. CASE r # m.at
      BY <1>4, <2>1, <2>4, <3>2
    <3>3. QED BY <3>1, <3>2
  <2>6. Origin("attribute", q) \in ItemRegion(e, p, task.type, task.next)
    BY <1>2, <1>5, <2>1, <2>5 DEF ItemRegion
  <2>7. QED BY <1>8, <2>6 DEF Region
<1>9. CASE task.do = "leave"
  BY <1>5, <1>9 DEF Region
<1>10. CASE task.do = "end"
  BY <1>5, <1>10 DEF Region
<1>11. CASE task.do = "pop"
  BY <1>11 DEF Region
<1>12. QED BY <1>6, <1>7, <1>8, <1>9, <1>10, <1>11 DEF Task

(* Length, domain and last of the visits.                                  *)
LEMMA SeenFacts ==
    ASSUME NEW seen \in Seq(Path)
    PROVE  /\ DOMAIN seen = 1 .. Len(seen) /\ Len(seen) \in Nat
           /\ \A i \in 1 .. Len(seen) : seen[i] \in ToSet(seen)
           /\ seen # <<>> => Len(seen) \in DOMAIN seen /\ seen[Len(seen)] = Last(seen)
<1>1. DOMAIN seen = 1 .. Len(seen) /\ Len(seen) \in Nat
  BY LenProperties
<1>2. seen = <<>> <=> Len(seen) = 0
  BY EmptySeq
<1>3. QED BY <1>1, <1>2 DEF Last, ToSet

(* The walk stops: what it says first is where it stopped first.           *)
LEMMA LimitStop ==
    ASSUME NEW e \in Events, NEW tasks, NEW at, NEW seen, NEW said, NEW said2,
           Plan(e, tasks, at, seen), tasks # <<>>, tasks[1].do = "value",
           Node(at[1], tasks[1].value) \in Limited(e),
           VisitsInv(e, Past(e, tasks, at), seen), LimitInv(e, Past(e, tasks, at), seen, said),
           said2 = IF \E i \in DOMAIN said : said[i].code = "EventTraversalLimited" THEN said
                   ELSE Append(said, Limit(at[1])), NEW D
    PROVE  LimitInv(e, Past(e, tasks, at) \cup D, seen, said2)
<1> DEFINE past == Past(e, tasks, at)
           v == Node(at[1], tasks[1].value)
<1>1. /\ DOMAIN tasks = 1 .. Len(tasks) /\ 1 \in DOMAIN tasks /\ at[1] \in Path /\ Fits(e, tasks[1], at[1])
  BY PlanFirst
<1>2. PICK u \in Entered(e) : ValueOf(e, v, u, tasks[1].of)
  BY <1>1 DEF Fits
<1>3. v.at = at[1] /\ Prior(tasks[1], at[1])
  BY <1>2, ValueStatus DEF Node, Prior
<1>4. seen # <<>> /\ Owner(at[1]) = Last(seen)
  BY <1>1, <1>3, Behind DEF Judging
<1>5. seen \in Seq(Path) /\ IsInjective(seen)
  BY DEF VisitsInv
<1>6. CASE said = <<>> /\ \A m \in Limited(e) : Origin("value", m.at) \notin past
  <2>1. said2 = <<Limit(at[1])>>
    <3>1. ~\E i \in DOMAIN said : said[i].code = "EventTraversalLimited"
      BY <1>6, EmptyPath
    <3>2. said2 = Append(<<>>, Limit(at[1]))
      BY <1>6, <3>1
    <3>3. Append(<<>>, Limit(at[1])) = <<Limit(at[1])>>
      OBVIOUS
    <3>4. QED BY <3>2, <3>3
  <2>2. ASSUME NEW m \in Limited(e), NEW j \in DOMAIN seen, seen[j] = Owner(m.at)
        PROVE  j = Len(seen)
    <3>1. m \in Values(e)
      BY DEF Limited
    <3>2. PICK o, a : ValueOf(e, m, o, a)
      BY <3>1, ValueHas
    <3>3. /\ o \in Entered(e) /\ a \in AttributesAt(e, o) /\ Owner(m.at) = PlaceOf(o, a)
          /\ m.at \in Path /\ m.at # <<>> /\ HasPriorAttribute(m.at, a.name)
      BY <2>2, <3>2, ValueFrom, ValuePlace, ValueStatus
    <3>4. Origin("attribute", PlaceOf(o, a)) \in past
      <4>1. seen[j] \in ToSet(seen)
        BY <1>5, SeenFacts
      <4>2. QED BY <2>2, <3>3, <4>1 DEF VisitsInv
    <3>5. Origin("value", m.at) \in Origins(e) /\ Origin("value", m.at) \notin past
      BY <1>6, <3>1, Origined
    <3>6. PICK k \in DOMAIN tasks : Origin("value", m.at) \in Region(e, tasks[k], at[k])
      BY <3>5 DEF Past
    <3>7. Origin("attribute", PlaceOf(o, a)) \notin Region(e, tasks[k], at[k])
      BY <3>4 DEF Past
    <3>8. at[k] \in Path /\ tasks[k].do \in Task /\ Fits(e, tasks[k], at[k])
      BY DEF Plan
    <3>9. /\ tasks[k].do \in Judging /\ Owner(at[k]) = PlaceOf(o, a) /\ tasks[k].of = a /\ at[k] # <<>>
      BY <3>2, <3>6, <3>7, <3>8, Detached
    <3>10. Prior(tasks[k], at[k])
      <4>1. HasPriorAttribute(PlaceOf(o, a), a.name)
        BY <3>3, PriorOwner
      <4>2. QED BY <3>8, <3>9, <4>1, PriorOwner DEF Prior
    <3>11. Owner(at[k]) = Last(seen)
      BY <3>9, <3>10, Behind
    <3>12. seen[j] = seen[Len(seen)] /\ Len(seen) \in DOMAIN seen
      BY <1>4, <1>5, <2>2, <3>3, <3>9, <3>11, SeenFacts
    <3>13. QED BY <1>5, <3>12 DEF IsInjective
  <2>3. Len(seen) \in DOMAIN seen /\ seen[Len(seen)] = Owner(v.at) /\ Len(seen) \in Nat
    BY <1>3, <1>4, <1>5, SeenFacts
  <2>4. \A m \in Limited(e), j \in DOMAIN seen : seen[j] = Owner(m.at) => Len(seen) <= j
    BY <2>2, <2>3
  <2>5. v \in Limited(e) /\ said2 = <<Limit(v.at)>>
    BY <1>3, <2>1
  <2> HIDE DEF v
  <2>6. QED BY <2>3, <2>4, <2>5 DEF LimitInv
<1>7. CASE \E n \in Limited(e) :
         /\ said = <<Limit(n.at)>>
         /\ \E i \in DOMAIN seen :
              /\ seen[i] = Owner(n.at)
              /\ \A m \in Limited(e), j \in DOMAIN seen : seen[j] = Owner(m.at) => i <= j
  <2>1. PICK n \in Limited(e) :
         /\ said = <<Limit(n.at)>>
         /\ \E i \in DOMAIN seen :
              /\ seen[i] = Owner(n.at)
              /\ \A m \in Limited(e), j \in DOMAIN seen : seen[j] = Owner(m.at) => i <= j
    BY <1>7
  <2>2. 1 \in DOMAIN said /\ said[1].code = "EventTraversalLimited"
    BY <2>1 DEF Limit, Finding
  <2>3. said2 = said
    BY <2>2
  <2>4. QED BY <2>1, <2>3 DEF LimitInv
<1>8. QED BY <1>6, <1>7 DEF LimitInv

(* Nothing that stops the walk is done with, and one more visit.           *)
LEMMA LimitStays ==
    ASSUME NEW e \in Events, NEW past, NEW D, NEW seen \in Seq(Path), NEW said, LimitInv(e, past, seen, said),
           \A m \in Limited(e) : Origin("value", m.at) \notin D
    PROVE  /\ LimitInv(e, past \cup D, seen, said)
           /\ \A q \in Path : LimitInv(e, past \cup D, Append(seen, q), said)
<1>1. LimitInv(e, past \cup D, seen, said)
  BY DEF LimitInv
<1>2. ASSUME NEW q \in Path PROVE LimitInv(e, past \cup D, Append(seen, q), said)
  <2> DEFINE s == Append(seen, q)
             n == Len(seen)
  <2>1. /\ DOMAIN s = 1 .. n + 1 /\ DOMAIN seen = 1 .. n /\ n \in Nat
        /\ \A i \in 1 .. n : s[i] = seen[i]
    BY AppendProperties, LenProperties
  <2> HIDE DEF s
  <2>2. CASE said = <<>> /\ \A m \in Limited(e) : Origin("value", m.at) \notin past
    BY <2>2 DEF LimitInv
  <2>3. ASSUME NEW l \in Limited(e), said = <<Limit(l.at)>>, NEW i \in DOMAIN seen,
               seen[i] = Owner(l.at),
               \A m \in Limited(e), j \in DOMAIN seen : seen[j] = Owner(m.at) => i <= j
        PROVE  LimitInv(e, past \cup D, s, said)
    <3>1. i \in DOMAIN s /\ s[i] = Owner(l.at)
      BY <2>1, <2>3
    <3>2. ASSUME NEW m \in Limited(e), NEW j \in DOMAIN s, s[j] = Owner(m.at) PROVE i <= j
      <4>1. CASE j \in 1 .. n
        BY <2>1, <2>3, <3>2, <4>1
      <4>2. CASE j = n + 1
        BY <2>1, <2>3, <4>2
      <4>3. QED BY <2>1, <4>1, <4>2
    <3>3. QED BY <2>3, <3>1, <3>2 DEF LimitInv
  <2>4. LimitInv(e, past \cup D, s, said)
    BY <2>2, <2>3 DEF LimitInv
  <2>5. QED BY <2>4 DEF s
<1>3. QED BY <1>1, <1>2

-----------------------------------------------------------------------------
(* Visits: of the attributes that are done with.                           *)
LEMMA VisitsStay ==
    ASSUME NEW e \in Events, NEW past, NEW D, NEW seen, VisitsInv(e, past, seen),
           \A o \in Entered(e) : \A a \in AttributesAt(e, o) :
             Gives(e, o, a) => Origin("attribute", PlaceOf(o, a)) \notin D
    PROVE  VisitsInv(e, past \cup D, seen)
BY DEF VisitsInv

(* One more attribute is visited.                                          *)
LEMMA VisitsMore ==
    ASSUME NEW e \in Events, NEW past, NEW seen, VisitsInv(e, past, seen),
           NEW o, NEW a, Gives(e, o, a), Origin("attribute", PlaceOf(o, a)) \notin past
    PROVE  VisitsInv(e, past \cup {Origin("attribute", PlaceOf(o, a))}, Append(seen, PlaceOf(o, a)))
<1> DEFINE q == PlaceOf(o, a)
           s == Append(seen, q)
           n == Len(seen)
<1>1. seen \in Seq(Path) /\ IsInjective(seen)
  BY DEF VisitsInv
<1>2. o \in Entered(e) /\ a \in AttributesAt(e, o) /\ q \in Path
  BY AttributeName DEF Gives
<1>3. /\ s \in Seq(Path) /\ DOMAIN s = 1 .. n + 1 /\ DOMAIN seen = 1 .. n /\ n \in Nat
      /\ \A i \in 1 .. n : s[i] = seen[i]
      /\ s[n + 1] = q
  BY <1>1, <1>2, AppendProperties, LenProperties
<1> HIDE DEF s
<1>4. q \notin ToSet(seen)
  BY DEF VisitsInv
<1>5. ToSet(s) = ToSet(seen) \cup {q}
  BY <1>3 DEF ToSet
<1>6. IsInjective(s)
  <2>1. ASSUME NEW i \in 1 .. n + 1, NEW j \in 1 .. n + 1, s[i] = s[j] PROVE i = j
    <3>1. \A k \in 1 .. n : s[k] # q
      BY <1>3, <1>4 DEF ToSet
    <3>2. \A k \in 1 .. n + 1 : k \in 1 .. n \/ k = n + 1
      BY <1>3
    <3>3. QED BY <1>1, <1>3, <2>1, <3>1, <3>2 DEF IsInjective
  <2>2. QED BY <1>3, <2>1 DEF IsInjective
<1>7. \A u \in Entered(e) : \A b \in AttributesAt(e, u) :
        Origin("attribute", PlaceOf(u, b)) = Origin("attribute", q) => PlaceOf(u, b) = q
  BY OriginDiffer
<1>8. /\ \A r \in ToSet(seen) : \E u \in Entered(e) : \E b \in AttributesAt(e, u) :
           Gives(e, u, b) /\ r = PlaceOf(u, b) /\ Origin("attribute", r) \in past
      /\ \A u \in Entered(e) : \A b \in AttributesAt(e, u) :
           Gives(e, u, b) /\ Origin("attribute", PlaceOf(u, b)) \in past => PlaceOf(u, b) \in ToSet(seen)
  BY DEF VisitsInv
<1> DEFINE past2 == past \cup {Origin("attribute", q)}
<1>9. /\ \A r \in ToSet(s) : \E u \in Entered(e) : \E b \in AttributesAt(e, u) :
           Gives(e, u, b) /\ r = PlaceOf(u, b) /\ Origin("attribute", r) \in past2
      /\ \A u \in Entered(e) : \A b \in AttributesAt(e, u) :
           Gives(e, u, b) /\ Origin("attribute", PlaceOf(u, b)) \in past2 => PlaceOf(u, b) \in ToSet(s)
  BY <1>2, <1>5, <1>7, <1>8
<1>10. VisitsInv(e, past2, s)
  BY <1>3, <1>6, <1>9 DEF VisitsInv
<1>11. QED BY <1>10 DEF s

-----------------------------------------------------------------------------
(* What is raised on a condition.                                          *)
LEMMA WhenFacts ==
    ASSUME NEW b, NEW code, NEW p
    PROVE  /\ Sequence(When(b, code, p)) /\ IsInjective(When(b, code, p))
           /\ \A f : f \in ToSet(When(b, code, p)) <=> b /\ f = Finding(code, p)
<1>1. CASE b
  <2> DEFINE f0 == Finding(code, p)
  <2>1. When(b, code, p) = <<f0>>
    BY <1>1 DEF When
  <2> HIDE DEF f0
  <2>2. ToSet(<<f0>>) = {f0} /\ IsInjective(<<f0>>)
    BY DEF ToSet, IsInjective
  <2>3. <<f0>> \in Seq({f0})
    OBVIOUS
  <2>4. QED BY <1>1, <2>1, <2>2, <2>3 DEF f0, Sequence
<1>2. CASE ~b
  <2>1. When(b, code, p) = <<>>
    BY <1>2 DEF When
  <2>2. ToSet(<<>>) = {} /\ IsInjective(<<>>) /\ <<>> \in Seq({})
    BY DEF ToSet, IsInjective
  <2>3. QED BY <1>2, <2>1, <2>2 DEF Sequence
<1>3. QED BY <1>1, <1>2

(* One after the other.                                                    *)
LEMMA JoinDistinct ==
    ASSUME NEW s, NEW t, Sequence(s), Sequence(t), IsInjective(s), IsInjective(t),
           ToSet(s) \cap ToSet(t) = {}
    PROVE  /\ Sequence(s \o t) /\ IsInjective(s \o t)
           /\ \A f : f \in ToSet(s \o t) <=> f \in ToSet(s) \/ f \in ToSet(t)
<1>1. /\ Sequence(s \o t) /\ ToSet(s \o t) = ToSet(s) \cup ToSet(t)
      /\ Len(s) \in Nat /\ Len(t) \in Nat
      /\ DOMAIN (s \o t) = 1 .. Len(s) + Len(t)
      /\ \A i \in 1 .. Len(s) : (s \o t)[i] = s[i]
      /\ \A i \in 1 .. Len(t) : (s \o t)[Len(s) + i] = t[i]
  BY SequenceJoin
<1>2. /\ DOMAIN s = 1 .. Len(s) /\ DOMAIN t = 1 .. Len(t)
      /\ \A i \in 1 .. Len(s) : s[i] \in ToSet(s)
      /\ \A i \in 1 .. Len(t) : t[i] \in ToSet(t)
  BY SequenceFacts DEF Sequence
<1> DEFINE u == s \o t
<1>3. \A i \in 1 .. Len(s) + Len(t) :
        \/ i \in 1 .. Len(s) /\ u[i] = s[i]
        \/ i - Len(s) \in 1 .. Len(t) /\ i > Len(s) /\ u[i] = t[i - Len(s)]
  <2> TAKE i \in 1 .. Len(s) + Len(t)
  <2>1. CASE i <= Len(s)
    BY <1>1, <2>1
  <2>2. CASE i > Len(s)
    <3>1. i - Len(s) \in 1 .. Len(t) /\ Len(s) + (i - Len(s)) = i
      BY <1>1, <2>2
    <3>2. QED BY <1>1, <2>2, <3>1
  <2>3. QED BY <1>1, <2>1, <2>2
<1>4. \A i, j \in 1 .. Len(s) : s[i] = s[j] => i = j
  BY <1>2 DEF IsInjective
<1>5. \A i, j \in 1 .. Len(t) : t[i] = t[j] => i = j
  BY <1>2 DEF IsInjective
<1> HIDE DEF u
<1>6. \A i, j \in 1 .. Len(s) + Len(t) : u[i] = u[j] => i = j
  BY <1>1, <1>2, <1>3, <1>4, <1>5
<1>7. IsInjective(u)
  BY <1>1, <1>6 DEF IsInjective, u
<1>8. QED BY <1>1, <1>7 DEF u

-----------------------------------------------------------------------------
(* The tally after one more origin is done.                                *)
LEMMA TallyMore ==
    ASSUME NEW e \in Events, NEW past, NEW x \in Origins(e), x \notin past,
           NEW raised, Sequence(raised), IsInjective(raised),
           \A f : f \in ToSet(raised) <=> RaisedAt(e, x, f),
           Tally(FoundIn(e, past), findings, suppressed), Raise(raised)
    PROVE  Tally(FoundIn(e, past \cup {x}), findings', suppressed')
<1>1. \A f : f \in FoundIn(e, {x}) <=> RaisedAt(e, x, f)
  BY FoundAt
<1>2. ToSet(raised) = FoundIn(e, {x})
  BY <1>1
<1>3. /\ FoundIn(e, past \cup {x}) = FoundIn(e, past) \cup FoundIn(e, {x})
      /\ FoundIn(e, past) \cap FoundIn(e, {x}) = {}
  BY FoundWith
<1> DEFINE F == FoundIn(e, past)
<1>4. ToSet(raised) \cap F = {} /\ Tally(F, findings, suppressed)
  BY <1>2, <1>3
<1> HIDE DEF F
<1>5. Tally(F \cup ToSet(raised), findings', suppressed')
  BY <1>4, RaiseTally
<1>6. QED BY <1>2, <1>3, <1>5 DEF F

(* Compiled once and for all.                                              *)
LEMMA SameTally ==
    ASSUME UNCHANGED policyVars, NEW F, NEW r, NEW c, Tally(F, r, c)
    PROVE  Compiled' = Compiled /\ Tally(F, r, c)'
<1>1. policy' = policy /\ rules' = rules /\ taken' = taken /\ problems' = problems
  BY DEF policyVars
<1>2. \A code : FindingLevel(code)' = FindingLevel(code)
  BY <1>1 DEF FindingLevel
<1>3. Compiled' = Compiled
  BY <1>1 DEF Compiled
<1>4. Shown(F)' = Shown(F) /\ \A level : Hidden(F, level)' = Hidden(F, level)
  BY <1>2 DEF Shown, Hidden
<1>5. Tally(F, r, c)'
  BY <1>2, <1>4 DEF Tally
<1>6. QED BY <1>3, <1>5

(* A state of the walk.                                                    *)
LEMMA Walked ==
    ASSUME NEW e \in Events, NEW at2, NEW past2, NEW tasks2, NEW seen2, NEW said2, NEW r, NEW c,
           Compiled, UNCHANGED policyVars, event' = e, ClassIssue(e.item) = "none",
           todo' = tasks2, visits' = seen2, issues' = said2, findings' = r, suppressed' = c,
           Plan(e, tasks2, at2, seen2), path' = at2[1], past2 = Past(e, tasks2, at2),
           VisitsInv(e, past2, seen2), LimitInv(e, past2, seen2, said2),
           Tally(FoundIn(e, past2), r, c), done' <=> tasks2 = <<>>
    PROVE  Walking(at2)'
<1>1. Compiled' /\ Tally(FoundIn(e, past2), r, c)'
  BY SameTally
<1>2. ClassIssue(event'.item) = "none"
  OBVIOUS
<1>3. QED BY <1>1, <1>2 DEF Walking

-----------------------------------------------------------------------------
(* A state of the walk, value by value.                                    *)
Now(e, tasks, at, seen, said, r, c) ==
    /\ event = e /\ todo = tasks /\ visits = seen /\ issues = said /\ findings = r /\ suppressed = c
    /\ e \in Events /\ Compiled /\ ClassIssue(e.item) = "none"
    /\ Plan(e, tasks, at, seen) /\ path = at[1]
    /\ VisitsInv(e, Past(e, tasks, at), seen)
    /\ LimitInv(e, Past(e, tasks, at), seen, said)
    /\ Tally(FoundIn(e, Past(e, tasks, at)), r, c)
    /\ done <=> tasks = <<>>

(* What a task with nothing after it leaves.                               *)
LEMMA DropStep ==
    ASSUME NEW e, NEW tasks, NEW at, NEW seen, NEW said, NEW r, NEW c, NEW D,
           Now(e, tasks, at, seen, said, r, c), tasks # <<>>,
           UNCHANGED <<policyVars, event, visits>>, todo' = <<>> \o Tail(todo), path' = at[2],
           D = Region(e, tasks[1], at[1]),
           \A o \in Entered(e) : \A a \in AttributesAt(e, o) :
             Gives(e, o, a) => Origin("attribute", PlaceOf(o, a)) \notin D,
           LimitInv(e, Past(e, tasks, at) \cup D, seen, issues'),
           Tally(FoundIn(e, Past(e, tasks, at) \cup D), findings', suppressed'),
           done' <=> tasks[1].do = "end"
    PROVE  \E at2 : Walking(at2)'
<1>1. PICK tasks2 : tasks2 = <<>> \o Tail(tasks)
  OBVIOUS
<1>2. PICK at2 : at2 = <<>> \o Tail(at)
  OBVIOUS
<1>3. PICK said2 : said2 = issues'
  OBVIOUS
<1>4. PICK r2 : r2 = findings'
  OBVIOUS
<1>5. PICK c2 : c2 = suppressed'
  OBVIOUS
<1>6. PICK past2 : past2 = Past(e, tasks, at) \cup D
  OBVIOUS
<1>7. e \in Events /\ Plan(e, tasks, at, seen)
  BY DEF Now
<1>8. /\ Plan(e, tasks2, at2, seen) /\ past2 = Past(e, tasks2, at2)
      /\ at2[1] = at[2] /\ (tasks2 = <<>> <=> tasks[1].do = "end")
  BY <1>1, <1>2, <1>6, <1>7, Drop
<1>9. VisitsInv(e, past2, seen)
  BY <1>6, <1>7, VisitsStay DEF Now
<1>10. /\ Compiled /\ UNCHANGED policyVars /\ event' = e /\ ClassIssue(e.item) = "none"
       /\ todo' = tasks2 /\ visits' = seen /\ path' = at2[1] /\ (done' <=> tasks2 = <<>>)
  BY <1>1, <1>8 DEF Now
<1>11. LimitInv(e, past2, seen, said2) /\ Tally(FoundIn(e, past2), r2, c2)
  BY <1>3, <1>4, <1>5, <1>6
<1>12. Walking(at2)'
  BY ONLY <1>3, <1>4, <1>5, <1>7, <1>8, <1>9, <1>10, <1>11, Walked
<1>13. QED BY <1>12

(* The task at hand.                                                       *)
LEMMA NowFirst ==
    ASSUME NEW e, NEW tasks, NEW at, NEW seen, NEW said, NEW r, NEW c,
           Now(e, tasks, at, seen, said, r, c), NEW do, Doing(do)
    PROVE  /\ e \in Events /\ tasks # <<>> /\ Head(todo) = tasks[1] /\ tasks[1].do = do
           /\ path = at[1] /\ at[1] \in Path /\ at[2] = After(tasks[1], at[1])
           /\ Fits(e, tasks[1], at[1])
           /\ Tally(FoundIn(e, Past(e, tasks, at)), findings, suppressed)
           /\ Plan(e, tasks, at, seen)
           /\ Past(e, tasks, at) \cap Region(e, tasks[1], at[1]) = {}
<1>1. /\ e \in Events /\ tasks # <<>> /\ Head(tasks).do = do /\ path = at[1] /\ todo = tasks
      /\ Tally(FoundIn(e, Past(e, tasks, at)), findings, suppressed)
      /\ Plan(e, tasks, at, seen)
  BY DEF Now, Doing
<1>2. /\ Head(tasks) = tasks[1] /\ at[1] \in Path /\ at[2] = After(tasks[1], at[1])
      /\ Fits(e, tasks[1], at[1])
  BY <1>1, PlanFirst
<1>3. Past(e, tasks, at) \cap Region(e, tasks[1], at[1]) = {}
  BY <1>1, Drop
<1>4. QED BY <1>1, <1>2, <1>3

(* Nothing is done by the end of a loop or on the way up.                  *)
LEMMA NoRegion ==
    ASSUME NEW e, NEW tasks, NEW at, NEW seen, NEW said, NEW r, NEW c,
           Now(e, tasks, at, seen, said, r, c), tasks # <<>>, tasks[1].do # "end",
           UNCHANGED <<policyVars, event, visits, findings, suppressed, issues, done>>,
           todo' = <<>> \o Tail(todo), path' = at[2],
           Region(e, tasks[1], at[1]) = {}
    PROVE  \E at2 : Walking(at2)'
<1> DEFINE D == Region(e, tasks[1], at[1])
<1>1. Past(e, tasks, at) \cup D = Past(e, tasks, at) /\ \A x : x \notin D
  OBVIOUS
<1>2. /\ LimitInv(e, Past(e, tasks, at), seen, issues')
      /\ Tally(FoundIn(e, Past(e, tasks, at)), findings', suppressed')
      /\ done' <=> tasks[1].do = "end"
      /\ UNCHANGED <<policyVars, event, visits>>
  BY DEF Now
<1>3. D = Region(e, tasks[1], at[1])
  OBVIOUS
<1> HIDE DEF D
<1>4. QED BY <1>1, <1>2, <1>3, DropStep

(* PopPath keeps the invariant of the walk.                                *)
LEMMA PopStep ==
    ASSUME NEW e, NEW tasks, NEW at, NEW seen, NEW said, NEW r, NEW c,
           Now(e, tasks, at, seen, said, r, c), PopPath
    PROVE  \E at2 : Walking(at2)'
<1>1. Doing("pop")
  BY DEF PopPath
<1>2. tasks # <<>> /\ tasks[1].do = "pop" /\ path = at[1] /\ at[2] = After(tasks[1], at[1])
  BY <1>1, NowFirst
<1>3. /\ UNCHANGED <<policyVars, event, visits, findings, suppressed, issues, done>>
      /\ todo' = <<>> \o Tail(todo) /\ path' = Front(path)
  BY DEF PopPath, Push
<1>4. path' = at[2] /\ Region(e, tasks[1], at[1]) = {} /\ tasks[1].do # "end"
  BY <1>2, <1>3 DEF After, Region
<1>5. QED BY <1>2, <1>3, <1>4, NoRegion

(* LoopDone keeps it.                                                      *)
LEMMA LoopStep ==
    ASSUME NEW e, NEW tasks, NEW at, NEW seen, NEW said, NEW r, NEW c,
           Now(e, tasks, at, seen, said, r, c), LoopDone
    PROVE  \E at2 : Walking(at2)'
<1>1. /\ UNCHANGED <<policyVars, event, path, visits, findings, suppressed, issues, done>>
      /\ todo' = <<>> \o Tail(todo)
  BY DEF LoopDone, Push
<1>2. CASE Doing("item") /\ Head(todo).next > Len(Attributes(Head(todo).type))
  <2>1. /\ e \in Events /\ tasks # <<>> /\ Head(todo) = tasks[1] /\ tasks[1].do = "item"
        /\ path = at[1] /\ at[2] = After(tasks[1], at[1]) /\ Fits(e, tasks[1], at[1])
    BY <1>2, NowFirst
  <2>2. /\ Node(at[1], tasks[1].item) \in Entered(e)
        /\ tasks[1].type = TypeAt(e, Node(at[1], tasks[1].item)) /\ tasks[1].next \in Nat
    BY <2>1 DEF Fits
  <2>3. tasks[1].type \in DOMAIN Schema
    BY <2>1, <2>2, EnteredNode
  <2>4. Region(e, tasks[1], at[1]) = {}
    BY <1>2, <2>1, <2>2, <2>3, ItemEnd DEF Region
  <2>5. path' = at[2] /\ tasks[1].do # "end"
    BY <1>1, <2>1 DEF After
  <2>6. QED BY <1>1, <2>1, <2>4, <2>5, NoRegion
<1>3. CASE Doing("array") /\ Head(todo).next \notin DOMAIN Head(todo).value.of
  <2>1. /\ e \in Events /\ tasks # <<>> /\ Head(todo) = tasks[1] /\ tasks[1].do = "array"
        /\ path = at[1] /\ at[2] = After(tasks[1], at[1]) /\ Fits(e, tasks[1], at[1])
    BY <1>3, NowFirst
  <2>2. PICK o \in Entered(e) : Gives(e, o, tasks[1].of) /\ tasks[1].value = At(o.value, tasks[1].of.name)
    BY <2>1 DEF Fits
  <2>3. tasks[1].value.k = "array" /\ tasks[1].next \in Nat \ {0}
    BY <2>1 DEF Fits
  <2>4. WellFormed(tasks[1].value)
    BY <2>1, <2>2, <2>3, Attached DEF Gives, Present
  <2>5. PICK n \in Nat : DOMAIN tasks[1].value.of = 1 .. n
    BY <2>3, <2>4, Formed, Indexes
  <2>6. Region(e, tasks[1], at[1]) = {}
    BY <1>3, <2>1, <2>3, <2>5, ArrayEnd DEF Region
  <2>7. path' = at[2] /\ tasks[1].do # "end"
    BY <1>1, <2>1 DEF After
  <2>8. QED BY <1>1, <2>1, <2>6, <2>7, NoRegion
<1>4. QED BY <1>2, <1>3 DEF LoopDone

-----------------------------------------------------------------------------
(* The value at hand and its attribute.                                    *)
LEMMA NowValue ==
    ASSUME NEW e, NEW tasks, NEW at, NEW seen, NEW said, NEW r, NEW c,
           Now(e, tasks, at, seen, said, r, c), Doing("value"),
           NEW n, n = Node(at[1], tasks[1].value), NEW a, a = tasks[1].of
    PROVE  /\ n \in Values(e) /\ Declared(e, n.at) = a /\ n.at = at[1] /\ n.value = tasks[1].value
           /\ n \in Entered(e) <=> Enterable(a, n.value) /\ ~HasPriorAttribute(n.at, a.name)
           /\ n \in Limited(e) <=> Enterable(a, n.value) /\ HasPriorAttribute(n.at, a.name)
           /\ n \in Entered(e) => TypeAt(e, n) = a.type
           /\ at[2] = at[1] /\ path = at[1]
           /\ Origin("value", n.at) \in Origins(e)
           /\ Region(e, tasks[1], at[1]) = ValueRegion(e, n.at)
           /\ \A o \in Entered(e) : \A b \in AttributesAt(e, o) : Origin("attribute", PlaceOf(o, b)) # Origin("value", n.at)
<1>1. /\ e \in Events /\ tasks[1].do = "value" /\ Fits(e, tasks[1], at[1])
      /\ at[2] = After(tasks[1], at[1]) /\ path = at[1]
  BY NowFirst
<1>2. PICK o \in Entered(e) : ValueOf(e, n, o, a)
  BY <1>1 DEF Fits
<1>3. n.at = at[1] /\ n.value = tasks[1].value
  BY DEF Node
<1>4. n \in Values(e) /\ Declared(e, n.at) = a
  BY <1>1, <1>2, ValueFrom
<1>5. /\ n \in Entered(e) <=> Enterable(a, n.value) /\ ~HasPriorAttribute(n.at, a.name)
      /\ n \in Limited(e) <=> Enterable(a, n.value) /\ HasPriorAttribute(n.at, a.name)
      /\ n \in Entered(e) => TypeAt(e, n) = a.type
  BY <1>1, <1>2, ValueStatus
<1>6. at[2] = at[1] /\ Region(e, tasks[1], at[1]) = ValueRegion(e, n.at)
  BY <1>1, <1>3 DEF After, Region
<1>7. Origin("value", n.at) \in Origins(e)
  BY <1>1, <1>4, Origined
<1>8. \A q : Origin("attribute", q) # Origin("value", n.at)
  BY DEF Origin
<1>9. QED BY <1>1, <1>3, <1>4, <1>5, <1>6, <1>7, <1>8

(* A value that the walk does not look into.                               *)
LEMMA LeafFindings ==
    ASSUME NEW e \in Events, NEW n \in Values(e), NEW a, a = Declared(e, n.at), n \notin Entered(e),
           NEW raised, raised = ValueFindings(a, n.value, n.at)
    PROVE  /\ Sequence(raised) /\ IsInjective(raised)
           /\ \A f : f \in ToSet(raised) <=> RaisedAt(e, Origin("value", n.at), f)
<1> DEFINE b1 == n.value.k # (IF a.holds = "object" THEN "map" ELSE "int")
           b2 == a.holds = "object" /\ n.value.k = "map" /\ a.type \notin {"none"} \cup DOMAIN Schema
           f1 == Finding("AttributeWrongType", n.at)
           f2 == Finding("SchemaBugObjectMissing", n.at)
           s1 == When(b1, "AttributeWrongType", n.at)
           s2 == When(b2, "SchemaBugObjectMissing", n.at)
<1>1. raised = s1 \o s2
  BY DEF ValueFindings
<1>2. /\ Sequence(s1) /\ IsInjective(s1) /\ \A f : f \in ToSet(s1) <=> b1 /\ f = f1
  BY WhenFacts
<1>3. /\ Sequence(s2) /\ IsInjective(s2) /\ \A f : f \in ToSet(s2) <=> b2 /\ f = f2
  BY WhenFacts
<1>4. f1 # f2
  BY FindingDiffer
<1>5. \A code : code \in ValueFaults(e, n) <=> \/ b1 /\ code = "AttributeWrongType"
                                               \/ b2 /\ code = "SchemaBugObjectMissing"
  BY DEF ValueFaults, FindingCode
<1>6. \A f : RaisedAt(e, Origin("value", n.at), f) <=> \E code \in ValueFaults(e, n) : f = Finding(code, n.at)
  BY RaisedValue
<1>7. \A f : RaisedAt(e, Origin("value", n.at), f) <=> (b1 /\ f = f1) \/ (b2 /\ f = f2)
  BY <1>5, <1>6
<1> HIDE DEF b1, b2, f1, f2, s1, s2
<1>8. ToSet(s1) \cap ToSet(s2) = {}
  BY <1>2, <1>3, <1>4
<1>9. /\ Sequence(raised) /\ IsInjective(raised)
      /\ \A f : f \in ToSet(raised) <=> f \in ToSet(s1) \/ f \in ToSet(s2)
  BY <1>1, <1>2, <1>3, <1>8, JoinDistinct
<1>10. QED BY <1>2, <1>3, <1>7, <1>9

(* VisitLeaf keeps it.                                                     *)
LEMMA LeafStep ==
    ASSUME NEW e, NEW tasks, NEW at, NEW seen, NEW said, NEW r, NEW c,
           Now(e, tasks, at, seen, said, r, c), VisitLeaf
    PROVE  \E at2 : Walking(at2)'
<1>1. Doing("value")
  BY DEF VisitLeaf
<1>2. /\ e \in Events /\ tasks # <<>> /\ Head(todo) = tasks[1] /\ tasks[1].do = "value"
      /\ Plan(e, tasks, at, seen) /\ Tally(FoundIn(e, Past(e, tasks, at)), findings, suppressed)
      /\ Past(e, tasks, at) \cap Region(e, tasks[1], at[1]) = {}
  BY <1>1, NowFirst
<1>3. PICK n : n = Node(at[1], tasks[1].value)
  OBVIOUS
<1>4. PICK a : a = tasks[1].of
  OBVIOUS
<1>5. /\ n \in Values(e) /\ Declared(e, n.at) = a /\ n.at = at[1] /\ n.value = tasks[1].value
      /\ n \in Entered(e) <=> Enterable(a, n.value) /\ ~HasPriorAttribute(n.at, a.name)
      /\ n \in Limited(e) <=> Enterable(a, n.value) /\ HasPriorAttribute(n.at, a.name)
      /\ at[2] = at[1] /\ path = at[1]
      /\ Origin("value", n.at) \in Origins(e)
      /\ Region(e, tasks[1], at[1]) = ValueRegion(e, n.at)
      /\ \A o \in Entered(e) : \A b \in AttributesAt(e, o) : Origin("attribute", PlaceOf(o, b)) # Origin("value", n.at)
  BY <1>1, <1>3, <1>4, NowValue
<1>6. PICK raised : raised = ValueFindings(a, n.value, n.at)
  OBVIOUS
<1>7. /\ Raise(raised) /\ ~Enterable(a, n.value) /\ todo' = <<>> \o Tail(todo)
      /\ UNCHANGED <<policyVars, event, path, visits, issues, done>>
  BY <1>2, <1>4, <1>5, <1>6 DEF VisitLeaf, Push
<1>8. n \notin Entered(e) /\ n \notin Limited(e)
  BY <1>5, <1>7
<1> DEFINE x == Origin("value", n.at)
           past == Past(e, tasks, at)
<1>9. Region(e, tasks[1], at[1]) = {x}
  BY <1>2, <1>5, <1>8, LeafSplit
<1>10. x \notin past
  BY <1>2, <1>9
<1>11. /\ Sequence(raised) /\ IsInjective(raised)
       /\ \A f : f \in ToSet(raised) <=> RaisedAt(e, x, f)
  BY <1>2, <1>5, <1>6, <1>8, LeafFindings
<1>12. Tally(FoundIn(e, past \cup {x}), findings', suppressed')
  <2> HIDE DEF x, past
  <2>1. x \in Origins(e) /\ Tally(FoundIn(e, past), findings, suppressed)
    BY <1>2, <1>5 DEF x, past
  <2>2. QED BY <1>2, <1>7, <1>10, <1>11, <2>1, TallyMore
<1>13. LimitInv(e, past \cup {x}, seen, issues')
  <2>1. \A m \in Limited(e) : Origin("value", m.at) \notin {x}
    <3>1. \A m \in Limited(e) : Origin("value", m.at) = x => m.at = n.at
      BY DEF Origin
    <3>2. \A m \in Limited(e) : m \in Values(e)
      BY DEF Limited
    <3>3. QED BY <1>2, <1>5, <1>8, <3>1, <3>2, ValueOnly
  <2>2. seen \in Seq(Path) /\ LimitInv(e, past, seen, said) /\ issues' = said
    BY <1>7 DEF Now, VisitsInv
  <2> HIDE DEF x, past
  <2>3. QED BY <1>2, <2>1, <2>2, LimitStays
<1>14. /\ UNCHANGED <<policyVars, event, visits>> /\ path' = at[2]
       /\ (done' <=> tasks[1].do = "end")
  BY <1>2, <1>5, <1>7 DEF Now
<1>15. \A o \in Entered(e) : \A b \in AttributesAt(e, o) :
         Gives(e, o, b) => Origin("attribute", PlaceOf(o, b)) \notin {x}
  BY <1>5
<1>16. Now(e, tasks, at, seen, said, r, c) /\ todo' = <<>> \o Tail(todo) /\ {x} = Region(e, tasks[1], at[1])
       /\ LimitInv(e, Past(e, tasks, at) \cup {x}, seen, issues')
       /\ Tally(FoundIn(e, Past(e, tasks, at) \cup {x}), findings', suppressed')
  BY <1>7, <1>9, <1>12, <1>13
<1> HIDE DEF x, past
<1>17. QED BY ONLY <1>2, <1>14, <1>15, <1>16, DropStep

(* An object below the boundary has nothing wrong.                         *)
LEMMA BoundaryFinds ==
    ASSUME NEW e \in Events, NEW n \in Values(e), n \notin Entered(e),
           Enterable(Declared(e, n.at), n.value), NEW past
    PROVE  FoundIn(e, past \cup {Origin("value", n.at)}) = FoundIn(e, past)
<1> DEFINE x == Origin("value", n.at)
<1>1. ValueFaults(e, n) = {}
  BY DEF ValueFaults, FindingCode, Enterable
<1>2. \A f : ~RaisedAt(e, x, f)
  BY <1>1, RaisedValue
<1> HIDE DEF x
<1>3. QED BY <1>2 DEF FoundIn, x

(* StopAtBoundary keeps it.                                                *)
LEMMA BoundaryStep ==
    ASSUME NEW e, NEW tasks, NEW at, NEW seen, NEW said, NEW r, NEW c,
           Now(e, tasks, at, seen, said, r, c), StopAtBoundary
    PROVE  \E at2 : Walking(at2)'
<1>1. Doing("value")
  BY DEF StopAtBoundary
<1>2. /\ e \in Events /\ tasks # <<>> /\ Head(todo) = tasks[1] /\ tasks[1].do = "value"
      /\ Plan(e, tasks, at, seen) /\ Tally(FoundIn(e, Past(e, tasks, at)), findings, suppressed)
  BY <1>1, NowFirst
<1>3. PICK n : n = Node(at[1], tasks[1].value)
  OBVIOUS
<1>4. PICK a : a = tasks[1].of
  OBVIOUS
<1>5. /\ n \in Values(e) /\ Declared(e, n.at) = a /\ n.at = at[1] /\ n.value = tasks[1].value
      /\ n \in Entered(e) <=> Enterable(a, n.value) /\ ~HasPriorAttribute(n.at, a.name)
      /\ n \in Limited(e) <=> Enterable(a, n.value) /\ HasPriorAttribute(n.at, a.name)
      /\ at[2] = at[1] /\ path = at[1]
      /\ Region(e, tasks[1], at[1]) = ValueRegion(e, n.at)
      /\ \A o \in Entered(e) : \A b \in AttributesAt(e, o) : Origin("attribute", PlaceOf(o, b)) # Origin("value", n.at)
  BY <1>1, <1>3, <1>4, NowValue
<1>6. PICK said2 : said2 = issues'
  OBVIOUS
<1>7. /\ Enterable(a, n.value) /\ HasPriorAttribute(n.at, a.name) /\ todo' = <<>> \o Tail(todo)
      /\ said2 = (IF \E i \in DOMAIN said : said[i].code = "EventTraversalLimited" THEN said
                  ELSE Append(said, Limit(at[1])))
      /\ UNCHANGED <<policyVars, event, path, visits, findings, suppressed, done>>
  BY <1>2, <1>4, <1>5, <1>6 DEF StopAtBoundary, Push, Now, Limit
<1>8. n \notin Entered(e) /\ n \in Limited(e)
  BY <1>5, <1>7
<1> DEFINE x == Origin("value", n.at)
           past == Past(e, tasks, at)
<1>9. Region(e, tasks[1], at[1]) = {x}
  BY <1>2, <1>5, <1>8, LeafSplit
<1>10. Tally(FoundIn(e, past \cup {x}), findings', suppressed')
  <2>1. FoundIn(e, past \cup {x}) = FoundIn(e, past)
    BY <1>2, <1>5, <1>7, <1>8, BoundaryFinds
  <2>2. QED BY <1>2, <1>7, <2>1
<1>11. LimitInv(e, past \cup {x}, seen, said2)
  <2>1. /\ VisitsInv(e, Past(e, tasks, at), seen) /\ LimitInv(e, Past(e, tasks, at), seen, said)
        /\ Node(at[1], tasks[1].value) \in Limited(e)
    BY <1>3, <1>8 DEF Now
  <2> DEFINE D == {x}
  <2> HIDE DEF D
  <2>2. LimitInv(e, Past(e, tasks, at) \cup D, seen, said2)
    BY ONLY <1>2, <1>7, <2>1, LimitStop
  <2>3. QED BY <2>2 DEF D
<1>12. /\ UNCHANGED <<policyVars, event, visits>> /\ path' = at[2]
       /\ (done' <=> tasks[1].do = "end")
  BY <1>2, <1>5, <1>7 DEF Now
<1>13. \A o \in Entered(e) : \A b \in AttributesAt(e, o) :
         Gives(e, o, b) => Origin("attribute", PlaceOf(o, b)) \notin {x}
  BY <1>5
<1>14. Now(e, tasks, at, seen, said, r, c) /\ todo' = <<>> \o Tail(todo) /\ {x} = Region(e, tasks[1], at[1])
       /\ LimitInv(e, Past(e, tasks, at) \cup {x}, seen, issues')
       /\ Tally(FoundIn(e, Past(e, tasks, at) \cup {x}), findings', suppressed')
  BY <1>6, <1>7, <1>9, <1>10, <1>11
<1> HIDE DEF x, past
<1>15. QED BY ONLY <1>2, <1>12, <1>13, <1>14, DropStep

-----------------------------------------------------------------------------
(* SetToSeq lists a finite set.                                            *)
LEMMA Listing ==
    ASSUME NEW S, IsFiniteSet(S), NEW s, s = SetToSeq(S)
    PROVE  Sequence(s) /\ IsInjective(s) /\ ToSet(s) = S /\ DOMAIN s = 1 .. Len(s) /\ Len(s) \in Nat
<1> DEFINE n == Cardinality(S)
<1>1. n \in Nat /\ ExistsBijection(1 .. n, S)
  BY FS_CardinalityType
<1>2. \E f \in [1 .. n -> S] : IsInjective(f)
  BY <1>1 DEF ExistsBijection, Bijection, Injection
<1>3. s \in [1 .. n -> S] /\ IsInjective(s)
  BY <1>2 DEF SetToSeq
<1>4. s \in Seq(S) /\ Len(s) = n
  BY <1>1, <1>3, SeqDef, LenProperties
<1>5. Sequence(s) /\ ToSet(s) \subseteq S /\ DOMAIN s = 1 .. n /\ \A i \in 1 .. n : s[i] \in ToSet(s)
  BY <1>4, SequenceFacts
<1> HIDE DEF n
<1>6. Cardinality({i \in DOMAIN s : s[i] \in ToSet(s)}) = Cardinality(ToSet(s))
  <2> DEFINE T == ToSet(s)
  <2>1. T \subseteq ToSet(s)
    OBVIOUS
  <2> HIDE DEF T
  <2>2. Cardinality({i \in DOMAIN s : s[i] \in T}) = Cardinality(T)
    BY ONLY <1>3, <1>5, <2>1, CountIndexes
  <2>3. QED BY <2>2 DEF T
<1>7. {i \in DOMAIN s : s[i] \in ToSet(s)} = 1 .. n
  BY <1>5
<1>8. Cardinality(1 .. n) = n
  BY <1>1, FS_Interval
<1>9. Cardinality(ToSet(s)) = Cardinality(S)
  BY <1>6, <1>7, <1>8 DEF n
<1>10. ToSet(s) = S
  BY <1>5, <1>9, FS_Subset
<1>11. QED BY <1>1, <1>3, <1>4, <1>5, <1>10

(* visitUnknownAttributes lists every unknown name once.                   *)
LEMMA UnknownFacts ==
    ASSUME NEW e \in Events, NEW o \in Entered(e), NEW t, NEW raised, raised = UnknownFindings(t, o.value, o.at)
    PROVE  /\ Sequence(raised) /\ IsInjective(raised)
           /\ \A f : f \in ToSet(raised) <=>
                \E name \in UnknownNames(t, o.value) : f = Finding("AttributeUnknown", Append(o.at, name))
<1> DEFINE U == UnknownNames(t, o.value)
           names == SetToSeq(U)
           F(x) == Finding("AttributeUnknown", Append(o.at, x))
<1>1. /\ IsFiniteSet(U) /\ \A x \in U : x \in Element
  <2>1. IsFiniteSet(DOMAIN o.value.at) /\ \A x \in DOMAIN o.value.at : x \in Element
    BY EnteredNode, Formed
  <2>2. U \subseteq DOMAIN o.value.at
    BY DEF UnknownNames
  <2>3. QED BY <2>1, <2>2, FS_Subset
<1>2. raised = [i \in DOMAIN names |-> F(names[i])]
  BY DEF UnknownFindings
<1> HIDE DEF U
<1>3. /\ Sequence(names) /\ IsInjective(names) /\ ToSet(names) = U
      /\ DOMAIN names = 1 .. Len(names) /\ Len(names) \in Nat
  BY <1>1, Listing
<1>4. \A x, y \in U : F(x) = F(y) => x = y
  <2>1. o.at \in Path
    BY EnteredNode
  <2>2. \A x, y \in U : Append(o.at, x) = Append(o.at, y) => x = y
    BY <1>1, <2>1, SameLonger
  <2>3. QED BY <2>2 DEF Finding
<1>5. \A i \in 1 .. Len(names) : names[i] \in U
  BY <1>3 DEF ToSet
<1>6. \A x \in U : \E i \in 1 .. Len(names) : x = names[i]
  BY <1>3 DEF ToSet
<1>7. \A i, j \in 1 .. Len(names) : names[i] = names[j] => i = j
  BY <1>3 DEF IsInjective
<1> HIDE DEF names, F
<1>8. DOMAIN raised = 1 .. Len(names) /\ \A i \in 1 .. Len(names) : raised[i] = F(names[i])
  BY <1>2, <1>3
<1>9. IsInjective(raised)
  BY <1>4, <1>5, <1>7, <1>8 DEF IsInjective
<1>10. \A f : f \in ToSet(raised) <=> \E i \in 1 .. Len(names) : f = F(names[i])
  BY <1>8 DEF ToSet
<1>11. \A f : f \in ToSet(raised) <=> \E x \in U : f = F(x)
  BY <1>5, <1>6, <1>10
<1>12. Sequence(raised)
  <2>1. \A i \in 1 .. Len(names) : raised[i] \in ToSet(raised)
    BY <1>8 DEF ToSet
  <2>2. raised \in [1 .. Len(names) -> ToSet(raised)]
    BY <1>2, <1>3, <1>8, <2>1
  <2>3. QED BY <1>3, <2>2, SeqDef DEF Sequence
<1>13. QED BY <1>9, <1>11, <1>12 DEF F, U

-----------------------------------------------------------------------------
(* Go's check, by comparisons, is the one in unbounded integers.           *)
LEMMA QuotientFacts ==
    ASSUME NEW class \in Int
    PROVE  /\ class > Quotient(MaxInt) <=> class * 100 > MaxInt
           /\ class < Quotient(MinInt) <=> class * 100 < MinInt
<1>1. MaxInt \in Nat
  BY IndexAssumption
<1>2. \A n \in Nat : n \div 100 \in Nat /\ (n \div 100) * 100 <= n /\ n < (n \div 100) * 100 + 100
  OBVIOUS
<1>3. Quotient(MaxInt) = MaxInt \div 100
  BY <1>1 DEF Quotient
<1>4. Quotient(MinInt) = -((MaxInt + 1) \div 100)
  <2>1. MinInt < 0 /\ -MinInt = MaxInt + 1
    BY <1>1 DEF MinInt
  <2>2. QED BY <2>1 DEF Quotient
<1> DEFINE q == MaxInt \div 100
           q1 == (MaxInt + 1) \div 100
<1>5. q \in Nat /\ q * 100 <= MaxInt /\ MaxInt < q * 100 + 100
  BY <1>1, <1>2
<1>6. q1 \in Nat /\ q1 * 100 <= MaxInt + 1 /\ MaxInt + 1 < q1 * 100 + 100
  <2>1. MaxInt + 1 \in Nat
    BY <1>1
  <2>2. QED BY <1>2, <2>1
<1> HIDE DEF q, q1
<1>7. class > q <=> class * 100 > MaxInt
  BY <1>1, <1>5
<1>8. class < -q1 <=> class * 100 < -MaxInt - 1
  BY <1>1, <1>6
<1>9. QED BY <1>3, <1>4, <1>7, <1>8 DEF q, q1, MinInt

(* The comparisons tell exactly whether product and sum fit.               *)
LEMMA ExpectedFacts ==
    ASSUME NEW class \in Int, NEW activity \in Int
    PROVE  /\ ExpectedTypeUID(class, activity).ok <=>
                {class * 100, class * 100 + activity} \subseteq MinInt .. MaxInt
           /\ ExpectedTypeUID(class, activity).ok =>
                ExpectedTypeUID(class, activity).uid = class * 100 + activity
           /\ ExpectedTypeUID(class, activity).ok \in BOOLEAN
<1>1. MaxInt \in Nat /\ MinInt = -MaxInt - 1
  BY IndexAssumption DEF MinInt
<1> DEFINE base == class * 100
           bad == \/ class > Quotient(MaxInt) \/ class < Quotient(MinInt)
                  \/ activity > 0 /\ base > MaxInt - activity
                  \/ activity < 0 /\ base < MinInt - activity
<1>2. base \in Int
  OBVIOUS
<1>3. /\ class > Quotient(MaxInt) <=> base > MaxInt
      /\ class < Quotient(MinInt) <=> base < MinInt
  BY QuotientFacts
<1>4. bad <=> \/ base > MaxInt \/ base < MinInt
              \/ activity > 0 /\ base > MaxInt - activity
              \/ activity < 0 /\ base < MinInt - activity
  BY <1>3
<1>5. ExpectedTypeUID(class, activity) = IF bad THEN [ok |-> FALSE] ELSE [ok |-> TRUE, uid |-> base + activity]
  BY DEF ExpectedTypeUID
<1> HIDE DEF base, bad
<1>6. bad <=> ~({base, base + activity} \subseteq MinInt .. MaxInt)
  BY <1>1, <1>2, <1>4
<1>7. QED BY <1>5, <1>6 DEF base

(* Integers of an event have the width the program has.                    *)
LEMMA RootValue ==
    ASSUME NEW e \in Events, NEW name
    PROVE  /\ At(e.item, name).k = "int" => At(e.item, name).n \in Int
           /\ At(e.item, name).k = "int" <=> name \in DOMAIN e.item.at /\ e.item.at[name].k = "int"
           /\ name \in DOMAIN e.item.at => At(e.item, name) = e.item.at[name]
<1>1. e.item.k = "map"
  BY EventAssumption
<1>2. Root(e) \in Contents(e.item) /\ Root(e).value = e.item /\ Root(e).at = <<>>
  BY RootIn DEF Root
<1>3. \A x \in DOMAIN e.item.at : Node(Append(<<>>, x), e.item.at[x]) \in Contents(e.item)
  BY <1>1, <1>2, NodeBelow
<1>4. \A x \in DOMAIN e.item.at : WellFormed(e.item.at[x])
  <2> TAKE x \in DOMAIN e.item.at
  <2>1. PICK m : m = Node(Append(<<>>, x), e.item.at[x])
    OBVIOUS
  <2>2. m \in Contents(e.item) /\ m.value = e.item.at[x]
    BY <1>3, <2>1 DEF Node
  <2>3. QED BY <2>2, NodeFormed
<1>5. \A x \in DOMAIN e.item.at : e.item.at[x].k = "int" => e.item.at[x].n \in Int
  <2>1. MaxInt \in Nat
    BY IndexAssumption
  <2>2. MinInt .. MaxInt \subseteq Int
    BY <2>1 DEF MinInt
  <2>3. QED BY <1>4, <2>2 DEF WellFormed
<1>6. QED BY <1>5 DEF At, Absent

(* The code's type_uid findings are those of the exact integers.           *)
LEMMA TypeUIDFacts ==
    ASSUME NEW e \in Events, event = e, ClassIssue(e.item) = "none"
    PROVE  TypeUIDFindings = TypeUIDWrong(e)
<1> DEFINE V(name) == At(e.item, name)
<1>1. V("class_uid").k = "int"
  <2>1. V("class_uid").k \in {"null", "int"}
    BY DEF ClassIssue
  <2>2. V("class_uid").k # "null"
    BY DEF ClassIssue, Present
  <2>3. QED BY <2>1, <2>2
<1>2. \A name : /\ V(name).k = "int" => V(name).n \in Int
                /\ V(name).k = "int" <=> name \in DOMAIN e.item.at /\ e.item.at[name].k = "int"
                /\ name \in DOMAIN e.item.at => V(name) = e.item.at[name]
  BY RootValue
<1> DEFINE class == V("class_uid").n
           activity == V("activity_id").n
           expected == ExpectedTypeUID(class, activity)
           exact == class * 100 + activity
           given == {"activity_id", "type_uid"} \subseteq {name \in DOMAIN e.item.at : e.item.at[name].k = "int"}
<1>3. (\E name \in {"class_uid", "activity_id", "type_uid"} : V(name).k # "int") <=> ~given
  BY <1>1, <1>2
<1>4. TypeUIDFindings = IF ~given THEN <<>>
                        ELSE IF ~expected.ok THEN <<Finding("TypeUIDExpectedValueOverflow", <<"type_uid">>)>>
                        ELSE When(V("type_uid").n # expected.uid, "TypeUIDIncorrect", <<"type_uid">>)
  BY <1>3 DEF TypeUIDFindings
<1>5. CASE ~given
  <2>1. TypeUIDWrong(e) = <<>>
    BY <1>5 DEF TypeUIDWrong
  <2>2. QED BY <1>4, <1>5, <2>1
<1>6. CASE given
  <2>1. class \in Int /\ activity \in Int
    BY <1>1, <1>2, <1>6
  <2>2. /\ expected.ok <=> {class * 100, exact} \subseteq MinInt .. MaxInt
        /\ expected.ok => expected.uid = exact
    BY <2>1, ExpectedFacts
  <2>3. /\ e.item.at["class_uid"].n = class /\ e.item.at["activity_id"].n = activity
        /\ e.item.at["type_uid"].n = V("type_uid").n
    BY <1>1, <1>2, <1>6
  <2>4. TypeUIDWrong(e) = IF {class * 100, exact} \subseteq MinInt .. MaxInt
                          THEN When(V("type_uid").n # exact, "TypeUIDIncorrect", <<"type_uid">>)
                          ELSE <<Finding("TypeUIDExpectedValueOverflow", <<"type_uid">>)>>
    <3>1. {"activity_id", "type_uid"} \subseteq {name \in DOMAIN e.item.at : e.item.at[name].k = "int"}
      BY <1>6
    <3> HIDE DEF V
    <3>2. QED BY <2>3, <3>1 DEF TypeUIDWrong
  <2> HIDE DEF V, expected, exact, class, activity
  <2>5. QED BY <1>4, <1>6, <2>2, <2>4
<1>7. QED BY <1>5, <1>6

-----------------------------------------------------------------------------
(* What is found when an object is left.                                   *)
LEMMA ObjectFindings ==
    ASSUME NEW e \in Events, NEW o \in Entered(e), NEW t, t = TypeAt(e, o), NEW u, NEW w,
           u = IF t = AnyObject THEN <<>> ELSE UnknownFindings(t, o.value, o.at),
           w = When(ConstraintFails(t, o.value), "ConstraintFailed", o.at)
    PROVE  /\ Sequence(u) /\ IsInjective(u) /\ Sequence(w) /\ IsInjective(w)
           /\ \A f \in ToSet(u) : f.code = "AttributeUnknown"
           /\ \A f \in ToSet(w) : f.code = "ConstraintFailed"
           /\ \A f : f \in ObjectWrong(e, o) <=> f \in ToSet(u) \/ f \in ToSet(w)
<1>1. /\ Sequence(w) /\ IsInjective(w)
      /\ \A f : f \in ToSet(w) <=> ConstraintFails(t, o.value) /\ f = Finding("ConstraintFailed", o.at)
  BY WhenFacts
<1>2. /\ Sequence(u) /\ IsInjective(u)
      /\ \A f : f \in ToSet(u) <=>
           t # AnyObject /\ \E name \in UnknownNames(t, o.value) : f = Finding("AttributeUnknown", Append(o.at, name))
  <2>1. CASE t = AnyObject
    <3>1. ToSet(<<>>) = {} /\ IsInjective(<<>>) /\ Sequence(<<>>)
      BY EmptySequence DEF ToSet, IsInjective
    <3>2. QED BY <2>1, <3>1
  <2>2. CASE t # AnyObject
    <3>1. u = UnknownFindings(t, o.value, o.at)
      BY <2>2
    <3>2. QED BY <2>2, <3>1, UnknownFacts
  <2>3. QED BY <2>1, <2>2
<1>3. \A f : f \in ObjectWrong(e, o) <=> f \in ToSet(u) \/ f \in ToSet(w)
  BY <1>1, <1>2, ObjectCoded
<1>4. /\ \A f \in ToSet(u) : f.code = "AttributeUnknown"
      /\ \A f \in ToSet(w) : f.code = "ConstraintFailed"
  BY <1>1, <1>2, FindingDiffer
<1>5. QED BY <1>1, <1>2, <1>3, <1>4

(* There is at most one of them.                                           *)
LEMMA TypeUIDOne ==
    ASSUME NEW e
    PROVE  Sequence(TypeUIDWrong(e)) /\ IsInjective(TypeUIDWrong(e))
<1> DEFINE s == TypeUIDWrong(e)
<1>1. s = <<>> \/ \E f : s = <<f>>
  BY DEF TypeUIDWrong, When
<1>2. ASSUME NEW f PROVE Sequence(<<f>>) /\ IsInjective(<<f>>)
  <2>1. <<f>> \in Seq({f}) /\ ToSet(<<f>>) = {f} /\ IsInjective(<<f>>)
    BY DEF ToSet, IsInjective
  <2>2. QED BY <2>1 DEF Sequence
<1>3. Sequence(<<>>) /\ IsInjective(<<>>)
  BY EmptySequence DEF IsInjective
<1> HIDE DEF s
<1>4. Sequence(s) /\ IsInjective(s)
  BY <1>1, <1>2, <1>3
<1>5. QED BY <1>4 DEF s

(* One origin is done by the last of what was to do at a place.            *)
LEMMA OneStep ==
    ASSUME NEW e, NEW tasks, NEW at, NEW seen, NEW said, NEW r, NEW c, NEW x, NEW raised,
           Now(e, tasks, at, seen, said, r, c), tasks # <<>>,
           UNCHANGED <<policyVars, event, visits, issues>>, todo' = <<>> \o Tail(todo), path' = at[2],
           x \in Origins(e), {x} = Region(e, tasks[1], at[1]),
           x.kind \notin {"attribute", "value"},
           Sequence(raised), IsInjective(raised), Raise(raised),
           \A f : f \in ToSet(raised) <=> RaisedAt(e, x, f),
           done' <=> tasks[1].do = "end"
    PROVE  \E at2 : Walking(at2)'
<1> DEFINE past == Past(e, tasks, at)
<1>1. /\ e \in Events /\ Plan(e, tasks, at, seen) /\ Tally(FoundIn(e, past), findings, suppressed)
      /\ seen \in Seq(Path) /\ LimitInv(e, past, seen, said) /\ issues' = said
  BY DEF Now, VisitsInv
<1>2. x \notin past
  BY <1>1, Drop
<1>3. (\A q : Origin("attribute", q) # x) /\ \A q : Origin("value", q) # x
  BY OriginDiffer
<1> HIDE DEF past
<1>4. Tally(FoundIn(e, past \cup {x}), findings', suppressed')
  BY <1>1, <1>2, TallyMore
<1>5. LimitInv(e, past \cup {x}, seen, issues')
  <2>1. \A m \in Limited(e) : Origin("value", m.at) \notin {x}
    BY <1>3
  <2>2. QED BY <1>1, <2>1, LimitStays
<1>6. \A o \in Entered(e) : \A b \in AttributesAt(e, o) :
         Gives(e, o, b) => Origin("attribute", PlaceOf(o, b)) \notin {x}
  BY <1>3
<1>7. /\ LimitInv(e, Past(e, tasks, at) \cup {x}, seen, issues')
      /\ Tally(FoundIn(e, Past(e, tasks, at) \cup {x}), findings', suppressed')
      /\ UNCHANGED <<policyVars, event, visits>>
  BY <1>4, <1>5 DEF past
<1>8. QED BY <1>6, <1>7, DropStep

(* LeaveObject keeps the invariant of the walk.                            *)
LEMMA LeaveStep ==
    ASSUME NEW e, NEW tasks, NEW at, NEW seen, NEW said, NEW r, NEW c,
           Now(e, tasks, at, seen, said, r, c), LeaveObject
    PROVE  \E at2 : Walking(at2)'
<1>1. Doing("leave")
  BY DEF LeaveObject
<1>2. /\ e \in Events /\ tasks # <<>> /\ Head(todo) = tasks[1] /\ tasks[1].do = "leave"
      /\ path = at[1] /\ at[2] = After(tasks[1], at[1]) /\ Fits(e, tasks[1], at[1])
  BY <1>1, NowFirst
<1>3. PICK o : o = Node(at[1], tasks[1].item)
  OBVIOUS
<1>4. PICK t : t = tasks[1].type
  OBVIOUS
<1>5. o \in Entered(e) /\ o # Root(e) /\ t = TypeAt(e, o) /\ o.at = at[1] /\ o.value = tasks[1].item
  BY <1>2, <1>3, <1>4 DEF Fits, Node
<1>6. PICK u : u = IF t = AnyObject THEN <<>> ELSE UnknownFindings(t, o.value, o.at)
  OBVIOUS
<1>7. PICK w : w = When(ConstraintFails(t, o.value), "ConstraintFailed", o.at)
  OBVIOUS
<1>8. Raise(u \o w) /\ todo' = <<>> \o Tail(todo) /\ UNCHANGED <<policyVars, event, path, visits, issues, done>>
  BY <1>2, <1>4, <1>5, <1>6, <1>7 DEF LeaveObject, Push
<1>9. /\ Sequence(u) /\ IsInjective(u) /\ Sequence(w) /\ IsInjective(w)
      /\ \A f \in ToSet(u) : f.code = "AttributeUnknown"
      /\ \A f \in ToSet(w) : f.code = "ConstraintFailed"
      /\ \A f : f \in ObjectWrong(e, o) <=> f \in ToSet(u) \/ f \in ToSet(w)
  BY <1>2, <1>5, <1>6, <1>7, ObjectFindings
<1>10. ToSet(u) \cap ToSet(w) = {}
  BY <1>9
<1> DEFINE x == Origin("leave", o.at)
<1>11. x \in Origins(e) /\ {x} = Region(e, tasks[1], at[1]) /\ x.kind \notin {"attribute", "value"}
  <2>1. x \in Origins(e)
    BY <1>2, <1>5, Origined
  <2>2. QED BY <1>2, <1>5, <2>1, OriginDiffer DEF Region
<1>12. PICK raised : raised = u \o w
  OBVIOUS
<1>13. Sequence(raised) /\ IsInjective(raised) /\ \A f : f \in ToSet(raised) <=> f \in ToSet(u) \/ f \in ToSet(w)
  BY <1>9, <1>10, <1>12, JoinDistinct
<1>14. \A f : RaisedAt(e, x, f) <=> f \in ObjectWrong(e, o)
  <2>1. o.at # <<>>
    BY <1>2, <1>5, EnteredNode
  <2>2. x = LeaveOf(o.at)
    BY <2>1 DEF LeaveOf
  <2>3. QED BY <1>2, <1>5, <2>2, RaisedLeave
<1>15. \A f : f \in ToSet(raised) <=> RaisedAt(e, x, f)
  BY <1>9, <1>13, <1>14
<1>16. path' = at[2] /\ (done' <=> tasks[1].do = "end")
  BY <1>2, <1>8 DEF Now, After
<1> HIDE DEF x
<1>17. /\ UNCHANGED <<policyVars, event, visits, issues>> /\ todo' = <<>> \o Tail(todo) /\ Raise(raised)
       /\ Now(e, tasks, at, seen, said, r, c)
  BY <1>8, <1>12
<1>18. QED BY ONLY <1>2, <1>11, <1>13, <1>15, <1>16, <1>17, OneStep

(* EventDone keeps it.                                                     *)
LEMMA EndStep ==
    ASSUME NEW e, NEW tasks, NEW at, NEW seen, NEW said, NEW r, NEW c,
           Now(e, tasks, at, seen, said, r, c), EventDone
    PROVE  \E at2 : Walking(at2)'
<1>1. Doing("end")
  BY DEF EventDone
<1>2. /\ e \in Events /\ tasks # <<>> /\ Head(todo) = tasks[1] /\ tasks[1].do = "end"
      /\ path = at[1] /\ at[2] = After(tasks[1], at[1]) /\ at[1] = <<>>
  <2>1. /\ e \in Events /\ tasks # <<>> /\ Head(todo) = tasks[1] /\ tasks[1].do = "end"
        /\ path = at[1] /\ at[2] = After(tasks[1], at[1]) /\ Fits(e, tasks[1], at[1])
    BY <1>1, NowFirst
  <2>2. QED BY <2>1 DEF Fits
<1>3. PICK o : o = Root(e)
  OBVIOUS
<1>4. o \in Entered(e) /\ Class = TypeAt(e, o) /\ o.at = <<>> /\ o.value = e.item
  BY <1>2, <1>3, EnteredRoot DEF Root
<1>5. PICK u : u = UnknownFindings(Class, o.value, o.at)
  OBVIOUS
<1>6. PICK w : w = When(ConstraintFails(Class, o.value), "ConstraintFailed", o.at)
  OBVIOUS
<1>7. PICK t : t = TypeUIDWrong(e)
  OBVIOUS
<1>8. TypeUIDFindings = t
  BY <1>2, <1>7, TypeUIDFacts DEF Now
<1>9. PICK raised : raised = (u \o t) \o w
  OBVIOUS
<1>10. /\ Raise(raised) /\ todo' = <<>> \o Tail(todo) /\ UNCHANGED <<policyVars, event, path, visits, issues>>
       /\ done'
  BY <1>2, <1>4, <1>5, <1>6, <1>8, <1>9 DEF EventDone, Push, Now
<1>11. u = IF Class = AnyObject THEN <<>> ELSE UnknownFindings(Class, o.value, o.at)
  BY <1>5, SchemaAssumption
<1>12. /\ Sequence(u) /\ IsInjective(u) /\ Sequence(w) /\ IsInjective(w)
       /\ \A f \in ToSet(u) : f.code = "AttributeUnknown"
       /\ \A f \in ToSet(w) : f.code = "ConstraintFailed"
       /\ \A f : f \in ObjectWrong(e, o) <=> f \in ToSet(u) \/ f \in ToSet(w)
  BY <1>2, <1>4, <1>6, <1>11, ObjectFindings
<1>13. Sequence(t) /\ IsInjective(t) /\ \A f \in ToSet(t) : f.code \in TypeUIDCodes
  BY <1>7, TypeUIDOne, TypeUIDCoded
<1>14. ToSet(u) \cap ToSet(t) = {} /\ ToSet(u) \cap ToSet(w) = {} /\ ToSet(t) \cap ToSet(w) = {}
  BY <1>12, <1>13 DEF TypeUIDCodes
<1>15. PICK ut : ut = u \o t
  OBVIOUS
<1>16. Sequence(ut) /\ IsInjective(ut) /\ \A f : f \in ToSet(ut) <=> f \in ToSet(u) \/ f \in ToSet(t)
  BY <1>12, <1>13, <1>14, <1>15, JoinDistinct
<1>17. ToSet(ut) \cap ToSet(w) = {} /\ raised = ut \o w
  BY <1>9, <1>14, <1>15, <1>16
<1>18. Sequence(raised) /\ IsInjective(raised) /\ \A f : f \in ToSet(raised) <=> f \in ToSet(ut) \/ f \in ToSet(w)
  BY ONLY <1>12, <1>16, <1>17, JoinDistinct
<1>19. \A f : RaisedAt(e, End, f) <=> f \in ObjectWrong(e, o) \/ f \in ToSet(t)
  <2>1. End = LeaveOf(o.at)
    BY <1>4 DEF LeaveOf
  <2>2. QED BY <1>2, <1>3, <1>4, <1>7, <2>1, RaisedLeave
<1>20. \A f : f \in ToSet(raised) <=> RaisedAt(e, End, f)
  BY <1>12, <1>16, <1>18, <1>19
<1>21. End \in Origins(e) /\ {End} = Region(e, tasks[1], at[1]) /\ End.kind \notin {"attribute", "value"}
  <2>1. End \in Origins(e)
    BY <1>2, Origined
  <2>2. End.kind = "end"
    BY DEF End, Origin
  <2>3. QED BY <1>2, <2>1, <2>2 DEF Region
<1>22. path' = at[2] /\ (done' <=> tasks[1].do = "end")
  BY <1>2, <1>10 DEF After
<1>23. /\ UNCHANGED <<policyVars, event, visits, issues>> /\ todo' = <<>> \o Tail(todo) /\ Raise(raised)
       /\ Now(e, tasks, at, seen, said, r, c)
  BY <1>10
<1>24. PICK x : x = End
  OBVIOUS
<1>25. QED BY ONLY <1>2, <1>18, <1>20, <1>21, <1>22, <1>23, <1>24, OneStep

-----------------------------------------------------------------------------
(* A task is replaced by others: after those, D is done.                   *)
Replaces(e, tasks, at, seen, said, ts, bs, D, seen2, tasks2, at2) ==
    /\ tasks # <<>> /\ tasks[1].do # "end"
    /\ Sequence(ts) /\ Sequence(bs) /\ Len(bs) = Len(ts) /\ Len(ts) > 0
    /\ tasks2 = ts \o Tail(tasks) /\ at2 = bs \o Tail(at)
    /\ \A i \in 1 .. Len(ts) :
         /\ bs[i] \in Path /\ ts[i].do \in Task /\ ts[i].do # "end" /\ Fits(e, ts[i], bs[i])
         /\ at2[i + 1] = After(ts[i], bs[i])
    /\ \A i, j \in 1 .. Len(ts) : i # j => Region(e, ts[i], bs[i]) \cap Region(e, ts[j], bs[j]) = {}
    /\ \A i \in 1 .. Len(ts) : ts[i].do \in Judging => Framed(tasks2, at2, seen2, i)
    /\ \A i \in 2 .. Len(tasks) : tasks[i].do \in Judging /\ Prior(tasks[i], at[i]) =>
             /\ seen2 # <<>> /\ Last(seen2) = Last(seen)
             /\ \A j \in 1 .. Len(ts) : ts[j].do # "item"
    /\ \A x \in Origins(e) : x \in Region(e, tasks[1], at[1]) <=>
             x \in D \/ \E i \in 1 .. Len(ts) : x \in Region(e, ts[i], bs[i])
    /\ D \subseteq Origins(e)
    /\ \A x \in D : \A i \in 1 .. Len(ts) : x \notin Region(e, ts[i], bs[i])
    /\ VisitsInv(e, Past(e, tasks, at) \cup D, seen2)
    /\ LimitInv(e, Past(e, tasks, at) \cup D, seen2, said)

(* A step that replaces the first task keeps the invariant.                *)
LEMMA PushStep ==
    ASSUME NEW e, NEW tasks, NEW at, NEW seen, NEW said, NEW r, NEW c,
           NEW ts, NEW bs, NEW D, NEW seen2, NEW tasks2, NEW at2,
           Now(e, tasks, at, seen, said, r, c),
           Replaces(e, tasks, at, seen, said, ts, bs, D, seen2, tasks2, at2),
           UNCHANGED <<policyVars, event, issues, done>>,
           todo' = tasks2, path' = bs[1], visits' = seen2,
           Tally(FoundIn(e, Past(e, tasks, at) \cup D), findings', suppressed')
    PROVE  \E at3 : Walking(at3)'
<1>0. /\ tasks # <<>> /\ tasks[1].do # "end"
      /\ Sequence(ts) /\ Sequence(bs) /\ Len(bs) = Len(ts) /\ Len(ts) > 0
      /\ tasks2 = ts \o Tail(tasks) /\ at2 = bs \o Tail(at)
      /\ \A i \in 1 .. Len(ts) :
           /\ bs[i] \in Path /\ ts[i].do \in Task /\ ts[i].do # "end" /\ Fits(e, ts[i], bs[i])
           /\ at2[i + 1] = After(ts[i], bs[i])
      /\ \A i, j \in 1 .. Len(ts) : i # j => Region(e, ts[i], bs[i]) \cap Region(e, ts[j], bs[j]) = {}
      /\ \A i \in 1 .. Len(ts) : ts[i].do \in Judging => Framed(tasks2, at2, seen2, i)
      /\ \A i \in 2 .. Len(tasks) : tasks[i].do \in Judging /\ Prior(tasks[i], at[i]) =>
               /\ seen2 # <<>> /\ Last(seen2) = Last(seen)
               /\ \A j \in 1 .. Len(ts) : ts[j].do # "item"
      /\ \A x \in Origins(e) : x \in Region(e, tasks[1], at[1]) <=>
               x \in D \/ \E i \in 1 .. Len(ts) : x \in Region(e, ts[i], bs[i])
      /\ D \subseteq Origins(e)
      /\ \A x \in D : \A i \in 1 .. Len(ts) : x \notin Region(e, ts[i], bs[i])
      /\ VisitsInv(e, Past(e, tasks, at) \cup D, seen2)
      /\ LimitInv(e, Past(e, tasks, at) \cup D, seen2, said)
  BY DEF Replaces
<1>1. e \in Events /\ Plan(e, tasks, at, seen)
  BY DEF Now
<1>2. \A i \in 1 .. Len(ts) : Region(e, ts[i], bs[i]) \subseteq Region(e, tasks[1], at[1])
  <2> TAKE i \in 1 .. Len(ts)
  <2>1. Region(e, ts[i], bs[i]) \subseteq Origins(e)
    BY <1>0, <1>1, RegionIn
  <2>2. QED BY <1>0, <2>1
<1>3. Plan(e, tasks2, at2, seen2)
  BY ONLY <1>0, <1>1, <1>2, Advance
<1>4. PICK past2 : past2 = Past(e, tasks, at) \cup D
  OBVIOUS
<1>5. past2 = Past(e, tasks2, at2)
  <2>1. /\ e \in Events /\ Plan(e, tasks, at, seen) /\ tasks # <<>>
        /\ Sequence(ts) /\ Sequence(bs) /\ Len(bs) = Len(ts) /\ D \subseteq Origins(e)
        /\ \A x \in Origins(e) : x \in Region(e, tasks[1], at[1]) <=>
             x \in D \/ \E i \in 1 .. Len(ts) : x \in Region(e, ts[i], bs[i])
        /\ \A x \in D : \A i \in 1 .. Len(ts) : x \notin Region(e, ts[i], bs[i])
    BY ONLY <1>0, <1>1
  <2>2. Past(e, ts \o Tail(tasks), bs \o Tail(at)) = Past(e, tasks, at) \cup D
    BY ONLY <2>1, AdvancePast
  <2>3. QED BY <1>0, <1>4, <2>2
<1>6. PICK r2 : r2 = findings'
  OBVIOUS
<1>7. PICK c2 : c2 = suppressed'
  OBVIOUS
<1>8. /\ Sequence(tasks) /\ Sequence(at) /\ Len(at) = Len(tasks) + 1 /\ at # <<>> /\ Len(tasks) \in Nat \ {0}
  BY <1>0, <1>1, PlanFirst
<1>9. at2[1] = bs[1] /\ tasks2 # <<>>
  <2>1. Len(ts) \in Nat
    BY <1>0, SequenceFacts DEF Sequence
  <2>2. at2[1] = bs[1]
    <3>1. \A i \in 1 .. Len(bs) : (bs \o Tail(at))[i] = bs[i]
      BY <1>0, <1>8, Spliced
    <3>2. 1 \in 1 .. Len(bs)
      BY <1>0, <2>1
    <3>3. QED BY <1>0, <3>1, <3>2
  <2>3. tasks2 # <<>>
    <3>1. Len(tasks2) = Len(ts) + Len(tasks) - 1 /\ Sequence(tasks2)
      BY <1>0, <1>8, Spliced
    <3>2. Len(tasks2) > 0
      BY <1>0, <1>8, <2>1, <3>1
    <3>3. QED BY <3>2, EmptySequence
  <2>4. QED BY <2>2, <2>3
<1>10. /\ Compiled /\ UNCHANGED policyVars /\ event' = e /\ ClassIssue(e.item) = "none"
       /\ issues' = said /\ path' = at2[1] /\ (done' <=> tasks2 = <<>>)
  BY <1>0, <1>9 DEF Now
<1>11. /\ VisitsInv(e, past2, seen2) /\ LimitInv(e, past2, seen2, said)
       /\ Tally(FoundIn(e, past2), r2, c2)
  BY <1>0, <1>4, <1>6, <1>7
<1>12. todo' = tasks2 /\ visits' = seen2
  OBVIOUS
<1>13. Walking(at2)'
  BY ONLY <1>1, <1>3, <1>5, <1>6, <1>7, <1>10, <1>11, <1>12, Walked
<1>14. QED BY <1>13

-----------------------------------------------------------------------------
(* Short tuples as sequences.                                              *)
LEMMA Tuples ==
    /\ \A x : /\ Sequence(<<x>>) /\ Len(<<x>>) = 1 /\ <<x>>[1] = x
    /\ \A x, y : /\ Sequence(<<x, y>>) /\ Len(<<x, y>>) = 2 /\ <<x, y>>[1] = x /\ <<x, y>>[2] = y
    /\ \A x, y, z : /\ Sequence(<<x, y, z>>) /\ Len(<<x, y, z>>) = 3
                    /\ <<x, y, z>>[1] = x /\ <<x, y, z>>[2] = y /\ <<x, y, z>>[3] = z
<1>1. ASSUME NEW x PROVE Sequence(<<x>>)
  <2>1. <<x>> \in Seq({x}) /\ ToSet(<<x>>) = {x}
    BY DEF ToSet
  <2>2. QED BY <2>1 DEF Sequence
<1>2. ASSUME NEW x, NEW y PROVE Sequence(<<x, y>>)
  <2>1. <<x, y>> \in Seq({x, y}) /\ ToSet(<<x, y>>) = {x, y}
    BY DEF ToSet
  <2>2. QED BY <2>1 DEF Sequence
<1>3. ASSUME NEW x, NEW y, NEW z PROVE Sequence(<<x, y, z>>)
  <2>1. <<x, y, z>> \in Seq({x, y, z}) /\ ToSet(<<x, y, z>>) = {x, y, z}
    BY DEF ToSet
  <2>2. QED BY <2>1 DEF Sequence
<1>4. QED BY <1>1, <1>2, <1>3

(* Where the first tasks and those behind them are.                        *)
Splice(s, t) == t \o Tail(s)

(* The new tasks and paths, and the path after them.                       *)
LEMMA SpliceAt ==
    ASSUME NEW e \in Events, NEW tasks, NEW at, NEW seen, Plan(e, tasks, at, seen), tasks # <<>>,
           NEW ts, NEW bs, Sequence(ts), Sequence(bs), Len(bs) = Len(ts)
    PROVE  /\ \A i \in 1 .. Len(ts) : /\ Splice(tasks, ts)[i] = ts[i] /\ Splice(at, bs)[i] = bs[i]
                                      /\ i \in DOMAIN Splice(tasks, ts)
           /\ Splice(at, bs)[Len(ts) + 1] = at[2]
<1> DEFINE tasks2 == ts \o Tail(tasks)
           at2 == bs \o Tail(at)
<1>0. Splice(tasks, ts) = tasks2 /\ Splice(at, bs) = at2
  BY DEF Splice
<1> HIDE DEF tasks2, at2
<1>1. /\ Sequence(tasks) /\ Sequence(at) /\ Len(at) = Len(tasks) + 1 /\ at # <<>> /\ Len(tasks) \in Nat \ {0}
  BY PlanFirst
<1>2. /\ DOMAIN tasks2 = 1 .. Len(ts) + Len(tasks) - 1 /\ Len(ts) \in Nat
      /\ \A i \in 1 .. Len(ts) : tasks2[i] = ts[i]
  BY <1>1, Spliced DEF tasks2
<1>3. /\ \A i \in 1 .. Len(bs) : at2[i] = bs[i]
      /\ \A i \in 2 .. Len(at) : at2[Len(bs) + i - 1] = at[i]
  BY <1>1, Spliced DEF at2
<1>4. at2[Len(ts) + 1] = at[2]
  <2>1. 2 \in 2 .. Len(at) /\ Len(bs) + 2 - 1 = Len(ts) + 1
    BY <1>1, <1>2
  <2>2. QED BY <1>3, <2>1
<1>5. \A i \in 1 .. Len(ts) : i \in DOMAIN tasks2
  BY <1>1, <1>2
<1>6. QED BY <1>0, <1>2, <1>3, <1>4, <1>5

-----------------------------------------------------------------------------
(* What a step does beside the tasks.                                      *)
Moves(e, tasks, at, seen, said, D, seen2) ==
    /\ VisitsInv(e, Past(e, tasks, at) \cup D, seen2)
    /\ LimitInv(e, Past(e, tasks, at) \cup D, seen2, said)
    /\ D \subseteq Origins(e)

(* An attribute that is passed.                                            *)
LEMMA PushOne ==
    ASSUME NEW e, NEW tasks, NEW at, NEW seen, NEW said, NEW r, NEW c, NEW D, NEW seen2, NEW t1,
           Now(e, tasks, at, seen, said, r, c), tasks # <<>>, tasks[1].do = "item",
           UNCHANGED <<policyVars, event, path, issues, done>>,
           todo' = <<t1>> \o Tail(todo), visits' = seen2,
           t1.do = "item", Fits(e, t1, at[1]),
           Region(e, tasks[1], at[1]) = D \cup Region(e, t1, at[1]), D \cap Region(e, t1, at[1]) = {},
           Moves(e, tasks, at, seen, said, D, seen2),
           Tally(FoundIn(e, Past(e, tasks, at) \cup D), findings', suppressed')
    PROVE  \E at3 : Walking(at3)'
<1> DEFINE p == at[1]
<1>1. PICK ts : ts = <<t1>>
  OBVIOUS
<1>2. PICK bs : bs = <<p>>
  OBVIOUS
<1>3. PICK tasks2 : tasks2 = ts \o Tail(tasks)
  OBVIOUS
<1>4. PICK at2 : at2 = bs \o Tail(at)
  OBVIOUS
<1>5. /\ Sequence(ts) /\ Sequence(bs) /\ Len(ts) = 1 /\ Len(bs) = 1 /\ ts[1] = t1 /\ bs[1] = p
      /\ 1 .. 1 = {1}
  BY <1>1, <1>2, Tuples
<1>16. Len(bs) = Len(ts) /\ tasks # <<>>
  BY <1>5
<1>6. /\ e \in Events /\ Plan(e, tasks, at, seen) /\ path = p /\ todo = tasks
  BY DEF Now
<1>7. at2[2] = p /\ p \in Path
  <2>1. at2[Len(ts) + 1] = at[2]
    <3>1. /\ \A i \in 1 .. Len(ts) : /\ Splice(tasks, ts)[i] = ts[i] /\ Splice(at, bs)[i] = bs[i]
                                     /\ i \in DOMAIN Splice(tasks, ts)
          /\ Splice(at, bs)[Len(ts) + 1] = at[2]
      <4>1. Sequence(ts) /\ Sequence(bs) /\ Plan(e, tasks, at, seen) /\ e \in Events
        BY <1>5, <1>6
      <4>2. QED BY ONLY <1>16, <4>1, SpliceAt
    <3>2. QED BY <1>3, <1>4, <3>1 DEF Splice
  <2>2. at[2] = p /\ p \in Path
    BY <1>6, PlanFirst DEF After
  <2>3. QED BY <1>5, <2>1, <2>2
<1> HIDE DEF p
<1>8. \A i \in 1 .. Len(ts) :
        /\ bs[i] \in Path /\ ts[i].do \in Task /\ ts[i].do # "end" /\ Fits(e, ts[i], bs[i])
        /\ at2[i + 1] = After(ts[i], bs[i])
  <2>1. t1.do \in Task /\ t1.do # "end" /\ After(t1, p) = p /\ Fits(e, t1, p)
    BY DEF Task, After, p
  <2>2. QED BY <1>5, <1>7, <2>1
<1>9. \A i, j \in 1 .. Len(ts) : i # j => Region(e, ts[i], bs[i]) \cap Region(e, ts[j], bs[j]) = {}
  BY <1>5
<1>10. \A i \in 1 .. Len(ts) : ts[i].do \in Judging => Framed(tasks2, at2, seen2, i)
  BY <1>5 DEF Judging
<1>11. \A i \in 2 .. Len(tasks) : tasks[i].do \in Judging /\ Prior(tasks[i], at[i]) =>
             /\ seen2 # <<>> /\ Last(seen2) = Last(seen)
             /\ \A j \in 1 .. Len(ts) : ts[j].do # "item"
  BY <1>6, BehindItem
<1>12. /\ \A x \in Origins(e) : x \in Region(e, tasks[1], at[1]) <=>
             x \in D \/ \E i \in 1 .. Len(ts) : x \in Region(e, ts[i], bs[i])
       /\ \A x \in D : \A i \in 1 .. Len(ts) : x \notin Region(e, ts[i], bs[i])
  BY <1>5 DEF p
<1>13. /\ UNCHANGED <<policyVars, event, issues, done>>
       /\ todo' = tasks2 /\ path' = bs[1] /\ visits' = seen2 /\ tasks[1].do # "end" /\ Len(ts) > 0
       /\ Len(bs) = Len(ts)
  BY <1>1, <1>3, <1>5, <1>6
<1>14. /\ VisitsInv(e, Past(e, tasks, at) \cup D, seen2)
       /\ LimitInv(e, Past(e, tasks, at) \cup D, seen2, said)
       /\ D \subseteq Origins(e)
       /\ Tally(FoundIn(e, Past(e, tasks, at) \cup D), findings', suppressed')
       /\ Now(e, tasks, at, seen, said, r, c) /\ tasks # <<>>
  BY DEF Moves
<1>15. Replaces(e, tasks, at, seen, said, ts, bs, D, seen2, tasks2, at2)
  BY ONLY <1>3, <1>4, <1>5, <1>8, <1>9, <1>10, <1>11, <1>12, <1>13, <1>14 DEF Replaces
<1>17. QED BY ONLY <1>13, <1>14, <1>15, PushStep

(* An attribute without a value to look into, or an object entered: the    *)
(* first of two tasks needs no frame.                                      *)
LEMMA PushTwo ==
    ASSUME NEW e, NEW tasks, NEW at, NEW seen, NEW said, NEW r, NEW c, NEW D, NEW seen2, NEW t1, NEW t2, NEW q,
           Now(e, tasks, at, seen, said, r, c), tasks # <<>>,
           \/ tasks[1].do = "item"
           \/ tasks[1].do = "value" /\ ~Prior(tasks[1], at[1]),
           UNCHANGED <<policyVars, event, issues, done>>,
           todo' = <<t1, t2>> \o Tail(todo), path' = q, visits' = seen2,
           t1.do \in {"pop", "item"}, t2.do \in {"item", "leave"}, q \in Path, After(t1, q) = at[1],
           Fits(e, t1, q), Fits(e, t2, at[1]), Region(e, t1, q) \cap Region(e, t2, at[1]) = {},
           Region(e, tasks[1], at[1]) = D \cup (Region(e, t1, q) \cup Region(e, t2, at[1])),
           D \cap Region(e, t1, q) = {}, D \cap Region(e, t2, at[1]) = {},
           Moves(e, tasks, at, seen, said, D, seen2),
           Tally(FoundIn(e, Past(e, tasks, at) \cup D), findings', suppressed')
    PROVE  \E at3 : Walking(at3)'
<1> DEFINE p == at[1]
<1>1. PICK ts : ts = <<t1, t2>>
  OBVIOUS
<1>2. PICK bs : bs = <<q, p>>
  OBVIOUS
<1>3. PICK tasks2 : tasks2 = ts \o Tail(tasks)
  OBVIOUS
<1>4. PICK at2 : at2 = bs \o Tail(at)
  OBVIOUS
<1>5. /\ Sequence(ts) /\ Sequence(bs) /\ Len(ts) = 2 /\ Len(bs) = 2
      /\ ts[1] = t1 /\ ts[2] = t2 /\ bs[1] = q /\ bs[2] = p /\ 1 .. 2 = {1, 2}
  BY <1>1, <1>2, Tuples
<1>16. Len(bs) = Len(ts) /\ tasks # <<>>
  BY <1>5
<1>6. /\ e \in Events /\ Plan(e, tasks, at, seen) /\ path = p /\ todo = tasks
  BY DEF Now
<1>7. at2[3] = p /\ p \in Path /\ at2[2] = p
  <2>1. at2[Len(ts) + 1] = at[2] /\ \A i \in 1 .. Len(ts) : at2[i] = bs[i]
    <3>1. /\ \A i \in 1 .. Len(ts) : /\ Splice(tasks, ts)[i] = ts[i] /\ Splice(at, bs)[i] = bs[i]
                                     /\ i \in DOMAIN Splice(tasks, ts)
          /\ Splice(at, bs)[Len(ts) + 1] = at[2]
      <4>1. Sequence(ts) /\ Sequence(bs) /\ Plan(e, tasks, at, seen) /\ e \in Events
        BY <1>5, <1>6
      <4>2. QED BY ONLY <1>16, <4>1, SpliceAt
    <3>2. QED BY <1>3, <1>4, <3>1 DEF Splice
  <2>2. at[2] = p /\ p \in Path
    BY <1>6, PlanFirst DEF After
  <2>3. QED BY <1>5, <2>1, <2>2
<1> HIDE DEF p
<1>8. \A i \in 1 .. Len(ts) :
        /\ bs[i] \in Path /\ ts[i].do \in Task /\ ts[i].do # "end" /\ Fits(e, ts[i], bs[i])
        /\ at2[i + 1] = After(ts[i], bs[i])
  <2>1. /\ t1.do \in Task /\ t1.do # "end" /\ After(t1, q) = p /\ Fits(e, t1, q)
        /\ t2.do \in Task /\ t2.do # "end" /\ After(t2, p) = p /\ Fits(e, t2, p)
    BY DEF Task, After, p
  <2>2. at2[1 + 1] = p /\ at2[2 + 1] = p
    BY <1>7
  <2>3. QED BY <1>5, <1>7, <2>1, <2>2
<1>9. \A i, j \in 1 .. Len(ts) : i # j => Region(e, ts[i], bs[i]) \cap Region(e, ts[j], bs[j]) = {}
  BY <1>5 DEF p
<1>10. \A i \in 1 .. Len(ts) : ts[i].do \in Judging => Framed(tasks2, at2, seen2, i)
  BY <1>5 DEF Judging
<1>11. \A i \in 2 .. Len(tasks) : tasks[i].do \in Judging /\ Prior(tasks[i], at[i]) =>
             /\ seen2 # <<>> /\ Last(seen2) = Last(seen)
             /\ \A j \in 1 .. Len(ts) : ts[j].do # "item"
  BY <1>6, BehindItem, BehindValue
<1>12. /\ \A x \in Origins(e) : x \in Region(e, tasks[1], at[1]) <=>
             x \in D \/ \E i \in 1 .. Len(ts) : x \in Region(e, ts[i], bs[i])
       /\ \A x \in D : \A i \in 1 .. Len(ts) : x \notin Region(e, ts[i], bs[i])
  BY <1>5 DEF p
<1>13. /\ UNCHANGED <<policyVars, event, issues, done>>
       /\ todo' = tasks2 /\ path' = bs[1] /\ visits' = seen2 /\ tasks[1].do # "end" /\ Len(ts) > 0
       /\ Len(bs) = Len(ts)
  BY <1>1, <1>3, <1>5, <1>6
<1>14. /\ VisitsInv(e, Past(e, tasks, at) \cup D, seen2)
       /\ LimitInv(e, Past(e, tasks, at) \cup D, seen2, said)
       /\ D \subseteq Origins(e)
       /\ Tally(FoundIn(e, Past(e, tasks, at) \cup D), findings', suppressed')
       /\ Now(e, tasks, at, seen, said, r, c) /\ tasks # <<>>
  BY DEF Moves
<1>15. Replaces(e, tasks, at, seen, said, ts, bs, D, seen2, tasks2, at2)
  BY ONLY <1>3, <1>4, <1>5, <1>8, <1>9, <1>10, <1>11, <1>12, <1>13, <1>14 DEF Replaces
<1>17. QED BY ONLY <1>13, <1>14, <1>15, PushStep

(* A value, or an array, between a push and a pop.                         *)
LEMMA PushThree ==
    ASSUME NEW e, NEW tasks, NEW at, NEW seen, NEW said, NEW r, NEW c, NEW D, NEW seen2, NEW t1, NEW t2, NEW t3, NEW q,
           Now(e, tasks, at, seen, said, r, c), tasks # <<>>, tasks[1].do = t3.do,
           UNCHANGED <<policyVars, event, issues, done>>,
           todo' = <<t1, t2, t3>> \o Tail(todo), path' = q, visits' = seen2,
           t1.do \in Judging, t2.do = "pop", q \in Path, q # <<>>, Front(q) = at[1],
           \/ t3.do = "item"
           \/ t3.do = "array" /\ t1.do = "value" /\ t3.of = t1.of /\ ~IsName(Last(q)) /\ seen2 = seen,
           Prior(t1, q) => seen2 # <<>> /\ Owner(q) = Last(seen2),
           Fits(e, t1, q), Fits(e, t3, at[1]), Region(e, t1, q) \cap Region(e, t3, at[1]) = {},
           Region(e, tasks[1], at[1]) = D \cup (Region(e, t1, q) \cup Region(e, t3, at[1])),
           D \cap Region(e, t1, q) = {}, D \cap Region(e, t3, at[1]) = {},
           Moves(e, tasks, at, seen, said, D, seen2),
           Tally(FoundIn(e, Past(e, tasks, at) \cup D), findings', suppressed')
    PROVE  \E at3 : Walking(at3)'
<1> DEFINE p == at[1]
<1>1. PICK ts : ts = <<t1, t2, t3>>
  OBVIOUS
<1>2. PICK bs : bs = <<q, q, p>>
  OBVIOUS
<1>3. PICK tasks2 : tasks2 = ts \o Tail(tasks)
  OBVIOUS
<1>4. PICK at2 : at2 = bs \o Tail(at)
  OBVIOUS
<1>5. /\ Sequence(ts) /\ Sequence(bs) /\ Len(ts) = 3 /\ Len(bs) = 3
      /\ ts[1] = t1 /\ ts[2] = t2 /\ ts[3] = t3 /\ bs[1] = q /\ bs[2] = q /\ bs[3] = p /\ 1 .. 3 = {1, 2, 3}
  BY <1>1, <1>2, Tuples
<1>16. Len(bs) = Len(ts) /\ tasks # <<>>
  BY <1>5
<1>6. /\ e \in Events /\ Plan(e, tasks, at, seen) /\ path = p /\ todo = tasks
  BY DEF Now
<1>7. /\ at2[4] = p /\ p \in Path /\ at2[1] = q /\ at2[2] = q /\ at2[3] = p
      /\ tasks2[1] = t1 /\ tasks2[2] = t2 /\ tasks2[3] = t3 /\ 3 \in DOMAIN tasks2
  <2>1. /\ at2[Len(ts) + 1] = at[2]
        /\ \A i \in 1 .. Len(ts) : tasks2[i] = ts[i] /\ at2[i] = bs[i] /\ i \in DOMAIN tasks2
    <3>1. /\ \A i \in 1 .. Len(ts) : /\ Splice(tasks, ts)[i] = ts[i] /\ Splice(at, bs)[i] = bs[i]
                                     /\ i \in DOMAIN Splice(tasks, ts)
          /\ Splice(at, bs)[Len(ts) + 1] = at[2]
      <4>1. Sequence(ts) /\ Sequence(bs) /\ Plan(e, tasks, at, seen) /\ e \in Events
        BY <1>5, <1>6
      <4>2. QED BY ONLY <1>16, <4>1, SpliceAt
    <3>2. QED BY <1>3, <1>4, <3>1 DEF Splice
  <2>2. at[2] = p /\ p \in Path
    <3>1. at[2] = After(tasks[1], p) /\ p \in Path
      BY <1>6, PlanFirst
    <3>2. tasks[1].do # "pop"
      OBVIOUS
    <3>3. QED BY <3>1, <3>2 DEF After
  <2>3. Len(ts) + 1 = 4
    BY <1>5
  <2>4. QED BY <1>5, <2>1, <2>2, <2>3
<1> HIDE DEF p
<1>8. \A i \in 1 .. Len(ts) :
        /\ bs[i] \in Path /\ ts[i].do \in Task /\ ts[i].do # "end" /\ Fits(e, ts[i], bs[i])
        /\ at2[i + 1] = After(ts[i], bs[i])
  <2>1. /\ t1.do \in Task /\ t1.do # "end" /\ After(t1, q) = q /\ Fits(e, t1, q)
        /\ t2.do \in Task /\ t2.do # "end" /\ After(t2, q) = p /\ Fits(e, t2, q)
        /\ t3.do \in Task /\ t3.do # "end" /\ After(t3, p) = p /\ Fits(e, t3, p)
    BY DEF Task, Judging, After, p, Fits
  <2>2. at2[1 + 1] = q /\ at2[2 + 1] = p /\ at2[3 + 1] = p
    BY <1>7
  <2>3. QED BY <1>5, <1>7, <2>1, <2>2
<1>9. \A i, j \in 1 .. Len(ts) : i # j => Region(e, ts[i], bs[i]) \cap Region(e, ts[j], bs[j]) = {}
  <2>1. Region(e, t2, q) = {}
    BY DEF Region
  <2>2. QED BY <1>5, <2>1 DEF p
<1>10. \A i \in 1 .. Len(ts) : ts[i].do \in Judging => Framed(tasks2, at2, seen2, i)
  <2>1. Framed(tasks2, at2, seen2, 1)
    <3>1. \A j \in 1 .. 1 - 1 : FALSE
      OBVIOUS
    <3>2. 1 + 2 \in DOMAIN tasks2 /\ tasks2[1 + 1] = t2 /\ tasks2[1 + 2] = t3
      BY <1>7
    <3>3. QED BY <1>7, <3>1, <3>2 DEF Framed
  <2>2. t2.do \notin Judging
    BY DEF Judging
  <2>3. t3.do \in Judging => Framed(tasks2, at2, seen2, 3)
    <3> SUFFICES ASSUME t3.do \in Judging PROVE Framed(tasks2, at2, seen2, 3)
      OBVIOUS
    <3>1. t3.do = "array" /\ t3.of = t1.of /\ ~IsName(Last(q)) /\ seen2 = seen /\ tasks[1].do = "array"
      BY DEF Judging
    <3>2. Framed(tasks, at, seen, 1) /\ 1 + 1 = 2 /\ 1 + 2 = 3
      BY <1>6, <3>1, PlanFirst DEF Judging
    <3>3. 3 \in DOMAIN tasks /\ tasks[2].do = "pop" /\ tasks[3].do = "item"
      BY <3>1, <3>2 DEF Framed
    <3>4. /\ 5 \in DOMAIN tasks2 /\ tasks2[4] = tasks[2] /\ tasks2[5] = tasks[3]
      <4>1. Sequence(tasks) /\ Len(tasks) \in Nat \ {0} /\ DOMAIN tasks = 1 .. Len(tasks)
        BY <1>6, PlanFirst
      <4>2. /\ DOMAIN tasks2 = 1 .. Len(ts) + Len(tasks) - 1
            /\ \A i \in 2 .. Len(tasks) : tasks2[Len(ts) + i - 1] = tasks[i]
        <5>1. Sequence(ts)
          BY <1>5
        <5>2. /\ DOMAIN (ts \o Tail(tasks)) = 1 .. Len(ts) + Len(tasks) - 1
              /\ \A i \in 2 .. Len(tasks) : (ts \o Tail(tasks))[Len(ts) + i - 1] = tasks[i]
          BY ONLY <1>16, <4>1, <5>1, Spliced
        <5>3. QED BY <1>3, <5>2
      <4>3. Len(tasks) >= 3 /\ 2 \in 2 .. Len(tasks) /\ 3 \in 2 .. Len(tasks)
        BY <3>3, <4>1
      <4>4. Len(ts) + 2 - 1 = 4 /\ Len(ts) + 3 - 1 = 5 /\ 5 \in 1 .. Len(ts) + Len(tasks) - 1
        BY <1>5, <4>1, <4>3
      <4>5. QED BY <4>2, <4>3, <4>4
    <3>5. Prior(t3, p) => seen2 # <<>> /\ Owner(p) = Last(seen2)
      <4> SUFFICES ASSUME Prior(t3, p) PROVE seen2 # <<>> /\ Owner(p) = Last(seen2)
        OBVIOUS
      <4>1. Prior(t1, q)
        BY <3>1, PriorUp DEF Prior, p
      <4>2. Owner(q) = Last(seen2) /\ seen2 # <<>>
        BY <4>1
      <4>3. Owner(q) = p
        BY <3>1 DEF Owner, p
      <4>4. IsName(Last(p))
        <5>1. PICK o \in Entered(e) : Gives(e, o, t3.of) /\ p = PlaceOf(o, t3.of)
          BY <3>1 DEF Fits, p
        <5>2. QED BY <1>6, <5>1, AttributeName DEF Gives
      <4>5. QED BY <4>2, <4>3, <4>4 DEF Owner
    <3>6. \A j \in 1 .. 3 - 1 : tasks2[j].do # "item"
      <4>1. 1 .. 3 - 1 = {1, 2}
        OBVIOUS
      <4>2. QED BY <1>7, <3>1, <4>1
    <3>7. 3 + 2 = 5 /\ 3 + 1 = 4
      OBVIOUS
    <3>8. QED BY <1>7, <3>1, <3>3, <3>4, <3>5, <3>6, <3>7 DEF Framed
  <2>4. QED BY <1>5, <2>1, <2>2, <2>3
<1>11. \A i \in 2 .. Len(tasks) : tasks[i].do \in Judging /\ Prior(tasks[i], at[i]) =>
             /\ seen2 # <<>> /\ Last(seen2) = Last(seen)
             /\ \A j \in 1 .. Len(ts) : ts[j].do # "item"
  <2>1. CASE t3.do = "item"
    BY <1>6, <2>1, BehindItem
  <2>2. CASE t3.do = "array" /\ t1.do = "value" /\ seen2 = seen
    <3>1. \A j \in 1 .. Len(ts) : ts[j].do # "item"
      BY <1>5, <2>2
    <3>2. \A i \in 2 .. Len(tasks) : i \in DOMAIN tasks
      BY <1>6, PlanFirst
    <3>3. \A i \in 2 .. Len(tasks) : tasks[i].do \in Judging /\ Prior(tasks[i], at[i]) => seen # <<>>
      BY <1>6, <3>2, Behind
    <3>4. QED BY <2>2, <3>1, <3>3
  <2>3. QED BY <2>1, <2>2
<1>12. /\ \A x \in Origins(e) : x \in Region(e, tasks[1], at[1]) <=>
             x \in D \/ \E i \in 1 .. Len(ts) : x \in Region(e, ts[i], bs[i])
       /\ \A x \in D : \A i \in 1 .. Len(ts) : x \notin Region(e, ts[i], bs[i])
  <2>1. Region(e, t2, q) = {}
    BY DEF Region
  <2>2. QED BY <1>5, <2>1 DEF p
<1>13. /\ UNCHANGED <<policyVars, event, issues, done>>
       /\ todo' = tasks2 /\ path' = bs[1] /\ visits' = seen2 /\ tasks[1].do # "end" /\ Len(ts) > 0
       /\ Len(bs) = Len(ts)
  BY <1>1, <1>3, <1>5, <1>6
<1>14. /\ VisitsInv(e, Past(e, tasks, at) \cup D, seen2)
       /\ LimitInv(e, Past(e, tasks, at) \cup D, seen2, said)
       /\ D \subseteq Origins(e)
       /\ Tally(FoundIn(e, Past(e, tasks, at) \cup D), findings', suppressed')
       /\ Now(e, tasks, at, seen, said, r, c) /\ tasks # <<>>
  BY DEF Moves
<1>15. Replaces(e, tasks, at, seen, said, ts, bs, D, seen2, tasks2, at2)
  BY ONLY <1>3, <1>4, <1>5, <1>8, <1>9, <1>10, <1>11, <1>12, <1>13, <1>14 DEF Replaces
<1>17. QED BY ONLY <1>13, <1>14, <1>15, PushStep

-----------------------------------------------------------------------------
(* An attribute's turn: a of object o, at q, before the rest of o.         *)
Turn(e, tasks, at, o, a, q, next) ==
    /\ e \in Events /\ tasks # <<>> /\ tasks[1].do = "item" /\ o \in Entered(e)
    /\ a \in AttributesAt(e, o) /\ q = PlaceOf(o, a) /\ q \in Path /\ q # <<>>
    /\ Front(q) = at[1] /\ Owner(q) = q
    /\ next.do = "item" /\ Fits(e, next, at[1])
    /\ Region(e, tasks[1], at[1]) = PlaceRegion(e, q) \cup Region(e, next, at[1])
    /\ PlaceRegion(e, q) \cap Region(e, next, at[1]) = {}
    /\ Past(e, tasks, at) \cap Region(e, tasks[1], at[1]) = {}

(* The attribute at hand.                                                  *)
LEMMA NowItem ==
    ASSUME NEW e, NEW tasks, NEW at, NEW seen, NEW said, NEW r, NEW c,
           Now(e, tasks, at, seen, said, r, c), DoingAttribute
    PROVE  \E o, a, q, next :
             /\ Turn(e, tasks, at, o, a, q, next)
             /\ Current = a /\ CurrentValue = At(o.value, a.name) /\ q = Append(path, a.name)
             /\ next = [Head(todo) EXCEPT !.next = @ + 1]
<1>15. PICK o : o = Node(at[1], tasks[1].item)
  OBVIOUS
<1>16. PICK k : k = tasks[1].next
  OBVIOUS
<1>17. PICK a : a = Attributes(tasks[1].type)[k]
  OBVIOUS
<1>18. PICK next : next = Item(tasks[1].type, tasks[1].item, k + 1)
  OBVIOUS
<1> USE <1>15, <1>16, <1>17, <1>18
<1>1. Doing("item") /\ Head(todo).next <= Len(Attributes(Head(todo).type))
  BY DEF DoingAttribute
<1>2. /\ e \in Events /\ tasks # <<>> /\ Head(todo) = tasks[1] /\ tasks[1].do = "item"
      /\ path = at[1] /\ Fits(e, tasks[1], at[1])
      /\ Tally(FoundIn(e, Past(e, tasks, at)), findings, suppressed)
      /\ Past(e, tasks, at) \cap Region(e, tasks[1], at[1]) = {}
  BY <1>1, NowFirst
<1>3. /\ o \in Entered(e) /\ tasks[1].type = TypeAt(e, o) /\ k \in Nat \ {0}
      /\ tasks[1] = Item(tasks[1].type, tasks[1].item, k)
  BY <1>2 DEF Fits
<1>4. o.at = at[1] /\ o.value = tasks[1].item
  BY DEF Node
<1> DEFINE t == tasks[1].type
<1>5. t \in DOMAIN Schema
  BY <1>2, <1>3, EnteredNode
<1>6. k \in DOMAIN Attributes(t)
  BY <1>1, <1>2, <1>3, <1>5, AttributeFacts
<1>7. /\ a \in AttributesAt(e, o)
      /\ ItemRegion(e, o.at, t, k) = PlaceRegion(e, PlaceOf(o, a)) \cup ItemRegion(e, o.at, t, k + 1)
      /\ PlaceRegion(e, PlaceOf(o, a)) \cap ItemRegion(e, o.at, t, k + 1) = {}
  BY <1>2, <1>3, <1>6, ItemSplit
<1>8. Current = a /\ CurrentValue = At(o.value, a.name) /\ PlaceOf(o, a) = Append(path, a.name)
  BY <1>2, <1>4 DEF Current, CurrentValue, PlaceOf
<1>9. /\ PlaceOf(o, a) \in Path /\ PlaceOf(o, a) # <<>> /\ Front(PlaceOf(o, a)) = at[1]
      /\ Owner(PlaceOf(o, a)) = PlaceOf(o, a)
  BY <1>2, <1>3, <1>4, <1>7, AttributeName DEF Owner
<1>10. next = [Head(todo) EXCEPT !.next = @ + 1]
  <2>1. [Item(tasks[1].type, tasks[1].item, k) EXCEPT !.next = @ + 1] = next
    BY DEF Item
  <2>2. QED BY <1>2, <1>3, <2>1
<1>11. next.do = "item" /\ next.type = t /\ next.item = tasks[1].item /\ next.next = k + 1
  BY DEF Item
<1>12. Fits(e, next, at[1])
  <2>1. next.next \in Nat \ {0} /\ next = Item(next.type, next.item, next.next)
    BY <1>3, <1>11
  <2>2. Node(at[1], next.item) \in Entered(e) /\ next.type = TypeAt(e, Node(at[1], next.item))
    BY <1>3, <1>11
  <2>3. QED BY <1>11, <2>1, <2>2 DEF Fits
<1>13. Region(e, next, at[1]) = ItemRegion(e, o.at, t, k + 1) /\ Region(e, tasks[1], at[1]) = ItemRegion(e, o.at, t, k)
  BY <1>2, <1>4, <1>11 DEF Region
<1>14. Turn(e, tasks, at, o, a, PlaceOf(o, a), next)
  BY <1>2, <1>3, <1>4, <1>7, <1>9, <1>11, <1>12, <1>13 DEF Turn
<1>19. QED BY <1>8, <1>10, <1>14

(* What is found there.                                                    *)
AttributeRaises(e, o, a, q, raised) ==
    LET v == At(o.value, a.name)
    IN \/ /\ ~Active(e.profiles, a)
          /\ raised = When(Present(v), "AttributeRequiresProfile", q)
       \/ /\ Active(e.profiles, a) /\ ~Present(v)
          /\ raised = When(a.requirement = "required", "AttributeRequiredMissing", q)
                      \o When(a.requirement = "recommended" /\ WarnOnMissingRecommended,
                              "AttributeRecommendedMissing", q)
       \/ /\ Active(e.profiles, a) /\ Present(v)
          /\ raised = When(a.deprecated, "AttributeDeprecated", q)
                      \o When(a.array /\ v.k # "array", "AttributeWrongType", q)

(* What the code raises at an attribute is what is wrong with it.          *)
LEMMA AttributeFindings ==
    ASSUME NEW e \in Events, NEW o \in Entered(e), NEW a \in AttributesAt(e, o),
           NEW q, q = PlaceOf(o, a), NEW raised, AttributeRaises(e, o, a, q, raised)
    PROVE  /\ Sequence(raised) /\ IsInjective(raised)
           /\ \A f : f \in ToSet(raised) <=> RaisedAt(e, Origin("attribute", q), f)
<1>6. PICK v : v = At(o.value, a.name)
  OBVIOUS
<1>7. \/ /\ ~Active(e.profiles, a)
         /\ raised = When(Present(v), "AttributeRequiresProfile", q)
      \/ /\ Active(e.profiles, a) /\ ~Present(v)
         /\ raised = When(a.requirement = "required", "AttributeRequiredMissing", q)
                     \o When(a.requirement = "recommended" /\ WarnOnMissingRecommended,
                             "AttributeRecommendedMissing", q)
      \/ /\ Active(e.profiles, a) /\ Present(v)
         /\ raised = When(a.deprecated, "AttributeDeprecated", q)
                     \o When(a.array /\ v.k # "array", "AttributeWrongType", q)
  BY <1>6 DEF AttributeRaises
<1>1. \A f : RaisedAt(e, Origin("attribute", q), f) <=> \E code \in AttributeFaults(e, o, a) : f = Finding(code, q)
  BY RaisedAttribute
<1>2. CASE ~Active(e.profiles, a) /\ raised = When(Present(v), "AttributeRequiresProfile", q)
  <2>1. \A code : code \in AttributeFaults(e, o, a) <=> code = "AttributeRequiresProfile" /\ Present(v)
    BY <1>2, <1>6 DEF AttributeFaults, FindingCode
  <2>2. /\ Sequence(raised) /\ IsInjective(raised)
        /\ \A f : f \in ToSet(raised) <=> Present(v) /\ f = Finding("AttributeRequiresProfile", q)
    BY <1>2, WhenFacts
  <2>3. QED BY <1>1, <2>1, <2>2
<1>3. CASE /\ Active(e.profiles, a) /\ ~Present(v)
           /\ raised = When(a.requirement = "required", "AttributeRequiredMissing", q)
                       \o When(a.requirement = "recommended" /\ WarnOnMissingRecommended,
                               "AttributeRecommendedMissing", q)
  <2> DEFINE b1 == a.requirement = "required"
             b2 == a.requirement = "recommended" /\ WarnOnMissingRecommended
             s1 == When(b1, "AttributeRequiredMissing", q)
             s2 == When(b2, "AttributeRecommendedMissing", q)
  <2>1. \A code : code \in AttributeFaults(e, o, a) <=> \/ code = "AttributeRequiredMissing" /\ b1
                                                        \/ code = "AttributeRecommendedMissing" /\ b2
    BY <1>3, <1>6 DEF AttributeFaults, FindingCode
  <2>5. raised = s1 \o s2
    BY <1>3
  <2> HIDE DEF b1, b2
  <2>2. Sequence(s1) /\ IsInjective(s1) /\ \A f : f \in ToSet(s1) <=> b1 /\ f = Finding("AttributeRequiredMissing", q)
    BY WhenFacts
  <2>3. Sequence(s2) /\ IsInjective(s2) /\ \A f : f \in ToSet(s2) <=> b2 /\ f = Finding("AttributeRecommendedMissing", q)
    BY WhenFacts
  <2>4. Finding("AttributeRequiredMissing", q) # Finding("AttributeRecommendedMissing", q)
    BY FindingDiffer
  <2> HIDE DEF s1, s2
  <2>6. ToSet(s1) \cap ToSet(s2) = {}
    BY <2>2, <2>3, <2>4
  <2>7. Sequence(raised) /\ IsInjective(raised) /\ \A f : f \in ToSet(raised) <=> f \in ToSet(s1) \/ f \in ToSet(s2)
    BY <2>2, <2>3, <2>5, <2>6, JoinDistinct
  <2>8. QED BY <1>1, <2>1, <2>2, <2>3, <2>7
<1>4. CASE /\ Active(e.profiles, a) /\ Present(v)
           /\ raised = When(a.deprecated, "AttributeDeprecated", q)
                       \o When(a.array /\ v.k # "array", "AttributeWrongType", q)
  <2> DEFINE b1 == a.deprecated
             b2 == a.array /\ v.k # "array"
             s1 == When(b1, "AttributeDeprecated", q)
             s2 == When(b2, "AttributeWrongType", q)
  <2>1. \A code : code \in AttributeFaults(e, o, a) <=> \/ code = "AttributeDeprecated" /\ b1
                                                        \/ code = "AttributeWrongType" /\ b2
    BY <1>4, <1>6 DEF AttributeFaults, FindingCode
  <2>5. raised = s1 \o s2
    BY <1>4
  <2> HIDE DEF b1, b2
  <2>2. Sequence(s1) /\ IsInjective(s1) /\ \A f : f \in ToSet(s1) <=> b1 /\ f = Finding("AttributeDeprecated", q)
    BY WhenFacts
  <2>3. Sequence(s2) /\ IsInjective(s2) /\ \A f : f \in ToSet(s2) <=> b2 /\ f = Finding("AttributeWrongType", q)
    BY WhenFacts
  <2>4. Finding("AttributeDeprecated", q) # Finding("AttributeWrongType", q)
    BY FindingDiffer
  <2> HIDE DEF s1, s2
  <2>6. ToSet(s1) \cap ToSet(s2) = {}
    BY <2>2, <2>3, <2>4
  <2>7. Sequence(raised) /\ IsInjective(raised) /\ \A f : f \in ToSet(raised) <=> f \in ToSet(s1) \/ f \in ToSet(s2)
    BY <2>2, <2>3, <2>5, <2>6, JoinDistinct
  <2>8. QED BY <1>1, <2>1, <2>2, <2>3, <2>7
<1>5. QED BY <1>2, <1>3, <1>4, <1>7

-----------------------------------------------------------------------------
(* Short tuples, appended to.                                              *)
LEMMA AppendTuple ==
    /\ \A x, y : Append(<<x>>, y) = <<x, y>>
    /\ \A x, y, z : Append(<<x>> \o <<y>>, z) = <<x, y, z>>
    /\ \A y, z : Append(<<>> \o <<y>>, z) = <<y, z>>
<1>1. ASSUME NEW x, NEW y PROVE Append(<<x>>, y) = <<x, y>>
  <2> DEFINE S == {x, y}
             s == Append(<<x>>, y)
             t == <<x, y>>
  <2>1. <<x>> \in Seq(S) /\ y \in S /\ t \in Seq(S) /\ Len(<<x>>) = 1 /\ <<x>>[1] = x
        /\ Len(t) = 2 /\ t[1] = x /\ t[2] = y
    OBVIOUS
  <2>2. s \in Seq(S) /\ Len(s) = Len(<<x>>) + 1 /\ s[Len(<<x>>) + 1] = y /\ \A i \in 1 .. Len(<<x>>) : s[i] = <<x>>[i]
    BY <2>1, AppendProperties
  <2> HIDE DEF S, s, t
  <2>3. Len(s) = 2 /\ s[1] = x /\ s[2] = y
    BY <2>1, <2>2
  <2>4. \A i \in 1 .. Len(s) : s[i] = t[i]
    BY <2>1, <2>3
  <2>5. s = t
    BY <2>1, <2>2, <2>3, <2>4, SeqEqual
  <2>6. QED BY <2>5 DEF s, t
<1>2. ASSUME NEW x, NEW y PROVE <<x>> \o <<y>> = <<x, y>>
  <2> DEFINE S == {x, y}
             s == <<x>> \o <<y>>
             t == <<x, y>>
  <2>1. <<x>> \in Seq(S) /\ <<y>> \in Seq(S) /\ t \in Seq(S) /\ Len(<<x>>) = 1 /\ <<x>>[1] = x
        /\ Len(<<y>>) = 1 /\ <<y>>[1] = y /\ Len(t) = 2 /\ t[1] = x /\ t[2] = y
    OBVIOUS
  <2>2. /\ s \in Seq(S) /\ Len(s) = Len(<<x>>) + Len(<<y>>)
        /\ \A i \in 1 .. Len(<<x>>) + Len(<<y>>) : s[i] = IF i <= Len(<<x>>) THEN <<x>>[i] ELSE <<y>>[i - Len(<<x>>)]
    BY <2>1, ConcatProperties
  <2> HIDE DEF S, s, t
  <2>3. Len(s) = 2 /\ s[1] = x /\ s[2] = y
    BY <2>1, <2>2
  <2>4. \A i \in 1 .. Len(s) : s[i] = t[i]
    BY <2>1, <2>3
  <2>5. s = t
    BY <2>1, <2>2, <2>3, <2>4, SeqEqual
  <2>6. QED BY <2>5 DEF s, t
<1>3. ASSUME NEW x, NEW y, NEW z PROVE Append(<<x, y>>, z) = <<x, y, z>>
  <2> DEFINE S == {x, y, z}
             s == Append(<<x, y>>, z)
             t == <<x, y, z>>
  <2>1. <<x, y>> \in Seq(S) /\ z \in S /\ t \in Seq(S) /\ Len(<<x, y>>) = 2 /\ <<x, y>>[1] = x /\ <<x, y>>[2] = y
        /\ Len(t) = 3 /\ t[1] = x /\ t[2] = y /\ t[3] = z
    OBVIOUS
  <2>2. s \in Seq(S) /\ Len(s) = Len(<<x, y>>) + 1 /\ s[Len(<<x, y>>) + 1] = z /\ \A i \in 1 .. Len(<<x, y>>) : s[i] = <<x, y>>[i]
    BY <2>1, AppendProperties
  <2> HIDE DEF S, s, t
  <2>3. Len(s) = 3 /\ s[1] = x /\ s[2] = y /\ s[3] = z
    BY <2>1, <2>2
  <2>4. \A i \in 1 .. Len(s) : s[i] = t[i]
    BY <2>1, <2>3
  <2>5. s = t
    BY <2>1, <2>2, <2>3, <2>4, SeqEqual
  <2>6. QED BY <2>5 DEF s, t
<1>4. ASSUME NEW y PROVE <<>> \o <<y>> = <<y>>
  OBVIOUS
<1>5. ASSUME NEW x, NEW y, NEW z PROVE Append(<<x>> \o <<y>>, z) = <<x, y, z>>
  <2>1. <<x>> \o <<y>> = <<x, y>>
    BY <1>2
  <2>2. Append(<<x, y>>, z) = <<x, y, z>>
    BY <1>3
  <2> DEFINE u == <<x>> \o <<y>>
             v == <<x, y>>
  <2>3. u = v
    BY <2>1
  <2> HIDE DEF u
  <2>4. Append(u, z) = <<x, y, z>>
    BY <2>2, <2>3
  <2>5. QED BY <2>4 DEF u
<1>6. ASSUME NEW y, NEW z PROVE Append(<<>> \o <<y>>, z) = <<y, z>>
  <2>1. <<>> \o <<y>> = <<y>>
    BY <1>4
  <2>2. Append(<<y>>, z) = <<y, z>>
    BY <1>1
  <2> DEFINE u == <<>> \o <<y>>
             v == <<y>>
  <2>3. u = v
    BY <2>1
  <2> HIDE DEF u
  <2>4. Append(u, z) = <<y, z>>
    BY <2>2, <2>3
  <2>5. QED BY <2>4 DEF u
<1>7. QED BY <1>1, <1>5, <1>6

(* An attribute's own origin is all that is done.                          *)
LEMMA AttributeDone ==
    ASSUME NEW e, NEW tasks, NEW at, NEW seen, NEW said, NEW r, NEW c,
           Now(e, tasks, at, seen, said, r, c), DoingAttribute,
           NEW o \in Entered(e), NEW a \in AttributesAt(e, o), NEW q, q = PlaceOf(o, a), NEW D, D = {Origin("attribute", q)},
           D \cap Past(e, tasks, at) = {}, NEW raised, Raise(raised),
           Sequence(raised), IsInjective(raised),
           \A f : f \in ToSet(raised) <=> RaisedAt(e, Origin("attribute", q), f)
    PROVE  /\ Tally(FoundIn(e, Past(e, tasks, at) \cup D), findings', suppressed')
           /\ ~Active(e.profiles, a) => Moves(e, tasks, at, seen, said, D, seen)
           /\ Active(e.profiles, a) => Moves(e, tasks, at, seen, said, D, Append(seen, q))
<1> DEFINE x == Origin("attribute", q)
           past == Past(e, tasks, at)
<1>1. /\ e \in Events /\ Tally(FoundIn(e, past), findings, suppressed)
      /\ VisitsInv(e, past, seen) /\ LimitInv(e, past, seen, said) /\ seen \in Seq(Path)
  BY DEF Now, VisitsInv
<1>2. x \in Origins(e) /\ x \notin past /\ q \in Path
  BY <1>1, Origined, AttributeName
<1>3. Tally(FoundIn(e, past \cup D), findings', suppressed')
  <2> HIDE DEF past, x
  <2>1. \A f : f \in ToSet(raised) <=> RaisedAt(e, x, f)
    BY DEF x
  <2>2. Tally(FoundIn(e, past \cup {x}), findings', suppressed')
    BY <1>1, <1>2, <2>1, TallyMore
  <2>3. QED BY <2>2 DEF x
<1>4. \A m \in Limited(e) : Origin("value", m.at) \notin D
  BY DEF Origin
<1>5. LimitInv(e, past \cup D, seen, said) /\ LimitInv(e, past \cup D, Append(seen, q), said)
  <2> HIDE DEF past
  <2>1. QED BY <1>1, <1>2, <1>4, LimitStays
<1>6. D \subseteq Origins(e)
  BY <1>2
<1>7. ASSUME ~Active(e.profiles, a) PROVE VisitsInv(e, past \cup D, seen)
  <2>1. \A u \in Entered(e) : \A b \in AttributesAt(e, u) :
          Gives(e, u, b) => Origin("attribute", PlaceOf(u, b)) \notin D
    <3> SUFFICES ASSUME NEW u \in Entered(e), NEW b \in AttributesAt(e, u), Gives(e, u, b),
                        Origin("attribute", PlaceOf(u, b)) \in D
                 PROVE  FALSE
      OBVIOUS
    <3>1. PlaceOf(u, b) = PlaceOf(o, a)
      BY OriginDiffer
    <3>2. u = o /\ b = a
      BY <1>1, <3>1, PlaceOnly
    <3>3. QED BY <1>7, <3>2 DEF Gives
  <2> HIDE DEF past
  <2>2. QED BY <1>1, <2>1, VisitsStay
<1>8. ASSUME Active(e.profiles, a) PROVE VisitsInv(e, past \cup D, Append(seen, q))
  <2>1. Gives(e, o, a)
    BY <1>8 DEF Gives
  <2>2. Origin("attribute", PlaceOf(o, a)) \notin past
    BY <1>2
  <2> HIDE DEF past
  <2>3. VisitsInv(e, past \cup {Origin("attribute", PlaceOf(o, a))}, Append(seen, PlaceOf(o, a)))
    BY <1>1, <2>1, <2>2, VisitsMore
  <2>4. QED BY <2>3
<1>9. QED BY <1>3, <1>5, <1>6, <1>7, <1>8 DEF Moves

(* VisitInactive keeps the invariant of the walk.                          *)
LEMMA InactiveStep ==
    ASSUME NEW e, NEW tasks, NEW at, NEW seen, NEW said, NEW r, NEW c,
           Now(e, tasks, at, seen, said, r, c), VisitInactive
    PROVE  \E at2 : Walking(at2)'
<1>1. DoingAttribute
  BY DEF VisitInactive
<1>2. PICK o, a, q, next :
        /\ Turn(e, tasks, at, o, a, q, next)
        /\ Current = a /\ CurrentValue = At(o.value, a.name) /\ q = Append(path, a.name)
        /\ next = [Head(todo) EXCEPT !.next = @ + 1]
  BY <1>1, NowItem
<1>6. q = PlaceOf(o, a)
  BY <1>2 DEF Turn
<1>7. /\ e \in Events /\ tasks # <<>> /\ tasks[1].do = "item" /\ o \in Entered(e)
      /\ a \in AttributesAt(e, o) /\ next.do = "item" /\ Fits(e, next, at[1])
      /\ Region(e, tasks[1], at[1]) = PlaceRegion(e, q) \cup Region(e, next, at[1])
      /\ PlaceRegion(e, q) \cap Region(e, next, at[1]) = {}
      /\ Past(e, tasks, at) \cap Region(e, tasks[1], at[1]) = {}
  BY <1>2 DEF Turn
<1>8. PICK raised : raised = When(Present(At(o.value, a.name)), "AttributeRequiresProfile", q)
  OBVIOUS
<1>9. /\ ~Active(e.profiles, a) /\ Raise(raised)
      /\ todo' = <<next>> \o Tail(todo)
      /\ UNCHANGED <<policyVars, event, path, visits, issues, done>>
  <2>1. Append(<<>>, next) = <<next>>
    OBVIOUS
  <2>2. event = e
    BY DEF Now
  <2>3. QED BY <1>2, <1>8, <2>1, <2>2 DEF VisitInactive, Before, Push
<1>10. PICK D : D = {Origin("attribute", q)}
  OBVIOUS
<1>11. PlaceRegion(e, q) = D
  <2>1. \A m : ~ValueOf(e, m, o, a)
    BY <1>7, <1>9, NoValueOf
  <2>2. PlaceRegion(e, PlaceOf(o, a)) = {Origin("attribute", PlaceOf(o, a))}
    BY ONLY <1>7, <2>1, PlaceAlone
  <2>3. QED BY <1>6, <1>10, <2>2
<1>12. /\ Sequence(raised) /\ IsInjective(raised)
       /\ \A f : f \in ToSet(raised) <=> RaisedAt(e, Origin("attribute", q), f)
  <2>1. AttributeRaises(e, o, a, q, raised)
    BY <1>8, <1>9 DEF AttributeRaises
  <2>2. QED BY ONLY <1>6, <1>7, <2>1, AttributeFindings
<1>13. D \cap Past(e, tasks, at) = {}
  BY <1>7, <1>11
<1>14. /\ Tally(FoundIn(e, Past(e, tasks, at) \cup D), findings', suppressed')
       /\ Moves(e, tasks, at, seen, said, D, seen)
  BY <1>1, <1>6, <1>7, <1>9, <1>10, <1>12, <1>13, AttributeDone
<1>15. /\ Region(e, tasks[1], at[1]) = D \cup Region(e, next, at[1])
       /\ D \cap Region(e, next, at[1]) = {}
  BY <1>7, <1>11
<1>16. visits' = seen
  BY <1>9 DEF Now
<1>17. QED BY <1>7, <1>9, <1>14, <1>15, <1>16, PushOne

(* An attribute without a value to look into.                              *)
LEMMA PassStep ==
    ASSUME NEW e, NEW tasks, NEW at, NEW seen, NEW said, NEW r, NEW c,
           Now(e, tasks, at, seen, said, r, c), DoingAttribute,
           NEW o, NEW a, NEW next, NEW q, Turn(e, tasks, at, o, a, q, next),
           Active(e.profiles, a), \A m : ~ValueOf(e, m, o, a),
           NEW raised, Raise(raised), Sequence(raised), IsInjective(raised),
           \A f : f \in ToSet(raised) <=> RaisedAt(e, Origin("attribute", q), f),
           todo' = <<Pop, next>> \o Tail(todo), path' = q, visits' = Append(seen, q),
           UNCHANGED <<policyVars, event, issues, done>>
    PROVE  \E at2 : Walking(at2)'
<1>0. /\ e \in Events /\ tasks # <<>> /\ tasks[1].do = "item" /\ o \in Entered(e)
      /\ a \in AttributesAt(e, o) /\ q = PlaceOf(o, a) /\ q \in Path /\ q # <<>>
      /\ Front(q) = at[1] /\ next.do = "item" /\ Fits(e, next, at[1])
      /\ Region(e, tasks[1], at[1]) = PlaceRegion(e, q) \cup Region(e, next, at[1])
      /\ PlaceRegion(e, q) \cap Region(e, next, at[1]) = {}
      /\ Past(e, tasks, at) \cap Region(e, tasks[1], at[1]) = {}
  BY DEF Turn
<1>1. PICK D : D = {Origin("attribute", q)}
  OBVIOUS
<1>2. PlaceRegion(e, q) = D
  BY <1>0, <1>1, PlaceAlone
<1>3. D \cap Past(e, tasks, at) = {}
  BY <1>0, <1>2
<1>4. /\ Tally(FoundIn(e, Past(e, tasks, at) \cup D), findings', suppressed')
      /\ Moves(e, tasks, at, seen, said, D, Append(seen, q))
  BY <1>0, <1>1, <1>3, AttributeDone
<1>5. PICK t1 : t1 = Pop
  OBVIOUS
<1>6. t1.do = "pop" /\ Region(e, t1, q) = {} /\ After(t1, q) = at[1] /\ Fits(e, t1, q)
  BY <1>0, <1>5 DEF Pop, Region, After, Fits
<1>7. PICK seen2 : seen2 = Append(seen, q)
  OBVIOUS
<1>8. /\ Region(e, t1, q) \cap Region(e, next, at[1]) = {}
      /\ Region(e, tasks[1], at[1]) = D \cup (Region(e, t1, q) \cup Region(e, next, at[1]))
      /\ D \cap Region(e, t1, q) = {} /\ D \cap Region(e, next, at[1]) = {}
  BY <1>0, <1>2, <1>6
<1>9. /\ t1.do \in {"pop", "item"} /\ next.do \in {"item", "leave"}
      /\ todo' = <<t1, next>> \o Tail(todo) /\ visits' = seen2
      /\ Moves(e, tasks, at, seen, said, D, seen2)
  BY <1>0, <1>4, <1>5, <1>6, <1>7
<1>10. QED BY <1>0, <1>4, <1>6, <1>8, <1>9, PushTwo

(* VisitMissing keeps it.                                                  *)
LEMMA MissingStep ==
    ASSUME NEW e, NEW tasks, NEW at, NEW seen, NEW said, NEW r, NEW c,
           Now(e, tasks, at, seen, said, r, c), VisitMissing
    PROVE  \E at2 : Walking(at2)'
<1>1. DoingAttribute
  BY DEF VisitMissing, Dispatch
<1>2. PICK o, a, q, next :
        /\ Turn(e, tasks, at, o, a, q, next)
        /\ Current = a /\ CurrentValue = At(o.value, a.name) /\ q = Append(path, a.name)
        /\ next = [Head(todo) EXCEPT !.next = @ + 1]
  BY <1>1, NowItem
<1>6. q = PlaceOf(o, a)
  BY <1>2 DEF Turn
<1>7. /\ e \in Events /\ tasks # <<>> /\ tasks[1].do = "item" /\ o \in Entered(e)
      /\ a \in AttributesAt(e, o) /\ next.do = "item" /\ Fits(e, next, at[1])
      /\ Region(e, tasks[1], at[1]) = PlaceRegion(e, q) \cup Region(e, next, at[1])
      /\ PlaceRegion(e, q) \cap Region(e, next, at[1]) = {}
      /\ Past(e, tasks, at) \cap Region(e, tasks[1], at[1]) = {}
  BY <1>2 DEF Turn
<1>8. PICK raised : raised = When(a.requirement = "required", "AttributeRequiredMissing", q)
                             \o When(a.requirement = "recommended" /\ WarnOnMissingRecommended,
                                     "AttributeRecommendedMissing", q)
  OBVIOUS
<1>9. /\ Active(e.profiles, a) /\ ~Present(At(o.value, a.name)) /\ Raise(raised)
      /\ path' = q /\ visits' = Append(seen, q)
      /\ todo' = <<Pop, next>> \o Tail(todo)
      /\ UNCHANGED <<policyVars, event, issues, done>>
  <2>1. Append(<<Pop>>, next) = <<Pop, next>>
    BY AppendTuple
  <2>2. event = e /\ visits = seen
    BY DEF Now
  <2>3. /\ Active(e.profiles, a) /\ ~Present(At(o.value, a.name))
        /\ path' = q /\ visits' = Append(seen, q) /\ UNCHANGED <<policyVars, event, issues, done>>
    BY <1>2, <2>2 DEF VisitMissing, Dispatch
  <2>4. Raise(raised)
    BY <1>2, <1>8, <2>3 DEF VisitMissing
  <2>5. todo' = Append(<<Pop>>, next) \o Tail(todo)
    BY <1>2 DEF VisitMissing, Before, Push
  <2>6. QED BY <2>1, <2>3, <2>4, <2>5
<1>10. \A m : ~ValueOf(e, m, o, a)
  BY <1>7, <1>9, NoValueOf
<1>11. /\ Sequence(raised) /\ IsInjective(raised)
       /\ \A f : f \in ToSet(raised) <=> RaisedAt(e, Origin("attribute", q), f)
  <2>1. AttributeRaises(e, o, a, q, raised)
    BY <1>8, <1>9 DEF AttributeRaises
  <2>2. QED BY ONLY <1>6, <1>7, <2>1, AttributeFindings
<1>12. QED BY <1>1, <1>2, <1>9, <1>10, <1>11, PassStep

-----------------------------------------------------------------------------
(* An attribute with a value to look into.                                 *)
LEMMA LookStep ==
    ASSUME NEW e, NEW tasks, NEW at, NEW seen, NEW said, NEW r, NEW c,
           Now(e, tasks, at, seen, said, r, c), DoingAttribute,
           NEW o, NEW a, NEW next, NEW q, Turn(e, tasks, at, o, a, q, next),
           Active(e.profiles, a),
           NEW t1, t1.do \in Judging, Fits(e, t1, q),
           PlaceRegion(e, q) = {Origin("attribute", q)} \cup Region(e, t1, q),
           Origin("attribute", q) \notin Region(e, t1, q),
           NEW raised, Raise(raised), Sequence(raised), IsInjective(raised),
           \A f : f \in ToSet(raised) <=> RaisedAt(e, Origin("attribute", q), f),
           todo' = <<t1, Pop, next>> \o Tail(todo), path' = q, visits' = Append(seen, q),
           UNCHANGED <<policyVars, event, issues, done>>
    PROVE  \E at2 : Walking(at2)'
<1>0. /\ e \in Events /\ tasks # <<>> /\ tasks[1].do = "item" /\ o \in Entered(e)
      /\ a \in AttributesAt(e, o) /\ q = PlaceOf(o, a) /\ q \in Path /\ q # <<>>
      /\ Front(q) = at[1] /\ Owner(q) = q /\ next.do = "item" /\ Fits(e, next, at[1])
      /\ Region(e, tasks[1], at[1]) = PlaceRegion(e, q) \cup Region(e, next, at[1])
      /\ PlaceRegion(e, q) \cap Region(e, next, at[1]) = {}
      /\ Past(e, tasks, at) \cap Region(e, tasks[1], at[1]) = {}
  BY DEF Turn
<1>1. PICK D : D = {Origin("attribute", q)}
  OBVIOUS
<1>2. D \subseteq PlaceRegion(e, q)
  BY <1>1
<1>3. D \cap Past(e, tasks, at) = {}
  BY <1>0, <1>2
<1>4. /\ Tally(FoundIn(e, Past(e, tasks, at) \cup D), findings', suppressed')
      /\ Moves(e, tasks, at, seen, said, D, Append(seen, q))
  BY <1>0, <1>1, <1>3, AttributeDone
<1>5. PICK t2 : t2 = Pop
  OBVIOUS
<1>6. t2.do = "pop"
  BY <1>5 DEF Pop
<1>7. PICK seen2 : seen2 = Append(seen, q)
  OBVIOUS
<1>8. /\ Region(e, t1, q) \cap Region(e, next, at[1]) = {}
      /\ Region(e, tasks[1], at[1]) = D \cup (Region(e, t1, q) \cup Region(e, next, at[1]))
      /\ D \cap Region(e, t1, q) = {} /\ D \cap Region(e, next, at[1]) = {}
  BY <1>0, <1>1
<1>9. seen2 # <<>> /\ Owner(q) = Last(seen2)
  <2>1. seen \in Seq(Path)
    BY DEF Now, VisitsInv
  <2>2. seen2 # <<>> /\ Len(seen2) = Len(seen) + 1 /\ seen2[Len(seen) + 1] = q
    BY <1>0, <1>7, <2>1, AppendProperties
  <2>3. QED BY <1>0, <2>2 DEF Last
<1>10. /\ todo' = <<t1, t2, next>> \o Tail(todo) /\ visits' = seen2
       /\ Moves(e, tasks, at, seen, said, D, seen2) /\ tasks[1].do = next.do
  BY <1>0, <1>4, <1>5, <1>7
<1>11. QED BY <1>0, <1>4, <1>6, <1>8, <1>9, <1>10, PushThree

(* VisitPresent keeps it.                                                  *)
LEMMA PresentStep ==
    ASSUME NEW e, NEW tasks, NEW at, NEW seen, NEW said, NEW r, NEW c,
           Now(e, tasks, at, seen, said, r, c), VisitPresent
    PROVE  \E at2 : Walking(at2)'
<1>1. DoingAttribute
  BY DEF VisitPresent, Dispatch
<1>2. PICK o, a, q, next :
        /\ Turn(e, tasks, at, o, a, q, next)
        /\ Current = a /\ CurrentValue = At(o.value, a.name) /\ q = Append(path, a.name)
        /\ next = [Head(todo) EXCEPT !.next = @ + 1]
  BY <1>1, NowItem
<1>3. e \in Events /\ o \in Entered(e) /\ a \in AttributesAt(e, o) /\ q = PlaceOf(o, a)
  BY <1>2 DEF Turn
<1>4. PICK v : v = At(o.value, a.name)
  OBVIOUS
<1>5. PICK raised : raised = When(a.deprecated, "AttributeDeprecated", q)
                             \o When(a.array /\ v.k # "array", "AttributeWrongType", q)
  OBVIOUS
<1>6. event = e /\ visits = seen
  BY DEF Now
<1>7. /\ Active(e.profiles, a) /\ Present(v)
      /\ path' = q /\ visits' = Append(seen, q) /\ UNCHANGED <<policyVars, event, issues, done>>
  BY <1>2, <1>4, <1>6 DEF VisitPresent, Dispatch
<1>8. Raise(raised)
  BY <1>2, <1>4, <1>5, <1>7 DEF VisitPresent
<1>9. /\ Sequence(raised) /\ IsInjective(raised)
      /\ \A f : f \in ToSet(raised) <=> RaisedAt(e, Origin("attribute", q), f)
  <2>1. AttributeRaises(e, o, a, q, raised)
    BY <1>4, <1>5, <1>7 DEF AttributeRaises
  <2>2. QED BY ONLY <1>3, <2>1, AttributeFindings
<1>10. Gives(e, o, a)
  BY <1>3, <1>7 DEF Gives
<1>11. Before((IF a.array /\ v.k # "array" THEN <<>>
               ELSE IF a.array THEN <<Elements(a, v, 1)>> ELSE <<Value(a, v)>>) \o <<Pop>>)
  BY <1>2, <1>4 DEF VisitPresent
<1>12. \A ts : Before(ts) => todo' = Append(ts, next) \o Tail(todo)
  BY <1>2 DEF Before, Push
<1>13. CASE a.array /\ v.k # "array"
  <2>1. todo' = <<Pop, next>> \o Tail(todo)
    <3>1. Before(<<>> \o <<Pop>>)
      BY <1>11, <1>13
    <3>2. QED BY <1>12, <3>1, AppendTuple
  <2>2. \A m : ~ValueOf(e, m, o, a)
    BY <1>3, <1>4, <1>13, NoValueOf
  <2>3. QED BY <1>1, <1>2, <1>7, <1>8, <1>9, <2>1, <2>2, PassStep
<1>14. CASE a.array /\ v.k = "array"
  <2>1. PICK t1 : t1 = Elements(a, v, 1)
    OBVIOUS
  <2>2. todo' = <<t1, Pop, next>> \o Tail(todo)
    <3>1. Before(<<t1>> \o <<Pop>>)
      BY <1>11, <1>14, <2>1
    <3>2. QED BY <1>12, <3>1, AppendTuple
  <2>3. t1.do = "array" /\ t1.of = a /\ t1.value = v /\ t1.next = 1
    BY <2>1 DEF Elements
  <2>4. Fits(e, t1, q)
    <3>1. \E u \in Entered(e) : Gives(e, u, t1.of) /\ q = PlaceOf(u, t1.of) /\ t1.value = At(u.value, t1.of.name)
      BY <1>3, <1>4, <1>10, <2>3
    <3>2. t1.next \in Nat \ {0} /\ t1 = Elements(t1.of, t1.value, t1.next)
      BY <2>1, <2>3
    <3>3. QED BY <1>14, <2>3, <3>1, <3>2 DEF Fits
  <2>5. Region(e, t1, q) = ArrayRegion(e, q, v, 1)
    BY <2>3 DEF Region
  <2>6. /\ PlaceRegion(e, q) = {Origin("attribute", q)} \cup ArrayRegion(e, q, v, 1)
        /\ Origin("attribute", q) \notin ArrayRegion(e, q, v, 1)
    BY <1>3, <1>4, <1>10, <1>14, PlaceArray
  <2>7. t1.do \in Judging
    BY <2>3 DEF Judging
  <2>8. /\ PlaceRegion(e, q) = {Origin("attribute", q)} \cup Region(e, t1, q)
        /\ Origin("attribute", q) \notin Region(e, t1, q)
    BY <2>5, <2>6
  <2>9. QED BY <1>1, <1>2, <1>7, <1>8, <1>9, <2>2, <2>4, <2>7, <2>8, LookStep
<1>15. CASE ~a.array
  <2>1. PICK t1 : t1 = Value(a, v)
    OBVIOUS
  <2>2. todo' = <<t1, Pop, next>> \o Tail(todo)
    <3>1. Before(<<t1>> \o <<Pop>>)
      BY <1>11, <1>15, <2>1
    <3>2. QED BY <1>12, <3>1, AppendTuple
  <2>3. t1.do = "value" /\ t1.of = a /\ t1.value = v
    BY <2>1 DEF Value
  <2>4. /\ PlaceRegion(e, q) = {Origin("attribute", q)} \cup ValueRegion(e, q)
        /\ Origin("attribute", q) \notin ValueRegion(e, q)
        /\ ValueOf(e, Node(q, v), o, a)
    BY <1>3, <1>4, <1>7, <1>10, <1>15, PlaceSingle
  <2>5. Fits(e, t1, q)
    BY <1>3, <2>3, <2>4 DEF Fits
  <2>6. Region(e, t1, q) = ValueRegion(e, q)
    BY <2>3 DEF Region
  <2>7. t1.do \in Judging
    BY <2>3 DEF Judging
  <2>8. /\ PlaceRegion(e, q) = {Origin("attribute", q)} \cup Region(e, t1, q)
        /\ Origin("attribute", q) \notin Region(e, t1, q)
    BY <2>4, <2>6
  <2>9. QED BY <1>1, <1>2, <1>7, <1>8, <1>9, <2>2, <2>5, <2>7, <2>8, LookStep
<1>16. QED BY <1>13, <1>14, <1>15

(* VisitElement keeps it.                                                  *)
LEMMA ElementStep ==
    ASSUME NEW e, NEW tasks, NEW at, NEW seen, NEW said, NEW r, NEW c,
           Now(e, tasks, at, seen, said, r, c), VisitElement
    PROVE  \E at2 : Walking(at2)'
<1>1. Doing("array") /\ Head(todo).next \in DOMAIN Head(todo).value.of
  BY DEF VisitElement
<1>2. /\ e \in Events /\ tasks # <<>> /\ Head(todo) = tasks[1] /\ tasks[1].do = "array"
      /\ path = at[1] /\ at[1] \in Path /\ Fits(e, tasks[1], at[1]) /\ Plan(e, tasks, at, seen)
  BY <1>1, NowFirst
<1>3. PICK p : p = at[1]
  OBVIOUS
<1>4. PICK a : a = tasks[1].of
  OBVIOUS
<1>5. PICK v : v = tasks[1].value
  OBVIOUS
<1>6. PICK k : k = tasks[1].next
  OBVIOUS
<1>7. PICK o \in Entered(e) : Gives(e, o, a) /\ p = PlaceOf(o, a) /\ v = At(o.value, a.name)
  BY <1>2, <1>3, <1>4, <1>5 DEF Fits
<1>8. a.array /\ v.k = "array" /\ k \in Nat \ {0} /\ tasks[1] = Elements(a, v, k) /\ k \in DOMAIN v.of
  BY <1>1, <1>2, <1>4, <1>5, <1>6 DEF Fits
<1>9. a \in AttributesAt(e, o) /\ p \in Path
  BY <1>2, <1>3, <1>7 DEF Gives
<1>10. WellFormed(v)
  BY <1>2, <1>7, <1>8, <1>9, Attached DEF Present
<1>11. PICK n \in 0 .. Len(Index) : DOMAIN v.of = 1 .. n
  BY <1>8, <1>10, Formed
<1>12. Index[k] \in Element /\ ~IsName(Index[k])
  BY <1>8, <1>11, Indexes
<1>13. PICK q : q = Append(p, Index[k])
  OBVIOUS
<1>14. q \in Path /\ q # <<>> /\ Front(q) = p /\ Last(q) = Index[k]
  BY <1>9, <1>12, <1>13, Longer
<1>15. PICK t1 : t1 = Value(a, v.of[k])
  OBVIOUS
<1>16. PICK t2 : t2 = Pop
  OBVIOUS
<1>17. PICK t3 : t3 = Elements(a, v, k + 1)
  OBVIOUS
<1>18. /\ t1.do = "value" /\ t1.of = a /\ t1.value = v.of[k] /\ t2.do = "pop"
       /\ t3.do = "array" /\ t3.of = a /\ t3.value = v /\ t3.next = k + 1
  BY <1>15, <1>16, <1>17 DEF Value, Pop, Elements
<1>19. t3 = [Head(todo) EXCEPT !.next = @ + 1]
  <2>1. [Elements(a, v, k) EXCEPT !.next = @ + 1] = t3
    BY <1>17 DEF Elements
  <2>2. QED BY <1>2, <1>8, <2>1
<1>20. /\ todo' = <<t1, t2, t3>> \o Tail(todo) /\ path' = q
       /\ UNCHANGED <<policyVars, event, visits, findings, suppressed, issues, done>>
  <2>1. Head(todo).of = a /\ Head(todo).value = v /\ Head(todo).next = k
    BY <1>2, <1>4, <1>5, <1>6
  <2>2. QED BY <1>2, <1>3, <1>13, <1>15, <1>16, <1>19, <2>1 DEF VisitElement, Push
<1>21. Fits(e, t1, q)
  <2>1. Node(q, v.of[k]) = ElementAt(o, a, k)
    BY <1>7, <1>13 DEF ElementAt
  <2>2. ValueOf(e, Node(q, v.of[k]), o, a)
    BY <1>7, <1>8, <2>1 DEF ValueOf, OfArray
  <2>3. QED BY <1>18, <2>2 DEF Fits
<1>22. Fits(e, t3, p)
  <2>1. \E u \in Entered(e) : Gives(e, u, t3.of) /\ p = PlaceOf(u, t3.of) /\ t3.value = At(u.value, t3.of.name)
    BY <1>7, <1>18
  <2>2. t3.next \in Nat \ {0} /\ t3 = Elements(t3.of, t3.value, t3.next)
    BY <1>8, <1>17, <1>18
  <2>3. QED BY <1>8, <1>18, <2>1, <2>2 DEF Fits
<1>23. /\ Region(e, tasks[1], p) = ArrayRegion(e, p, v, k) /\ Region(e, t3, p) = ArrayRegion(e, p, v, k + 1)
       /\ Region(e, t1, q) = ValueRegion(e, q)
  BY <1>2, <1>5, <1>6, <1>18 DEF Region
<1>24. /\ Region(e, tasks[1], p) = {} \cup (Region(e, t1, q) \cup Region(e, t3, p))
       /\ Region(e, t1, q) \cap Region(e, t3, p) = {}
  <2>1. /\ ArrayRegion(e, p, v, k) = ValueRegion(e, Append(p, Index[k])) \cup ArrayRegion(e, p, v, k + 1)
        /\ ValueRegion(e, Append(p, Index[k])) \cap ArrayRegion(e, p, v, k + 1) = {}
    BY <1>2, <1>8, <1>9, <1>11, ArraySplit
  <2>2. QED BY <1>13, <1>23, <2>1
<1>25. Prior(t1, q) => seen # <<>> /\ Owner(q) = Last(seen)
  <2> SUFFICES ASSUME Prior(t1, q) PROVE seen # <<>> /\ Owner(q) = Last(seen)
    OBVIOUS
  <2>1. Prior(tasks[1], p)
    BY <1>4, <1>12, <1>14, <1>18, PriorUp DEF Prior
  <2>2. 1 \in DOMAIN tasks /\ tasks[1].do \in Judging
    BY <1>2, PlanFirst DEF Judging
  <2>3. seen # <<>> /\ Owner(p) = Last(seen)
    BY <1>2, <1>3, <2>1, <2>2, Behind
  <2>4. Owner(q) = p
    BY <1>12, <1>14 DEF Owner
  <2>5. Owner(p) = p
    BY <1>2, <1>7, <1>9, AttributeName DEF Owner
  <2>6. QED BY <2>3, <2>4, <2>5
<1>26. /\ Moves(e, tasks, at, seen, said, {}, seen)
       /\ Tally(FoundIn(e, Past(e, tasks, at) \cup {}), findings', suppressed')
  <2>1. Past(e, tasks, at) \cup {} = Past(e, tasks, at)
    OBVIOUS
  <2>2. /\ VisitsInv(e, Past(e, tasks, at), seen) /\ LimitInv(e, Past(e, tasks, at), seen, said)
        /\ Tally(FoundIn(e, Past(e, tasks, at)), findings, suppressed)
    BY DEF Now
  <2>3. QED BY <1>20, <2>1, <2>2 DEF Moves
<1>27. PICK D : D = {}
  OBVIOUS
<1>28. /\ UNCHANGED <<policyVars, event, issues, done>> /\ visits' = seen
  BY <1>20 DEF Now
<1>29. /\ Moves(e, tasks, at, seen, said, D, seen)
       /\ Tally(FoundIn(e, Past(e, tasks, at) \cup D), findings', suppressed')
       /\ Region(e, tasks[1], at[1]) = D \cup (Region(e, t1, q) \cup Region(e, t3, at[1]))
       /\ Region(e, t1, q) \cap Region(e, t3, at[1]) = {}
       /\ D \cap Region(e, t1, q) = {} /\ D \cap Region(e, t3, at[1]) = {}
       /\ Fits(e, t3, at[1]) /\ Front(q) = at[1] /\ ~IsName(Last(q)) /\ tasks[1].do = t3.do
       /\ t1.do \in Judging /\ t3.of = t1.of
  BY <1>2, <1>3, <1>12, <1>14, <1>18, <1>22, <1>24, <1>26, <1>27 DEF Judging
<1>30. Now(e, tasks, at, seen, said, r, c)
  OBVIOUS
<1>31. QED BY ONLY <1>2, <1>14, <1>18, <1>20, <1>21, <1>25, <1>28, <1>29, <1>30, PushThree

-----------------------------------------------------------------------------
(* An object that the walk enters.                                         *)
LEMMA EnteredFindings ==
    ASSUME NEW e \in Events, NEW n \in Values(e), n \in Entered(e), NEW a, a = Declared(e, n.at),
           Enterable(a, n.value), TypeAt(e, n) = a.type,
           NEW raised, raised = When(Schema[a.type].deprecated, "ObjectDeprecated", n.at)
    PROVE  /\ Sequence(raised) /\ IsInjective(raised)
           /\ \A f : f \in ToSet(raised) <=> RaisedAt(e, Origin("value", n.at), f)
<1> DEFINE b == Schema[a.type].deprecated
           f0 == Finding("ObjectDeprecated", n.at)
<1>1. \A code : code \in ValueFaults(e, n) <=> code = "ObjectDeprecated" /\ b
  BY DEF ValueFaults, FindingCode, Enterable
<1>2. \A f : RaisedAt(e, Origin("value", n.at), f) <=> \E code \in ValueFaults(e, n) : f = Finding(code, n.at)
  BY RaisedValue
<1>3. \A f : RaisedAt(e, Origin("value", n.at), f) <=> b /\ f = f0
  BY <1>1, <1>2
<1>4. raised = When(b, "ObjectDeprecated", n.at)
  OBVIOUS
<1> HIDE DEF b
<1>5. /\ Sequence(raised) /\ IsInjective(raised)
      /\ \A f : f \in ToSet(raised) <=> b /\ f = f0
  BY <1>4, WhenFacts
<1>6. QED BY <1>3, <1>5

(* EnterObject keeps it.                                                   *)
LEMMA EnterStep ==
    ASSUME NEW e, NEW tasks, NEW at, NEW seen, NEW said, NEW r, NEW c,
           Now(e, tasks, at, seen, said, r, c), EnterObject
    PROVE  \E at2 : Walking(at2)'
<1>1. Doing("value")
  BY DEF EnterObject
<1>2. /\ e \in Events /\ tasks # <<>> /\ Head(todo) = tasks[1] /\ tasks[1].do = "value"
      /\ at[1] \in Path
      /\ Plan(e, tasks, at, seen) /\ Tally(FoundIn(e, Past(e, tasks, at)), findings, suppressed)
      /\ Past(e, tasks, at) \cap Region(e, tasks[1], at[1]) = {}
  BY <1>1, NowFirst
<1>3. PICK n : n = Node(at[1], tasks[1].value)
  OBVIOUS
<1>4. PICK a : a = tasks[1].of
  OBVIOUS
<1>5. /\ n \in Values(e) /\ Declared(e, n.at) = a /\ n.at = at[1] /\ n.value = tasks[1].value
      /\ n \in Entered(e) <=> Enterable(a, n.value) /\ ~HasPriorAttribute(n.at, a.name)
      /\ n \in Limited(e) <=> Enterable(a, n.value) /\ HasPriorAttribute(n.at, a.name)
      /\ n \in Entered(e) => TypeAt(e, n) = a.type
      /\ at[2] = at[1] /\ path = at[1]
      /\ Origin("value", n.at) \in Origins(e)
      /\ Region(e, tasks[1], at[1]) = ValueRegion(e, n.at)
      /\ \A o \in Entered(e) : \A b \in AttributesAt(e, o) : Origin("attribute", PlaceOf(o, b)) # Origin("value", n.at)
  BY <1>1, <1>3, <1>4, NowValue
<1>6. PICK raised : raised = When(Schema[a.type].deprecated, "ObjectDeprecated", n.at)
  OBVIOUS
<1>7. PICK t1 : t1 = Item(a.type, n.value, 1)
  OBVIOUS
<1>8. PICK t2 : t2 = [do |-> "leave", type |-> a.type, item |-> n.value]
  OBVIOUS
<1>9. /\ Raise(raised) /\ Enterable(a, n.value) /\ ~HasPriorAttribute(n.at, a.name)
      /\ todo' = <<t1, t2>> \o Tail(todo)
      /\ UNCHANGED <<policyVars, event, path, visits, issues, done>>
  BY <1>2, <1>4, <1>5, <1>6, <1>7, <1>8 DEF EnterObject, Push
<1>10. n \in Entered(e) /\ n \notin Limited(e) /\ TypeAt(e, n) = a.type
  BY <1>5, <1>9
<1>11. n # Root(e) /\ Node(n.at, n.value) = n
  BY <1>2, <1>5, ValueNode DEF Root
<1>12. /\ t1.do = "item" /\ t1.type = a.type /\ t1.item = n.value /\ t1.next = 1
       /\ t2.do = "leave" /\ t2.type = a.type /\ t2.item = n.value
  BY <1>7, <1>8 DEF Item
<1>13. Fits(e, t1, n.at)
  <2>1. /\ Node(n.at, t1.item) \in Entered(e) /\ t1.type = TypeAt(e, Node(n.at, t1.item))
        /\ t1.next \in Nat \ {0} /\ t1 = Item(t1.type, t1.item, t1.next)
    BY <1>7, <1>10, <1>11, <1>12
  <2>2. QED BY <1>12, <2>1 DEF Fits
<1>14. Fits(e, t2, n.at)
  <2>1. /\ Node(n.at, t2.item) \in Entered(e) \ {Root(e)} /\ t2.type = TypeAt(e, Node(n.at, t2.item))
    BY <1>10, <1>11, <1>12
  <2>2. QED BY <1>12, <2>1 DEF Fits
<1>15. PICK x : x = Origin("value", n.at)
  OBVIOUS
<1>16. PICK D : D = {x}
  OBVIOUS
<1>17. /\ Region(e, t1, n.at) = ItemRegion(e, n.at, a.type, 1)
       /\ Region(e, t2, n.at) = {Origin("leave", n.at)}
  BY <1>12 DEF Region
<1>18. /\ Region(e, tasks[1], at[1]) = D \cup (Region(e, t1, n.at) \cup Region(e, t2, n.at))
       /\ D \cap Region(e, t1, n.at) = {} /\ D \cap Region(e, t2, n.at) = {}
       /\ Region(e, t1, n.at) \cap Region(e, t2, n.at) = {}
  <2>1. /\ ValueRegion(e, n.at) = {Origin("value", n.at), Origin("leave", n.at)}
                                     \cup ItemRegion(e, n.at, a.type, 1)
        /\ Origin("value", n.at) \notin ItemRegion(e, n.at, a.type, 1)
        /\ Origin("leave", n.at) \notin ItemRegion(e, n.at, a.type, 1)
    BY <1>2, <1>5, <1>10, EnteredSplit
  <2>2. Origin("value", n.at) # Origin("leave", n.at)
    BY OriginDiffer
  <2>3. QED BY <1>5, <1>15, <1>16, <1>17, <2>1, <2>2
<1>19. x \notin Past(e, tasks, at)
  BY <1>2, <1>16, <1>18
<1>20. /\ Sequence(raised) /\ IsInjective(raised)
       /\ \A f : f \in ToSet(raised) <=> RaisedAt(e, x, f)
  BY <1>2, <1>5, <1>6, <1>9, <1>10, <1>15, EnteredFindings
<1> DEFINE past == Past(e, tasks, at)
<1>21. /\ VisitsInv(e, past, seen) /\ LimitInv(e, past, seen, said) /\ seen \in Seq(Path) /\ visits' = seen
  BY <1>9 DEF Now, VisitsInv
<1> HIDE DEF past
<1>22. Tally(FoundIn(e, past \cup D), findings', suppressed')
  <2>1. x \in Origins(e) /\ Tally(FoundIn(e, past), findings, suppressed) /\ x \notin past
    BY <1>2, <1>5, <1>15, <1>19 DEF past
  <2>2. QED BY <1>2, <1>9, <1>16, <1>20, <2>1, TallyMore
<1>23. Moves(e, tasks, at, seen, said, D, seen)
  <2>1. \A m \in Limited(e) : Origin("value", m.at) \notin D
    <3>1. \A m \in Limited(e) : Origin("value", m.at) = x => m.at = n.at
      BY <1>15 DEF Origin
    <3>2. \A m \in Limited(e) : m \in Values(e)
      BY DEF Limited
    <3>3. QED BY <1>2, <1>5, <1>10, <1>16, <3>1, <3>2, ValueOnly
  <2>2. LimitInv(e, past \cup D, seen, said)
    BY <1>2, <1>21, <2>1, LimitStays
  <2>3. \A o \in Entered(e) : \A b \in AttributesAt(e, o) :
          Gives(e, o, b) => Origin("attribute", PlaceOf(o, b)) \notin D
    BY <1>5, <1>15, <1>16
  <2>4. VisitsInv(e, past \cup D, seen)
    BY <1>2, <1>21, <2>3, VisitsStay
  <2>5. D \subseteq Origins(e)
    BY <1>5, <1>15, <1>16
  <2>6. QED BY <2>2, <2>4, <2>5 DEF Moves, past
<1>24. /\ tasks[1].do = "value" /\ ~Prior(tasks[1], at[1])
       /\ UNCHANGED <<policyVars, event, issues, done>>
       /\ todo' = <<t1, t2>> \o Tail(todo) /\ path' = at[1]
       /\ t1.do \in {"pop", "item"} /\ t2.do \in {"item", "leave"} /\ After(t1, at[1]) = at[1]
       /\ Fits(e, t1, at[1]) /\ Fits(e, t2, at[1])
       /\ Region(e, t1, at[1]) \cap Region(e, t2, at[1]) = {}
       /\ Region(e, tasks[1], at[1]) = D \cup (Region(e, t1, at[1]) \cup Region(e, t2, at[1]))
       /\ D \cap Region(e, t1, at[1]) = {} /\ D \cap Region(e, t2, at[1]) = {}
       /\ Tally(FoundIn(e, Past(e, tasks, at) \cup D), findings', suppressed')
  BY <1>2, <1>4, <1>5, <1>9, <1>12, <1>13, <1>14, <1>18, <1>22 DEF Prior, After, past
<1>25. PICK q : q = at[1]
  OBVIOUS
<1>26. Now(e, tasks, at, seen, said, r, c)
  OBVIOUS
<1>27. /\ path' = q /\ visits' = seen /\ q \in Path /\ After(t1, q) = at[1] /\ Fits(e, t1, q)
       /\ Region(e, t1, q) \cap Region(e, t2, at[1]) = {}
       /\ Region(e, tasks[1], at[1]) = D \cup (Region(e, t1, q) \cup Region(e, t2, at[1]))
       /\ D \cap Region(e, t1, q) = {}
  BY <1>2, <1>21, <1>24, <1>25
<1>28. QED BY ONLY <1>2, <1>23, <1>24, <1>26, <1>27, PushTwo

-----------------------------------------------------------------------------
(* Nothing found yet.                                                      *)
LEMMA TallyNothing == Tally({}, <<>>, [level \in Level |-> 0])
<1>1. Shown({}) = {} /\ \A level \in Level : Hidden({}, level) = {}
  BY DEF Shown, Hidden
<1>2. IsFiniteSet({}) /\ Cardinality({}) = 0
  BY FS_EmptySet
<1>3. Sequence(<<>>) /\ Len(<<>>) = 0 /\ ToSet(<<>>) = {}
  BY EmptySequence DEF ToSet
<1>4. [level \in Level |-> 0] \in [Level -> Nat] /\ \A level \in Level : [l \in Level |-> 0][level] = 0
  OBVIOUS
<1>5. {[code |-> f.code, path |-> f.path, level |-> FindingLevel(f.code)] : f \in {}} = {}
  OBVIOUS
<1>6. QED BY <1>1, <1>2, <1>3, <1>4, <1>5 DEF Tally

(* The first tasks.                                                        *)
LEMMA FirstPlan ==
    ASSUME NEW e \in Events, NEW t1, t1 = Item(Class, e.item, 1), NEW t2, t2 = [do |-> "end"],
           NEW tasks, tasks = <<t1, t2>>, NEW at, at = <<<<>>, <<>>, <<>>>>
    PROVE  Plan(e, tasks, at, <<>>) /\ Past(e, tasks, at) = {Begin} /\ at[1] = <<>> /\ tasks # <<>>
<1>1. /\ Sequence(tasks) /\ Len(tasks) = 2 /\ tasks[1] = t1 /\ tasks[2] = t2
      /\ Sequence(at) /\ Len(at) = 3 /\ at[1] = <<>> /\ at[2] = <<>> /\ at[3] = <<>>
  BY Tuples
<1>2. DOMAIN tasks = {1, 2} /\ 1 # 2 /\ tasks # <<>> /\ 1 + 1 = 2 /\ 2 + 1 = 3
  OBVIOUS
<1>3. /\ t1.do = "item" /\ t1.type = Class /\ t1.item = e.item /\ t1.next = 1 /\ t2.do = "end"
      /\ t1 = Item(t1.type, t1.item, t1.next)
  BY DEF Item
<1>4. After(t1, <<>>) = <<>> /\ After(t2, <<>>) = <<>> /\ t1.do \in Task /\ t2.do \in Task
  BY <1>3 DEF After, Task
<1>5. t1.do \notin Judging /\ t2.do \notin Judging
  BY <1>3 DEF Judging
<1>6. Node(<<>>, e.item) = Root(e)
  BY DEF Node, Root
<1>7. Fits(e, t1, <<>>) /\ Fits(e, t2, <<>>)
  <2>1. /\ Node(<<>>, t1.item) \in Entered(e) /\ t1.type = TypeAt(e, Node(<<>>, t1.item))
        /\ t1.next \in Nat \ {0}
    BY <1>3, <1>6, EnteredRoot
  <2>2. QED BY <1>3, <2>1 DEF Fits
<1>8. /\ Region(e, t1, <<>>) = ItemRegion(e, <<>>, Class, 1)
      /\ Region(e, t2, <<>>) = {End}
  BY <1>3 DEF Region
<1>9. /\ Origins(e) = {Begin, End} \cup ItemRegion(e, <<>>, Class, 1)
      /\ Begin \notin ItemRegion(e, <<>>, Class, 1)
      /\ End \notin ItemRegion(e, <<>>, Class, 1)
  BY WholeSplit
<1>10. Begin # End
  BY OriginDiffer
<1>11. Past(e, tasks, at) = {Begin}
  <2>1. Past(e, tasks, at) = {x \in Origins(e) : x \notin Region(e, t1, <<>>) /\ x \notin Region(e, t2, <<>>)}
    BY <1>1, <1>2 DEF Past
  <2>2. QED BY <1>8, <1>9, <1>10, <2>1
<1>12. <<>> \in Path
  BY EmptyPath
<1>13. Plan(e, tasks, at, <<>>)
  <2>1. Region(e, t1, <<>>) \cap Region(e, t2, <<>>) = {}
    BY <1>8, <1>9
  <2>2. \A i \in DOMAIN tasks :
         /\ at[i] \in Path /\ at[i + 1] = After(tasks[i], at[i])
         /\ tasks[i].do \in Task /\ Fits(e, tasks[i], at[i])
         /\ tasks[i].do = "end" <=> i = Len(tasks)
         /\ \A j \in DOMAIN tasks : i # j => Region(e, tasks[i], at[i]) \cap Region(e, tasks[j], at[j]) = {}
         /\ tasks[i].do \notin Judging
    BY <1>1, <1>2, <1>3, <1>4, <1>5, <1>7, <1>12, <2>1
  <2>3. Len(at) = Len(tasks) + 1 /\ at[Len(at)] = <<>> /\ Sequence(tasks) /\ Sequence(at)
    BY <1>1
  <2>4. QED BY ONLY <2>2, <2>3 DEF Plan
<1>14. QED BY <1>1, <1>2, <1>11, <1>13

(* Before the first attribute nothing is visited or said.                  *)
LEMMA FirstVisits ==
    ASSUME NEW e \in Events
    PROVE  VisitsInv(e, {Begin}, <<>>) /\ LimitInv(e, {Begin}, <<>>, <<>>)
<1>1. \A q : Origin("attribute", q) # Begin /\ Origin("value", q) # Begin
  BY OriginDiffer
<1>2. <<>> \in Seq(Path) /\ IsInjective(<<>>) /\ ToSet(<<>>) = {}
  BY DEF IsInjective, ToSet
<1>3. VisitsInv(e, {Begin}, <<>>)
  BY <1>1, <1>2 DEF VisitsInv
<1>4. LimitInv(e, {Begin}, <<>>, <<>>)
  BY <1>1 DEF LimitInv
<1>5. QED BY <1>3, <1>4

(* ResolveClass starts the walk or refuses the event.                      *)
LEMMA ResolveStep ==
    ASSUME NEW e \in Events, event = e, Waiting, Compiled, ResolveClass
    PROVE  (\E at : Walking(at)') \/ Refused'
<1>1. /\ todo = <<[do |-> "begin"]>> /\ path = <<>> /\ visits = <<>>
      /\ findings = <<>> /\ suppressed = [level \in Level |-> 0] /\ issues = <<>> /\ done = FALSE
  BY DEF Waiting
<1>2. PICK why : why = ClassIssue(e.item)
  OBVIOUS
<1>3. Tally({}, findings, suppressed)
  BY <1>1, TallyNothing
<1>4. UNCHANGED <<policyVars, event, path, visits>>
  BY DEF ResolveClass
<1>5. PICK r2 : r2 = findings'
  OBVIOUS
<1>6. PICK c2 : c2 = suppressed'
  OBVIOUS
<1>7. CASE why = "none"
  <2>1. PICK t1 : t1 = Item(Class, e.item, 1)
    OBVIOUS
  <2>2. PICK t2 : t2 = [do |-> "end"]
    OBVIOUS
  <2>3. PICK tasks2 : tasks2 = <<t1, t2>>
    OBVIOUS
  <2>4. PICK at2 : at2 = <<<<>>, <<>>, <<>>>>
    OBVIOUS
  <2>5. PICK raised : raised = When(Schema[Class].deprecated, "ClassDeprecated", <<>>)
    OBVIOUS
  <2>6. Raise(raised) /\ todo' = tasks2 /\ UNCHANGED <<issues, done>>
    BY <1>2, <1>7, <2>1, <2>2, <2>3, <2>5 DEF ResolveClass
  <2>7. /\ Plan(e, tasks2, at2, <<>>) /\ Past(e, tasks2, at2) = {Begin} /\ at2[1] = <<>> /\ tasks2 # <<>>
    BY <2>1, <2>2, <2>3, <2>4, FirstPlan
  <2>8. /\ Sequence(raised) /\ IsInjective(raised)
        /\ \A f : f \in ToSet(raised) <=> RaisedAt(e, Begin, f)
    <3> DEFINE b == Schema[Class].deprecated
    <3>1. raised = When(b, "ClassDeprecated", <<>>)
      BY <2>5
    <3>2. \A f : RaisedAt(e, Begin, f) <=> b /\ f = Finding("ClassDeprecated", <<>>)
      BY RaisedBegin
    <3> HIDE DEF b
    <3>3. QED BY <3>1, <3>2, WhenFacts
  <2>9. Tally(FoundIn(e, {} \cup {Begin}), findings', suppressed')
    <3>1. FoundIn(e, {}) = {}
      BY FoundAll
    <3>2. PICK past : past = {}
      OBVIOUS
    <3>3. Tally(FoundIn(e, past), findings, suppressed) /\ Begin \notin past /\ Begin \in Origins(e)
      BY <1>3, <3>1, <3>2, Origined
    <3>4. QED BY <2>6, <2>8, <3>2, <3>3, TallyMore
  <2>10. {} \cup {Begin} = {Begin}
    OBVIOUS
  <2>11. PICK past2 : past2 = {Begin}
    OBVIOUS
  <2>12. /\ Tally(FoundIn(e, past2), r2, c2) /\ past2 = Past(e, tasks2, at2)
         /\ VisitsInv(e, past2, <<>>) /\ LimitInv(e, past2, <<>>, <<>>)
    BY <1>5, <1>6, <2>7, <2>9, <2>10, <2>11, FirstVisits
  <2>13. /\ Compiled /\ UNCHANGED policyVars /\ event' = e /\ ClassIssue(e.item) = "none"
         /\ todo' = tasks2 /\ visits' = <<>> /\ issues' = <<>> /\ path' = at2[1] /\ (done' <=> tasks2 = <<>>)
    BY <1>1, <1>2, <1>4, <1>7, <2>6, <2>7
  <2>14. PICK seen2 : seen2 = <<>>
    OBVIOUS
  <2>15. Walking(at2)'
    <3>1. /\ Plan(e, tasks2, at2, seen2) /\ VisitsInv(e, past2, seen2) /\ LimitInv(e, past2, seen2, seen2)
          /\ visits' = seen2 /\ issues' = seen2 /\ e \in Events /\ findings' = r2 /\ suppressed' = c2
      BY <1>5, <1>6, <2>7, <2>12, <2>13, <2>14
    <3>2. QED BY ONLY <2>12, <2>13, <3>1, Walked
  <2>16. QED BY <2>15
<1>8. CASE why # "none"
  <2>1. PICK f : f = Finding(why, <<"class_uid">>)
    OBVIOUS
  <2>2. PICK raised : raised = <<f>>
    OBVIOUS
  <2>3. PICK said2 : said2 = <<f>>
    OBVIOUS
  <2>4. Raise(raised) /\ issues' = said2 /\ todo' = <<>> /\ done' = TRUE
    <3>1. /\ Raise(<<Finding(ClassIssue(e.item), <<"class_uid">>)>>)
          /\ issues' = Append(issues, Finding(ClassIssue(e.item), <<"class_uid">>))
          /\ todo' = <<>> /\ done' = TRUE
      BY <1>2, <1>8 DEF ResolveClass
    <3>2. Append(<<>>, f) = <<f>>
      OBVIOUS
    <3>3. QED BY <1>1, <1>2, <2>1, <2>2, <2>3, <3>1, <3>2
  <2>5. Sequence(raised) /\ IsInjective(raised) /\ ToSet(raised) = {f}
    BY <2>2, Tuples DEF IsInjective, ToSet
  <2>6. ToSet(raised) \cap {} = {} /\ {} \cup ToSet(raised) = {f}
    BY <2>5
  <2>7. PICK F : F = {}
    OBVIOUS
  <2>8. Tally(F \cup ToSet(raised), findings', suppressed')
    <3>1. Tally(F, findings, suppressed) /\ ToSet(raised) \cap F = {}
      BY <1>3, <2>7
    <3>2. QED BY ONLY <2>4, <2>5, <3>1, RaiseTally
  <2>9. PICK W : W = {f}
    OBVIOUS
  <2>10. Tally(W, r2, c2)
    BY <1>5, <1>6, <2>6, <2>7, <2>8, <2>9
  <2>11. Compiled' = Compiled /\ Tally(W, r2, c2)'
    BY <1>4, <2>10, SameTally
  <2>12. Tally(W, findings, suppressed)'
    BY <1>5, <1>6, <2>11
  <2>13. (event = e /\ todo = <<>> /\ path = <<>> /\ visits = <<>> /\ done /\ issues = <<f>> /\ Compiled)'
    BY <1>1, <1>4, <2>3, <2>4, <2>11
  <2>14. Refused'
    BY <1>2, <1>8, <2>1, <2>9, <2>12, <2>13 DEF Refused
  <2>15. QED BY <2>14
<1>9. QED BY <1>7, <1>8

-----------------------------------------------------------------------------
(* Where a pipeline that validates may be.                                 *)
Stage == Waiting \/ Refused \/ \E at : Walking(at)

IInv == PolicyInv /\ event \in Events /\ Stage

(* The event and its walk do not change.                                   *)
Still == UNCHANGED <<event, todo, path, visits, findings, suppressed, issues, done>>

(* The state of a walk, value by value.                                    *)
LEMMA NowWalking ==
    ASSUME event \in Events, NEW at, Walking(at)
    PROVE  \E e, tasks, seen, said, r, c : Now(e, tasks, at, seen, said, r, c)
<1>1. PICK e : e = event
  OBVIOUS
<1>2. PICK tasks : tasks = todo
  OBVIOUS
<1>3. PICK seen : seen = visits
  OBVIOUS
<1>4. PICK said : said = issues
  OBVIOUS
<1>5. PICK r : r = findings
  OBVIOUS
<1>6. PICK c : c = suppressed
  OBVIOUS
<1>7. Now(e, tasks, at, seen, said, r, c)
  BY <1>1, <1>2, <1>3, <1>4, <1>5, <1>6 DEF Walking, Now
<1>8. QED BY <1>7

(* Only a walk has tasks after the first.                                  *)
LEMMA DoingWalks ==
    ASSUME event \in Events, Stage, NEW do \in Task, Doing(do)
    PROVE  \E e, tasks, at, seen, said, r, c : Now(e, tasks, at, seen, said, r, c)
<1>1. todo # <<>> /\ Head(todo).do \in Task
  BY DEF Doing
<1>2. ~Waiting
  <2> SUFFICES ASSUME Waiting PROVE FALSE
    OBVIOUS
  <2>1. PICK t : t = [do |-> "begin"]
    OBVIOUS
  <2>2. Head(<<t>>) = t
    OBVIOUS
  <2>3. t.do = "begin" /\ todo = <<t>>
    BY <2>1 DEF Waiting
  <2>4. QED BY <1>1, <2>2, <2>3 DEF Task
<1>3. ~Refused
  BY <1>1 DEF Refused
<1>4. QED BY <1>2, <1>3, NowWalking DEF Stage

(* A class is resolved once.                                               *)
LEMMA BeginWaits ==
    ASSUME event \in Events, Stage, Doing("begin")
    PROVE  Waiting /\ Compiled
<1>1. todo # <<>> /\ Head(todo).do = "begin" /\ Compiled
  BY DEF Doing
<1>2. ~Refused
  BY <1>1 DEF Refused
<1>3. ~(\E at : Walking(at))
  <2> SUFFICES ASSUME NEW at, Walking(at) PROVE FALSE
    OBVIOUS
  <2>1. PICK e, tasks, seen, said, r, c : Now(e, tasks, at, seen, said, r, c)
    BY NowWalking
  <2>2. /\ e \in Events /\ Plan(e, tasks, at, seen) /\ todo = tasks
    BY <2>1 DEF Now
  <2>3. tasks[1].do \in Task /\ Head(tasks) = tasks[1]
    BY <1>1, <2>2, PlanFirst
  <2>4. QED BY <1>1, <2>2, <2>3 DEF Task
<1>4. QED BY <1>1, <1>2, <1>3 DEF Stage

(* While the policy is compiled no event is walked.                        *)
LEMMA TakenWaits ==
    ASSUME PolicyInv, Stage, TakeRule
    PROVE  Waiting
<1>1. Len(rules) \in Nat
  BY RulesAssumption DEF PolicyInv, PolicyTypeOK
<1>2. ~Compiled
  BY <1>1 DEF TakeRule, Compiled, PolicyInv, PolicyTypeOK
<1>3. ~Refused /\ \A at : ~Walking(at)
  BY <1>2 DEF Refused, Walking
<1>4. QED BY <1>3 DEF Stage

(* Each step of the walk.                                                  *)
LEMMA WalkKept ==
    ASSUME event \in Events, Stage,
           \/ VisitInactive \/ VisitMissing \/ VisitPresent \/ VisitElement \/ PopPath \/ LoopDone
           \/ VisitLeaf \/ StopAtBoundary \/ EnterObject \/ LeaveObject \/ EventDone
    PROVE  \E at : Walking(at)'
<1>1. \E do \in Task : Doing(do)
  BY DEF Task, VisitInactive, VisitMissing, VisitPresent, Dispatch, DoingAttribute, VisitElement, PopPath,
         LoopDone, VisitLeaf, StopAtBoundary, EnterObject, LeaveObject, EventDone
<1>2. PICK e, tasks, at, seen, said, r, c : Now(e, tasks, at, seen, said, r, c)
  BY <1>1, DoingWalks
<1>3. CASE VisitInactive
  BY <1>2, <1>3, InactiveStep
<1>4. CASE VisitMissing
  BY <1>2, <1>4, MissingStep
<1>5. CASE VisitPresent
  BY <1>2, <1>5, PresentStep
<1>6. CASE VisitElement
  BY <1>2, <1>6, ElementStep
<1>7. CASE PopPath
  BY <1>2, <1>7, PopStep
<1>8. CASE LoopDone
  BY <1>2, <1>8, LoopStep
<1>9. CASE VisitLeaf
  BY <1>2, <1>9, LeafStep
<1>10. CASE StopAtBoundary
  BY <1>2, <1>10, BoundaryStep
<1>11. CASE EnterObject
  BY <1>2, <1>11, EnterStep
<1>12. CASE LeaveObject
  BY <1>2, <1>12, LeaveStep
<1>13. CASE EventDone
  BY <1>2, <1>13, EndStep
<1>14. QED BY <1>3, <1>4, <1>5, <1>6, <1>7, <1>8, <1>9, <1>10, <1>11, <1>12, <1>13

(* Where nothing changes.                                                  *)
LEMMA Stutters ==
    ASSUME event \in Events, Stage, Still, UNCHANGED policyVars
    PROVE  Stage'
<1>0. /\ event' = event /\ todo' = todo /\ path' = path /\ visits' = visits /\ findings' = findings
      /\ suppressed' = suppressed /\ issues' = issues /\ done' = done
  BY DEF Still
<1>1. ASSUME Waiting PROVE Waiting'
  BY <1>0, <1>1 DEF Waiting
<1>2. ASSUME Refused PROVE Refused'
  <2>1. PICK W : W = {Finding(ClassIssue(event.item), <<"class_uid">>)}
    OBVIOUS
  <2>2. PICK r : r = findings
    OBVIOUS
  <2>3. PICK c : c = suppressed
    OBVIOUS
  <2>4. Tally(W, r, c) /\ Compiled
    BY <1>2, <2>1, <2>2, <2>3 DEF Refused
  <2>5. Compiled' = Compiled /\ Tally(W, r, c)'
    BY <2>4, SameTally
  <2>6. Compiled' /\ Tally(W, findings, suppressed)' /\ W = {Finding(ClassIssue(event'.item), <<"class_uid">>)}
    BY <1>0, <2>1, <2>2, <2>3, <2>4, <2>5
  <2>7. (ClassIssue(event.item) # "none" /\ todo = <<>> /\ path = <<>> /\ visits = <<>> /\ done
         /\ issues = <<Finding(ClassIssue(event.item), <<"class_uid">>)>>)'
    BY <1>0, <1>2 DEF Refused
  <2>8. QED BY <2>6, <2>7 DEF Refused
<1>3. ASSUME NEW at, Walking(at) PROVE Walking(at)'
  <2>1. PICK e, tasks, seen, said, r, c : Now(e, tasks, at, seen, said, r, c)
    BY <1>3, NowWalking
  <2>2. PICK past : past = Past(e, tasks, at)
    OBVIOUS
  <2>3. /\ e \in Events /\ Compiled /\ UNCHANGED policyVars /\ event' = e /\ ClassIssue(e.item) = "none"
        /\ todo' = tasks /\ visits' = seen /\ issues' = said /\ findings' = r /\ suppressed' = c
        /\ Plan(e, tasks, at, seen) /\ path' = at[1]
        /\ VisitsInv(e, past, seen) /\ LimitInv(e, past, seen, said)
        /\ Tally(FoundIn(e, past), r, c) /\ (done' <=> tasks = <<>>)
    BY <1>0, <2>1, <2>2 DEF Now
  <2>4. QED BY <2>2, <2>3, Walked
<1>4. QED BY <1>1, <1>2, <1>3 DEF Stage

(* Every step keeps the invariant.                                         *)
LEMMA StepKept ==
    ASSUME IInv, [Next]_vars
    PROVE  IInv'
<1>0. PolicyInv /\ event \in Events /\ Stage
  BY DEF IInv
<1>1. CASE TakeRule /\ UNCHANGED walkVars
  <2>1. Waiting
    BY <1>0, <1>1, TakenWaits
  <2>2. Waiting' /\ event' = event
    BY <1>1, <2>1 DEF Waiting, walkVars
  <2>3. PolicyInv'
    BY <1>0, <1>1, PolicyStays
  <2>4. QED BY <1>0, <2>2, <2>3 DEF IInv, Stage
<1>2. CASE ResolveClass
  <2>1. UNCHANGED policyVars /\ event' = event /\ Doing("begin")
    BY <1>2 DEF ResolveClass
  <2>2. Waiting /\ Compiled
    BY <1>0, <2>1, BeginWaits
  <2>3. PICK e \in Events : e = event
    BY <1>0
  <2>4. (\E at : Walking(at)') \/ Refused'
    BY <1>2, <2>2, <2>3, ResolveStep
  <2>5. PolicyInv'
    BY <1>0, <2>1, PolicyStays
  <2>6. QED BY <1>0, <2>1, <2>4, <2>5 DEF IInv, Stage
<1>3. CASE \/ VisitInactive \/ VisitMissing \/ VisitPresent \/ VisitElement \/ PopPath \/ LoopDone
           \/ VisitLeaf \/ StopAtBoundary \/ EnterObject \/ LeaveObject \/ EventDone
  <2>1. UNCHANGED policyVars /\ event' = event
    BY <1>3 DEF VisitInactive, VisitMissing, VisitPresent, Dispatch, VisitElement, PopPath,
                LoopDone, VisitLeaf, StopAtBoundary, EnterObject, LeaveObject, EventDone
  <2>2. \E at : Walking(at)'
    BY <1>0, <1>3, WalkKept
  <2>3. PolicyInv'
    BY <1>0, <2>1, PolicyStays
  <2>4. QED BY <1>0, <2>1, <2>2, <2>3 DEF IInv, Stage
<1>4. CASE UNCHANGED vars
  <2>1. UNCHANGED policyVars /\ Still /\ event' = event
    BY <1>4 DEF vars, walkVars, Still
  <2>2. PolicyInv' /\ Stage'
    BY <1>0, <2>1, PolicyStays, Stutters
  <2>3. QED BY <1>0, <2>1, <2>2 DEF IInv
<1>5. QED BY <1>1, <1>2, <1>3, <1>4 DEF Next

(* Where the pipeline may be, and what it knows of its rules there.        *)
THEOREM Invariant == Spec => []IInv
<1>1. Init => IInv
  <2> SUFFICES ASSUME Init PROVE IInv
    OBVIOUS
  <2>1. PolicyInv
    BY PolicyInitially DEF Init
  <2>2. Waiting /\ event \in Events
    BY DEF Init, Waiting
  <2>3. QED BY <2>1, <2>2 DEF IInv, Stage
<1>2. QED BY <1>1, StepKept, PTL DEF Spec

-----------------------------------------------------------------------------
(* Every code that is found is one.                                        *)
LEMMA WrongCoded ==
    ASSUME NEW e \in Events, NEW f \in Wrong(e)
    PROVE  f.code \in Code
<1>1. PICK x \in Origins(e) : RaisedAt(e, x, f)
  BY WrongCases
<1>2. TypeUIDCodes \cup LeaveCodes \cup ValueCodes \cup AttributeCodes \cup {"ClassDeprecated"} \subseteq FindingCode
  BY DEF TypeUIDCodes, LeaveCodes, ValueCodes, AttributeCodes, FindingCode
<1>3. \A p : Finding("ClassDeprecated", p).code = "ClassDeprecated"
  BY FindingDiffer
<1>4. f.code \in TypeUIDCodes \cup LeaveCodes \cup ValueCodes \cup AttributeCodes \cup {"ClassDeprecated"}
  BY <1>1, <1>3, RaisedCases DEF LeaveCodes
<1>5. QED BY <1>2, <1>4, FindingAssumption

(* What was asked for a code is what is said of it.                        *)
LEMMA EffectiveLevel ==
    ASSUME PolicyInv, Compiled, NEW code \in Code
    PROVE  /\ Effective(code) = "suppress" <=> FindingLevel(code) = "suppressed"
           /\ Effective(code) # "suppress" => Effective(code) = FindingLevel(code)
           /\ code \in Mandatory => FindingLevel(code) # "suppressed"
<1>1. /\ Asked(code) = (IF actions[code] = "none" THEN {} ELSE {actions[code]})
      /\ FindingLevel(code) = (CASE actions[code] = "none" -> DefaultLevel[code]
                                 [] actions[code] = "suppress" -> "suppressed"
                                 [] OTHER -> actions[code])
      /\ code \in Mandatory => actions[code] # "suppress"
  BY LevelAsAsked DEF Compiled
<1>2. actions[code] \in ActionName \cup {"none"} /\ DefaultLevel[code] \in {"warning", "error"}
  BY CodeAssumption DEF PolicyInv, PolicyTypeOK, Level
<1>3. \A x : (CHOOSE action \in {x} : TRUE) = x
  OBVIOUS
<1>4. CASE actions[code] = "none"
  <2>1. Effective(code) = DefaultLevel[code] /\ FindingLevel(code) = DefaultLevel[code]
    BY <1>1, <1>4 DEF Effective
  <2>2. QED BY <1>2, <2>1
<1>5. CASE actions[code] = "suppress"
  <2>1. Asked(code) = {"suppress"} /\ Asked(code) # {} /\ FindingLevel(code) = "suppressed"
    BY <1>1, <1>5
  <2>2. Effective(code) = "suppress"
    BY <1>3, <2>1 DEF Effective
  <2>3. QED BY <1>1, <1>5, <2>1, <2>2
<1>6. CASE actions[code] \in {"warning", "error"}
  <2>1. Asked(code) = {actions[code]} /\ Asked(code) # {} /\ FindingLevel(code) = actions[code]
    BY <1>1, <1>6
  <2>2. Effective(code) = actions[code]
    BY <1>3, <2>1 DEF Effective
  <2>3. QED BY <1>6, <2>1, <2>2
<1>7. QED BY <1>2, <1>4, <1>5, <1>6 DEF ActionName

(* What FindingsExact says of the reports and the counts.                  *)
Says(wrong, reports, counts, shown) ==
    /\ ToSet(reports) = {[code |-> f.code, path |-> f.path, level |-> Effective(f.code)] : f \in shown}
    /\ Len(reports) = Cardinality(shown)
    /\ \A level \in Level :
         counts[level] = Cardinality({f \in wrong \ shown : DefaultLevel[f.code] = level})

(* A tally says what was asked for.                                        *)
LEMMA TallySays ==
    ASSUME PolicyInv, Compiled, NEW wrong, \A f \in wrong : f.code \in Code, NEW reports, NEW counts,
           Tally(wrong, reports, counts), NEW shown, shown = {f \in wrong : Effective(f.code) # "suppress"}
    PROVE  /\ Says(wrong, reports, counts, shown)
           /\ shown = Shown(wrong)
<1>1. \A f \in wrong : /\ Effective(f.code) = "suppress" <=> FindingLevel(f.code) = "suppressed"
                       /\ Effective(f.code) # "suppress" => Effective(f.code) = FindingLevel(f.code)
  BY EffectiveLevel
<1>2. shown = Shown(wrong)
  BY <1>1 DEF Shown
<1>3. \A level \in Level : Hidden(wrong, level) = {f \in wrong \ shown : DefaultLevel[f.code] = level}
  BY <1>1 DEF Hidden
<1>4. \A f \in shown : Effective(f.code) = FindingLevel(f.code)
  BY <1>1
<1>5. {[code |-> f.code, path |-> f.path, level |-> FindingLevel(f.code)] : f \in shown}
        = {[code |-> f.code, path |-> f.path, level |-> Effective(f.code)] : f \in shown}
  BY <1>4
<1>6. QED BY <1>2, <1>3, <1>5 DEF Tally, Says

(* A walk that is done has done everything.                                *)
LEMMA WalkDone ==
    ASSUME event \in Events, NEW at, Walking(at), done
    PROVE  /\ todo = <<>> /\ path = <<>> /\ Compiled
           /\ VisitsInv(event, Origins(event), visits)
           /\ LimitInv(event, Origins(event), visits, issues)
           /\ Tally(Wrong(event), findings, suppressed)
<1>1. todo = <<>> /\ at[1] = path /\ Plan(event, todo, at, visits) /\ Compiled
  BY DEF Walking
<1>2. path = <<>>
  BY <1>1, EmptySequence DEF Plan
<1>3. Past(event, todo, at) = Origins(event)
  BY <1>1 DEF Past
<1>4. QED BY <1>1, <1>2, <1>3, FoundAll DEF Walking

(* It resolved the class: the only issue is the limit.                     *)
LEMMA WalkResolved ==
    ASSUME event \in Events, NEW at, Walking(at), done
    PROVE  ~Unresolved
<1>1. LimitInv(event, Origins(event), visits, issues)
  BY WalkDone
<1>2. \A p : Limit(p).code = "EventTraversalLimited"
  BY FindingDiffer DEF Limit
<1>3. "EventTraversalLimited" \notin Mandatory
  BY FindingAssumption DEF ClassCode
<1>4. issues = <<>> \/ \E p : issues = <<Limit(p)>>
  BY <1>1 DEF LimitInv
<1>5. CASE issues = <<>>
  BY <1>5 DEF Unresolved
<1>6. CASE \E p : issues = <<Limit(p)>>
  <2>1. PICK p : issues = <<Limit(p)>>
    BY <1>6
  <2>2. PICK f : f = Limit(p)
    OBVIOUS
  <2>3. \A i \in DOMAIN <<f>> : <<f>>[i] = f
    OBVIOUS
  <2>4. QED BY <1>2, <1>3, <2>1, <2>2, <2>3 DEF Unresolved
<1>7. QED BY <1>4, <1>5, <1>6

(* An event without a class.                                               *)
LEMMA RefusedSays ==
    ASSUME PolicyInv, event \in Events, Refused
    PROVE  Unresolved /\ FindingsExact
<1>1. PICK f : f = Finding(ClassIssue(event.item), <<"class_uid">>)
  OBVIOUS
<1>2. /\ Compiled /\ ClassIssue(event.item) # "none" /\ visits = <<>> /\ issues = <<f>>
      /\ Tally({f}, findings, suppressed)
  BY <1>1 DEF Refused
<1>3. f.code \in ClassCode
  <2>1. f.code = ClassIssue(event.item)
    BY <1>1, FindingDiffer
  <2>2. PICK uid : uid = At(event.item, "class_uid")
    OBVIOUS
  <2>3. uid.k \in {"null", "int"} /\ Present(uid) => uid.k = "int"
    BY DEF Present
  <2>4. ClassIssue(event.item) \in ClassCode \cup {"none"}
    <3>1. CASE ~Present(uid)
      BY <2>2, <3>1 DEF ClassIssue, ClassCode, Present
    <3>2. CASE Present(uid) /\ uid.k = "int"
      BY <2>2, <3>2 DEF ClassIssue, ClassCode, Present
    <3>3. CASE Present(uid) /\ uid.k \notin {"null", "int"}
      BY <2>2, <3>3 DEF ClassIssue, ClassCode, Present
    <3>4. QED BY <2>3, <3>1, <3>2, <3>3
  <2>5. QED BY <1>2, <2>1, <2>4
<1>4. f.code \in Mandatory /\ f.code \in Code
  BY <1>3, FindingAssumption, CodeAssumption
<1>5. issues[1] = f /\ 1 \in DOMAIN issues /\ Len(issues) = 1
  BY <1>2
<1>6. Unresolved
  BY <1>4, <1>5 DEF Unresolved
<1>7. PICK shown : shown = {g \in {f} : Effective(g.code) # "suppress"}
  OBVIOUS
<1>8. /\ ToSet(findings) = {[code |-> g.code, path |-> g.path, level |-> Effective(g.code)] : g \in shown}
      /\ Len(findings) = Cardinality(shown)
      /\ \A level \in Level :
           suppressed[level] = Cardinality({g \in {f} \ shown : DefaultLevel[g.code] = level})
      /\ shown = Shown({f})
  <2>1. PICK W : W = {f}
    OBVIOUS
  <2>2. PICK r : r = findings
    OBVIOUS
  <2>3. PICK c : c = suppressed
    OBVIOUS
  <2>4. /\ PolicyInv /\ Compiled /\ Tally(W, r, c) /\ shown = {g \in W : Effective(g.code) # "suppress"}
        /\ \A g \in W : g.code \in Code
    BY <1>2, <1>4, <1>7, <2>1, <2>2, <2>3
  <2>5. /\ Says(W, r, c, shown)
        /\ shown = Shown(W)
    BY ONLY <2>4, TallySays
  <2>6. QED BY <2>1, <2>2, <2>3, <2>5 DEF Says
<1>9. FindingLevel(f.code) # "suppressed"
  BY <1>2, <1>4, EffectiveLevel
<1>10. Shown({f}) = {f}
  BY <1>9 DEF Shown
<1>11. Cardinality({f}) = 1
  BY FS_Singleton
<1>12. Len(findings) = 1
  BY <1>8, <1>10, <1>11
<1>13. FindingsExact
  BY <1>2, <1>5, <1>6, <1>7, <1>8, <1>12 DEF FindingsExact
<1>14. QED BY <1>6, <1>13

(* Done means that everything wrong was found.                             *)
LEMMA FindingsHold == IInv => FindingsExact
<1> SUFFICES ASSUME IInv PROVE FindingsExact
  OBVIOUS
<1>1. PolicyInv /\ event \in Events /\ Stage
  BY DEF IInv
<1>2. CASE Waiting
  BY <1>2 DEF Waiting, FindingsExact
<1>3. CASE Refused
  BY <1>1, <1>3, RefusedSays
<1>4. ASSUME NEW at, Walking(at), done PROVE FindingsExact
  <2>1. Compiled /\ Tally(Wrong(event), findings, suppressed)
    BY <1>1, <1>4, WalkDone
  <2>2. ~Unresolved
    BY <1>1, <1>4, WalkResolved
  <2>3. \A f \in Wrong(event) : f.code \in Code
    BY <1>1, WrongCoded
  <2>4. PICK shown : shown = {f \in Wrong(event) : Effective(f.code) # "suppress"}
    OBVIOUS
  <2>5. /\ ToSet(findings) = {[code |-> f.code, path |-> f.path, level |-> Effective(f.code)] : f \in shown}
        /\ Len(findings) = Cardinality(shown)
        /\ \A level \in Level :
             suppressed[level] = Cardinality({f \in Wrong(event) \ shown : DefaultLevel[f.code] = level})
    <3>1. PICK W : W = Wrong(event)
      OBVIOUS
    <3>2. PICK r : r = findings
      OBVIOUS
    <3>3. PICK c : c = suppressed
      OBVIOUS
    <3>4. /\ PolicyInv /\ Compiled /\ Tally(W, r, c) /\ shown = {f \in W : Effective(f.code) # "suppress"}
          /\ \A f \in W : f.code \in Code
      BY <1>1, <2>1, <2>3, <2>4, <3>1, <3>2, <3>3
    <3>5. Says(W, r, c, shown)
      BY ONLY <3>4, TallySays
    <3>6. QED BY <3>1, <3>2, <3>3, <3>5 DEF Says
  <2>6. QED BY <2>2, <2>4, <2>5 DEF FindingsExact
<1>5. ~done => FindingsExact
  BY DEF FindingsExact
<1>6. QED BY <1>1, <1>2, <1>3, <1>4, <1>5 DEF Stage

(* The attributes that are visited are those a name can denote.            *)
LEMMA VisitsDone ==
    ASSUME NEW e \in Events, NEW seen, VisitsInv(e, Origins(e), seen),
           NEW present, present = {n.at : n \in {m \in Contents(e.item) : m.at # <<>> /\ Present(m.value)}}
    PROVE  /\ IsInjective(seen)
           /\ ToSet(seen) \cap present =
                {p \in present : /\ IsName(Last(p)) /\ Shaped(e, p)
                                 /\ Definition(e.profiles, Names(p)) = "defined"}
           /\ \A o, a : Gives(e, o, a) => PlaceOf(o, a) \in ToSet(seen)
<1>1. ASSUME NEW q \in ToSet(seen)
      PROVE  IsName(Last(q)) /\ Shaped(e, q) /\ Definition(e.profiles, Names(q)) = "defined"
  <2>1. PICK o, a : o \in Entered(e) /\ a \in AttributesAt(e, o) /\ Gives(e, o, a) /\ q = PlaceOf(o, a)
    BY <1>1 DEF VisitsInv
  <2>2. QED BY <2>1, Given, AttributeName
<1>2. ASSUME NEW o, NEW a, Gives(e, o, a) PROVE PlaceOf(o, a) \in ToSet(seen)
  <2>1. o \in Entered(e) /\ a \in AttributesAt(e, o)
    BY <1>2 DEF Gives
  <2>2. Origin("attribute", PlaceOf(o, a)) \in Origins(e)
    BY <2>1, Origined
  <2>3. QED BY <1>2, <2>1, <2>2 DEF VisitsInv
<1>3. ASSUME NEW p \in present, IsName(Last(p)), Shaped(e, p), Definition(e.profiles, Names(p)) = "defined"
      PROVE  p \in ToSet(seen)
  <2>1. PICK n \in Contents(e.item) : n.at # <<>> /\ p = n.at
    BY <1>3
  <2>2. PICK o, a : Gives(e, o, a) /\ n.at = PlaceOf(o, a)
    BY <1>3, <2>1, Taken
  <2>3. QED BY <1>2, <2>1, <2>2
<1>4. QED BY <1>1, <1>2, <1>3 DEF VisitsInv

(* The limit is said if there is one, and of the first.                    *)
LEMMA LimitDone ==
    ASSUME NEW e \in Events, NEW seen, NEW said,
           VisitsInv(e, Origins(e), seen), LimitInv(e, Origins(e), seen, said)
    PROVE  \/ said = <<>> /\ Limited(e) = {}
           \/ \E n \in Limited(e) :
                /\ said = <<Limit(n.at)>>
                /\ \A m \in Limited(e) : (CHOOSE i \in DOMAIN seen : seen[i] = Owner(n.at))
                                         <= (CHOOSE i \in DOMAIN seen : seen[i] = Owner(m.at))
<1>1. \A m \in Limited(e) : m \in Values(e) /\ Origin("value", m.at) \in Origins(e)
  BY Origined DEF Limited
<1>2. CASE said = <<>> /\ \A m \in Limited(e) : Origin("value", m.at) \notin Origins(e)
  BY <1>1, <1>2
<1>3. ASSUME NEW n \in Limited(e), said = <<Limit(n.at)>>, NEW i \in DOMAIN seen, seen[i] = Owner(n.at),
             \A m \in Limited(e), j \in DOMAIN seen : seen[j] = Owner(m.at) => i <= j,
             NEW m \in Limited(e)
      PROVE  (CHOOSE j \in DOMAIN seen : seen[j] = Owner(n.at)) <= (CHOOSE j \in DOMAIN seen : seen[j] = Owner(m.at))
  <2>1. \A j \in DOMAIN seen : seen[j] = Owner(n.at) => j = i
    BY <1>3 DEF VisitsInv, IsInjective
  <2>2. (CHOOSE j \in DOMAIN seen : seen[j] = Owner(n.at)) = i
    BY <1>3, <2>1
  <2>3. PICK o, a : ValueOf(e, m, o, a)
    BY <1>1, <1>3, ValueHas
  <2>4. Gives(e, o, a) /\ Owner(m.at) = PlaceOf(o, a)
    BY <2>3, ValueFrom DEF Gives
  <2>5. Owner(m.at) \in ToSet(seen)
    <3>1. PICK present : present = {p.at : p \in {u \in Contents(e.item) : u.at # <<>> /\ Present(u.value)}}
      OBVIOUS
    <3>2. \A u, b : Gives(e, u, b) => PlaceOf(u, b) \in ToSet(seen)
      BY ONLY <3>1, e \in Events, VisitsInv(e, Origins(e), seen), VisitsDone
    <3>3. QED BY <2>4, <3>2
  <2>6. \E j \in DOMAIN seen : seen[j] = Owner(m.at)
    BY <2>5 DEF ToSet
  <2>7. PICK k : k = CHOOSE j \in DOMAIN seen : seen[j] = Owner(m.at)
    OBVIOUS
  <2>8. k \in DOMAIN seen /\ seen[k] = Owner(m.at)
    BY <2>6, <2>7
  <2>9. i <= k
    BY <1>3, <2>8
  <2>10. QED BY <2>2, <2>7, <2>9
<1>4. QED BY <1>2, <1>3 DEF LimitInv

(* Done means that everything a name can denote was visited.               *)
LEMMA WalkHolds == IInv => WalkExact
<1> SUFFICES ASSUME IInv, done, ~Unresolved PROVE WalkExact
  BY DEF WalkExact
<1>1. PolicyInv /\ event \in Events /\ Stage
  BY DEF IInv
<1>2. PICK at : Walking(at)
  BY <1>1, RefusedSays DEF Stage, Waiting
<1>3. /\ todo = <<>> /\ path = <<>>
      /\ VisitsInv(event, Origins(event), visits)
      /\ LimitInv(event, Origins(event), visits, issues)
  BY <1>1, <1>2, WalkDone
<1>4. PICK present : present = {node.at : node \in {n \in Contents(event.item) : n.at # <<>> /\ Present(n.value)}}
  OBVIOUS
<1>5. /\ IsInjective(visits)
      /\ ToSet(visits) \cap present =
           {p \in present : /\ IsName(Last(p)) /\ Shaped(event, p)
                            /\ Definition(event.profiles, Names(p)) = "defined"}
  BY <1>1, <1>3, <1>4, VisitsDone
<1>6. PICK limits : limits = Kept(issues, {issue \in ToSet(issues) : issue.code = "EventTraversalLimited"})
  OBVIOUS
<1> DEFINE Place(p) == CHOOSE i \in DOMAIN visits : visits[i] = (IF IsName(Last(p)) THEN p ELSE Front(p))
<1>7. /\ Len(limits) = (IF Limited(event) = {} THEN 0 ELSE 1)
      /\ Limited(event) # {} =>
           /\ limits[1].path \in {node.at : node \in Limited(event)}
           /\ \A node \in Limited(event) : Place(limits[1].path) <= Place(node.at)
  <2>1. CASE issues = <<>> /\ Limited(event) = {}
    <3>1. limits = <<>>
      BY <1>6, <2>1, KeptEmpty
    <3>2. QED BY <2>1, <3>1
  <2>2. ASSUME NEW n \in Limited(event), issues = <<Limit(n.at)>>,
               \A m \in Limited(event) : (CHOOSE i \in DOMAIN visits : visits[i] = Owner(n.at))
                                         <= (CHOOSE i \in DOMAIN visits : visits[i] = Owner(m.at))
        PROVE  /\ Len(limits) = 1
               /\ limits[1].path \in {node.at : node \in Limited(event)}
               /\ \A node \in Limited(event) : Place(limits[1].path) <= Place(node.at)
    <3>1. PICK f : f = Limit(n.at)
      OBVIOUS
    <3>2. f.code = "EventTraversalLimited" /\ f.path = n.at
      BY <3>1, FindingDiffer DEF Limit
    <3>3. PICK good : good = {issue \in ToSet(issues) : issue.code = "EventTraversalLimited"}
      OBVIOUS
    <3>4. limits = <<f>>
      <4>1. PICK s : s = <<f>>
        OBVIOUS
      <4>2. s \in Seq({f}) /\ 1 \in DOMAIN s /\ \A j \in DOMAIN s : j = 1
        BY <4>1
      <4>3. s[1] = f /\ ToSet(s) = {f}
        BY <4>1, <4>2 DEF ToSet
      <4>4. f \in good /\ issues = s
        BY <2>2, <3>1, <3>2, <3>3, <4>1, <4>3
      <4>5. \A j \in DOMAIN s : s[j] \in good <=> j = 1
        BY <4>2, <4>3, <4>4
      <4>6. Kept(s, good) = <<s[1]>>
        BY <4>2, <4>5, KeptOne
      <4>7. QED BY <1>6, <3>3, <4>3, <4>4, <4>6
    <3>5. Len(limits) = 1 /\ limits[1] = f
      BY <3>4
    <3>6. \A p : Place(p) = CHOOSE i \in DOMAIN visits : visits[i] = Owner(p)
      BY DEF Owner
    <3> HIDE DEF Place
    <3>7. QED BY <2>2, <3>2, <3>5, <3>6
  <2>3. QED BY <1>1, <1>3, <2>1, <2>2, LimitDone
<1>8. QED BY <1>3, <1>4, <1>5, <1>6, <1>7 DEF WalkExact

(* For every schema and every event that nests no deeper than the bound:   *)
(* the walk dispatches what an observable name can denote, once, and says  *)
(* once where it first stopped (process.go:553-629, path.go:146-186).      *)
THEOREM WalkIsExact == Spec => []WalkExact
  BY Invariant, WalkHolds, PTL

(* For every schema, event and policy: what is wrong above the boundary is *)
(* found once and at its place, reported or counted as the rules ask       *)
(* (validation.go:206-294, 1574-1608, 2141-2199).                          *)
THEOREM FindingsAreExact == Spec => []FindingsExact
  BY Invariant, FindingsHold, PTL

(* The policy stays exact while events are walked.                         *)
THEOREM WalkedPolicyIsExact == Spec => []PolicyExact
<1>1. IInv => PolicyExact
  BY PolicyHolds DEF IInv
<1>2. QED BY <1>1, Invariant, PTL
=============================================================================
