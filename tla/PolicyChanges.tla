--------------------------- MODULE PolicyChanges ---------------------------
(***************************************************************************)
(* packages/policy_engine/changes.py: what differs between two versions of *)
(* an obligation and how material that is.  Field values are compared      *)
(* after case and white space were folded; values that fold to the same    *)
(* are one value here, "" or an empty set for an absent one.               *)
(***************************************************************************)
EXTENDS Integers, FiniteSets, FiniteSetsExt

(* MaterialityLevel. *)
NONE == 0
LOW == 1
MEDIUM == 2
HIGH == 3

Fields == {"text", "object", "actor", "action", "frequency", "deadline", "evidence",
           "penalty", "conditions", "exceptions", "applicability"}
MaterialFields == Fields \ {"text", "object"}

NoFields ==
  [f \in Fields |-> IF f \in {"conditions", "exceptions", "applicability"} THEN {} ELSE ""]

(* _diff_fields. *)
DiffFields(old, new) == {f \in Fields : old[f] # new[f]}

(* _parse_deadline_days: the day count of a phrase, empty when the patterns
   find none.  Working, business and calendar days count alike. *)
DeadlineDays ==
  [same_day |-> {0}, t_plus_1 |-> {1}, within_7_days |-> {7}, seven_working_days |-> {7},
   fifteen_days |-> {15}, one_month |-> {}, quarterly_deadline |-> {}]
Days(phrase) == IF phrase = "" THEN {} ELSE DeadlineDays[phrase]

(* _parse_frequency_rank: the first pattern that matches.  \b at both ends of
   the alternatives keeps "fortnight" from matching "fortnightly", "annual"
   from "annually", and leaves "half-yearly" to "yearly" and "bi-weekly" to
   "weekly". *)
FrequencyRank ==
  [real_time |-> {7}, daily |-> {6}, weekly |-> {5}, bi_weekly |-> {5}, fortnightly |-> {},
   monthly |-> {3}, quarterly |-> {2}, semi_annual |-> {1}, half_yearly |-> {0},
   yearly |-> {0}, annually |-> {}]
Rank(phrase) == IF phrase = "" THEN {} ELSE FrequencyRank[phrase]
-----------------------------------------------------------------------------
(* The typed rules of assess_materiality: each yields the levels it fires. *)
Below(x, y) == \E a \in x, b \in y : a < b

DeadlineRule(old, new) ==
  LET was == Days(old.deadline)
      is == Days(new.deadline)
  IN CASE was = {} \/ is = {} -> MEDIUM
       [] Below(is, was) -> HIGH
       [] Below(was, is) -> MEDIUM
       [] OTHER -> LOW

Actors(o) == o.applicability \union ({o.actor} \ {""})
ActorRule(old, new) ==
  IF Actors(old) \subseteq Actors(new) /\ Actors(old) # Actors(new) THEN HIGH ELSE MEDIUM

IntroducedRule(was, is) == IF is # "" /\ was = "" THEN HIGH ELSE MEDIUM

FrequencyRule(old, new) == IF Below(Rank(new.frequency), Rank(old.frequency)) THEN LOW ELSE MEDIUM

Fired(old, new) ==
  LET changed == DiffFields(old, new) IN
  (IF "deadline" \in changed THEN {DeadlineRule(old, new)} ELSE {}) \union
  (IF changed \intersect {"actor", "applicability"} # {} THEN {ActorRule(old, new)} ELSE {}) \union
  (IF "evidence" \in changed THEN {IntroducedRule(old.evidence, new.evidence)} ELSE {}) \union
  (IF "penalty" \in changed THEN {IntroducedRule(old.penalty, new.penalty)} ELSE {}) \union
  (IF "frequency" \in changed THEN {FrequencyRule(old, new)} ELSE {}) \union
  (IF changed \intersect {"conditions", "exceptions", "action"} # {} THEN {MEDIUM} ELSE {})

(* assess_materiality of a MODIFIED obligation: the join of what fired; a
   change of the wording only is LOW. *)
JoinMin(levels) == Min(levels)          \* mutant: the mildest rule wins
Join(levels) == Max(levels)

Materiality(old, new) ==
  IF DiffFields(old, new) = {} THEN NONE
  ELSE IF Fired(old, new) = {} THEN LOW
  ELSE Join(Fired(old, new))

(* of a CREATED and a REMOVED one. *)
CreatedMateriality(highRisk) == IF highRisk THEN HIGH ELSE MEDIUM
RemovedMateriality == MEDIUM

RequiresConfirmation(level) == level >= MEDIUM
=============================================================================
