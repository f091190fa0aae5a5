------------------------------- MODULE Ability -------------------------------
(***************************************************************************)
(* What a list of permissions allows.  CaslAbilityFactory turns the rows   *)
(* of user_permissions and group_permissions into an ability of the CASL   *)
(* library, and every rule handler and resolver asks it                    *)
(*                                                                         *)
(*     permissions.can(action, subject, field)                             *)
(*                                                                         *)
(* either about a subject type ("may some row pass?") or about a row.      *)
(* The last rule of the list that matches decides.                         *)
(***************************************************************************)
EXTENDS Naturals, Sequences

CONSTANTS
  SubjectRows,   \* rows of the subject asked about
  SubjectFields, \* its fields
  TypeOnly,      \* the question is about the subject type
  NoField,       \* the question names no field
  Unlimited      \* a rule without a field list, or without conditions

ASSUME AbilityNulls ==
  /\ TypeOnly \notin SubjectRows
  /\ NoField \notin SubjectFields

\* The conditions of a rule are the set of rows that meet them.
Rule == [fields : {Unlimited} \cup (SUBSET SubjectFields \ {{}}),
         rows : {Unlimited} \cup SUBSET SubjectRows,
         inverted : BOOLEAN]

\* Without a field the question is whether any field passes, so a rule that
\* denies only some fields does not count.
MatchesField(rule, field) ==
  IF rule.fields = Unlimited THEN TRUE
  ELSE IF field = NoField THEN ~rule.inverted
  ELSE field \in rule.fields

\* A rule that denies every row counts, whatever its conditions.
MatchesRow_Bug(rule, row) ==
  IF rule.rows = Unlimited \/ row = TypeOnly THEN TRUE ELSE row \in rule.rows

\* Likewise for a subject type and a rule that denies only some rows.
MatchesRow(rule, row) ==
  IF rule.rows = Unlimited THEN TRUE
  ELSE IF row = TypeOnly THEN ~rule.inverted
  ELSE row \in rule.rows

Matches(rule, row, field) == MatchesRow(rule, row) /\ MatchesField(rule, field)

\* Some rule grants, and none that denies comes after all of those.
Can(rules, row, field) ==
  /\ \E i \in DOMAIN rules :
       Matches(rules[i], row, field) /\ ~rules[i].inverted
  /\ \A i \in DOMAIN rules :
       Matches(rules[i], row, field) /\ rules[i].inverted =>
         \E j \in DOMAIN rules :
           j > i /\ Matches(rules[j], row, field) /\ ~rules[j].inverted

\* The rules that accessibleBy turns into a query: those on no particular
\* field, from the last one on that has no conditions.
QueryRules(rules) ==
  {i \in DOMAIN rules :
     /\ MatchesField(rules[i], NoField)
     /\ \A j \in DOMAIN rules :
          j > i /\ MatchesField(rules[j], NoField) => rules[j].rows # Unlimited}

\* Denials are left out of the query.
Accessible_Bug(rules, row) ==
  \E i \in QueryRules(rules) :
    /\ ~rules[i].inverted
    /\ rules[i].rows = Unlimited \/ row \in rules[i].rows

\* accessibleBy(permissions): some condition that grants holds for the row and
\* none that denies does, in whatever order the rules come.
Accessible(rules, row) ==
  /\ \E i \in QueryRules(rules) :
       /\ ~rules[i].inverted
       /\ rules[i].rows = Unlimited \/ row \in rules[i].rows
  /\ \A i \in QueryRules(rules) :
       rules[i].inverted /\ rules[i].rows # Unlimited => row \notin rules[i].rows
=============================================================================
