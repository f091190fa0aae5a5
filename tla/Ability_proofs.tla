--------------------------- MODULE Ability_proofs ---------------------------
(***************************************************************************)
(* The ability answers the questions asked before a resolver, in its query *)
(* and after it from the same rules, but each by an algorithm of its own.  *)
(* These lemmas say how the answers are related, for every list of rules.  *)
(***************************************************************************)
EXTENDS Ability, TLAPS

\* What the query finds may be read: accessibleBy looks at the rules without
\* their order and can() at the last one that matches, and the query is the
\* narrower of the two.
LEMMA QueriedIsReadable ==
  ASSUME NEW kinds, NEW rules \in Seq(kinds), NEW row \in SubjectRows,
         Accessible(rules, row)
  PROVE  Can(rules, row, NoField)
<1>1. row # TypeOnly
  BY AbilityNulls
<1>2. PICK k \in QueryRules(rules) :
        ~rules[k].inverted /\ (rules[k].rows = Unlimited \/ row \in rules[k].rows)
  BY DEF Accessible
<1>3. k \in DOMAIN rules /\ MatchesField(rules[k], NoField)
  BY DEF QueryRules
<1>4. Matches(rules[k], row, NoField)
  BY <1>1, <1>2, <1>3 DEF Matches, MatchesRow
<1>5. ASSUME NEW i \in DOMAIN rules,
             Matches(rules[i], row, NoField), rules[i].inverted
      PROVE  k > i
  <2>1. DOMAIN rules \subseteq Nat
    OBVIOUS
  <2>2. MatchesField(rules[i], NoField) /\ MatchesRow(rules[i], row)
    BY <1>5 DEF Matches
  <2>3. CASE rules[i].rows = Unlimited
    \* No rule after k is without conditions.
    <3>1. ~(i > k)
      BY <1>2, <2>2, <2>3 DEF QueryRules
    <3>2. i # k
      BY <1>2, <1>5
    <3> QED BY <1>3, <2>1, <3>1, <3>2
  <2>4. CASE rules[i].rows # Unlimited
    <3>1. row \in rules[i].rows
      BY <1>1, <2>2, <2>4 DEF MatchesRow
    <3>2. i \notin QueryRules(rules)
      BY <1>5, <2>4, <3>1 DEF Accessible
    <3>3. PICK j \in DOMAIN rules :
            j > i /\ MatchesField(rules[j], NoField) /\ rules[j].rows = Unlimited
      BY <2>2, <3>2 DEF QueryRules
    <3>4. ~(j > k)
      BY <1>2, <3>3 DEF QueryRules
    <3> QED BY <1>3, <2>1, <3>3, <3>4
  <2> QED BY <2>3, <2>4
<1> QED BY <1>2, <1>3, <1>4, <1>5 DEF Can

\* A field of a row that may be read may be read in some row.
LEMMA TypeAllowsField ==
  ASSUME NEW kinds, NEW rules \in Seq(kinds), NEW row \in SubjectRows, NEW field,
         Can(rules, row, field)
  PROVE  Can(rules, TypeOnly, field)
<1>1. row # TypeOnly
  BY AbilityNulls
<1>2. ASSUME NEW i \in DOMAIN rules, ~rules[i].inverted,
             Matches(rules[i], row, field)
      PROVE  Matches(rules[i], TypeOnly, field)
  BY <1>2 DEF Matches, MatchesRow
<1>3. ASSUME NEW i \in DOMAIN rules, rules[i].inverted,
             Matches(rules[i], TypeOnly, field)
      PROVE  Matches(rules[i], row, field)
  BY <1>3 DEF Matches, MatchesRow
<1> QED BY <1>2, <1>3 DEF Can

\* A row of which a field may be read may be read.
LEMMA FieldAllowsRow ==
  ASSUME NEW kinds, NEW rules \in Seq(kinds), NEW row, NEW field \in SubjectFields,
         Can(rules, row, field)
  PROVE  Can(rules, row, NoField)
<1>1. field # NoField
  BY AbilityNulls
<1>2. ASSUME NEW i \in DOMAIN rules, ~rules[i].inverted,
             Matches(rules[i], row, field)
      PROVE  Matches(rules[i], row, NoField)
  BY <1>2 DEF Matches, MatchesField
<1>3. ASSUME NEW i \in DOMAIN rules, rules[i].inverted,
             Matches(rules[i], row, NoField)
      PROVE  Matches(rules[i], row, field)
  BY <1>3 DEF Matches, MatchesField
<1> QED BY <1>2, <1>3 DEF Can
=============================================================================
