-------------------------- MODULE Permissions_proofs --------------------------
(***************************************************************************)
(* The permissions of a request, for any users, groups and permission rows *)
(* and any changes while the queries run.                                  *)
(***************************************************************************)
EXTENDS Permissions, Ability_proofs, FiniteSetTheorems

-----------------------------------------------------------------------------
(* Sequences of the rows of a query.                                       *)

\* A query returns each of its rows, and nothing else.
LEMMA QueryReturnsAll ==
  ASSUME NEW S, IsFiniteSet(S), NEW s \in SetToSeqs(S)
  PROVE  s \in Seq(S) /\ ToSet(s) = S
<1> DEFINE n == Cardinality(S)
<1>1. n \in Nat
  BY FS_CardinalityType
<1>2. s \in [1 .. n -> S] /\ \A i, j \in 1 .. n : i # j => s[i] # s[j]
  BY DEF SetToSeqs
<1>3. IsFiniteSet(1 .. n) /\ Cardinality(1 .. n) = n
  BY <1>1, FS_Interval
<1>4. s \in Injection(1 .. n, S)
  BY <1>2 DEF Injection, IsInjective
<1>5. s \in Surjection(1 .. n, S)
  BY <1>3, <1>4, FS_Injection
<1>6. \A x \in S : \E i \in 1 .. n : s[i] = x
  BY <1>5 DEF Surjection
<1>7. s \in Seq(S)
  BY <1>1, <1>2
<1>8. DOMAIN s = 1 .. n
  BY <1>2
<1> QED BY <1>2, <1>6, <1>7, <1>8 DEF ToSet

LEMMA ElementsOfConcat ==
  ASSUME NEW S, NEW a \in Seq(S), NEW b \in Seq(S)
  PROVE  a \o b \in Seq(S) /\ ToSet(a \o b) = ToSet(a) \cup ToSet(b)
<1>1. a \o b \in Seq(S)
  OBVIOUS
<1>2. \A i \in DOMAIN a : (a \o b)[i] = a[i] /\ i \in DOMAIN (a \o b)
  OBVIOUS
<1>3. \A i \in DOMAIN b :
        (a \o b)[Len(a) + i] = b[i] /\ Len(a) + i \in DOMAIN (a \o b)
  OBVIOUS
<1>4. \A i \in DOMAIN (a \o b) :
        i \in DOMAIN a \/ (i - Len(a) \in DOMAIN b /\ i = Len(a) + (i - Len(a)))
  OBVIOUS
<1>5. ToSet(a \o b) \subseteq ToSet(a) \cup ToSet(b)
  BY <1>2, <1>3, <1>4 DEF ToSet
<1>6. ToSet(a) \cup ToSet(b) \subseteq ToSet(a \o b)
  BY <1>2, <1>3 DEF ToSet
<1> QED BY <1>1, <1>5, <1>6

\* What a query of rows of the database adds to those fetched before.
LEMMA ReturnsRows ==
  ASSUME NEW rows \in SUBSET Rows, fetched \in Seq(Rows), Returns(rows)
  PROVE  fetched' \in Seq(Rows) /\ ToSet(fetched') = ToSet(fetched) \cup rows
<1>1. IsFiniteSet(rows)
  BY RowsAssumption, FS_Subset
<1>2. PICK result \in SetToSeqs(rows) : fetched' = fetched \o result
  BY DEF Returns
<1>3. result \in Seq(rows) /\ ToSet(result) = rows
  BY <1>1, QueryReturnsAll
<1>4. result \in Seq(Rows)
  BY <1>3
<1> QED BY <1>2, <1>3, <1>4, ElementsOfConcat

-----------------------------------------------------------------------------
(* The types.                                                              *)

LEMMA TypeInit == Init => TypeOK
<1> SUFFICES ASSUME Init PROVE TypeOK
  OBVIOUS
<1>1. changes \in 0 .. MaxChanges
  BY MaxChangesAssumption DEF Init
<1>2. <<>> \in Seq(Rows)
  OBVIOUS
<1> QED BY <1>1, <1>2 DEF Init, TypeOK, Stage

LEMMA TypeStep == TypeOK /\ [Next]_vars => TypeOK'
<1> SUFFICES ASSUME TypeOK, [Next]_vars PROVE TypeOK'
  OBVIOUS
<1>c. ASSUME Changed PROVE changes' \in 0 .. MaxChanges /\ groups' = groups
                           /\ pc' = pc /\ who' = who /\ fetched' = fetched
                           /\ joined' = joined /\ ability' = ability
  BY <1>c, MaxChangesAssumption DEF Changed, request, TypeOK
<1>e. ASSUME Changed, granted' \subseteq Rows
      PROVE  ever' \subseteq Rows /\ always' \subseteq Rows
  BY <1>e DEF Changed, TypeOK, InForce
<1>1. ASSUME NEW row \in Rows, Grant(row) PROVE TypeOK'
  BY <1>1, <1>c, <1>e DEF Grant, TypeOK
<1>2. ASSUME NEW row \in Rows, Revoke(row) PROVE TypeOK'
  BY <1>2, <1>c, <1>e DEF Revoke, TypeOK
<1>3. ASSUME NEW g \in Groups, Join(g) PROVE TypeOK'
  BY <1>3, <1>c, <1>e DEF Join, TypeOK
<1>4. ASSUME NEW g \in Groups, Leave(g) PROVE TypeOK'
  BY <1>4, <1>c, <1>e DEF Leave, TypeOK
<1>5. ASSUME NEW requester \in {User, Nobody}, Arrive(requester) PROVE TypeOK'
  BY <1>5 DEF Arrive, TypeOK, Stage, tables, InForce
<1>6. CASE QueryUser
  <2>1. fetched' \in Seq(Rows)
    BY <1>6, ReturnsRows DEF QueryUser, TypeOK
  <2> QED BY <1>6, <2>1 DEF QueryUser, TypeOK, Stage, tables
<1>7. CASE QueryGroups
  <2>1. fetched' \in Seq(Rows)
    BY <1>7, ReturnsRows DEF QueryGroups, TypeOK
  <2> QED BY <1>7, <2>1 DEF QueryGroups, TypeOK, Stage, tables
<1>8. CASE QueryMembership
  BY <1>8 DEF QueryMembership, TypeOK, Stage, tables
<1>9. CASE FindGuest
  BY <1>9, GuestAssumption DEF FindGuest, TypeOK, Stage, tables
<1>10. CASE NoGuest
  BY <1>10 DEF NoGuest, TypeOK, Stage, tables
<1>11. CASE QueryGuest
  <2>1. fetched' \in Seq(Rows) /\ ability' \in Seq(Rows)
    BY <1>11, ReturnsRows DEF QueryGuest, TypeOK
  <2> QED BY <1>11, <2>1 DEF QueryGuest, TypeOK, Stage, tables
<1>12. CASE UNCHANGED vars
  BY <1>12 DEF vars, TypeOK
<1> QED
  BY <1>1, <1>2, <1>3, <1>4, <1>5, <1>6, <1>7, <1>8, <1>9, <1>10, <1>11, <1>12
  DEF Next, Administer, GetPermissions

\* Every variable has its type, for any instance.
THEOREM TypeCorrect == Spec => []TypeOK
BY TypeInit, TypeStep, PTL DEF Spec

-----------------------------------------------------------------------------
(* What the queries have found so far.                                     *)

\* Which queries run for whom, and what is there before the first of them.
WhoAsks ==
  /\ pc = "idle" => fetched = <<>>
  /\ pc # "ready" => ability = <<>>
  /\ pc \in {"user", "group", "membership"} => who = User
  /\ pc \in {"guest", "guestRows"} => who # User /\ fetched = <<>>
  /\ pc = "guestRows" => Guest \in groups

\* The permissions of this moment are between those in force ever since the
\* request arrived and those in force at some moment since.
Now == InForce(who, granted, members, groups)
Bracket == pc # "idle" => always \subseteq Now /\ Now \subseteq ever

\* So are those that have been fetched, as far as the queries have come.
FetchedSoFar ==
  /\ ToSet(fetched) \subseteq ever /\ ToSet(ability) \subseteq ever
  /\ pc = "group" => {row \in always : row.owner = User} \subseteq ToSet(fetched)
  /\ pc = "membership" => always \subseteq ToSet(fetched)
  /\ pc = "ready" => always \subseteq ToSet(ability)

IInv == TypeOK /\ WhoAsks /\ Bracket /\ FetchedSoFar

LEMMA EmptyIsNone == ToSet(<<>>) = {}
BY DEF ToSet

LEMMA InvInit == Init => IInv
<1> SUFFICES ASSUME Init PROVE IInv
  OBVIOUS
<1>1. TypeOK
  BY TypeInit
<1>2. WhoAsks /\ Bracket
  BY DEF Init, WhoAsks, Bracket
<1>3. FetchedSoFar
  BY EmptyIsNone DEF Init, FetchedSoFar
<1> QED BY <1>1, <1>2, <1>3 DEF IInv

\* A change moves the bracket and leaves the request alone.
LEMMA InvChanged ==
  ASSUME IInv, Changed, granted' \subseteq Rows
  PROVE  WhoAsks' /\ Bracket' /\ FetchedSoFar'
<1>1. /\ groups' = groups /\ pc' = pc /\ who' = who /\ fetched' = fetched
      /\ ability' = ability
  BY DEF Changed, request
<1>2. Now' = InForce(who, granted', members', groups)
  BY <1>1 DEF Now
<1>3. ever \subseteq ever' /\ always' \subseteq always
      /\ Now' \subseteq ever' /\ always' \subseteq Now'
  BY <1>2 DEF Changed
  \* always' is cut down to what is in force after the change.
<1>4. WhoAsks'
  BY <1>1 DEF IInv, WhoAsks
<1>5. Bracket'
  BY <1>3 DEF Bracket
<1>6. FetchedSoFar'
  BY <1>1, <1>3 DEF IInv, FetchedSoFar
<1> QED BY <1>4, <1>5, <1>6

LEMMA InvStep == IInv /\ [Next]_vars => IInv'
<1> SUFFICES ASSUME IInv, [Next]_vars PROVE IInv'
  OBVIOUS
<1> USE DEF IInv
<1>t. TypeOK'
  BY TypeStep
<1> SUFFICES WhoAsks' /\ Bracket' /\ FetchedSoFar'
  BY <1>t
<1>1. ASSUME NEW row \in Rows, Grant(row) \/ Revoke(row)
      PROVE  WhoAsks' /\ Bracket' /\ FetchedSoFar'
  BY <1>1, <1>t, InvChanged DEF Grant, Revoke, TypeOK
<1>2. ASSUME NEW g \in Groups, Join(g) \/ Leave(g)
      PROVE  WhoAsks' /\ Bracket' /\ FetchedSoFar'
  BY <1>2, <1>t, InvChanged DEF Join, Leave, TypeOK
<1>3. ASSUME NEW requester \in {User, Nobody}, Arrive(requester)
      PROVE  WhoAsks' /\ Bracket' /\ FetchedSoFar'
  <2>1. /\ pc = "idle" /\ fetched' = <<>> /\ ability' = <<>>
        /\ pc' = IF who' = User THEN "user" ELSE "guest"
        /\ ever' = Now' /\ always' = Now'
    BY <1>3 DEF Arrive, WhoAsks, Now, tables
  <2>2. ToSet(fetched') = {} /\ ToSet(ability') = {}
    BY <2>1, EmptyIsNone
  <2>3. WhoAsks'
    BY <2>1 DEF WhoAsks
  <2>4. Bracket'
    BY <2>1 DEF Bracket
  <2>5. FetchedSoFar'
    BY <2>1, <2>2 DEF FetchedSoFar
  <2> QED BY <2>3, <2>4, <2>5
<1>4. CASE QueryUser
  <2>1. /\ pc = "user" /\ pc' = "group" /\ who = User /\ ability' = <<>>
        /\ UNCHANGED <<granted, members, groups, who, ability, ever, always>>
    BY <1>4 DEF QueryUser, tables, WhoAsks
  <2>2. ToSet(fetched') = ToSet(fetched) \cup {row \in granted : row.owner = User}
    BY <1>4, ReturnsRows DEF QueryUser, TypeOK
  <2>3. {row \in granted : row.owner = User} \subseteq ever
    BY <2>1 DEF Bracket, Now, InForce
  <2>4. {row \in always : row.owner = User} \subseteq granted
    BY <2>1 DEF Bracket, Now, InForce
  <2>5. WhoAsks' /\ Bracket'
    BY <2>1 DEF WhoAsks, Bracket, Now
  <2>6. FetchedSoFar'
    BY <2>1, <2>2, <2>3, <2>4 DEF FetchedSoFar
  <2> QED BY <2>5, <2>6
<1>5. CASE QueryGroups
  <2>1. /\ pc = "group" /\ pc' = "membership" /\ who = User /\ ability' = <<>>
        /\ UNCHANGED <<granted, members, groups, who, ability, ever, always>>
    BY <1>5 DEF QueryGroups, tables, WhoAsks
  <2> DEFINE theirs == {row \in granted : row.owner \in members}
  <2>2. ToSet(fetched') = ToSet(fetched) \cup theirs
    BY <1>5, ReturnsRows DEF QueryGroups, TypeOK
  <2>3. theirs \subseteq ever
    BY <2>1 DEF Bracket, Now, InForce
  <2>4. always \subseteq {row \in always : row.owner = User} \cup theirs
    BY <2>1 DEF Bracket, Now, InForce
  <2>5. WhoAsks' /\ Bracket'
    BY <2>1 DEF WhoAsks, Bracket, Now
  <2>6. FetchedSoFar'
    BY <2>1, <2>2, <2>3, <2>4 DEF FetchedSoFar
  <2> QED BY <2>5, <2>6
<1>6. CASE QueryMembership
  <2>1. /\ pc = "membership" /\ pc' = "ready" /\ ability' = fetched
        /\ UNCHANGED <<granted, members, groups, who, fetched, ever, always>>
    BY <1>6 DEF QueryMembership, tables
  <2>2. WhoAsks' /\ Bracket'
    BY <2>1 DEF WhoAsks, Bracket, Now
  <2>3. FetchedSoFar'
    BY <2>1 DEF FetchedSoFar
  <2> QED BY <2>2, <2>3
<1>7. CASE FindGuest \/ NoGuest
  <2>1. /\ pc = "guest"
        /\ \/ pc' = "guestRows" /\ Guest \in groups
           \/ pc' = "failed"
        /\ UNCHANGED <<granted, members, groups, who, fetched, ability, ever,
                       always>>
    BY <1>7 DEF FindGuest, NoGuest, tables
  <2>2. WhoAsks' /\ Bracket'
    BY <2>1 DEF WhoAsks, Bracket, Now
  <2>3. FetchedSoFar'
    BY <2>1 DEF FetchedSoFar
  <2> QED BY <2>2, <2>3
<1>8. CASE QueryGuest
  <2> DEFINE rows == {row \in granted : row.owner = Guest}
  <2>1. /\ pc = "guestRows" /\ who # User /\ Guest \in groups
        /\ fetched = <<>> /\ ability = <<>>
        /\ UNCHANGED <<granted, members, groups, who, ever, always>>
    BY <1>8 DEF QueryGuest, tables, WhoAsks
  <2>2. Now = rows
    BY <2>1 DEF Now, InForce
  <2>3. CASE pc' = "failed" /\ UNCHANGED <<fetched, ability>>
    <3>1. WhoAsks' /\ Bracket'
      BY <2>1, <2>3 DEF WhoAsks, Bracket, Now
    <3>2. FetchedSoFar'
      BY <2>1, <2>3 DEF FetchedSoFar
    <3> QED BY <3>1, <3>2
  <2>4. CASE Returns(rows) /\ ability' = fetched' /\ pc' = "ready"
    <3>1. ToSet(fetched') = rows
      BY <2>1, <2>4, ReturnsRows, EmptyIsNone DEF TypeOK
    <3>2. WhoAsks' /\ Bracket'
      BY <2>1, <2>4 DEF WhoAsks, Bracket, Now
    <3>3. FetchedSoFar'
      BY <2>1, <2>2, <2>4, <3>1 DEF FetchedSoFar, Bracket
    <3> QED BY <3>2, <3>3
  <2> QED BY <1>8, <2>3, <2>4 DEF QueryGuest
<1>9. CASE UNCHANGED vars
  BY <1>9 DEF vars, WhoAsks, Bracket, Now, FetchedSoFar
<1> QED
  BY <1>t, <1>1, <1>2, <1>3, <1>4, <1>5, <1>6, <1>7, <1>8, <1>9
  DEF Next, Administer, GetPermissions

LEMMA Invariance == Spec => []IInv
BY InvInit, InvStep, PTL DEF Spec

-----------------------------------------------------------------------------
(* The properties.                                                         *)

\* Every permission in the ability was in force at some moment since the
\* request arrived, however many changes come between the queries.
THEOREM NothingInvented == Spec => []EachWasInForce
<1>1. IInv => EachWasInForce
  BY DEF IInv, FetchedSoFar, EachWasInForce
<1> QED BY <1>1, Invariance, PTL

\* Every permission that was in force all the time is in the ability.
THEOREM NothingMissed == Spec => []SteadyOnesAreThere
<1>1. IInv => SteadyOnesAreThere
  BY DEF IInv, FetchedSoFar, SteadyOnesAreThere
<1> QED BY <1>1, Invariance, PTL

\* What the handlers ask before a resolver refuses nothing that they would
\* allow after it, whatever rules the queries have put together.
THEOREM QuestionsAgree == Spec => []PreChecksAgree
<1>1. IInv => PreChecksAgree
  <2> SUFFICES ASSUME IInv, NEW row \in SubjectRows, NEW field \in SubjectFields,
                      Can(ability, row, field)
               PROVE  /\ Can(ability, TypeOnly, field)
                      /\ Can(ability, TypeOnly, NoField)
                      /\ Can(ability, row, NoField)
    BY DEF PreChecksAgree
  <2>1. ability \in Seq(Rows)
    BY DEF IInv, TypeOK
  <2>2. Can(ability, TypeOnly, field)
    BY <2>1, TypeAllowsField
  <2>3. Can(ability, TypeOnly, NoField)
    BY <2>1, <2>2, FieldAllowsRow
  <2>4. Can(ability, row, NoField)
    BY <2>1, FieldAllowsRow
  <2> QED BY <2>2, <2>3, <2>4
<1> QED BY <1>1, Invariance, PTL
=============================================================================
