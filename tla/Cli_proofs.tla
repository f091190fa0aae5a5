----------------------------- MODULE Cli_proofs -----------------------------
(***************************************************************************)
(* What the tool leaves behind, for any number of runs, users and ids.     *)
(***************************************************************************)
EXTENDS Cli, TLAPS

\* Groups from the sequence on were made by the tool: only its own ids are
\* taken there, and every collision has used one of them up.
Least(a, b) == IF a < b THEN a ELSE b
SequenceInv ==
  /\ \A id \in GroupIds : (id >= nextGroup /\ Exists(id)) => id <= Len(DefaultName)
  /\ collisions <= Least(nextGroup - 1, Len(DefaultName))

\* The stages of `groups` name one of its ids.
StageInv ==
  \A s \in Shells : shell[s].stage \in {"look", "insert"} => shell[s].id \in Default

\* A group has the name that its id was chosen for, or any other.
NameInv ==
  \A id \in GroupIds :
    groups[id] \in {None, Other} \/ (id \in Default /\ groups[id] = DefaultName[id])

\* `groups` leaves nothing out before it goes on.
ProgressInv ==
  \A s \in Shells : shell[s].stage \in {"look", "insert"} =>
    \A id \in Default : id < shell[s].id => Exists(id) \/ id \in removed

IInv == TypeOK /\ StageInv /\ SequenceInv /\ NameInv /\ ProgressInv

LEMMA LenDefault == Len(DefaultName) = 3 /\ Default = 1 .. 3
  BY DEF DefaultName, Default

LEMMA NextGroupKind == \A id \in Default : id \in GroupIds /\ DefaultName[id] \in Names
  BY LenDefault, MaxGroupAssumption DEF GroupIds, Names

\* The invariant holds at first.
LEMMA InitInv == Init => IInv
  BY LenDefault, MaxGroupAssumption
  DEF Init, IInv, TypeOK, StageInv, SequenceInv, NameInv, ProgressInv, Idle, At, GroupIds, Exists, Least

\* Every step keeps it.
LEMMA StepInv == IInv /\ [Next]_vars => IInv'
<1> SUFFICES ASSUME IInv, [Next]_vars PROVE IInv'
  OBVIOUS
<1> USE LenDefault, NextGroupKind, MaxGroupAssumption
<1> USE DEF IInv, TypeOK, StageInv, SequenceInv, NameInv, ProgressInv, GroupIds, Exists, Least,
            Idle, Gone, At, Goto, Onward
<1>1. ASSUME NEW s \in Shells, GroupsCommand(s) PROVE IInv'
  BY <1>1 DEF GroupsCommand
<1>2. ASSUME NEW s \in Shells, GetGroup(s) PROVE IInv'
  BY <1>2 DEF GetGroup
<1>3. ASSUME NEW s \in Shells, CreateGroup(s) PROVE IInv'
  <2> DEFINE id == shell[s].id
  <2>1. id \in Default /\ id \in GroupIds /\ DefaultName[id] \in Names
    BY <1>3 DEF CreateGroup
  <2>2. CASE Exists(id)
    <3>1. UNCHANGED <<accounts, groups, nextGroup, collisions, removed>>
      BY <1>3, <2>2 DEF CreateGroup
    <3>2. shell' = [shell EXCEPT ![s] = Gone]
      BY <1>3, <2>2 DEF CreateGroup
    <3>3. QED
      BY <3>1, <3>2
  <2>3. CASE ~Exists(id)
    <3>1. /\ groups' = [groups EXCEPT ![id] = DefaultName[id]]
          /\ shell' = [shell EXCEPT ![s] = Onward(id)]
          /\ UNCHANGED <<accounts, nextGroup, collisions, removed>>
      BY <1>3, <2>3 DEF CreateGroup
    <3>2. /\ groups' \in [GroupIds -> Names \cup {None}]
          /\ groups'[id] # None
          /\ \A i \in GroupIds : i # id => groups'[i] = groups[i]
      BY <2>1, <3>1, NoneAssumption
    <3>3. TypeOK' /\ StageInv'
      BY <2>1, <3>1, <3>2
    <3>4. SequenceInv'
      BY <2>1, <3>1, <3>2
    <3>5. NameInv'
      BY <2>1, <3>1, <3>2
    <3>6. ProgressInv'
      <4> SUFFICES ASSUME NEW t \in Shells, shell'[t].stage \in {"look", "insert"},
                          NEW i \in Default, i < shell'[t].id
                   PROVE  groups'[i] # None \/ i \in removed'
        OBVIOUS
      <4>1. CASE i = id
        BY <4>1, <3>2
      <4>2. CASE t # s /\ i # id
        BY <4>2, <2>1, <3>1, <3>2
      <4>3. CASE t = s /\ i # id
        <5>1. shell'[s].id = id + 1
          BY <4>3, <2>1, <3>1
        <5>2. shell[s].stage = "insert"
          BY <1>3 DEF CreateGroup
        <5>3. i < id
          BY <4>3, <5>1, <2>1
        <5>4. groups[i] # None \/ i \in removed
          BY <5>2, <5>3
        <5>5. QED
          BY <4>3, <5>4, <2>1, <3>1, <3>2
      <4>4. QED
        BY <4>1, <4>2, <4>3
    <3>7. QED
      BY <3>3, <3>4, <3>5, <3>6
  <2>4. QED
    BY <2>2, <2>3
<1>4. ASSUME NEW s \in Shells, UserCommand(s) PROVE IInv'
  BY <1>4 DEF UserCommand
<1>5. ASSUME NEW s \in Shells, GetAdminGroup(s) PROVE IInv'
  <2>1. PICK where \in {Idle} \cup {At("asking", id) : id \in GroupIds} :
          shell' = [shell EXCEPT ![s] = where]
    BY <1>5 DEF GetAdminGroup
  <2>2. UNCHANGED <<accounts, groups, nextGroup, collisions, removed>>
    BY <1>5 DEF GetAdminGroup
  <2>3. TypeOK' /\ StageInv' /\ ProgressInv'
    BY <2>1, <2>2
  <2>4. SequenceInv' /\ NameInv'
    BY <2>2
  <2>5. QED
    BY <2>3, <2>4
<1>6. ASSUME NEW s \in Shells, NEW u \in Users, CreateUser(s, u) PROVE IInv'
  <2>1. \/ accounts' = accounts \cup {u} /\ shell' = [shell EXCEPT ![s] = Idle]
        \/ accounts' = accounts /\ shell' = [shell EXCEPT ![s] = Gone]
    BY <1>6 DEF CreateUser
  <2>2. UNCHANGED <<groups, nextGroup, collisions, removed>>
    BY <1>6 DEF CreateUser
  <2>3. TypeOK'
    BY <2>1, <2>2
  <2>4. StageInv' /\ ProgressInv'
    BY <2>1, <2>2
  <2>5. SequenceInv' /\ NameInv'
    BY <2>2
  <2>6. QED
    BY <2>3, <2>4, <2>5
<1>7. ASSUME NEW s \in Shells, Exit(s) PROVE IInv'
  BY <1>7 DEF Exit
<1>8. CASE ServerCreatesGroup
  <2>1. nextGroup' = nextGroup + 1 /\ nextGroup' \in GroupIds /\ UNCHANGED <<accounts, removed, shell>>
    BY <1>8 DEF ServerCreatesGroup
  <2>2. CASE Exists(nextGroup)
    <3>1. collisions' = collisions + 1 /\ groups' = groups
      BY <1>8, <2>2 DEF ServerCreatesGroup
    <3>2. nextGroup <= 3 /\ collisions' <= nextGroup /\ collisions' \in 0 .. MaxGroup
      BY <2>1, <2>2, <3>1
    <3>3. NameInv' /\ ProgressInv'
      BY <2>1, <3>1
    <3>4. QED
      BY <2>1, <3>1, <3>2, <3>3
  <2>3. CASE ~Exists(nextGroup)
    <3>1. groups' = [groups EXCEPT ![nextGroup] = Other] /\ collisions' = collisions
      BY <1>8, <2>3 DEF ServerCreatesGroup
    <3>2. groups' \in [GroupIds -> Names \cup {None}]
      BY <3>1 DEF Names
    <3>3. SequenceInv'
      BY <2>1, <3>1
    <3>4. NameInv' /\ ProgressInv'
      BY <2>1, <3>1, NoneAssumption DEF Names
    <3>5. QED
      BY <2>1, <3>1, <3>2, <3>3, <3>4
  <2>4. QED
    BY <2>2, <2>3
<1>9. ASSUME NEW id \in GroupIds, ServerRenamesGroup(id) PROVE IInv'
  BY <1>9, NoneAssumption DEF ServerRenamesGroup, Names
<1>10. ASSUME NEW u \in Users, ServerDeletesUser(u) PROVE IInv'
  BY <1>10 DEF ServerDeletesUser
<1>11. ASSUME NEW id \in GroupIds, ServerDeletesGroup(id) PROVE IInv'
  BY <1>11, NoneAssumption DEF ServerDeletesGroup, Names
<1>12. CASE UNCHANGED vars
  BY <1>12 DEF vars
<1>13. QED
  BY <1>1, <1>2, <1>3, <1>4, <1>5, <1>6, <1>7, <1>8, <1>9, <1>10, <1>11, <1>12 DEF Next

\* The invariant holds always.
LEMMA Invariant == Spec => []IInv
  BY InitInv, StepInv, PTL DEF Spec

\* Every variable of Cli has its type.
THEOREM TypeCorrect == Spec => []TypeOK
<1>1. IInv => TypeOK
  BY DEF IInv
<1>2. QED
  BY Invariant, <1>1, PTL

\* The ids that the tool chose (createGroup in cli.ts) fail createGroup of the
\* server at most once each: the sequence moves on with every failure.
THEOREM CollisionsAreFew == Spec => []CollisionsEnd
<1>1. IInv => CollisionsEnd
  BY LenDefault, MaxGroupAssumption
  DEF IInv, TypeOK, SequenceInv, CollisionsEnd, Least, GroupIds
<1>2. QED
  BY Invariant, <1>1, PTL

\* However many runs of the tool race, there is one group of each name that it
\* makes (getGroup and createGroup in cli.ts): the id is chosen with the name.
THEOREM OneGroupOfEachName == Spec => []DefaultGroupsOnce
<1>1. IInv => DefaultGroupsOnce
  BY LenDefault, NamesAssumption
  DEF IInv, NameInv, DefaultGroupsOnce, Exists, DefaultName
<1>2. QED
  BY Invariant, <1>1, PTL

\* A `groups` command that ends has left no group out, whatever other runs and
\* the server did between its statements.
THEOREM GroupsAreComplete == Spec => GroupsCommandCompletes
<1> DEFINE Complete ==
      \A s \in Shells :
        (shell[s].stage \in {"look", "insert"} /\ shell'[s] = Idle) =>
          \A id \in Default : groups'[id] # None \/ id \in removed'
<1>1. IInv /\ [Next]_vars => [Complete]_vars
  <2> SUFFICES ASSUME IInv, Next, NEW s \in Shells,
                      shell[s].stage \in {"look", "insert"}, shell'[s] = Idle
               PROVE  \A id \in Default : groups'[id] # None \/ id \in removed'
    BY DEF Complete
  <2> USE LenDefault, NextGroupKind
  <2> USE DEF IInv, TypeOK, StageInv, ProgressInv, Idle, Gone, At, Goto, Onward, Exists
  <2>1. shell[s].id \in Default /\ (shell[s].id < 3 => Onward(shell[s].id) # Idle)
    OBVIOUS
  <2>2. GetGroup(s) \/ CreateGroup(s)
    <3>1. CASE ServerCreatesGroup
      BY <3>1 DEF ServerCreatesGroup
    <3>2. ASSUME NEW id \in GroupIds, ServerRenamesGroup(id) PROVE FALSE
      BY <3>2 DEF ServerRenamesGroup
    <3>3. ASSUME NEW u \in Users, ServerDeletesUser(u) PROVE FALSE
      BY <3>3 DEF ServerDeletesUser
    <3>4. ASSUME NEW id \in GroupIds, ServerDeletesGroup(id) PROVE FALSE
      BY <3>4 DEF ServerDeletesGroup
    <3>5. ASSUME NEW t \in Shells,
                 \/ GroupsCommand(t) \/ UserCommand(t) \/ Exit(t)
                 \/ GetAdminGroup(t)
                 \/ \E u \in Users : CreateUser(t, u)
          PROVE FALSE
      BY <3>5 DEF GroupsCommand, UserCommand, GetAdminGroup, Exit, CreateUser
    <3>6. ASSUME NEW t \in Shells, GetGroup(t) \/ CreateGroup(t) PROVE t = s
      BY <3>6 DEF GetGroup, CreateGroup
    <3>7. QED
      BY <3>1, <3>2, <3>3, <3>4, <3>5, <3>6 DEF Next
  <2>3. CASE GetGroup(s)
    BY <2>1, <2>3 DEF GetGroup
  <2>4. CASE CreateGroup(s)
    BY <2>1, <2>4, NoneAssumption DEF CreateGroup
  <2>5. QED
    BY <2>2, <2>3, <2>4
<1>2. QED
  BY <1>1, Invariant, PTL DEF Spec, GroupsCommandCompletes

-----------------------------------------------------------------------------
(* The rules of guests and members.                                        *)

\* A rule covers itself.
LEMMA CoversItself == ASSUME NEW rule PROVE Covers(rule, rule)
BY DEF Covers

\* Rules of one action cover those with fewer subjects and fields.
LEMMA EachCovers ==
  ASSUME NEW action, NEW fewer, NEW more,
         \A s \in DOMAIN fewer : s \in DOMAIN more /\ fewer[s] \subseteq more[s],
         NEW rule \in Each(action, fewer)
  PROVE  \E other \in Each(action, more) : Covers(other, rule)
<1>1. PICK s \in DOMAIN fewer : rule = Rule(action, s, fewer[s], "always")
  BY DEF Each
<1>2. Rule(action, s, more[s], "always") \in Each(action, more)
  BY DEF Each
<1> QED BY <1>1, <1>2 DEF Covers, Rule

\* What a guest may filter or sort by, a member may.
LEMMA FieldsCovered ==
  /\ \A s \in DOMAIN GuestFilters :
       s \in DOMAIN MemberFilters /\ GuestFilters[s] \subseteq MemberFilters[s]
  /\ \A s \in DOMAIN GuestSorts :
       s \in DOMAIN MemberSorts /\ GuestSorts[s] \subseteq MemberSorts[s]
<1>1. ASSUME NEW s \in DOMAIN GuestFilters
      PROVE  s \in DOMAIN MemberFilters /\ GuestFilters[s] \subseteq MemberFilters[s]
  BY DEF GuestFilters, MemberFilters
<1>2. ASSUME NEW s \in DOMAIN GuestSorts
      PROVE  s \in DOMAIN MemberSorts /\ GuestSorts[s] \subseteq MemberSorts[s]
  BY DEF GuestSorts, MemberSorts
<1> QED BY <1>1, <1>2

\* What a guest may read a member may read, on the same condition or on none.
LEMMA ReadsCovered ==
  ASSUME NEW rule \in GuestReads
  PROVE  \E other \in MemberReads : Covers(other, rule)
<1> DEFINE public == {"Category", "Credit", "Image", "Person", "PersonImage",
                      "PersonRole", "ProductionImage", "ProductionTag",
                      "ProductionVideo", "Role", "Video"}
<1>1. CASE rule \in Whole("read", public, "always")
  <2>1. rule \in MemberReads
    BY <1>1 DEF MemberReads, Whole
  <2> QED BY <2>1, CoversItself
<1>2. CASE rule = Rule("read", "Production",
                       {"id", "name", "description", "startTime", "endTime",
                        "category", "eventLocation", "thumbnail"}, "always")
  <2>1. Rule("read", "Production", All, "always") \in MemberReads
    BY DEF MemberReads, Whole
  <2> QED BY <1>2, <2>1 DEF Covers, Rule
<1>3. CASE \/ rule \in Whole("read", {"GroupPermission"}, "own groups")
           \/ rule \in Whole("read", {"BlogPost"}, "posted")
           \/ rule = Rule("read", "Redirect", {"key", "location", "id"}, "unexpired")
  <2>1. rule \in MemberReads
    BY <1>3 DEF MemberReads
  <2> QED BY <2>1, CoversItself
<1> QED BY <1>1, <1>2, <1>3 DEF GuestReads

\* The one thing that a guest may create a member may not.
LEMMA ContactIsLost ==
  ASSUME NEW rule \in GuestWrites, NEW other \in RulesOf["Member"]
  PROVE  ~Covers(other, rule)
<1>1. rule.action = "create" /\ rule.subject = "ContactSubmission"
  BY DEF GuestWrites, Rule
<1>2. other.action # "manage" /\ other.subject # "all"
      /\ (other.action = "create" => other.subject # "ContactSubmission")
  <2>1. \/ other \in Each("filter", MemberFilters) \/ other \in MemberReads
        \/ other \in Each("sort", MemberSorts) \/ other \in MemberWrites
    BY DEF RulesOf
  <2>2. CASE other \in Each("filter", MemberFilters)
    <3>1. other.action = "filter" /\ other.subject \in DOMAIN MemberFilters
      BY <2>2 DEF Each, Rule
    <3> QED BY <3>1 DEF MemberFilters
  <2>3. CASE other \in Each("sort", MemberSorts)
    <3>1. other.action = "sort" /\ other.subject \in DOMAIN MemberSorts
      BY <2>3 DEF Each, Rule
    <3> QED BY <3>1 DEF MemberSorts
  <2>4. CASE other \in MemberReads
    <3>1. ASSUME NEW subjects, "all" \notin subjects, NEW when,
                 other \in Whole("read", subjects, when)
          PROVE  other.action = "read" /\ other.subject # "all"
      BY <3>1 DEF Whole, Rule
    <3>2. ASSUME NEW subject, subject # "all", NEW fields, NEW when,
                 other = Rule("read", subject, fields, when)
          PROVE  other.action = "read" /\ other.subject # "all"
      BY <3>2 DEF Rule
    <3>3. other.action = "read" /\ other.subject # "all"
      BY <2>4, <3>1, <3>2 DEF MemberReads
    <3> QED BY <3>3
  <2>5. CASE other \in MemberWrites
    BY <2>5 DEF MemberWrites, Whole, Rule
  <2> QED BY <2>1, <2>2, <2>3, <2>4, <2>5
<1> QED BY <1>1, <1>2 DEF Covers

\* Logging in costs a guest the contact form and nothing else (groups of
\* cli.ts): each other rule of the guests is covered by one of the members.
THEOREM MembersMayAllButContact == Spec => []LoginCostsOnlyContact
<1>1. /\ RulesOf["Guest"] = Each("filter", GuestFilters) \cup GuestReads
                              \cup Each("sort", GuestSorts) \cup GuestWrites
      /\ RulesOf["Member"] = Each("filter", MemberFilters) \cup MemberReads
                               \cup Each("sort", MemberSorts) \cup MemberWrites
  BY DEF RulesOf
<1>2. ASSUME NEW rule \in RulesOf["Guest"], rule \notin GuestWrites
      PROVE  \E other \in RulesOf["Member"] : Covers(other, rule)
  <2>1. CASE rule \in Each("filter", GuestFilters)
    BY <1>1, <2>1, FieldsCovered, EachCovers
  <2>2. CASE rule \in Each("sort", GuestSorts)
    BY <1>1, <2>2, FieldsCovered, EachCovers
  <2>3. CASE rule \in GuestReads
    BY <1>1, <2>3, ReadsCovered
  <2> QED BY <1>1, <1>2, <2>1, <2>2, <2>3
<1>3. Lost("Guest", "Member") = GuestWrites
  <2>1. ASSUME NEW rule \in GuestWrites PROVE rule \in Lost("Guest", "Member")
    BY <1>1, ContactIsLost DEF Lost
  <2>2. ASSUME NEW rule \in Lost("Guest", "Member") PROVE rule \in GuestWrites
    BY <1>2 DEF Lost
  <2> QED BY <2>1, <2>2 DEF Lost
<1>4. {<<rule.action, rule.subject>> : rule \in GuestWrites}
        = {<<"create", "ContactSubmission">>}
  BY DEF GuestWrites, Rule
<1>5. LoginCostsOnlyContact
  BY <1>3, <1>4 DEF LoginCostsOnlyContact
<1> QED BY <1>5, PTL
=============================================================================
