----------------------------- MODULE Permissions -----------------------------
(***************************************************************************)
(* CaslAbilityFactory.getPermissions and createForUser.  The permissions   *)
(* of a request are put together from queries that run one after the other *)
(* on the base client, outside any transaction, while administrators       *)
(* grant and revoke permissions and change who is in which group.  Nothing *)
(* orders the rows of a query.                                             *)
(***************************************************************************)
EXTENDS Ability, Integers, FiniteSets, SequencesExt

CONSTANTS
  Groups,      \* groups, the reserved group among them
  Guest,       \* the group named "Guest"
  User,        \* the user who makes the request
  Nobody,      \* the request comes without a session
  Priority,    \* of groups
  Rows,        \* permission rows: [owner, variable] and the fields of a Rule
  MaxChanges   \* bound: changes an administrator makes

Owner == Groups \cup {User}

\* $id and $groups in the conditions of a permission.
Variable == {"none", "$id", "$groups"}

ASSUME RowAssumption ==
  \A row \in Rows :
    /\ row.owner \in Owner
    /\ row.variable \in Variable
    /\ [fields |-> row.fields, rows |-> row.rows, inverted |-> row.inverted]
         \in Rule
ASSUME RowsAssumption == IsFiniteSet(Rows)
ASSUME GuestAssumption == Guest \in Groups /\ User \notin Groups
ASSUME PriorityAssumption == Priority \in [Groups -> Int]
ASSUME MaxChangesAssumption == MaxChanges \in Nat

VARIABLES
  granted,   \* permission rows in the database
  members,   \* groups the user is in
  groups,    \* groups that exist
  changes,
  pc,        \* the query that runs next
  who,       \* req.user
  fetched,   \* rows the queries have returned
  joined,    \* the groups that $groups stands for
  ability,   \* the list given to createPrismaAbility
  ever,      \* rows in force at some moment since the request arrived
  always     \* rows in force ever since

vars == <<granted, members, groups, changes, pc, who, fetched, joined, ability,
          ever, always>>

Stage == {"idle", "user", "group", "membership", "guest", "guestRows",
          "ready", "failed"}

\* The permissions that are in force for a requester, as things are now.
InForce(requester, rows, memberOf, existing) ==
  IF requester = User
  THEN {row \in rows : row.owner = User \/ row.owner \in memberOf}
  ELSE {row \in rows : row.owner = Guest /\ Guest \in existing}

Init ==
  /\ granted \in SUBSET Rows
  /\ members \in SUBSET Groups
  /\ groups \in {Groups, Groups \ {Guest}}
  /\ members \subseteq groups
  /\ \A row \in granted : row.owner \in groups \cup {User}
  /\ changes = 0
  /\ pc = "idle"
  /\ who = Nobody
  /\ fetched = <<>>
  /\ joined = {}
  /\ ability = <<>>
  /\ ever = {}
  /\ always = {}

request == <<pc, who, fetched, joined, ability>>

-----------------------------------------------------------------------------
(* Administrators: create and delete of UserPermission, GroupPermission    *)
(* and UserGroup.  Each is one statement as far as others can see.         *)

Changed ==
  /\ changes < MaxChanges
  /\ changes' = changes + 1
  /\ ever' = ever \cup InForce(who, granted', members', groups)
  /\ always' = always \cap InForce(who, granted', members', groups)
  /\ UNCHANGED <<groups, request>>

Grant(row) ==
  /\ row.owner \in groups \cup {User}
  /\ granted' = granted \cup {row}
  /\ UNCHANGED members
  /\ Changed

Revoke(row) ==
  /\ granted' = granted \ {row}
  /\ UNCHANGED members
  /\ Changed

\* The group is not looked at: it may have been deleted.
Join_Bug(g) ==
  /\ members' = members \cup {g}
  /\ UNCHANGED granted
  /\ Changed

Join(g) ==
  /\ g \in groups
  /\ members' = members \cup {g}
  /\ UNCHANGED granted
  /\ Changed

Leave(g) ==
  /\ members' = members \ {g}
  /\ UNCHANGED granted
  /\ Changed

-----------------------------------------------------------------------------
(* getPermissions.                                                         *)

tables == <<granted, members, groups, changes>>

\* A query returns its rows in any order.
Returns(rows) == \E result \in SetToSeqs(rows) : fetched' = fetched \o result

Arrive(requester) ==
  /\ pc = "idle"
  /\ who' = requester
  /\ pc' = IF requester = User THEN "user" ELSE "guest"
  /\ ever' = InForce(requester, granted, members, groups)
  /\ always' = InForce(requester, granted, members, groups)
  /\ UNCHANGED <<tables, fetched, joined, ability>>

\* SELECT ... FROM user_permissions WHERE "user" = ...
QueryUser ==
  /\ pc = "user"
  /\ Returns({row \in granted : row.owner = User})
  /\ pc' = "group"
  /\ UNCHANGED <<tables, who, joined, ability, ever, always>>

\* Only the permissions of one group are looked up.
QueryGroups_Bug ==
  /\ pc = "group"
  /\ \E g \in members \cup {Guest} :
       Returns({row \in granted : row.owner = g})
  /\ pc' = "membership"
  /\ UNCHANGED <<tables, who, joined, ability, ever, always>>

\* SELECT ... FROM group_permissions WHERE "group" IN (SELECT "group" FROM
\* user_groups WHERE "user" = ...): memberships and permissions of one moment.
QueryGroups ==
  /\ pc = "group"
  /\ Returns({row \in granted : row.owner \in members})
  /\ pc' = "membership"
  /\ UNCHANGED <<tables, who, joined, ability, ever, always>>

QueryMembership ==
  /\ pc = "membership"
  /\ joined' = members
  /\ pc' = "ready"
  /\ ability' = fetched
  /\ UNCHANGED <<tables, who, fetched, ever, always>>

\* group.findFirst({ where: { name: "Guest" } })
FindGuest ==
  /\ pc = "guest"
  /\ Guest \in groups
  /\ joined' = {Guest}
  /\ pc' = "guestRows"
  /\ UNCHANGED <<tables, who, fetched, ability, ever, always>>

NoGuest ==
  /\ pc = "guest"
  /\ Guest \notin groups
  /\ pc' = "failed"
  /\ UNCHANGED <<tables, who, fetched, joined, ability, ever, always>>

\* $id means nothing when nobody is logged in: createForUser throws.
QueryGuest ==
  /\ pc = "guestRows"
  /\ LET rows == {row \in granted : row.owner = Guest}
     IN  \/ /\ \A row \in rows : row.variable # "$id"
            /\ Returns(rows)
            /\ ability' = fetched'
            /\ pc' = "ready"
         \/ /\ \E row \in rows : row.variable = "$id"
            /\ pc' = "failed"
            /\ UNCHANGED <<fetched, ability>>
  /\ UNCHANGED <<tables, who, joined, ever, always>>

-----------------------------------------------------------------------------
Administer ==
  \/ \E row \in Rows : Grant(row) \/ Revoke(row)
  \/ \E g \in Groups : Join(g) \/ Leave(g)

GetPermissions ==
  \/ QueryUser \/ QueryGroups \/ QueryMembership
  \/ FindGuest \/ NoGuest \/ QueryGuest

Next ==
  \/ pc \notin {"idle", "ready", "failed"} /\ Administer
  \/ \E requester \in {User, Nobody} : Arrive(requester)
  \/ GetPermissions

Spec == Init /\ [][Next]_vars

-----------------------------------------------------------------------------
(* Properties.                                                             *)

\* Every variable has its type.
TypeOK ==
  /\ granted \subseteq Rows
  /\ members \subseteq groups /\ groups \subseteq Groups
  /\ changes \in 0 .. MaxChanges
  /\ pc \in Stage
  /\ who \in {User, Nobody}
  /\ fetched \in Seq(Rows) /\ ability \in Seq(Rows)
  /\ joined \subseteq Groups
  /\ ever \subseteq Rows /\ always \subseteq Rows

\* No permission out of thin air: each one in the ability was in force at
\* some moment between the arrival of the request and the last query, even if
\* it has been revoked or the user has left the group in the meantime.
EachWasInForce == ToSet(ability) \subseteq ever

\* No permission is missed: one that was in force during all of that time is
\* in the ability, whatever changed around it.
SteadyOnesAreThere == pc = "ready" => always \subseteq ToSet(ability)

\* The questions that the rule handlers ask before they call a resolver never
\* refuse what they would allow once they see the row: a refusal about the
\* subject type, with or without the field, holds for every row.
PreChecksAgree ==
  pc = "ready" =>
    \A row \in SubjectRows, field \in SubjectFields :
      Can(ability, row, field) =>
        /\ Can(ability, TypeOnly, field)
        /\ Can(ability, TypeOnly, NoField)
        /\ Can(ability, row, NoField)

\* What the comment on getPermissions says: permissions are applied in the
\* order of the priority of the groups, and the user's own are applied last.
AppliedInOrder ==
  \A i, j \in DOMAIN ability :
    i < j =>
      \/ ability[j].owner = User
      \/ /\ ability[i].owner # User
         /\ Priority[ability[i].owner] <= Priority[ability[j].owner]
=============================================================================
