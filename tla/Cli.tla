-------------------------------- MODULE Cli --------------------------------
(***************************************************************************)
(* The command line tool that sets a new installation up, beside a server  *)
(* that may already be running: `groups` makes the groups that the rest of *)
(* the code finds by name, with ids it chooses itself, and `user` makes    *)
(* the first administrator.  Both first count the users and then work for  *)
(* a while, statement by statement and prompt by prompt.                   *)
(***************************************************************************)
EXTENDS Naturals, Sequences, FiniteSets, DefaultRules

CONSTANTS
  Users,        \* users, by their unique names
  Shells,       \* runs of the tool
  Other,        \* any name but those of the groups that `groups` makes
  MaxGroup,     \* bound: the last id that the sequence of groups hands out
  None

\* The groups that `groups` makes, by the ids it chooses.
DefaultName == <<"Guest", "Member", "Admin">>
Default == 1 .. Len(DefaultName)
Names == {DefaultName[k] : k \in Default} \cup {Other}

ASSUME NamesAssumption == Other \notin {DefaultName[k] : k \in Default}
ASSUME NoneAssumption == None \notin Names
ASSUME MaxGroupAssumption == MaxGroup \in Nat /\ MaxGroup >= Len(DefaultName)

VARIABLES
  accounts,    \* table users
  groups,      \* table groups: the name under each id
  nextGroup,   \* the sequence of groups.id
  collisions,  \* calls of createGroup that the sequence made fail
  removed,     \* ids that the server has deleted: no part of the code
  shell        \* what each run is at

vars == <<accounts, groups, nextGroup, collisions, removed, shell>>

GroupIds == 1 .. MaxGroup
Exists(id) == groups[id] # None
At(stage, id) == [stage |-> stage, id |-> id]
Idle == At("idle", 0)
Gone == At("gone", 0)

Init ==
  /\ accounts = {} /\ groups = [id \in GroupIds |-> None]
  /\ nextGroup = 1 /\ collisions = 0 /\ removed = {}
  /\ shell = [s \in Shells |-> Idle]

Goto(s, where) == shell' = [shell EXCEPT ![s] = where]

\* After the group with this id comes the next one, or the prompt.
Onward(id) == IF id < Len(DefaultName) THEN At("look", id + 1) ELSE Idle

-----------------------------------------------------------------------------
(* groups                                                                  *)

\* With users > 0 the command only prints its refusal.
GroupsCommand(s) ==
  /\ shell[s] = Idle /\ accounts = {}
  /\ Goto(s, At("look", 1))
  /\ UNCHANGED <<accounts, groups, nextGroup, collisions, removed>>

\* The command ends at a group that exists.
GetGroup_Bug(s) ==
  /\ shell[s].stage = "look"
  /\ Goto(s, IF Exists(shell[s].id) THEN Idle ELSE At("insert", shell[s].id))
  /\ UNCHANGED <<accounts, groups, nextGroup, collisions, removed>>

\* getGroup(id): a group that exists is left as it is.
GetGroup(s) ==
  /\ shell[s].stage = "look"
  /\ Goto(s, IF Exists(shell[s].id) THEN Onward(shell[s].id)
             ELSE At("insert", shell[s].id))
  /\ UNCHANGED <<accounts, groups, nextGroup, collisions, removed>>

\* The id is left to the sequence.
CreateGroup_Bug(s) ==
  LET id == shell[s].id
  IN  /\ shell[s].stage = "insert" /\ nextGroup < MaxGroup
      /\ groups' = [groups EXCEPT ![nextGroup] = DefaultName[id]]
      /\ nextGroup' = nextGroup + 1
      /\ Goto(s, Onward(id))
      /\ UNCHANGED <<accounts, collisions, removed>>

\* group.create with its permissions, in one statement.  The primary key may
\* have been taken meanwhile; the rejection ends the process.
CreateGroup(s) ==
  LET id == shell[s].id
  IN  /\ shell[s].stage = "insert"
      /\ \/ /\ ~Exists(id)
            /\ groups' = [groups EXCEPT ![id] = DefaultName[id]]
            /\ Goto(s, Onward(id))
         \/ /\ Exists(id)
            /\ Goto(s, Gone)
            /\ UNCHANGED groups
      /\ UNCHANGED <<accounts, nextGroup, collisions, removed>>

-----------------------------------------------------------------------------
(* user                                                                    *)

\* It counts the users first, too.
UserCommand(s) ==
  /\ shell[s] = Idle /\ accounts = {}
  /\ Goto(s, At("seek", 0))
  /\ UNCHANGED <<accounts, groups, nextGroup, collisions, removed>>

\* getGroup("Admin"): with a group of that name the command asks for name,
\* password and mail, without one it is over.
GetAdminGroup(s) ==
  /\ shell[s].stage = "seek"
  /\ \/ \E id \in GroupIds :
          /\ groups[id] = "Admin"
          /\ Goto(s, At("asking", id))
     \/ /\ \A id \in GroupIds : groups[id] # "Admin"
        /\ Goto(s, Idle)
  /\ UNCHANGED <<accounts, groups, nextGroup, collisions, removed>>

\* user.create with its membership, in one statement; a name that is taken, or
\* a group that is gone by now, ends the process.
CreateUser(s, u) ==
  /\ shell[s].stage = "asking"
  /\ \/ /\ u \notin accounts /\ Exists(shell[s].id)
        /\ accounts' = accounts \cup {u}
        /\ Goto(s, Idle)
     \/ /\ u \in accounts \/ ~Exists(shell[s].id)
        /\ Goto(s, Gone)
        /\ UNCHANGED accounts
  /\ UNCHANGED <<groups, nextGroup, collisions, removed>>

\* exit, or an interrupt at any time.
Exit(s) ==
  /\ shell[s] # Gone
  /\ Goto(s, Gone)
  /\ UNCHANGED <<accounts, groups, nextGroup, collisions, removed>>

-----------------------------------------------------------------------------
(* The server, once there is a user who may ask it.                        *)

\* A statement that fails gives its id back.
ServerCreatesGroup_Bug ==
  /\ accounts # {} /\ nextGroup < MaxGroup
  /\ IF Exists(nextGroup)
     THEN collisions' = collisions + 1 /\ UNCHANGED <<groups, nextGroup>>
     ELSE /\ groups' = [groups EXCEPT ![nextGroup] = Other]
          /\ nextGroup' = nextGroup + 1
          /\ UNCHANGED collisions
  /\ collisions <= Len(DefaultName)
  /\ UNCHANGED <<accounts, removed, shell>>

\* createGroup leaves the id to the sequence, which knows nothing of the ids
\* that the tool chose and moves on when the statement fails.
ServerCreatesGroup ==
  /\ accounts # {} /\ nextGroup < MaxGroup
  /\ IF Exists(nextGroup)
     THEN collisions' = collisions + 1 /\ UNCHANGED groups
     ELSE /\ groups' = [groups EXCEPT ![nextGroup] = Other]
          /\ UNCHANGED collisions
  /\ nextGroup' = nextGroup + 1
  /\ UNCHANGED <<accounts, removed, shell>>

\* updateGroup gives a group another name.
ServerRenamesGroup(id) ==
  /\ accounts # {} /\ Exists(id)
  /\ groups' = [groups EXCEPT ![id] = Other]
  /\ UNCHANGED <<accounts, nextGroup, collisions, removed, shell>>

\* deleteGroup, once its permissions and members have been taken away.
ServerDeletesGroup(id) ==
  /\ accounts # {} /\ Exists(id)
  /\ groups' = [groups EXCEPT ![id] = None]
  /\ removed' = removed \cup {id}
  /\ UNCHANGED <<accounts, nextGroup, collisions, shell>>

\* deleteUser: an account that nothing refers to any more.
ServerDeletesUser(u) ==
  /\ u \in accounts
  /\ accounts' = accounts \ {u}
  /\ UNCHANGED <<groups, nextGroup, collisions, removed, shell>>

Next ==
  \/ \E s \in Shells :
       \/ GroupsCommand(s) \/ GetGroup(s) \/ CreateGroup(s)
       \/ UserCommand(s) \/ GetAdminGroup(s) \/ (\E u \in Users : CreateUser(s, u)) \/ Exit(s)
  \/ ServerCreatesGroup
  \/ \E id \in GroupIds : ServerRenamesGroup(id) \/ ServerDeletesGroup(id)
  \/ \E u \in Users : ServerDeletesUser(u)

Spec == Init /\ [][Next]_vars

-----------------------------------------------------------------------------
(* Properties.                                                             *)

\* Every variable has its type.
TypeOK ==
  /\ accounts \subseteq Users
  /\ groups \in [GroupIds -> Names \cup {None}]
  /\ nextGroup \in GroupIds
  /\ collisions \in 0 .. MaxGroup /\ removed \subseteq GroupIds
  /\ shell \in [Shells -> [stage : {"idle", "look", "insert", "seek", "asking", "gone"},
                           id : 0 .. MaxGroup]]

\* Group names are not unique in the table, and Guest and Admin are found by
\* name: runs of the tool that race each other and the server still make one
\* group of each name.
DefaultGroupsOnce ==
  \A i, j \in GroupIds :
    (groups[i] = groups[j] /\ Exists(i) /\ groups[i] # Other) => i = j

\* A `groups` command that comes to its end leaves all its groups there,
\* although an earlier one may have been interrupted halfway and another may
\* be running, or the server have made groups meanwhile; but for those that
\* the server has deleted since.
GroupsCommandCompletes ==
  [][\A s \in Shells :
       (shell[s].stage \in {"look", "insert"} /\ shell'[s] = Idle) =>
         \A id \in Default : groups'[id] # None \/ id \in removed']_vars

\* The ids that the tool chose make createGroup fail, but not more often than
\* there are such ids.
CollisionsEnd == collisions <= Len(DefaultName)

\* The rules of a group that no rule of another covers.
Lost(from, to) ==
  {rule \in RulesOf[from] : \A other \in RulesOf[to] : ~Covers(other, rule)}

\* What logging in costs.  The lists of rules are typed separately and a member
\* is in no other group, so everything that a guest may do has to be repeated
\* for members.  All of it is but one: a guest may write to the contact form,
\* a member may not.
LoginCostsOnlyContact ==
  \A i, j \in GroupIds :
    (groups[i] = "Guest" /\ groups[j] = "Member") =>
      {<<rule.action, rule.subject>> : rule \in Lost(groups[i], groups[j])}
        = {<<"create", "ContactSubmission">>}
=============================================================================
