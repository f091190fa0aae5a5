---------------------------- MODULE DefaultRules ----------------------------
(***************************************************************************)
(* The permissions that the command line tool gives to the groups it makes.*)
(* They are lists typed by hand, one for each group, and no group inherits *)
(* another's.  A rule is                                                   *)
(*                                                                         *)
(*   [action, subject, fields (All: no list), when]                        *)
(*                                                                         *)
(* where when names its condition: postedAt lte $now, expires gt $now or   *)
(* null, groupId in $groups, or userId equal to $id.                       *)
(***************************************************************************)
All == {"*"}

Rule(action, subject, fields, when) ==
  [action |-> action, subject |-> subject, fields |-> fields, when |-> when]

\* One rule for each subject in the domain of fields.
Each(action, fields) ==
  {Rule(action, subject, fields[subject], "always") : subject \in DOMAIN fields}
Whole(action, subjects, when) ==
  {Rule(action, subject, All, when) : subject \in subjects}

\* The fields of each subject that a group may filter or sort by.
GuestFilters ==
  [ProductionImage |-> {"productionId", "imageId"},
   PersonRole |-> {"personId", "roleId"},
   Production |-> {"name", "description", "startTime", "endTime", "category"},
   Person |-> {"name", "graduation"},
   Role |-> {"name", "displayInMembership", "displayInLeadership"},
   Video |-> {"name"},
   Category |-> {"name", "priority", "parentId"},
   Credit |-> {"personId", "productionId"},
   ProductionVideo |-> {"productionId", "videoId"},
   PersonImage |-> {"personId", "imageId"},
   BlogPost |-> {"authorId", "authorDisplayName", "title", "content"},
   ProductionTag |-> {"productionId", "tag"}]

MemberFilters ==
  [Production |-> {"name", "description", "startTime", "endTime", "category",
                   "closetLocation", "closetTime", "teamNotes"},
   Role |-> {"name", "displayInMembership", "displayInLeadership"},
   Video |-> {"name"},
   ProductionRSVP |-> {"productionId"},
   VoteResponse |-> {"voteId"},
   AccessLog |-> {"ip", "timestamp", "service"},
   BlogPost |-> {"authorId", "authorDisplayName", "title", "content"},
   Credit |-> {"personId", "productionId"},
   Person |-> {"name", "graduation"},
   PersonImage |-> {"personId", "imageId"},
   PersonRole |-> {"personId", "roleId"},
   ProductionImage |-> {"productionId", "imageId"},
   Category |-> {"name", "priority", "parentId"},
   ProductionTag |-> {"productionId", "tag"},
   ProductionVideo |-> {"productionId", "videoId"}]

GuestReads ==
  Whole("read", {"GroupPermission"}, "own groups")
    \cup Whole("read", {"BlogPost"}, "posted")
    \cup Whole("read", {"Category", "Credit", "Image", "Person", "PersonImage",
                        "PersonRole", "ProductionImage", "ProductionTag",
                        "ProductionVideo", "Role", "Video"}, "always")
    \cup {Rule("read", "Redirect", {"key", "location", "id"}, "unexpired"),
          Rule("read", "Production",
               {"id", "name", "description", "startTime", "endTime", "category",
                "eventLocation", "thumbnail"}, "always")}

\* What is public for guests was not repeated for members.
MemberReads_Bug ==
  Whole("read", {"GroupPermission"}, "own groups")
    \cup Whole("read", {"ProductionRSVP", "Production"}, "always")
    \cup Whole("read", {"UserPermission", "AccessLog", "VoteResponse", "UserGroup",
                        "User"}, "own")

MemberReads ==
  {Rule("read", "Vote", {"question", "options", "description", "expires"}, "always")}
    \cup Whole("read", {"GroupPermission"}, "own groups")
    \cup Whole("read", {"BlogPost"}, "posted")
    \cup Whole("read", {"Category", "Credit", "Image", "Person", "PersonImage",
                        "PersonRole", "ProductionImage", "ProductionRSVP",
                        "ProductionTag", "ProductionVideo", "Role", "Video",
                        "Production"}, "always")
    \cup {Rule("read", "Redirect", {"key", "location", "id"}, "unexpired")}
    \cup Whole("read", {"UserPermission", "AccessLog", "VoteResponse", "UserGroup",
                        "User"}, "own")

GuestSorts ==
  [BlogPost |-> {"postedAt", "title"}, Role |-> {"name", "priority"},
   Production |-> {"name", "startTime", "endTime"}, Category |-> {"name", "priority"},
   PersonRole |-> {"startTime", "endTime"}, ProductionVideo |-> {"priority"},
   ProductionTag |-> {"tag"}, ProductionImage |-> {"priority"},
   PersonImage |-> {"priority"}, Person |-> {"name", "graduation"},
   Image |-> {"name"}, Credit |-> {"priority", "title"}, Video |-> {"name"}]

MemberSorts ==
  [AccessLog |-> {"ip", "timestamp", "service"}, Category |-> {"name", "priority"},
   Credit |-> {"priority", "title"}, Image |-> {"name"},
   Person |-> {"name", "graduation"}, PersonImage |-> {"priority"},
   PersonRole |-> {"startTime", "endTime"}, ProductionImage |-> {"priority"},
   ProductionTag |-> {"tag"}, ProductionVideo |-> {"priority"},
   Production |-> {"name", "startTime", "endTime"}, Role |-> {"name", "priority"},
   Video |-> {"name"}, VoteResponse |-> {"selection", "timestamp"},
   BlogPost |-> {"postedAt", "title"}]

GuestWrites ==
  {Rule("create", "ContactSubmission", {"email", "name", "subject", "body"}, "always")}

MemberWrites ==
  Whole("create", {"ProductionRSVP", "VoteResponse"}, "own")
    \cup Whole("delete", {"VoteResponse"}, "own")
    \cup Whole("update", {"VoteResponse", "ProductionRSVP"}, "own")
    \cup {Rule("update", "User", {"mail", "password"}, "own")}

\* The rules of each group that the tool makes.
RulesOf ==
  [Guest |-> Each("filter", GuestFilters) \cup GuestReads
               \cup Each("sort", GuestSorts) \cup GuestWrites,
   Member |-> Each("filter", MemberFilters) \cup MemberReads
                \cup Each("sort", MemberSorts) \cup MemberWrites,
   Admin |-> {Rule("manage", "all", All, "always")}]

\* CASL's manage and all stand for every action and every subject.
Covers(a, b) ==
  /\ a.action \in {b.action, "manage"} /\ a.subject \in {b.subject, "all"}
  /\ a.fields = All \/ b.fields \subseteq a.fields
  /\ a.when \in {b.when, "always"}
=============================================================================
