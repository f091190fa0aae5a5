-------------------------------- MODULE Schema --------------------------------
(***************************************************************************)
(* The foreign keys of prisma/schema.prisma: a row of model "from" names   *)
(* in "column" the id of a row of model "to".  Where "optional" holds the  *)
(* column may be null.                                                     *)
(***************************************************************************)
EXTENDS FiniteSets

Key(from, column, to) ==
  [from |-> from, column |-> column, to |-> to, optional |-> FALSE]
OptionalKey(from, column, to) ==
  [from |-> from, column |-> column, to |-> to, optional |-> TRUE]

\* Models AccessLog to Category.
LogKeys ==
  {Key("AccessLog", "userId", "User"),
   OptionalKey("Asset", "lastKnownHandlerId", "User"),
   OptionalKey("Asset", "parentId", "Asset"),
   OptionalKey("AuditLog", "userId", "User"),
   Key("BlogPost", "authorId", "Person"),
   OptionalKey("Category", "parentId", "Category")}

\* Models Credit to PersonRole.
PersonKeys ==
  {Key("Credit", "personId", "Person"),
   Key("Credit", "productionId", "Production"),
   OptionalKey("Group", "parentId", "Group"),
   Key("GroupPermission", "groupId", "Group"),
   OptionalKey("Person", "profilePictureId", "Image"),
   Key("PersonImage", "imageId", "Image"),
   Key("PersonImage", "personId", "Person"),
   Key("PersonRole", "personId", "Person"),
   Key("PersonRole", "roleId", "Role")}

\* Models Production to ProductionVideo.
ProductionKeys ==
  {OptionalKey("Production", "categoryId", "Category"),
   OptionalKey("Production", "thumbnailId", "Image"),
   Key("ProductionImage", "imageId", "Image"),
   Key("ProductionImage", "productionId", "Production"),
   Key("ProductionRSVP", "productionId", "Production"),
   Key("ProductionRSVP", "userId", "User"),
   Key("ProductionTag", "productionId", "Production"),
   Key("ProductionVideo", "productionId", "Production"),
   Key("ProductionVideo", "videoId", "Video")}

\* Models User to VoteResponse.
UserKeys ==
  {OptionalKey("User", "personId", "Person"),
   Key("UserGroup", "groupId", "Group"),
   Key("UserGroup", "userId", "User"),
   Key("UserPermission", "userId", "User"),
   Key("VoteResponse", "userId", "User"),
   Key("VoteResponse", "voteId", "Vote")}

ForeignKeys == LogKeys \cup PersonKeys \cup ProductionKeys \cup UserKeys
=============================================================================
