------------------------------ MODULE Resolvers ------------------------------
(***************************************************************************)
(* What every resource of the API offers: its queries and mutations, each  *)
(* with the program of its awaited steps (MutationPrograms), and the       *)
(* fields that lead from its rows to rows of other resources.  There are   *)
(* two definitions for each resolver class, <subject>Operations and        *)
(* <subject>Relations.                                                     *)
(***************************************************************************)
EXTENDS MutationPrograms, Schema, Functions, TLC

ReadMethods == {"findMany", "findOne", "count"}

\* The template that the resolvers of tables follow.
TableOperations ==
  [findMany |-> ReadProgram, findOne |-> ReadProgram, create |-> CreateProgram,
   update |-> UpdateProgram, delete |-> DeleteProgram, count |-> ReadProgram]

\* Streams have no table and cannot be updated.
StreamPrograms ==
  [findMany |-> LocalReadProgram, findOne |-> LocalReadProgram,
   create |-> CreateStreamProgram, delete |-> DeleteStreamProgram,
   count |-> LocalReadProgram]

Only(programs, methods) == Restrict(programs, methods)
Without(programs, methods) == Restrict(programs, DOMAIN programs \ methods)

\* countedAs: the subject whose accessibleBy filter the count query uses.
Resolver(programs, countedAs) ==
  [programs |-> programs, countedAs |-> countedAs]

\* One(name, key, target): the row of target whose id is in the parent's key,
\* findFirst({ where: { id: parent.key } }), whatever accessibleBy says.
One(name, key, target) ==
  [kind |-> "one", name |-> name, key |-> key, target |-> target]

\* Many(name, key, target): the rows of target that have the parent's id in
\* their key, of those that accessibleBy lets the user find.
Many(name, key, target) ==
  [kind |-> "many", name |-> name, key |-> key, target |-> target]

-----------------------------------------------------------------------------
AccessLogOperations ==
  Resolver(Only(TableOperations, ReadMethods), "AccessLog")

AccessLogRelations ==
  {One("user", "userId", "User")}

AlertLogOperations == Resolver(TableOperations, "AlertLog")

AssetOperations == Resolver(TableOperations, "Asset")

AssetRelations ==
  {One("lastKnownHandler", "lastKnownHandlerId", "User"),
   One("parent", "parentId", "Asset"),
   Many("children", "parentId", "Asset")}

AuditLogOperations == Resolver(Only(TableOperations, ReadMethods), "AuditLog")

AuditLogRelations ==
  {One("user", "userId", "User")}

BlogPostOperations == Resolver(TableOperations, "BlogPost")

BlogPostRelations ==
  {One("author", "authorId", "Person")}

CategoryOperations == Resolver(TableOperations, "Category")

CategoryRelations ==
  {One("parent", "parentId", "Category"),
   Many("children", "parentId", "Category"),
   Many("productions", "categoryId", "Production")}

ContactSubmissionOperations ==
  Resolver([TableOperations EXCEPT !["create"] = CreateContactProgram], "ContactSubmission")

CreditOperations == Resolver(TableOperations, "Credit")

CreditRelations ==
  {One("person", "personId", "Person"),
   One("production", "productionId", "Production")}

GroupOperations == Resolver(TableOperations, "Group")

GroupRelations ==
  {One("parent", "parentId", "Group"),
   Many("permissions", "groupId", "GroupPermission"),
   Many("children", "parentId", "Group"),
   Many("users", "groupId", "UserGroup")}

GroupPermissionOperations == Resolver(TableOperations, "GroupPermission")

GroupPermissionRelations ==
  {One("group", "groupId", "Group")}

ImageOperations == Resolver(TableOperations, "Credit")

ImageRelations ==
  {Many("people", "imageId", "PersonImage"),
   Many("productions", "imageId", "ProductionImage"),
   Many("thumbnailFor", "thumbnailId", "Production"),
   Many("profilePictureFor", "profilePictureId", "Person")}

PersonOperations == Resolver(TableOperations, "Credit")

PersonRelations ==
  {Many("blogPosts", "authorId", "BlogPost"),
   Many("credits", "personId", "Credit"),
   Many("images", "personId", "PersonImage"),
   Many("roles", "personId", "PersonRole"),
   Many("users", "personId", "User"),
   One("profilePicture", "profilePictureId", "Image")}

PersonImageOperations ==
  Resolver(Without(TableOperations, {"findMany"}), "Credit")

PersonImageRelations ==
  {One("person", "personId", "Person"),
   One("image", "imageId", "Image")}

PersonRoleOperations == Resolver(TableOperations, "Credit")

PersonRoleRelations ==
  {One("person", "personId", "Person"),
   One("role", "roleId", "Role")}

ProductionOperations == Resolver(TableOperations, "Production")

ProductionRelations ==
  {One("category", "categoryId", "Category"),
   One("thumbnail", "thumbnailId", "Image"),
   Many("credits", "productionId", "Credit"),
   Many("images", "productionId", "ProductionImage"),
   Many("videos", "productionId", "ProductionVideo"),
   Many("rsvps", "productionId", "ProductionRSVP"),
   Many("tags", "productionId", "ProductionTag")}

ProductionImageOperations ==
  Resolver(Without(TableOperations, {"findMany"}), "ProductionImage")

ProductionImageRelations ==
  {One("production", "productionId", "Production"),
   One("image", "imageId", "Image")}

ProductionRSVPOperations == Resolver(TableOperations, "ProductionRSVP")

ProductionRSVPRelations ==
  {One("production", "productionId", "Production"),
   One("user", "userId", "User")}

ProductionTagOperations ==
  Resolver(Without(TableOperations, {"update"}), "ProductionTag")

ProductionTagRelations ==
  {One("production", "productionId", "Production")}

ProductionVideoOperations ==
  Resolver(Without(TableOperations, {"findMany"}), "ProductionVideo")

ProductionVideoRelations ==
  {One("production", "productionId", "Production"),
   One("video", "videoId", "Video")}

RedirectOperations == Resolver(TableOperations, "Credit")

RoleOperations == Resolver(TableOperations, "Credit")

RoleRelations ==
  {Many("people", "roleId", "PersonRole")}

StreamOperations == Resolver(StreamPrograms, "Stream")

\* self answers with the session's user.
UserOperations ==
  Resolver(TableOperations @@ ("self" :> LocalReadProgram), "User")

UserRelations ==
  {One("person", "personId", "Person"),
   Many("accessLogs", "userId", "AccessLog"),
   Many("checkedOutAssets", "lastKnownHandlerId", "Asset"),
   Many("auditLogs", "userId", "AuditLog"),
   Many("productionRsvps", "userId", "ProductionRSVP"),
   Many("groups", "userId", "UserGroup"),
   Many("permissions", "userId", "UserPermission"),
   Many("voteResponses", "userId", "VoteResponse")}

UserGroupOperations ==
  Resolver(Without(TableOperations, {"findMany", "update"}), "UserGroup")

UserGroupRelations ==
  {One("user", "userId", "User"),
   One("group", "groupId", "Group")}

UserPermissionOperations ==
  Resolver(TableOperations @@ ("permissionsFor" :> PermissionsForProgram),
           "UserPermission")

UserPermissionRelations ==
  {One("user", "userId", "User")}

VideoOperations == Resolver(TableOperations, "Credit")

VideoRelations ==
  {Many("productions", "videoId", "ProductionVideo")}

VoteOperations == Resolver(TableOperations, "Credit")

VoteRelations ==
  {Many("responses", "voteId", "VoteResponse")}

VoteResponseOperations == Resolver(TableOperations, "VoteResponse")

VoteResponseRelations ==
  {One("user", "userId", "User"),
   One("vote", "voteId", "Vote")}

-----------------------------------------------------------------------------
Operations ==
  [AccessLog |-> AccessLogOperations,
   AlertLog |-> AlertLogOperations,
   Asset |-> AssetOperations,
   AuditLog |-> AuditLogOperations,
   BlogPost |-> BlogPostOperations,
   Category |-> CategoryOperations,
   ContactSubmission |-> ContactSubmissionOperations,
   Credit |-> CreditOperations,
   Group |-> GroupOperations,
   GroupPermission |-> GroupPermissionOperations,
   Image |-> ImageOperations,
   Person |-> PersonOperations,
   PersonImage |-> PersonImageOperations,
   PersonRole |-> PersonRoleOperations,
   Production |-> ProductionOperations,
   ProductionImage |-> ProductionImageOperations,
   ProductionRSVP |-> ProductionRSVPOperations,
   ProductionTag |-> ProductionTagOperations,
   ProductionVideo |-> ProductionVideoOperations,
   Redirect |-> RedirectOperations,
   Role |-> RoleOperations,
   Stream |-> StreamOperations,
   User |-> UserOperations,
   UserGroup |-> UserGroupOperations,
   UserPermission |-> UserPermissionOperations,
   Video |-> VideoOperations,
   Vote |-> VoteOperations,
   VoteResponse |-> VoteResponseOperations]

Relations ==
  [AccessLog |-> AccessLogRelations,
   AlertLog |-> {},
   Asset |-> AssetRelations,
   AuditLog |-> AuditLogRelations,
   BlogPost |-> BlogPostRelations,
   Category |-> CategoryRelations,
   ContactSubmission |-> {},
   Credit |-> CreditRelations,
   Group |-> GroupRelations,
   GroupPermission |-> GroupPermissionRelations,
   Image |-> ImageRelations,
   Person |-> PersonRelations,
   PersonImage |-> PersonImageRelations,
   PersonRole |-> PersonRoleRelations,
   Production |-> ProductionRelations,
   ProductionImage |-> ProductionImageRelations,
   ProductionRSVP |-> ProductionRSVPRelations,
   ProductionTag |-> ProductionTagRelations,
   ProductionVideo |-> ProductionVideoRelations,
   Redirect |-> {},
   Role |-> RoleRelations,
   Stream |-> {},
   User |-> UserRelations,
   UserGroup |-> UserGroupRelations,
   UserPermission |-> UserPermissionRelations,
   Video |-> VideoRelations,
   Vote |-> VoteRelations,
   VoteResponse |-> VoteResponseRelations]

Subject == DOMAIN Operations

\* The relation fields are those the database has keys for: each leads along
\* a foreign key, and each foreign key can be followed both ways.
ASSUME RelationsFollowKeys ==
  /\ \A s \in Subject : \A r \in Relations[s] :
       \E k \in ForeignKeys :
         /\ k.column = r.key
         /\ r.kind = "one" => k.from = s /\ k.to = r.target
         /\ r.kind = "many" => k.from = r.target /\ k.to = s
  /\ \A k \in ForeignKeys :
       /\ \E r \in Relations[k.from] :
            r.kind = "one" /\ r.key = k.column /\ r.target = k.to
       /\ \E r \in Relations[k.to] :
            r.kind = "many" /\ r.key = k.column /\ r.target = k.from

\* A type has one field of a name.
ASSUME FieldNamesAreUnique ==
  \A s \in Subject : \A r1, r2 \in Relations[s] : r1.name = r2.name => r1 = r2

\* No resolver runs a program that RequestTx does not know, and every
\* program is some resolver's.
ASSUME ProgramsAreUsed ==
  UNION {Range(Operations[s].programs) : s \in Subject} = AllPrograms
=============================================================================
