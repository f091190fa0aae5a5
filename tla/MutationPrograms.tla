-------------------------- MODULE MutationPrograms --------------------------
(***************************************************************************)
(* The shapes of the resolver methods.  A GraphQL root field runs a fixed  *)
(* list of awaited steps; the list is the program that RequestTx executes  *)
(* under its transaction and RowHistory executes against one row.          *)
(*                                                                         *)
(*   rules     checks of the @Rule handler before the resolver is called   *)
(*   validate  class-validator on the plain input                          *)
(*   find      SELECT of the row, narrowed by accessibleBy                 *)
(*   check     permissions.can on the row that was found                   *)
(*   write     INSERT, UPDATE or DELETE                                    *)
(*   audit     genAuditLog                                                 *)
(*   notify    message to Discord or RabbitMQ                              *)
(*   outside   queries on the base client, not on the request transaction  *)
(*   verify    checks of the @Rule handler on the value returned           *)
(***************************************************************************)
EXTENDS Sequences

Stage == {"rules", "validate", "find", "check", "write", "audit", "notify",
          "outside", "verify"}

\* Stages that run a statement on ctx.req.prismaTx.
TxStage == {"find", "write", "audit"}

\* createX of every table-backed resource.
CreateProgram == <<"rules", "validate", "write", "audit", "verify">>

\* updateX: the row is read and checked before it is written.
UpdateProgram ==
  <<"rules", "validate", "find", "check", "write", "audit", "verify">>

\* deleteX: no input, so nothing to validate.
DeleteProgram == <<"rules", "find", "check", "write", "audit", "verify">>

\* createContactSubmission posts to Discord after its audit entry.
CreateContactProgram ==
  <<"rules", "validate", "write", "audit", "notify", "verify">>

\* createStream and deleteStream have no table: the command to the stream
\* worker is their only effect, and it goes out before the audit entry.
CreateStreamProgram == <<"rules", "validate", "notify", "audit", "verify">>
DeleteStreamProgram == <<"rules", "check", "notify", "audit", "verify">>

\* findOneX, findManyX and xCount.
ReadProgram == <<"rules", "find", "verify">>

\* Streams are kept in memory, and self answers with req.user.
LocalReadProgram == <<"rules", "verify">>

\* permissionsFor finds the user in the transaction, then asks the ability
\* factory, whose queries go through the base client.
PermissionsForProgram == <<"rules", "find", "outside", "verify">>

QueryPrograms == {ReadProgram, LocalReadProgram, PermissionsForProgram}
WritingPrograms ==
  {CreateProgram, UpdateProgram, DeleteProgram, CreateContactProgram,
   CreateStreamProgram, DeleteStreamProgram}
AllPrograms == QueryPrograms \cup WritingPrograms
=============================================================================
