------------------------------ MODULE RequestTx ------------------------------
(***************************************************************************)
(* GraphQL operations, each inside an interactive Prisma transaction that  *)
(* PrismaPlugin opens when the operation arrives and ends just before the  *)
(* response is sent.  CaslPlugin generates req.permissions over a second   *)
(* connection of the same pool.  Resolvers reach the transaction through   *)
(* the mutable field req.prismaTx, re-read at every statement.             *)
(*                                                                         *)
(* An operation is one entry of an HTTP request: Apollo accepts an array   *)
(* of operations in one request and gives each a shallow copy of the       *)
(* context, so the entries of one array share the request object.  ReqOf   *)
(* says which request object an operation sees.                            *)
(*                                                                         *)
(* The order in which the GraphQL server starts the two plugins is not     *)
(* fixed by this code; the model allows both orders and their overlap.     *)
(***************************************************************************)
EXTENDS Naturals, FiniteSets, MutationPrograms

CONSTANTS
  Ops,          \* GraphQL operations
  HttpReqs,     \* express request objects
  ReqOf,        \* [Ops -> HttpReqs]
  Queries,      \* programs of query fields
  Mutations,    \* programs of mutation fields
  MaxFields,    \* bound: root fields of one mutation document
  PoolSize,     \* connections of the Prisma pool
  MaxCrashes,   \* bound: crashes of the process that nothing here causes
  NoTx          \* req.prismaTx before a transaction is bound

Programs == Queries \cup Mutations

ASSUME ReqOfAssumption == ReqOf \in [Ops -> HttpReqs]
ASSUME ProgramAssumption ==
  /\ Programs \subseteq Seq(Stage)
  /\ \A p \in Programs : Len(p) > 0
ASSUME BoundAssumption ==
  /\ MaxFields \in Nat \ {0}
  /\ PoolSize \in Nat \ {0}
  /\ MaxCrashes \in Nat
ASSUME NoTxAssumption == NoTx \notin Ops

\* Every resolver that writes a row awaits its audit entry next.
ASSUME AuditFollowsWrite ==
  \A p \in Programs : \A i \in 1 .. Len(p) :
    p[i] = "write" => i < Len(p) /\ p[i + 1] = "audit"

VARIABLES
  phase,      \* life of the operation
  prog,       \* program of the root field being resolved
  field,      \* its position in the document
  step,       \* position in the program
  outcome,    \* what the response says
  txn,        \* the transaction PrismaPlugin opened for the operation
  spoiled,    \* a statement failed in it: PostgreSQL ignores the rest
  pending,    \* effects of its statements
  bound,      \* req.prismaTx, named by the operation that opened it
  permitted,  \* req.permissions is set
  side,       \* the operation's use of a second connection
  store,      \* committed effects
  crashes

vars == <<phase, prog, field, step, outcome, txn, spoiled, pending, bound,
          permitted, side, store, crashes>>

Phase == {"idle", "starting", "resolving", "finishing", "answered", "lost"}
TxnState == {"none", "waiting", "open", "ended", "committed", "rolledback"}
SideState == {"unused", "waiting", "reading", "done"}
Outcome == {"none", "ok", "forbidden", "error"}
Effect == [op : Ops, field : 1 .. MaxFields, kind : {"row", "audit"}]

Row(o, f) == [op |-> o, field |-> f, kind |-> "row"]
Audit(o, f) == [op |-> o, field |-> f, kind |-> "audit"]

\* The operation's place in its document and its response.
PlaceOK ==
  /\ phase \in [Ops -> Phase]
  /\ prog \in [Ops -> Programs]
  /\ field \in [Ops -> 1 .. MaxFields]
  /\ step \in [Ops -> Nat \ {0}]
  /\ \A o \in Ops : step[o] <= Len(prog[o])
  /\ outcome \in [Ops -> Outcome]

\* What it holds, shares and leaves behind.
ResourcesOK ==
  /\ txn \in [Ops -> TxnState]
  /\ spoiled \in [Ops -> BOOLEAN]
  /\ pending \in [Ops -> SUBSET Effect]
  /\ bound \in [HttpReqs -> Ops \cup {NoTx}]
  /\ permitted \in [HttpReqs -> BOOLEAN]
  /\ side \in [Ops -> SideState]
  /\ store \in SUBSET Effect
  /\ crashes \in 0 .. MaxCrashes

\* Every variable has its type, and a program never runs past its end.
TypeOK == PlaceOK /\ ResourcesOK

Init ==
  /\ phase = [o \in Ops |-> "idle"]
  /\ prog \in [Ops -> Programs]
  /\ field = [o \in Ops |-> 1]
  /\ step = [o \in Ops |-> 1]
  /\ outcome = [o \in Ops |-> "none"]
  /\ txn = [o \in Ops |-> "none"]
  /\ spoiled = [o \in Ops |-> FALSE]
  /\ pending = [o \in Ops |-> {}]
  /\ bound = [q \in HttpReqs |-> NoTx]
  /\ permitted = [q \in HttpReqs |-> FALSE]
  /\ side = [o \in Ops |-> "unused"]
  /\ store = {}
  /\ crashes = 0

-----------------------------------------------------------------------------
(* The connection pool.                                                    *)

InTx == {o \in Ops : txn[o] \in {"open", "ended"}}
OnSide == {o \in Ops : side[o] = "reading"}
ConnectionFree == Cardinality(InTx) + Cardinality(OnSide) < PoolSize

\* The transaction statements of o run on, and whether they can succeed.
Tx(o) == bound[ReqOf[o]]
Usable(t) == t \in Ops /\ txn[t] = "open" /\ ~spoiled[t]

At(o, stages) == phase[o] = "resolving" /\ prog[o][step[o]] \in stages

\* Variables of the resolver program, and all the others.
position == <<prog, field, step>>
connection == <<txn, bound, permitted, side>>
environment == <<store, crashes>>

-----------------------------------------------------------------------------
(* PrismaPlugin and CaslPlugin: requestDidStart.                           *)
(* An operator whose name ends in _Bug is a wrong form of the one it       *)
(* precedes; no specification uses it.                                     *)

\* The operation reaches the plugins.  CaslPlugin has nothing to do when an
\* earlier operation on the same request generated the permissions.
Arrive(o) ==
  /\ phase[o] = "idle"
  /\ phase' = [phase EXCEPT ![o] = "starting"]
  /\ txn' = [txn EXCEPT ![o] = "waiting"]
  /\ side' = [side EXCEPT ![o] =
                IF permitted[ReqOf[o]] THEN "done" ELSE "waiting"]
  /\ UNCHANGED <<position, outcome, spoiled, pending, bound, permitted,
                 environment>>

\* The transaction is kept on the service, not on the request.
TxStart_Bug(o) ==
  /\ txn[o] = "waiting"
  /\ ConnectionFree
  /\ txn' = [txn EXCEPT ![o] = "open"]
  /\ bound' = [q \in HttpReqs |-> o]
  /\ UNCHANGED <<phase, position, outcome, spoiled, pending, permitted, side,
                 environment>>

\* $transaction got a connection and called back: req.prismaTx = tx.
TxStart(o) ==
  /\ txn[o] = "waiting"
  /\ ConnectionFree
  /\ txn' = [txn EXCEPT ![o] = "open"]
  /\ bound' = [bound EXCEPT ![ReqOf[o]] = o]
  /\ UNCHANGED <<phase, position, outcome, spoiled, pending, permitted, side,
                 environment>>

\* A query on the base client got a connection.
SideAcquire(o) ==
  /\ side[o] = "waiting"
  /\ ConnectionFree
  /\ side' = [side EXCEPT ![o] = "reading"]
  /\ UNCHANGED <<phase, position, outcome, txn, spoiled, pending, bound,
                 permitted, environment>>

\* CaslPlugin stores the ability it was given.
PermissionsReady(o) ==
  /\ side[o] = "reading"
  /\ phase[o] = "starting"
  /\ side' = [side EXCEPT ![o] = "done"]
  /\ permitted' = [permitted EXCEPT ![ReqOf[o]] = TRUE]
  /\ UNCHANGED <<phase, position, outcome, txn, spoiled, pending, bound,
                 environment>>

\* createForUser rejects: no connection in time, or a failing query.  The
\* hook rejects, so Apollo answers without ever calling willSendResponse.
PermissionsFail(o) ==
  /\ phase[o] = "starting"
  /\ \/ side[o] = "waiting" /\ ~ConnectionFree
     \/ side[o] = "reading"
  /\ side' = [side EXCEPT ![o] = "done"]
  /\ phase' = [phase EXCEPT ![o] = "answered"]
  /\ outcome' = [outcome EXCEPT ![o] = "error"]
  /\ UNCHANGED <<position, txn, spoiled, pending, bound, permitted,
                 environment>>

\* Execution begins when the transaction is there.
Begin_Bug(o) ==
  /\ phase[o] = "starting"
  /\ txn[o] \notin {"none", "waiting"}
  /\ phase' = [phase EXCEPT ![o] = "resolving"]
  /\ UNCHANGED <<position, outcome, connection, spoiled, pending,
                 environment>>

\* Both hooks have returned; execution of the document begins.
Begin(o) ==
  /\ phase[o] = "starting"
  /\ side[o] = "done"
  /\ txn[o] \notin {"none", "waiting"}
  /\ phase' = [phase EXCEPT ![o] = "resolving"]
  /\ UNCHANGED <<position, outcome, connection, spoiled, pending,
                 environment>>

-----------------------------------------------------------------------------
(* Resolvers.                                                              *)

\* The resolver or its rule handler reaches its next awaited step.
Continue(o) ==
  /\ step[o] < Len(prog[o])
  /\ step' = [step EXCEPT ![o] = @ + 1]
  /\ UNCHANGED <<phase, prog, field, outcome>>

\* The last root field is done.
Finish(o) ==
  /\ step[o] = Len(prog[o])
  /\ phase' = [phase EXCEPT ![o] = "finishing"]
  /\ outcome' = [outcome EXCEPT ![o] = "ok"]
  /\ UNCHANGED position

\* Root fields of a mutation run one after the other.
NextField(o) ==
  /\ step[o] = Len(prog[o])
  /\ prog[o] \in Mutations
  /\ field[o] < MaxFields
  /\ \E p \in Mutations : prog' = [prog EXCEPT ![o] = p]
  /\ field' = [field EXCEPT ![o] = @ + 1]
  /\ step' = [step EXCEPT ![o] = 1]
  /\ UNCHANGED <<phase, outcome>>

\* The document ends one step late.
NextStep_Bug(o) ==
  \/ /\ step' = [step EXCEPT ![o] = @ + 1]
     /\ UNCHANGED <<phase, prog, field, outcome>>
  \/ Finish(o) \/ NextField(o)

NextStep(o) == Continue(o) \/ Finish(o) \/ NextField(o)

\* A root field of a mutation is non-null: its error nulls the whole result
\* and the fields after it are not executed.
Throw(o, error) ==
  /\ phase' = [phase EXCEPT ![o] = "finishing"]
  /\ outcome' = [outcome EXCEPT ![o] = error]
  /\ UNCHANGED position

\* Steps that touch no database row of this model.
Pass(o) ==
  /\ At(o, {"rules", "validate", "check", "notify", "verify"})
  /\ NextStep(o)
  /\ UNCHANGED <<connection, spoiled, pending, environment>>

\* A rule said no: before the resolver, inside it, or on its result.
Forbid(o) ==
  /\ At(o, {"rules", "check", "verify"})
  /\ Throw(o, "forbidden")
  /\ UNCHANGED <<connection, spoiled, pending, environment>>

\* The input is invalid or the row is not found.
BadRequest(o) ==
  /\ At(o, {"validate", "find"})
  /\ Throw(o, "error")
  /\ UNCHANGED <<connection, spoiled, pending, environment>>

\* Discord or RabbitMQ cannot be reached.
NotifyFails(o) ==
  /\ At(o, {"notify"})
  /\ Throw(o, "error")
  /\ UNCHANGED <<connection, spoiled, pending, environment>>

Find(o) ==
  /\ At(o, {"find"})
  /\ Usable(Tx(o))
  /\ NextStep(o)
  /\ UNCHANGED <<connection, spoiled, pending, environment>>

Perform(o, effect) ==
  /\ Usable(Tx(o))
  /\ pending' = [pending EXCEPT ![Tx(o)] = @ \cup {effect}]
  /\ NextStep(o)
  /\ UNCHANGED <<connection, spoiled, environment>>

Write(o) == At(o, {"write"}) /\ Perform(o, Row(o, field[o]))

\* A resolver without its genAuditLog call.
WriteAudit_Bug(o) ==
  /\ At(o, {"audit"})
  /\ NextStep(o)
  /\ UNCHANGED <<connection, spoiled, pending, environment>>

WriteAudit(o) == At(o, {"audit"}) /\ Perform(o, Audit(o, field[o]))

\* The row vanished between find and write: Prisma throws P2025 without an
\* error in the database session.
RowGone(o) ==
  /\ At(o, {"write"})
  /\ Throw(o, "error")
  /\ UNCHANGED <<connection, spoiled, pending, environment>>

\* The resolver catches the error of the statement and goes on.
StatementFails_Bug(o) ==
  /\ At(o, TxStage)
  /\ Usable(Tx(o))
  /\ spoiled' = [spoiled EXCEPT ![Tx(o)] = TRUE]
  /\ NextStep(o)
  /\ UNCHANGED <<connection, pending, environment>>

\* PostgreSQL rejects the statement: unique or foreign key, out of range.
StatementFails(o) ==
  /\ At(o, TxStage)
  /\ Usable(Tx(o))
  /\ spoiled' = [spoiled EXCEPT ![Tx(o)] = TRUE]
  /\ Throw(o, "error")
  /\ UNCHANGED <<connection, pending, environment>>

\* The transaction is closed, or PostgreSQL ignores commands until its end.
TxUnusable(o) ==
  /\ At(o, TxStage)
  /\ ~Usable(Tx(o))
  /\ Throw(o, "error")
  /\ UNCHANGED <<connection, spoiled, pending, environment>>

\* A resolver queries the base client while its transaction stays open.
OutsideStart(o) ==
  /\ At(o, {"outside"})
  /\ side[o] = "done"
  /\ side' = [side EXCEPT ![o] = "waiting"]
  /\ UNCHANGED <<phase, position, outcome, txn, spoiled, pending, bound,
                 permitted, environment>>

OutsideDone(o) ==
  /\ At(o, {"outside"})
  /\ side[o] = "reading"
  /\ side' = [side EXCEPT ![o] = "done"]
  /\ NextStep(o)
  /\ UNCHANGED <<txn, bound, permitted, spoiled, pending, environment>>

OutsideFails(o) ==
  /\ At(o, {"outside"})
  /\ \/ side[o] = "waiting" /\ ~ConnectionFree
     \/ side[o] = "reading"
  /\ side' = [side EXCEPT ![o] = "done"]
  /\ Throw(o, "error")
  /\ UNCHANGED <<txn, bound, permitted, spoiled, pending, environment>>

-----------------------------------------------------------------------------
(* The end of the transaction.                                             *)

\* willSendResponse resolves the promise the transaction callback waits on,
\* whatever the outcome, and the response leaves before the commit is done.
Respond(o) ==
  /\ phase[o] = "finishing"
  /\ phase' = [phase EXCEPT ![o] = "answered"]
  /\ txn' = [txn EXCEPT ![o] = IF @ = "open" THEN "ended" ELSE @]
  /\ UNCHANGED <<position, outcome, bound, permitted, side, spoiled, pending,
                 environment>>

\* The statements that did succeed are kept.
Commit_Bug(o) ==
  /\ txn[o] = "ended"
  /\ txn' = [txn EXCEPT ![o] = "committed"]
  /\ store' = store \cup pending[o]
  /\ UNCHANGED <<phase, position, outcome, bound, permitted, side, spoiled,
                 pending, crashes>>

\* COMMIT of a spoiled transaction rolls back without an error.
Commit(o) ==
  /\ txn[o] = "ended"
  /\ txn' = [txn EXCEPT ![o] = IF spoiled[o] THEN "rolledback"
                               ELSE "committed"]
  /\ store' = IF spoiled[o] THEN store ELSE store \cup pending[o]
  /\ UNCHANGED <<phase, position, outcome, bound, permitted, side, spoiled,
                 pending, crashes>>

\* The timer is cleared when the operation has been answered.
TxTimeout_Bug(o) ==
  /\ txn[o] \in {"open", "ended"}
  /\ phase[o] # "answered"
  /\ txn' = [txn EXCEPT ![o] = "rolledback"]
  /\ UNCHANGED <<phase, position, outcome, bound, permitted, side, spoiled,
                 pending, environment>>

\* The 2000 ms timer of the transaction fires before its COMMIT arrives.
\* failTransaction then rejects a promise that may already be settled.
TxTimeout(o) ==
  /\ txn[o] \in {"open", "ended"}
  /\ txn' = [txn EXCEPT ![o] = "rolledback"]
  /\ UNCHANGED <<phase, position, outcome, bound, permitted, side, spoiled,
                 pending, environment>>

\* The process exits and is started again.  A COMMIT already sent may or may
\* not have reached PostgreSQL; every other transaction is rolled back.
ProcessExit ==
  \E landed \in SUBSET {o \in Ops : txn[o] = "ended" /\ ~spoiled[o]} :
    /\ txn' = [o \in Ops |->
                 IF o \in landed THEN "committed"
                 ELSE IF txn[o] \in {"waiting", "open", "ended"}
                      THEN "rolledback" ELSE txn[o]]
    /\ store' = store \cup UNION {pending[o] : o \in landed}
    /\ phase' = [o \in Ops |->
                   IF phase[o] \in {"idle", "answered"} THEN phase[o]
                   ELSE "lost"]
    /\ side' = [o \in Ops |-> IF phase[o] = "idle" THEN side[o] ELSE "done"]
    /\ bound' = [q \in HttpReqs |-> NoTx]
    /\ permitted' = [q \in HttpReqs |-> FALSE]
    /\ UNCHANGED <<position, outcome, spoiled, pending>>

\* The rejection is swallowed: nobody calls continueRequest.
TxRefused_Bug(o) ==
  /\ txn[o] = "waiting"
  /\ ~ConnectionFree
  /\ txn' = [txn EXCEPT ![o] = "none"]
  /\ UNCHANGED <<phase, position, outcome, bound, permitted, side, spoiled,
                 pending, environment>>

\* $transaction rejects before its callback ran (no connection within
\* maxWait).  The catch handler calls failTransaction, which only the callback
\* assigns, so it throws; the rejection has no handler and ends the process.
TxRefused(o) ==
  /\ txn[o] = "waiting"
  /\ ~ConnectionFree
  /\ ProcessExit
  /\ UNCHANGED crashes

\* The process is killed or redeployed.
Crash ==
  /\ crashes < MaxCrashes
  /\ crashes' = crashes + 1
  /\ ProcessExit

-----------------------------------------------------------------------------
Resolve(o) ==
  \/ Pass(o) \/ Forbid(o) \/ BadRequest(o) \/ NotifyFails(o)
  \/ Find(o) \/ Write(o) \/ WriteAudit(o)
  \/ RowGone(o) \/ StatementFails(o) \/ TxUnusable(o)
  \/ OutsideStart(o) \/ OutsideDone(o) \/ OutsideFails(o)

SideProgress(o) == SideAcquire(o) \/ PermissionsReady(o) \/ PermissionsFail(o)

Next ==
  \/ \E o \in Ops :
       \/ Arrive(o) \/ TxStart(o) \/ TxRefused(o)
       \/ SideProgress(o) \/ Begin(o) \/ Resolve(o)
       \/ Respond(o) \/ Commit(o) \/ TxTimeout(o)
  \/ Crash

Spec == Init /\ [][Next]_vars

\* The event loop runs what is ready, a wait for a connection ends in a
\* connection or in its timer, PostgreSQL answers, and the timer of an open
\* transaction fires.  Nothing says that a client sends a request or that the
\* process is killed.
FairSpec ==
  /\ Spec
  /\ \A o \in Ops :
       /\ WF_vars(TxStart(o) \/ TxRefused(o))
       /\ WF_vars(SideProgress(o))
       /\ WF_vars(Begin(o))
       /\ WF_vars(Resolve(o))
       /\ WF_vars(Respond(o))
       /\ WF_vars(Commit(o))
       /\ WF_vars(TxTimeout(o))

-----------------------------------------------------------------------------
(* Properties.                                                             *)

\* Every committed row change has its audit entry committed with it, however
\* statements fail, the transaction times out or the process exits between
\* the write and genAuditLog.
ChangesAreAudited ==
  \A o \in Ops, f \in 1 .. MaxFields :
    Row(o, f) \in store => Audit(o, f) \in store

\* "Creates a Prisma transaction for the duration of the request": while an
\* operation is being resolved, the transaction its statements run on is not
\* ended by the response of another operation.
TransactionLastsForRequest ==
  \A o \in Ops :
    phase[o] = "resolving" =>
      Tx(o) \in Ops /\ txn[Tx(o)] \notin {"ended", "committed"}

\* An operation is never answered ok when a statement of its transaction
\* failed: PostgreSQL will turn its COMMIT into a rollback, so every change
\* the response reports would be gone.
AcknowledgedIsNotSpoiled ==
  \A o \in Ops : outcome[o] = "ok" => ~spoiled[o]

\* No rule is evaluated before req.permissions is set, although two hooks,
\* two waits for a connection and their failures come between the arrival of
\* the operation and its first rule.
RulesHavePermissions ==
  \A o \in Ops : phase[o] = "resolving" => permitted[ReqOf[o]]

\* What the comments on PrismaPlugin and @Rule promise: when a rule check
\* fails, the changes made by the operation are rolled back.
ForbiddenIsRolledBack ==
  \A o \in Ops :
    outcome[o] = "forbidden" => \A e \in store : e.op # o

\* The operations are atomic: see AtomicRequests.
verdict == [o \in Ops |->
              IF txn[o] = "committed" THEN "applied"
              ELSE IF txn[o] = "rolledback" THEN "discarded" ELSE "open"]
Atomic == INSTANCE AtomicRequests WITH work <- pending
AtomicSpec == Atomic!Spec

\* Every operation that arrives is answered, or lost with the process: no
\* wait for a connection, and no operation holding one connection while it
\* waits for a second, lasts forever.
OperationsEnd ==
  \A o \in Ops : phase[o] = "starting" ~> phase[o] \in {"answered", "lost"}

\* A transaction's connection always returns to the pool, also when the
\* operation is answered without willSendResponse.
ConnectionsReturn ==
  \A o \in Ops : txn[o] = "open" ~> txn[o] \in {"committed", "rolledback"}
=============================================================================
