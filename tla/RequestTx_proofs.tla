--------------------------- MODULE RequestTx_proofs ---------------------------
(***************************************************************************)
(* Proofs about RequestTx, for any number of operations, fields,           *)
(* connections and crashes, and for any resolver programs in which an      *)
(* audit entry follows each write.                                         *)
(*                                                                         *)
(* TypeOK and RulesHavePermissions need nothing more.  The other theorems  *)
(* assume that no two operations share an HTTP request: in a batch the     *)
(* later transaction takes over req.prismaTx and they are false, which the *)
(* run requesttx_batch shows.                                              *)
(***************************************************************************)
EXTENDS RequestTx, TLAPS

SeparateRequests == \A a, b \in Ops : ReqOf[a] = ReqOf[b] => a = b

Active == {"starting", "resolving", "finishing"}

-----------------------------------------------------------------------------
(* The inductive invariant.                                                *)

\* An operation that has permissions, or the side connection they need.
PermissionsOnTheWay ==
  \A o \in Ops :
    /\ phase[o] = "starting" /\ side[o] = "done" => permitted[ReqOf[o]]
    /\ phase[o] = "resolving" => permitted[ReqOf[o]]

\* An operation that is still running has not given up its transaction.
TxFollowsPhase ==
  \A o \in Ops :
    /\ phase[o] = "idle" => txn[o] = "none"
    /\ phase[o] = "starting" => txn[o] \in {"waiting", "open", "rolledback"}
    /\ phase[o] \in {"resolving", "finishing"}
         => txn[o] \in {"open", "rolledback"}

\* Its statements run on its own transaction.
BoundToOwn ==
  \A o \in Ops :
    phase[o] \in Active /\ txn[o] \notin {"none", "waiting"}
      => bound[ReqOf[o]] = o

\* So its transaction holds its own effects only.
OwnEffects == \A o \in Ops : \A e \in pending[o] : e.op = o

\* A failed statement has already thrown.
SpoiledHasThrown ==
  \A o \in Ops :
    /\ spoiled[o] => phase[o] \notin {"idle", "starting", "resolving"}
    /\ spoiled[o] => outcome[o] # "ok"
    /\ phase[o] \in {"idle", "starting", "resolving"} => outcome[o] # "ok"

\* A row without its audit entry will never be committed, or the resolver is
\* just between the two statements.
AuditIsNext ==
  \A o \in Ops, f \in 1 .. MaxFields :
    Row(o, f) \in pending[o] /\ Audit(o, f) \notin pending[o] =>
      \/ txn[o] = "rolledback"
      \/ spoiled[o]
      \/ /\ phase[o] = "resolving"
         /\ field[o] = f
         /\ prog[o][step[o]] = "audit"

IInv ==
  /\ TypeOK
  /\ TxFollowsPhase
  /\ BoundToOwn
  /\ OwnEffects
  /\ SpoiledHasThrown
  /\ AuditIsNext
  /\ ChangesAreAudited

-----------------------------------------------------------------------------
(* Types.                                                                  *)

\* Resolver programs are non-empty sequences: a position in one is a number.
LEMMA ProgramLength ==
  \A p \in Programs : Len(p) \in Nat \ {0}
  BY ProgramAssumption

\* The end of a step leaves a position inside the program of some field.
LEMMA NextStepPlace ==
  ASSUME PlaceOK, NEW o \in Ops, NextStep(o)
  PROVE  PlaceOK'
<1>1. CASE Continue(o)
  <2>1. Len(prog[o]) \in Nat
    BY ProgramLength DEF PlaceOK
  <2>2. step' \in [Ops -> Nat \ {0}]
    BY <1>1 DEF Continue, PlaceOK
  <2>3. ASSUME NEW a \in Ops PROVE step'[a] <= Len(prog'[a])
    BY <1>1, <2>1 DEF Continue, PlaceOK
  <2>. QED BY <1>1, <2>2, <2>3 DEF Continue, PlaceOK
<1>2. CASE Finish(o)
  BY <1>2 DEF Finish, PlaceOK, position, Phase, Outcome
<1>3. CASE NextField(o)
  <2>1. PICK p \in Mutations : prog' = [prog EXCEPT ![o] = p]
    BY <1>3 DEF NextField
  <2>2. p \in Programs /\ Len(p) \in Nat \ {0}
    BY <2>1, ProgramLength DEF Programs
  <2>3. prog' \in [Ops -> Programs]
    BY <2>1, <2>2 DEF PlaceOK
  <2>4. field' \in [Ops -> 1 .. MaxFields]
    BY <1>3, BoundAssumption DEF NextField, PlaceOK
  <2>5. step' \in [Ops -> Nat \ {0}]
    BY <1>3 DEF NextField, PlaceOK
  <2>6. ASSUME NEW a \in Ops PROVE step'[a] <= Len(prog'[a])
    BY <1>3, <2>1, <2>2 DEF NextField, PlaceOK
  <2>. QED BY <1>3, <2>3, <2>4, <2>5, <2>6 DEF NextField, PlaceOK
<1>. QED BY <1>1, <1>2, <1>3 DEF NextStep

\* An error leaves the position where it is.
LEMMA ThrowPlace ==
  ASSUME PlaceOK, NEW o \in Ops, NEW error \in Outcome, Throw(o, error)
  PROVE  PlaceOK'
  BY DEF PlaceOK, Throw, position, Phase, Outcome

LEMMA InitType == Init => TypeOK
<1>. SUFFICES ASSUME Init PROVE TypeOK
  OBVIOUS
<1>1. PlaceOK
  <2>1. \A o \in Ops : prog[o] \in Programs /\ step[o] = 1
    BY DEF Init
  <2>2. \A o \in Ops : step[o] <= Len(prog[o])
    BY <2>1, ProgramLength
  <2>. QED BY <2>2, BoundAssumption DEF Init, PlaceOK, Phase, Outcome
<1>2. ResourcesOK
  BY BoundAssumption DEF Init, ResourcesOK, TxnState, SideState
<1>. QED BY <1>1, <1>2 DEF TypeOK

\* The effects that resolvers write are effects of their root field.
LEMMA EffectType ==
  ASSUME NEW o \in Ops, NEW f \in 1 .. MaxFields
  PROVE  Row(o, f) \in Effect /\ Audit(o, f) \in Effect
  BY DEF Row, Audit, Effect

\* Leaving the process behind.
LEMMA ExitType ==
  ASSUME TypeOK, ProcessExit
  PROVE  PlaceOK' /\ store' \in SUBSET Effect /\ txn' \in [Ops -> TxnState]
         /\ side' \in [Ops -> SideState]
         /\ bound' \in [HttpReqs -> Ops \cup {NoTx}]
         /\ permitted' \in [HttpReqs -> BOOLEAN]
         /\ spoiled' \in [Ops -> BOOLEAN]
         /\ pending' \in [Ops -> SUBSET Effect]
<1>1. PICK landed \in SUBSET {o \in Ops : txn[o] = "ended" /\ ~spoiled[o]} :
        /\ txn' = [o \in Ops |->
                     IF o \in landed THEN "committed"
                     ELSE IF txn[o] \in {"waiting", "open", "ended"}
                          THEN "rolledback" ELSE txn[o]]
        /\ store' = store \cup UNION {pending[o] : o \in landed}
  BY DEF ProcessExit
<1>2. /\ phase' = [o \in Ops |->
                     IF phase[o] \in {"idle", "answered"} THEN phase[o]
                     ELSE "lost"]
      /\ side' = [o \in Ops |-> IF phase[o] = "idle" THEN side[o] ELSE "done"]
      /\ bound' = [q \in HttpReqs |-> NoTx]
      /\ permitted' = [q \in HttpReqs |-> FALSE]
      /\ UNCHANGED <<prog, field, step, outcome, spoiled, pending>>
  BY DEF ProcessExit, position
<1>3. PlaceOK'
  BY <1>2 DEF TypeOK, PlaceOK, Phase
<1>4. store' \in SUBSET Effect
  BY <1>1 DEF TypeOK, ResourcesOK
<1>5. txn' \in [Ops -> TxnState]
  BY <1>1 DEF TypeOK, ResourcesOK, TxnState
<1>6. side' \in [Ops -> SideState]
  BY <1>2 DEF TypeOK, ResourcesOK, SideState
<1>. QED BY <1>2, <1>3, <1>4, <1>5, <1>6 DEF TypeOK, ResourcesOK

\* One step of a resolver.
LEMMA ResolveType ==
  ASSUME TypeOK, NEW o \in Ops, Resolve(o)
  PROVE  TypeOK'
<1>. USE DEF TypeOK, environment
<1>1. ASSUME Pass(o) \/ Find(o) PROVE TypeOK'
  BY <1>1, NextStepPlace DEF Pass, Find, connection, ResourcesOK
<1>2. ASSUME Forbid(o) \/ BadRequest(o) \/ NotifyFails(o) \/ RowGone(o)
             \/ TxUnusable(o)
      PROVE  TypeOK'
  BY <1>2, ThrowPlace DEF Forbid, BadRequest, NotifyFails, RowGone, TxUnusable,
     connection, ResourcesOK, Outcome
<1>3. ASSUME NEW effect \in Effect, Perform(o, effect) PROVE TypeOK'
  BY <1>3, NextStepPlace DEF Perform, connection, ResourcesOK
<1>4. ASSUME Write(o) \/ WriteAudit(o) PROVE TypeOK'
  BY <1>3, <1>4, EffectType DEF Write, WriteAudit, PlaceOK
<1>5. ASSUME StatementFails(o) PROVE TypeOK'
  BY <1>5, ThrowPlace DEF StatementFails, connection, ResourcesOK, Outcome
<1>6. ASSUME OutsideStart(o) PROVE TypeOK'
  BY <1>6 DEF OutsideStart, position, PlaceOK, ResourcesOK, SideState
<1>7. ASSUME OutsideDone(o) PROVE TypeOK'
  BY <1>7, NextStepPlace DEF OutsideDone, ResourcesOK, SideState
<1>8. ASSUME OutsideFails(o) PROVE TypeOK'
  BY <1>8, ThrowPlace DEF OutsideFails, ResourcesOK, SideState, Outcome
<1>. QED BY <1>1, <1>2, <1>4, <1>5, <1>6, <1>7, <1>8 DEF Resolve

\* One step of anything.
LEMMA StepType == TypeOK /\ [Next]_vars => TypeOK'
<1>. SUFFICES ASSUME TypeOK, [Next]_vars PROVE TypeOK'
  OBVIOUS
<1>. USE DEF TypeOK, environment, position
<1>1. ASSUME NEW o \in Ops, Arrive(o) PROVE TypeOK'
  BY <1>1 DEF Arrive, PlaceOK, ResourcesOK, Phase, TxnState, SideState
<1>2. ASSUME NEW o \in Ops, TxStart(o) PROVE TypeOK'
  BY <1>2, ReqOfAssumption DEF TxStart, PlaceOK, ResourcesOK, TxnState
<1>3. ASSUME NEW o \in Ops, TxRefused(o) PROVE TypeOK'
  BY <1>3, ExitType DEF TxRefused, ResourcesOK
<1>4. ASSUME NEW o \in Ops, SideProgress(o) PROVE TypeOK'
  <2>1. CASE SideAcquire(o)
    BY <2>1 DEF SideAcquire, PlaceOK, ResourcesOK, SideState
  <2>2. CASE PermissionsReady(o)
    BY <2>2, ReqOfAssumption
       DEF PermissionsReady, PlaceOK, ResourcesOK, SideState
  <2>3. CASE PermissionsFail(o)
    BY <2>3 DEF PermissionsFail, PlaceOK, ResourcesOK, SideState, Phase, Outcome
  <2>. QED BY <1>4, <2>1, <2>2, <2>3 DEF SideProgress
<1>5. ASSUME NEW o \in Ops, Begin(o) PROVE TypeOK'
  BY <1>5 DEF Begin, connection, PlaceOK, ResourcesOK, Phase
<1>6. ASSUME NEW o \in Ops, Respond(o) PROVE TypeOK'
  BY <1>6 DEF Respond, PlaceOK, ResourcesOK, Phase, TxnState
<1>7. ASSUME NEW o \in Ops, Commit(o) PROVE TypeOK'
  BY <1>7 DEF Commit, PlaceOK, ResourcesOK, TxnState
<1>8. ASSUME NEW o \in Ops, TxTimeout(o) PROVE TypeOK'
  BY <1>8 DEF TxTimeout, PlaceOK, ResourcesOK, TxnState
<1>9. ASSUME Crash PROVE TypeOK'
  <2>1. crashes' \in 0 .. MaxCrashes
    BY <1>9, BoundAssumption DEF Crash, ResourcesOK
  <2>. QED BY <1>9, <2>1, ExitType DEF Crash, ResourcesOK
<1>10. ASSUME UNCHANGED vars PROVE TypeOK'
  BY <1>10 DEF vars, PlaceOK, ResourcesOK
<1>. QED
  BY <1>1, <1>2, <1>3, <1>4, <1>5, <1>6, <1>7, <1>8, <1>9, <1>10, ResolveType
     DEF Next

\* Every variable keeps its type in every behaviour.
THEOREM TypeCorrect == Spec => []TypeOK
  BY InitType, StepType, PTL DEF Spec

-----------------------------------------------------------------------------
(* What a resolver step leaves alone.                                      *)

\* The position moves for one operation only, which stays in its document or
\* leaves it.
LEMMA MoveFrame ==
  ASSUME TypeOK, NEW o \in Ops, phase[o] = "resolving",
         NextStep(o) \/ \E error \in Outcome : Throw(o, error)
  PROVE  /\ phase'[o] \in {"resolving", "finishing"}
         /\ \A a \in Ops \ {o} :
              /\ phase'[a] = phase[a] /\ prog'[a] = prog[a]
              /\ field'[a] = field[a] /\ step'[a] = step[a]
              /\ outcome'[a] = outcome[a]
  BY DEF TypeOK, PlaceOK, NextStep, Continue, Finish, NextField, Throw, position

\* Resolvers neither open nor end a transaction and commit nothing.
LEMMA ResolveFrame ==
  ASSUME TypeOK, NEW o \in Ops, Resolve(o)
  PROVE  /\ phase[o] = "resolving"
         /\ phase'[o] \in {"resolving", "finishing"}
         /\ UNCHANGED <<txn, bound, permitted, store>>
         /\ \A a \in Ops \ {o} :
              /\ phase'[a] = phase[a] /\ prog'[a] = prog[a]
              /\ field'[a] = field[a] /\ step'[a] = step[a]
              /\ outcome'[a] = outcome[a] /\ side'[a] = side[a]
<1>. USE DEF At, connection, environment
<1>1. ASSUME Pass(o) \/ Find(o) \/ Write(o) \/ WriteAudit(o)
      PROVE  /\ phase[o] = "resolving" /\ NextStep(o)
             /\ UNCHANGED <<txn, bound, permitted, store, side>>
  BY <1>1 DEF Pass, Find, Write, WriteAudit, Perform
<1>2. ASSUME Forbid(o) \/ BadRequest(o) \/ NotifyFails(o) \/ RowGone(o)
             \/ TxUnusable(o) \/ StatementFails(o)
      PROVE  /\ phase[o] = "resolving"
             /\ \E error \in Outcome : Throw(o, error)
             /\ UNCHANGED <<txn, bound, permitted, store, side>>
  BY <1>2 DEF Forbid, BadRequest, NotifyFails, RowGone, TxUnusable,
     StatementFails, Outcome
<1>3. ASSUME OutsideDone(o) \/ OutsideFails(o)
      PROVE  /\ phase[o] = "resolving"
             /\ NextStep(o) \/ \E error \in Outcome : Throw(o, error)
             /\ UNCHANGED <<txn, bound, permitted, store>>
             /\ \A a \in Ops \ {o} : side'[a] = side[a]
  BY <1>3 DEF OutsideDone, OutsideFails, Outcome, TypeOK, ResourcesOK
<1>4. CASE OutsideStart(o)
  BY <1>4 DEF OutsideStart, position, TypeOK, ResourcesOK
<1>. QED BY <1>1, <1>2, <1>3, <1>4, MoveFrame DEF Resolve

-----------------------------------------------------------------------------
(* Permissions.                                                            *)

LEMMA PermissionsStep ==
  TypeOK /\ PermissionsOnTheWay /\ [Next]_vars => PermissionsOnTheWay'
<1>. SUFFICES ASSUME TypeOK, PermissionsOnTheWay, [Next]_vars
              PROVE  PermissionsOnTheWay'
  OBVIOUS
<1>. USE ReqOfAssumption
     DEF TypeOK, PlaceOK, ResourcesOK, PermissionsOnTheWay, position,
         environment
<1>1. ASSUME NEW o \in Ops, Arrive(o) PROVE PermissionsOnTheWay'
  BY <1>1 DEF Arrive
<1>2. ASSUME NEW o \in Ops,
             TxStart(o) \/ Respond(o) \/ Commit(o) \/ TxTimeout(o)
      PROVE  PermissionsOnTheWay'
  BY <1>2 DEF TxStart, Respond, Commit, TxTimeout
<1>3. ASSUME ProcessExit PROVE PermissionsOnTheWay'
  BY <1>3 DEF ProcessExit
<1>4. ASSUME NEW o \in Ops, SideProgress(o) PROVE PermissionsOnTheWay'
  BY <1>4 DEF SideProgress, SideAcquire, PermissionsReady, PermissionsFail
<1>5. ASSUME NEW o \in Ops, Begin(o) PROVE PermissionsOnTheWay'
  BY <1>5 DEF Begin, connection
<1>6. ASSUME NEW o \in Ops, Resolve(o) PROVE PermissionsOnTheWay'
  BY <1>6, ResolveFrame
<1>7. ASSUME UNCHANGED vars PROVE PermissionsOnTheWay'
  BY <1>7 DEF vars
<1>. QED
  BY <1>1, <1>2, <1>3, <1>4, <1>5, <1>6, <1>7 DEF Next, TxRefused, Crash

\* No rule of any operation is evaluated without permissions, also when
\* operations share their request.
THEOREM PermissionsBeforeRules == Spec => []RulesHavePermissions
<1>1. Init => PermissionsOnTheWay
  BY DEF Init, PermissionsOnTheWay
<1>2. PermissionsOnTheWay => RulesHavePermissions
  BY DEF PermissionsOnTheWay, RulesHavePermissions
<1>. QED BY <1>1, <1>2, PermissionsStep, TypeCorrect, PTL DEF Spec

-----------------------------------------------------------------------------
(* Transactions of separate requests.                                      *)

\* A statement of a resolver runs on the operation's own transaction.
LEMMA OwnTransaction ==
  ASSUME IInv, NEW o \in Ops, phase[o] = "resolving"
  PROVE  Tx(o) = o /\ txn[o] \in {"open", "rolledback"}
  BY DEF IInv, TxFollowsPhase, BoundToOwn, Active, Tx

\* What a resolver step can do to the effects of the transactions.
LEMMA ResolveEffects ==
  ASSUME IInv, NEW o \in Ops, Resolve(o)
  PROVE  \/ UNCHANGED <<pending, spoiled>>
         \/ /\ At(o, {"write"}) /\ Continue(o) /\ txn[o] = "open"
            /\ pending' = [pending EXCEPT ![o] = @ \cup {Row(o, field[o])}]
            /\ UNCHANGED spoiled
         \/ /\ At(o, {"audit"}) /\ txn[o] = "open"
            /\ pending' = [pending EXCEPT ![o] = @ \cup {Audit(o, field[o])}]
            /\ UNCHANGED spoiled
         \/ StatementFails(o)
<1>1. Tx(o) = o
  BY ResolveFrame, OwnTransaction DEF IInv
<1>2. CASE Write(o)
  <2>1. step[o] \in 1 .. Len(prog[o]) /\ prog[o] \in Programs
    BY ProgramLength DEF IInv, TypeOK, PlaceOK
  <2>2. step[o] < Len(prog[o])
    BY <1>2, <2>1, ProgramLength, AuditFollowsWrite DEF Write, At
  <2>3. Continue(o)
    BY <1>2, <2>2 DEF Write, Perform, NextStep, Finish, NextField
  <2>. QED BY <1>1, <1>2, <2>3 DEF Write, Perform, Usable
<1>3. CASE WriteAudit(o)
  BY <1>1, <1>3 DEF WriteAudit, Perform, Usable
<1>4. CASE ~Write(o) /\ ~WriteAudit(o)
  BY <1>4 DEF Resolve, Pass, Find, Forbid, BadRequest, NotifyFails, RowGone,
     TxUnusable, OutsideStart, OutsideDone, OutsideFails
<1>. QED BY <1>2, <1>3, <1>4

LEMMA InitIInv == Init => IInv
<1>. SUFFICES ASSUME Init PROVE IInv
  OBVIOUS
<1>1. TypeOK
  BY InitType
<1>2. TxFollowsPhase /\ BoundToOwn /\ OwnEffects /\ SpoiledHasThrown
  BY DEF Init, TxFollowsPhase, BoundToOwn, OwnEffects, SpoiledHasThrown
<1>3. AuditIsNext /\ ChangesAreAudited
  BY DEF Init, AuditIsNext, ChangesAreAudited
<1>. QED BY <1>1, <1>2, <1>3 DEF IInv

\* The transaction and the phase of an operation move together.
LEMMA TxFollowsPhaseStep ==
  IInv /\ [Next]_vars => TxFollowsPhase'
<1>. SUFFICES ASSUME IInv, [Next]_vars PROVE TxFollowsPhase'
  OBVIOUS
<1>. USE DEF TypeOK, PlaceOK, ResourcesOK, TxFollowsPhase, IInv, Phase,
     TxnState
<1>1. ASSUME NEW o \in Ops,
             Arrive(o) \/ TxStart(o) \/ Begin(o) \/ Respond(o) \/ Commit(o)
             \/ TxTimeout(o)
      PROVE  TxFollowsPhase'
  BY <1>1 DEF Arrive, TxStart, Begin, Respond, Commit, TxTimeout, connection
<1>2. ASSUME NEW o \in Ops, SideProgress(o) PROVE TxFollowsPhase'
  BY <1>2 DEF SideProgress, SideAcquire, PermissionsReady, PermissionsFail
<1>3. ASSUME ProcessExit PROVE TxFollowsPhase'
  BY <1>3 DEF ProcessExit
<1>4. ASSUME NEW o \in Ops, Resolve(o) PROVE TxFollowsPhase'
  BY <1>4, ResolveFrame
<1>5. ASSUME UNCHANGED vars PROVE TxFollowsPhase'
  BY <1>5 DEF vars
<1>. QED BY <1>1, <1>2, <1>3, <1>4, <1>5 DEF Next, TxRefused, Crash

\* req.prismaTx names another operation only when the request is shared.
LEMMA BoundToOwnStep ==
  ASSUME SeparateRequests
  PROVE  IInv /\ [Next]_vars => BoundToOwn'
<1>. SUFFICES ASSUME IInv, [Next]_vars PROVE BoundToOwn'
  OBVIOUS
<1>. USE ReqOfAssumption
     DEF TypeOK, PlaceOK, ResourcesOK, TxFollowsPhase, BoundToOwn, IInv, Active
<1>1. ASSUME NEW o \in Ops, TxStart(o) PROVE BoundToOwn'
  BY <1>1 DEF TxStart, SeparateRequests
<1>2. ASSUME NEW o \in Ops,
             Arrive(o) \/ Begin(o) \/ Respond(o) \/ Commit(o) \/ TxTimeout(o)
      PROVE  BoundToOwn'
  BY <1>2 DEF Arrive, Begin, Respond, Commit, TxTimeout, connection
<1>3. ASSUME NEW o \in Ops, SideProgress(o) PROVE BoundToOwn'
  BY <1>3 DEF SideProgress, SideAcquire, PermissionsReady, PermissionsFail
<1>4. ASSUME ProcessExit PROVE BoundToOwn'
  BY <1>4 DEF ProcessExit
<1>5. ASSUME NEW o \in Ops, Resolve(o) PROVE BoundToOwn'
  BY <1>5, ResolveFrame
<1>6. ASSUME UNCHANGED vars PROVE BoundToOwn'
  BY <1>6 DEF vars
<1>. QED BY <1>1, <1>2, <1>3, <1>4, <1>5, <1>6 DEF Next, TxRefused, Crash

\* Only resolvers touch the effects of a transaction or spoil it.
LEMMA EffectsFrame ==
  ASSUME [Next]_vars, \A o \in Ops : ~Resolve(o)
  PROVE  UNCHANGED <<pending, spoiled, prog, field, step>>
  BY DEF Next, Arrive, TxStart, TxRefused, Crash, ProcessExit, SideProgress,
     SideAcquire, PermissionsReady, PermissionsFail, Begin, Respond, Commit,
     TxTimeout, vars, position

\* A transaction settles once.
LEMMA SettledStays ==
  ASSUME IInv, [Next]_vars, NEW a \in Ops, txn[a] \in {"committed", "rolledback"}
  PROVE  txn'[a] = txn[a]
<1>. USE DEF IInv, TypeOK, ResourcesOK
<1>1. ASSUME NEW o \in Ops, Arrive(o) PROVE txn'[a] = txn[a]
  BY <1>1 DEF Arrive, TxFollowsPhase
<1>2. ASSUME NEW o \in Ops, TxStart(o) \/ Respond(o) \/ Commit(o) \/ TxTimeout(o)
      PROVE  txn'[a] = txn[a]
  BY <1>2 DEF TxStart, Respond, Commit, TxTimeout
<1>3. ASSUME ProcessExit PROVE txn'[a] = txn[a]
  BY <1>3 DEF ProcessExit
<1>4. ASSUME NEW o \in Ops, SideProgress(o) \/ Begin(o) PROVE txn'[a] = txn[a]
  BY <1>4 DEF SideProgress, SideAcquire, PermissionsReady, PermissionsFail,
     Begin, connection
<1>5. ASSUME NEW o \in Ops, Resolve(o) PROVE txn'[a] = txn[a]
  BY <1>5, ResolveFrame
<1>6. ASSUME UNCHANGED vars PROVE txn'[a] = txn[a]
  BY <1>6 DEF vars
<1>. QED BY <1>1, <1>2, <1>3, <1>4, <1>5, <1>6 DEF Next, TxRefused, Crash

LEMMA OwnEffectsStep == IInv /\ [Next]_vars => OwnEffects'
<1>. SUFFICES ASSUME IInv, [Next]_vars PROVE OwnEffects'
  OBVIOUS
<1>. USE DEF OwnEffects, IInv
<1>1. ASSUME NEW o \in Ops, Resolve(o) PROVE OwnEffects'
  <2>1. CASE UNCHANGED pending
    BY <2>1
  <2>2. CASE \E e \in {Row(o, field[o]), Audit(o, field[o])} :
               pending' = [pending EXCEPT ![o] = @ \cup {e}]
    BY <2>2 DEF TypeOK, ResourcesOK, Row, Audit
  <2>. QED BY <1>1, <2>1, <2>2, ResolveEffects DEF StatementFails
<1>2. CASE \A o \in Ops : ~Resolve(o)
  BY <1>2, EffectsFrame
<1>. QED BY <1>1, <1>2

LEMMA SpoiledHasThrownStep == IInv /\ [Next]_vars => SpoiledHasThrown'
<1>. SUFFICES ASSUME IInv, [Next]_vars PROVE SpoiledHasThrown'
  OBVIOUS
<1>. USE DEF SpoiledHasThrown, IInv
<1>1. ASSUME NEW o \in Ops, Resolve(o) PROVE SpoiledHasThrown'
  <2>1. phase[o] = "resolving" /\ ~spoiled[o] /\ outcome[o] # "ok"
    BY <1>1, ResolveFrame
  <2>2. ASSUME NEW a \in Ops \ {o}
        PROVE  /\ phase'[a] = phase[a] /\ outcome'[a] = outcome[a]
               /\ spoiled'[a] = spoiled[a]
    BY <1>1, <2>1, ResolveFrame, ResolveEffects, OwnTransaction
       DEF StatementFails, TypeOK, ResourcesOK
  <2>3. phase'[o] = "resolving" => outcome'[o] = outcome[o]
    BY <1>1, <2>1 DEF Resolve, Pass, Forbid, BadRequest, NotifyFails, Find,
       Write, WriteAudit, Perform, RowGone, StatementFails, TxUnusable,
       OutsideStart, OutsideDone, OutsideFails, NextStep, Continue, Finish,
       NextField, Throw, TypeOK, PlaceOK
  <2>4. CASE UNCHANGED spoiled
    BY <1>1, <2>1, <2>2, <2>3, <2>4, ResolveFrame
  <2>5. CASE StatementFails(o)
    BY <2>1, <2>2, <2>5 DEF StatementFails, Throw, TypeOK, PlaceOK
  <2>. QED BY <1>1, <2>4, <2>5, ResolveEffects
<1>2. CASE \A o \in Ops : ~Resolve(o)
  <2>1. UNCHANGED spoiled
    BY <1>2, EffectsFrame
  <2>2. ASSUME NEW a \in Ops
        PROVE  /\ \/ outcome'[a] = outcome[a]
                  \/ phase'[a] = "answered" /\ outcome'[a] = "error"
               /\ phase'[a] \in {"idle", "starting", "resolving"}
                    => phase[a] \in {"idle", "starting", "resolving"}
    <3>. DEFINE Kept == /\ outcome'[a] = outcome[a]
                        /\ phase'[a] \in {"idle", "starting", "resolving"}
                             => phase[a] \in {"idle", "starting", "resolving"}
    <3>1. ASSUME NEW o \in Ops, Arrive(o) \/ TxStart(o) \/ Begin(o)
                 \/ Respond(o) \/ Commit(o) \/ TxTimeout(o)
          PROVE  Kept
      BY <3>1 DEF Arrive, TxStart, Begin, Respond, Commit, TxTimeout, TypeOK,
         PlaceOK
    <3>2. ASSUME NEW o \in Ops, SideAcquire(o) \/ PermissionsReady(o) PROVE Kept
      BY <3>2 DEF SideAcquire, PermissionsReady
    <3>3. ASSUME NEW o \in Ops, PermissionsFail(o)
          PROVE  Kept \/ (phase'[a] = "answered" /\ outcome'[a] = "error")
      BY <3>3 DEF PermissionsFail, TypeOK, PlaceOK
    <3>4. ASSUME ProcessExit PROVE Kept
      BY <3>4 DEF ProcessExit
    <3>5. ASSUME UNCHANGED vars PROVE Kept
      BY <3>5 DEF vars
    <3>. QED BY <1>2, <3>1, <3>2, <3>3, <3>4, <3>5
         DEF Next, SideProgress, TxRefused, Crash
  <2>. QED BY <2>1, <2>2
<1>. QED BY <1>1, <1>2

\* A transaction that is committed had audited each of its rows.
LEMMA EndedIsAudited ==
  ASSUME IInv, NEW o \in Ops, txn[o] = "ended", ~spoiled[o],
         NEW f \in 1 .. MaxFields, Row(o, f) \in pending[o]
  PROVE  Audit(o, f) \in pending[o]
  BY DEF IInv, AuditIsNext, TxFollowsPhase

LEMMA AuditIsNextStep == IInv /\ [Next]_vars => AuditIsNext'
<1>. SUFFICES ASSUME IInv, [Next]_vars,
                     NEW a \in Ops, NEW f \in 1 .. MaxFields,
                     Row(a, f) \in pending'[a], Audit(a, f) \notin pending'[a]
              PROVE  \/ txn'[a] = "rolledback"
                     \/ spoiled'[a]
                     \/ /\ phase'[a] = "resolving"
                        /\ field'[a] = f
                        /\ prog'[a][step'[a]] = "audit"
  BY DEF AuditIsNext
<1>1. ASSUME Resolve(a)
      PROVE  \/ txn'[a] = "rolledback"
             \/ spoiled'[a]
             \/ /\ phase'[a] = "resolving"
                /\ field'[a] = f
                /\ prog'[a][step'[a]] = "audit"
  <2>1. /\ phase[a] = "resolving" /\ UNCHANGED txn
        /\ txn[a] \in {"open", "rolledback"} /\ ~spoiled[a] /\ Tx(a) = a
    BY <1>1, ResolveFrame, OwnTransaction DEF IInv, SpoiledHasThrown
  <2>2. CASE UNCHANGED <<pending, spoiled>> /\ txn[a] = "open"
    <3>1. At(a, {"audit"})
      BY <2>1, <2>2 DEF IInv, AuditIsNext, At
    <3>2. Usable(Tx(a))
      BY <2>1, <2>2 DEF Usable
    <3>3. WriteAudit(a) \/ StatementFails(a)
      BY <1>1, <3>1, <3>2 DEF Resolve, Pass, Forbid, BadRequest, NotifyFails,
         Find, Write, RowGone, TxUnusable, OutsideStart, OutsideDone,
         OutsideFails, At
    <3>4. CASE WriteAudit(a)
      <4>1. field[a] = f
        BY <2>1, <2>2 DEF IInv, AuditIsNext
      <4>2. Audit(a, f) \in pending'[a]
        BY <2>1, <3>4, <4>1 DEF WriteAudit, Perform, IInv, TypeOK, ResourcesOK
      <4>. QED BY <4>2
    <3>5. CASE StatementFails(a)
      BY <2>1, <3>5 DEF StatementFails, IInv, TypeOK, ResourcesOK
    <3>. QED BY <3>3, <3>4, <3>5
  <2>3. CASE /\ At(a, {"write"}) /\ Continue(a)
             /\ pending' = [pending EXCEPT ![a] = @ \cup {Row(a, field[a])}]
             /\ UNCHANGED spoiled
    <3>1. /\ prog'[a] = prog[a] /\ field'[a] = field[a]
          /\ step'[a] = step[a] + 1 /\ phase'[a] = "resolving"
      BY <2>1, <2>3 DEF Continue, IInv, TypeOK, PlaceOK
    <3>2. prog[a][step[a] + 1] = "audit"
      <4>1. step[a] \in 1 .. Len(prog[a]) /\ prog[a] \in Programs
        BY ProgramLength DEF IInv, TypeOK, PlaceOK
      <4>. QED BY <2>3, <4>1, AuditFollowsWrite DEF At
    <3>3. CASE txn[a] = "open"
      <4>1. Row(a, f) \notin pending[a]
        BY <2>1, <2>3, <3>3 DEF IInv, AuditIsNext, At, TypeOK, ResourcesOK
      <4>2. Row(a, f) = Row(a, field[a])
        BY <2>3, <4>1 DEF IInv, TypeOK, ResourcesOK
      <4>3. field[a] = f
        BY <4>2 DEF Row
      <4>. QED BY <3>1, <3>2, <4>3
    <3>. QED BY <2>1, <3>3
  <2>4. CASE /\ At(a, {"audit"})
             /\ pending' = [pending EXCEPT ![a] = @ \cup {Audit(a, field[a])}]
             /\ UNCHANGED spoiled
    <3>1. Row(a, f) \in pending[a] /\ Audit(a, f) \notin pending[a]
      BY <2>4 DEF IInv, TypeOK, ResourcesOK, Row, Audit
    <3>2. CASE txn[a] = "open"
      <4>1. field[a] = f
        BY <2>1, <3>1, <3>2 DEF IInv, AuditIsNext
      <4>. QED BY <2>4, <4>1 DEF IInv, TypeOK, ResourcesOK
    <3>. QED BY <2>1, <3>2
  <2>5. CASE StatementFails(a)
    BY <2>1, <2>5 DEF StatementFails, IInv, TypeOK, ResourcesOK
  <2>. QED BY <1>1, <2>1, <2>2, <2>3, <2>4, <2>5, ResolveEffects DEF IInv
<1>2. ASSUME NEW o \in Ops \ {a}, Resolve(o)
      PROVE  /\ pending'[a] = pending[a] /\ spoiled'[a] = spoiled[a]
             /\ txn'[a] = txn[a] /\ phase'[a] = phase[a]
             /\ field'[a] = field[a] /\ prog'[a] = prog[a]
             /\ step'[a] = step[a]
  BY <1>2, ResolveFrame, ResolveEffects, OwnTransaction
     DEF StatementFails, IInv, TypeOK, ResourcesOK
<1>3. CASE \A o \in Ops : ~Resolve(o)
  <2>1. UNCHANGED <<pending, spoiled, prog, field, step>>
    BY <1>3, EffectsFrame
  <2>2. txn[a] = "rolledback" => txn'[a] = "rolledback"
    BY SettledStays
  <2>3. ASSUME phase[a] = "resolving"
        PROVE  phase'[a] = "resolving" \/ txn'[a] = "rolledback"
    <3>1. ASSUME NEW o \in Ops, Arrive(o) \/ TxStart(o) \/ Begin(o)
                 \/ Respond(o) \/ Commit(o) \/ TxTimeout(o) \/ SideProgress(o)
          PROVE  phase'[a] = "resolving"
      BY <2>3, <3>1 DEF Arrive, TxStart, Begin, Respond, Commit, TxTimeout,
         SideProgress, SideAcquire, PermissionsReady, PermissionsFail, IInv,
         TypeOK, PlaceOK
    <3>2. ASSUME ProcessExit PROVE txn'[a] = "rolledback"
      BY <2>3, <3>2 DEF ProcessExit, IInv, TxFollowsPhase
    <3>3. ASSUME UNCHANGED vars PROVE phase'[a] = "resolving"
      BY <2>3, <3>3 DEF vars
    <3>. QED BY <1>3, <3>1, <3>2, <3>3 DEF Next, TxRefused, Crash
  <2>. QED BY <2>1, <2>2, <2>3 DEF IInv, AuditIsNext
<1>. QED BY <1>1, <1>2, <1>3 DEF IInv, AuditIsNext

\* The database keeps what it has, and takes over whole transactions.
LEMMA StoreStep ==
  ASSUME IInv, [Next]_vars
  PROVE  \E landed \in SUBSET {o \in Ops : txn[o] = "ended" /\ ~spoiled[o]} :
           /\ store' = store \cup UNION {pending[o] : o \in landed}
           /\ \A o \in Ops : txn'[o] = "committed" <=>
                               o \in landed \/ txn[o] = "committed"
<1>. USE DEF IInv, TypeOK, ResourcesOK
<1>. DEFINE Ready == {o \in Ops : txn[o] = "ended" /\ ~spoiled[o]}
            Takes(landed) ==
              /\ store' = store \cup UNION {pending[o] : o \in landed}
              /\ \A o \in Ops : txn'[o] = "committed" <=>
                                  o \in landed \/ txn[o] = "committed"
<1>1. ASSUME NEW a \in Ops, Commit(a), ~spoiled[a] PROVE Takes({a}) /\ a \in Ready
  BY <1>1 DEF Commit
<1>2. ASSUME NEW a \in Ops, Commit(a), spoiled[a] PROVE Takes({})
  BY <1>2 DEF Commit
<1>3. ASSUME ProcessExit 
      PROVE  \E landed \in SUBSET Ready : Takes(landed)
  <2>1. PICK landed \in SUBSET Ready :
          /\ store' = store \cup UNION {pending[o] : o \in landed}
          /\ txn' = [o \in Ops |->
                       IF o \in landed THEN "committed"
                       ELSE IF txn[o] \in {"waiting", "open", "ended"}
                            THEN "rolledback" ELSE txn[o]]
    BY <1>3 DEF ProcessExit
  <2>2. Takes(landed)
    BY <2>1
  <2>. QED BY <2>2
<1>4. ASSUME UNCHANGED store,
             \A o \in Ops : txn'[o] = "committed" <=> txn[o] = "committed"
      PROVE  Takes({})
  BY <1>4
<1>5. ASSUME NEW a \in Ops,
             Arrive(a) \/ TxStart(a) \/ Respond(a) \/ TxTimeout(a)
      PROVE  Takes({})
  <2>1. UNCHANGED store
    BY <1>5 DEF Arrive, TxStart, Respond, TxTimeout, environment
  <2>2. ASSUME NEW o \in Ops
        PROVE  txn'[o] = "committed" <=> txn[o] = "committed"
    BY <1>5 DEF Arrive, TxStart, Respond, TxTimeout, TxFollowsPhase
  <2>. QED BY <1>4, <2>1, <2>2
<1>6. ASSUME NEW a \in Ops, SideProgress(a) \/ Begin(a) PROVE Takes({})
  BY <1>4, <1>6 DEF SideProgress, SideAcquire, PermissionsReady,
     PermissionsFail, Begin, connection, environment
<1>7. ASSUME NEW a \in Ops, Resolve(a) PROVE Takes({})
  BY <1>4, <1>7, ResolveFrame
<1>8. ASSUME UNCHANGED vars PROVE Takes({})
  BY <1>4, <1>8 DEF vars
<1>9. ASSUME NEW a \in Ops, Commit(a) 
      PROVE  \E landed \in SUBSET Ready : Takes(landed)
  <2>1. CASE spoiled[a]
    <3>1. Takes({}) /\ {} \in SUBSET Ready
      BY <1>2, <1>9, <2>1
    <3>. QED BY <3>1
  <2>2. CASE ~spoiled[a]
    <3>1. Takes({a}) /\ {a} \in SUBSET Ready
      BY <1>1, <1>9, <2>2
    <3>. QED BY <3>1
  <2>. QED BY <2>1, <2>2
<1>10. Takes({}) => \E landed \in SUBSET Ready : Takes(landed)
  <2>1. {} \in SUBSET Ready
    OBVIOUS
  <2>. QED BY <2>1
<1>11. \E landed \in SUBSET Ready : Takes(landed)
  <2>. HIDE DEF Takes, Ready
  <2>. QED
    BY <1>3, <1>5, <1>6, <1>7, <1>8, <1>9, <1>10 DEF Next, TxRefused, Crash
<1>. QED BY <1>11

LEMMA ChangesAreAuditedStep == IInv /\ [Next]_vars => ChangesAreAudited'
<1>. SUFFICES ASSUME IInv, [Next]_vars,
                     NEW o \in Ops, NEW f \in 1 .. MaxFields,
                     Row(o, f) \in store'
              PROVE  Audit(o, f) \in store'
  BY DEF ChangesAreAudited
<1>1. PICK landed \in SUBSET {a \in Ops : txn[a] = "ended" /\ ~spoiled[a]} :
        store' = store \cup UNION {pending[a] : a \in landed}
  BY StoreStep
<1>2. CASE Row(o, f) \in store
  BY <1>1, <1>2 DEF IInv, ChangesAreAudited
<1>3. ASSUME NEW a \in landed, Row(o, f) \in pending[a]
      PROVE  Audit(o, f) \in store'
  <2>1. a = o
    BY <1>3 DEF IInv, OwnEffects, Row
  <2>2. Audit(o, f) \in pending[o]
    BY <1>3, <2>1, EndedIsAudited
  <2>. QED BY <1>1, <1>3, <2>1, <2>2
<1>. QED BY <1>1, <1>2, <1>3

LEMMA IInvStep ==
  ASSUME SeparateRequests
  PROVE  IInv /\ [Next]_vars => IInv'
<1>. SUFFICES ASSUME IInv, [Next]_vars PROVE IInv'
  OBVIOUS
<1>1. TypeOK'
  BY StepType DEF IInv
<1>. QED
  BY <1>1, TxFollowsPhaseStep, BoundToOwnStep, OwnEffectsStep,
     SpoiledHasThrownStep, AuditIsNextStep, ChangesAreAuditedStep DEF IInv

LEMMA Inductive ==
  ASSUME SeparateRequests
  PROVE  Spec => []IInv
  BY InitIInv, IInvStep, PTL DEF Spec

\* When no two operations share a request, a committed change always has its
\* audit entry.
THEOREM AuditCompleteness ==
  ASSUME SeparateRequests
  PROVE  Spec => []ChangesAreAudited
<1>1. IInv => ChangesAreAudited
  BY DEF IInv
<1>. QED BY <1>1, Inductive, PTL

\* ... its transaction is there as long as it is being resolved ...
THEOREM TransactionForRequest ==
  ASSUME SeparateRequests
  PROVE  Spec => []TransactionLastsForRequest
<1>1. IInv => TransactionLastsForRequest
  BY OwnTransaction DEF TransactionLastsForRequest
<1>. QED BY <1>1, Inductive, PTL

\* ... and it is not answered ok after one of its statements failed.
THEOREM AcknowledgedCorrect ==
  ASSUME SeparateRequests
  PROVE  Spec => []AcknowledgedIsNotSpoiled
<1>1. IInv => AcknowledgedIsNotSpoiled
  BY DEF IInv, SpoiledHasThrown, AcknowledgedIsNotSpoiled
<1>. QED BY <1>1, Inductive, PTL

-----------------------------------------------------------------------------
(* Refinement of AtomicRequests.                                           *)

\* A step settles whole transactions, and only transactions not yet settled.
LEMMA SettleStep ==
  ASSUME IInv, [Next]_vars, UNCHANGED pending
  PROVE  \E applied, discarded \in SUBSET Ops :
           Atomic!Settle(applied, discarded)
<1>. DEFINE newly(s) == {o \in Ops : txn'[o] = s /\ txn[o] # s}
            applied == newly("committed")
            discarded == newly("rolledback")
<1>1. PICK landed \in SUBSET {o \in Ops : txn[o] = "ended" /\ ~spoiled[o]} :
        /\ store' = store \cup UNION {pending[o] : o \in landed}
        /\ \A o \in Ops : txn'[o] = "committed" <=>
                            o \in landed \/ txn[o] = "committed"
  BY StoreStep
<1>2. applied = landed
  BY <1>1
<1>3. applied \cap discarded = {}
  OBVIOUS
<1>4. \A o \in applied \cup discarded : verdict[o] = "open"
  BY SettledStays DEF verdict
<1>5. ASSUME NEW o \in applied PROVE Atomic!Audited(pending[o])
  <2>1. SUFFICES ASSUME NEW a \in Ops, NEW f \in 1 .. MaxFields,
                        Row(a, f) \in pending[o]
                 PROVE  Audit(a, f) \in pending[o]
    BY DEF Atomic!Audited, Atomic!Row, Atomic!Audit, Row, Audit
  <2>2. a = o
    BY <2>1 DEF IInv, OwnEffects, Row
  <2>. QED BY <1>2, <2>1, <2>2, EndedIsAudited
<1>6. verdict' = [o \in Ops |-> IF o \in applied THEN "applied"
                                ELSE IF o \in discarded THEN "discarded"
                                ELSE verdict[o]]
  BY SettledStays DEF verdict
<1>7. store' = store \cup UNION {pending[o] : o \in applied}
  BY <1>1, <1>2
<1>8. Atomic!Settle(applied, discarded)
  BY <1>3, <1>4, <1>5, <1>6, <1>7 DEF Atomic!Settle
<1>. QED BY <1>8

\* A statement that succeeds adds an effect of its operation.
LEMMA PerformStep ==
  ASSUME IInv, NEW o \in Ops, Resolve(o), pending' # pending
  PROVE  Atomic!Perform(o)
<1>1. UNCHANGED <<txn, store>>
  BY ResolveFrame DEF IInv
<1>2. PICK e \in {Row(o, field[o]), Audit(o, field[o])} :
        pending' = [pending EXCEPT ![o] = @ \cup {e}] /\ txn[o] = "open"
  BY ResolveEffects DEF StatementFails
<1>3. e \in Atomic!Footprint(o)
  BY DEF Atomic!Footprint, Row, Audit, IInv, TypeOK, PlaceOK
<1>. QED BY <1>1, <1>2, <1>3 DEF Atomic!Perform, verdict

\* The operations implement the atomic ones: each takes effect as a whole,
\* audited, or not at all.
THEOREM RequestsAreAtomic ==
  ASSUME SeparateRequests
  PROVE  Spec => AtomicSpec
<1>1. Init => Atomic!Init
  BY DEF Init, Atomic!Init, verdict
<1>2. IInv /\ [Next]_vars => [Atomic!Next]_(Atomic!vars)
  <2>. SUFFICES ASSUME IInv, [Next]_vars PROVE [Atomic!Next]_(Atomic!vars)
    OBVIOUS
  <2>1. CASE UNCHANGED pending
    BY <2>1, SettleStep DEF Atomic!Next
  <2>2. CASE pending' # pending
    <3>1. PICK o \in Ops : Resolve(o)
      BY <2>2, EffectsFrame
    <3>. QED BY <2>2, <3>1, PerformStep DEF Atomic!Next
  <2>. QED BY <2>1, <2>2
<1>. QED BY <1>1, <1>2, Inductive, PTL DEF Spec, AtomicSpec, Atomic!Spec
=============================================================================
