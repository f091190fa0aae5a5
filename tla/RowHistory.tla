------------------------------ MODULE RowHistory ------------------------------
(***************************************************************************)
(* The rows that update and delete resolvers share.  Every operation runs  *)
(* its mutations in a transaction of its own, under PostgreSQL's default   *)
(* isolation level READ COMMITTED (no resolver asks for another): a SELECT *)
(* sees what is committed at that moment or its own changes, an UPDATE or  *)
(* DELETE waits for the transaction that last changed the row and then     *)
(* acts on the version that one left.                                      *)
(*                                                                         *)
(* The resolver template is find, check, write, audit.  What it finds may  *)
(* be gone or different by the time it writes.                             *)
(*                                                                         *)
(* An update without a column changes nothing: Prisma reads the row and    *)
(* sends no UPDATE, so that nothing is locked.  Its audit entry says that  *)
(* nothing changed, of versions that may be old by then; the trail of the  *)
(* row here is made of the entries of changes.                             *)
(***************************************************************************)
EXTENDS Naturals, Sequences, FiniteSets

CONSTANTS
  Ops,        \* GraphQL operations, each with its own transaction
  Rows,       \* identities of rows
  Fields,     \* columns
  Values,     \* their values
  Start,      \* [Rows -> RowValue], the table before the first operation
  Documents,  \* sequences of mutations an operation may ask for
  Readable,   \* rows that accessibleBy(permissions) lets the users find
  Allowed,    \* [{"update", "delete"} -> SUBSET RowValue], permissions.can
  Gone,       \* the value of a deleted row
  Clean,      \* no uncommitted change
  NoOne       \* nobody holds the row lock

RowValue == [Fields -> Values]
Version == RowValue \cup {Gone}

ASSUME StartAssumption == Start \in [Rows -> RowValue]
ASSUME RuleAssumption ==
  /\ Readable \subseteq RowValue
  /\ Allowed \in [{"update", "delete"} -> SUBSET RowValue]
ASSUME NullAssumption ==
  /\ Gone \notin RowValue
  /\ Clean \notin Version
  /\ NoOne \notin Ops

\* updateX(id, input) with the columns that are present in input; deleteX(id).
Inputs == UNION {[columns -> Values] : columns \in SUBSET Fields}
Mutation == [kind : {"update"}, row : Rows, input : Inputs]
            \cup [kind : {"delete"}, row : Rows]

ASSUME DocumentAssumption ==
  \A d \in Documents : d \in Seq(Mutation) /\ Len(d) > 0

VARIABLES
  doc,      \* the mutations of the operation
  place,    \* the one being resolved
  pc,       \* the statement of the resolver that runs next
  seen,     \* rowToUpdate, rowToDelete: what the audit entry calls oldValue
  state,    \* the transaction
  spoiled,  \* a statement of it failed
  draft,    \* rows as the transaction has changed them
  result,   \* what the statement returned: the row as it now is, or was
  entries,  \* audit entries of changes the transaction has inserted, by row
  lock,     \* who holds the row
  table,    \* committed rows
  trail     \* committed audit entries of changes, by row

vars == <<doc, place, pc, seen, result, state, spoiled, draft, entries, lock,
          table, trail>>

\* "note" is the audit of an update that changed nothing.
Step == {"find", "check", "write", "audit", "note", "verify"}
Entry == [by : Ops, mutation : Mutation, old : Version, new : Version]

Init ==
  /\ doc \in [Ops -> Documents]
  /\ place = [o \in Ops |-> 1]
  /\ pc = [o \in Ops |-> "find"]
  /\ seen = [o \in Ops |-> Gone]
  /\ result = [o \in Ops |-> Gone]
  /\ state = [o \in Ops |-> "open"]
  /\ spoiled = [o \in Ops |-> FALSE]
  /\ draft = [o \in Ops |-> [r \in Rows |-> Clean]]
  /\ entries = [o \in Ops |-> [r \in Rows |-> <<>>]]
  /\ lock = [r \in Rows |-> NoOne]
  /\ table = Start
  /\ trail = [r \in Rows |-> <<>>]

-----------------------------------------------------------------------------
Asked(o) == doc[o][place[o]]
Target(o) == Asked(o).row

\* An update without a column, which Prisma answers with a SELECT.
NothingAsked(o) == Asked(o).kind = "update" /\ DOMAIN Asked(o).input = {}

\* The version of a row that a statement of o sees.
View(o, r) == IF draft[o][r] = Clean THEN table[r] ELSE draft[o][r]

\* prisma.update changes the columns in the input, prisma.delete the row.
Applied(mutation, version) ==
  IF mutation.kind = "delete" THEN Gone
  ELSE [f \in Fields |-> IF f \in DOMAIN mutation.input
                         THEN mutation.input[f] ELSE version[f]]

Running(o) == state[o] = "open"
Usable(o) == state[o] = "open" /\ ~spoiled[o]

request == <<doc, place, seen, result>>
tx == <<spoiled, draft, entries>>
database == <<lock, table, trail>>

-----------------------------------------------------------------------------
(* The resolver.                                                           *)

\* Any error ends the document: root fields of a mutation are non-null.
\* willSendResponse then ends the transaction, whatever the response says.
Answer(o) == state' = [state EXCEPT ![o] = "ended"] /\ UNCHANGED pc

\* findFirst({ where: { AND: [{ id }, accessibleBy(permissions)] } })
Find(o) ==
  /\ Running(o) /\ pc[o] = "find"
  /\ View(o, Target(o)) \in Readable
  /\ seen' = [seen EXCEPT ![o] = View(o, Target(o))]
  /\ pc' = [pc EXCEPT ![o] = "check"]
  /\ UNCHANGED <<doc, place, result, state, tx, database>>

NotFound(o) ==
  /\ Running(o) /\ pc[o] = "find"
  /\ View(o, Target(o)) \notin Readable
  /\ Answer(o)
  /\ UNCHANGED <<request, tx, database>>

\* permissions.can(action, subject(X, row)) on the row that was found.
Check(o) ==
  /\ Running(o) /\ pc[o] = "check"
  /\ \/ /\ seen[o] \in Allowed[Asked(o).kind]
        /\ pc' = [pc EXCEPT ![o] = "write"]
        /\ UNCHANGED state
     \/ /\ seen[o] \notin Allowed[Asked(o).kind]
        /\ Answer(o)
  /\ UNCHANGED <<request, tx, database>>

\* The resolver writes back the whole row that it found.
Write_Bug(o) ==
  LET r == Target(o)
      stale == Applied(Asked(o), seen[o])
  IN  /\ Running(o) /\ pc[o] = "write" /\ ~NothingAsked(o)
      /\ lock[r] \in {o, NoOne}
      /\ View(o, r) # Gone
      /\ draft' = [draft EXCEPT ![o][r] = stale]
      /\ result' = [result EXCEPT ![o] = IF stale = Gone THEN seen[o] ELSE stale]
      /\ lock' = [lock EXCEPT ![r] = o]
      /\ pc' = [pc EXCEPT ![o] = "audit"]
      /\ UNCHANGED <<doc, place, seen, state, spoiled, entries, table, trail>>

\* prisma.update or prisma.delete has the row to itself.  update returns the
\* changed row; delete the one it removed, which the resolver reports as the old
\* value.
Write(o) ==
  LET r == Target(o)
      changed == Applied(Asked(o), View(o, r))
  IN  /\ Running(o) /\ pc[o] = "write" /\ ~NothingAsked(o)
      /\ lock[r] \in {o, NoOne}
      /\ View(o, r) # Gone
      /\ draft' = [draft EXCEPT ![o][r] = changed]
      /\ \/ /\ Asked(o).kind = "update"
            /\ result' = [result EXCEPT ![o] = changed]
            /\ UNCHANGED seen
         \/ /\ Asked(o).kind = "delete"
            /\ result' = [result EXCEPT ![o] = View(o, r)]
            /\ seen' = [seen EXCEPT ![o] = View(o, r)]
      /\ lock' = [lock EXCEPT ![r] = o]
      /\ pc' = [pc EXCEPT ![o] = "audit"]
      /\ UNCHANGED <<doc, place, state, spoiled, entries, table, trail>>

\* prisma.update of no column: the row is read again and returned, whoever holds
\* it.
WriteNothing(o) ==
  /\ Running(o) /\ pc[o] = "write" /\ NothingAsked(o)
  /\ View(o, Target(o)) # Gone
  /\ result' = [result EXCEPT ![o] = View(o, Target(o))]
  /\ pc' = [pc EXCEPT ![o] = "note"]
  /\ UNCHANGED <<doc, place, seen, state, tx, database>>

\* Another operation deleted the row since it was found.
RowGone(o) ==
  /\ Running(o) /\ pc[o] = "write"
  /\ lock[Target(o)] \in {o, NoOne} \/ NothingAsked(o)
  /\ View(o, Target(o)) = Gone
  /\ Answer(o)
  /\ UNCHANGED <<request, tx, database>>

\* The audit entry reports the returned row as the old value.
WriteAudit_Bug(o) ==
  LET r == Target(o)
      entry == [by |-> o, mutation |-> Asked(o),
                old |-> draft[o][r], new |-> draft[o][r]]
  IN  /\ Running(o) /\ pc[o] = "audit"
      /\ entries' = [entries EXCEPT ![o][r] = Append(@, entry)]
      /\ pc' = [pc EXCEPT ![o] = "verify"]
      /\ UNCHANGED <<request, state, spoiled, draft, database>>

\* The new value is put together from the row that was found and the input.
WriteAudit_Merged_Bug(o) ==
  LET r == Target(o)
      entry == [by |-> o, mutation |-> Asked(o),
                old |-> seen[o], new |-> Applied(Asked(o), seen[o])]
  IN  /\ Running(o) /\ pc[o] = "audit"
      /\ entries' = [entries EXCEPT ![o][r] = Append(@, entry)]
      /\ pc' = [pc EXCEPT ![o] = "verify"]
      /\ UNCHANGED <<request, state, spoiled, draft, database>>

\* genAuditLog({ oldValue: rowToUpdate, newValue: result }).
WriteAudit(o) ==
  LET r == Target(o)
      entry == [by |-> o, mutation |-> Asked(o),
                old |-> seen[o], new |-> draft[o][r]]
  IN  /\ Running(o) /\ pc[o] = "audit"
      /\ entries' = [entries EXCEPT ![o][r] = Append(@, entry)]
      /\ pc' = [pc EXCEPT ![o] = "verify"]
      /\ UNCHANGED <<request, state, spoiled, draft, database>>

\* The audit entry of no change, which the trail of the row leaves out.
WriteNote(o) ==
  /\ Running(o) /\ pc[o] = "note"
  /\ pc' = [pc EXCEPT ![o] = "verify"]
  /\ UNCHANGED <<request, state, tx, database>>

\* The rule handler checks the value that the resolver returned.
Passes(o) == result[o] \in Allowed[Asked(o).kind] \cap Readable

\* The next root field of a document that has none left.
NextField_Bug(o) ==
  /\ Running(o) /\ pc[o] = "verify"
  /\ Passes(o)
  /\ place' = [place EXCEPT ![o] = @ + 1]
  /\ pc' = [pc EXCEPT ![o] = "find"]
  /\ UNCHANGED <<doc, seen, result, state, tx, database>>

NextField(o) ==
  /\ Running(o) /\ pc[o] = "verify"
  /\ Passes(o) /\ place[o] < Len(doc[o])
  /\ place' = [place EXCEPT ![o] = @ + 1]
  /\ pc' = [pc EXCEPT ![o] = "find"]
  /\ UNCHANGED <<doc, seen, result, state, tx, database>>

Finish(o) ==
  /\ Running(o) /\ pc[o] = "verify"
  /\ ~Passes(o) \/ place[o] = Len(doc[o])
  /\ Answer(o)
  /\ UNCHANGED <<request, tx, database>>

-----------------------------------------------------------------------------
(* PostgreSQL and the Prisma transaction.                                  *)

Waits(o) ==
  /\ Usable(o) /\ pc[o] = "write" /\ ~NothingAsked(o)
  /\ lock[Target(o)] \notin {o, NoOne}
Blocker(o) == lock[Target(o)]

\* o is on a cycle of operations that wait for each other.
Deadlocked(o) ==
  \E cycle \in SUBSET Ops :
    /\ o \in cycle
    /\ \A a \in cycle : Waits(a) /\ Blocker(a) \in cycle
    /\ \A a \in cycle : \E b \in cycle : Blocker(b) = a

\* The statement is rejected, PostgreSQL ignores the rest of the transaction.
\* Of operations that wait in a cycle, the one that looks first is the victim.
StatementFails(o) ==
  /\ Usable(o)
  /\ pc[o] \in {"find", "audit", "note"} \/ Deadlocked(o)
  /\ spoiled' = [spoiled EXCEPT ![o] = TRUE]
  /\ Answer(o)
  /\ UNCHANGED <<request, draft, entries, database>>

Release(o) == lock' = [r \in Rows |-> IF lock[r] = o THEN NoOne ELSE lock[r]]

\* The promise that the transaction waits on is resolved on success only.
Commit_Bug(o) ==
  /\ state[o] = "ended" /\ ~spoiled[o]
  /\ state' = [state EXCEPT ![o] = "committed"]
  /\ table' = [r \in Rows |-> View(o, r)]
  /\ trail' = [r \in Rows |-> trail[r] \o entries[o][r]]
  /\ Release(o)
  /\ UNCHANGED <<request, pc, tx>>

Commit(o) ==
  /\ state[o] = "ended"
  /\ \/ /\ ~spoiled[o]
        /\ state' = [state EXCEPT ![o] = "committed"]
        /\ table' = [r \in Rows |-> View(o, r)]
        /\ trail' = [r \in Rows |-> trail[r] \o entries[o][r]]
     \/ /\ spoiled[o]
        /\ state' = [state EXCEPT ![o] = "rolledback"]
        /\ UNCHANGED <<table, trail>>
  /\ Release(o)
  /\ UNCHANGED <<request, pc, tx>>

\* The transaction timed out or its connection broke.  Later statements of
\* the operation throw, so nothing that matters here comes after.
Rollback(o) ==
  /\ state[o] \in {"open", "ended"}
  /\ state' = [state EXCEPT ![o] = "rolledback"]
  /\ Release(o)
  /\ UNCHANGED <<request, pc, tx, table, trail>>

-----------------------------------------------------------------------------
Resolve(o) ==
  \/ Find(o) \/ NotFound(o) \/ Check(o)
  \/ Write(o) \/ WriteNothing(o) \/ RowGone(o) \/ WriteAudit(o) \/ WriteNote(o)
  \/ NextField(o) \/ Finish(o) \/ StatementFails(o)

Next == \E o \in Ops : Resolve(o) \/ Commit(o) \/ Rollback(o)

\* Statements are executed, the deadlock detector runs, transactions that
\* were told to end do.  No timer is needed: Rollback is not fair.
Spec ==
  /\ Init /\ [][Next]_vars
  /\ \A o \in Ops : WF_vars(Resolve(o)) /\ WF_vars(Commit(o))

-----------------------------------------------------------------------------
(* Properties.                                                             *)

\* Every variable has its type.
TypeOK ==
  /\ doc \in [Ops -> Documents]
  /\ place \in [Ops -> Nat]
  /\ \A o \in Ops : place[o] \in 1 .. Len(doc[o])
  /\ pc \in [Ops -> Step]
  /\ seen \in [Ops -> Version] /\ result \in [Ops -> Version]
  /\ state \in [Ops -> {"open", "ended", "committed", "rolledback"}]
  /\ spoiled \in [Ops -> BOOLEAN]
  /\ draft \in [Ops -> [Rows -> Version \cup {Clean}]]
  /\ entries \in [Ops -> [Rows -> Seq(Entry)]]
  /\ lock \in [Rows -> Ops \cup {NoOne}]
  /\ table \in [Rows -> Version]
  /\ trail \in [Rows -> Seq(Entry)]

\* The row after its first k audited changes, as the audit log has it.
After(r, k) == IF k = 0 THEN Start[r] ELSE trail[r][k].new

\* A row is the new value of its last audit entry, or the first version:
\* transactions commit in the order in which their entries describe them, also
\* when an operation waited for another between reading the row and changing it.
TrailEndsAtRow == \A r \in Rows : table[r] = After(r, Len(trail[r]))

\* The versions that the audited mutations, applied one after the other, make of
\* the first version.
Made(r) ==
  LET made[k \in 0 .. Len(trail[r])] ==
        IF k = 0 THEN Start[r] ELSE Applied(trail[r][k].mutation, made[k - 1])
  IN  made

\* No update is lost: a row is what the audited mutations, applied one after
\* the other, make of the first version, though each of them was checked
\* against a version that may be older than the one it changed.
NoLostUpdate == \A r \in Rows : table[r] = Made(r)[Len(trail[r])]

\* The old value of an entry is a version the row had before the change, never
\* one that was rolled back.
OldValueExisted ==
  \A r \in Rows : \A i \in DOMAIN trail[r] :
    trail[r][i].old \in {Start[r]} \cup {trail[r][j].new : j \in 1 .. i - 1}

\* Everyone who waits for a row gets it, or fails: mutations of several rows
\* in opposite orders do not stop each other for ever.
OperationsSettle ==
  \A o \in Ops : <>(state[o] \in {"committed", "rolledback"})
=============================================================================
