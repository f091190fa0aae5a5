-------------------------- MODULE RowHistory_proofs --------------------------
(***************************************************************************)
(* What the audit log says of the rows, for any operations, rows, documents*)
(* and rules, however the transactions interleave, fail and commit.        *)
(***************************************************************************)
EXTENDS RowHistory, WellFoundedInduction, TLAPS

-----------------------------------------------------------------------------
(* The inductive invariant.                                                *)

\* Transactions that may still commit what they have done.
Live(o) == state[o] \in {"open", "ended"} /\ ~spoiled[o]

\* A transaction whose statement failed is told to end at once, and none ends
\* between a change and its audit entry.
Stops(o) ==
  /\ state[o] = "open" => ~spoiled[o]
  /\ state[o] = "ended" /\ ~spoiled[o] => pc[o] # "audit"

\* The change of r that o has yet to audit.
Pending(o, r) == pc[o] = "audit" /\ Target(o) = r

\* The row after the first k changes that o has audited.
Before(o, r, k) == IF k = 0 THEN table[r] ELSE entries[o][r][k].new
Latest(o, r) == Before(o, r, Len(entries[o][r]))

\* Versions of r that were committed, or that o has audited.
Past(r) == {Start[r]} \cup {trail[r][j].new : j \in 1 .. Len(trail[r])}
Own(o, r, k) == {entries[o][r][j].new : j \in 1 .. k}
Known(o, r) == Past(r) \cup Own(o, r, Len(entries[o][r]))

\* Whoever changed a row holds it, and has audited all but the change it is at.
Held(o, r) ==
  /\ draft[o][r] = Clean => entries[o][r] = <<>> /\ ~Pending(o, r)
  /\ draft[o][r] # Clean => lock[r] = o
  /\ draft[o][r] # Clean /\ ~Pending(o, r) =>
       entries[o][r] # <<>> /\ draft[o][r] = Latest(o, r)
  /\ Pending(o, r) => draft[o][r] = Applied(Asked(o), Latest(o, r))

\* The entries of a transaction continue the committed ones.
Continues(o, r) ==
  \A i \in 1 .. Len(entries[o][r]) :
    /\ entries[o][r][i].new = Applied(entries[o][r][i].mutation, Before(o, r, i - 1))
    /\ entries[o][r][i].old \in Past(r) \cup Own(o, r, i - 1)

\* What the resolver has found, or deleted, is a version the row had.
Found(o) == pc[o] \in {"check", "write", "audit"} => seen[o] \in Known(o, Target(o))

Sane(o) == Live(o) =>
  /\ \A r \in Rows : Held(o, r) /\ Continues(o, r)
  /\ Found(o)

\* Every entry is what its mutation makes of the one before.
Chained ==
  \A r \in Rows : \A i \in 1 .. Len(trail[r]) :
    trail[r][i].new = Applied(trail[r][i].mutation, After(r, i - 1))

IInv ==
  /\ TypeOK
  /\ TrailEndsAtRow
  /\ Chained
  /\ OldValueExisted
  /\ \A o \in Ops : Stops(o) /\ Sane(o)

-----------------------------------------------------------------------------
(* Versions and mutations.                                                 *)

\* A mutation of a row that exists makes a version of it.
LEMMA AppliedType ==
  ASSUME NEW m \in Mutation, NEW v \in Version, v # Gone
  PROVE  Applied(m, v) \in Version
<1>1. CASE m.kind = "delete"
  BY <1>1 DEF Applied, Version
<1>2. CASE m.kind # "delete"
  <2>1. m \in [kind : {"update"}, row : Rows, input : Inputs]
    BY <1>2 DEF Mutation
  <2>2. PICK columns \in SUBSET Fields : m.input \in [columns -> Values]
    BY <2>1 DEF Inputs
  <2>3. v \in [Fields -> Values]
    BY DEF Version, RowValue
  <2> QED
    BY <1>2, <2>2, <2>3 DEF Applied, Version, RowValue
<1> QED
  BY <1>1, <1>2

\* The mutation at hand is one of the document's.
LEMMA AskedType ==
  ASSUME TypeOK, NEW o \in Ops
  PROVE  /\ doc[o] \in Seq(Mutation)
         /\ Asked(o) \in Mutation
         /\ Target(o) \in Rows
<1>1. doc[o] \in Seq(Mutation) /\ place[o] \in 1 .. Len(doc[o])
  BY DocumentAssumption DEF TypeOK
<1>2. Asked(o) \in Mutation
  BY <1>1 DEF Asked
<1> QED
  BY <1>1, <1>2 DEF Target, Mutation

\* What a statement sees is a version.
LEMMA ViewType ==
  ASSUME TypeOK, NEW o \in Ops, NEW r \in Rows
  PROVE  View(o, r) \in Version
BY DEF TypeOK, View

\* An entry that is appended comes after the ones that are there.
LEMMA Appended ==
  ASSUME NEW S, NEW s \in Seq(S), NEW e \in S
  PROVE  /\ Append(s, e) \in Seq(S)
         /\ Len(Append(s, e)) = Len(s) + 1
         /\ \A i \in 1 .. Len(s) : Append(s, e)[i] = s[i]
         /\ Append(s, e)[Len(s) + 1] = e
         /\ Len(s) \in Nat
OBVIOUS

\* Outside of a change that is to be audited, a transaction sees what it has
\* audited last, or the committed row.
LEMMA ViewIsLatest ==
  ASSUME TypeOK, NEW o \in Ops, NEW r \in Rows, Held(o, r), ~Pending(o, r)
  PROVE  View(o, r) = Latest(o, r)
<1>1. CASE draft[o][r] = Clean
  BY <1>1 DEF Held, View, Latest, Before
<1>2. CASE draft[o][r] # Clean
  BY <1>2 DEF Held, View
<1> QED
  BY <1>1, <1>2

\* The latest version is one that is known.
LEMMA LatestKnown ==
  ASSUME TypeOK, TrailEndsAtRow, NEW o \in Ops, NEW r \in Rows
  PROVE  Latest(o, r) \in Known(o, r)
<1>1. /\ trail[r] \in Seq(Entry)
      /\ entries[o][r] \in Seq(Entry)
      /\ Len(trail[r]) \in Nat
      /\ Len(entries[o][r]) \in Nat
  BY DEF TypeOK
<1>2. table[r] \in Past(r)
  BY <1>1 DEF TrailEndsAtRow, After, Past
<1>3. CASE Len(entries[o][r]) = 0
  BY <1>2, <1>3 DEF Latest, Before, Known
<1>4. CASE Len(entries[o][r]) # 0
  BY <1>1, <1>4 DEF Latest, Before, Known, Own
<1> QED
  BY <1>3, <1>4

-----------------------------------------------------------------------------
(* What a step leaves alone.                                               *)

\* The records of a transaction in which nothing happens.
Unmoved(o) ==
  /\ doc'[o] = doc[o] /\ place'[o] = place[o] /\ pc'[o] = pc[o]
  /\ seen'[o] = seen[o] /\ state'[o] = state[o] /\ spoiled'[o] = spoiled[o]
  /\ draft'[o] = draft[o] /\ entries'[o] = entries[o]

\* A step of another operation that commits nothing is not noticed.
LEMMA Unnoticed ==
  ASSUME NEW o \in Ops, Stops(o), Sane(o), Unmoved(o),
         table' = table, trail' = trail,
         \A r \in Rows : lock[r] = o => lock'[r] = o
  PROVE  Stops(o)' /\ Sane(o)'
<1>1. Stops(o)'
  BY DEF Stops, Unmoved
<1>2. ASSUME Live(o)' PROVE (\A r \in Rows : Held(o, r) /\ Continues(o, r))'
                            /\ Found(o)'
  <2>1. Live(o)
    BY <1>2 DEF Live, Unmoved
  <2>2. Asked(o)' = Asked(o) /\ Target(o)' = Target(o)
    BY DEF Asked, Target, Unmoved
  <2>3. \A r : Pending(o, r)' <=> Pending(o, r)
    BY <2>2 DEF Pending, Unmoved
  <2>4. \A r, k : Before(o, r, k)' = Before(o, r, k)
    BY DEF Before, Unmoved
  <2>5. \A r : Latest(o, r)' = Latest(o, r)
    BY <2>4 DEF Latest, Unmoved, Before
  <2>6. \A r : Past(r)' = Past(r)
    BY DEF Past
  <2>7. \A r, k : Own(o, r, k)' = Own(o, r, k)
    BY DEF Own, Unmoved
  <2>8. \A r : Known(o, r)' = Known(o, r)
    BY <2>6, <2>7 DEF Known, Unmoved, Own
  <2>9. ASSUME NEW r \in Rows PROVE Held(o, r)'
    BY <2>1, <2>2, <2>3, <2>5 DEF Sane, Held, Unmoved
  <2>10. ASSUME NEW r \in Rows PROVE Continues(o, r)'
    BY <2>1, <2>4, <2>6, <2>7 DEF Sane, Continues, Unmoved
  <2>11. Found(o)'
    BY <2>1, <2>2, <2>8 DEF Sane, Found, Unmoved
  <2> QED
    BY <2>9, <2>10, <2>11
<1> QED
  BY <1>1, <1>2 DEF Sane

\* A step of the resolver that changes no row, and is not about a change that
\* is to be audited, keeps what is known of them.
LEMMA Reads ==
  ASSUME NEW o \in Ops, Sane(o), Live(o), pc[o] # "audit", pc'[o] # "audit",
         draft' = draft, entries' = entries, table' = table, trail' = trail,
         lock' = lock
  PROVE  \A r \in Rows : Held(o, r)' /\ Continues(o, r)'
<1>1. \A r : ~Pending(o, r) /\ ~Pending(o, r)'
  BY DEF Pending
<1>2. \A r, k : Before(o, r, k)' = Before(o, r, k)
  BY DEF Before
<1>3. \A r : Latest(o, r)' = Latest(o, r)
  BY DEF Latest, Before
<1>4. \A r, k : Past(r)' = Past(r) /\ Own(o, r, k)' = Own(o, r, k)
  BY DEF Past, Own
<1>5. ASSUME NEW r \in Rows PROVE Held(o, r)'
  BY <1>1, <1>3 DEF Sane, Held
<1>6. ASSUME NEW r \in Rows PROVE Continues(o, r)'
  BY <1>2, <1>4 DEF Sane, Continues
<1> QED
  BY <1>5, <1>6

\* A step of o that commits nothing and takes no lock away from others.
LEMMA Uncommitted ==
  ASSUME IInv, TypeOK', NEW o \in Ops, table' = table, trail' = trail,
         \A p \in Ops \ {o} :
           Unmoved(p) /\ \A r \in Rows : lock[r] = p => lock'[r] = p,
         Stops(o)', Sane(o)'
  PROVE  IInv'
<1>1. \A r, k : After(r, k)' = After(r, k)
  BY DEF After
<1>2. (TrailEndsAtRow /\ Chained /\ OldValueExisted)'
  BY <1>1 DEF IInv, TrailEndsAtRow, Chained, OldValueExisted
<1>3. ASSUME NEW p \in Ops PROVE Stops(p)' /\ Sane(p)'
  <2>1. CASE p = o
    BY <2>1
  <2>2. CASE p # o
    BY <2>2, Unnoticed DEF IInv
  <2> QED
    BY <2>1, <2>2
<1> QED
  BY <1>2, <1>3 DEF IInv

\* Answers: the transaction has nothing that it has yet to audit.
LEMMA AnswerStep ==
  ASSUME IInv, NEW o \in Ops, Running(o), Answer(o),
         UNCHANGED <<doc, place, seen, result, draft, entries, lock, table, trail>>,
         \/ pc[o] # "audit" /\ spoiled' = spoiled
         \/ spoiled' = [spoiled EXCEPT ![o] = TRUE]
  PROVE  IInv'
<1> USE DEF IInv, Running, Answer
<1>1. TypeOK'
  BY DEF TypeOK
<1>2. \A p \in Ops \ {o} :
        Unmoved(p) /\ \A r \in Rows : lock[r] = p => lock'[r] = p
  BY DEF Unmoved, TypeOK
<1>3. Stops(o)'
  BY DEF Stops, TypeOK
<1>4. CASE spoiled' = [spoiled EXCEPT ![o] = TRUE]
  <2>1. ~Live(o)'
    BY <1>4 DEF Live, TypeOK
  <2> QED
    BY <1>1, <1>2, <1>3, <2>1, Uncommitted DEF Sane
<1>5. CASE pc[o] # "audit" /\ spoiled' = spoiled
  <2>1. Live(o)
    BY DEF Live, Stops
  <2>2. \A r \in Rows : Held(o, r)' /\ Continues(o, r)'
    BY <1>5, <2>1, Reads
  <2>3. Target(o)' = Target(o) /\ Known(o, Target(o))' = Known(o, Target(o))
    BY DEF Target, Asked, Known, Past, Own
  <2>4. Found(o)'
    BY <2>1, <2>3 DEF Sane, Found
  <2>5. Sane(o)'
    BY <2>2, <2>4 DEF Sane
  <2> QED
    BY <1>1, <1>2, <1>3, <2>5, Uncommitted
<1> QED
  BY <1>4, <1>5

\* Going on, without a change, to a statement that has what it needs.
LEMMA GoOn ==
  ASSUME IInv, TypeOK', NEW o \in Ops, Running(o), pc[o] # "audit",
         UNCHANGED <<doc, state, spoiled, draft, entries, lock, table, trail>>,
         \A p \in Ops \ {o} : place'[p] = place[p] /\ pc'[p] = pc[p] /\ seen'[p] = seen[p],
         pc'[o] # "audit", Found(o)'
  PROVE  IInv'
<1> USE DEF IInv, Running
<1>1. Live(o)
  BY DEF Live, Stops
<1>2. \A p \in Ops \ {o} :
        Unmoved(p) /\ \A r \in Rows : lock[r] = p => lock'[r] = p
  BY DEF Unmoved
<1>3. Stops(o)'
  BY DEF Stops
<1>4. \A r \in Rows : Held(o, r)' /\ Continues(o, r)'
  BY <1>1, Reads
<1> QED
  BY <1>2, <1>3, <1>4, Uncommitted DEF Sane

-----------------------------------------------------------------------------
(* The statements of the resolver.                                         *)

\* What is found is the latest version.
LEMMA FindStep ==
  ASSUME IInv, NEW o \in Ops, Find(o)
  PROVE  IInv'
<1> USE DEF Find, tx, database
<1>1. View(o, Target(o)) \in Version /\ Target(o) \in Rows
  BY AskedType, ViewType DEF IInv
<1>2. TypeOK'
  BY <1>1 DEF IInv, TypeOK, Step
<1>3. Live(o) /\ ~Pending(o, Target(o))
  BY DEF IInv, Running, Live, Stops, Pending
<1>4. View(o, Target(o)) \in Known(o, Target(o))
  BY <1>1, <1>3, ViewIsLatest, LatestKnown DEF IInv, Sane
<1>5. Target(o)' = Target(o) /\ Known(o, Target(o))' = Known(o, Target(o))
  BY DEF Target, Asked, Known, Past, Own
<1>6. seen'[o] = View(o, Target(o)) /\ pc'[o] = "check"
  BY DEF IInv, TypeOK
<1>7. \A p \in Ops \ {o} : place'[p] = place[p] /\ pc'[p] = pc[p] /\ seen'[p] = seen[p]
  BY DEF IInv, TypeOK
<1>8. Found(o)'
  BY <1>4, <1>5, <1>6 DEF Found
<1> HIDE DEF Find
<1> QED
  BY <1>2, <1>6, <1>7, <1>8, GoOn DEF Find

\* The check changes nothing.
LEMMA CheckStep ==
  ASSUME IInv, NEW o \in Ops, Check(o)
  PROVE  IInv'
<1> USE DEF Check, request, tx, database
<1>1. CASE Answer(o)
  BY <1>1, AnswerStep
<1>2. CASE pc' = [pc EXCEPT ![o] = "write"] /\ UNCHANGED state
  <2>1. TypeOK'
    BY <1>2 DEF IInv, TypeOK, Step
  <2>2. Live(o) /\ pc'[o] = "write"
    BY <1>2 DEF IInv, Running, Live, Stops, TypeOK
  <2>3. Target(o)' = Target(o) /\ Known(o, Target(o))' = Known(o, Target(o))
    BY DEF Target, Asked, Known, Past, Own
  <2>4. Found(o)'
    BY <2>2, <2>3 DEF IInv, Sane, Found
  <2>5. \A p \in Ops \ {o} : place'[p] = place[p] /\ pc'[p] = pc[p] /\ seen'[p] = seen[p]
    BY <1>2 DEF IInv, TypeOK
  <2> QED
    BY <1>2, <2>1, <2>2, <2>4, <2>5, GoOn
<1> QED
  BY <1>1, <1>2

\* Neither does the next root field.
LEMMA NextFieldStep ==
  ASSUME IInv, NEW o \in Ops, NextField(o)
  PROVE  IInv'
<1> USE DEF NextField, tx, database
<1>1. doc[o] \in Seq(Mutation) /\ Len(doc[o]) \in Nat
  BY AskedType DEF IInv
<1>2. TypeOK'
  BY <1>1 DEF IInv, TypeOK, Step
<1>3. pc'[o] = "find"
  BY DEF IInv, TypeOK
<1>4. Found(o)'
  BY <1>3 DEF Found
<1>5. \A p \in Ops \ {o} : place'[p] = place[p] /\ pc'[p] = pc[p] /\ seen'[p] = seen[p]
  BY DEF IInv, TypeOK
<1> QED
  BY <1>2, <1>3, <1>4, <1>5, GoOn

\* A change is made on top of the latest version, whatever was found before.
LEMMA WriteStep ==
  ASSUME IInv, NEW o \in Ops, Write(o)
  PROVE  IInv'
<1> DEFINE r == Target(o)
<1> DEFINE v == View(o, r)
<1>1. /\ Running(o) /\ pc[o] = "write"
      /\ lock[r] \in {o, NoOne}
      /\ v # Gone
      /\ draft' = [draft EXCEPT ![o][r] = Applied(Asked(o), v)]
      /\ seen' \in {seen, [seen EXCEPT ![o] = v]}
      /\ \E w \in {v, Applied(Asked(o), v)} : result' = [result EXCEPT ![o] = w]
      /\ lock' = [lock EXCEPT ![r] = o]
      /\ pc' = [pc EXCEPT ![o] = "audit"]
      /\ UNCHANGED <<doc, place, state, spoiled, entries, table, trail>>
  BY DEF Write
<1>2. r \in Rows /\ v \in Version /\ Asked(o) \in Mutation
  BY AskedType, ViewType DEF IInv
<1>3. Applied(Asked(o), v) \in Version
  BY <1>1, <1>2, AppliedType
<1>4. Live(o) /\ ~Pending(o, r) /\ \A q \in Rows : ~Pending(o, q)
  BY <1>1 DEF IInv, Running, Live, Stops, Pending
<1>5. v = Latest(o, r)
  BY <1>2, <1>4, ViewIsLatest DEF IInv, Sane
<1>6. v \in Known(o, r)
  BY <1>2, <1>5, LatestKnown DEF IInv
<1> HIDE DEF v
<1>7. TypeOK'
  <2>1. PICK w \in Version : result' = [result EXCEPT ![o] = w]
    BY <1>1, <1>2, <1>3
  <2>2. seen' \in [Ops -> Version] /\ result' \in [Ops -> Version]
    BY <1>1, <1>2, <2>1 DEF IInv, TypeOK
  <2> QED
    BY <1>1, <1>2, <1>3, <2>2 DEF IInv, TypeOK, Step
<1>8. Asked(o)' = Asked(o) /\ Target(o)' = r
  BY <1>1 DEF Asked, Target
<1>9. /\ \A q, k : Before(o, q, k)' = Before(o, q, k)
      /\ \A q : Latest(o, q)' = Latest(o, q)
      /\ \A q, k : Past(q)' = Past(q) /\ Own(o, q, k)' = Own(o, q, k)
      /\ \A q : Known(o, q)' = Known(o, q)
  BY <1>1 DEF Before, Latest, Past, Own, Known
<1>10. pc'[o] = "audit" /\ state'[o] = "open"
  BY <1>1 DEF IInv, TypeOK, Running
<1>11. \A q \in Rows : Pending(o, q)' <=> q = r
  BY <1>8, <1>10 DEF Pending
<1> HIDE DEF r
<1>12. ASSUME NEW q \in Rows PROVE Held(o, q)'
  <2>1. CASE q = r
    <3>1. draft'[o][q] = Applied(Asked(o), v) /\ lock'[q] = o
      BY <1>1, <1>2, <2>1 DEF IInv, TypeOK
    <3>2. draft'[o][q] # Clean
      BY <3>1, <1>3, NullAssumption
    <3> QED
      BY <2>1, <3>1, <3>2, <1>5, <1>8, <1>9, <1>11 DEF Held
  <2>2. CASE q # r
    <3>1. draft'[o][q] = draft[o][q] /\ lock'[q] = lock[q] /\ entries' = entries
      BY <1>1, <2>2 DEF IInv, TypeOK
    <3>2. Held(o, q)
      BY <1>4 DEF IInv, Sane
    <3> QED
      BY <2>2, <3>1, <3>2, <1>4, <1>9, <1>11 DEF Held
  <2> QED
    BY <2>1, <2>2
<1>13. ASSUME NEW q \in Rows PROVE Continues(o, q)'
  <2>1. Continues(o, q) /\ entries' = entries
    BY <1>1, <1>4 DEF IInv, Sane
  <2> QED
    BY <2>1, <1>9 DEF Continues
<1>14. Found(o)'
  <2>1. seen'[o] \in {v, seen[o]}
    BY <1>1 DEF IInv, TypeOK
  <2>2. seen[o] \in Known(o, r)
    BY <1>1, <1>4 DEF IInv, Sane, Found, r
  <2> QED
    BY <2>1, <2>2, <1>6, <1>8, <1>9 DEF Found
<1>15. ASSUME NEW p \in Ops \ {o}
       PROVE  Unmoved(p) /\ \A q \in Rows : lock[q] = p => lock'[q] = p
  <2>1. Unmoved(p)
    BY <1>1 DEF Unmoved, IInv, TypeOK
  <2>2. lock[r] # p
    BY <1>1, NullAssumption
  <2> QED
    BY <1>1, <2>1, <2>2 DEF IInv, TypeOK
<1>16. Stops(o)' /\ Sane(o)'
  BY <1>1, <1>4, <1>10, <1>12, <1>13, <1>14 DEF Stops, Sane, Live, IInv
<1> QED
  BY <1>1, <1>7, <1>15, <1>16, Uncommitted

\* An update of no column reads the row.
LEMMA WriteNothingStep ==
  ASSUME IInv, NEW o \in Ops, WriteNothing(o)
  PROVE  IInv'
<1> USE DEF WriteNothing, tx, database
<1>1. View(o, Target(o)) \in Version
  BY AskedType, ViewType DEF IInv
<1>2. TypeOK'
  BY <1>1 DEF IInv, TypeOK, Step
<1>3. pc'[o] = "note" /\ Found(o)'
  BY DEF IInv, TypeOK, Found
<1>4. \A p \in Ops \ {o} : place'[p] = place[p] /\ pc'[p] = pc[p] /\ seen'[p] = seen[p]
  BY DEF IInv, TypeOK
<1> QED
  BY <1>2, <1>3, <1>4, GoOn

\* Its audit entry is not one of a change.
LEMMA WriteNoteStep ==
  ASSUME IInv, NEW o \in Ops, WriteNote(o)
  PROVE  IInv'
<1> USE DEF WriteNote, request, tx, database
<1>1. TypeOK'
  BY DEF IInv, TypeOK, Step
<1>2. pc'[o] = "verify" /\ Found(o)'
  BY DEF IInv, TypeOK, Found
<1>3. \A p \in Ops \ {o} : place'[p] = place[p] /\ pc'[p] = pc[p] /\ seen'[p] = seen[p]
  BY DEF IInv, TypeOK
<1> QED
  BY <1>1, <1>2, <1>3, GoOn

\* The entry of a change names a version the row had and the one it has now.
LEMMA WriteAuditStep ==
  ASSUME IInv, NEW o \in Ops, WriteAudit(o)
  PROVE  IInv'
<1> PICK r : r = Target(o)
  OBVIOUS
<1> DEFINE entry == [by |-> o, mutation |-> Asked(o),
                     old |-> seen[o], new |-> draft[o][r]]
<1> DEFINE s == entries[o][r]
<1>1. /\ Running(o) /\ pc[o] = "audit"
      /\ entries' = [entries EXCEPT ![o][r] = Append(s, entry)]
      /\ pc' = [pc EXCEPT ![o] = "verify"]
      /\ UNCHANGED <<doc, place, seen, result, state, spoiled, draft, lock, table, trail>>
  BY DEF WriteAudit, request, database
<1>2. r \in Rows /\ Asked(o) \in Mutation
  BY AskedType DEF IInv
<1>3. Live(o) /\ Pending(o, r)
  BY <1>1 DEF IInv, Running, Live, Stops, Pending
<1>4. /\ draft[o][r] # Clean
      /\ draft[o][r] = Applied(Asked(o), Latest(o, r))
      /\ lock[r] = o
  BY <1>2, <1>3 DEF IInv, Sane, Held
<1>5. entry \in Entry /\ s \in Seq(Entry)
  <2>1. seen[o] \in Version /\ draft[o][r] \in Version
    BY <1>2, <1>4 DEF IInv, TypeOK
  <2>2. s \in Seq(Entry)
    BY <1>2 DEF IInv, TypeOK
  <2> QED
    BY <1>2, <2>1, <2>2 DEF Entry
<1>6. entry.mutation = Asked(o) /\ entry.new = draft[o][r] /\ entry.old = seen[o]
  OBVIOUS
<1> HIDE DEF entry
<1>7. entries'[o][r] = Append(s, entry)
  BY <1>1, <1>2 DEF IInv, TypeOK
<1>8. /\ Append(s, entry) \in Seq(Entry)
      /\ Len(entries'[o][r]) = Len(s) + 1
      /\ \A i \in 1 .. Len(s) : entries'[o][r][i] = s[i]
      /\ entries'[o][r][Len(s) + 1] = entry
      /\ Len(s) \in Nat
  BY <1>5, <1>7, Appended
<1>9. TypeOK'
  BY <1>1, <1>2, <1>8 DEF IInv, TypeOK, Step
<1>10. /\ \A q \in Rows \ {r} : entries'[o][q] = entries[o][q]
       /\ pc'[o] = "verify" /\ state'[o] = "open"
       /\ \A q : ~Pending(o, q)'
  BY <1>1 DEF IInv, TypeOK, Running, Pending
<1>11. /\ \A k \in 0 .. Len(s) : Before(o, r, k)' = Before(o, r, k)
       /\ Latest(o, r)' = entry.new
  BY <1>1, <1>8 DEF Before, Latest
<1>12. /\ \A q : Past(q)' = Past(q)
       /\ \A k \in 0 .. Len(s) : Own(o, r, k)' = Own(o, r, k)
  BY <1>1, <1>8 DEF Past, Own
<1>13. Held(o, r)'
  <2>1. entries'[o][r] # <<>>
    BY <1>8
  <2> QED
    BY <2>1, <1>1, <1>4, <1>6, <1>10, <1>11 DEF Held
<1>14. Continues(o, r)'
  <2> SUFFICES ASSUME NEW i \in 1 .. Len(s) + 1
               PROVE  /\ entries'[o][r][i].new
                           = Applied(entries'[o][r][i].mutation, Before(o, r, i - 1)')
                      /\ entries'[o][r][i].old \in Past(r)' \cup Own(o, r, i - 1)'
    BY <1>8 DEF Continues
  <2>1. i - 1 \in 0 .. Len(s)
    BY <1>8
  <2>2. /\ Before(o, r, i - 1)' = Before(o, r, i - 1)
        /\ Past(r)' \cup Own(o, r, i - 1)' = Past(r) \cup Own(o, r, i - 1)
    BY <2>1, <1>11, <1>12
  <2>3. CASE i \in 1 .. Len(s)
    <3>1. Continues(o, r) /\ entries'[o][r][i] = s[i]
      BY <2>3, <1>2, <1>3, <1>8 DEF IInv, Sane
    <3> QED
      BY <3>1, <2>2, <2>3 DEF Continues
  <2>4. CASE i = Len(s) + 1
    <3>1. i - 1 = Len(s) /\ entries'[o][r][i] = entry
      BY <2>4, <1>8
    <3>2. seen[o] \in Past(r) \cup Own(o, r, Len(s))
      BY <1>1, <1>3 DEF IInv, Sane, Found, Known
    <3> QED
      BY <3>1, <3>2, <2>2, <1>4, <1>6 DEF Latest
  <2> QED
    BY <2>3, <2>4, <1>8
<1> HIDE DEF s
<1>15. ASSUME NEW q \in Rows \ {r} PROVE Held(o, q)' /\ Continues(o, q)'
  <2>1. /\ \A k : Before(o, q, k)' = Before(o, q, k)
        /\ Latest(o, q)' = Latest(o, q)
        /\ \A k : Own(o, q, k)' = Own(o, q, k)
    BY <1>1, <1>10 DEF Before, Latest, Own
  <2>2. ~Pending(o, q)
    BY DEF Pending
  <2>3. Held(o, q) /\ Continues(o, q)
    BY <1>3 DEF IInv, Sane
  <2>4. Held(o, q)'
    BY <1>1, <1>10, <2>1, <2>2, <2>3 DEF Held
  <2>5. Continues(o, q)'
    BY <1>10, <1>12, <2>1, <2>3 DEF Continues
  <2> QED
    BY <2>4, <2>5
<1>16. Found(o)'
  BY <1>10 DEF Found
<1>17. \A p \in Ops \ {o} : Unmoved(p) /\ \A q \in Rows : lock[q] = p => lock'[q] = p
  BY <1>1 DEF Unmoved, IInv, TypeOK
<1>18. Stops(o)' /\ Sane(o)'
  BY <1>1, <1>10, <1>13, <1>14, <1>15, <1>16 DEF Stops, Sane, IInv
<1> QED
  BY <1>1, <1>9, <1>17, <1>18, Uncommitted

-----------------------------------------------------------------------------
(* The end of a transaction.                                               *)

\* A rollback leaves no trace.
LEMMA RollbackStep ==
  ASSUME IInv, NEW o \in Ops, state' = [state EXCEPT ![o] = "rolledback"],
         Release(o),
         UNCHANGED <<doc, place, seen, result, pc, spoiled, draft, entries, table, trail>>
  PROVE  IInv'
<1>1. TypeOK'
  BY DEF IInv, TypeOK, Release
<1>2. \A p \in Ops \ {o} :
        Unmoved(p) /\ \A r \in Rows : lock[r] = p => lock'[r] = p
  BY DEF IInv, TypeOK, Unmoved, Release
<1>3. state'[o] = "rolledback"
  BY DEF IInv, TypeOK
<1>4. Stops(o)' /\ Sane(o)'
  BY <1>3 DEF Stops, Sane, Live
<1> QED
  BY <1>1, <1>2, <1>4, Uncommitted

\* Two sequences, one after the other.
LEMMA Joined ==
  ASSUME NEW S, NEW s \in Seq(S), NEW t \in Seq(S)
  PROVE  /\ s \o t \in Seq(S)
         /\ Len(s) \in Nat /\ Len(t) \in Nat
         /\ Len(s \o t) = Len(s) + Len(t)
         /\ \A i \in 1 .. Len(s) : (s \o t)[i] = s[i]
         /\ \A j \in 1 .. Len(t) : (s \o t)[Len(s) + j] = t[j]
OBVIOUS

\* After, once the commit is done.
Later(r, k) == IF k = 0 THEN Start[r] ELSE trail'[r][k].new

\* A commit appends the entries of the transaction and publishes the versions
\* that they end at.  Nobody else has changed these rows.
LEMMA CommitStep ==
  ASSUME IInv, NEW o \in Ops, Commit(o), ~spoiled[o]
  PROVE  IInv'
<1>a. /\ state[o] = "ended"
      /\ state' = [state EXCEPT ![o] = "committed"]
      /\ table' = [r \in Rows |-> View(o, r)]
      /\ trail' = [r \in Rows |-> trail[r] \o entries[o][r]]
      /\ Release(o)
  BY DEF Commit
<1>b. UNCHANGED <<doc, place, seen, result, pc, spoiled, draft, entries>>
  BY DEF Commit, request, tx
<1>1. Live(o) /\ \A r \in Rows : ~Pending(o, r)
  BY <1>a DEF IInv, Live, Stops, Pending
<1>2. \A r \in Rows : Held(o, r) /\ Continues(o, r) /\ View(o, r) = Latest(o, r)
  BY <1>1, ViewIsLatest DEF IInv, Sane
<1>3. ASSUME NEW r \in Rows
      PROVE  /\ trail[r] \in Seq(Entry) /\ entries[o][r] \in Seq(Entry)
             /\ trail'[r] = trail[r] \o entries[o][r]
             /\ trail'[r] \in Seq(Entry)
             /\ Len(trail[r]) \in Nat /\ Len(entries[o][r]) \in Nat
             /\ Len(trail'[r]) = Len(trail[r]) + Len(entries[o][r])
             /\ \A i \in 1 .. Len(trail[r]) : trail'[r][i] = trail[r][i]
             /\ \A j \in 1 .. Len(entries[o][r]) :
                  trail'[r][Len(trail[r]) + j] = entries[o][r][j]
  <2>1. trail[r] \in Seq(Entry) /\ entries[o][r] \in Seq(Entry)
    BY DEF IInv, TypeOK
  <2>2. trail'[r] = trail[r] \o entries[o][r]
    BY <1>a
  <2> DEFINE s == trail[r]
             t == entries[o][r]
             u == trail'[r]
  <2> HIDE DEF s, t, u
  <2>3. s \in Seq(Entry) /\ t \in Seq(Entry) /\ u = s \o t
    BY <2>1, <2>2 DEF s, t, u
  <2>4. /\ u \in Seq(Entry)
        /\ Len(s) \in Nat /\ Len(t) \in Nat
        /\ Len(u) = Len(s) + Len(t)
        /\ \A i \in 1 .. Len(s) : u[i] = s[i]
        /\ \A j \in 1 .. Len(t) : u[Len(s) + j] = t[j]
    BY <2>3, Joined
  <2> QED
    BY <2>3, <2>4 DEF s, t, u
<1>4. TypeOK'
  <2>1. \A r \in Rows : View(o, r) \in Version
    BY ViewType DEF IInv
  <2>2. trail' \in [Rows -> Seq(Entry)] /\ table' \in [Rows -> Version]
    BY <1>a, <1>3, <2>1
  <2> QED
    BY <1>a, <1>b, <2>2 DEF IInv, TypeOK, Release
<1>5. ASSUME NEW r \in Rows
      PROVE  /\ \A k \in 0 .. Len(trail[r]) : Later(r, k) = After(r, k)
             /\ \A j \in 0 .. Len(entries[o][r]) :
                  Later(r, Len(trail[r]) + j) = Before(o, r, j)
  <2>1. ASSUME NEW k \in 0 .. Len(trail[r]) PROVE Later(r, k) = After(r, k)
    <3>1. CASE k = 0
      BY <3>1 DEF Later, After
    <3>2. CASE k # 0
      <4>1. k \in 1 .. Len(trail[r])
        BY <3>2, <1>3
      <4>2. trail'[r][k] = trail[r][k]
        BY <4>1, <1>3
      <4> QED
        BY <3>2, <4>2 DEF Later, After
    <3> QED
      BY <3>1, <3>2
  <2>2. ASSUME NEW j \in 0 .. Len(entries[o][r])
        PROVE  Later(r, Len(trail[r]) + j) = Before(o, r, j)
    <3> DEFINE n == Len(trail[r])
    <3>n. n \in Nat /\ Len(entries[o][r]) \in Nat
      BY <1>3
    <3>1. CASE j = 0
      <4>1. After(r, n) = table[r] /\ Before(o, r, j) = table[r]
        BY <3>1 DEF IInv, TrailEndsAtRow, Before
      <4>2. n \in 0 .. n /\ n + j = n
        BY <3>1, <3>n
      <4> QED
        BY <4>1, <4>2, <2>1
    <3>2. CASE j # 0
      <4>1. j \in 1 .. Len(entries[o][r]) /\ n + j # 0
        BY <3>2, <3>n
      <4>2. trail'[r][n + j] = entries[o][r][j]
        BY <4>1, <1>3
      <4> QED
        BY <4>1, <4>2, <3>2 DEF Later, Before
    <3> QED
      BY <3>1, <3>2
  <2> QED
    BY <2>1, <2>2
<1>6. TrailEndsAtRow'
  <2> SUFFICES ASSUME NEW r \in Rows
               PROVE  table'[r] = After(r, Len(trail[r]))'
    BY DEF TrailEndsAtRow
  <2>1. table'[r] = Before(o, r, Len(entries[o][r]))
    BY <1>a, <1>2 DEF Latest
  <2>2. Len(entries[o][r]) \in 0 .. Len(entries[o][r])
    BY <1>3
  <2>3. Later(r, Len(trail[r]) + Len(entries[o][r])) = Before(o, r, Len(entries[o][r]))
    BY <2>2, <1>5
  <2>4. Len(trail'[r]) = Len(trail[r]) + Len(entries[o][r])
    BY <1>3
  <2> QED
    BY <2>1, <2>3, <2>4 DEF After, Later
<1>7. ASSUME NEW r \in Rows, NEW i \in 1 .. Len(trail'[r]), i \notin 1 .. Len(trail[r])
      PROVE  \E j \in 1 .. Len(entries[o][r]) :
               /\ i = Len(trail[r]) + j
               /\ trail'[r][i] = entries[o][r][j]
  <2> DEFINE s == trail[r]
             t == entries[o][r]
             u == trail'[r]
  <2>1. /\ Len(s) \in Nat /\ Len(t) \in Nat
        /\ Len(u) = Len(s) + Len(t)
        /\ \A j \in 1 .. Len(t) : u[Len(s) + j] = t[j]
    BY <1>3
  <2>2. i \in 1 .. Len(u) /\ i \notin 1 .. Len(s)
    BY <1>7
  <2> HIDE DEF s, t, u
  <2>3. i - Len(s) \in 1 .. Len(t) /\ i = Len(s) + (i - Len(s))
    BY <2>1, <2>2
  <2>4. u[i] = t[i - Len(s)]
    BY <2>1, <2>3
  <2> QED
    BY <2>3, <2>4 DEF s, t, u
<1>8. Chained'
  <2> SUFFICES ASSUME NEW r \in Rows, NEW i \in 1 .. Len(trail'[r])
               PROVE  trail'[r][i].new = Applied(trail'[r][i].mutation, After(r, i - 1)')
    BY DEF Chained
  <2>1. CASE i \in 1 .. Len(trail[r])
    <3>1. i - 1 \in 0 .. Len(trail[r])
      BY <2>1, <1>3
    <3> QED
      <4>1. trail'[r][i] = trail[r][i]
        BY <2>1, <1>3
      <4>2. After(r, i - 1)' = After(r, i - 1)
        BY <3>1, <1>5 DEF After, Later
      <4> QED
        BY <2>1, <4>1, <4>2 DEF IInv, Chained
  <2>2. CASE i \notin 1 .. Len(trail[r])
    <3>1. PICK j \in 1 .. Len(entries[o][r]) :
            i = Len(trail[r]) + j /\ trail'[r][i] = entries[o][r][j]
      BY <2>2, <1>7
    <3>2. j - 1 \in 0 .. Len(entries[o][r]) /\ i - 1 = Len(trail[r]) + (j - 1)
      BY <3>1, <1>3
    <3>3. Later(r, Len(trail[r]) + (j - 1)) = Before(o, r, j - 1)
      BY <3>2, <1>5
    <3>4. After(r, i - 1)' = Before(o, r, j - 1)
      BY <3>2, <3>3 DEF After, Later
    <3> QED
      BY <3>1, <3>4, <1>2 DEF Continues
  <2> QED
    BY <2>1, <2>2
<1>9. ASSUME NEW r \in Rows, NEW i \in Nat, i <= Len(trail[r])
      PROVE  {trail[r][j].new : j \in 1 .. i} = {trail'[r][j].new : j \in 1 .. i}
  <2>1. \A j \in 1 .. i : trail'[r][j] = trail[r][j]
    <3>1. \A j \in 1 .. Len(trail[r]) : trail'[r][j] = trail[r][j]
      BY <1>3
    <3>2. Len(trail[r]) \in Nat
      BY <1>3
    <3> QED
      BY <3>1, <3>2, <1>9
  <2> QED
    BY <2>1
<1>10. ASSUME NEW r \in Rows, NEW k \in Nat, k <= Len(entries[o][r])
       PROVE  /\ Past(r) \subseteq {Start[r]} \cup {trail'[r][j].new : j \in 1 .. Len(trail[r]) + k}
              /\ Own(o, r, k) \subseteq {trail'[r][j].new : j \in 1 .. Len(trail[r]) + k}
  <2> DEFINE s == trail[r]
             t == entries[o][r]
             u == trail'[r]
  <2>1. /\ Len(s) \in Nat /\ Len(t) \in Nat
        /\ \A i \in 1 .. Len(s) : u[i] = s[i]
        /\ \A j \in 1 .. Len(t) : u[Len(s) + j] = t[j]
    BY <1>3
  <2>2. k <= Len(t)
    BY <1>10
  <2>3. Past(r) = {Start[r]} \cup {s[j].new : j \in 1 .. Len(s)}
    BY DEF Past
  <2>4. Own(o, r, k) = {t[j].new : j \in 1 .. k}
    BY DEF Own
  <2> HIDE DEF s, t, u
  <2>5. \A j \in 1 .. Len(s) : j \in 1 .. Len(s) + k /\ u[j] = s[j]
    BY <2>1
  <2>6. \A j \in 1 .. k : Len(s) + j \in 1 .. Len(s) + k /\ u[Len(s) + j] = t[j]
    BY <2>1, <2>2
  <2>7. {s[j].new : j \in 1 .. Len(s)} \subseteq {u[j].new : j \in 1 .. Len(s) + k}
    BY <2>5
  <2>8. {t[j].new : j \in 1 .. k} \subseteq {u[j].new : j \in 1 .. Len(s) + k}
    BY <2>6
  <2> QED
    BY <2>3, <2>4, <2>7, <2>8 DEF s, u
<1>11. ASSUME NEW r \in Rows PROVE Past(r) \subseteq Past(r)'
  <2>1. /\ Len(trail[r]) \in Nat /\ Len(entries[o][r]) \in Nat
        /\ Len(trail'[r]) = Len(trail[r]) + Len(entries[o][r])
    BY <1>3
  <2>2. Past(r) \subseteq {Start[r]} \cup
          {trail'[r][j].new : j \in 1 .. Len(trail[r]) + Len(entries[o][r])}
    <3>1. Len(entries[o][r]) <= Len(entries[o][r])
      BY <2>1
    <3> QED
      BY <2>1, <3>1, <1>10
  <2> QED
    BY <2>1, <2>2 DEF Past
<1>12. OldValueExisted'
  <2> SUFFICES ASSUME NEW r \in Rows, NEW i \in DOMAIN trail'[r]
               PROVE  trail'[r][i].old \in {Start[r]} \cup {trail'[r][j].new : j \in 1 .. i - 1}
    BY DEF OldValueExisted
  <2>1. i \in 1 .. Len(trail'[r])
    BY <1>3
  <2>2. Len(trail[r]) \in Nat /\ Len(entries[o][r]) \in Nat /\ DOMAIN trail[r] = 1 .. Len(trail[r])
    BY <1>3
  <2>3. CASE i \in 1 .. Len(trail[r])
    <3>1. trail[r][i].old \in {Start[r]} \cup {trail[r][j].new : j \in 1 .. i - 1}
      BY <2>2, <2>3 DEF IInv, OldValueExisted
    <3>2. trail'[r][i] = trail[r][i]
      BY <2>3, <1>3
    <3>3. i - 1 \in Nat /\ i - 1 <= Len(trail[r])
      BY <2>2, <2>3
    <3> QED
      BY <3>1, <3>2, <3>3, <1>9
  <2>4. CASE i \notin 1 .. Len(trail[r])
    <3>1. PICK k \in 1 .. Len(entries[o][r]) :
            i = Len(trail[r]) + k /\ trail'[r][i] = entries[o][r][k]
      BY <2>1, <2>4, <1>7
    <3>2. entries[o][r][k].old \in Past(r) \cup Own(o, r, k - 1)
      BY <1>2 DEF Continues
    <3>3. k - 1 \in Nat /\ k - 1 <= Len(entries[o][r]) /\ i - 1 = Len(trail[r]) + (k - 1)
      BY <2>2, <3>1
    <3> QED
      BY <3>1, <3>2, <3>3, <1>10
  <2> QED
    BY <2>3, <2>4
<1>13. ASSUME NEW p \in Ops \ {o}, Live(p)' PROVE Sane(p)'
  <2>1. Live(p) /\ Sane(p) /\ Unmoved(p)
    BY <1>13, <1>a, <1>b DEF IInv, TypeOK, Live, Unmoved
  <2>2. Asked(p)' = Asked(p) /\ Target(p)' = Target(p)
    BY <1>b DEF Asked, Target
  <2>3. \A r : Pending(p, r)' <=> Pending(p, r)
    BY <1>b, <2>2 DEF Pending
  <2>4. ASSUME NEW r \in Rows PROVE Held(p, r)' /\ Continues(p, r)'
    <3>1. Held(p, r) /\ Continues(p, r) /\ Held(o, r)
      BY <2>1, <1>2 DEF Sane
    <3>2. CASE draft[p][r] = Clean
      <4>1. entries[p][r] = <<>> /\ ~Pending(p, r)
        BY <3>1, <3>2 DEF Held
      <4>2. Held(p, r)'
        BY <4>1, <3>2, <2>3, <1>b DEF Held
      <4>3. Continues(p, r)'
        BY <4>1, <1>b DEF Continues
      <4> QED
        BY <4>2, <4>3
    <3>3. CASE draft[p][r] # Clean
      <4>1. lock[r] = p /\ draft[o][r] = Clean
        BY <3>1, <3>3 DEF Held
      <4>2. entries[o][r] = <<>> /\ table'[r] = table[r] /\ lock'[r] = p
        BY <1>a, <3>1, <4>1 DEF Held, View, Release
      <4>3. trail'[r] = trail[r]
        <5>1. trail'[r] = trail[r] \o <<>> /\ trail[r] \in Seq(Entry)
          BY <4>2, <1>3
        <5> QED
          BY <5>1
      <4>4. /\ \A k : Before(p, r, k)' = Before(p, r, k)
            /\ Latest(p, r)' = Latest(p, r)
            /\ Past(r)' = Past(r)
            /\ \A k : Own(p, r, k)' = Own(p, r, k)
        BY <1>b, <4>2, <4>3 DEF Before, Latest, Past, Own
      <4>5. Held(p, r)'
        BY <1>b, <3>1, <4>1, <4>2, <4>4, <2>2, <2>3 DEF Held
      <4>6. Continues(p, r)'
        BY <1>b, <3>1, <4>4 DEF Continues
      <4> QED
        BY <4>5, <4>6
    <3> QED
      BY <3>2, <3>3
  <2>5. Found(p)'
    <3>1. Found(p) /\ Target(p) \in Rows
      BY <2>1, AskedType DEF Sane, IInv
    <3>2. Own(p, Target(p), Len(entries[p][Target(p)]))'
            = Own(p, Target(p), Len(entries[p][Target(p)]))
      BY <1>b, <2>2 DEF Own
    <3>3. Known(p, Target(p)) \subseteq Known(p, Target(p))'
      BY <3>1, <3>2, <2>2, <1>11 DEF Known
    <3> QED
      BY <1>b, <3>1, <3>3, <2>2 DEF Found
  <2> QED
    BY <2>4, <2>5 DEF Sane
<1>14. ASSUME NEW p \in Ops PROVE Stops(p)' /\ Sane(p)'
  <2>1. CASE p = o
    BY <1>a, <1>b, <2>1 DEF IInv, TypeOK, Stops, Sane, Live
  <2>2. CASE p # o
    BY <1>a, <1>b, <2>2, <1>13 DEF IInv, TypeOK, Stops, Sane
  <2> QED
    BY <2>1, <2>2
<1> QED
  BY <1>4, <1>6, <1>8, <1>12, <1>14 DEF IInv

-----------------------------------------------------------------------------
(* The invariant.                                                          *)

\* Before the first operation nothing has been changed.
LEMMA InitInv == Init => IInv
<1> SUFFICES ASSUME Init PROVE IInv
  OBVIOUS
<1>1. TypeOK
  <2>1. \A d \in Documents : 1 \in 1 .. Len(d)
    BY DocumentAssumption
  <2>2. Start \in [Rows -> Version]
    BY StartAssumption DEF Version
  <2> QED
    BY <2>1, <2>2 DEF Init, TypeOK, Step, Version
<1>2. TrailEndsAtRow /\ Chained /\ OldValueExisted
  BY DEF Init, TrailEndsAtRow, Chained, OldValueExisted, After
<1>3. \A o \in Ops : Stops(o) /\ Sane(o)
  BY DEF Init, Stops, Sane, Held, Continues, Found, Pending
<1> QED
  BY <1>1, <1>2, <1>3 DEF IInv

\* No step of an operation, of PostgreSQL or of the transaction breaks it.
LEMMA StepInv == IInv /\ [Next]_vars => IInv'
<1> SUFFICES ASSUME IInv, [Next]_vars PROVE IInv'
  OBVIOUS
<1>1. CASE UNCHANGED vars
  <2>1. TypeOK' /\ TrailEndsAtRow' /\ Chained' /\ OldValueExisted'
    BY <1>1 DEF vars, IInv, TypeOK, TrailEndsAtRow, Chained, OldValueExisted, After
  <2>2. \A o \in Ops : Unmoved(o) /\ \A r \in Rows : lock[r] = o => lock'[r] = o
    BY <1>1 DEF vars, Unmoved
  <2>3. \A o \in Ops : Stops(o)' /\ Sane(o)'
    BY <1>1, <2>2, Unnoticed DEF vars, IInv
  <2> QED
    BY <2>1, <2>3 DEF IInv
<1>2. ASSUME NEW o \in Ops, Find(o) PROVE IInv'
  BY <1>2, FindStep
<1>3. ASSUME NEW o \in Ops, NotFound(o) PROVE IInv'
  BY <1>3, AnswerStep DEF NotFound, request, tx, database
<1>4. ASSUME NEW o \in Ops, Check(o) PROVE IInv'
  BY <1>4, CheckStep
<1>5. ASSUME NEW o \in Ops, Write(o) PROVE IInv'
  BY <1>5, WriteStep
<1>6. ASSUME NEW o \in Ops, WriteNothing(o) PROVE IInv'
  BY <1>6, WriteNothingStep
<1>13. ASSUME NEW o \in Ops, WriteNote(o) PROVE IInv'
  BY <1>13, WriteNoteStep
<1>14. ASSUME NEW o \in Ops, RowGone(o) PROVE IInv'
  BY <1>14, AnswerStep DEF RowGone, request, tx, database
<1>7. ASSUME NEW o \in Ops, WriteAudit(o) PROVE IInv'
  BY <1>7, WriteAuditStep
<1>8. ASSUME NEW o \in Ops, NextField(o) PROVE IInv'
  BY <1>8, NextFieldStep
<1>9. ASSUME NEW o \in Ops, Finish(o) PROVE IInv'
  BY <1>9, AnswerStep DEF Finish, request, tx, database
<1>10. ASSUME NEW o \in Ops, StatementFails(o) PROVE IInv'
  BY <1>10, AnswerStep DEF StatementFails, Usable, Running, request, database
<1>11. ASSUME NEW o \in Ops, Commit(o) PROVE IInv'
  <2>1. CASE spoiled[o]
    BY <1>11, <2>1, RollbackStep DEF Commit, request, tx
  <2> QED
    BY <1>11, <2>1, CommitStep
<1>12. ASSUME NEW o \in Ops, Rollback(o) PROVE IInv'
  BY <1>12, RollbackStep DEF Rollback, request, tx
<1> QED
  BY <1>1, <1>2, <1>3, <1>4, <1>5, <1>6, <1>7, <1>8, <1>9, <1>10, <1>11, <1>12,
     <1>13, <1>14
  DEF Next, Resolve

\* So it always holds.
LEMMA Invariance == Spec => []IInv
BY InitInv, StepInv, PTL DEF Spec

\* Applied one after the other, the audited mutations make the versions that
\* the entries name.
LEMMA Replay ==
  ASSUME TypeOK, Chained, NEW r \in Rows
  PROVE  Made(r)[Len(trail[r])] = After(r, Len(trail[r]))
<1> DEFINE n == Len(trail[r])
           F(h) == [k \in 0 .. n |->
                      IF k = 0 THEN Start[r]
                      ELSE Applied(trail[r][k].mutation, h[k - 1])]
           made == Made(r)
<1>1. n \in Nat
  BY DEF TypeOK
<1>2. made = CHOOSE h : h = F(h)
  BY DEF Made
<1>3. \E h : h = F(h)
  <2> DEFINE a == [k \in 0 .. n |-> After(r, k)]
  <2>1. ASSUME NEW k \in 0 .. n PROVE a[k] = F(a)[k]
    <3>1. CASE k = 0
      BY <3>1 DEF After
    <3>2. CASE k # 0
      <4>1. k \in 1 .. n /\ k - 1 \in 0 .. n
        BY <3>2, <1>1
      <4> QED
        BY <3>2, <4>1 DEF Chained, After
    <3> QED
      BY <3>1, <3>2
  <2>2. a = F(a)
    BY <2>1
  <2> HIDE DEF a, F
  <2> QED
    BY <2>2
<1>4. made = F(made)
  <2> HIDE DEF F, made
  <2> QED
    BY <1>2, <1>3
<1> DEFINE Bad == {k \in 0 .. n : made[k] # After(r, k)}
<1> HIDE DEF made
<1>5. \A k \in 0 .. n : made[k] = IF k = 0 THEN Start[r]
                                  ELSE Applied(trail[r][k].mutation, made[k - 1])
  BY <1>4
<1>6. Bad = {}
  <2> SUFFICES ASSUME Bad # {} PROVE FALSE
    OBVIOUS
  <2>1. Bad \subseteq Nat
    BY <1>1
  <2>2. PICK k \in Bad : \A j \in Bad : ~(j < k)
    <3> HIDE DEF Bad
    <3>1. PICK k \in Bad : \A j \in Bad : <<j, k>> \notin OpToRel(<, Nat)
      BY <2>1, NatLessThanWellFounded, WFMin
    <3> QED
      BY <2>1, <3>1 DEF OpToRel
  <2>3. k # 0
    BY <1>5 DEF After
  <2>4. k \in 1 .. n /\ k - 1 \in 0 .. n /\ k - 1 \notin Bad
    BY <1>1, <2>2, <2>3
  <2>5. made[k - 1] = After(r, k - 1)
    BY <2>4
  <2>6. made[k] = After(r, k)
    BY <1>5, <2>3, <2>4, <2>5 DEF Chained, After
  <2> QED
    BY <2>6
<1> QED
  BY <1>1, <1>6 DEF made

-----------------------------------------------------------------------------
(* Theorems.                                                               *)

\* Every variable has its type: no update ever applies to a row that is gone.
THEOREM TypeCorrect == Spec => []TypeOK
BY Invariance, PTL DEF IInv

\* A row is always the new value of its last audit entry.
THEOREM TrailDescribesTheRow == Spec => []TrailEndsAtRow
BY Invariance, PTL DEF IInv

\* A row is always what the audited mutations make of its first version.
THEOREM NothingIsLost == Spec => []NoLostUpdate
<1>1. IInv => NoLostUpdate
  <2> SUFFICES ASSUME IInv, NEW r \in Rows
               PROVE  table[r] = Made(r)[Len(trail[r])]
    BY DEF NoLostUpdate
  <2> QED
    BY Replay DEF IInv, TrailEndsAtRow
<1> QED
  BY <1>1, Invariance, PTL

\* The old value of an entry is always a version that the row had before.
THEOREM OldValuesAreTrue == Spec => []OldValueExisted
BY Invariance, PTL DEF IInv
=============================================================================
