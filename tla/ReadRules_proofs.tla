--------------------------- MODULE ReadRules_proofs ---------------------------
(***************************************************************************)
(* What a query answers, for any rules, documents, tables and commits of   *)
(* others.  One invariant says of every field that has been resolved what  *)
(* the rules before and after its resolver and the resolver's query made   *)
(* sure of; the properties follow from it, some of them in the             *)
(* circumstances that ReadRules names.                                     *)
(***************************************************************************)
EXTENDS ReadRules, Ability_proofs, FiniteSetTheorems, WellFoundedInduction

-----------------------------------------------------------------------------
(* The invariant.                                                          *)

Ids == {row["id"] : row \in SubjectRows}

\* The tables hold rows of the instance, one for each id.
Tables ==
  /\ table \in [Subjects -> SUBSET SubjectRows]
  /\ \A s \in Subjects :
       /\ table[s] \subseteq Stored(s) /\ IsFiniteSet(table[s])
       /\ \A row1, row2 \in table[s] : row1["id"] = row2["id"] => row1 = row2

\* The fields resolved so far are fields of the document, below rows that have
\* been answered.
FieldOfDocument(path) ==
  /\ path \in Seq(Ids) /\ Len(path) < Len(document)
  /\ path # <<>> =>
       /\ Front(path) \in DOMAIN answers
       /\ \E f \in answers[Front(path)].found : f.stored["id"] = Last(path)

\* Fields that ask for one row by its id.
AsksForOne(path) ==
  \/ path = <<>> /\ Level(path).field = "findOne"
  \/ path # <<>> /\ Relation(path).kind = "one"

\* The verdict "forbidden" only where ListsAreNotRefused lets it be.
MayForbid(path) ==
  \/ path = <<>> /\ Level(path).field \in {"findOne", "count"}
  \/ path # <<>> /\ Relation(path).kind = "one"

\* A value is a row as it is stored, every selected field of which may be read,
\* or a row masked.
Shows(level, row, value) ==
  /\ Can(ReadRule(level), row, NoField)
  /\ \/ value = Masked(level, row)
     \/ /\ value = row
        /\ \A i \in DOMAIN level.select :
             Can(ReadRule(level), row, level.select[i])

\* The resolver of a relation looked for the key in the value, and for the id of
\* the value, that the parent answered.
Follows(path, row) ==
  path # <<>> =>
    /\ Relation(path).kind = "one" =>
         row["id"] = Parent(path).value[Relation(path).key]
    /\ Relation(path).kind = "many" =>
         row[Relation(path).key] = Parent(path).value["id"]

Found(path, f) ==
  /\ f.stored \in Stored(Level(path).subject)
  /\ Shows(Level(path), f.stored, f.value)
  /\ Follows(path, f.stored)

Sound(path, a) ==
  /\ a.verdict \in Verdict /\ a.number \in Nat
  /\ a.verdict = "forbidden" => MayForbid(path)
  /\ a.verdict # "refused" => Permitted(Level(path))
  /\ \A f \in a.found : Found(path, f)
  /\ AsksForOne(path) => Cardinality(a.found) <= 1

IInv ==
  /\ commits \in 0 .. MaxCommits
  /\ ability \in Abilities /\ document \in Documents
  /\ Tables
  /\ \A path \in DOMAIN answers :
       FieldOfDocument(path) /\ Sound(path, answers[path])

-----------------------------------------------------------------------------
(* Where the fields of a document are.                                     *)

\* A document is a sequence of levels, from the root down.
LEMMA DocumentShape ==
  ASSUME IInv
  PROVE  /\ Len(document) \in Nat \ {0} /\ DOMAIN document = 1 .. Len(document)
         /\ \A n \in DOMAIN document : LevelOK(document[n])
BY DocumentAssumption DEF IInv

\* What a level of the document asks for.
LEMMA LevelShape ==
  ASSUME IInv, NEW path \in Seq(Ids), Len(path) < Len(document)
  PROVE  LevelOK(Level(path)) /\ Level(path).subject \in Subjects
<1>1. Len(path) + 1 \in DOMAIN document
  BY DocumentShape
<1> QED BY <1>1, DocumentShape DEF Level, LevelOK

\* The rows of a table are rows.
LEMMA StoredRows ==
  ASSUME NEW s \in Subjects
  PROVE  Stored(s) \subseteq SubjectRows
BY InstanceAssumption DEF Stored

\* The relation of a field below the root is one of the level above, and leads
\* to the subject of the field's level.
LEMMA RelationShape ==
  ASSUME IInv, NEW path, FieldOfDocument(path), path # <<>>
  PROVE  /\ Level(Front(path)).subject \in Subjects
         /\ Relation(path) \in Relations[Level(Front(path)).subject]
         /\ Relation(path).target = Level(path).subject
<1> DEFINE n == Len(path) + 1
<1>1. path \in Seq(Ids) /\ Len(path) \in Nat \ {0} /\ Len(path) < Len(document)
  BY DEF FieldOfDocument
<1>2. Len(Front(path)) = Len(path) - 1
  BY <1>1 DEF Front
<1>3. Level(path) = document[n] /\ Level(Front(path)) = document[n - 1]
  BY <1>1, <1>2 DEF Level
<1>4. n \in DOMAIN document \ {1} /\ n - 1 \in DOMAIN document
  BY <1>1, DocumentShape
<1> HIDE DEF n
<1>5. document[n - 1].subject \in Subjects /\ document[n - 1].subject \in Subject
  BY <1>4, DocumentShape, InstanceAssumption DEF LevelOK
<1>6. PICK r \in Relations[document[n - 1].subject] :
        r.name = document[n].field /\ r.target = document[n].subject
  BY <1>4, DocumentAssumption DEF IInv
<1>7. Relation(path) = r
  BY <1>3, <1>5, <1>6, FieldNamesAreUnique DEF Relation
<1> QED BY <1>3, <1>5, <1>6, <1>7

\* What lies below a row that was answered is the next level of the document.
LEMMA BelowIsField ==
  ASSUME IInv, NEW path \in Pending, path # <<>>
  PROVE  /\ FieldOfDocument(path)
         /\ Len(path) + 1 \in DOMAIN document \ {1}
         /\ Level(Front(path)) = document[Len(path)]
<1>1. PICK above \in DOMAIN answers : path \in Below(above)
  BY DEF Pending
<1>2. above \in Seq(Ids) /\ Len(above) + 1 < Len(document)
  BY <1>1 DEF Below, IInv, FieldOfDocument
<1>3. PICK f \in answers[above].found : path = Append(above, f.stored["id"])
  BY <1>1, <1>2 DEF Below
<1>4. f.stored \in SubjectRows
  BY <1>2, <1>3, StoredRows, LevelShape DEF IInv, Sound, Found
<1> DEFINE id == f.stored["id"]
<1>5. id \in Ids
  BY <1>4 DEF Ids
<1> HIDE DEF id
<1>6. path = Append(above, id)
  BY <1>3 DEF id
<1>7. path \in Seq(Ids) /\ Len(path) = Len(above) + 1 /\ path[Len(path)] = id
  BY <1>2, <1>5, <1>6
<1>8. Front(path) = above
  BY <1>2, <1>5, <1>6 DEF Front
<1>9. Last(path) = id
  BY <1>7 DEF Last
<1>10. FieldOfDocument(path)
  BY <1>1, <1>2, <1>3, <1>7, <1>8, <1>9 DEF FieldOfDocument, id
<1>11. Len(above) \in Nat
  BY <1>2
<1>12. Len(path) + 1 \in DOMAIN document \ {1}
  BY <1>2, <1>7, <1>11, DocumentShape
<1> QED BY <1>7, <1>8, <1>10, <1>12 DEF Level

\* A pending field is one of the document, and its relation leads to the
\* subject of its level.
LEMMA PendingIsField ==
  ASSUME IInv, NEW path \in Pending
  PROVE  /\ FieldOfDocument(path) /\ path \notin DOMAIN answers
         /\ LevelOK(Level(path)) /\ Level(path).subject \in Subjects
         /\ path # <<>> => Relation(path).target = Level(path).subject
<1>1. path \notin DOMAIN answers
  BY DEF Pending
<1>2. FieldOfDocument(path)
  <2>1. CASE path # <<>>
    BY <2>1, BelowIsField
  <2>2. CASE path = <<>>
    BY <2>2, DocumentShape DEF FieldOfDocument
  <2> QED BY <2>1, <2>2
<1>3. LevelOK(Level(path)) /\ Level(path).subject \in Subjects
  BY <1>2, LevelShape DEF FieldOfDocument
<1>4. path # <<>> => Relation(path).target = Level(path).subject
  BY <1>2, RelationShape
<1> QED BY <1>1, <1>2, <1>3, <1>4

-----------------------------------------------------------------------------
(* What a step may add to the answers.                                     *)

\* An answer is kept as it is, and with it the value that a field below it is
\* resolved from.
LEMMA AnswerKeeps ==
  ASSUME IInv, NEW path \in Pending, NEW verdict, NEW found, NEW number,
         Answer(path, verdict, found, number),
         Sound(path, [verdict |-> verdict, found |-> found, number |-> number])
  PROVE  IInv'
<1> DEFINE a == [verdict |-> verdict, found |-> found, number |-> number]
<1>1. /\ DOMAIN answers' = DOMAIN answers \cup {path}
      /\ \A p \in DOMAIN answers : p # path => answers'[p] = answers[p]
      /\ answers'[path] = a
      /\ UNCHANGED <<table, commits, ability, document>>
  BY DEF Answer
<1>2. FieldOfDocument(path) /\ path \notin DOMAIN answers
  BY PendingIsField
<1>3. \A p \in DOMAIN answers' :
        /\ p \in Seq(Ids) /\ Len(p) < Len(document)
        /\ p # <<>> =>
             /\ Front(p) \in DOMAIN answers
             /\ \E f \in answers[Front(p)].found : f.stored["id"] = Last(p)
  BY <1>1, <1>2 DEF IInv, FieldOfDocument
<1>4. \A p \in DOMAIN answers : answers'[p] = answers[p]
  BY <1>1, <1>2
<1>5. \A p \in DOMAIN answers' : p # <<>> => answers'[Front(p)] = answers[Front(p)]
  BY <1>3, <1>4
<1>6. \A p \in DOMAIN answers' : FieldOfDocument(p)'
  BY <1>1, <1>3, <1>5 DEF FieldOfDocument
<1>7. ASSUME NEW p \in DOMAIN answers' PROVE Sound(p, answers[p])'
  <2>1. Level(p)' = Level(p) /\ Relation(p)' = Relation(p)
    BY <1>1 DEF Level, Relation
  <2>2. p # <<>> => Parent(p)' = Parent(p)
    BY <1>5 DEF Parent
  <2>3. Sound(p, answers'[p])
    BY <1>1, <1>4 DEF IInv
  <2> PICK b : b = answers'[p]
    OBVIOUS
  <2>4. AsksForOne(p)' = AsksForOne(p) /\ MayForbid(p)' = MayForbid(p)
    BY <2>1 DEF AsksForOne, MayForbid
  <2>5. Permitted(Level(p))' = Permitted(Level(p))
    BY <1>1, <2>1 DEF Permitted, May, CanSortByFields, CanFilterByFields,
                      CanPaginate, CanSelect
  <2>6. \A f \in b.found : Found(p, f) => Found(p, f)'
    BY <1>1, <2>1, <2>2 DEF Found, Follows, Shows, Masked, Masking, ReadRule
  <2> QED BY <2>3, <2>4, <2>5, <2>6 DEF Sound
<1>8. Tables' /\ commits' \in 0 .. MaxCommits /\ ability' \in Abilities
        /\ document' \in Documents
  BY <1>1 DEF IInv, Tables
<1> QED BY <1>6, <1>7, <1>8 DEF IInv

\* Of the rows of a table one at most has the id that is asked for.
LEMMA OneRow ==
  ASSUME IInv, NEW s \in Subjects, NEW rows \in SUBSET table[s], NEW id,
         \A row \in rows : row["id"] = id
  PROVE  Cardinality({[stored |-> row, value |-> row] : row \in rows}) <= 1
<1> DEFINE found == {[stored |-> row, value |-> row] : row \in rows}
<1>1. CASE rows = {}
  <2>1. found = {}
    BY <1>1
  <2>2. Cardinality(found) = 0
    BY <2>1, FS_EmptySet
  <2> QED BY <2>2
<1>2. CASE rows # {}
  <2>1. PICK row \in rows : TRUE
    BY <1>2
  <2>2. rows = {row}
    BY <2>1 DEF IInv, Tables
  <2> DEFINE f == [stored |-> row, value |-> row]
  <2>3. found = {f}
    BY <2>2
  <2>4. Cardinality({f}) = 1
    BY FS_Singleton
  <2> HIDE DEF f, found
  <2>5. Cardinality(found) = 1
    BY <2>3, <2>4
  <2> QED BY <2>5 DEF found
<1> QED BY <1>1, <1>2

\* What the query was narrowed to passes the check on each row.
LEMMA NarrowedIsReadable ==
  ASSUME IInv, NEW s \in Subjects, NEW row \in Narrowed(s, s)
  PROVE  row \in Stored(s) /\ Can(ability["read"][s], row, NoField)
<1>1. row \in Stored(s) /\ row \in SubjectRows /\ Accessible(ability["read"][s], row)
  BY DEF Narrowed, IInv, Tables
<1>2. ability["read"][s] \in Seq(Rule)
  BY InstanceAssumption DEF IInv
<1> QED BY <1>1, <1>2, QueriedIsReadable

\* AnswerMany: a list is answered, as its rows may be read.
LEMMA ListAnswered ==
  ASSUME IInv, NEW path \in Pending, ~AsksForOne(path), Permitted(Level(path)),
         NEW rows \in SUBSET Narrowed(Level(path).subject, Level(path).subject),
         \A row \in rows : Follows(path, row),
         AnswerMany(path, rows)
  PROVE  IInv'
<1>1. \A row \in rows : /\ row \in Stored(Level(path).subject)
                        /\ Can(ReadRule(Level(path)), row, NoField)
  BY PendingIsField, NarrowedIsReadable DEF ReadRule
<1> DEFINE found == {[stored |-> row, value |-> Masked(Level(path), row)] :
                       row \in rows}
<1>2. Answer(path, "answered", found, 0)
  BY <1>1 DEF AnswerMany
<1>3. ASSUME NEW f \in found PROVE Found(path, f)
  BY <1>1 DEF Found, Shows
<1>4. Sound(path, [verdict |-> "answered", found |-> found, number |-> 0])
  BY <1>3 DEF Sound, Verdict
<1> QED BY <1>2, <1>4, AnswerKeeps

\* AnswerOne: one row is answered, if all that is selected may be read of it.
LEMMA RowAnswered ==
  ASSUME IInv, NEW path \in Pending, AsksForOne(path), Permitted(Level(path)),
         NEW rows \in SUBSET table[Level(path).subject], NEW id,
         \A row \in rows : row["id"] = id /\ Follows(path, row),
         AnswerOne(path, rows)
  PROVE  IInv'
<1> DEFINE level == Level(path)
           found == {[stored |-> row, value |-> row] : row \in rows}
<1>1. MayForbid(path)
  BY DEF AsksForOne, MayForbid
<1>2. level.subject \in Subjects
  BY PendingIsField
<1>3. CASE \A row \in rows :
             /\ Can(ReadRule(level), row, NoField)
             /\ \A i \in DOMAIN level.select :
                  Can(ReadRule(level), row, level.select[i])
  <2>1. Answer(path, "answered", found, 0)
    BY <1>3 DEF AnswerOne
  <2>2. \A row \in rows : row \in Stored(level.subject)
    BY <1>2 DEF IInv, Tables
  <2>3. ASSUME NEW f \in found PROVE Found(path, f)
    BY <1>3, <2>2 DEF Found, Shows
  <2>4. Cardinality(found) <= 1
    BY <1>2, OneRow
  <2> HIDE DEF found
  <2>5. Sound(path, [verdict |-> "answered", found |-> found, number |-> 0])
    BY <2>3, <2>4 DEF Sound, Verdict
  <2> QED BY <2>1, <2>5, AnswerKeeps
<1>4. CASE ~ \A row \in rows :
               /\ Can(ReadRule(level), row, NoField)
               /\ \A i \in DOMAIN level.select :
                    Can(ReadRule(level), row, level.select[i])
  <2>1. Answer(path, "forbidden", {}, 0)
    BY <1>4 DEF AnswerOne
  <2>2. Sound(path, [verdict |-> "forbidden", found |-> {}, number |-> 0])
    BY <1>1, FS_EmptySet DEF Sound, Verdict
  <2> QED BY <2>1, <2>2, AnswerKeeps
<1> QED BY <1>3, <1>4

\* A page holds rows that the query found.
LEMMA PageIsSubset ==
  ASSUME NEW level, NEW rows, NEW page \in Pages(level, Filtered(level, rows))
  PROVE  page \subseteq rows
BY DEF Pages, kSubset, Filtered

-----------------------------------------------------------------------------
(* Every step.                                                             *)

\* The tables of Start are tables.
LEMMA InvInit == Init => IInv
<1> SUFFICES ASSUME Init PROVE IInv
  OBVIOUS
<1>1. DOMAIN answers = {}
  BY DEF Init
<1>2. Tables
  BY InstanceAssumption, KeysAssumption DEF Init, Tables, Stored
<1> QED BY <1>1, <1>2, InstanceAssumption DEF Init, IInv

\* What an answer means does not depend on the tables.
LEMMA AnswersStay ==
  ASSUME IInv, UNCHANGED <<ability, document, answers>>
  PROVE  \A p \in DOMAIN answers' : FieldOfDocument(p)' /\ Sound(p, answers[p])'
<1> SUFFICES ASSUME NEW p \in DOMAIN answers
             PROVE  FieldOfDocument(p)' /\ Sound(p, answers[p])'
  OBVIOUS
<1> PICK a : a = answers[p]
  OBVIOUS
<1>1. FieldOfDocument(p)'
  BY DEF IInv, FieldOfDocument
<1>2. Level(p)' = Level(p) /\ Relation(p)' = Relation(p) /\ Parent(p)' = Parent(p)
  BY DEF Level, Relation, Parent
<1>3. AsksForOne(p)' = AsksForOne(p) /\ MayForbid(p)' = MayForbid(p)
  BY <1>2 DEF AsksForOne, MayForbid
<1>4. Permitted(Level(p))' = Permitted(Level(p))
  BY <1>2 DEF Permitted, May, CanSortByFields, CanFilterByFields, CanPaginate, CanSelect
<1>5. \A f \in a.found : Found(p, f) => Found(p, f)'
  BY <1>2 DEF Found, Follows, Shows, Masked, Masking, ReadRule
<1>6. Sound(p, a)
  BY DEF IInv
<1> QED BY <1>1, <1>3, <1>4, <1>5, <1>6 DEF Sound

\* A commit of others keeps the tables so, and changes no answer.
LEMMA CommitKeeps ==
  ASSUME IInv, NEW change \in Changes, Commit(change)
  PROVE  IInv'
<1>1. /\ change.subject \in Subjects /\ change.by \subseteq SubjectRows
      /\ IsFiniteSet(change.by)
      /\ \A row1, row2 \in change.by : row1["id"] = row2["id"] => row1 = row2
      /\ \A row \in change.by : row["id"] = change.id
      /\ change.by \subseteq Stored(change.subject)
  BY InstanceAssumption, KeysAssumption DEF Stored
<1>2. UNCHANGED <<ability, document, answers>> /\ commits' \in 0 .. MaxCommits
  BY InstanceAssumption DEF Commit, IInv
<1>3. table \in [Subjects -> SUBSET SubjectRows]
  BY DEF IInv, Tables
<1> DEFINE kept == {row \in table[change.subject] : row["id"] # change.id}
<1>4. table' = [table EXCEPT ![change.subject] = kept \cup change.by]
  BY DEF Commit
<1>5. kept \subseteq SubjectRows /\ kept \subseteq Stored(change.subject)
  BY <1>1 DEF IInv, Tables
<1>6. IsFiniteSet(kept \cup change.by)
  <2>1. IsFiniteSet(kept)
    BY <1>1, FS_Subset DEF IInv, Tables
  <2> QED BY <1>1, <2>1, FS_Union
<1>7. \A row1, row2 \in kept \cup change.by : row1["id"] = row2["id"] => row1 = row2
  BY <1>1 DEF IInv, Tables
<1> HIDE DEF kept
<1>8. Tables'
  <2>1. table' \in [Subjects -> SUBSET SubjectRows]
    BY <1>1, <1>3, <1>4, <1>5
  <2>2. ASSUME NEW s \in Subjects
        PROVE  /\ table'[s] \subseteq Stored(s) /\ IsFiniteSet(table'[s])
               /\ \A row1, row2 \in table'[s] : row1["id"] = row2["id"] => row1 = row2
    <3>1. CASE s = change.subject
      <4>1. table'[s] = kept \cup change.by
        BY <1>3, <1>4, <3>1
      <4> QED BY <1>1, <1>5, <1>6, <1>7, <3>1, <4>1
    <3>2. CASE s # change.subject
      <4>1. table'[s] = table[s]
        BY <1>3, <1>4, <3>2
      <4> QED BY <4>1 DEF IInv, Tables
    <3> QED BY <3>1, <3>2
  <2> QED BY <2>1, <2>2 DEF Tables
<1> QED BY <1>2, <1>8, AnswersStay DEF IInv

\* Nothing happens to the invariant when nothing happens.
LEMMA StutterKeeps == ASSUME IInv, UNCHANGED vars PROVE IInv'
<1>1. UNCHANGED <<table, commits, ability, document, answers>>
  BY DEF vars
<1>2. Tables'
  BY <1>1 DEF IInv, Tables
<1> QED BY <1>1, <1>2, AnswersStay DEF IInv

\* Every step keeps the invariant.
LEMMA InvStep == IInv /\ [Next]_vars => IInv'
<1> SUFFICES ASSUME IInv, [Next]_vars PROVE IInv'
  OBVIOUS
<1>t. \A s \in Subjects : table[s] \subseteq SubjectRows /\ IsFiniteSet(table[s])
  BY DEF IInv, Tables
<1>1. ASSUME NEW path \in Pending, Refuse(path) PROVE IInv'
  <2>1. Sound(path, [verdict |-> "refused", found |-> {}, number |-> 0])
    BY FS_EmptySet DEF Sound, Verdict
  <2> QED BY <1>1, <2>1, AnswerKeeps DEF Refuse
<1>2. ASSUME NEW path \in Pending, FindMany(path) PROVE IInv'
  <2> DEFINE s == Level(path).subject
  <2>1. PICK rows \in SUBSET Narrowed(s, s) : AnswerMany(path, rows)
    BY <1>2, PageIsSubset DEF FindMany
  <2>2. path = <<>> /\ Level(path).field = "findMany" /\ Permitted(Level(path))
    BY <1>2 DEF FindMany
  <2>3. ~AsksForOne(path) /\ \A row \in rows : Follows(path, row)
    BY <2>2 DEF AsksForOne, Follows
  <2> QED BY <2>1, <2>2, <2>3, ListAnswered
<1>3. ASSUME NEW path \in Pending, FindOne(path) PROVE IInv'
  <2>1. Level(path).subject \in Subjects
    BY PendingIsField
  <2> DEFINE rows == {row \in Narrowed(Level(path).subject, Level(path).subject) :
                        row["id"] = Level(path).id}
  <2>2. rows \subseteq table[Level(path).subject]
    BY <2>1 DEF Narrowed
  <2>3. path = <<>> /\ AsksForOne(path) /\ AnswerOne(path, rows) /\ Permitted(Level(path))
    BY <1>3 DEF FindOne, AsksForOne
  <2>4. \A row \in rows : row["id"] = Level(path).id /\ Follows(path, row)
    BY <2>3 DEF Follows
  <2> QED BY <2>2, <2>3, <2>4, RowAnswered
<1>4. ASSUME NEW path \in Pending, Count(path) PROVE IInv'
  <2> DEFINE rows == Filtered(Level(path), Narrowed(Level(path).subject,
                                Operations[Level(path).subject].countedAs))
  <2>1. /\ path = <<>> /\ Level(path).field = "count" /\ Permitted(Level(path))
        /\ \/ Answer(path, "answered", {}, Cardinality(rows))
           \/ Answer(path, "forbidden", {}, 0)
    BY <1>4 DEF Count
  <2>2. IsFiniteSet(rows)
    BY <1>t, PendingIsField, FS_Subset DEF Filtered, Narrowed
  <2>3. Cardinality(rows) \in Nat
    BY <2>2, FS_CardinalityType
  <2> HIDE DEF rows
  <2>4. MayForbid(path) /\ ~AsksForOne(path)
    BY <2>1 DEF MayForbid, AsksForOne
  <2>5. /\ Sound(path, [verdict |-> "answered", found |-> {}, number |-> Cardinality(rows)])
        /\ Sound(path, [verdict |-> "forbidden", found |-> {}, number |-> 0])
    BY <2>1, <2>3, <2>4 DEF Sound, Verdict
  <2> QED BY <2>1, <2>5, AnswerKeeps
<1>5. ASSUME NEW path \in Pending, FollowOne(path) PROVE IInv'
  <2> DEFINE id == Parent(path).value[Relation(path).key]
             rows == {row \in table[Level(path).subject] : row["id"] = id}
  <2>1. /\ path # <<>> /\ Relation(path).kind = "one" /\ Permitted(Level(path))
        /\ Relation(path).target = Level(path).subject
    BY <1>5, PendingIsField DEF FollowOne
  <2>2. AnswerOne(path, {}) \/ AnswerOne(path, rows)
    BY <1>5, <2>1 DEF FollowOne
  <2>3. PICK some \in SUBSET rows : AnswerOne(path, some)
    BY <2>2
  <2>4. \A row \in some : row["id"] = id /\ Follows(path, row)
    BY <2>1 DEF Follows
  <2>5. AsksForOne(path) /\ some \subseteq table[Level(path).subject]
    BY <2>1 DEF AsksForOne
  <2> HIDE DEF id
  <2> QED BY <2>1, <2>3, <2>4, <2>5, RowAnswered
<1>6. ASSUME NEW path \in Pending, FollowMany(path) PROVE IInv'
  <2> DEFINE s == Level(path).subject
             theirs == {row \in Narrowed(s, s) :
                          row[Relation(path).key] = Parent(path).value["id"]}
  <2>1. /\ path # <<>> /\ Relation(path).kind = "many" /\ Permitted(Level(path))
        /\ Relation(path).target = s
    BY <1>6, PendingIsField DEF FollowMany
  <2>2. PICK rows \in SUBSET theirs : AnswerMany(path, rows)
    BY <1>6, <2>1, PageIsSubset DEF FollowMany
  <2>3. \A row \in rows : Follows(path, row)
    BY <2>1 DEF Follows
  <2>4. ~AsksForOne(path) /\ rows \subseteq Narrowed(s, s)
    BY <2>1 DEF AsksForOne
  <2> QED BY <2>1, <2>2, <2>3, <2>4, ListAnswered
<1>7. ASSUME NEW change \in Changes, Commit(change) PROVE IInv'
  BY <1>7, CommitKeeps
<1>8. CASE UNCHANGED vars
  BY <1>8, StutterKeeps
<1> QED
  BY <1>1, <1>2, <1>3, <1>4, <1>5, <1>6, <1>7, <1>8 DEF Next, Resolve

\* The invariant holds always.
LEMMA Invariant == Spec => []IInv
BY InvInit, InvStep, PTL DEF Spec

\* No list is refused because of a row in it, whatever the rules and however
\* others change the rows between the statements of the document.
THEOREM ListsPass == Spec => []ListsAreNotRefused
<1>1. IInv => ListsAreNotRefused
  BY DEF IInv, Sound, MayForbid, ListsAreNotRefused
<1> QED BY <1>1, Invariant, PTL

-----------------------------------------------------------------------------
(* Masking.                                                                *)

\* A non-empty set of numbers has a least.
LEMMA Smallest ==
  ASSUME NEW S \in SUBSET Nat, S # {}
  PROVE  \E n \in S : \A m \in S : n <= m
<1>1. PICK n \in S : \A m \in Nat : <<m, n>> \in OpToRel(<, Nat) => m \notin S
  BY NatLessThanWellFounded, WFMin
<1>2. \A m \in S : ~(m < n)
  BY <1>1 DEF OpToRel
<1> QED BY <1>2

\* One field after the other.

LEMMA MaskingSteps ==
  ASSUME NEW level, NEW row, level.select \in Seq(SubjectFields)
  PROVE  /\ Masking(level, row)[0] = row
         /\ \A n \in 1 .. Len(level.select) :
              Masking(level, row)[n] =
                IF Can(ReadRule(level), Masking(level, row)[n - 1], level.select[n])
                THEN Masking(level, row)[n - 1]
                ELSE WithNulls(Masking(level, row)[n - 1], {level.select[n]})
<1> DEFINE L == Len(level.select)
           Step(n, before) ==
             IF Can(ReadRule(level), before, level.select[n]) THEN before
             ELSE WithNulls(before, {level.select[n]})
           F(h) == [n \in 0 .. L |-> IF n = 0 THEN row ELSE Step(n, h[n - 1])]
           value == Masking(level, row)
<1>1. L \in Nat
  OBVIOUS
<1>2. value = CHOOSE h : h = F(h)
  BY DEF Masking
<1> HIDE DEF Step, L, value
<1> DEFINE Begun(n, h) ==
             h[0] = row /\ \A k \in 1 .. n : h[k] = Step(k, h[k - 1])
           Bad == {n \in Nat : \A h : ~Begun(n, h)}
<1>3. Bad = {}
  <2> SUFFICES ASSUME Bad # {} PROVE FALSE
    OBVIOUS
  <2>1. PICK n \in Bad : \A m \in Bad : n <= m
    BY Smallest
  <2>2. n # 0
    <3>1. Begun(0, [k \in {0} |-> row])
      OBVIOUS
    <3> QED BY <3>1, <2>1
  <2>3. n \in Nat /\ n - 1 \in Nat /\ n - 1 \notin Bad
    <3>1. n \in Nat
      BY <2>1
    <3>2. n - 1 \in Nat /\ ~(n <= n - 1)
      BY <3>1, <2>2
    <3> HIDE DEF Bad
    <3> QED BY <3>1, <3>2, <2>1
  <2>4. PICK h : Begun(n - 1, h)
    BY <2>3
  <2> DEFINE g == [k \in 0 .. n |-> IF k = n THEN Step(n, h[n - 1]) ELSE h[k]]
  <2>5. g[0] = row
    BY <2>2, <2>3, <2>4
  <2>6. ASSUME NEW k \in 1 .. n PROVE g[k] = Step(k, g[k - 1])
    <3>1. g[k - 1] = h[k - 1]
      BY <2>3
    <3>2. CASE k = n
      BY <3>1, <3>2, <2>3
    <3>3. CASE k # n
      <4>1. k \in 1 .. n - 1
        BY <3>3, <2>3
      <4> QED BY <4>1, <3>1, <3>3, <2>3, <2>4
    <3> QED BY <3>2, <3>3
  <2>7. Begun(n, g)
    BY <2>5, <2>6
  <2> QED BY <2>1, <2>7
<1>4. PICK h : Begun(L, h)
  BY <1>1, <1>3
<1>5. \E f : f = F(f)
  <2> DEFINE f == [n \in 0 .. L |-> h[n]]
  <2>1. ASSUME NEW n \in 0 .. L PROVE f[n] = F(f)[n]
    <3>1. CASE n = 0
      BY <3>1, <1>4
    <3>2. CASE n # 0
      <4>1. n \in 1 .. L /\ n - 1 \in 0 .. L
        BY <3>2, <1>1
      <4> QED BY <4>1, <1>4, <3>2
    <3> QED BY <3>1, <3>2
  <2>2. f = F(f)
    BY <2>1
  <2> HIDE DEF f, F
  <2> QED BY <2>2
<1>6. value = F(value)
  <2> HIDE DEF F
  <2> QED BY <1>2, <1>5
<1>7. \A n \in 0 .. L : value[n] = IF n = 0 THEN row ELSE Step(n, value[n - 1])
  BY <1>6
<1>8. value[0] = row /\ \A n \in 1 .. L : value[n] = Step(n, value[n - 1])
  BY <1>1, <1>7
<1> QED BY <1>8 DEF value, Step, L

\* The first n of the fields that are selected.
FirstFields(level, n) == {level.select[i] : i \in 1 .. n}

\* What masking leaves is the row with some of the selected fields null.
LEMMA MaskingIsNulls ==
  ASSUME NEW level, NEW row, level.select \in Seq(SubjectFields),
         IsRow(row),
         NEW n \in 0 .. Len(level.select)
  PROVE  \E nulls \in SUBSET FirstFields(level, n) :
           Masking(level, row)[n] = WithNulls(row, nulls)
<1> DEFINE value == Masking(level, row)
           Bad == {m \in 0 .. Len(level.select) :
                     \A nulls \in SUBSET FirstFields(level, m) :
                       value[m] # WithNulls(row, nulls)}
<1> SUFFICES ASSUME Bad # {} PROVE FALSE
  OBVIOUS
<1>1. Len(level.select) \in Nat /\ Bad \subseteq Nat
  OBVIOUS
<1>2. PICK m \in Bad : \A k \in Bad : m <= k
  BY <1>1, Smallest
<1>3. m # 0
  <2>1. WithNulls(row, {}) = row
    BY DEF WithNulls, IsRow
  <2>2. value[0] = row
    BY MaskingSteps
  <2> QED BY <1>2, <2>1, <2>2
<1>4. m \in 1 .. Len(level.select) /\ m - 1 \in 0 .. Len(level.select) /\ m - 1 \notin Bad
  BY <1>1, <1>2, <1>3
<1>5. PICK nulls \in SUBSET FirstFields(level, m - 1) :
        value[m - 1] = WithNulls(row, nulls)
  BY <1>4
<1> DEFINE field == level.select[m]
<1>6. value[m] = value[m - 1] \/ value[m] = WithNulls(value[m - 1], {field})
  <2>1. value[m] = IF Can(ReadRule(level), value[m - 1], field) THEN value[m - 1]
                   ELSE WithNulls(value[m - 1], {field})
    <3>1. \A k \in 1 .. Len(level.select) :
            Masking(level, row)[k] =
              IF Can(ReadRule(level), Masking(level, row)[k - 1], level.select[k])
              THEN Masking(level, row)[k - 1]
              ELSE WithNulls(Masking(level, row)[k - 1], {level.select[k]})
      BY MaskingSteps, Zenon
    <3> QED BY <1>4, <3>1, Zenon
  <2> HIDE DEF value, field
  <2> QED BY <2>1
<1>7. nulls \cup {field} \subseteq FirstFields(level, m) /\ nulls \subseteq FirstFields(level, m)
  BY <1>4 DEF FirstFields
<1>8. WithNulls(WithNulls(row, nulls), {field}) = WithNulls(row, nulls \cup {field})
  BY DEF WithNulls
<1> HIDE DEF value, field
<1>9. \E fields \in SUBSET FirstFields(level, m) : value[m] = WithNulls(row, fields)
  BY <1>5, <1>6, <1>7, <1>8
<1> QED BY <1>2, <1>9

\* Levels of the document and rows that are read at them.
LEMMA FieldsSelected ==
  ASSUME NEW level, level.select \in Seq(SubjectFields)
  PROVE  /\ ToSet(level.select) = FirstFields(level, Len(level.select))
         /\ \A n \in 1 .. Len(level.select) :
              /\ level.select[n] \in ToSet(level.select)
              /\ FirstFields(level, n) = FirstFields(level, n - 1) \cup {level.select[n]}
         /\ FirstFields(level, 0) = {}
         /\ \A n \in 0 .. Len(level.select) :
              FirstFields(level, n) \subseteq ToSet(level.select)
BY DEF ToSet, FirstFields

\* Where masking is blind, exactly the fields that may not be read of the row as
\* it is stored are null.
LEMMA MaskingIsExact ==
  ASSUME NEW level, NEW row, level.select \in Seq(SubjectFields),
         IsRow(row),
         NEW rules, rules = ReadRule(level), Can(rules, row, NoField),
         Blind(rules, ToSet(level.select), row)
  PROVE  Masked(level, row) =
           WithNulls(row, Unreadable(rules, ToSet(level.select), row))
<1> DEFINE L == Len(level.select)
           Nulls(n) == Unreadable(rules, FirstFields(level, n), row)
           value == Masking(level, row)
           Bad == {n \in 0 .. L : value[n] # WithNulls(row, Nulls(n))}
<1>1. L \in Nat
  OBVIOUS
<1>2. Bad = {}
  <2> SUFFICES ASSUME Bad # {} PROVE FALSE
    OBVIOUS
  <2>1. PICK n \in Bad : \A m \in Bad : n <= m
    <3>1. Bad \subseteq Nat
      BY <1>1
    <3> HIDE DEF Bad
    <3> QED BY <3>1, Smallest
  <2>2. n # 0
    <3>1. WithNulls(row, {}) = row
      BY DEF WithNulls, IsRow
    <3>2. value[0] = row /\ Nulls(0) = {}
      BY MaskingSteps, FieldsSelected DEF Unreadable
    <3> QED BY <2>1, <3>1, <3>2
  <2>3. n \in 1 .. L /\ n - 1 \in 0 .. L /\ ~(n <= n - 1)
    BY <1>1, <2>1, <2>2
  <2>4. value[n - 1] = WithNulls(row, Nulls(n - 1))
    BY <2>1, <2>3
  <2> DEFINE field == level.select[n]
  <2>5. value[n] = IF Can(rules, value[n - 1], field) THEN value[n - 1]
                   ELSE WithNulls(value[n - 1], {field})
    <3>1. \A k \in 1 .. Len(level.select) :
            Masking(level, row)[k] =
              IF Can(ReadRule(level), Masking(level, row)[k - 1], level.select[k])
              THEN Masking(level, row)[k - 1]
              ELSE WithNulls(Masking(level, row)[k - 1], {level.select[k]})
      BY MaskingSteps, Zenon
    <3> QED BY <2>3, <3>1, Zenon
  <2>6. /\ field \in ToSet(level.select)
        /\ FirstFields(level, n) = FirstFields(level, n - 1) \cup {field}
        /\ FirstFields(level, n - 1) \subseteq ToSet(level.select)
    BY <2>3, FieldsSelected
  <2> HIDE DEF value, field
  <2>7. Can(rules, value[n - 1], field) <=> Can(rules, row, field)
    <3>1. Nulls(n - 1) \in SUBSET Unreadable(rules, ToSet(level.select), row)
      BY <2>6 DEF Unreadable
    <3> QED BY <2>4, <2>6, <3>1 DEF Blind
  <2>8. CASE Can(rules, row, field)
    <3>1. Nulls(n) = Nulls(n - 1)
      BY <2>6, <2>8 DEF Unreadable
    <3> QED BY <2>1, <2>4, <2>5, <2>7, <2>8, <3>1
  <2>9. CASE ~Can(rules, row, field)
    <3>1. Nulls(n) = Nulls(n - 1) \cup {field}
      BY <2>6, <2>9 DEF Unreadable
    <3>2. WithNulls(WithNulls(row, Nulls(n - 1)), {field}) =
            WithNulls(row, Nulls(n - 1) \cup {field})
      BY DEF WithNulls
    <3> QED BY <2>1, <2>4, <2>5, <2>7, <2>9, <3>1, <3>2
  <2> QED BY <2>8, <2>9
<1>3. value[L] = WithNulls(row, Nulls(L))
  <2>1. L \in 0 .. L
    BY <1>1
  <2> QED BY <2>1, <1>2
<1>4. FirstFields(level, L) = ToSet(level.select)
  BY FieldsSelected
<1> QED BY <1>3, <1>4 DEF Masked

\* The level that a field was answered at, and the level of its rules.
LEMMA FoundAt ==
  ASSUME IInv, NEW path \in DOMAIN answers, NEW f \in answers[path].found
  PROVE  /\ LevelOK(Level(path)) /\ Level(path).subject \in Subjects
         /\ Level(path).select \in Seq(SubjectFields)
         /\ FieldOfDocument(path) /\ Found(path, f)
         /\ f.stored \in Stored(Level(path).subject)
         /\ IsRow(f.stored)
         /\ "id" \in DOMAIN f.stored /\ f.stored["id"] # Null
         /\ Len(path) + 1 \in DOMAIN document
<1>1. FieldOfDocument(path) /\ Found(path, f)
  BY DEF IInv, Sound
<1>2. /\ LevelOK(Level(path)) /\ Level(path).subject \in Subjects
      /\ Len(path) + 1 \in DOMAIN document
  BY <1>1, LevelShape, DocumentShape DEF FieldOfDocument
<1>3. f.stored \in Stored(Level(path).subject)
  BY <1>1 DEF Found
<1> QED BY <1>1, <1>2, <1>3, KeysAssumption DEF LevelOK

\* A value is the row with some of the selected fields null.
LEMMA ValueIsNulls ==
  ASSUME IInv, NEW path \in DOMAIN answers, NEW f \in answers[path].found
  PROVE  \E nulls \in SUBSET ToSet(Level(path).select) :
           f.value = WithNulls(f.stored, nulls)
<1> DEFINE level == Level(path)
           row == f.stored
<1>1. /\ level.select \in Seq(SubjectFields)
      /\ IsRow(row)
      /\ f.value = Masked(level, row) \/ f.value = row
  BY FoundAt DEF Found, Shows
<1> HIDE DEF level, row
<1>2. CASE f.value = row
  <2>1. WithNulls(row, {}) = row
    BY <1>1 DEF WithNulls, IsRow
  <2> QED BY <1>2, <2>1 DEF level, row
<1>3. CASE f.value = Masked(level, row)
  <2>1. Len(level.select) \in 0 .. Len(level.select)
    BY <1>1
  <2>2. PICK nulls \in SUBSET FirstFields(level, Len(level.select)) :
          Masking(level, row)[Len(level.select)] = WithNulls(row, nulls)
    <3>1. level.select \in Seq(SubjectFields) /\ IsRow(row)
      BY <1>1
    <3> PICK n \in 0 .. Len(level.select) : n = Len(level.select)
      BY <2>1
    <3>2. \E nulls \in SUBSET FirstFields(level, n) :
            Masking(level, row)[n] = WithNulls(row, nulls)
      BY ONLY <3>1, n \in 0 .. Len(level.select), MaskingIsNulls
    <3> QED BY <3>2
  <2>3. nulls \in SUBSET ToSet(level.select)
    BY <1>1, FieldsSelected
  <2> QED BY <1>3, <2>2, <2>3 DEF Masked, level, row
<1> QED BY <1>1, <1>2, <1>3

\* Where masking is blind, it is the row with the unreadable ones null.
LEMMA ValueIsExact ==
  ASSUME MaskingIsBlind, IInv,
         NEW path \in DOMAIN answers, NEW f \in answers[path].found
  PROVE  f.value = WithNulls(f.stored,
           Unreadable(ReadRule(Level(path)), ToSet(Level(path).select), f.stored))
<1> DEFINE level == Level(path)
           row == f.stored
           rules == ReadRule(level)
<1>1. /\ level.select \in Seq(SubjectFields)
      /\ IsRow(row) /\ row \in Stored(level.subject)
      /\ Can(rules, row, NoField)
      /\ \/ f.value = Masked(level, row)
         \/ f.value = row /\ \A i \in DOMAIN level.select : Can(rules, row, level.select[i])
  BY FoundAt DEF Found, Shows
<1>2. CASE f.value = row /\ \A i \in DOMAIN level.select : Can(rules, row, level.select[i])
  <2>1. Unreadable(rules, ToSet(level.select), row) = {}
    BY <1>2 DEF ToSet, Unreadable
  <2>2. WithNulls(row, {}) = row
    BY <1>1 DEF WithNulls, IsRow
  <2> QED BY <1>2, <2>1, <2>2
<1>3. CASE f.value = Masked(level, row)
  <2>1. /\ Len(path) + 1 \in DOMAIN document /\ document \in Documents
        /\ ability \in Abilities /\ level = document[Len(path) + 1]
        /\ rules = ability["read"][level.subject]
    BY FoundAt DEF IInv, Level, ReadRule
  <2>2. Blind(rules, ToSet(level.select), row)
    <3> HIDE DEF level, rules, row
    <3> QED BY <1>1, <2>1 DEF MaskingIsBlind
  <2>3. rules = ReadRule(level)
    OBVIOUS
  <2> HIDE DEF level, rules, row
  <2>4. Masked(level, row) = WithNulls(row, Unreadable(rules, ToSet(level.select), row))
    BY <1>1, <2>2, <2>3, MaskingIsExact
  <2> QED BY <1>3, <2>4 DEF level, rules, row
<1> QED BY <1>1, <1>2, <1>3

\* In each row that ReadMany answers exactly the selected fields that may not be
\* read are null, where no rule depends on what it hides itself.
THEOREM MaskingHidesTheUnreadable == MaskingIsBlind /\ Spec => []MasksAreExact
<1>1. IInv /\ MaskingIsBlind => MasksAreExact
  <2> SUFFICES ASSUME IInv, MaskingIsBlind, NEW path \in DOMAIN answers,
                      NEW f \in answers[path].found,
                      NEW field \in ToSet(Level(path).select)
               PROVE  LET readable == Can(ReadRule(Level(path)), f.stored, field)
                      IN  IF field \in DOMAIN f.stored
                          THEN f.value[field] = IF readable THEN f.stored[field] ELSE Null
                          ELSE Hidden(f.value, field) <=> ~readable
    BY DEF MasksAreExact
  <2> DEFINE nulls == Unreadable(ReadRule(Level(path)), ToSet(Level(path).select), f.stored)
  <2>1. f.value = WithNulls(f.stored, nulls)
    BY ValueIsExact
  <2>2. field \in nulls <=> ~Can(ReadRule(Level(path)), f.stored, field)
    BY DEF Unreadable
  <2> HIDE DEF nulls
  <2>3. /\ DOMAIN f.value = DOMAIN f.stored \cup nulls
        /\ field \in nulls => f.value[field] = Null
        /\ field \in DOMAIN f.stored \ nulls => f.value[field] = f.stored[field]
    BY <2>1 DEF WithNulls
  <2>4. CASE field \in nulls
    BY <2>2, <2>3, <2>4 DEF Hidden
  <2>5. CASE field \notin nulls
    BY <2>2, <2>3, <2>5 DEF Hidden
  <2> QED BY <2>4, <2>5
<1>2. MaskingIsBlind => MaskingIsBlind'
  OBVIOUS
<1> QED BY <1>1, <1>2, Invariant, PTL

-----------------------------------------------------------------------------
(* Relations.                                                              *)

\* No two foreign keys tie the same two resources.
LEMMA OneKeyBetweenTwo ==
  ASSUME NEW k \in ForeignKeys, NEW l \in ForeignKeys,
         k.from = l.from, k.to = l.to
  PROVE  k.column = l.column
BY DEF ForeignKeys, LogKeys, PersonKeys, ProductionKeys, UserKeys, Key, OptionalKey

\* The key of a relation is the foreign key between its two resources.
LEMMA RelationKey ==
  ASSUME NEW s \in Subject, NEW r \in Relations[s], NEW k \in ForeignKeys
  PROVE  /\ r.kind = "one" /\ k.from = s /\ k.to = r.target => r.key = k.column
         /\ r.kind = "many" /\ k.from = r.target /\ k.to = s => r.key = k.column
<1>1. PICK l \in ForeignKeys :
        /\ l.column = r.key
        /\ r.kind = "one" => l.from = s /\ l.to = r.target
        /\ r.kind = "many" => l.from = r.target /\ l.to = s
  BY RelationsFollowKeys
<1> QED BY <1>1, OneKeyBetweenTwo

\* A relation field answers with the rows that a foreign key ties to the row
\* above, as long as ids are not masked.
THEOREM RelationsFollowTheirKeys ==
  MaskingIsBlind /\ IdsMayBeRead /\ Spec => []RelationsHold
<1>1. IInv /\ MaskingIsBlind /\ IdsMayBeRead => RelationsHold
  <2> SUFFICES ASSUME IInv, MaskingIsBlind, IdsMayBeRead,
                      NEW path \in DOMAIN answers \ {<<>>},
                      NEW f \in answers[path].found, NEW k \in ForeignKeys
               PROVE  /\ /\ Relation(path).kind = "one"
                         /\ k.from = Level(Front(path)).subject
                         /\ k.to = Level(path).subject
                         => f.stored["id"] = Parent(path).stored[k.column]
                      /\ /\ Relation(path).kind = "many"
                         /\ k.from = Level(path).subject
                         /\ k.to = Level(Front(path)).subject
                         => f.stored[k.column] = Parent(path).stored["id"]
    BY DEF RelationsHold
  <2> DEFINE up == Front(path)
             p == Parent(path)
             r == Relation(path)
  <2>1. FieldOfDocument(path) /\ f.stored["id"] # Null /\ Found(path, f)
    BY FoundAt
  <2>2. up \in DOMAIN answers /\ p \in answers[up].found
    BY <2>1 DEF FieldOfDocument, Parent
  <2>3. /\ Level(up).subject \in Subjects /\ Level(up).subject \in Subject
        /\ r \in Relations[Level(up).subject]
        /\ r.target = Level(path).subject
        /\ Level(path).subject \in Subjects
    BY <2>1, RelationShape, FoundAt, InstanceAssumption
  <2>4. /\ r.kind = "one" => f.stored["id"] = p.value[r.key]
        /\ r.kind = "many" => f.stored[r.key] = p.value["id"]
    BY <2>1 DEF Found, Follows
  <2>5. /\ p.stored \in Stored(Level(up).subject)
        /\ "id" \in DOMAIN p.stored
        /\ Can(ReadRule(Level(up)), p.stored, NoField)
        /\ Len(up) + 1 \in DOMAIN document
    BY <2>2, FoundAt DEF Found, Shows
  <2> HIDE DEF up, p, r
  <2>6. CASE r.kind = "one" /\ k.from = Level(up).subject /\ k.to = Level(path).subject
    <3>1. r.key = k.column
      BY <2>3, <2>6, RelationKey
    <3>2. k.column \in DOMAIN p.stored
      BY <2>3, <2>5, <2>6, KeysAssumption
    <3>3. PICK nulls : p.value = WithNulls(p.stored, nulls)
      BY <2>2, ValueIsNulls
    <3>4. f.stored["id"] = p.value[k.column]
      BY <2>4, <2>6, <3>1
    <3>5. p.value[k.column] \in {Null, p.stored[k.column]}
      BY <3>2, <3>3 DEF WithNulls
    <3> QED BY <2>1, <2>6, <3>4, <3>5 DEF up, p, r
  <2>7. CASE r.kind = "many" /\ k.from = Level(path).subject /\ k.to = Level(up).subject
    <3>1. r.key = k.column
      BY <2>3, <2>7, RelationKey
    <3>2. p.value = WithNulls(p.stored, Unreadable(ReadRule(Level(up)),
                                          ToSet(Level(up).select), p.stored))
      BY <2>2, ValueIsExact
    <3>3. "id" \in ToSet(Level(up).select) => Can(ReadRule(Level(up)), p.stored, "id")
      BY <2>5 DEF IdsMayBeRead, IInv, Level, ReadRule
    <3>4. p.value["id"] = p.stored["id"]
      BY <2>5, <3>2, <3>3 DEF WithNulls, Unreadable
    <3>5. f.stored[k.column] = p.value["id"]
      BY <2>4, <2>7, <3>1
    <3> QED BY <2>7, <3>4, <3>5 DEF up, p, r
  <2> QED BY <2>6, <2>7 DEF up, r
<1>2. (MaskingIsBlind /\ IdsMayBeRead) => (MaskingIsBlind /\ IdsMayBeRead)'
  OBVIOUS
<1> QED BY <1>1, <1>2, Invariant, PTL

-----------------------------------------------------------------------------
\* Every variable has its type, and a field of one row answers with one at most.
THEOREM TypeCorrect == Spec => []TypeOK
<1>1. IInv => TypeOK
  <2> SUFFICES ASSUME IInv PROVE TypeOK
    OBVIOUS
  <2>1. \A s \in Subjects : table[s] \subseteq SubjectRows
    BY DEF IInv, Tables
  <2>2. commits \in 0 .. MaxCommits /\ ability \in Abilities /\ document \in Documents
    BY DEF IInv
  <2>3. ASSUME NEW path \in DOMAIN answers, NEW f \in answers[path].found
        PROVE  f.stored \in SubjectRows /\ f.value \in SubjectRows
    <3>1. PICK nulls \in SUBSET ToSet(Level(path).select) :
            f.value = WithNulls(f.stored, nulls)
      BY ValueIsNulls
    <3>2. /\ Len(path) + 1 \in DOMAIN document /\ document \in Documents
          /\ Level(path) = document[Len(path) + 1]
          /\ f.stored \in Stored(Level(path).subject)
          /\ Level(path).subject \in Subjects
      BY FoundAt DEF IInv, Level
    <3> QED BY <3>1, <3>2, MaskedRowsAssumption, StoredRows
  <2>4. ASSUME NEW path \in DOMAIN answers
        PROVE  /\ path = <<>> \/ Front(path) \in DOMAIN answers
               /\ answers[path].verdict \in Verdict
               /\ answers[path].number \in Nat
               /\ (path = <<>> /\ Level(path).field = "findOne")
                  \/ (path # <<>> /\ Relation(path).kind = "one")
                    => Cardinality(answers[path].found) <= 1
    BY DEF IInv, FieldOfDocument, Sound, AsksForOne
  <2> QED BY <2>1, <2>2, <2>3, <2>4 DEF TypeOK
<1> QED BY <1>1, Invariant, PTL
=============================================================================
