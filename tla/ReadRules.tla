------------------------------ MODULE ReadRules ------------------------------
(***************************************************************************)
(* One query operation under the rules ReadMany, ReadOne and Count: a root *)
(* field, and below it relation fields that are resolved once for every    *)
(* row their parent answered, in any order, each with a statement of its   *)
(* own while other users commit changes.                                   *)
(*                                                                         *)
(* A rule asks the ability before the resolver is called, about the        *)
(* subject type, and after it, about the rows it returned.  ReadMany then  *)
(* sets the columns that may not be read to null, in the row itself.       *)
(***************************************************************************)
EXTENDS Ability, Resolvers, FiniteSets, FiniteSetsExt, SequencesExt

CONSTANTS
  Subjects,    \* of the instance
  Start,       \* [Subjects -> sets of rows]
  Changes,     \* what others may commit: [subject, id, by], by the new rows
  MaxCommits,  \* bound: how often they do
  Documents,   \* sequences of levels, the root field first
  Abilities,   \* [{"read", "sort", "filter"} -> [Subjects -> Seq(Rule)]]
  Null

\* How a page is asked for: from the start, or from a cursor that is written in
\* the document or comes in a variable.
Cursor == {"none", "literal", "variable"}

\* A level of the document: the field, the subject that it answers with, the
\* fields selected of that, and its arguments.
LevelOK(level) ==
  /\ level.subject \in Subjects
  /\ level.take \in Nat
  /\ level.cursor \in Cursor
  /\ level.sort \subseteq SubjectFields
  /\ DOMAIN level.filter \subseteq SubjectFields
  /\ level.select \in Seq(SubjectFields)

ASSUME InstanceAssumption ==
  /\ Subjects \subseteq Subject
  /\ Start \in [Subjects -> SUBSET SubjectRows]
  /\ \A change \in Changes :
       change.subject \in Subjects /\ change.by \subseteq SubjectRows
  /\ MaxCommits \in Nat
  /\ \A a \in Abilities, action \in {"read", "sort", "filter"}, s \in Subjects :
       a[action][s] \in Seq(Rule)

\* A document follows relations that exist, and selects what it follows.
ASSUME DocumentAssumption ==
  \A d \in Documents :
    /\ Len(d) \in Nat \ {0} /\ DOMAIN d = 1 .. Len(d)
    /\ \A n \in DOMAIN d : LevelOK(d[n])
    /\ d[1].field \in {"findMany", "findOne", "count"}
    /\ d[1].field \in DOMAIN Operations[d[1].subject].programs
    /\ \A n \in DOMAIN d \ {1} :
         /\ d[n].field \in ToSet(d[n - 1].select)
         /\ \E r \in Relations[d[n - 1].subject] :
              r.name = d[n].field /\ r.target = d[n].subject

\* Rows have columns.
IsRow(row) == row = [column \in DOMAIN row |-> row[column]]

\* The rows that a table ever holds.
Stored(s) ==
  Start[s] \cup UNION {change.by : change \in {c \in Changes : c.subject = s}}

\* Tables are finite and have a primary key; a row has the columns that tie it
\* to other rows of the instance.
ASSUME KeysAssumption ==
  /\ \A s \in Subjects :
       /\ IsFiniteSet(Start[s])
       /\ \A row1, row2 \in Start[s] : row1["id"] = row2["id"] => row1 = row2
       /\ \A row \in Stored(s) :
            IsRow(row) /\ "id" \in DOMAIN row /\ row["id"] # Null
  /\ \A change \in Changes :
       /\ IsFiniteSet(change.by)
       /\ \A row1, row2 \in change.by : row1["id"] = row2["id"] => row1 = row2
       /\ \A row \in change.by : row["id"] = change.id
  /\ \A k \in ForeignKeys : k.from \in Subjects /\ k.to \in Subjects =>
       \A row \in Stored(k.from) : k.column \in DOMAIN row

\* A row in which some fields have been set to null, relations among them.
WithNulls(row, fields) ==
  [f \in DOMAIN row \cup fields |-> IF f \in fields THEN Null ELSE row[f]]

\* The rules are asked about rows in that state too.
ASSUME MaskedRowsAssumption ==
  \A d \in Documents : \A n \in DOMAIN d :
    \A row \in Stored(d[n].subject), fields \in SUBSET ToSet(d[n].select) :
      WithNulls(row, fields) \in SubjectRows

VARIABLES
  table,     \* committed rows
  commits,
  ability,   \* the rules of the request, by action and subject
  document,
  answers    \* what the fields that have been resolved so far answered

vars == <<table, commits, ability, document, answers>>

Init ==
  /\ table = Start
  /\ commits = 0
  /\ ability \in Abilities
  /\ document \in Documents
  /\ answers = <<>>

-----------------------------------------------------------------------------
(* Fields.  The root field has the path <<>>, and the field below a row the *)
(* path of the field that answered the row, followed by the row's id.       *)

Level(path) == document[Len(path) + 1]

Below(path) ==
  IF Len(path) + 1 < Len(document)
  THEN {Append(path, f.stored["id"]) : f \in answers[path].found} ELSE {}

Pending ==
  ({<<>>} \cup UNION {Below(path) : path \in DOMAIN answers}) \ DOMAIN answers

\* The row whose field is resolved, as its parent answered it.
Parent(path) ==
  CHOOSE f \in answers[Front(path)].found : f.stored["id"] = Last(path)

Relation(path) ==
  CHOOSE r \in Relations[Level(Front(path)).subject] :
    r.name = Level(path).field

Answer(path, verdict, found, number) ==
  /\ answers' =
       [p \in DOMAIN answers \cup {path} |->
          IF p = path
          THEN [verdict |-> verdict, found |-> found, number |-> number]
          ELSE answers[p]]
  /\ UNCHANGED <<table, commits, ability, document>>

-----------------------------------------------------------------------------
(* Before the resolver.                                                    *)

May(action, level, field) ==
  Can(ability[action][level.subject], TypeOnly, field)

CanSortByFields(level) == \A field \in level.sort : May("sort", level, field)

CanFilterByFields(level) ==
  \A field \in DOMAIN level.filter : May("filter", level, field)

\* A cursor means sorting by id.  GraphQL makes a string of an ID that comes in
\* a variable, and only a cursor that is a number is looked at.
CanPaginate(level) == level.cursor = "literal" => May("sort", level, "id")

CanSelect(level) ==
  \A i \in DOMAIN level.select : May("read", level, level.select[i])

Permitted(level) ==
  /\ May("read", level, NoField)
  /\ CanSortByFields(level) /\ CanFilterByFields(level) /\ CanPaginate(level)
  /\ CanSelect(level)

Refuse(path) ==
  /\ ~Permitted(Level(path))
  /\ Answer(path, "refused", {}, 0)

-----------------------------------------------------------------------------
(* After the resolver.                                                     *)

ReadRule(level) == ability["read"][level.subject]

\* Fields are asked about by the subject type.
Masking_Bug(level, row) ==
  LET value[n \in 0 .. Len(level.select)] ==
        IF n = 0 THEN row
        ELSE LET before == value[n - 1]
                 field == level.select[n]
             IN  IF Can(ReadRule(level), TypeOnly, field) THEN before
                 ELSE WithNulls(before, {field})
  IN  value

\* value[field] = null, for one selected field after the other.  A field is
\* asked about on the value in which those before it are already null.
Masking(level, row) ==
  LET value[n \in 0 .. Len(level.select)] ==
        IF n = 0 THEN row
        ELSE LET before == value[n - 1]
                 field == level.select[n]
             IN  IF Can(ReadRule(level), before, field) THEN before
                 ELSE WithNulls(before, {field})
  IN  value

Masked(level, row) == Masking(level, row)[Len(level.select)]

\* ReadMany: a row that may not be read at all spoils the list.
AnswerMany(path, rows) ==
  LET level == Level(path)
  IN  IF \E row \in rows : ~Can(ReadRule(level), row, NoField)
      THEN Answer(path, "forbidden", {}, 0)
      ELSE Answer(path, "answered",
                  {[stored |-> row, value |-> Masked(level, row)] : row \in rows},
                  0)

\* ReadOne: so does a single field.
AnswerOne(path, rows) ==
  LET level == Level(path)
      readable(row) ==
        /\ Can(ReadRule(level), row, NoField)
        /\ \A i \in DOMAIN level.select :
             Can(ReadRule(level), row, level.select[i])
  IN  IF \E row \in rows : ~readable(row)
      THEN Answer(path, "forbidden", {}, 0)
      ELSE Answer(path, "answered",
                  {[stored |-> row, value |-> row] : row \in rows}, 0)

-----------------------------------------------------------------------------
(* Resolvers.                                                              *)

\* accessibleBy(ctx.req.permissions)[as].
Narrowed(subject, as) ==
  {row \in table[subject] : Accessible(ability["read"][as], row)}

Filtered(level, rows) ==
  {row \in rows : \A c \in DOMAIN level.filter : row[c] = level.filter[c]}

\* Some page of the rows, of at most "take" of them.
Pages(level, rows) == kSubset(Min({level.take, Cardinality(rows)}), rows)

FindMany(path) ==
  LET level == Level(path)
  IN  /\ path = <<>> /\ level.field = "findMany"
      /\ Permitted(level)
      /\ \E page \in Pages(level, Filtered(level,
                                           Narrowed(level.subject, level.subject))) :
           AnswerMany(path, page)

\* The id is not looked at.
FindOne_Bug(path) ==
  LET level == Level(path)
  IN  /\ path = <<>> /\ level.field = "findOne"
      /\ Permitted(level)
      /\ AnswerOne(path, Narrowed(level.subject, level.subject))

\* findFirst({ where: { AND: [{ id }, accessibleBy(permissions)] } })
FindOne(path) ==
  LET level == Level(path)
  IN  /\ path = <<>> /\ level.field = "findOne"
      /\ Permitted(level)
      /\ AnswerOne(path, {row \in Narrowed(level.subject, level.subject) :
                            row["id"] = level.id})

\* The query is narrowed by the rules about countedAs; accessibleBy throws if
\* those grant nothing at all.
Count(path) ==
  LET level == Level(path)
      as == Operations[level.subject].countedAs
  IN  /\ path = <<>> /\ level.field = "count"
      /\ Permitted(level)
      /\ IF Can(ability["read"][as], TypeOnly, NoField)
         THEN Answer(path, "answered", {},
                     Cardinality(Filtered(level, Narrowed(level.subject, as))))
         ELSE Answer(path, "forbidden", {}, 0)

\* The parent's rule has set the relation to null.
Hidden(value, name) == name \in DOMAIN value /\ value[name] = Null

\* findFirst({ where: { id: parent.key } })
FollowOne(path) ==
  /\ path # <<>> /\ Relation(path).kind = "one"
  /\ Permitted(Level(path))
  /\ LET value == Parent(path).value
         relation == Relation(path)
     IN  IF Hidden(value, relation.name)
         THEN AnswerOne(path, {})
         ELSE AnswerOne(path, {row \in table[relation.target] :
                                 row["id"] = value[relation.key]})

\* A filter takes the place of the relation's condition.
FollowMany_Bug(path) ==
  /\ path # <<>> /\ Relation(path).kind = "many"
  /\ Permitted(Level(path))
  /\ LET value == Parent(path).value
         relation == Relation(path)
         level == Level(path)
         rows == Narrowed(relation.target, relation.target)
         theirs == {row \in rows : row[relation.key] = value["id"]}
     IN  IF Hidden(value, relation.name)
         THEN AnswerMany(path, {})
         ELSE \E page \in Pages(level, IF DOMAIN level.filter = {} THEN theirs
                                       ELSE Filtered(level, rows)) :
                AnswerMany(path, page)

\* findMany({ where: { AND: [accessibleBy(permissions), { key: parent.id },
\* filter] } }), with the id of the value that the parent answered.
FollowMany(path) ==
  /\ path # <<>> /\ Relation(path).kind = "many"
  /\ Permitted(Level(path))
  /\ LET value == Parent(path).value
         relation == Relation(path)
         level == Level(path)
         rows == Narrowed(relation.target, relation.target)
     IN  IF Hidden(value, relation.name)
         THEN AnswerMany(path, {})
         ELSE \E page \in Pages(level, Filtered(level,
                {row \in rows : row[relation.key] = value["id"]})) :
                  AnswerMany(path, page)

-----------------------------------------------------------------------------
(* Mutations of others become visible between two statements.              *)
Commit(change) ==
  /\ answers # <<>> /\ commits < MaxCommits
  /\ commits' = commits + 1
  /\ table' = [table EXCEPT ![change.subject] =
                 {row \in @ : row["id"] # change.id} \cup change.by]
  /\ UNCHANGED <<ability, document, answers>>

Resolve(path) ==
  \/ Refuse(path)
  \/ FindMany(path) \/ FindOne(path) \/ Count(path)
  \/ FollowOne(path) \/ FollowMany(path)

Next ==
  \/ \E path \in Pending : Resolve(path)
  \/ \E change \in Changes : Commit(change)

Spec == Init /\ [][Next]_vars

-----------------------------------------------------------------------------
(* Circumstances in which what the code says of itself is true.            *)

\* Nothing that a rule says of a selected field depends on a selected field that
\* it hides.
Unreadable(rules, fields, row) == {field \in fields : ~Can(rules, row, field)}

Blind(rules, fields, row) ==
  Can(rules, row, NoField) =>
    \A nulls \in SUBSET Unreadable(rules, fields, row), field \in fields :
      Can(rules, WithNulls(row, nulls), field) <=> Can(rules, row, field)

MaskingIsBlind ==
  \A a \in Abilities, d \in Documents : \A n \in DOMAIN d :
    \A row \in Stored(d[n].subject) :
      Blind(a["read"][d[n].subject], ToSet(d[n].select), row)

\* An id that is selected may be read wherever its row may be.
IdsMayBeRead ==
  \A a \in Abilities, d \in Documents : \A n \in DOMAIN d :
    \A row \in Stored(d[n].subject) :
      /\ "id" \in ToSet(d[n].select)
      /\ Can(a["read"][d[n].subject], row, NoField)
      => Can(a["read"][d[n].subject], row, "id")

-----------------------------------------------------------------------------
(* Properties.                                                             *)

Verdict == {"refused", "forbidden", "answered"}

\* Every variable has its type, the fields resolved form a tree, and a field
\* of one row has one.
TypeOK ==
  /\ \A s \in Subjects : table[s] \subseteq SubjectRows
  /\ commits \in 0 .. MaxCommits
  /\ ability \in Abilities /\ document \in Documents
  /\ \A path \in DOMAIN answers :
       /\ path = <<>> \/ Front(path) \in DOMAIN answers
       /\ answers[path].verdict \in Verdict
       /\ answers[path].number \in Nat
       /\ \A f \in answers[path].found :
            f.stored \in SubjectRows /\ f.value \in SubjectRows
       /\ (path = <<>> /\ Level(path).field = "findOne")
          \/ (path # <<>> /\ Relation(path).kind = "one")
            => Cardinality(answers[path].found) <= 1

\* A list is never refused because of a row in it: what accessibleBy lets the
\* query find passes the check that is made on each row afterwards, though
\* one of them reads the rules in their order and the other does not.
ListsAreNotRefused ==
  \A path \in DOMAIN answers :
    answers[path].verdict = "forbidden" =>
      \/ path = <<>> /\ Level(path).field \in {"findOne", "count"}
      \/ path # <<>> /\ Relation(path).kind = "one"

\* What rule.decorator.ts says of lists without strict mode: in each row that
\* is answered the fields that may not be read are null.  The others are as
\* they are stored, and relations are followed just where they may be read.
MasksAreExact ==
  \A path \in DOMAIN answers : \A f \in answers[path].found :
    \A field \in ToSet(Level(path).select) :
      LET readable == Can(ReadRule(Level(path)), f.stored, field)
      IN  IF field \in DOMAIN f.stored
          THEN f.value[field] = IF readable THEN f.stored[field] ELSE Null
          ELSE Hidden(f.value, field) <=> ~readable

\* What the comments on the relation resolvers say: a relation field answers
\* with the rows that a foreign key ties to the parent row, while rows are
\* masked on the way and others move them between two statements.
RelationsHold ==
  \A path \in DOMAIN answers \ {<<>>} : \A f \in answers[path].found :
    \A k \in ForeignKeys :
      LET above == Level(Front(path)).subject
          below == Level(path).subject
          parent == Parent(path).stored
      IN  /\ Relation(path).kind = "one" /\ k.from = above /\ k.to = below =>
               f.stored["id"] = parent[k.column]
          /\ Relation(path).kind = "many" /\ k.from = below /\ k.to = above =>
               f.stored[k.column] = parent["id"]

\* What the comment on canPaginate says: to use a cursor one needs permission to
\* sort by id.  It is not so for a cursor that comes in a variable.
CursorsNeedSort ==
  \A path \in DOMAIN answers :
    answers[path].verdict # "refused" /\ Level(path).cursor # "none"
      => May("sort", Level(path), "id")

\* What count.ts says of count resolvers: they count the resources that the
\* user has permission to read, those a list query would find at that moment.
\* It is not so where countedAs is another subject.
CountIsOfReadable ==
  [][\A path \in DOMAIN answers' \ DOMAIN answers :
       /\ path = <<>> /\ Level(path).field = "count"
       /\ answers'[path].verdict = "answered"
       => answers'[path].number =
            Cardinality(Filtered(Level(path), Narrowed(Level(path).subject,
                                                       Level(path).subject)))]_vars
=============================================================================
