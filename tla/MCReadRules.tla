----------------------------- MODULE MCReadRules -----------------------------
(* People with credits, and assets with parts.                              *)
EXTENDS ReadRules

MCSubjects == {"Person", "Credit", "Asset"}
MCSubjectFields ==
  {"id", "name", "title", "credits", "person", "parent", "children",
   "personId", "parentId"}

Person(id, name) == [id |-> id, name |-> name]
Credit(id, personId) == [id |-> id, personId |-> personId, title |-> "editor"]
Asset(id, parentId, name) == [id |-> id, parentId |-> parentId, name |-> name]

MCStart ==
  [Person |-> {Person(1, "ann"), Person(2, "bob")},
   Credit |-> {Credit(1, 1), Credit(2, 2)},
   Asset |-> {Asset(1, Null, "cart"), Asset(2, 1, "camera")}]

\* A credit goes to somebody else or away, an asset out of its parent.
MCChanges ==
  {[subject |-> "Credit", id |-> 1, by |-> {Credit(1, 2)}],
   [subject |-> "Credit", id |-> 2, by |-> {}],
   [subject |-> "Asset", id |-> 2, by |-> {Asset(2, Null, "camera")}]}

Versions(s) == MCStart[s] \cup UNION {c.by : c \in {d \in MCChanges : d.subject = s}}

\* With any of the selected fields set to null.
Selected ==
  [Person |-> {"id", "name", "credits"}, Credit |-> {"id", "title", "person"},
   Asset |-> {"id", "name", "parent", "children"}]
MCSubjectRows ==
  UNION {{[f \in fields |-> Null] @@ row :
            row \in Versions(s), fields \in SUBSET Selected[s]} :
         s \in MCSubjects}

-----------------------------------------------------------------------------
Where(column, value) ==
  {row \in MCSubjectRows : column \in DOMAIN row /\ row[column] = value}
Permit(fields, rows) == [fields |-> fields, rows |-> rows, inverted |-> FALSE]
Deny(fields, rows) == [fields |-> fields, rows |-> rows, inverted |-> TRUE]
Everything == <<Permit(Unlimited, Unlimited)>>

\* Conditions on columns that no rule hides.
PersonRules ==
  {Everything, <<Permit({"name"}, Unlimited)>>,
   <<Permit(Unlimited, Where("id", 1)), Permit({"credits"}, Unlimited)>>,
   Everything \o <<Deny({"name"}, Where("id", 2))>>}
CreditRules ==
  {Everything, <<>>,
   <<Deny(Unlimited, Where("id", 2))>> \o Everything,
   Everything \o <<Deny(Unlimited, Where("id", 1)),
                   Permit(Unlimited, Where("personId", 2)),
                   Deny({"title"}, Where("personId", 2))>>}
AssetRules ==
  {Everything,
   Everything \o <<Deny({"children", "name"}, Where("id", 1))>>,
   Everything \o <<Deny(Unlimited, Where("id", 2))>>}

AbilitiesOf(people, credits, assets) ==
  {[read |-> [Person |-> p, Credit |-> c, Asset |-> a],
    sort |-> [s \in MCSubjects |-> sorts],
    filter |-> [s \in MCSubjects |-> Everything]] :
     p \in people, c \in credits, a \in assets,
     sorts \in {<<>>, <<Permit({"id"}, Unlimited)>>}}

MCAbilities == AbilitiesOf(PersonRules, CreditRules, AssetRules)

\* A denial whose condition is on a column that another denial hides.
ChainedAbilities ==
  AbilitiesOf({Everything \o <<Deny({"name"}, Unlimited), Permit({"name"}, Where("id", 1)),
                              Deny({"credits"}, Where("name", "bob"))>>},
             {Everything}, {Everything})

\* The id of an asset may not be read.
HiddenIdAbilities ==
  AbilitiesOf({Everything}, {Everything},
             {Everything \o <<Deny({"id"}, Where("id", 2))>>})

-----------------------------------------------------------------------------
Ask(subject, field, select) ==
  [subject |-> subject, field |-> field, select |-> select, id |-> 2,
   filter |-> <<>>, sort |-> {}, cursor |-> "none", take |-> 20]

MCDocuments ==
  {<<Ask("Person", "findMany", <<"name", "credits">>),
     Ask("Credit", "credits", <<"title", "person">>),
     Ask("Person", "person", <<"name">>)>>,
   <<[Ask("Credit", "findOne", <<"title", "person">>) EXCEPT !.id = 1],
     Ask("Person", "person", <<"name", "credits">>),
     [Ask("Credit", "credits", <<"id">>) EXCEPT !.filter = [title |-> "editor"]]>>,
   <<[Ask("Asset", "findMany", <<"id", "name", "children">>)
        EXCEPT !.sort = {"id"}, !.cursor = "literal"],
     [Ask("Asset", "children", <<"id", "parent">>) EXCEPT !.take = 1],
     Ask("Asset", "parent", <<"name">>)>>,
   <<[Ask("Asset", "findMany", <<"name">>) EXCEPT !.cursor = "literal", !.take = 1]>>,
   <<[Ask("Credit", "count", <<>>) EXCEPT !.filter = [personId |-> 2]]>>,
   <<Ask("Asset", "count", <<>>)>>}

AssetDocuments ==
  {<<Ask("Asset", "findMany", <<"id", "children">>),
     Ask("Asset", "children", <<"name">>)>>}

PersonDocuments ==
  {<<Ask("Person", "findMany", <<"name", "credits">>),
     Ask("Credit", "credits", <<"title">>)>>}

\* A page from a cursor, however it comes.
CursorDocuments ==
  {<<[Ask("Asset", "findMany", <<"name">>) EXCEPT !.cursor = c, !.take = 1]>> :
     c \in Cursor}

\* A count that is narrowed by the rules about another subject.
PersonCount == {<<Ask("Person", "count", <<>>)>>}

\* What the code says of masks and relations is checked in its circumstances,
\* and refuted outside them.
ASSUME CircumstancesAssumption ==
  /\ Documents = MCDocuments /\ Abilities = MCAbilities =>
       MaskingIsBlind /\ IdsMayBeRead
  /\ Abilities = ChainedAbilities /\ Documents = PersonDocuments => ~MaskingIsBlind
  /\ Abilities = HiddenIdAbilities /\ Documents = AssetDocuments => ~IdsMayBeRead
=============================================================================
