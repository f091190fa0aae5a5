----------------------------- MODULE MCRowHistory -----------------------------
(* Operations on two rows of two columns: an owner and a state.  Rows in the  *)
(* state "final" may not be changed any more.                                 *)
EXTENDS RowHistory, TLC

CONSTANTS o1, o2, o3, r1, r2

TwoOps == {o1, o2}
ThreeOps == {o1, o2, o3}
MCRows == {r1, r2}
MCFields == {"owner", "state"}
MCValues == {"mine", "final"}
Fresh == [f \in MCFields |-> "mine"]
MCStart == [r \in MCRows |-> Fresh]

MCReadable == [MCFields -> MCValues]
Open == {v \in MCReadable : v["state"] = "mine"}
MCAllowed == [kind \in {"update", "delete"} |->
                IF kind = "update" THEN Open ELSE MCReadable]

Set(r, column, value) ==
  [kind |-> "update", row |-> r, input |-> (column :> value)]
Delete(r) == [kind |-> "delete", row |-> r]

Nothing(r) == [kind |-> "update", row |-> r, input |-> <<>>]

\* Two documents that take the rows in opposite orders, one that changes a row
\* and then deletes it, and one that asks for no change.
MCDocuments ==
  {<<Set(r1, "owner", "final"), Set(r2, "state", "final")>>,
   <<Set(r2, "owner", "final"), Set(r1, "owner", "mine")>>,
   <<Set(r1, "owner", "final"), Delete(r1)>>,
   <<Nothing(r1)>>}
=============================================================================
