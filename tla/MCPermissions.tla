----------------------------- MODULE MCPermissions -----------------------------
(* One user, two groups and the reserved group.                               *)
EXTENDS Permissions, TLC

CONSTANTS x, y, crew, admins, guest, user

MCSubjectRows == {x, y}
MCSubjectFields == {"name", "price"}
MCGroups == {crew, admins, guest}
MCPriority == (crew :> 1) @@ (admins :> 2) @@ (guest :> 0)

Permit(owner, inverted, fields, rows, variable) ==
  [owner |-> owner, inverted |-> inverted, fields |-> fields, rows |-> rows,
   variable |-> variable]

\* Permits and denials with and without field lists and conditions.
MCRows ==
  {Permit(user, TRUE, {"price"}, Unlimited, "none"),
   Permit(crew, FALSE, Unlimited, {x}, "$groups"),
   Permit(admins, FALSE, {"name", "price"}, Unlimited, "none"),
   Permit(admins, TRUE, Unlimited, {y}, "$id"),
   Permit(guest, FALSE, {"name"}, {x}, "none"),
   Permit(guest, FALSE, Unlimited, {y}, "$id")}
=============================================================================
