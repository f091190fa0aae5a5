----------------------------- MODULE MCRequestTx -----------------------------
(* Two operations over a pool of two connections.                          *)
EXTENDS RequestTx, TLC

CONSTANTS o1, o2, q1, q2

MCOps == {o1, o2}
MCReqs == {q1, q2}

\* Each operation has its own HTTP request, or both come in one array.
Separate == (o1 :> q1) @@ (o2 :> q2)
Batched == (o1 :> q1) @@ (o2 :> q1)

MCQueries == {PermissionsForProgram}
MCMutations == {UpdateProgram, CreateContactProgram, DeleteStreamProgram}
OneMutation == {CreateProgram}
Nothing == {}
=============================================================================
