---------------------------- MODULE LiveStreams ----------------------------
(***************************************************************************)
(* What the list of streams promises: a stream that reports is shown, one  *)
(* that has been silent for longer than Silence is taken off in the end,   *)
(* and no other is.  Streams implements it with a list, a consumer of a    *)
(* queue and a periodic sweep.                                             *)
(***************************************************************************)
EXTENDS Naturals

CONSTANTS Ids, Silence

VARIABLES
  shown,    \* streams on the list
  silent    \* time since the last report of a stream that is shown, capped

vars == <<shown, silent>>

Init ==
  /\ shown = {}
  /\ silent = [i \in Ids |-> 0]

Report(i) ==
  /\ shown' = shown \cup {i}
  /\ silent' = [silent EXCEPT ![i] = 0]

\* Time passes for those that are shown.
Pass ==
  /\ silent' = [i \in Ids |-> IF i \in shown /\ silent[i] <= Silence
                              THEN silent[i] + 1 ELSE silent[i]]
  /\ UNCHANGED shown

\* Dead streams, and only those, are cleared.
Clear ==
  \E dead \in SUBSET {i \in shown : silent[i] > Silence} :
    /\ dead # {}
    /\ shown' = shown \ dead
    /\ silent' = [i \in Ids |-> IF i \in dead THEN 0 ELSE silent[i]]

\* The list does not survive the process.
Forget ==
  /\ shown' = {}
  /\ silent' = [i \in Ids |-> 0]

Next == (\E i \in Ids : Report(i)) \/ Pass \/ Clear \/ Forget

Spec == Init /\ [][Next]_vars /\ WF_vars(Clear)
=============================================================================
