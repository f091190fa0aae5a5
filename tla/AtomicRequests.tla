---------------------------- MODULE AtomicRequests ----------------------------
(***************************************************************************)
(* What the transaction around a GraphQL operation promises.  An operation *)
(* performs effects that nobody else sees.  Once, all of them reach the    *)
(* database together, or none ever does.  What reaches it is audited.      *)
(* Several operations may settle at the same moment: the process can exit. *)
(***************************************************************************)
EXTENDS Naturals

CONSTANTS Ops, MaxFields

VARIABLES verdict, work, store

Row(o, f) == [op |-> o, field |-> f, kind |-> "row"]
Audit(o, f) == [op |-> o, field |-> f, kind |-> "audit"]

Footprint(o) == [op : {o}, field : 1 .. MaxFields, kind : {"row", "audit"}]

Audited(effects) ==
  \A o \in Ops, f \in 1 .. MaxFields :
    Row(o, f) \in effects => Audit(o, f) \in effects

Init ==
  /\ verdict = [o \in Ops |-> "open"]
  /\ work = [o \in Ops |-> {}]
  /\ store = {}

Perform(o) ==
  /\ verdict[o] = "open"
  /\ \E e \in Footprint(o) : work' = [work EXCEPT ![o] = @ \cup {e}]
  /\ UNCHANGED <<verdict, store>>

Settle(applied, discarded) ==
  /\ applied \cap discarded = {}
  /\ \A o \in applied \cup discarded : verdict[o] = "open"
  /\ \A o \in applied : Audited(work[o])
  /\ verdict' = [o \in Ops |-> IF o \in applied THEN "applied"
                               ELSE IF o \in discarded THEN "discarded"
                               ELSE verdict[o]]
  /\ store' = store \cup UNION {work[o] : o \in applied}
  /\ UNCHANGED work

Next ==
  \/ \E o \in Ops : Perform(o)
  \/ \E applied, discarded \in SUBSET Ops : Settle(applied, discarded)

vars == <<verdict, work, store>>

Spec == Init /\ [][Next]_vars
=============================================================================
