------------------------------ MODULE Streams ------------------------------
(***************************************************************************)
(* StreamResolver.  Video streams have no table: stream workers publish    *)
(* their state on a RabbitMQ exchange, the server keeps the latest message *)
(* of each in a list in memory, and an interval sweeps out those that have *)
(* not been heard of for a while.  Mutations send commands to the workers  *)
(* and write an audit entry; clients page through the list by cursor.      *)
(*                                                                         *)
(* Workers, broker and clients are the environment, modelled from how this *)
(* code uses them.  An element of the list is the message it came in, of   *)
(* which only the id is told apart, and whether a field other than the id  *)
(* has been set to null by the ReadMany rule since.                        *)
(***************************************************************************)
EXTENDS Naturals, Sequences, FiniteSets, Functions

CONSTANTS
  Ids,          \* ids of streams, numbered in the order of localeCompare
  Running,      \* streams that run when the server is first started
  Readers,      \* clients that page through the list
  Hides,        \* <<r, i>>: r may not read some field of stream i
  Calls,        \* createStream and deleteStream mutations
  Silence,      \* 300000 ms in units of Tick
  Retries,      \* attempts of connectToRabbit
  Take,         \* page size
  MaxInbox,     \* bound: state messages on their way
  MaxOutages,   \* bound: restarts of the broker
  None

ASSUME IdsAssumption == Ids \subseteq Nat /\ IsFiniteSet(Ids) /\ None \notin Ids
ASSUME RunningAssumption == Running \subseteq Ids
ASSUME CallsAssumption == IsFiniteSet(Calls)
ASSUME HidesAssumption == Hides \subseteq Readers \X Ids
ASSUME LimitsAssumption ==
  /\ Silence \in Nat /\ MaxInbox \in Nat /\ MaxOutages \in Nat
  /\ Retries \in Nat \ {0} /\ Take \in Nat \ {0}

VARIABLES
  streams,         \* the list
  streamLastSeen,  \* time since the time stamp of a listed stream, capped
  quiet,           \* time since its last message, likewise: no part of the code
  feed,            \* the server's side of the exchange
  tries,           \* failed attempts of connectToRabbit
  broker,          \* RabbitMQ is up
  outages,
  inbox,           \* the exclusive queue bound to video:state
  worker,          \* the process that runs the stream
  starts,          \* messages in video:control:start
  stops,           \* streams with a "stop" in video:control:<id>
  muted,           \* streams whose "stop" went down with the broker
  call,            \* the mutation's progress
  target,          \* the id it was called with
  recorded,        \* streams whose deletion has a committed audit entry
  pager,           \* the client's progress
  cursor,          \* its cursor
  got,             \* what it has been answered, until its cursor is lost
  steady,          \* streams listed since its first page
  lost             \* its cursor was not on the list

list == <<streams, streamLastSeen, quiet>>
link == <<feed, tries, broker, outages, inbox>>
workers == <<worker, starts, stops, muted>>
calls == <<call, target, recorded>>
clients == <<pager, cursor, got, steady, lost>>
vars == <<list, link, workers, calls, clients>>

Element == [id : Ids, nulled : BOOLEAN]
Listed == {streams[k].id : k \in 1 .. Len(streams)}

\* Every variable has its type; the list is as long as there are streams.
TypeOK ==
  /\ streams \in Seq(Element) /\ Len(streams) <= Cardinality(Ids)
  /\ streamLastSeen \in [Ids -> 0 .. Silence + 1]
  /\ quiet \in [Ids -> 0 .. Silence + 1]
  /\ feed \in {"connecting", "up", "deaf"}
  /\ tries \in 0 .. Retries
  /\ broker \in BOOLEAN /\ outages \in 0 .. MaxOutages
  /\ inbox \in Seq(Ids) /\ Len(inbox) <= MaxInbox
  /\ worker \in [Ids -> {"none", "running", "stopped"}]
  /\ starts \in 0 .. Cardinality(Calls)
  /\ stops \subseteq Ids /\ muted \subseteq Ids
  /\ call \in [Calls -> {"idle", "starting", "stopping", "auditing",
                         "finishing", "settled"}]
  /\ target \in [Calls -> Ids \cup {None}]
  /\ recorded \subseteq Ids
  /\ pager \in [Readers -> {"idle", "paging", "done"}]
  /\ cursor \in [Readers -> Ids \cup {None}]
  /\ got \in [Readers -> Seq(Element)]
  /\ steady \in [Readers -> SUBSET Ids]
  /\ lost \in [Readers -> BOOLEAN]

Init ==
  /\ streams = <<>> /\ streamLastSeen = [i \in Ids |-> 0]
  /\ quiet = [i \in Ids |-> 0]
  /\ feed = "connecting" /\ tries = 0
  /\ broker \in BOOLEAN /\ outages = 0 /\ inbox = <<>>
  /\ worker = [i \in Ids |-> IF i \in Running THEN "running" ELSE "none"]
  /\ starts = 0 /\ stops = {} /\ muted = {}
  /\ call = [c \in Calls |-> "idle"] /\ target = [c \in Calls |-> None]
  /\ recorded = {}
  /\ pager = [r \in Readers |-> "idle"] /\ cursor = [r \in Readers |-> None]
  /\ got = [r \in Readers |-> <<>>] /\ steady = [r \in Readers |-> {}]
  /\ lost = [r \in Readers |-> FALSE]

\* Streams that leave the list are no longer steady for any client.
StillSteady(listed) == [r \in Readers |-> steady[r] \cap listed]

-----------------------------------------------------------------------------
(* The connection to RabbitMQ.                                             *)

\* The process ends and is started again: the list, the exclusive queue and
\* everything in flight are gone.  Transactions that were open roll back.
ProcessExit ==
  /\ streams' = <<>> /\ streamLastSeen' = [i \in Ids |-> 0]
  /\ quiet' = [i \in Ids |-> 0]
  /\ feed' = "connecting" /\ tries' = 0 /\ inbox' = <<>>
  /\ call' = [c \in Calls |-> IF call[c] = "idle" THEN "idle" ELSE "settled"]
  /\ pager' = [r \in Readers |->
                 IF pager[r] = "paging" THEN "idle" ELSE pager[r]]
  /\ cursor' = [r \in Readers |-> None]
  /\ got' = [r \in Readers |-> IF pager[r] = "done" THEN got[r] ELSE <<>>]
  /\ steady' = [r \in Readers |-> {}]
  /\ lost' = [r \in Readers |-> pager[r] = "done" /\ lost[r]]

\* The consumer is installed on an exclusive queue bound to the exchange.
Connect ==
  /\ feed = "connecting" /\ tries < Retries /\ broker
  /\ feed' = "up" /\ tries' = 0
  /\ UNCHANGED <<list, broker, outages, inbox, workers, calls, clients>>

\* An attempt too many.
ConnectFails_Bug ==
  /\ feed = "connecting" /\ ~broker
  /\ tries' = tries + 1
  /\ UNCHANGED <<list, feed, broker, outages, inbox, workers, calls, clients>>

\* Five seconds pass before the next attempt.
ConnectFails ==
  /\ feed = "connecting" /\ tries < Retries /\ ~broker
  /\ tries' = tries + 1
  /\ UNCHANGED <<list, feed, broker, outages, inbox, workers, calls, clients>>

\* The server goes on without its list.
GiveUp_Bug ==
  /\ feed = "connecting" /\ tries = Retries
  /\ feed' = "deaf"
  /\ UNCHANGED <<list, tries, broker, outages, inbox, workers, calls, clients>>

\* "Could not connect to RabbitMQ": the constructor has no handler for the
\* rejection, which ends the process.
GiveUp ==
  /\ feed = "connecting" /\ tries = Retries
  /\ ProcessExit
  /\ UNCHANGED <<broker, outages, workers, target, recorded>>

\* The broker goes down; what it has not delivered is lost.  A lost connection
\* is an "error" event that nobody listens to, and ends the process; an
\* orderly shutdown is a "close" event only, and nobody connects again.
BrokerDown ==
  /\ broker /\ outages < MaxOutages
  /\ broker' = FALSE /\ outages' = outages + 1
  /\ muted' = muted \cup stops /\ stops' = {} /\ starts' = 0
  /\ UNCHANGED <<worker, target, recorded>>
  /\ \/ /\ feed = "up"
        /\ ProcessExit
     \/ /\ feed' = IF feed = "up" THEN "deaf" ELSE feed
        /\ inbox' = <<>>
        /\ UNCHANGED <<list, tries, call, clients>>

BrokerUp ==
  /\ ~broker
  /\ broker' = TRUE
  /\ UNCHANGED <<list, feed, tries, outages, inbox, workers, calls, clients>>

-----------------------------------------------------------------------------
(* Workers.                                                                *)

\* A worker takes a command from video:control:start and draws an id that
\* nobody has named before.
Start(i) ==
  /\ broker /\ starts > 0 /\ worker[i] = "none"
  /\ \A c \in Calls : target[c] # i
  /\ starts' = starts - 1
  /\ worker' = [worker EXCEPT ![i] = "running"]
  /\ UNCHANGED <<list, link, stops, muted, calls, clients>>

\* It publishes its state; the exchange drops it when no queue is bound.
Publish(i) ==
  /\ broker /\ worker[i] = "running" /\ Len(inbox) < MaxInbox
  /\ feed = "up"
  /\ inbox' = Append(inbox, i)
  /\ UNCHANGED <<list, feed, tries, broker, outages, workers, calls, clients>>

\* It reads "stop" and ends for good.
Stop(i) ==
  /\ broker /\ i \in stops
  /\ stops' = stops \ {i}
  /\ worker' = [worker EXCEPT ![i] = "stopped"]
  /\ UNCHANGED <<list, link, starts, muted, calls, clients>>

-----------------------------------------------------------------------------
(* The list.                                                               *)

\* findIndex, as a set: none or one index.
IndexOf(i) == {k \in 1 .. Len(streams) : streams[k].id = i}
Replaced(m) == [k \in 1 .. Len(streams) |->
                  IF streams[k].id = m.id THEN m ELSE streams[k]]

\* sort with localeCompare.
Sorted(s) ==
  LET indices == 1 .. Len(s)
      order == CHOOSE p \in Bijection(indices, indices) :
                 \A j, k \in indices : j < k => s[p[j]].id <= s[p[k]].id
  IN  [k \in indices |-> s[order[k]]]

\* New streams go to the end of the list.
Placed_Bug(m) ==
  IF IndexOf(m.id) # {} THEN Replaced(m) ELSE Append(streams, m)

\* The result of findIndex is taken for a truth value: -1 is one, 0 is not.
Placed_Truthy_Bug(m) ==
  IF IndexOf(m.id) = {} THEN streams
  ELSE IF IndexOf(m.id) # {1} THEN Replaced(m)
       ELSE Sorted(Append(streams, m))

\* An update in place, or a push and a sort.
Placed(m) ==
  IF IndexOf(m.id) # {} THEN Replaced(m)
  ELSE Sorted(Append(streams, m))

\* Only a new stream gets a time stamp.
Consume_Bug ==
  /\ inbox # <<>>
  /\ streams' = Placed([id |-> Head(inbox), nulled |-> FALSE])
  /\ streamLastSeen' =
       IF Head(inbox) \in Listed THEN streamLastSeen
       ELSE [streamLastSeen EXCEPT ![Head(inbox)] = 0]
  /\ quiet' = [quiet EXCEPT ![Head(inbox)] = 0]
  /\ inbox' = Tail(inbox)
  /\ UNCHANGED <<feed, tries, broker, outages, workers, calls, clients>>

\* The consumer of the exclusive queue.
Consume ==
  /\ inbox # <<>>
  /\ streams' = Placed([id |-> Head(inbox), nulled |-> FALSE])
  /\ streamLastSeen' = [streamLastSeen EXCEPT ![Head(inbox)] = 0]
  /\ quiet' = [quiet EXCEPT ![Head(inbox)] = 0]
  /\ inbox' = Tail(inbox)
  /\ UNCHANGED <<feed, tries, broker, outages, workers, calls, clients>>

\* Date.now() moves on.
Older(time) ==
  [i \in Ids |-> IF i \in Listed /\ time[i] <= Silence THEN time[i] + 1 ELSE time[i]]

Tick ==
  /\ streamLastSeen' = Older(streamLastSeen) /\ quiet' = Older(quiet)
  /\ UNCHANGED <<streams, link, workers, calls, clients>>

Dead(i) == streamLastSeen[i] > Silence

\* The loop over the list: splice each dead element out.  The element that moves
\* into its place is looked at too (i--).
Kept ==
  LET kept[k \in 0 .. Len(streams)] ==
        IF k = 0 THEN <<>>
        ELSE IF Dead(streams[k].id) THEN kept[k - 1]
        ELSE Append(kept[k - 1], streams[k])
  IN  kept[Len(streams)]

Reset(time) == [i \in Ids |-> IF Dead(i) THEN 0 ELSE time[i]]

\* The time stamps are removed, the streams are not.
Sweep_Bug ==
  /\ \E i \in Listed : Dead(i)
  /\ streamLastSeen' = Reset(streamLastSeen) /\ quiet' = Reset(quiet)
  /\ UNCHANGED <<streams, link, workers, calls, clients>>

\* The interval: dead streams are removed, and their time stamps deleted.
Sweep ==
  /\ \E i \in Listed : Dead(i)
  /\ streams' = Kept
  /\ streamLastSeen' = Reset(streamLastSeen) /\ quiet' = Reset(quiet)
  /\ steady' = StillSteady({i \in Listed : ~Dead(i)})
  /\ UNCHANGED <<link, workers, calls, pager, cursor, got, lost>>

-----------------------------------------------------------------------------
(* createStream and deleteStream.                                          *)

Advance(c, stage) == call' = [call EXCEPT ![c] = stage]

\* The @Rule checks and the validation of the input have passed.
CreateStream(c) ==
  /\ call[c] = "idle"
  /\ Advance(c, "starting")
  /\ UNCHANGED <<list, link, workers, target, recorded, clients>>

\* A stream that is not on the list is undefined: the question is then about
\* subject "all", and an administrator's call goes on.
DeleteStream(c, i) ==
  /\ call[c] = "idle"
  /\ Advance(c, "stopping")
  /\ target' = [target EXCEPT ![c] = i]
  /\ UNCHANGED <<list, link, workers, recorded, clients>>

\* connect, createChannel, assertQueue, sendToQueue, close.
SendStart(c) ==
  /\ call[c] = "starting" /\ broker
  /\ starts' = starts + 1
  /\ Advance(c, "auditing")
  /\ UNCHANGED <<list, link, worker, stops, muted, target, recorded, clients>>

\* The queue is not asserted: the command is dropped when no worker has one.
SendStop(c) ==
  /\ call[c] = "stopping" /\ broker
  /\ stops' = IF worker[target[c]] = "running" THEN stops \cup {target[c]}
              ELSE stops
  /\ Advance(c, "auditing")
  /\ UNCHANGED <<list, link, worker, starts, muted, target, recorded, clients>>

\* The broker cannot be reached: the mutation is answered with the error.
SendFails(c) ==
  /\ call[c] \in {"starting", "stopping"} /\ ~broker
  /\ Advance(c, "settled")
  /\ UNCHANGED <<list, link, workers, target, recorded, clients>>

\* genAuditLog on the request's transaction.
AuditStream(c) ==
  /\ call[c] = "auditing"
  /\ Advance(c, "finishing")
  /\ UNCHANGED <<list, link, workers, target, recorded, clients>>

CommitCall(c) ==
  /\ call[c] = "finishing"
  /\ recorded' = IF target[c] = None THEN recorded
                 ELSE recorded \cup {target[c]}
  /\ Advance(c, "settled")
  /\ UNCHANGED <<list, link, workers, target, clients>>

\* The entry fails, or the transaction ends without a commit; the command has
\* left all the same.
RollBackCall(c) ==
  /\ call[c] \in {"auditing", "finishing"}
  /\ Advance(c, "settled")
  /\ UNCHANGED <<list, link, workers, target, recorded, clients>>

-----------------------------------------------------------------------------
(* findManyStream.                                                         *)

\* Start of the page, counted from 0: a cursor that is not found counts as
\* the first element.
PageStart(c, skip) ==
  (IF IndexOf(c) = {} THEN 0 ELSE (CHOOSE k \in IndexOf(c) : TRUE) - 1) + skip

\* The element after the cursor's, although the client skips it already.
Slice_Bug(c, skip) ==
  LET first == PageStart(c, skip) + IF c = None THEN 1 ELSE 2
      last == first + Take - 1
  IN  SubSeq(streams, first, IF last < Len(streams) THEN last ELSE Len(streams))

\* this.streams.slice(start, start + take)
Slice(c, skip) ==
  LET first == PageStart(c, skip) + 1
      last == first + Take - 1
  IN  SubSeq(streams, first, IF last < Len(streams) THEN last ELSE Len(streams))

\* The ReadMany rule sets the fields that r may not read to null, in the
\* elements of the list themselves.
Nulled(r, s) ==
  [k \in 1 .. Len(s) |->
     [s[k] EXCEPT !.nulled = @ \/ <<r, s[k].id>> \in Hides]]

MaskedList(r, page) ==
  [k \in 1 .. Len(streams) |->
     IF \E j \in 1 .. Len(page) : page[j].id = streams[k].id
     THEN [streams[k] EXCEPT !.nulled = @ \/ <<r, streams[k].id>> \in Hides]
     ELSE streams[k]]

\* A client asks for the first page, then for the one after the last element
\* it was given (skip: 1), until a page is not full.
FindManyStream(r) ==
  LET skip == IF pager[r] = "idle" THEN 0 ELSE 1
      page == Slice(cursor[r], skip)
      full == Len(page) = Take
      astray == lost[r] \/ cursor[r] \notin Listed \cup {None}
  IN  /\ pager[r] # "done"
      /\ streams' = MaskedList(r, page)
      /\ lost' = [lost EXCEPT ![r] = astray]
      /\ got' = [got EXCEPT ![r] = IF astray THEN <<>>
                                   ELSE @ \o Nulled(r, page)]
      /\ steady' = IF pager[r] = "idle"
                   THEN [steady EXCEPT ![r] = Listed] ELSE steady
      /\ cursor' = [cursor EXCEPT ![r] = IF full THEN page[Take].id ELSE None]
      /\ pager' = [pager EXCEPT ![r] = IF full THEN "paging" ELSE "done"]
      /\ UNCHANGED <<streamLastSeen, quiet, link, workers, calls>>

-----------------------------------------------------------------------------
Run(c) ==
  \/ SendStart(c) \/ SendStop(c) \/ SendFails(c)
  \/ AuditStream(c) \/ CommitCall(c) \/ RollBackCall(c)

Next ==
  \/ Connect \/ ConnectFails \/ GiveUp \/ BrokerDown \/ BrokerUp
  \/ Consume \/ Tick \/ Sweep
  \/ \E i \in Ids : Start(i) \/ Publish(i) \/ Stop(i)
  \/ \E c \in Calls : CreateStream(c) \/ (\E i \in Ids : DeleteStream(c, i)) \/ Run(c)
  \/ \E r \in Readers : FindManyStream(r)

\* The interval fires, the consumer is called, connection attempts end, a
\* mutation under way goes on, clocks and running workers do not stand still,
\* and the broker is brought up again.
Spec ==
  /\ Init /\ [][Next]_vars
  /\ WF_vars(Connect \/ ConnectFails \/ GiveUp) /\ WF_vars(BrokerUp)
  /\ WF_vars(Consume) /\ WF_vars(Tick) /\ WF_vars(Sweep)
  /\ \A i \in Ids : WF_vars(Stop(i)) /\ SF_vars(Publish(i))
  /\ \A c \in Calls : WF_vars(Run(c))

-----------------------------------------------------------------------------
(* Properties.                                                             *)

\* The list is sorted by id without repetition whatever the order of messages
\* and sweeps: findIndex and paging take it for granted.
ListIsOrdered ==
  \A j, k \in 1 .. Len(streams) : j < k => streams[j].id < streams[k].id

\* A client that pages by cursor while streams come, report and are swept is
\* answered nothing twice, and in the end everything that was listed all along;
\* unless a sweep or a restart took the very element its cursor names.
PagingIsExact ==
  \A r \in Readers :
    ~lost[r] =>
      /\ \A j, k \in 1 .. Len(got[r]) : j < k => got[r][j].id < got[r][k].id
      /\ pager[r] = "done" =>
           steady[r] \subseteq {got[r][k].id : k \in 1 .. Len(got[r])}

\* A field that was answered as null is one that the user may not read: "the
\* fields that the user does not have permission to read will be set to null".
MaskIsPrivate ==
  \A r \in Readers : \A k \in 1 .. Len(got[r]) :
    got[r][k].nulled => <<r, got[r][k].id>> \in Hides

\* The list shows streams that report and clears dead ones, and no others: see
\* LiveStreams.
Live == INSTANCE LiveStreams WITH shown <- Listed, silent <- quiet
LiveSpec == Live!Spec

\* A deleted stream leaves the list and does not come back, although its last
\* messages may be under way and a sweep may be late; unless the broker went
\* down with the command.
DeletedStreamsLeave ==
  \A i \in Ids :
    (i \in recorded /\ i \notin muted) ~> [](i \notin Listed \/ i \in muted)

\* A server that looks for the broker finds it in the end, through retries and
\* restarts, however the broker comes and goes.
FeedComesUp == feed = "connecting" ~> feed = "up"

\* While a worker runs and the server hears it, its stream is on the list time
\* and again, even if it is swept for a report that was late.
RunningStreamsAreListed ==
  \A i \in Ids :
    <>[](worker[i] = "running" /\ feed = "up") => []<>(i \in Listed)
=============================================================================
