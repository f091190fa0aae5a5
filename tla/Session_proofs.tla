--------------------------- MODULE Session_proofs ---------------------------
(***************************************************************************)
(* Who a request acts as, for any users, browsers, documents and bounds,   *)
(* and any number of requests at a time, as long as session ids last.      *)
(***************************************************************************)
EXTENDS Session, TLAPS

\* Ids that are in use somewhere, as NewSid has them.
Used == {s \in Sids : store[s] # None} \cup ended
          \cup {cookie[b] : b \in Browsers} \cup {req[r].sid : r \in Requests}
IdsLast == \E s \in Sids : s \notin Used

-----------------------------------------------------------------------------
(* What is true of a request.                                              *)

InLogin == {"found", "recorded", "identified", "renewed", "signedIn"}
Settled == {"permissions", "next", "found", "recorded", "signedIn", "cleared",
            "emptied"}

\* The stages of login and logout belong to such a field.
FieldOf(q) ==
  /\ q.at \in InLogin => q.todo # <<>> /\ Head(q.todo).op \in {"login", "discord"}
  /\ q.at \in {"cleared", "emptied"} => q.todo # <<>> /\ Head(q.todo).op = "logout"

\* A visit of the Discord route is alone in its request.
Alone(q) == \A k \in 1 .. Len(q.todo) : q.todo[k].op \in Routes => Len(q.todo) = 1

\* Whoever logs in has an access log before anything says so.
Logged(q) ==
  /\ q.holds.user \in logged \cup {Guest}
  /\ q.at \in InLogin \ {"found"} => Head(q.todo).as \in logged

\* Permissions are those of the user.
Judged(q) ==
  /\ q.at \in {"identified", "renewed", "signedIn"} =>
       q.user = Head(q.todo).as /\ q.permissions = Head(q.todo).as
  /\ q.at \in {"cleared", "emptied"} => q.user = None
  /\ (q.at = "next" /\ q.todo # <<>> /\ Head(q.todo).op \notin Routes) =>
       q.permissions = Identity(q.user)

\* The session in memory is that of the user, except in the middle of a login.
Matching(q) ==
  /\ q.at \in Settled => q.holds.user = Identity(q.user)
  /\ q.at = "deserialize" => ~q.dirty /\ q.user = None
  /\ (q.at = "respond" /\ q.dirty /\ ~q.broken) => q.holds.user = Identity(q.user)
  /\ q.at \in {"renewed", "emptied"} => q.sid = None
  /\ q.at = "cleared" => q.sid # None
  /\ q.at # "idle" => q.from \in Browsers

\* The request may save the session it came with.
Visits(q) == q.todo # <<>> /\ Head(q.todo).op \in Routes

\* One that came with a session that has been logged out does not save a user.
Outlived(q) == q.sid \in ended => q.holds.user = Guest \/ (~q.dirty /\ ~Visits(q))

\* Only what is nobody's is without an id; a session that was regenerated and
\* has one is that of a login; only a failed logout is counted as saved.
Kept(q) ==
  /\ (q.sid = None /\ ~q.broken) => q.holds.user = Guest
  /\ (q.dirty /\ q.sid # None /\ ~Visits(q) /\ ~q.broken /\ q.at # "cleared") =>
       q.holds.user # Guest
  /\ q.saved => q.broken

GoodReq(q) ==
  /\ FieldOf(q) /\ Alone(q) /\ Logged(q) /\ Judged(q) /\ Matching(q)
  /\ Outlived(q) /\ Kept(q)

\* A session that a login has just made is nobody else's, and is stored.
Private(q) == q.dirty /\ q.sid # None /\ ~Visits(q) /\ q.holds.user # Guest
OwnInv ==
  \A r \in Requests : Private(req[r]) =>
    /\ \A q \in Requests : q # r => req[q].sid # req[r].sid
    /\ \A b \in Browsers : cookie[b] # req[r].sid
    /\ store[req[r].sid] # None /\ store[req[r].sid].user = req[r].holds.user

\* Redis and all requests that know an id name the same user, or nobody.
Agree(u, v) == u = Guest \/ v = Guest \/ u = v
OneUser ==
  \A r \in Requests : req[r].sid # None =>
    /\ store[req[r].sid] # None => Agree(store[req[r].sid].user, req[r].holds.user)
    /\ \A q \in Requests :
         req[q].sid = req[r].sid => Agree(req[q].holds.user, req[r].holds.user)

IInv ==
  /\ TypeOK
  /\ logged \subseteq accounts
  /\ \A s \in Sids : store[s] # None => store[s].user \in logged \cup {Guest}
  /\ LogoutEnds
  /\ \A r \in Requests : GoodReq(req[r])
  /\ OwnInv
  /\ OneUser

-----------------------------------------------------------------------------
(* Ids and fields.                                                         *)

\* An id that is new is known nowhere.
LEMMA NewSidIsNew ==
  ASSUME IdsLast
  PROVE  /\ NewSid \in Sids /\ store[NewSid] = None /\ NewSid \notin ended
         /\ \A b \in Browsers : cookie[b] # NewSid
         /\ \A r \in Requests : req[r].sid # NewSid
  BY DEF IdsLast, Used, NewSid

\* What is left of a document.
LEMMA Sequences ==
  ASSUME NEW q \in Request
  PROVE  /\ q.todo # <<>> => /\ Head(q.todo) \in Field /\ Tail(q.todo) \in Seq(Field)
                             /\ Head(q.todo) = q.todo[1]
                             /\ Len(Tail(q.todo)) = Len(q.todo) - 1
                             /\ \A k \in 1 .. Len(Tail(q.todo)) :
                                  Tail(q.todo)[k] = q.todo[k + 1]
  BY DEF Request

\* No visit of the Discord route is among the fields that are left.
LEMMA Rest ==
  ASSUME NEW p \in Request, Alone(p), p.todo # <<>>
  PROVE  LET rest == Tail(p.todo)
         IN  /\ rest \in Seq(Field)
             /\ \A k \in 1 .. Len(rest) : rest[k].op \notin Routes
             /\ rest # <<>> => Head(rest).op \notin Routes
<1> DEFINE rest == Tail(p.todo)
<1>1. rest \in Seq(Field) /\ Len(rest) = Len(p.todo) - 1
  BY Sequences
<1>2. ASSUME NEW k \in 1 .. Len(rest) PROVE rest[k].op \notin Routes
  <2>1. rest[k] = p.todo[k + 1] /\ k + 1 \in 1 .. Len(p.todo) /\ Len(p.todo) # 1
    BY <1>1, Sequences DEF Request
  <2>2. QED
    BY <2>1 DEF Alone
<1>3. rest # <<>> => Head(rest) = rest[1] /\ 1 \in 1 .. Len(rest)
  BY <1>1
<1>4. QED
  BY <1>1, <1>2, <1>3

-----------------------------------------------------------------------------
(* What a request may become while nothing but it changes: a good one, that *)
(* has taken no session that it did not have.                              *)

Sound(p, q) ==
  /\ q \in Request /\ GoodReq(q) /\ q.sid \in {None, p.sid}
  /\ q.sid # None => q.holds.user \in {Guest, p.holds.user}
  /\ Private(q) => Private(p) /\ q.sid = p.sid

Heads(p, ops) == p.todo # <<>> /\ Head(p.todo).op \in ops
As(p) == Head(p.todo).as

\* Before the document, and fields that are only judged.
LEMMA SoundFields ==
  ASSUME NEW p \in Request, GoodReq(p)
  PROVE  /\ (p.at \in Settled \ {"cleared"} \/ (p.at # "idle" /\ ~p.dirty)) =>
              Sound(p, [p EXCEPT !.at = "respond"])
         /\ p.at = "deserialize" =>
              LET next == IF Head(p.todo).op \in Routes THEN "next" ELSE "permissions"
              IN  /\ p.holds.user = Guest => Sound(p, [p EXCEPT !.at = next])
                  /\ p.holds.user # Guest =>
                       Sound(p, [p EXCEPT !.at = next, !.user = p.holds.user])
         /\ p.at = "permissions" =>
              /\ p.user # None =>
                   Sound(p, [p EXCEPT !.at = "next", !.permissions = p.user])
              /\ p.user = None =>
                   Sound(p, [p EXCEPT !.at = "next", !.permissions = Guest])
         /\ (p.at = "next" /\ Heads(p, {"act"})) =>
              Sound(p, [p EXCEPT !.at = "next", !.todo = Tail(p.todo)])
<1> USE Sequences
    DEF Sound, GoodReq, FieldOf, Alone, Logged, Judged, Matching, Kept, Outlived, Visits,
        Private, Settled, InLogin, Routes, Identity, Request, Stages, SessionData, Heads
<1>1. ASSUME p.at \in Settled \ {"cleared"} \/ (p.at # "idle" /\ ~p.dirty)
      PROVE  Sound(p, [p EXCEPT !.at = "respond"])
  BY <1>1
<1>2. ASSUME p.at = "deserialize", NEW s \in {"next", "permissions"},
             s = "next" => Head(p.todo).op \in Routes
      PROVE  /\ p.holds.user = Guest => Sound(p, [p EXCEPT !.at = s])
             /\ p.holds.user # Guest =>
                  Sound(p, [p EXCEPT !.at = s, !.user = p.holds.user])
  BY <1>2, GuestAssumption
<1>3. ASSUME p.at = "permissions", p.user # None
      PROVE  Sound(p, [p EXCEPT !.at = "next", !.permissions = p.user])
  BY <1>3
<1>4. ASSUME p.at = "permissions", p.user = None
      PROVE  Sound(p, [p EXCEPT !.at = "next", !.permissions = Guest])
  BY <1>4
<1>5. ASSUME p.at = "next", Heads(p, {"act"})
      PROVE  Sound(p, [p EXCEPT !.at = "next", !.todo = Tail(p.todo)])
  BY <1>5, Rest
<1> HIDE DEF Sound
<1>6. QED
  BY <1>1, <1>2, <1>3, <1>4, <1>5

\* Logins.
LEMMA SoundLogins ==
  ASSUME NEW p \in Request, GoodReq(p)
  PROVE  /\ (p.at = "next" /\ Heads(p, {"login"})) =>
              Sound(p, [p EXCEPT !.at = "found"])
         /\ (p.at = "next" /\ Heads(p, {"discord"})) =>
              \A s \in {"found", "respond"}, d \in BOOLEAN :
                Sound(p, [p EXCEPT !.at = s, !.dirty = d,
                                   !.holds = SessionOf(p.holds.user, FALSE)])
         /\ (p.at = "next" /\ Heads(p, {"authorize"})) =>
              Sound(p, [p EXCEPT !.at = "respond", !.dirty = TRUE,
                                 !.holds = SessionOf(p.holds.user, TRUE)])
         /\ p.at = "recorded" =>
              Sound(p, [p EXCEPT !.at = "identified", !.permissions = As(p),
                                 !.user = As(p)])
         /\ (p.at = "signedIn" /\ Heads(p, {"login"})) =>
              Sound(p, [p EXCEPT !.at = "next", !.todo = Tail(p.todo)])
<1> USE Sequences
    DEF Sound, GoodReq, FieldOf, Alone, Logged, Judged, Matching, Kept, Outlived, Visits,
        Private, Settled, InLogin, Routes, Identity, Request, Stages, SessionData,
        SessionOf, Heads, As, Field, Empty
<1>1. ASSUME p.at = "next", Heads(p, {"login"})
      PROVE  Sound(p, [p EXCEPT !.at = "found"])
  BY <1>1
<1>2. ASSUME p.at = "next", Heads(p, {"discord"}),
             NEW s \in {"found", "respond"}, NEW d \in BOOLEAN
      PROVE  Sound(p, [p EXCEPT !.at = s, !.dirty = d,
                                !.holds = SessionOf(p.holds.user, FALSE)])
  <2> DEFINE q == [p EXCEPT !.at = s, !.dirty = d,
                            !.holds = SessionOf(p.holds.user, FALSE)]
  <2>1. /\ q \in Request /\ q.at = s /\ q.dirty = d /\ q.holds.user = p.holds.user
        /\ q.sid = p.sid /\ q.todo = p.todo /\ q.from = p.from /\ q.user = p.user
        /\ q.saved = p.saved /\ q.broken = p.broken
    OBVIOUS
  <2>2. Visits(p) /\ p.holds.user = Identity(p.user)
    BY <1>2
  <2> HIDE DEF q
  <2>3. GoodReq(q)
    BY <1>2, <2>1, <2>2
  <2>4. QED
    BY <2>1, <2>2, <2>3 DEF q
<1>3. ASSUME p.at = "next", Heads(p, {"authorize"})
      PROVE  Sound(p, [p EXCEPT !.at = "respond", !.dirty = TRUE,
                                !.holds = SessionOf(p.holds.user, TRUE)])
  BY <1>3
<1>4. ASSUME p.at = "recorded"
      PROVE  Sound(p, [p EXCEPT !.at = "identified", !.permissions = As(p),
                                !.user = As(p)])
  BY <1>4
<1>5. ASSUME p.at = "signedIn", Heads(p, {"login"})
      PROVE  Sound(p, [p EXCEPT !.at = "next", !.todo = Tail(p.todo)])
  <2>1. As(p) \in logged /\ As(p) \in Users /\ p.user = As(p) /\ p.permissions = As(p)
    BY <1>5
  <2> DEFINE q == [p EXCEPT !.at = "next", !.todo = Tail(p.todo)]
  <2>2. /\ q \in Request /\ q.at = "next" /\ q.todo = Tail(p.todo)
        /\ q.dirty = p.dirty /\ q.holds = p.holds /\ q.sid = p.sid /\ q.from = p.from
        /\ q.user = p.user /\ q.permissions = p.permissions
        /\ q.saved = p.saved /\ q.broken = p.broken
    BY <1>5, Rest
  <2>3. ~Visits(p) /\ ~Visits(q)
    BY <1>5, <2>2, Rest
  <2> HIDE DEF q
  <2>4. Kept(q) /\ Outlived(q)
    BY <1>5, <2>2, <2>3
  <2>5. FieldOf(q) /\ Alone(q) /\ Logged(q) /\ Judged(q) /\ Matching(q)
    BY <1>5, <2>1, <2>2, Rest, GuestAssumption
  <2>6. QED
    BY <2>2, <2>3, <2>4, <2>5 DEF q
<1> HIDE DEF Sound
<1>6. QED
  BY <1>1, <1>2, <1>3, <1>4, <1>5

\* A login that fails.
LEMMA SoundFault ==
  ASSUME NEW p \in Request, GoodReq(p), p.at # "idle",
         NEW s \in SessionData, s.user \in logged \cup {Guest}, None \notin ended
  PROVE  Sound(p, [p EXCEPT !.at = "respond", !.sid = None, !.holds = s,
                            !.dirty = TRUE, !.saved = FALSE, !.broken = TRUE,
                            !.user = None])
<1> DEFINE q == [p EXCEPT !.at = "respond", !.sid = None, !.holds = s,
                          !.dirty = TRUE, !.saved = FALSE, !.broken = TRUE,
                          !.user = None]
<1>1. /\ q \in Request
      /\ q.at = "respond" /\ q.sid = None /\ q.holds = s /\ q.todo = p.todo
      /\ q.from = p.from /\ q.broken /\ q.user = None
  BY DEF Request, Stages
<1> HIDE DEF q
<1>2. ~Private(q)
  BY <1>1 DEF Private
<1>3. GoodReq(q)
  <2>1. Alone(q) /\ q.from \in Browsers
    BY <1>1 DEF GoodReq, Alone, Matching
  <2>2. q.sid \notin ended
    BY <1>1
  <2>3. QED
    BY <1>1, <2>1, <2>2
    DEF GoodReq, FieldOf, Logged, Judged, Matching, Kept, Outlived, Visits, InLogin,
        Settled
<1>4. QED
  BY <1>1, <1>2, <1>3 DEF Sound, q

\* Logouts.
LEMMA SoundLogouts ==
  ASSUME NEW p \in Request, GoodReq(p)
  PROVE  /\ (p.at = "next" /\ Heads(p, {"logout"})) =>
              \A d, b \in BOOLEAN :
                Sound(p, [p EXCEPT !.at = "respond", !.user = None, !.broken = TRUE,
                                   !.saved = b, !.dirty = d,
                                   !.holds = SessionOf(Guest, p.holds.state)])
         /\ p.at = "cleared" =>
              Sound(p, [p EXCEPT !.at = "respond", !.sid = None, !.holds = Empty,
                                 !.dirty = TRUE, !.saved = FALSE])
         /\ p.at = "emptied" =>
              Sound(p, [p EXCEPT !.at = "next", !.todo = Tail(p.todo),
                                 !.permissions = Guest])
<1> USE Sequences
    DEF Sound, GoodReq, FieldOf, Alone, Logged, Judged, Matching, Kept, Outlived, Visits,
        Private, Settled, InLogin, Routes, Identity, Request, Stages, SessionData,
        SessionOf, Heads, Empty
<1>1. ASSUME p.at = "next", Heads(p, {"logout"}), NEW d \in BOOLEAN, NEW b \in BOOLEAN
      PROVE  Sound(p, [p EXCEPT !.at = "respond", !.user = None, !.broken = TRUE,
                                !.saved = b, !.dirty = d,
                                !.holds = SessionOf(Guest, p.holds.state)])
  BY <1>1
<1>2. ASSUME p.at = "cleared"
      PROVE  Sound(p, [p EXCEPT !.at = "respond", !.sid = None, !.holds = Empty,
                                !.dirty = TRUE, !.saved = FALSE])
  BY <1>2
<1>3. ASSUME p.at = "emptied"
      PROVE  Sound(p, [p EXCEPT !.at = "next", !.todo = Tail(p.todo),
                                !.permissions = Guest])
  BY <1>3, Rest
<1> HIDE DEF Sound
<1>4. QED
  BY <1>1, <1>2, <1>3

-----------------------------------------------------------------------------
(* Steps.                                                                  *)

\* What the invariant says of one request.
LEMMA Mine ==
  ASSUME IInv, NEW r \in Requests
  PROVE  /\ req[r] \in Request /\ GoodReq(req[r])
         /\ arrivals \in 0 .. MaxArrivals /\ faults \in 0 .. MaxFaults
         /\ None \notin ended
  BY SidsAssumption DEF IInv, TypeOK

\* An id keeps its one user when a request drops it or goes on with the user it
\* had or with none, and the store does the same with what it has.
LEMMA OneUserKept ==
  ASSUME IInv, NEW r \in Requests,
         \A p \in Requests : p # r => req'[p] = req[p],
         \/ req'[r].sid = None
         \/ req'[r].sid = req[r].sid /\ req'[r].holds.user = req[r].holds.user
         \/ req'[r].holds.user = Guest,
         \A s \in Sids : store'[s] # None =>
           \/ store'[s] = store[s]
           \/ store'[s].user = Guest
           \/ req[r].sid = s /\ store'[s].user = req[r].holds.user
           \/ \A p \in Requests : req'[p].sid # s,
         \A p \in Requests : req'[p].sid \in Sids \cup {None}
  PROVE  OneUser'
<1> SUFFICES ASSUME NEW p \in Requests, req'[p].sid # None
             PROVE  LET sid == req'[p].sid
                        u == req'[p].holds.user
                    IN  /\ store'[sid] # None => Agree(store'[sid].user, u)
                        /\ \A q \in Requests :
                             req'[q].sid = sid => Agree(req'[q].holds.user, u)
  BY DEF OneUser, Agree
<1>1. req'[p].sid \in Sids
  OBVIOUS
<1>2. \A q \in Requests : (req'[q].sid # None /\ req'[q].holds.user # Guest) =>
        req[q].sid = req'[q].sid /\ req[q].holds.user = req'[q].holds.user
  OBVIOUS
<1>3. ASSUME NEW q \in Requests, req'[q].sid = req'[p].sid
      PROVE  Agree(req'[q].holds.user, req'[p].holds.user)
  BY <1>2, <1>3 DEF IInv, OneUser, Agree
<1>4. ASSUME store'[req'[p].sid] # None
      PROVE  Agree(store'[req'[p].sid].user, req'[p].holds.user)
  <2>1. CASE req'[p].holds.user = Guest
    BY <2>1 DEF Agree
  <2>2. CASE req'[p].holds.user # Guest
    <3>1. req[p].sid = req'[p].sid /\ req[p].holds.user = req'[p].holds.user
      BY <1>2, <2>2
    <3>2. QED
      BY <1>1, <1>4, <3>1 DEF IInv, OneUser, Agree
  <2>3. QED
    BY <2>1, <2>2
<1>5. QED
  BY <1>3, <1>4

\* What a step of one request has to show: the rest follows from what it does
\* to accounts, sessions and the request itself.
LEMMA StepKeeps ==
  ASSUME IInv, NEW r \in Requests, NEW q \in Request, Becomes(r, q),
         GoodReq(req[r])',
         \A p \in Requests : p # r => Outlived(req[p])',
         accounts' = accounts, logged \subseteq logged', logged' \subseteq accounts,
         guestGroup' \in BOOLEAN,
         store' \in [Sids -> SessionData \cup {None}],
         \A s \in Sids : store'[s] # None => store'[s].user \in logged' \cup {Guest},
         cookie' \in [Browsers -> Sids \cup {None}],
         ended' \subseteq Sids, LogoutEnds', OwnInv', OneUser',
         arrivals' \in 0 .. MaxArrivals, faults' \in 0 .. MaxFaults
  PROVE  IInv'
<1>1. req \in [Requests -> Request] /\ req' \in [Requests -> Request]
  BY DEF IInv, TypeOK, Becomes
<1>2. \A p \in Requests : p # r => req'[p] = req[p]
  BY <1>1 DEF Becomes
<1>3. \A p \in Requests : GoodReq(req[p])'
  <2> TAKE p \in Requests
  <2>1. CASE p = r
    BY <2>1
  <2>2. CASE p # r
    <3>1. GoodReq(req[p]) /\ req'[p] = req[p] /\ Outlived(req[p])'
      BY <1>2, <2>2 DEF IInv
    <3>2. QED
      BY <3>1 DEF GoodReq, FieldOf, Alone, Logged, Judged, Matching, Kept, Visits,
          Identity
  <2>3. QED
    BY <2>1, <2>2
<1>4. TypeOK'
  <2>1. \A p \in Requests : req'[p].at \in {"renewed", "emptied"} => req'[p].sid = None
    BY <1>3 DEF GoodReq, Matching
  <2>2. QED
    BY <1>1, <2>1 DEF IInv, TypeOK
<1>5. QED
  BY <1>3, <1>4 DEF IInv

\* A sound step that changes nothing but its request.
LEMMA Local ==
  ASSUME IInv, NEW r \in Requests, UNCHANGED <<tables, sessions>>,
         arrivals' \in 0 .. MaxArrivals, faults' \in 0 .. MaxFaults,
         NEW q, Sound(req[r], q), Becomes(r, q)
  PROVE  IInv'
<1>1. /\ UNCHANGED <<accounts, logged, guestGroup, store, cookie, ended>>
      /\ q \in Request
  BY DEF tables, sessions, Sound
<1>2. req \in [Requests -> Request]
  BY DEF IInv, TypeOK
<1>3. req'[r] = q /\ \A p \in Requests : p # r => req'[p] = req[p]
  BY <1>2 DEF Becomes
<1>4. GoodReq(req[r])'
  BY <1>1, <1>3
  DEF Sound, GoodReq, FieldOf, Alone, Logged, Judged, Matching, Kept, Outlived, Visits,
      Identity
<1>5. \A p \in Requests : p # r => Outlived(req[p])'
  BY <1>1, <1>3 DEF IInv, GoodReq, Kept, Outlived, Visits
<1>6. OwnInv'
  <2> SUFFICES ASSUME NEW p \in Requests, Private(req[p])'
               PROVE  /\ \A o \in Requests : o # p => req'[o].sid # req'[p].sid
                      /\ \A b \in Browsers : cookie'[b] # req'[p].sid
                      /\ store'[req'[p].sid] # None
                      /\ store'[req'[p].sid].user = req'[p].holds.user
    BY DEF OwnInv
  <2>1. /\ Private(req[p]) /\ req'[p].sid = req[p].sid /\ req[p].sid # None
        /\ req'[p].holds.user = req[p].holds.user
    BY <1>3 DEF Sound, Private, Visits
  <2>2. \A o \in Requests : req'[o].sid \in {None, req[o].sid}
    BY <1>3 DEF Sound
  <2>3. QED
    BY <1>1, <2>1, <2>2 DEF IInv, OwnInv
<1>7. OneUser'
  <2>1. \A p \in Requests : req'[p].sid \in Sids \cup {None}
    BY <1>1, <1>3, Mine DEF Request
  <2>2. \/ req'[r].sid = None
        \/ req'[r].sid = req[r].sid /\ req'[r].holds.user = req[r].holds.user
        \/ req'[r].holds.user = Guest
    BY <1>3 DEF Sound
  <2>3. QED
    BY <1>1, <1>3, <2>1, <2>2, OneUserKept
<1>8. QED
  BY <1>1, <1>4, <1>5, <1>6, <1>7, StepKeeps DEF IInv, TypeOK, LogoutEnds

\* Fails, from where it is called.
LEMMA FailsKeeps ==
  ASSUME IInv, NEW r \in Requests, Fails(r),
         req[r].at \in (Settled \ {"cleared"}) \cup {"deserialize"},
         UNCHANGED <<tables, sessions, arrivals>>, faults' \in 0 .. MaxFaults
  PROVE  IInv'
<1>1. Sound(req[r], [req[r] EXCEPT !.at = "respond"])
  BY Mine, SoundFields DEF GoodReq, Matching
<1>2. QED
  BY <1>1, Mine, Local DEF Fails, Goto

\* Steps before the document and between its fields.
LEMMA FieldsKeep ==
  ASSUME IInv, NEW r \in Requests,
         \/ Deserialize(r) \/ GeneratePermissions(r) \/ Act(r) \/ Finish(r)
         \/ QueryFails(r) /\ ~At(r, "emptied")
  PROVE  IInv'
<1>1. CASE Deserialize(r)
  <2>1. CASE Fails(r)
    BY <1>1, <2>1, Mine, FailsKeeps DEF Deserialize, At, bounds
  <2>2. CASE ~Fails(r) /\ req[r].holds.user = Guest
    BY <1>1, <2>2, Mine, SoundFields, Local, GuestAssumption
    DEF Deserialize, At, bounds, Goto, Route, Ask, IInv, TypeOK
  <2>3. CASE ~Fails(r) /\ req[r].holds.user # Guest
    BY <1>1, <2>3, Mine, SoundFields, Local
    DEF Deserialize, At, bounds, Route, Ask
  <2>4. QED
    BY <2>1, <2>2, <2>3
<1>2. CASE GeneratePermissions(r)
  <2>1. CASE Fails(r)
    BY <1>2, <2>1, Mine, FailsKeeps DEF GeneratePermissions, At, bounds, Settled
  <2>2. CASE ~Fails(r)
    BY <1>2, <2>2, Mine, SoundFields, Local DEF GeneratePermissions, At, bounds
  <2>3. QED
    BY <2>1, <2>2
<1>3. CASE Act(r)
  BY <1>3, Mine, SoundFields, Local DEF Act, At, bounds, Ask, Heads, Done
<1>4. CASE Finish(r)
  BY <1>4, Mine, SoundFields, Local DEF Finish, At, bounds, Goto, Settled
<1>5. CASE QueryFails(r) /\ ~At(r, "emptied")
  BY <1>5, Mine, FailsKeeps, BoundsAssumption DEF QueryFails, At, Settled
<1>6. QED
  BY <1>1, <1>2, <1>3, <1>4, <1>5

\* Steps of logins that change nothing but their request.
LEMMA LoginsKeep ==
  ASSUME IInv, NEW r \in Requests,
         \/ FindUser(r) \/ FindDiscordUser(r) \/ Mismatch(r) \/ LogIn(r) \/ LoggedIn(r)
         \/ LoginFault(r) \/ Authorize(r) \/ Intercept(r)
  PROVE  IInv'
<1>1. CASE FindUser(r)
  BY <1>1, Mine, SoundFields, SoundLogins, Local
  DEF FindUser, At, Ask, Heads, Goto, bounds, Settled
<1>2. CASE FindDiscordUser(r)
  <2> DEFINE d == req[r].dirty \/ req[r].holds.state
             q(s) == [req[r] EXCEPT !.at = s, !.dirty = d,
                                    !.holds = SessionOf(req[r].holds.user, FALSE)]
  <2>1. \E s \in {"found", "respond"} : Becomes(r, q(s))
    BY <1>2, Mine DEF FindDiscordUser, Becomes, Request
  <2>2. d \in BOOLEAN
    BY Mine DEF Request, SessionData
  <2>3. \A s \in {"found", "respond"} : Sound(req[r], q(s))
    BY <1>2, <2>2, Mine, SoundLogins DEF FindDiscordUser, At, Ask, Heads
  <2> HIDE DEF q
  <2>4. QED
    BY <1>2, <2>1, <2>3, Mine, Local DEF FindDiscordUser, bounds
<1>3. CASE Mismatch(r)
  BY <1>3, Mine, FailsKeeps DEF Mismatch, At, bounds, Settled
<1>4. CASE LogIn(r)
  BY <1>4, Mine, SoundLogins, Local DEF LogIn, At, Ask, As, bounds
<1>5. CASE LoggedIn(r)
  <2>1. CASE Fails(r)
    BY <1>5, <2>1, Mine, FailsKeeps DEF LoggedIn, At, bounds, Settled
  <2>2. CASE ~Fails(r)
    <3>1. Heads(req[r], {"login"})
      BY <1>5, Mine DEF LoggedIn, At, Ask, Heads, GoodReq, FieldOf, InLogin
    <3>2. QED
      BY <1>5, <2>2, <3>1, Mine, SoundLogins, Local DEF LoggedIn, At, bounds, Done
  <2>3. QED
    BY <2>1, <2>2
<1>6. CASE LoginFault(r)
  <2> DEFINE s == IF At(r, "identified") THEN Empty ELSE SessionOf(Ask(r).as, FALSE)
  <2>1. Ask(r).as \in logged /\ Ask(r).as \in Users
    BY <1>6, Mine
    DEF LoginFault, At, Ask, GoodReq, Logged, InLogin, IInv, TypeOK
  <2>2. s \in SessionData /\ s.user \in logged \cup {Guest}
    BY <2>1 DEF Empty, SessionOf, SessionData
  <2> DEFINE q == [req[r] EXCEPT !.at = "respond", !.sid = None, !.holds = s,
                                 !.dirty = TRUE, !.saved = FALSE, !.broken = TRUE,
                                 !.user = None]
  <2> HIDE DEF s
  <2>3. Becomes(r, q)
    BY <1>6, Mine DEF LoginFault, Renewed, Becomes, s, Request
  <2>4. Sound(req[r], q)
    BY <1>6, <2>2, Mine, SoundFault DEF LoginFault, At
  <2>5. faults' \in 0 .. MaxFaults /\ UNCHANGED <<tables, sessions, arrivals>>
    BY <1>6, Mine, BoundsAssumption DEF LoginFault
  <2> HIDE DEF q
  <2>6. QED
    BY <2>3, <2>4, <2>5, Mine, Local
<1>7. CASE Authorize(r)
  BY <1>7, Mine, SoundLogins, Local DEF Authorize, At, Ask, Heads, bounds
<1>8. CASE Intercept(r)
  BY <1>8, Mine, FailsKeeps DEF Intercept, Fails, At, bounds, Settled
<1>9. QED
  BY <1>1, <1>2, <1>3, <1>4, <1>5, <1>6, <1>7, <1>8

-----------------------------------------------------------------------------
(* Steps that change sessions.                                             *)

\* A new request has what its cookie stands for.
LEMMA ArriveKeeps ==
  ASSUME IInv, NEW r \in Requests, NEW b \in Browsers, NEW d \in Documents,
         Arrive(r, b, d)
  PROVE  IInv'
<1> DEFINE known == cookie[b] # None /\ store[cookie[b]] # None
           sid == IF known THEN cookie[b] ELSE None
           holds == IF known THEN store[cookie[b]] ELSE Empty
           q == [NoRequest EXCEPT !.at = "deserialize", !.from = b, !.todo = d,
                                  !.sid = sid, !.holds = holds]
<1>1. /\ Becomes(r, q) /\ UNCHANGED <<accounts, logged, guestGroup, store, cookie, ended>>
      /\ arrivals' \in 0 .. MaxArrivals /\ faults' \in 0 .. MaxFaults
  BY Mine, BoundsAssumption DEF Arrive, Becomes, tables, sessions
<1>2. /\ sid \in {None, cookie[b]} /\ sid \in Sids \cup {None}
      /\ holds \in SessionData /\ holds.user \in logged \cup {Guest}
      /\ sid \in ended => holds.user = Guest
      /\ sid = None => holds.user = Guest
      /\ sid # None => store[sid] = holds /\ store[sid] # None
  BY SidsAssumption
  DEF IInv, TypeOK, LogoutEnds, Empty, SessionOf, SessionData
<1> HIDE DEF known, sid, holds
<1>3. /\ q \in Request /\ q.at = "deserialize" /\ q.from = b /\ q.todo = d /\ q.sid = sid
      /\ q.holds = holds /\ ~q.dirty /\ ~q.saved /\ q.user = None
  BY <1>2, DocumentsAssumption DEF NoRequest, Request, Stages
<1> HIDE DEF q
<1>4. GoodReq(q)
  <2>1. Alone(q)
    BY <1>3, DocumentsAssumption DEF Alone
  <2>2. QED
    BY <1>2, <1>3, <2>1
    DEF GoodReq, FieldOf, Logged, Judged, Matching, Kept, Outlived, Visits, InLogin,
        Settled
<1>5. req'[r] = q /\ \A p \in Requests : p # r => req'[p] = req[p]
  BY <1>1 DEF Becomes, IInv, TypeOK
<1>6. GoodReq(req[r])' /\ \A p \in Requests : p # r => Outlived(req[p])'
  BY <1>1, <1>4, <1>5, Mine
  DEF GoodReq, FieldOf, Alone, Logged, Judged, Matching, Kept, Outlived, Visits, Identity
<1>7. OwnInv'
  BY <1>1, <1>2, <1>3, <1>5 DEF IInv, OwnInv, Private, Visits
<1>8. OneUser'
  <2>1. ASSUME NEW p \in Requests, p # r, req'[p].sid = sid, sid # None
        PROVE  Agree(req'[p].holds.user, holds.user)
    <3>1. req'[p] = req[p] /\ req[p].sid = sid
      BY <1>5, <2>1
    <3>2. Agree(store[sid].user, req[p].holds.user)
      BY <1>2, <2>1, <3>1 DEF IInv, OneUser
    <3>3. QED
      BY <1>2, <2>1, <3>1, <3>2 DEF Agree
  <2>2. QED
    BY <1>1, <1>2, <1>3, <1>5, <2>1 DEF IInv, OneUser, Agree
<1>9. QED
  BY <1>1, <1>3, <1>6, <1>7, <1>8, StepKeeps DEF IInv, TypeOK, LogoutEnds

\* The access log is written, while the account is there.
LEMMA LogAccessKeeps ==
  ASSUME IInv, NEW r \in Requests, LogAccess(r)
  PROVE  IInv'
<1>1. CASE Fails(r) /\ UNCHANGED logged
  BY <1>1, Mine, FailsKeeps
  DEF LogAccess, At, tables, bounds, Settled
<1>2. CASE Ask(r).as \in accounts /\ logged' = logged \cup {Ask(r).as} /\ Goto(r, "recorded")
  <2> DEFINE q == [req[r] EXCEPT !.at = "recorded"]
  <2>1. /\ q \in Request /\ Becomes(r, q)
        /\ UNCHANGED <<accounts, guestGroup, store, cookie, ended, arrivals, faults>>
    BY <1>2, Mine DEF LogAccess, Goto, Request, Stages, sessions, bounds
  <2>2. req'[r] = q /\ \A p \in Requests : p # r => req'[p] = req[p]
    BY <2>1 DEF Becomes, IInv, TypeOK
  <2>3. GoodReq(req[r])'
    BY <1>2, <2>1, <2>2, Mine
    DEF LogAccess, At, Ask, GoodReq, FieldOf, Alone, Logged, Judged, Matching, Kept,
        Outlived,
        Visits, Identity, InLogin, Settled, Request
  <2>4. \A p \in Requests : p # r => Outlived(req[p])'
    BY <2>1, <2>2, Mine DEF GoodReq, Kept, Outlived, Visits
  <2>5. OwnInv'
    <3>1. \A p \in Requests :
            /\ req'[p].sid = req[p].sid /\ req'[p].holds = req[p].holds
            /\ Private(req'[p]) => Private(req[p])
      BY <2>2, Mine DEF Private, Visits, Request
    <3>2. QED
      BY <2>1, <3>1 DEF IInv, OwnInv, Private, Visits
  <2>6. OneUser'
    BY <2>1, <2>2, Mine, OneUserKept DEF Request
  <2>7. QED
    BY <1>2, <2>1, <2>3, <2>4, <2>5, <2>6, Mine, StepKeeps DEF IInv, TypeOK, LogoutEnds
<1>3. QED
  BY <1>1, <1>2 DEF LogAccess

\* The session that a login came with is destroyed.
LEMMA RegenerateKeeps ==
  ASSUME IInv, NEW r \in Requests, Regenerate(r)
  PROVE  IInv'
<1> DEFINE q == Renewed(r, "renewed")
<1>1. /\ q \in Request /\ Becomes(r, q) /\ q.at = "renewed" /\ q.sid = None
      /\ ~q.saved /\ q.holds = Empty /\ q.from = req[r].from /\ q.user = req[r].user
      /\ q.permissions = req[r].permissions /\ q.todo = req[r].todo
      /\ UNCHANGED <<accounts, logged, guestGroup, cookie, ended, arrivals, faults>>
      /\ store' = Without(req[r].sid)
  BY Mine
  DEF Regenerate, Renewed, Request, Stages, Empty, SessionOf, SessionData, tables, bounds
<1> HIDE DEF q
<1>2. req'[r] = q /\ \A p \in Requests : p # r => req'[p] = req[p]
  BY <1>1 DEF Becomes, IInv, TypeOK
<1>3. GoodReq(q)
  <2>1. q.from \in Browsers /\ Alone(q)
    BY <1>1, Mine DEF Regenerate, At, GoodReq, Matching, Alone
  <2>2. QED
    BY <1>1, <2>1, Mine
    DEF Regenerate, At, GoodReq, FieldOf, Logged, Judged, Matching, Kept, Outlived,
        Visits, InLogin,
        Settled, Empty, SessionOf
<1>4. GoodReq(req[r])' /\ \A p \in Requests : p # r => Outlived(req[p])'
  BY <1>1, <1>2, <1>3, Mine
  DEF GoodReq, FieldOf, Alone, Logged, Judged, Matching, Kept, Outlived, Visits, Identity
<1>5. OwnInv'
  BY <1>1, <1>2, Mine DEF IInv, OwnInv, Private, Visits, Without, Request
<1>6. /\ store' \in [Sids -> SessionData \cup {None}]
      /\ \A s \in Sids : store'[s] \in {None, store[s]}
  BY <1>1 DEF Without, IInv, TypeOK
<1>7. OneUser'
  BY <1>1, <1>2, <1>6, Mine, OneUserKept DEF Request
<1>8. QED
  BY <1>1, <1>4, <1>5, <1>6, <1>7, Mine, StepKeeps DEF IInv, TypeOK, LogoutEnds

\* The user is put into a session of his own.
LEMMA SaveLoginKeeps ==
  ASSUME IInv, IdsLast, NEW r \in Requests, SaveLogin(r)
  PROVE  IInv'
<1> DEFINE as == Ask(r).as
           new == SessionOf(as, FALSE)
           q == [req[r] EXCEPT !.at = "signedIn", !.sid = NewSid, !.holds = new]
<1>1. /\ as \in Users /\ as \in logged /\ req[r].user = as /\ req[r].permissions = as
      /\ SaveAs(r) = NewSid
  BY Mine
  DEF SaveLogin, At, Ask, GoodReq, Logged, Judged, Matching, InLogin, IInv, TypeOK, SaveAs
<1>2. new \in SessionData /\ new.user = as
  BY <1>1 DEF SessionOf, SessionData
<1> HIDE DEF new, as
<1>3. /\ q \in Request /\ Becomes(r, q) /\ q.at = "signedIn" /\ q.sid = NewSid
      /\ q.holds = new /\ q.from = req[r].from /\ q.user = req[r].user
      /\ q.permissions = req[r].permissions /\ q.todo = req[r].todo
      /\ q.saved = req[r].saved /\ q.broken = req[r].broken
  BY <1>1, <1>2, Mine, NewSidIsNew DEF SaveLogin, Request, Stages, new, as
<1>4. /\ UNCHANGED <<accounts, logged, guestGroup, cookie, ended, arrivals, faults>>
      /\ store' = [store EXCEPT ![NewSid] = new]
  BY <1>1 DEF SaveLogin, tables, bounds, new, as
<1> HIDE DEF q
<1>5. req'[r] = q /\ \A p \in Requests : p # r => req'[p] = req[p]
  BY <1>3 DEF Becomes, IInv, TypeOK
<1>6. GoodReq(q)
  <2>1. q.from \in Browsers /\ Alone(q) /\ Head(q.todo).as = as
    BY <1>3, Mine DEF SaveLogin, At, GoodReq, Matching, Alone, as, Ask
  <2>2. Outlived(q) /\ FieldOf(q)
    BY <1>3, NewSidIsNew, Mine DEF Outlived, FieldOf, SaveLogin, At, GoodReq, InLogin
  <2>3. Kept(q)
    BY <1>1, <1>2, <1>3, NewSidIsNew, Mine, SidsAssumption, GuestAssumption
    DEF GoodReq, Kept
  <2>4. QED
    BY <1>1, <1>2, <1>3, <2>1, <2>2, <2>3, GuestAssumption
    DEF GoodReq, Logged, Judged, Matching, InLogin, Settled, Identity
<1>7. GoodReq(req[r])' /\ \A p \in Requests : p # r => Outlived(req[p])'
  BY <1>4, <1>5, <1>6, Mine
  DEF GoodReq, FieldOf, Alone, Logged, Judged, Matching, Kept, Outlived, Visits, Identity
<1>8. /\ store' \in [Sids -> SessionData \cup {None}]
      /\ \A s \in Sids : store'[s] = IF s = NewSid THEN new ELSE store[s]
  BY <1>2, <1>4, NewSidIsNew DEF IInv, TypeOK
<1>9. OwnInv'
  <2> SUFFICES ASSUME NEW p \in Requests, Private(req[p])'
               PROVE  /\ \A o \in Requests : o # p => req'[o].sid # req'[p].sid
                      /\ \A b \in Browsers : cookie'[b] # req'[p].sid
                      /\ store'[req'[p].sid] # None
                      /\ store'[req'[p].sid].user = req'[p].holds.user
    BY DEF OwnInv
  <2>1. new # None
    BY <1>2, NoneAssumption
  <2>2. CASE p = r
    BY <1>3, <1>4, <1>5, <1>8, <2>1, <2>2, NewSidIsNew
  <2>3. CASE p # r
    <3>1. Private(req[p]) /\ req'[p] = req[p] /\ req[p].sid \in Sids
      BY <1>5, <2>3, Mine DEF Private, Visits, Request
    <3>2. QED
      BY <1>3, <1>4, <1>5, <1>8, <2>3, <3>1, NewSidIsNew DEF IInv, OwnInv
  <2>4. QED
    BY <2>2, <2>3
<1>10. LogoutEnds' /\ \A s \in Sids : store'[s] # None => store'[s].user \in logged \cup {Guest}
  BY <1>1, <1>2, <1>4, <1>8, NewSidIsNew DEF IInv, TypeOK, LogoutEnds
<1>11. OneUser'
  BY <1>2, <1>3, <1>4, <1>5, <1>8, Mine, NewSidIsNew DEF IInv, OneUser, Agree, Request
<1>12. QED
  BY <1>3, <1>4, <1>7, <1>8, <1>9, <1>10, <1>11, Mine, StepKeeps DEF IInv, TypeOK

\* The id under which a session is saved is its own or a new one.
LEMMA SaveAsIs ==
  ASSUME IInv, IdsLast, NEW r \in Requests
  PROVE  /\ SaveAs(r) \in Sids
         /\ req[r].sid # None => SaveAs(r) = req[r].sid
         /\ req[r].sid = None =>
              /\ SaveAs(r) \notin ended /\ store[SaveAs(r)] = None
              /\ \A b \in Browsers : cookie[b] # SaveAs(r)
              /\ \A p \in Requests : req[p].sid # SaveAs(r)
  BY Mine, NewSidIsNew DEF SaveAs, Request

\* A logout saves the session without its user.
LEMMA LogOutKeeps ==
  ASSUME IInv, IdsLast, NEW r \in Requests, LogOut(r)
  PROVE  IInv'
<1> DEFINE q == [req[r] EXCEPT !.at = "cleared", !.user = None,
                               !.holds = Nameless(r), !.sid = SaveAs(r)]
<1>1. Nameless(r) \in SessionData /\ Nameless(r).user = Guest
  BY Mine DEF Nameless, SessionOf, SessionData, Request
<1>2. /\ q \in Request /\ Becomes(r, q) /\ q.at = "cleared" /\ q.sid = SaveAs(r)
      /\ q.holds = Nameless(r) /\ q.from = req[r].from /\ q.user = None
      /\ q.todo = req[r].todo /\ q.saved = req[r].saved /\ q.broken = req[r].broken
  BY <1>1, Mine, SaveAsIs DEF LogOut, Request, Stages
<1>3. /\ UNCHANGED <<accounts, logged, guestGroup, cookie, ended, arrivals, faults>>
      /\ store' = [store EXCEPT ![SaveAs(r)] = Nameless(r)]
  BY DEF LogOut, tables, bounds
<1> HIDE DEF q
<1>4. req'[r] = q /\ \A p \in Requests : p # r => req'[p] = req[p]
  BY <1>2 DEF Becomes, IInv, TypeOK
<1>5. GoodReq(q)
  <2>1. q.from \in Browsers /\ Alone(q) /\ FieldOf(q)
    BY <1>2, Mine DEF LogOut, At, Ask, GoodReq, Matching, Alone, FieldOf, InLogin
  <2>2. QED
    BY <1>1, <1>2, <2>1, Mine, SaveAsIs, SidsAssumption
    DEF GoodReq, Logged, Judged, Matching, Kept, Outlived, Visits, InLogin, Settled,
        Identity
<1>6. GoodReq(req[r])' /\ \A p \in Requests : p # r => Outlived(req[p])'
  BY <1>3, <1>4, <1>5, Mine
  DEF GoodReq, FieldOf, Alone, Logged, Judged, Matching, Kept, Outlived, Visits, Identity
<1>7. /\ store' \in [Sids -> SessionData \cup {None}]
      /\ \A s \in Sids : store'[s] = IF s = SaveAs(r) THEN Nameless(r) ELSE store[s]
  BY <1>1, <1>3, SaveAsIs DEF IInv, TypeOK
<1>8. OwnInv' /\ OneUser'
  <2>1. OwnInv'
    BY <1>1, <1>2, <1>3, <1>4, <1>7, Mine, SaveAsIs
    DEF IInv, OwnInv, Private, Visits, Request
  <2>2. OneUser'
    BY <1>1, <1>2, <1>4, <1>7, Mine, SaveAsIs, OneUserKept DEF Request
  <2>3. QED
    BY <2>1, <2>2
<1>9. LogoutEnds' /\ \A s \in Sids : store'[s] # None => store'[s].user \in logged \cup {Guest}
  BY <1>1, <1>3, <1>7 DEF IInv, TypeOK, LogoutEnds
<1>10. QED
  BY <1>2, <1>3, <1>6, <1>7, <1>8, <1>9, Mine, StepKeeps DEF IInv, TypeOK

\* A logout destroys the session.  Whoever still has it in memory has nothing
\* to save but guests: a changed session with a user is nobody else's.
LEMMA RegenerateEmptyKeeps ==
  ASSUME IInv, NEW r \in Requests, RegenerateEmpty(r)
  PROVE  IInv'
<1> DEFINE q == Renewed(r, "emptied")
           sid == req[r].sid
<1>1. /\ q \in Request /\ Becomes(r, q) /\ q.at = "emptied" /\ q.sid = None
      /\ ~q.saved /\ q.holds = Empty /\ q.from = req[r].from /\ q.user = req[r].user
      /\ q.todo = req[r].todo
      /\ UNCHANGED <<accounts, logged, guestGroup, cookie, arrivals, faults>>
      /\ store' = Without(sid)
      /\ ended' \in {ended, ended \cup {sid}}
      /\ ended' # ended => \A p \in Requests : Visits(req[p]) => req[p].sid # sid
  BY Mine
  DEF RegenerateEmpty, Renewed, Request, Stages, Empty, SessionOf, SessionData, tables,
      bounds, Saves, Visits, Ask
<1>2. sid \in Sids
  BY Mine DEF RegenerateEmpty, At, GoodReq, Matching, Request
<1> HIDE DEF q
<1>3. req'[r] = q /\ \A p \in Requests : p # r => req'[p] = req[p]
  BY <1>1 DEF Becomes, IInv, TypeOK
<1>4. GoodReq(q)
  <2>1. q.from \in Browsers /\ Alone(q) /\ FieldOf(q)
    BY <1>1, Mine DEF RegenerateEmpty, At, GoodReq, Matching, Alone, FieldOf, InLogin
  <2>2. QED
    BY <1>1, <2>1, Mine
    DEF RegenerateEmpty, At, GoodReq, Logged, Judged, Matching, Kept, Outlived, Visits,
        InLogin,
        Settled, Empty, SessionOf, Identity
<1>5. GoodReq(req[r])'
  BY <1>1, <1>3, <1>4
  DEF GoodReq, FieldOf, Alone, Logged, Judged, Matching, Kept, Outlived, Visits,
      Identity, Empty,
      SessionOf
<1>6. ASSUME NEW p \in Requests, p # r PROVE Outlived(req[p])'
  <2>1. Outlived(req[p]) /\ req'[p] = req[p]
    BY <1>3, <1>6, Mine DEF GoodReq
  <2>2. CASE req[p].sid = sid /\ ended' # ended
    <3>1. ~Visits(req[p])
      BY <1>1, <2>2
    <3>2. ~Private(req[p])
      BY <1>6, <2>2 DEF IInv, OwnInv
    <3>3. QED
      BY <1>2, <2>1, <2>2, <3>1, <3>2, SidsAssumption DEF Private, Kept, Outlived, Visits
  <2>3. CASE ~(req[p].sid = sid /\ ended' # ended)
    BY <1>1, <2>1, <2>3 DEF Kept, Outlived, Visits
  <2>4. QED
    BY <2>2, <2>3
<1>7. /\ store' \in [Sids -> SessionData \cup {None}]
      /\ \A s \in Sids : store'[s] = IF s = sid THEN None ELSE store[s]
  BY <1>1 DEF Without, IInv, TypeOK
<1>8. OwnInv' /\ OneUser'
  <2>1. OwnInv'
    <3> SUFFICES ASSUME NEW p \in Requests, Private(req[p])'
                 PROVE  /\ \A o \in Requests : o # p => req'[o].sid # req'[p].sid
                        /\ \A b \in Browsers : cookie'[b] # req'[p].sid
                        /\ store'[req'[p].sid] # None
                        /\ store'[req'[p].sid].user = req'[p].holds.user
      BY DEF OwnInv
    <3>1. p # r /\ Private(req[p]) /\ req'[p] = req[p] /\ req[p].sid \in Sids
      BY <1>1, <1>3, Mine DEF Private, Visits, Request
    <3>2. QED
      BY <1>1, <1>3, <1>7, <3>1, SidsAssumption DEF IInv, OwnInv
  <2>2. OneUser'
    BY <1>1, <1>3, <1>7, Mine, OneUserKept DEF Request
  <2>3. QED
    BY <2>1, <2>2
<1>9. LogoutEnds' /\ ended' \subseteq Sids
  BY <1>1, <1>2, <1>7 DEF IInv, TypeOK, LogoutEnds
<1>10. QED
  BY <1>1, <1>5, <1>6, <1>7, <1>8, <1>9, Mine, StepKeeps DEF IInv, TypeOK

\* A request without anything in it.
LEMMA Blank == NoRequest \in Request /\ GoodReq(NoRequest) /\ ~Private(NoRequest)
  BY DEF NoRequest, Request, Stages, Empty, SessionOf, SessionData, GoodReq, FieldOf,
      Alone,
         Logged, Judged, Matching, Kept, Outlived, Visits, InLogin, Settled, Private

\* What a response saves is no session of others, nor a user's who logged out;
\* a session that it fails to save, or that counts as saved, stays what it was.
LEMMA RespondKeeps ==
  ASSUME IInv, IdsLast, NEW r \in Requests, Respond(r) \/ RespondFault(r)
  PROVE  IInv'
<1> DEFINE sid == SaveAs(r)
           holds == req[r].holds
<1>1. /\ Becomes(r, NoRequest)
      /\ UNCHANGED <<accounts, logged, guestGroup, ended, arrivals>>
      /\ faults' \in 0 .. MaxFaults
      /\ \/ UNCHANGED cookie
         \/ req[r].dirty /\ cookie' = [cookie EXCEPT ![req[r].from] = sid]
      /\ \/ UNCHANGED store
         \/ req[r].dirty /\ store' = [store EXCEPT ![sid] = holds]
  BY Mine, BoundsAssumption DEF Respond, RespondFault, Over, SendCookie, tables, bounds
<1>2. req'[r] = NoRequest /\ \A p \in Requests : p # r => req'[p] = req[p]
  BY <1>1 DEF Becomes, IInv, TypeOK
<1>3. GoodReq(req[r])' /\ \A p \in Requests : p # r => Outlived(req[p])'
  <2>1. GoodReq(req'[r])
    BY <1>2, Blank
  <2>2. QED
    BY <1>1, <1>2, <2>1, Mine
    DEF GoodReq, FieldOf, Alone, Logged, Judged, Matching, Kept, Outlived, Visits,
        Identity
<1>4. /\ sid \in Sids /\ holds \in SessionData /\ holds.user \in logged \cup {Guest}
      /\ (req[r].dirty /\ sid \in ended) => holds.user = Guest
      /\ \A p \in Requests : (p # r /\ Private(req[p])) => req[p].sid # sid
  <2>1. \A p \in Requests : (p # r /\ Private(req[p])) => req[p].sid # sid
    BY SaveAsIs DEF IInv, OwnInv
  <2>2. QED
    BY <2>1, Mine, SaveAsIs DEF GoodReq, Logged, Outlived, Request
<1>5. req[r].sid # None => sid = req[r].sid
  BY SaveAsIs
<1>6. req[r].sid = None => \A p \in Requests : req[p].sid # sid
  BY SaveAsIs
<1> HIDE DEF sid, holds
<1>7. /\ store' \in [Sids -> SessionData \cup {None}]
      /\ \A s \in Sids :
           store'[s] = store[s] \/ (s = sid /\ req[r].dirty /\ store'[s] = holds)
      /\ cookie' \in [Browsers -> Sids \cup {None}]
      /\ \A b \in Browsers : cookie'[b] = cookie[b] \/ (cookie'[b] = sid)
  BY <1>1, <1>4 DEF IInv, TypeOK
<1>8. OwnInv'
  <2>1. ~Private(req'[r]) /\ req'[r].sid = None
    BY <1>2, Blank DEF NoRequest
  <2> SUFFICES ASSUME NEW p \in Requests, Private(req[p])'
               PROVE  /\ \A o \in Requests : o # p => req'[o].sid # req'[p].sid
                      /\ \A b \in Browsers : cookie'[b] # req'[p].sid
                      /\ store'[req'[p].sid] # None
                      /\ store'[req'[p].sid].user = req'[p].holds.user
    BY DEF OwnInv
  <2>2. p # r /\ req'[p] = req[p] /\ Private(req[p])
    BY <1>2, <2>1 DEF Private, Visits
  <2>3. req[p].sid \in Sids /\ req[p].sid # sid /\ req[p].sid # None
    BY <1>4, <2>2, Mine DEF Private, Request
  <2>4. QED
    BY <1>2, <1>7, <2>1, <2>2, <2>3 DEF IInv, OwnInv
<1>9. OneUser'
  <2>1. req'[r].sid = None
    BY <1>2 DEF NoRequest
  <2>2. \A p \in Requests : req'[p].sid \in Sids \cup {None}
    BY <1>2, <2>1, Mine DEF Request
  <2>3. ASSUME NEW s \in Sids, store'[s] # None
        PROVE  \/ store'[s] = store[s]
               \/ req[r].sid = s /\ store'[s].user = req[r].holds.user
               \/ \A p \in Requests : req'[p].sid # s
    <3>1. CASE store'[s] = store[s]
      BY <3>1
    <3>2. CASE s = sid /\ store'[s] = holds /\ req[r].sid # None
      BY <1>5, <3>2 DEF holds
    <3>3. CASE s = sid /\ req[r].sid = None
      BY <1>2, <1>6, <2>1, <3>3, SidsAssumption
    <3>4. QED
      BY <1>7, <3>1, <3>2, <3>3
  <2>4. QED
    BY <1>2, <2>1, <2>2, <2>3, OneUserKept
<1>10. LogoutEnds' /\ \A s \in Sids : store'[s] # None => store'[s].user \in logged \cup {Guest}
  BY <1>1, <1>4, <1>7 DEF IInv, TypeOK, LogoutEnds
<1>11. QED
  BY <1>1, <1>3, <1>7, <1>8, <1>9, <1>10, Blank, Mine, StepKeeps DEF IInv, TypeOK

-----------------------------------------------------------------------------
(* The other steps.                                                        *)

\* The process loses its requests, and only those.
LEMMA ExitKeeps ==
  ASSUME IInv, ProcessExit, UNCHANGED <<tables, sessions, arrivals>>,
         faults' \in 0 .. MaxFaults
  PROVE  IInv'
<1>1. UNCHANGED <<accounts, logged, guestGroup, store, cookie, ended, arrivals>>
  BY DEF tables, sessions
<1>2. req' \in [Requests -> Request] /\ \A r \in Requests : req'[r] = NoRequest
  BY Blank DEF ProcessExit
<1>3. \A r \in Requests : GoodReq(req[r])'
  <2> TAKE r \in Requests
  <2>1. GoodReq(req'[r])
    BY <1>2, Blank
  <2>2. QED
    BY <1>1, <2>1
    DEF GoodReq, FieldOf, Alone, Logged, Judged, Matching, Kept, Outlived, Visits,
        Identity
<1>4. OwnInv'
  <2>1. \A r \in Requests : ~Private(req'[r])
    BY <1>2, Blank
  <2>2. QED
    BY <2>1 DEF OwnInv, Private, Visits
<1>5. TypeOK' /\ OneUser'
  BY <1>1, <1>2 DEF IInv, TypeOK, OneUser, NoRequest
<1>6. QED
  BY <1>1, <1>3, <1>4, <1>5 DEF IInv, LogoutEnds

\* A logout ends, with permissions of a guest or with the process.
LEMMA RepermitKeeps ==
  ASSUME IInv, NEW r \in Requests, Repermit(r)
  PROVE  IInv'
<1>1. CASE ProcessExit
  BY <1>1, Mine, ExitKeeps DEF Repermit, bounds
<1>2. CASE Becomes(r, [Done(r) EXCEPT !.permissions = Guest])
  BY <1>2, Mine, SoundLogouts, Local DEF Repermit, At, Done, bounds
<1>3. QED
  BY <1>1, <1>2 DEF Repermit

\* A logout that fails.
LEMMA LogoutFaultKeeps ==
  ASSUME IInv, NEW r \in Requests, LogoutFault(r)
  PROVE  IInv'
<1>1. faults' \in 0 .. MaxFaults /\ UNCHANGED <<tables, sessions, arrivals>>
  BY Mine, BoundsAssumption DEF LogoutFault
<1>2. CASE At(r, "next")
  <2> DEFINE d == req[r].dirty \/ req[r].holds # Nameless(r)
             b == ~req[r].dirty
             q == [req[r] EXCEPT !.at = "respond", !.user = None, !.broken = TRUE,
                                 !.saved = b, !.dirty = d, !.holds = Nameless(r)]
  <2>1. Becomes(r, q)
    BY <1>2, Mine DEF LogoutFault, At, Becomes, Request
  <2>2. Sound(req[r], q)
    BY <1>2, Mine, SoundLogouts DEF LogoutFault, At, Ask, Heads, Nameless
  <2> HIDE DEF q
  <2>3. QED
    BY <1>1, <2>1, <2>2, Mine, Local
<1>3. CASE At(r, "cleared")
  <2> DEFINE q == [req[r] EXCEPT !.at = "respond", !.sid = None, !.holds = Empty,
                                 !.dirty = TRUE, !.saved = FALSE]
  <2>1. Becomes(r, q) /\ Sound(req[r], q)
    BY <1>3, Mine, SoundLogouts DEF LogoutFault, At, Renewed
  <2> HIDE DEF q
  <2>2. QED
    BY <1>1, <2>1, Mine, Local
<1>4. QED
  BY <1>2, <1>3 DEF LogoutFault

\* An account without an access log goes, or the group for guests changes.
LEMMA TablesKeep ==
  ASSUME IInv, RenameGroup \/ \E u \in Users : DeleteUser(u)
  PROVE  IInv'
<1>1. /\ UNCHANGED <<logged, store, cookie, ended, req, arrivals, faults>>
      /\ accounts' \subseteq accounts /\ logged \subseteq accounts' /\ guestGroup' \in BOOLEAN
  BY DEF RenameGroup, DeleteUser, sessions, bounds, IInv, TypeOK
<1>2. \A r \in Requests : GoodReq(req[r])'
  BY <1>1, Mine
  DEF GoodReq, FieldOf, Alone, Logged, Judged, Matching, Kept, Outlived, Visits, Identity
<1>3. QED
  BY <1>1, <1>2 DEF IInv, TypeOK, LogoutEnds, OwnInv, OneUser, Private, Visits

-----------------------------------------------------------------------------
(* The invariant.                                                          *)

\* It holds at first.
LEMMA InitInv == Init => IInv
<1> SUFFICES ASSUME Init PROVE IInv
  OBVIOUS
<1>1. /\ req = [r \in Requests |-> NoRequest]
      /\ \A r \in Requests : req[r] = NoRequest
  BY DEF Init
<1>2. PICK first \in {None} \cup {d \in SessionData : d.user \in logged \cup {Guest}} :
        /\ store = [s \in Sids |-> IF s = 1 THEN first ELSE None]
        /\ cookie = [b \in Browsers |-> IF first # None THEN 1 ELSE None]
  BY DEF Init
<1>3. /\ store \in [Sids -> SessionData \cup {None}]
      /\ \A s \in Sids : store[s] # None => store[s].user \in logged \cup {Guest}
  BY <1>2
<1>4. TypeOK
  BY <1>1, <1>2, <1>3, Blank, SidsAssumption, BoundsAssumption
  DEF Init, TypeOK, NoRequest
<1>5. (\A r \in Requests : GoodReq(req[r])) /\ OwnInv /\ OneUser
  BY <1>1, Blank DEF OwnInv, OneUser, NoRequest
<1>6. QED
  BY <1>3, <1>4, <1>5 DEF IInv, Init, LogoutEnds

\* Every step keeps it while there is an id that is new.
LEMMA NextInv == IInv /\ IdsLast /\ [Next]_vars => IInv'
<1> SUFFICES ASSUME IInv, IdsLast, [Next]_vars PROVE IInv'
  OBVIOUS
<1>1. CASE UNCHANGED vars
  <2>1. UNCHANGED <<accounts, logged, guestGroup, store, cookie, ended, req, arrivals, faults>>
    BY <1>1 DEF vars, tables, sessions, bounds
  <2>2. \A r \in Requests : GoodReq(req[r])'
    BY <2>1, Mine
    DEF GoodReq, FieldOf, Alone, Logged, Judged, Matching, Kept, Outlived, Visits,
        Identity
  <2>3. QED
    BY <2>1, <2>2 DEF IInv, TypeOK, LogoutEnds, OwnInv, OneUser, Private, Visits
<1>2. ASSUME NEW r \in Requests, Step(r) PROVE IInv'
  <2>1. CASE QueryFails(r) /\ At(r, "emptied")
    BY <2>1, Mine, ExitKeeps, BoundsAssumption DEF QueryFails, At
  <2>2. CASE TxRefused(r)
    BY <2>2, Mine, ExitKeeps, BoundsAssumption DEF TxRefused
  <2>3. QED
    BY <1>2, <2>1, <2>2, FieldsKeep, LoginsKeep, LogAccessKeeps, RegenerateKeeps,
       SaveLoginKeeps, LogOutKeeps, RegenerateEmptyKeeps, LogoutFaultKeeps,
       RepermitKeeps, RespondKeeps
    DEF Step
<1>3. ASSUME NEW r \in Requests, NEW b \in Browsers, NEW d \in Documents, Arrive(r, b, d)
      PROVE  IInv'
  BY <1>3, ArriveKeeps
<1>4. CASE RenameGroup \/ \E u \in Users : DeleteUser(u)
  BY <1>4, TablesKeep
<1>5. CASE Crash
  <2>1. faults' \in 0 .. MaxFaults
    BY <1>5, BoundsAssumption DEF Crash, IInv, TypeOK
  <2>2. QED
    BY <1>5, <2>1, ExitKeeps DEF Crash
<1>6. QED
  BY <1>1, <1>2, <1>3, <1>4, <1>5 DEF Next

\* It always holds, if ids last.
LEMMA Invariant == Spec /\ []IdsLast => []IInv
  BY InitInv, NextInv, PTL DEF Spec

-----------------------------------------------------------------------------
(* Theorems.                                                               *)

\* Requests, sessions and tables keep their types, and a session that was
\* regenerated keeps no id of the past.
THEOREM TypeCorrect == Spec /\ []IdsLast => []TypeOK
<1>1. IInv => TypeOK
  BY DEF IInv
<1>2. QED
  BY <1>1, Invariant, PTL

\* Whatever logins and logouts a document mixes, a field is judged by the
\* permissions of the user that the audit log will name.
THEOREM FieldsAreJudgedAsTheirUser == Spec /\ []IdsLast => []ActsAsJudged
<1>1. IInv => ActsAsJudged
  BY Mine DEF ActsAsJudged, At, Ask, GoodReq, Judged, Routes
<1>2. QED
  BY <1>1, Invariant, PTL

\* The access log keeps every account that a session in Redis names.
THEOREM AccessLogKeepsAccounts == Spec /\ []IdsLast => []SessionsHaveUsers
<1>1. IInv => SessionsHaveUsers
  BY DEF IInv, SessionsHaveUsers
<1>2. QED
  BY <1>1, Invariant, PTL

\* No request that was under way brings back a session that was logged out,
\* unless it is a visit of the Discord route.
THEOREM LogoutIsFinal == Spec /\ []IdsLast => []LogoutEnds
<1>1. IInv => LogoutEnds
  BY DEF IInv
<1>2. QED
  BY <1>1, Invariant, PTL

\* The cookie that an answer sets stands for the user that its request ended
\* with, also when the save at its end fails.
THEOREM CookiesAreTheUsers == Spec /\ []IdsLast => CookieMeansUser
<1> DEFINE Answers(r, b) ==
             /\ At(r, "respond") /\ req[r].dirty /\ ~req[r].broken /\ req[r].from = b
             /\ \/ Respond(r)
                \/ RespondFault(r) /\ cookie'[b] = SaveAs(r) /\ ~Saves(r)
           Means(r, b) == Answers(r, b) => NamedBy(b)' = Identity(req[r].user)
<1>1. ASSUME IInv, IdsLast, NEW r \in Requests, NEW b \in Browsers PROVE Means(r, b)
  <2> DEFINE sid == SaveAs(r)
             user == req[r].holds.user
  <2> SUFFICES ASSUME Answers(r, b) PROVE NamedBy(b)' = user
    BY <1>1, Mine DEF GoodReq, Matching, At
  <2>1. ~req[r].saved /\ sid \in Sids /\ req[r].holds # None
    BY <1>1, Mine, SaveAsIs, NoneAssumption DEF GoodReq, Kept, Request
  <2>2. cookie'[b] = sid /\ sid # None
    BY <1>1, <2>1, SidsAssumption DEF Respond, SendCookie, IInv, TypeOK
  <2>3. CASE Respond(r)
    <3>1. store'[sid] = req[r].holds
      BY <1>1, <2>1, <2>3 DEF Respond, IInv, TypeOK
    <3>2. QED
      BY <2>1, <2>2, <3>1 DEF NamedBy
  <2>4. CASE RespondFault(r) /\ ~Saves(r)
    <3>1. store' = store
      BY <2>4 DEF RespondFault
    <3>2. CASE req[r].sid = None
      <4>1. user = Guest /\ store[sid] = None
        BY <1>1, <3>2, Mine, SaveAsIs DEF GoodReq, Kept
      <4>2. QED
        BY <2>2, <3>1, <4>1 DEF NamedBy
    <3>3. CASE req[r].sid # None
      <4>1. Private(req[r]) /\ sid = req[r].sid
        BY <1>1, <2>4, <3>3, Mine, SaveAsIs
        DEF GoodReq, Kept, Private, Visits, Saves, Ask, At
      <4>2. store[sid] # None /\ store[sid].user = user
        BY <1>1, <4>1 DEF IInv, OwnInv
      <4>3. QED
        BY <2>2, <3>1, <4>2 DEF NamedBy
    <3>4. QED
      BY <3>2, <3>3
  <2>5. QED
    BY <2>3, <2>4
<1>2. IInv /\ IdsLast => [\A r \in Requests, b \in Browsers : Means(r, b)]_vars
  BY <1>1
<1>3. QED
  BY <1>2, Invariant, PTL DEF CookieMeansUser

\* What a step stores under an id that was stored: what was there, nobody's
\* session, or what the request holds that the response answers.
LEMMA Stores ==
  ASSUME IInv, IdsLast, Next, NEW s \in Sids, store[s] # None, store'[s] # None
  PROVE  \/ store'[s] = store[s] \/ store'[s].user = Guest
         \/ \E r \in Requests :
              /\ Respond(r) /\ At(r, "respond") /\ req[r].dirty /\ req[r].sid = s
              /\ store'[s] = req[r].holds
<1> USE DEF tables, sessions, bounds
<1>1. store \in [Sids -> SessionData \cup {None}]
  BY DEF IInv, TypeOK
<1>2. ASSUME NEW r \in Requests, Regenerate(r) \/ RegenerateEmpty(r)
      PROVE  store'[s] = store[s]
  BY <1>1, <1>2 DEF Regenerate, RegenerateEmpty, Without
<1>3. ASSUME NEW r \in Requests, SaveLogin(r)
      PROVE  store'[s] = store[s]
  <2>1. SaveAs(r) = NewSid /\ NewSid # s
    BY <1>3, Mine, NewSidIsNew DEF SaveLogin, At, GoodReq, Matching, SaveAs
  <2>2. QED
    BY <1>1, <1>3, <2>1 DEF SaveLogin
<1>4. ASSUME NEW r \in Requests, LogOut(r)
      PROVE  store'[s] = store[s] \/ store'[s].user = Guest
  BY <1>1, <1>4 DEF LogOut, Nameless, SessionOf
<1>5. ASSUME NEW r \in Requests, Respond(r)
      PROVE  \/ store'[s] = store[s]
             \/ /\ Respond(r) /\ At(r, "respond") /\ req[r].dirty /\ req[r].sid = s
                /\ store'[s] = req[r].holds
  <2>1. SaveAs(r) = s => req[r].sid = s
    BY SaveAsIs
  <2>2. QED
    BY <1>1, <1>5, <2>1 DEF Respond
<1>6. ASSUME NEW r \in Requests, Step(r),
             ~Regenerate(r), ~RegenerateEmpty(r), ~SaveLogin(r), ~LogOut(r), ~Respond(r)
      PROVE  store' = store
  BY <1>6
  DEF Step, Deserialize, GeneratePermissions, Act, Finish, FindUser, Mismatch, LogAccess,
      LogIn, LoggedIn, QueryFails, LoginFault, LogoutFault, FindDiscordUser, Authorize,
      Intercept, TxRefused, Repermit, RespondFault
<1>7. QED
  BY <1>2, <1>3, <1>4, <1>5, <1>6 DEF Next, Arrive, DeleteUser, Crash, RenameGroup

\* Whoever knows the id of a session has not got another user's login.
THEOREM SessionsAreOfOneUser == Spec /\ []IdsLast => SessionsKeepTheirUser
<1> DEFINE Keeps(s) ==
      (store[s] # None /\ store'[s] # None) =>
        \/ store'[s].user \in {Guest, store[s].user}
        \/ /\ store[s].user = Guest
           /\ \E r \in Requests : req[r].sid = s /\ Saves(r) /\ Respond(r)
<1>1. ASSUME IInv, IdsLast, Next, NEW s \in Sids PROVE Keeps(s)
  <2> SUFFICES ASSUME store[s] # None, store'[s] # None,
                      store'[s].user \notin {Guest, store[s].user}
               PROVE  /\ store[s].user = Guest
                      /\ \E r \in Requests : req[r].sid = s /\ Saves(r) /\ Respond(r)
    OBVIOUS
  <2>1. PICK r \in Requests :
          /\ Respond(r) /\ req[r].dirty /\ req[r].sid = s /\ store'[s] = req[r].holds
    BY <1>1, Stores
  <2>2. store[s].user = Guest
    BY <1>1, <2>1, SidsAssumption DEF IInv, OneUser, Agree
  <2>3. ~Private(req[r])
    BY <1>1, <2>1 DEF IInv, OwnInv
  <2>4. Saves(r)
    BY <2>1, <2>3, SidsAssumption DEF Private, Visits, Saves, Ask
  <2>5. QED
    BY <2>1, <2>2, <2>4
<1>2. IInv /\ IdsLast /\ [Next]_vars => [\A s \in Sids : Keeps(s)]_vars
  BY <1>1
<1>3. QED
  BY <1>2, Invariant, PTL DEF SessionsKeepTheirUser, Spec
=============================================================================
