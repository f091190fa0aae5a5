------------------------------ MODULE Session ------------------------------
(***************************************************************************)
(* Who a request acts as.  Sessions are kept in Redis (express-session),   *)
(* accounts and access logs in PostgreSQL, the cookie in the browser, and  *)
(* the request holds copies: the session as it was when it arrived, the    *)
(* user that passport put there, and the permissions generated for a user. *)
(* Login and logout change all of them, one await after another, while     *)
(* other requests of the same browser are under way.                       *)
(*                                                                         *)
(* express-session, passport and the browser are external, modelled from   *)
(* how this code configures and calls them.                                *)
(***************************************************************************)
EXTENDS Naturals, Sequences

CONSTANTS
  Users,        \* possible accounts
  Browsers,     \* clients that keep a cookie
  Requests,     \* places for requests that are under way
  Documents,    \* what a request asks for: a sequence of fields, see Field
  Sids,         \* session ids; 1 is one that may be known at first
  MaxArrivals,  \* bound: requests
  MaxFaults,    \* bound: failed calls of the store, and crashes
  Guest,        \* nobody, for sessions and permissions
  None

ASSUME SidsAssumption == 1 \in Sids /\ None \notin Sids
ASSUME GuestAssumption == Guest \notin Users /\ None \notin Users \cup {Guest}
ASSUME BoundsAssumption == MaxArrivals \in Nat /\ MaxFaults \in Nat

VARIABLES
  accounts,    \* table users
  logged,      \* users in table access_logs
  guestGroup,  \* there is a group named Guest
  store,       \* sessions in Redis, by id
  cookie,      \* the id that a browser sends
  ended,       \* ids that a logout has ended: no part of the code
  req,         \* the requests
  arrivals,
  faults

tables == <<accounts, logged, guestGroup>>
sessions == <<store, cookie, ended>>
bounds == <<arrivals, faults>>
vars == <<tables, sessions, req, bounds>>

\* loginLocal, logout and any field that is judged and audited; the two
\* visits of the Discord route, without and with a code.
Field == [op : {"login", "discord"}, as : Users]
           \cup [op : {"logout", "act", "authorize"}]
Routes == {"authorize", "discord"}

\* A visit of the route is a request of its own.
ASSUME DocumentsAssumption ==
  \A d \in Documents :
    /\ d \in Seq(Field)
    /\ \A k \in 1 .. Len(d) : d[k].op \in Routes => Len(d) = 1

\* A session names a user, and keeps the state of a visit to Discord.
SessionOf(u, s) == [user |-> u, state |-> s]
Empty == SessionOf(Guest, FALSE)
SessionData == [user : Users \cup {Guest}, state : BOOLEAN]
ASSUME NoneAssumption == None \notin SessionData

\* dirty: the session is not the one that came in; saved: express-session
\* counts it as saved already; broken: the store failed a login or a logout.
Stages ==
  {"idle", "deserialize", "permissions", "next", "found", "recorded", "identified",
   "renewed", "signedIn", "cleared", "emptied", "respond"}
Request ==
  [at : Stages, from : Browsers \cup {None}, sid : Sids \cup {None},
   holds : SessionData, dirty : BOOLEAN, saved : BOOLEAN, broken : BOOLEAN,
   user : Users \cup {None}, permissions : Users \cup {Guest, None}, todo : Seq(Field)]

NoRequest ==
  [at |-> "idle", from |-> None, sid |-> None, holds |-> Empty, dirty |-> FALSE,
   saved |-> FALSE, broken |-> FALSE, user |-> None, permissions |-> None, todo |-> <<>>]

Init ==
  /\ accounts \in SUBSET Users
  /\ logged \in SUBSET accounts
  /\ guestGroup \in BOOLEAN
  /\ \E first \in {None} \cup {d \in SessionData : d.user \in logged \cup {Guest}} :
       /\ store = [s \in Sids |-> IF s = 1 THEN first ELSE None]
       /\ cookie = [b \in Browsers |-> IF first # None THEN 1 ELSE None]
  /\ ended = {}
  /\ req = [r \in Requests |-> NoRequest]
  /\ arrivals = 0 /\ faults = 0

\* An id that nobody has seen.
NewSid ==
  LET used == {s \in Sids : store[s] # None} \cup ended
                \cup {cookie[b] : b \in Browsers} \cup {req[r].sid : r \in Requests}
  IN  CHOOSE s \in Sids \ used : TRUE

Ask(r) == Head(req[r].todo)
At(r, stage) == req[r].at = stage

\* The request goes on as q.
Becomes(r, q) == req' = [req EXCEPT ![r] = q]
Goto(r, stage) == Becomes(r, [req[r] EXCEPT !.at = stage])

\* An error of one field ends the document: root mutations are non-null.
Fails(r) == Goto(r, "respond")

-----------------------------------------------------------------------------
(* Before the document.                                                    *)

\* The session of the cookie is fetched; without one, a new id will be drawn
\* when there is something to save.
Arrive(r, b, d) ==
  LET known == cookie[b] # None /\ store[cookie[b]] # None
  IN  /\ At(r, "idle") /\ arrivals < MaxArrivals
      /\ arrivals' = arrivals + 1
      /\ req' = [req EXCEPT ![r] =
                   [NoRequest EXCEPT
                      !.at = "deserialize", !.from = b, !.todo = d,
                      !.sid = IF known THEN cookie[b] ELSE None,
                      !.holds = IF known THEN store[cookie[b]] ELSE Empty]]
      /\ UNCHANGED <<tables, sessions, faults>>

Route(r) == IF Ask(r).op \in Routes THEN "next" ELSE "permissions"

\* deserializeUser: a session of no user, of a user, or of one that is gone,
\* which fails the request whatever it asks for.
Deserialize(r) ==
  /\ At(r, "deserialize")
  /\ \/ /\ req[r].holds.user = Guest
        /\ Goto(r, Route(r))
     \/ /\ req[r].holds.user \in accounts
        /\ Becomes(r, [req[r] EXCEPT !.at = Route(r), !.user = req[r].holds.user])
     \/ /\ req[r].holds.user \in Users \ accounts
        /\ Fails(r)
  /\ UNCHANGED <<tables, sessions, bounds>>

\* The rejection is not reported to Apollo.
GeneratePermissions_Bug(r) ==
  /\ At(r, "permissions")
  /\ req[r].user # None \/ guestGroup
  /\ Becomes(r, [req[r] EXCEPT !.at = "next", !.permissions =
                    IF req[r].user = None THEN Guest ELSE req[r].user])
  /\ UNCHANGED <<tables, sessions, bounds>>

\* CaslPlugin.  Without the group there are no permissions for a guest, and no
\* answer but an error.
GeneratePermissions(r) ==
  /\ At(r, "permissions")
  /\ \/ /\ req[r].user # None
        /\ Becomes(r, [req[r] EXCEPT !.at = "next", !.permissions = req[r].user])
     \/ /\ req[r].user = None /\ guestGroup
        /\ Becomes(r, [req[r] EXCEPT !.at = "next", !.permissions = Guest])
     \/ /\ req[r].user = None /\ ~guestGroup
        /\ Fails(r)
  /\ UNCHANGED <<tables, sessions, bounds>>

\* The request when the field is done.
Done(r) == [req[r] EXCEPT !.at = "next", !.todo = Tail(@)]

\* A field is resolved under the permissions and audited under the user.
Act(r) ==
  /\ At(r, "next") /\ req[r].todo # <<>> /\ Ask(r).op = "act"
  /\ Becomes(r, Done(r))
  /\ UNCHANGED <<tables, sessions, bounds>>

\* Nothing left to do.
Finish(r) ==
  /\ At(r, "next") /\ req[r].todo = <<>>
  /\ Goto(r, "respond")
  /\ UNCHANGED <<tables, sessions, bounds>>

-----------------------------------------------------------------------------
(* loginLocal, and the way back from Discord.                              *)

\* attemptLogin, up to the row.
FindUser(r) ==
  /\ At(r, "next") /\ req[r].todo # <<>> /\ Ask(r).op = "login"
  /\ Goto(r, IF Ask(r).as \in accounts THEN "found" ELSE "respond")
  /\ UNCHANGED <<tables, sessions, bounds>>

\* verifyDiscordCallback, up to the row.  Passport first takes the state out of
\* the session.  There is nobody to look for when it has none, when the browser
\* sends another, or when Discord does not take the code.
FindDiscordUser(r) ==
  /\ At(r, "next") /\ req[r].todo # <<>> /\ Ask(r).op = "discord"
  /\ \E stage \in {"found", "respond"} :
       /\ stage = "found" => req[r].holds.state /\ Ask(r).as \in accounts
       /\ Becomes(r, [req[r] EXCEPT !.at = stage, !.dirty = @ \/ req[r].holds.state,
                                    !.holds = SessionOf(@.user, FALSE)])
  /\ UNCHANGED <<tables, sessions, bounds>>

\* A wrong password.
Mismatch(r) ==
  /\ At(r, "found") /\ Ask(r).op = "login"
  /\ Fails(r)
  /\ UNCHANGED <<tables, sessions, bounds>>

\* The access log is left for later.
LogAccess_Bug(r) ==
  /\ At(r, "found")
  /\ Goto(r, "recorded")
  /\ UNCHANGED <<tables, sessions, bounds>>

\* accessLog.create, which a foreign key binds to the account.
LogAccess(r) ==
  /\ At(r, "found")
  /\ \/ /\ Ask(r).as \in accounts
        /\ logged' = logged \cup {Ask(r).as}
        /\ Goto(r, "recorded")
     \/ /\ Ask(r).as \notin accounts
        /\ Fails(r)
        /\ UNCHANGED logged
  /\ UNCHANGED <<accounts, guestGroup, sessions, bounds>>

\* createForUser; the guard then sets req.user, and calls logIn.
LogIn(r) ==
  /\ At(r, "recorded")
  /\ Becomes(r, [req[r] EXCEPT !.at = "identified", !.permissions = Ask(r).as,
                               !.user = Ask(r).as])
  /\ UNCHANGED <<tables, sessions, bounds>>

\* The store without the session that a request came with.
Without(sid) == [s \in Sids |-> IF s = sid THEN None ELSE store[s]]

\* The request with an empty session that has no id yet.
Renewed(r, stage) ==
  [req[r] EXCEPT !.at = stage, !.sid = None, !.holds = Empty,
                 !.dirty = TRUE, !.saved = FALSE]

\* The id under which the session is saved.
SaveAs(r) == IF req[r].sid = None THEN NewSid ELSE req[r].sid

\* The login goes into the session that the request came with.
Regenerate_Bug(r) ==
  /\ At(r, "identified")
  /\ Becomes(r, [req[r] EXCEPT !.at = "renewed", !.holds = Empty, !.dirty = TRUE])
  /\ UNCHANGED <<tables, sessions, bounds>>

\* The old session is destroyed and an empty one made for a new id.
Regenerate(r) ==
  /\ At(r, "identified")
  /\ store' = Without(req[r].sid)
  /\ Becomes(r, Renewed(r, "renewed"))
  /\ UNCHANGED <<tables, cookie, ended, bounds>>

\* The user is put into the session object from before the regeneration.
SaveLogin_Bug(r) ==
  /\ At(r, "renewed")
  /\ store' = [store EXCEPT ![SaveAs(r)] = Empty]
  /\ Becomes(r, [req[r] EXCEPT !.at = "signedIn", !.sid = SaveAs(r)])
  /\ UNCHANGED <<tables, cookie, ended, bounds>>

\* serializeUser and save.
SaveLogin(r) ==
  /\ At(r, "renewed")
  /\ store' = [store EXCEPT ![SaveAs(r)] = SessionOf(Ask(r).as, FALSE)]
  /\ Becomes(r, [req[r] EXCEPT !.at = "signedIn", !.sid = SaveAs(r),
                               !.holds = SessionOf(Ask(r).as, FALSE)])
  /\ UNCHANGED <<tables, cookie, ended, bounds>>

\* A call of the store fails: logIn takes req.user back and the field fails,
\* with permissions and session left as they are.
LoginFault(r) ==
  /\ At(r, "identified") \/ At(r, "renewed")
  /\ faults < MaxFaults /\ faults' = faults + 1
  /\ Becomes(r, [Renewed(r, "respond") EXCEPT
                    !.broken = TRUE, !.user = None,
                    !.holds = IF At(r, "identified") THEN Empty
                              ELSE SessionOf(Ask(r).as, FALSE)])
  /\ UNCHANGED <<tables, sessions, arrivals>>

\* The deferred ReadOne rule: whether the user may read himself.
LoggedIn(r) ==
  /\ At(r, "signedIn") /\ Ask(r).op = "login"
  /\ \/ Becomes(r, Done(r))
     \/ Fails(r)
  /\ UNCHANGED <<tables, sessions, bounds>>

-----------------------------------------------------------------------------
(* The Discord route.                                                      *)

\* Without a code: the state is put into the session, and the browser sent
\* to Discord.
Authorize(r) ==
  /\ At(r, "next") /\ req[r].todo # <<>> /\ Ask(r).op = "authorize"
  /\ Becomes(r, [req[r] EXCEPT !.at = "respond", !.dirty = TRUE,
                               !.holds = SessionOf(@.user, TRUE)])
  /\ UNCHANGED <<tables, sessions, bounds>>

\* PrismaInterceptor has a transaction; CaslInterceptor finds permissions; the
\* handler redirects, and the transaction is closed.
Intercept(r) ==
  /\ At(r, "signedIn") /\ Ask(r).op = "discord"
  /\ Goto(r, "respond")
  /\ UNCHANGED <<tables, sessions, bounds>>

\* The process ends, what is under way is lost, and it is started again.
ProcessExit == req' = [r \in Requests |-> NoRequest]

\* It gets no transaction: nobody handles the rejection.
TxRefused(r) ==
  /\ At(r, "signedIn") /\ Ask(r).op = "discord"
  /\ faults < MaxFaults /\ faults' = faults + 1
  /\ ProcessExit
  /\ UNCHANGED <<tables, sessions, arrivals>>

-----------------------------------------------------------------------------
(* logout                                                                  *)

\* req.user is dropped at once; the session is saved without its user.
Nameless(r) == SessionOf(Guest, req[r].holds.state)
LogOut(r) ==
  /\ At(r, "next") /\ req[r].todo # <<>> /\ Ask(r).op = "logout"
  /\ store' = [store EXCEPT ![SaveAs(r)] = Nameless(r)]
  /\ Becomes(r, [req[r] EXCEPT !.at = "cleared", !.user = None,
                               !.holds = Nameless(r), !.sid = SaveAs(r)])
  /\ UNCHANGED <<tables, cookie, ended, bounds>>

\* Requests that will save the session they came with.
Saves(q) == req[q].todo # <<>> /\ Ask(q).op \in Routes

\* The session is destroyed, and an empty one made for a new id.
RegenerateEmpty(r) ==
  /\ At(r, "cleared")
  /\ store' = Without(req[r].sid)
  /\ ended' = ended \cup
       {s \in {req[r].sid} : \A q \in Requests : Saves(q) => req[q].sid # s}
  /\ Becomes(r, Renewed(r, "emptied"))
  /\ UNCHANGED <<tables, cookie, bounds>>

\* The store fails, and with it the field.  The session that a request came
\* with counts as saved before the store is asked, so it is not saved again at
\* the end: Redis keeps the user.  One that was regenerated is.
LogoutFault(r) ==
  /\ faults < MaxFaults /\ faults' = faults + 1
  /\ \/ /\ At(r, "next") /\ req[r].todo # <<>> /\ Ask(r).op = "logout"
        /\ Becomes(r, [req[r] EXCEPT !.at = "respond", !.user = None,
                          !.broken = TRUE, !.saved = ~req[r].dirty,
                          !.holds = Nameless(r),
                          !.dirty = @ \/ req[r].holds # Nameless(r)])
     \/ /\ At(r, "cleared")
        /\ Becomes(r, Renewed(r, "respond"))
  /\ UNCHANGED <<tables, sessions, arrivals>>

\* The permissions stay what they were.
Repermit_Bug(r) ==
  /\ At(r, "emptied")
  /\ Becomes(r, Done(r))
  /\ UNCHANGED <<tables, sessions, bounds>>

\* createForUser(null) in a callback that nobody awaits: if there is no group
\* for guests, its rejection ends the process.
Repermit(r) ==
  /\ At(r, "emptied")
  /\ \/ /\ guestGroup
        /\ Becomes(r, [Done(r) EXCEPT !.permissions = Guest])
     \/ /\ ~guestGroup
        /\ ProcessExit
  /\ UNCHANGED <<tables, sessions, bounds>>

-----------------------------------------------------------------------------
(* The response.                                                           *)

\* The cookie goes to the browser, and the request is over.
SendCookie(r) == cookie' = [cookie EXCEPT ![req[r].from] = SaveAs(r)]
Over(r) == Becomes(r, NoRequest)

\* Every session is saved again (resave).
Respond_Bug(r) ==
  /\ At(r, "respond")
  /\ store' = IF (req[r].dirty \/ req[r].sid # None) /\ ~req[r].saved
              THEN [store EXCEPT ![SaveAs(r)] = req[r].holds] ELSE store
  /\ IF req[r].dirty THEN SendCookie(r) ELSE UNCHANGED cookie
  /\ Over(r)
  /\ UNCHANGED <<tables, ended, bounds>>

\* A session that was changed is saved as it is in memory, unless it counts as
\* saved, and its id is sent to the browser; another is not written (resave:
\* false).
Respond(r) ==
  /\ At(r, "respond")
  /\ store' = IF req[r].dirty /\ ~req[r].saved
              THEN [store EXCEPT ![SaveAs(r)] = req[r].holds] ELSE store
  /\ IF req[r].dirty THEN SendCookie(r) ELSE UNCHANGED cookie
  /\ Over(r)
  /\ UNCHANGED <<tables, ended, bounds>>

\* That save fails.  The cookie is among the headers by then; the connection
\* may be closed before the browser has them.
RespondFault(r) ==
  /\ At(r, "respond") /\ req[r].dirty /\ ~req[r].saved
  /\ faults < MaxFaults /\ faults' = faults + 1
  /\ SendCookie(r) \/ UNCHANGED cookie
  /\ Over(r)
  /\ UNCHANGED <<tables, store, ended, arrivals>>

-----------------------------------------------------------------------------
(* What else happens.                                                      *)

\* A query of PostgreSQL fails: the request does, or, in the callback of
\* logout, the process.
QueryFails(r) ==
  /\ faults < MaxFaults /\ faults' = faults + 1
  /\ \/ req[r].at \in {"deserialize", "permissions", "found", "recorded"} /\ Fails(r)
     \/ At(r, "emptied") /\ ProcessExit
  /\ UNCHANGED <<tables, sessions, arrivals>>

Crash ==
  /\ faults < MaxFaults /\ faults' = faults + 1
  /\ \E r \in Requests : ~At(r, "idle")
  /\ ProcessExit
  /\ UNCHANGED <<tables, sessions, arrivals>>

\* deleteUser of somebody who has never logged in: access logs restrict it.
DeleteUser(u) ==
  /\ u \in accounts \ logged
  /\ accounts' = accounts \ {u}
  /\ UNCHANGED <<logged, guestGroup, sessions, req, bounds>>

\* updateGroup takes the name of the group for guests away, or gives it.
RenameGroup ==
  /\ guestGroup' = ~guestGroup
  /\ UNCHANGED <<accounts, logged, sessions, req, bounds>>

Step(r) ==
  \/ Deserialize(r) \/ GeneratePermissions(r) \/ Act(r) \/ Finish(r)
  \/ FindUser(r) \/ Mismatch(r) \/ LogAccess(r) \/ LogIn(r)
  \/ Regenerate(r) \/ SaveLogin(r) \/ LoggedIn(r)
  \/ QueryFails(r) \/ LoginFault(r) \/ LogoutFault(r) \/ FindDiscordUser(r)
  \/ Authorize(r) \/ Intercept(r) \/ TxRefused(r)
  \/ LogOut(r) \/ RegenerateEmpty(r) \/ Repermit(r)
  \/ Respond(r) \/ RespondFault(r)

Next ==
  \/ \E r \in Requests :
       \/ Step(r)
       \/ \E b \in Browsers, d \in Documents : Arrive(r, b, d)
  \/ \E u \in Users : DeleteUser(u)
  \/ Crash \/ RenameGroup

\* The databases answer every request that is under way.
Spec ==
  /\ Init /\ [][Next]_vars
  /\ \A r \in Requests : WF_vars(Step(r))

-----------------------------------------------------------------------------
(* Properties.                                                             *)

\* Every variable has its type; a session that was regenerated has no id of
\* the past.
TypeOK ==
  /\ accounts \subseteq Users /\ logged \subseteq Users /\ guestGroup \in BOOLEAN
  /\ store \in [Sids -> SessionData \cup {None}]
  /\ cookie \in [Browsers -> Sids \cup {None}]
  /\ ended \subseteq Sids
  /\ arrivals \in 0 .. MaxArrivals /\ faults \in 0 .. MaxFaults
  /\ req \in [Requests -> Request]
  /\ \A r \in Requests : req[r].at \in {"renewed", "emptied"} => req[r].sid = None

\* The user of a request, as sessions and permissions name him.
Identity(user) == IF user = None THEN Guest ELSE user

\* A field is judged by the permissions of the user that the audit log will
\* name, also after a login or a logout in the same document.
ActsAsJudged ==
  \A r \in Requests :
    (At(r, "next") /\ req[r].todo # <<>> /\ Ask(r).op = "act") =>
      req[r].permissions = Identity(req[r].user)

\* No session in Redis names an account that PostgreSQL no longer has: its
\* browser could do nothing at all, not even log in.  Nothing but the access
\* log holds the two together.
SessionsHaveUsers ==
  \A s \in Sids : store[s] # None => store[s].user \in accounts \cup {Guest}

\* Whom the browser's cookie stands for; an id that Redis does not have is
\* nobody.
NamedBy(b) ==
  IF cookie[b] = None \/ store[cookie[b]] = None THEN Guest ELSE store[cookie[b]].user

\* An answer with a cookie leaves the browser with a session of the user that
\* the request ended with, also when the last save failed: a login saves before
\* it is over, and nobody is under an id that was never stored.  Except where
\* the store failed the login or the logout itself, and where it failed to save
\* a visit of the Discord route, whose session another request may have ended.
CookieMeansUser ==
  [][\A r \in Requests, b \in Browsers :
       (/\ At(r, "respond") /\ req[r].dirty /\ ~req[r].broken /\ req[r].from = b
        /\ \/ Respond(r)
           \/ RespondFault(r) /\ cookie'[b] = SaveAs(r) /\ ~Saves(r)) =>
         NamedBy(b)' = Identity(req[r].user)]_vars

\* A stored session never becomes that of a user it was not: whoever knew its
\* id as a guest's or somebody's own has not got another user's login.  A visit
\* of the Discord route may write back the user that it came with.
SessionsKeepTheirUser ==
  [][\A s \in Sids : (store[s] # None /\ store'[s] # None) =>
       \/ store'[s].user \in {Guest, store[s].user}
       \/ /\ store[s].user = Guest
          /\ \E r \in Requests : req[r].sid = s /\ Saves(r) /\ Respond(r)]_vars

\* A session that was logged out names no user ever again, whatever requests
\* were under way with it; except for visits of the Discord route, which save
\* the session they came with.
LogoutEnds == \A s \in ended : store[s] # None => store[s].user = Guest

\* Every request is answered, or lost with its process.
RequestsSettle == \A r \in Requests : []<>At(r, "idle")
=============================================================================
