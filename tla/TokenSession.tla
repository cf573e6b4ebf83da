---------------------------- MODULE TokenSession ----------------------------
(***************************************************************************)
(* Sessions and tokens of one user: the Token_Service with its table of    *)
(* sessions, the pages of the user's tabs, and the checks of a token by    *)
(* the proxy and by the service that carries the action out.               *)
(*                                                                         *)
(* A user has one row in the table.  Leaving the name field of the login   *)
(* page replaces it by a new session; a login, a token and a logout are    *)
(* decided by the row.  A session is named by the click that opened it,    *)
(* and stands for its secret, its challenge and the certificate they were  *)
(* derived from.  Each access to the table or to LDAP is one step.         *)
(***************************************************************************)
EXTENDS Naturals

CONSTANTS
  Tabs,          \* the user's tabs
  Clicks,        \* what the user does in them
  Actions,       \* what the user may ask a service for
  Kept,          \* the actions whose token is kept in sessionStorage
  Default,       \* the action "_", the user's default policy
  Allowed,       \* the actions the rules of the user's role allow
  LoggedIn,      \* the tab that is logged in at the start, if any
  First,         \* its session
  NoSession,
  Lifetime,      \* of a session, in ticks
  TokenLife,     \* of a token, in ticks
  MaxClock,      \* bound: ticks
  MaxFaults,     \* bound: failing calls of table or LDAP
  MaxRestarts    \* bound: restarts of the Token_Service

Sessions == Clicks \cup {First}

ASSUME SessionNames == First \notin Clicks /\ NoSession \notin Sessions
ASSUME Choices ==
  /\ Tabs # {}
  /\ Kept \subseteq Actions /\ Allowed \subseteq Actions /\ Default \in Actions \ Kept
  /\ LoggedIn \subseteq Tabs /\ \A t, u \in LoggedIn : t = u
  /\ Lifetime \in Nat /\ TokenLife \in Nat

VARIABLES
  row,        \* the session in the table (or NoSession)
  deadline,   \* for each session, the end of its validity
  closed,     \* the sessions that were in the table and are not (history)
  pc,         \* for each click, the step that is served next
  loc,        \* for each click, what page and handler know of it
  page,       \* for each tab, the page it shows
  store,      \* for each tab, its sessionStorage
  now,        \* the clock
  faults,     \* failed calls so far
  restarts    \* restarts so far

tableVars == <<row, deadline, closed>>
clickVars == <<pc, loc>>
tabVars == <<page, store>>
envVars == <<now, faults, restarts>>
vars == <<row, deadline, closed, pc, loc, page, store, now, faults, restarts>>

Kinds == {"none", "name", "login", "operation", "logout"}
Steps == {"new", "search", "check", "delete", "recheck", "insert", "checkLogin",
          "select", "certify", "user", "issue", "forward", "verify", "end", "lost", "done"}

\* The steps served by the Token_Service.
Remote == Steps \ {"new", "forward", "verify", "lost", "done"}

NoToken == [click |-> NoSession, session |-> NoSession, action |-> Default, ends |-> 0]

Cleared == [challenge |-> NoSession, secret |-> NoSession, token |-> NoToken]

NewLocals == [tab |-> CHOOSE t \in Tabs : TRUE, kind |-> "none", action |-> Default,
              session |-> NoSession, token |-> NoToken, dead |-> {}, waited |-> TRUE,
              outcome |-> "none"]

(***************************************************************************)
(* Control of a click.                                                     *)
(***************************************************************************)
Works == UNCHANGED envVars
Fails == faults < MaxFaults /\ faults' = faults + 1 /\ UNCHANGED <<now, restarts>>

Goto(c, step) ==
  /\ pc' = [pc EXCEPT ![c] = step]
  /\ UNCHANGED <<loc, tabVars>>

End(c, outcome) ==
  /\ pc' = [pc EXCEPT ![c] = "done"]
  /\ loc' = [loc EXCEPT ![c].outcome = outcome]

Tab(c) == loc[c].tab

Show(t, name, storage) ==
  /\ page' = [page EXCEPT ![t] = name]
  /\ store' = [store EXCEPT ![t] = storage]

\* Mutant: the page stays where it is.
LogoutUserStays(c) == End(c, "out") /\ Show(Tab(c), page[Tab(c)], Cleared)

\* logoutUser: the tab forgets its session, the service does not.
LogoutUser(c) == End(c, "out") /\ Show(Tab(c), "login", Cleared)

CloseRow ==
  /\ row' = NoSession
  /\ closed' = closed \cup ({row} \ {NoSession})
  /\ UNCHANGED deadline

(***************************************************************************)
(* The user.                                                               *)
(***************************************************************************)
Busy(t) == \E c \in Clicks : pc[c] \notin {"new", "done"} /\ Tab(c) = t /\ loc[c].waited

\* The sessions that are over when a click of the kind begins.  A login does not
\* look at the validity.
Over(kind) ==
  closed \cup {s \in Sessions : kind = "operation" /\ deadline[s] < now}

Begin(c, t, kind, a, s, step) ==
  /\ pc[c] = "new" /\ ~Busy(t)
  /\ pc' = [pc EXCEPT ![c] = step]
  /\ loc' = [loc EXCEPT ![c].tab = t, ![c].kind = kind, ![c].action = a,
                        ![c].session = s, ![c].dead = Over(kind)]
  /\ UNCHANGED <<tableVars, envVars>>

\* #identifier.blur: getUserData.
EnterName(c, t) ==
  /\ page[t] # "main"
  /\ Begin(c, t, "name", Default, NoSession, "search")
  /\ UNCHANGED tabVars

\* The name request is given up after ten seconds, and is served all the same.
GiveUp(c) ==
  /\ pc[c] \notin {"new", "done"} /\ loc[c].kind = "name" /\ loc[c].waited
  /\ loc' = [loc EXCEPT ![c].waited = FALSE]
  /\ page' = [page EXCEPT ![Tab(c)] = "login"]
  /\ UNCHANGED <<tableVars, pc, store, envVars>>

\* #btn_login: the secret is stored before the login is answered.
Login(c, t) ==
  /\ page[t] = "password"
  /\ Begin(c, t, "login", Default, store[t].challenge, "checkLogin")
  /\ Show(t, page[t], [store[t] EXCEPT !.secret = store[t].challenge])

\* The main page is the answer to a form, and reloading it sends the form again.
Reload(c, t) ==
  /\ page[t] = "main"
  /\ Begin(c, t, "login", Default, store[t].secret, "checkLogin")
  /\ UNCHANGED tabVars

\* Going to the page's address shows the login page and keeps sessionStorage.
Visit(t) ==
  /\ page[t] = "main" /\ ~Busy(t)
  /\ Show(t, "login", [store[t] EXCEPT !.challenge = NoSession])
  /\ UNCHANGED <<tableVars, clickVars, envVars>>

Operate(c, t, a) ==
  /\ page[t] = "main"
  /\ Begin(c, t, "operation", a, store[t].secret, "user")
  /\ UNCHANGED tabVars

Logout(c, t) ==
  /\ page[t] = "main"
  /\ Begin(c, t, "logout", Default, store[t].secret, "end")
  /\ UNCHANGED tabVars

(***************************************************************************)
(* getUserSecret.                                                          *)
(***************************************************************************)
\* The answer to the page, if it still waits.
NameAnswered(c, outcome) ==
  /\ End(c, outcome)
  /\ \/ ~loc[c].waited /\ UNCHANGED tabVars
     \/ /\ loc[c].waited /\ outcome = "ok"
        /\ Show(Tab(c), "password", [store[Tab(c)] EXCEPT !.challenge = c])
     \/ /\ loc[c].waited /\ outcome # "ok"
        /\ Show(Tab(c), "login", store[Tab(c)])

Search(c) ==
  /\ pc[c] = "search"
  /\ (Works /\ Goto(c, "check")) \/ (Fails /\ NameAnswered(c, "failed"))
  /\ UNCHANGED tableVars

\* Mutant: the old session is not looked for.
CheckRowSkipped(c) ==
  /\ pc[c] = "check"
  /\ Works /\ Goto(c, "recheck")
  /\ UNCHANGED tableVars

\* A check that fails is taken for an empty table, or is an exception.
CheckRow(c) ==
  /\ pc[c] = "check"
  /\ \/ Works /\ Goto(c, IF row = NoSession THEN "recheck" ELSE "delete")
     \/ Fails /\ Goto(c, "recheck")
     \/ Fails /\ NameAnswered(c, "failed")
  /\ UNCHANGED tableVars

\* Whether the old session was deleted is not looked at.
DeleteRow(c) ==
  /\ pc[c] = "delete"
  /\ (Works /\ CloseRow) \/ (Fails /\ (CloseRow \/ UNCHANGED tableVars))
  /\ Goto(c, "recheck")

\* The new keys and their validity, and the check of insertUser.
Recheck(c) ==
  /\ pc[c] = "recheck"
  /\ deadline' = [deadline EXCEPT ![c] = now + Lifetime]
  /\ \/ row = NoSession /\ Works /\ Goto(c, "insert")
     \/ row # NoSession /\ Works /\ NameAnswered(c, "failed")
     \/ Fails /\ Goto(c, "insert")
     \/ Fails /\ NameAnswered(c, "failed")
  /\ UNCHANGED <<row, closed>>

NewRow(c) ==
  /\ row' = c
  /\ UNCHANGED <<deadline, closed>>

\* Mutant: an insertion that is refused deletes the session it met.
InsertCleans(c) ==
  /\ pc[c] = "insert"
  /\ Works
  /\ \/ row = NoSession /\ NewRow(c) /\ NameAnswered(c, "ok")
     \/ row # NoSession /\ CloseRow /\ NameAnswered(c, "failed")

\* The user name is the primary key: a second row is refused.
Insert(c) ==
  /\ pc[c] = "insert"
  /\ \/ row = NoSession /\ Works /\ NewRow(c) /\ NameAnswered(c, "ok")
     \/ row # NoSession /\ Works /\ UNCHANGED tableVars /\ NameAnswered(c, "failed")
     \/ /\ Fails
        /\ (row = NoSession /\ NewRow(c)) \/ UNCHANGED tableVars
        /\ NameAnswered(c, "failed")

(***************************************************************************)
(* login.                                                                  *)
(***************************************************************************)
LoginAnswered(c, outcome) ==
  /\ End(c, outcome)
  /\ Show(Tab(c), IF outcome = "ok" THEN "main" ELSE "login",
          [store[Tab(c)] EXCEPT !.challenge = NoSession])

CheckLogin(c) ==
  /\ pc[c] = "checkLogin"
  /\ \/ row # NoSession /\ Works /\ Goto(c, "select")
     \/ row = NoSession /\ Works /\ LoginAnswered(c, "failed")
     \/ Fails /\ LoginAnswered(c, "failed")
  /\ UNCHANGED tableVars

\* The row is gone (an exception), or it is another session's.
SelectRow(c) ==
  /\ pc[c] = "select"
  /\ \/ row = loc[c].session /\ Works /\ Goto(c, "certify")
     \/ row # loc[c].session /\ Works /\ LoginAnswered(c, "failed")
     \/ Fails /\ LoginAnswered(c, "failed")
  /\ UNCHANGED tableVars

\* setCertificate, which does not look at the row again.
Certify(c) ==
  /\ pc[c] = "certify"
  /\ (Works /\ LoginAnswered(c, "ok")) \/ (Fails /\ LoginAnswered(c, "failed"))
  /\ UNCHANGED tableVars

(***************************************************************************)
(* generateToken, and the action it is for.                                *)
(***************************************************************************)
\* requestToken without a token: pages that keep one go on with the last.
Refused(c) ==
  /\ UNCHANGED tabVars
  /\ LET kept == store[Tab(c)].token IN
     \/ loc[c].action \notin Kept /\ End(c, "refused")
     \/ loc[c].action \in Kept /\ kept = NoToken /\ End(c, "refused")
     \/ /\ loc[c].action \in Kept /\ kept # NoToken
        /\ loc' = [loc EXCEPT ![c].token = kept,
             ![c].outcome = IF kept.session = store[Tab(c)].secret THEN "none" ELSE "stuck"]
        /\ pc' = [pc EXCEPT ![c] = IF kept.session = store[Tab(c)].secret
                                   THEN "forward" ELSE "done"]

\* Mutant: the deadline of the session is not looked at, nor its secret.
SelectUserUnchecked(c) ==
  /\ pc[c] = "user"
  /\ Works
  /\ (row # NoSession /\ Goto(c, "issue")) \/ (row = NoSession /\ LogoutUser(c))
  /\ UNCHANGED tableVars

\* 404, 403 and 401 all make the page log out.
SelectUser(c) ==
  /\ pc[c] = "user"
  /\ LET valid == row = loc[c].session /\ now <= deadline[row] IN
     \/ valid /\ Works /\ Goto(c, "issue")
     \/ ~valid /\ Works /\ LogoutUser(c)
     \/ Fails /\ LogoutUser(c)
  /\ UNCHANGED tableVars

\* A token, encrypted with the secret that SelectUser read.
Granted(c) ==
  LET token == [click |-> c, session |-> loc[c].session, action |-> loc[c].action,
                ends |-> now + TokenLife] IN
  /\ loc' = [loc EXCEPT ![c].token = token]
  /\ pc' = [pc EXCEPT ![c] = "forward"]
  /\ store' = IF loc[c].action \in Kept THEN [store EXCEPT ![Tab(c)].token = token]
                                        ELSE store
  /\ UNCHANGED page

\* The rules of the role, or the default policy: without one the answer is 404.
Issue(c) ==
  /\ pc[c] = "issue"
  /\ \/ loc[c].action \in Allowed /\ Works /\ Granted(c)
     \/ loc[c].action \notin Allowed \cup {Default} /\ Works /\ Refused(c)
     \/ loc[c].action \in {Default} \ Allowed /\ Works /\ LogoutUser(c)
     \/ Fails /\ Refused(c)
  /\ UNCHANGED tableVars

\* filter: the proxy takes method and address from the token, if it is in time.
Forward(c) ==
  /\ pc[c] = "forward"
  /\ \/ now < loc[c].token.ends /\ Works /\ Goto(c, "verify")
     \/ now >= loc[c].token.ends /\ Works /\ LogoutUser(c)
     \/ Fails /\ End(c, "failed") /\ UNCHANGED tabVars
  /\ UNCHANGED tableVars

\* verify: the service checks the token again, and carries the action out.
Verify(c) ==
  /\ pc[c] = "verify"
  /\ \/ now < loc[c].token.ends /\ Works /\ End(c, "ok") /\ UNCHANGED tabVars
     \/ now >= loc[c].token.ends /\ Works /\ LogoutUser(c)
     \/ Fails /\ End(c, "failed") /\ UNCHANGED tabVars
  /\ UNCHANGED tableVars

(***************************************************************************)
(* logout deletes the row of the user, whichever session it is.            *)
(***************************************************************************)
DeleteUser(c) ==
  /\ pc[c] = "end"
  /\ \/ Works /\ CloseRow /\ End(c, "ok") /\ Show(Tab(c), "login", Cleared)
     \/ /\ Fails
        /\ CloseRow \/ UNCHANGED tableVars
        /\ End(c, "failed") /\ UNCHANGED tabVars

(***************************************************************************)
(* The environment.                                                        *)
(***************************************************************************)
Tick ==
  /\ now < MaxClock
  /\ now' = now + 1
  /\ UNCHANGED <<tableVars, clickVars, tabVars, faults, restarts>>

\* The table is kept in memory.
Restart ==
  /\ restarts < MaxRestarts
  /\ restarts' = restarts + 1
  /\ CloseRow
  /\ pc' = [c \in Clicks |-> IF pc[c] \in Remote THEN "lost" ELSE pc[c]]
  /\ UNCHANGED <<loc, tabVars, now, faults>>

\* The page learns that its request has failed.
Lost(c) ==
  /\ pc[c] = "lost"
  /\ \/ loc[c].kind = "name" /\ NameAnswered(c, "failed")
     \/ loc[c].kind = "login" /\ LoginAnswered(c, "failed")
     \/ loc[c].kind = "operation" /\ Refused(c)
     \/ loc[c].kind = "logout" /\ End(c, "failed") /\ UNCHANGED tabVars
  /\ UNCHANGED <<tableVars, envVars>>

(***************************************************************************)
(* The specification.                                                      *)
(***************************************************************************)
Init ==
  /\ row = IF LoggedIn = {} THEN NoSession ELSE First
  /\ deadline = [s \in Sessions |-> Lifetime]
  /\ closed = {}
  /\ pc = [c \in Clicks |-> "new"]
  /\ loc = [c \in Clicks |-> NewLocals]
  /\ page = [t \in Tabs |-> IF t \in LoggedIn THEN "main" ELSE "login"]
  /\ store = [t \in Tabs |-> [Cleared EXCEPT !.secret = IF t \in LoggedIn THEN First
                                                                         ELSE NoSession]]
  /\ now = 0 /\ faults = 0 /\ restarts = 0

Open(c) == Search(c) \/ CheckRow(c) \/ DeleteRow(c) \/ Recheck(c) \/ Insert(c)
LogIn(c) == CheckLogin(c) \/ SelectRow(c) \/ Certify(c)
Carry(c) == SelectUser(c) \/ Issue(c) \/ Forward(c) \/ Verify(c)
Serve(c) == Open(c) \/ LogIn(c) \/ Carry(c) \/ DeleteUser(c) \/ Lost(c)

User(c) ==
  \/ \E t \in Tabs : EnterName(c, t) \/ Login(c, t) \/ Reload(c, t) \/ Logout(c, t)
  \/ \E t \in Tabs, a \in Actions : Operate(c, t, a)
  \/ GiveUp(c)

Next ==
  \/ \E c \in Clicks : User(c) \/ Serve(c)
  \/ \E t \in Tabs : Visit(t)
  \/ Tick
  \/ Restart

Spec == Init /\ [][Next]_vars

(***************************************************************************)
(* Properties.                                                             *)
(***************************************************************************)
SomeSession == Sessions \cup {NoSession}
Tokens == [click : SomeSession, session : SomeSession, action : Actions, ends : Nat]

Locals == [tab : Tabs, kind : Kinds, action : Actions, session : SomeSession,
           token : Tokens, dead : SUBSET Sessions, waited : BOOLEAN,
           outcome : {"none", "ok", "failed", "refused", "out", "stuck"}]

Storage == [challenge : SomeSession, secret : SomeSession, token : Tokens]

TableTypeOK ==
  /\ row \in SomeSession
  /\ deadline \in [Sessions -> Nat]
  /\ closed \subseteq Sessions

ClickTypeOK ==
  /\ pc \in [Clicks -> Steps]
  /\ loc \in [Clicks -> Locals]

TabTypeOK ==
  /\ page \in [Tabs -> {"login", "password", "main"}]
  /\ store \in [Tabs -> Storage]
  /\ \A t \in Tabs : page[t] = "main" => store[t].secret # NoSession
  /\ \A t \in Tabs : page[t] = "password" => store[t].challenge # NoSession

\* The type invariant.  A page that asks for tokens has a secret to sign with, and
\* one that asks for the password has a challenge.
TypeOK ==
  /\ TableTypeOK
  /\ ClickTypeOK
  /\ TabTypeOK
  /\ now \in Nat /\ faults \in Nat /\ restarts \in Nat

Fresh(c) == loc[c].token.click = c

\* The end of a session is final: when it has been replaced, logged out, lost in
\* a restart or has expired before a click, no login with its challenge is
\* accepted, and no token it obtains is honoured, whatever the other tabs do
\* while the row is read, the rules are looked up and the token is on its way.
\* (A page may still use a token it kept: CarriedAsAsked.)
EndedIsFinal ==
  \A c \in Clicks : loc[c].outcome = "ok" =>
    \/ loc[c].kind = "login" /\ loc[c].session \notin loc[c].dead
    \/ loc[c].kind = "operation" /\ (Fresh(c) => loc[c].token.session \notin loc[c].dead)
    \/ loc[c].kind \in {"name", "logout"}

\* A click is refused for a reason: a failure, a restart, a deadline that has
\* passed, no default policy, or another tab (or an earlier, late request) that
\* opens a session or logs out.
Reason(c) ==
  \/ faults > 0 \/ restarts > 0
  \/ \E d \in Clicks \ {c, loc[c].session} : loc[d].kind \in {"name", "logout"}
  \/ /\ loc[c].kind = "operation"
     /\ \/ now > deadline[loc[c].session]
        \/ loc[c].token # NoToken /\ now >= loc[c].token.ends
        \/ loc[c].action \in {Default} \ Allowed

RefusedForAReason ==
  \A c \in Clicks : loc[c].outcome \in {"failed", "out"} => Reason(c)

\* Of the tabs that open a session at the same time, each deleting the one of the
\* other, one is left with a session when all have been answered.
Opening(c) == pc[c] \in {"recheck", "insert"}

SomeoneIsIn ==
  (/\ faults = 0 /\ restarts = 0
   /\ \A c \in Clicks : loc[c].kind # "logout"
   /\ \E c \in Clicks : loc[c].kind = "name" /\ pc[c] = "done")
     => row # NoSession \/ \E c \in Clicks : Opening(c)

\* "Error in token generation" (downloadVideo.html) is what the page says when it
\* got no token for an action.  Violated: it goes on with the token it kept, and
\* the action of an earlier click is carried out.
CarriedAsAsked ==
  \A c \in Clicks :
    loc[c].kind = "operation" /\ loc[c].outcome = "ok" => loc[c].token.action = loc[c].action
=============================================================================
