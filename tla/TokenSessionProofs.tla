------------------------- MODULE TokenSessionProofs -------------------------
(***************************************************************************)
(* Proofs about TokenSession, for any number of tabs, clicks and actions,  *)
(* any lifetimes, and any number of failures, restarts and ticks.          *)
(*                                                                         *)
(* That a session that has ended is final depends on what a handler has    *)
(* read of the row and still goes by, and on where the session a page asks *)
(* with, and the token a page has kept, can come from.                     *)
(***************************************************************************)
EXTENDS TokenSession, TLAPS

NameSteps == {"search", "check", "delete", "recheck", "insert"}
LoginSteps == {"checkLogin", "select", "certify"}
OperationSteps == {"user", "issue", "forward", "verify"}

\* A click takes the steps of its kind, and has no outcome before it ends; only a
\* click on the name field is given up.
InStep ==
  \A c \in Clicks :
    /\ pc[c] = "new" => loc[c].kind = "none"
    /\ pc[c] \in NameSteps => loc[c].kind = "name"
    /\ pc[c] \in LoginSteps => loc[c].kind = "login"
    /\ pc[c] \in OperationSteps => loc[c].kind = "operation"
    /\ pc[c] = "end" => loc[c].kind = "logout"
    /\ pc[c] # "done" => loc[c].outcome = "none"
    /\ loc[c].kind # "name" => loc[c].waited

\* A tab waits for one click at a time.
Waiting(c) == pc[c] \notin {"new", "done"} /\ loc[c].waited

OneAtATime ==
  \A c, d \in Clicks : Waiting(c) /\ Waiting(d) /\ Tab(c) = Tab(d) => c = d

\* While a login is under way its tab has a secret.
Entering ==
  \A c \in Clicks : pc[c] \in LoginSteps => store[Tab(c)].secret # NoSession

\* Sessions that pages know were opened by clicks that are over.
Ended == {NoSession, First} \cup {c \in Clicks : pc[c] = "done"}

Known ==
  /\ \A t \in Tabs : store[t].challenge \in Ended /\ store[t].secret \in Ended
  /\ \A c \in Clicks :
       /\ loc[c].session \in Ended
       /\ loc[c].kind \in {"login", "operation"} => loc[c].session # NoSession

\* The row is a session of its own, and never one that was closed.
RowIsOpen ==
  /\ row \in Ended /\ closed \subseteq Ended
  /\ row \notin closed

\* What was over when a click began is over.
DeadIsOver ==
  \A c \in Clicks :
    /\ loc[c].kind = "login" => loc[c].dead \subseteq closed
    /\ loc[c].kind = "operation" /\ loc[c].session \in loc[c].dead =>
         loc[c].session \in closed \/ deadline[loc[c].session] < now

\* A handler that has accepted the session of its click, and the token it has
\* made for it, go by a session that was not over when the click began.
Accepted ==
  \A c \in Clicks :
    /\ pc[c] \in {"certify", "issue"} => loc[c].session \notin loc[c].dead
    /\ loc[c].kind = "login" /\ loc[c].outcome = "ok" => loc[c].session \notin loc[c].dead
    /\ Fresh(c) => loc[c].token.session \notin loc[c].dead

\* A token is named by the click it was made for, which has gone on since.
Granting ==
  \A c \in Clicks :
    /\ Fresh(c) => pc[c] \in {"forward", "verify", "done"}
    /\ \A t \in Tabs : store[t].token.click = c => pc[c] \in {"forward", "verify", "done"}

\* What succeeded is of a kind.
Succeeded ==
  \A c \in Clicks :
    loc[c].outcome = "ok" => loc[c].kind \in {"name", "login", "operation", "logout"}

LostInRestart == \A c \in Clicks : pc[c] = "lost" => restarts > 0

SessionInv ==
  /\ TypeOK /\ InStep /\ OneAtATime /\ Entering /\ Known /\ RowIsOpen
  /\ DeadIsOver /\ Accepted /\ Granting /\ Succeeded /\ LostInRestart
LEMMA Names == NoSession \notin Sessions /\ First \in Sessions /\ Clicks \subseteq Sessions
BY SessionNames DEF Sessions

(***************************************************************************)
(* What the building blocks of the actions do, field by field.             *)
(***************************************************************************)
Others(c) == \A d \in Clicks \ {c} : pc'[d] = pc[d] /\ loc'[d] = loc[d]

\* The click is the same, and waited for as before.
Same(c) ==
  /\ loc'[c].tab = loc[c].tab /\ loc'[c].kind = loc[c].kind
  /\ loc'[c].session = loc[c].session /\ loc'[c].dead = loc[c].dead
  /\ loc'[c].waited = loc[c].waited

OtherTabs(t) == \A u \in Tabs \ {t} : page'[u] = page[u] /\ store'[u] = store[u]

Outcomes == {"none", "ok", "failed", "refused", "out", "stuck"}
Pages == {"login", "password", "main"}

PageTypeOK == page \in [Tabs -> Pages] /\ store \in [Tabs -> Storage]

LEMMA GotoEffect ==
  ASSUME ClickTypeOK, NEW c \in Clicks, NEW step \in Steps, Goto(c, step)
  PROVE  /\ ClickTypeOK' /\ UNCHANGED tabVars
         /\ Others(c) /\ loc' = loc /\ pc'[c] = step
BY DEF ClickTypeOK, Goto, Others, tabVars

LEMMA EndEffect ==
  ASSUME ClickTypeOK, NEW c \in Clicks, NEW o \in Outcomes, End(c, o)
  PROVE  /\ ClickTypeOK'
         /\ Others(c) /\ Same(c) /\ pc'[c] = "done"
         /\ loc'[c].outcome = o /\ loc'[c].token = loc[c].token
<1>1. loc[c] \in Locals
  BY DEF ClickTypeOK
<1>2. [loc[c] EXCEPT !.outcome = o] \in Locals
  BY <1>1 DEF Locals, Outcomes
<1>3. loc' = [loc EXCEPT ![c] = [loc[c] EXCEPT !.outcome = o]]
  BY DEF End, ClickTypeOK
<1>4. loc' \in [Clicks -> Locals] /\ loc'[c] = [loc[c] EXCEPT !.outcome = o]
  BY <1>2, <1>3 DEF ClickTypeOK
<1>5. pc' \in [Clicks -> Steps] /\ pc'[c] = "done" /\ Others(c)
  BY <1>3 DEF ClickTypeOK, End, Steps, Others
<1>6. Same(c) /\ loc'[c].outcome = o /\ loc'[c].token = loc[c].token
  BY <1>1, <1>4 DEF Same, Locals
<1> QED BY <1>4, <1>5, <1>6 DEF ClickTypeOK

LEMMA BeginEffect ==
  ASSUME ClickTypeOK, TableTypeOK,
         NEW c \in Clicks, NEW t \in Tabs, NEW kind \in Kinds, NEW a \in Actions,
         NEW s \in SomeSession, NEW step \in Steps, Begin(c, t, kind, a, s, step)
  PROVE  /\ ClickTypeOK' /\ UNCHANGED <<tableVars, envVars>>
         /\ Others(c) /\ pc[c] = "new" /\ pc'[c] = step /\ ~Busy(t)
         /\ loc'[c].tab = t /\ loc'[c].kind = kind /\ loc'[c].session = s
         /\ loc'[c].dead = Over(kind) /\ loc'[c].outcome = loc[c].outcome
         /\ loc'[c].token = loc[c].token /\ loc'[c].waited = loc[c].waited
<1> DEFINE new == [loc[c] EXCEPT !.tab = t, !.kind = kind, !.action = a, !.session = s,
                                 !.dead = Over(kind)]
<1>1. loc[c] \in Locals /\ Over(kind) \in SUBSET Sessions
  BY DEF ClickTypeOK, TableTypeOK, Over
<1>2. new \in Locals
  BY <1>1 DEF Locals
<1>3. loc' = [loc EXCEPT ![c] = new]
  BY <1>1 DEF Begin, ClickTypeOK, Locals
<1> HIDE DEF new
<1>4. loc' \in [Clicks -> Locals] /\ loc'[c] = new
  BY <1>2, <1>3 DEF ClickTypeOK
<1>5. pc' \in [Clicks -> Steps] /\ pc'[c] = step /\ Others(c) /\ pc[c] = "new" /\ ~Busy(t)
  BY <1>3 DEF ClickTypeOK, Begin, Others
<1>6. /\ loc'[c].tab = t /\ loc'[c].kind = kind /\ loc'[c].session = s
      /\ loc'[c].dead = Over(kind) /\ loc'[c].outcome = loc[c].outcome
      /\ loc'[c].token = loc[c].token /\ loc'[c].waited = loc[c].waited
  BY <1>1, <1>4 DEF Locals, new
<1> QED BY <1>4, <1>5, <1>6 DEF ClickTypeOK, Begin

LEMMA ShowEffect ==
  ASSUME PageTypeOK, NEW t \in Tabs, NEW name \in Pages, NEW storage \in Storage,
         Show(t, name, storage)
  PROVE  PageTypeOK' /\ OtherTabs(t) /\ page'[t] = name /\ store'[t] = storage
BY DEF PageTypeOK, Show, OtherTabs

LEMMA ClearedStorage ==
  /\ NoToken \in Tokens /\ NoToken.click = NoSession /\ Cleared \in Storage
  /\ Cleared.challenge = NoSession /\ Cleared.secret = NoSession /\ Cleared.token = NoToken
<1>1. NoToken \in Tokens /\ NoToken.click = NoSession
  BY Choices DEF NoToken, Tokens, SomeSession
<1> QED BY <1>1 DEF Cleared, Storage, SomeSession

\* The answers: what page and click become.
AnsweredTab(c) ==
  /\ PageTypeOK' /\ OtherTabs(Tab(c))
  /\ store'[Tab(c)].token \in {store[Tab(c)].token, NoToken}

LEMMA TabOf == ASSUME ClickTypeOK, NEW c \in Clicks PROVE Tab(c) \in Tabs
BY DEF ClickTypeOK, Locals, Tab

LEMMA StoreOf == ASSUME PageTypeOK, NEW t \in Tabs PROVE store[t] \in Storage /\ page[t] \in Pages
BY DEF PageTypeOK

LEMMA NameEffect ==
  ASSUME ClickTypeOK, PageTypeOK, NEW c \in Clicks, NEW o \in {"ok", "failed"}, NameAnswered(c, o)
  PROVE  /\ End(c, o) /\ AnsweredTab(c)
         /\ store'[Tab(c)].secret = store[Tab(c)].secret
         /\ \/ page'[Tab(c)] = page[Tab(c)] /\ store' = store
            \/ loc[c].waited /\ page'[Tab(c)] = "password" /\ store'[Tab(c)].challenge = c
            \/ loc[c].waited /\ page'[Tab(c)] = "login" /\ store' = store
<1>1. Tab(c) \in Tabs /\ store[Tab(c)] \in Storage /\ c \in SomeSession
  BY TabOf, StoreOf, Names DEF SomeSession
<1>2. CASE ~loc[c].waited /\ UNCHANGED tabVars
  BY <1>1, <1>2 DEF NameAnswered, AnsweredTab, OtherTabs, PageTypeOK, tabVars
<1>3. CASE /\ loc[c].waited
           /\ Show(Tab(c), "password", [store[Tab(c)] EXCEPT !.challenge = c])
  <2> DEFINE storage == [store[Tab(c)] EXCEPT !.challenge = c]
  <2>1. /\ storage \in Storage /\ storage.challenge = c
        /\ storage.secret = store[Tab(c)].secret /\ storage.token = store[Tab(c)].token
    BY <1>1 DEF Storage
  <2>2. Show(Tab(c), "password", storage)
    BY <1>3
  <2> HIDE DEF storage
  <2> QED BY <1>1, <1>3, <2>1, <2>2, ShowEffect DEF NameAnswered, AnsweredTab, Pages
<1>4. CASE loc[c].waited /\ Show(Tab(c), "login", store[Tab(c)])
  <2>1. store' = store
    BY <1>4, <1>1 DEF Show, PageTypeOK
  <2> QED BY <1>1, <1>4, <2>1, ShowEffect DEF NameAnswered, AnsweredTab, Pages
<1> QED BY <1>2, <1>3, <1>4 DEF NameAnswered

LEMMA LoginEffect ==
  ASSUME ClickTypeOK, PageTypeOK, NEW c \in Clicks, NEW o \in {"ok", "failed"}, LoginAnswered(c, o)
  PROVE  /\ End(c, o) /\ AnsweredTab(c)
         /\ store'[Tab(c)].secret = store[Tab(c)].secret
         /\ store'[Tab(c)].challenge = NoSession
         /\ page'[Tab(c)] = (IF o = "ok" THEN "main" ELSE "login")
<1>1. Tab(c) \in Tabs /\ store[Tab(c)] \in Storage /\ NoSession \in SomeSession
  BY TabOf, StoreOf DEF SomeSession
<1> DEFINE storage == [store[Tab(c)] EXCEPT !.challenge = NoSession]
           name == IF o = "ok" THEN "main" ELSE "login"
<1>2. /\ storage \in Storage /\ storage.challenge = NoSession
      /\ storage.secret = store[Tab(c)].secret /\ storage.token = store[Tab(c)].token
  BY <1>1 DEF Storage
<1>3. Show(Tab(c), name, storage) /\ name \in Pages /\ End(c, o)
  BY DEF LoginAnswered, Pages
<1> HIDE DEF storage, name
<1>4. PageTypeOK' /\ OtherTabs(Tab(c)) /\ page'[Tab(c)] = name /\ store'[Tab(c)] = storage
  BY <1>1, <1>2, <1>3, ShowEffect
<1> QED BY <1>2, <1>3, <1>4 DEF AnsweredTab, name

LEMMA LogoutEffect ==
  ASSUME ClickTypeOK, PageTypeOK, NEW c \in Clicks, Show(Tab(c), "login", Cleared)
  PROVE  /\ AnsweredTab(c) /\ page'[Tab(c)] = "login"
         /\ store'[Tab(c)].secret = NoSession /\ store'[Tab(c)].challenge = NoSession
BY TabOf, ShowEffect, ClearedStorage DEF AnsweredTab, Pages

LEMMA KeepEffect ==
  ASSUME ClickTypeOK, PageTypeOK, NEW c \in Clicks, UNCHANGED tabVars
  PROVE  AnsweredTab(c)
BY DEF AnsweredTab, OtherTabs, PageTypeOK, tabVars

LEMMA GrantEffect ==
  ASSUME ClickTypeOK, PageTypeOK, now \in Nat, NEW c \in Clicks, Granted(c)
  PROVE  /\ ClickTypeOK' /\ PageTypeOK' /\ UNCHANGED page
         /\ Others(c) /\ Same(c) /\ OtherTabs(Tab(c)) /\ pc'[c] = "forward"
         /\ loc'[c].outcome = loc[c].outcome
         /\ loc'[c].token.click = c /\ loc'[c].token.session = loc[c].session
         /\ store'[Tab(c)].secret = store[Tab(c)].secret
         /\ store'[Tab(c)].challenge = store[Tab(c)].challenge
         /\ store'[Tab(c)].token \in {store[Tab(c)].token, loc'[c].token}
<1> DEFINE token == [click |-> c, session |-> loc[c].session, action |-> loc[c].action,
                     ends |-> now + TokenLife]
           new == [loc[c] EXCEPT !.token = token]
<1>1. Tab(c) \in Tabs /\ store[Tab(c)] \in Storage /\ loc[c] \in Locals
  BY TabOf, StoreOf DEF ClickTypeOK
<1>2. token \in Tokens /\ token.click = c /\ token.session = loc[c].session
  BY <1>1, Names, Choices DEF Tokens, Locals, SomeSession
<1> HIDE DEF token
<1>3. new \in Locals
  BY <1>1, <1>2 DEF Locals
<1>4. loc' = [loc EXCEPT ![c] = new]
  BY <1>1 DEF Granted, ClickTypeOK, Locals, token
<1>5. /\ new.tab = loc[c].tab /\ new.kind = loc[c].kind /\ new.session = loc[c].session
      /\ new.dead = loc[c].dead /\ new.waited = loc[c].waited /\ new.outcome = loc[c].outcome
      /\ new.token = token
  BY <1>1 DEF Locals
<1> HIDE DEF new
<1>6. ClickTypeOK' /\ loc'[c] = new /\ Others(c) /\ pc'[c] = "forward"
  BY <1>3, <1>4 DEF ClickTypeOK, Granted, Steps, Others
<1>7. CASE store' = store
  BY <1>1, <1>2, <1>5, <1>6, <1>7 DEF Granted, Same, OtherTabs, PageTypeOK
<1>8. CASE store' = [store EXCEPT ![Tab(c)].token = token]
  <2>1. store' = [store EXCEPT ![Tab(c)] = [store[Tab(c)] EXCEPT !.token = token]]
    BY <1>8
  <2>2. /\ store' \in [Tabs -> Storage] /\ OtherTabs(Tab(c)) /\ page' = page
        /\ store'[Tab(c)] = [store[Tab(c)] EXCEPT !.token = token]
    <3> DEFINE storage == [store[Tab(c)] EXCEPT !.token = token]
    <3>1. storage \in Storage
      BY <1>1, <1>2 DEF Storage
    <3> HIDE DEF storage
    <3>2. store' = [store EXCEPT ![Tab(c)] = storage]
      BY <2>1 DEF storage
    <3>3. store' \in [Tabs -> Storage] /\ OtherTabs(Tab(c)) /\ store'[Tab(c)] = storage
      BY <1>1, <3>1, <3>2 DEF PageTypeOK, OtherTabs, Granted
    <3> QED BY <3>3 DEF Granted, storage
  <2>3. /\ store'[Tab(c)].secret = store[Tab(c)].secret
        /\ store'[Tab(c)].challenge = store[Tab(c)].challenge
        /\ store'[Tab(c)].token = token
    BY <2>2, <1>1 DEF Storage
  <2> QED BY <1>2, <1>5, <1>6, <2>2, <2>3 DEF Same, PageTypeOK
<1> QED BY <1>7, <1>8 DEF Granted, token

\* A page that got no token ends the click, or goes on with the token it has kept.
LEMMA RefusedEffect ==
  ASSUME ClickTypeOK, PageTypeOK, NEW c \in Clicks, Refused(c)
  PROVE  /\ ClickTypeOK' /\ UNCHANGED tabVars
         /\ Others(c) /\ Same(c)
         /\ \/ pc'[c] = "done" /\ loc'[c].outcome \in {"refused", "stuck"}
            \/ pc'[c] = "forward" /\ loc'[c].outcome = "none"
         /\ loc'[c].token \in {loc[c].token, store[Tab(c)].token}
<1>1. Tab(c) \in Tabs /\ store[Tab(c)] \in Storage /\ loc[c] \in Locals
  BY TabOf, StoreOf DEF ClickTypeOK
<1>2. CASE End(c, "refused")
  BY <1>2, EndEffect DEF Refused, Outcomes
<1>3. CASE ~End(c, "refused")
  <2> DEFINE kept == store[Tab(c)].token
             own == kept.session = store[Tab(c)].secret
             new == [loc[c] EXCEPT !.token = kept, !.outcome = IF own THEN "none" ELSE "stuck"]
  <2>1. kept \in Tokens
    BY <1>1 DEF Storage
  <2>2. /\ loc' = [loc EXCEPT ![c].token = kept, ![c].outcome = IF own THEN "none" ELSE "stuck"]
        /\ pc' = [pc EXCEPT ![c] = IF own THEN "forward" ELSE "done"]
    BY <1>3 DEF Refused
  <2> HIDE DEF kept, own
  <2>3. loc' = [loc EXCEPT ![c] = new]
    BY <1>1, <2>2 DEF ClickTypeOK, Locals
  <2>4. new \in Locals
    BY <1>1, <2>1 DEF Locals
  <2>5. /\ new.tab = loc[c].tab /\ new.kind = loc[c].kind /\ new.session = loc[c].session
        /\ new.dead = loc[c].dead /\ new.waited = loc[c].waited /\ new.token = kept
        /\ new.outcome = IF own THEN "none" ELSE "stuck"
    BY <1>1 DEF Locals
  <2> HIDE DEF new
  <2>6. ClickTypeOK' /\ loc'[c] = new /\ Others(c) /\ pc'[c] = IF own THEN "forward" ELSE "done"
    BY <2>2, <2>3, <2>4 DEF ClickTypeOK, Steps, Others
  <2> QED BY <2>5, <2>6 DEF Same, Refused, kept
<1> QED BY <1>2, <1>3

LEMMA GiveUpEffect ==
  ASSUME ClickTypeOK, PageTypeOK, NEW c \in Clicks, GiveUp(c)
  PROVE  /\ ClickTypeOK' /\ PageTypeOK' /\ UNCHANGED <<pc, store>>
         /\ Others(c) /\ ~loc'[c].waited
         /\ loc'[c].tab = loc[c].tab /\ loc'[c].kind = loc[c].kind
         /\ loc'[c].session = loc[c].session /\ loc'[c].dead = loc[c].dead
         /\ loc'[c].token = loc[c].token /\ loc'[c].outcome = loc[c].outcome
         /\ OtherTabs(Tab(c)) /\ page'[Tab(c)] = "login"
<1>1. Tab(c) \in Tabs /\ loc[c] \in Locals
  BY TabOf DEF ClickTypeOK
<1>2. loc' = [loc EXCEPT ![c] = [loc[c] EXCEPT !.waited = FALSE]]
  BY DEF GiveUp, ClickTypeOK
<1>3. [loc[c] EXCEPT !.waited = FALSE] \in Locals
  BY <1>1 DEF Locals
<1>4. ClickTypeOK' /\ Others(c) /\ loc'[c] = [loc[c] EXCEPT !.waited = FALSE]
  BY <1>2, <1>3 DEF ClickTypeOK, Others, GiveUp
<1>5. PageTypeOK' /\ OtherTabs(Tab(c)) /\ page'[Tab(c)] = "login"
  BY <1>1 DEF PageTypeOK, GiveUp, OtherTabs, Pages
<1> QED BY <1>1, <1>4, <1>5 DEF Locals, GiveUp

(***************************************************************************)
(* What a step of a click does, whichever action it is.                    *)
(***************************************************************************)
FirstStep == [name |-> "search", login |-> "checkLogin", operation |-> "user", logout |-> "end"]

\* A click begins, in a tab that waits for none.
Starts(c) ==
  LET t == loc'[c].tab IN
  /\ ClickTypeOK' /\ PageTypeOK' /\ UNCHANGED <<tableVars, envVars>>
  /\ t \in Tabs /\ Others(c) /\ OtherTabs(t) /\ ~Busy(t) /\ pc[c] = "new"
  /\ \E kind \in Kinds \ {"none"} :
       /\ loc'[c].kind = kind /\ loc'[c].dead = Over(kind) /\ pc'[c] = FirstStep[kind]
       /\ kind = "name" => loc'[c].session = NoSession
       /\ kind # "name" => loc'[c].session \in {store[t].challenge, store[t].secret} \ {NoSession}
       /\ kind = "login" => store'[t].secret = loc'[c].session
       /\ kind # "login" => store'[t].secret = store[t].secret
  /\ loc'[c].outcome = loc[c].outcome /\ loc'[c].token = loc[c].token
  /\ loc'[c].waited = loc[c].waited
  /\ page' = page
  /\ store'[t].challenge = store[t].challenge /\ store'[t].token = store[t].token

\* The next step is one of the same kind, or the click is over.
Continues(c) ==
  \/ pc[c] \in NameSteps /\ pc'[c] \in NameSteps
  \/ pc[c] \in LoginSteps /\ pc'[c] \in LoginSteps
  \/ pc[c] \in OperationSteps /\ pc'[c] \in OperationSteps
  \/ pc[c] = "lost" /\ loc[c].kind = "operation" /\ pc'[c] = "forward"

Advances(c) ==
  LET t == Tab(c) IN
  /\ ClickTypeOK' /\ PageTypeOK' /\ t \in Tabs
  /\ Others(c) /\ Same(c) /\ OtherTabs(t) /\ pc[c] \notin {"new", "done"}
  /\ \/ Continues(c) /\ loc'[c].outcome = "none"
     \/ pc'[c] = "done"
  /\ loc'[c].outcome = "ok" => pc[c] \in {"insert", "certify", "verify", "end"}
  /\ pc'[c] \in {"certify", "issue"} => row = loc[c].session
  /\ pc'[c] = "issue" => now <= deadline[row]

\* The page of the click goes on, if the click was waited for.
TurnsPage(c) ==
  LET t == Tab(c) IN
  /\ ~loc[c].waited => page'[t] = page[t] /\ store'[t] = store[t]
  /\ \/ page'[t] = page[t] /\ store'[t].secret = store[t].secret
                           /\ store'[t].challenge = store[t].challenge
     \/ page'[t] = "login"
     \/ page'[t] = "password" /\ store'[t].challenge # NoSession
     \/ page'[t] = "main" /\ pc[c] = "certify" /\ store'[t].secret = store[t].secret
  /\ store'[t].secret \in {store[t].secret, NoSession}
  /\ store'[t].challenge \in {store[t].challenge, NoSession, c}
  /\ store'[t].challenge = c => pc'[c] = "done" \/ store[t].challenge = c

\* Tokens are made at one place, and else only handed on.
HandsOn(c) ==
  LET t == Tab(c) IN
  /\ pc'[c] # "done" => store'[t].secret = store[t].secret
  /\ \/ /\ loc'[c].token \in {loc[c].token, store[t].token}
        /\ store'[t].token \in {store[t].token, NoToken}
        /\ pc[c] \in {"issue", "lost"} \/ loc'[c].token = loc[c].token
        /\ pc[c] \in {"forward", "verify"} => pc'[c] \in {"forward", "verify", "done"}
     \/ /\ pc[c] = "issue" /\ pc'[c] = "forward"
        /\ loc'[c].token.click = c /\ loc'[c].token.session = loc[c].session
        /\ store'[t].token \in {store[t].token, loc'[c].token}

ChangesTable(c) ==
  /\ TableTypeOK' /\ now' = now /\ restarts' = restarts /\ faults' \in Nat /\ faults' >= faults
  /\ \/ UNCHANGED <<row, closed>>
     \/ row' = NoSession /\ closed' = closed \cup ({row} \ {NoSession})
     \/ pc[c] = "insert" /\ pc'[c] = "done" /\ row' = c /\ closed' = closed
  /\ \A s \in Sessions : deadline'[s] = deadline[s] \/ (s = c /\ pc[c] = "recheck")

Step(c) == Advances(c) /\ TurnsPage(c) /\ HandsOn(c) /\ ChangesTable(c)

LEMMA TypeParts ==
  TypeOK <=> /\ TableTypeOK /\ ClickTypeOK /\ PageTypeOK
             /\ \A t \in Tabs : page[t] = "main" => store[t].secret # NoSession
             /\ \A t \in Tabs : page[t] = "password" => store[t].challenge # NoSession
             /\ now \in Nat /\ faults \in Nat /\ restarts \in Nat
BY DEF TypeOK, TabTypeOK, PageTypeOK, Pages

\* A click that begins as one of its kind, and what it does to its page.
LEMMA BeginStarts ==
  ASSUME TypeOK, NEW c \in Clicks, NEW t \in Tabs, NEW kind \in Kinds \ {"none"},
         NEW a \in Actions, NEW s \in SomeSession, Begin(c, t, kind, a, s, FirstStep[kind]),
         PageTypeOK', OtherTabs(t), page' = page,
         store'[t].challenge = store[t].challenge, store'[t].token = store[t].token,
         kind = "name" => s = NoSession,
         kind # "name" => s \in {store[t].challenge, store[t].secret} \ {NoSession},
         kind = "login" => store'[t].secret = s,
         kind # "login" => store'[t].secret = store[t].secret
  PROVE  Starts(c)
<1> DEFINE step == FirstStep[kind]
<1>1. step \in Steps
  BY DEF FirstStep, Kinds, Steps
<1>2. ClickTypeOK /\ TableTypeOK /\ kind \in Kinds
  BY TypeParts
<1> HIDE DEF step
<1>3. Begin(c, t, kind, a, s, step)
  BY DEF step
<1>4. /\ ClickTypeOK' /\ Others(c)
      /\ pc[c] = "new" /\ pc'[c] = step
      /\ loc'[c].tab = t /\ loc'[c].kind = kind /\ loc'[c].session = s
      /\ loc'[c].dead = Over(kind)
      /\ loc'[c].token = loc[c].token /\ loc'[c].outcome = loc[c].outcome
      /\ loc'[c].waited = loc[c].waited
  BY <1>1, <1>2, <1>3, BeginEffect
<1>5. ~Busy(t) /\ UNCHANGED <<tableVars, envVars>>
  BY <1>3 DEF Begin
<1>6. \E k \in Kinds \ {"none"} :
        /\ loc'[c].kind = k /\ loc'[c].dead = Over(k) /\ pc'[c] = FirstStep[k]
        /\ k = "name" => loc'[c].session = NoSession
        /\ k # "name" => loc'[c].session \in {store[t].challenge, store[t].secret} \ {NoSession}
        /\ k = "login" => store'[t].secret = loc'[c].session
        /\ k # "login" => store'[t].secret = store[t].secret
  <2>1. /\ loc'[c].kind = kind /\ loc'[c].dead = Over(kind) /\ pc'[c] = FirstStep[kind]
        /\ kind = "name" => loc'[c].session = NoSession
        /\ kind # "name" => loc'[c].session \in {store[t].challenge, store[t].secret} \ {NoSession}
        /\ kind = "login" => store'[t].secret = loc'[c].session
        /\ kind # "login" => store'[t].secret = store[t].secret
    BY <1>4 DEF step
  <2> QED BY <2>1
<1> QED BY <1>4, <1>5, <1>6 DEF Starts

LEMMA StartEffect ==
  ASSUME TypeOK, NEW c \in Clicks, NEW t \in Tabs,
         \/ EnterName(c, t) \/ Login(c, t) \/ Reload(c, t) \/ Logout(c, t)
         \/ \E a \in Actions : Operate(c, t, a)
  PROVE  Starts(c)
<1> USE TypeParts
<1>1. store[t] \in Storage /\ store[t].challenge \in SomeSession /\ store[t].secret \in SomeSession
  BY StoreOf DEF Storage
<1>2. Default \in Actions /\ NoSession \in SomeSession
  BY Choices DEF SomeSession
<1>3. ASSUME UNCHANGED tabVars PROVE PageTypeOK' /\ OtherTabs(t) /\ page' = page /\ store' = store
  BY <1>3 DEF PageTypeOK, OtherTabs, tabVars
<1>4. CASE EnterName(c, t)
  <2>1. Begin(c, t, "name", Default, NoSession, "search") /\ UNCHANGED tabVars
    BY <1>4 DEF EnterName
  <2>2. FirstStep["name"] = "search" /\ "name" \in Kinds \ {"none"}
    BY DEF FirstStep, Kinds
  <2> QED BY <1>2, <1>3, <2>1, <2>2, BeginStarts
<1>5. CASE Login(c, t)
  <2> DEFINE storage == [store[t] EXCEPT !.secret = store[t].challenge]
  <2>1. Begin(c, t, "login", Default, store[t].challenge, "checkLogin") /\ page[t] = "password"
    BY <1>5 DEF Login
  <2>2. /\ storage \in Storage /\ storage.secret = store[t].challenge
        /\ storage.challenge = store[t].challenge /\ storage.token = store[t].token
    BY <1>1 DEF Storage
  <2>3. Show(t, page[t], storage) /\ page[t] \in Pages
    BY <1>5, StoreOf DEF Login
  <2> HIDE DEF storage
  <2>4. PageTypeOK' /\ OtherTabs(t) /\ page' = page /\ store'[t] = storage
    BY <2>2, <2>3, ShowEffect DEF Show, PageTypeOK
  <2>5. FirstStep["login"] = "checkLogin" /\ "login" \in Kinds \ {"none"}
    BY DEF FirstStep, Kinds
  <2>6. store[t].challenge # NoSession
    BY <2>1
  <2> QED BY <1>1, <1>2, <2>1, <2>2, <2>4, <2>5, <2>6, BeginStarts
<1>6. CASE Reload(c, t)
  <2>1. Begin(c, t, "login", Default, store[t].secret, "checkLogin") /\ UNCHANGED tabVars
        /\ page[t] = "main"
    BY <1>6 DEF Reload
  <2>2. FirstStep["login"] = "checkLogin" /\ "login" \in Kinds \ {"none"}
    BY DEF FirstStep, Kinds
  <2>3. store[t].secret # NoSession
    BY <2>1
  <2> QED BY <1>1, <1>2, <1>3, <2>1, <2>2, <2>3, BeginStarts
<1>7. CASE Logout(c, t)
  <2>1. Begin(c, t, "logout", Default, store[t].secret, "end") /\ UNCHANGED tabVars
        /\ page[t] = "main"
    BY <1>7 DEF Logout
  <2>2. FirstStep["logout"] = "end" /\ "logout" \in Kinds \ {"none"}
    BY DEF FirstStep, Kinds
  <2>3. store[t].secret # NoSession
    BY <2>1
  <2> QED BY <1>1, <1>2, <1>3, <2>1, <2>2, <2>3, BeginStarts
<1>8. ASSUME NEW a \in Actions, Operate(c, t, a) PROVE Starts(c)
  <2>1. Begin(c, t, "operation", a, store[t].secret, "user") /\ UNCHANGED tabVars
        /\ page[t] = "main"
    BY <1>8 DEF Operate
  <2>2. FirstStep["operation"] = "user" /\ "operation" \in Kinds \ {"none"}
    BY DEF FirstStep, Kinds
  <2>3. store[t].secret # NoSession
    BY <2>1
  <2> QED BY <1>1, <1>3, <2>1, <2>2, <2>3, BeginStarts
<1> QED BY <1>4, <1>5, <1>6, <1>7, <1>8

LEMMA Counting ==
  ASSUME TypeOK, Works \/ Fails
  PROVE  now' = now /\ restarts' = restarts /\ faults' \in Nat /\ faults' >= faults
BY DEF TypeOK, Works, Fails, envVars

LEMMA TableKept ==
  ASSUME TypeOK, NEW c \in Clicks, Works \/ Fails, UNCHANGED tableVars
  PROVE  ChangesTable(c)
BY Counting DEF ChangesTable, TypeOK, TableTypeOK, tableVars

LEMMA RowClosed ==
  ASSUME TypeOK, NEW c \in Clicks, Works \/ Fails, CloseRow
  PROVE  ChangesTable(c)
BY Counting DEF ChangesTable, TypeOK, TableTypeOK, CloseRow, SomeSession

\* A step that only goes to the next one.
LEMMA GoesOn ==
  ASSUME SessionInv, NEW c \in Clicks, NEW step \in Steps, Goto(c, step),
         \/ pc[c] \in NameSteps /\ step \in NameSteps
         \/ pc[c] \in LoginSteps /\ step \in LoginSteps
         \/ pc[c] = "user" /\ step = "issue"
         \/ pc[c] = "forward" /\ step = "verify",
         step = "certify" => row = loc[c].session,
         step = "issue" => row = loc[c].session /\ now <= deadline[row]
  PROVE  Advances(c) /\ TurnsPage(c) /\ HandsOn(c)
<1>1. ClickTypeOK' /\ Others(c) /\ loc' = loc /\ pc'[c] = step /\ UNCHANGED tabVars
  BY TypeParts, GotoEffect DEF SessionInv
<1>2. PageTypeOK' /\ OtherTabs(Tab(c)) /\ Tab(c) \in Tabs
  BY <1>1, TypeParts, KeepEffect, TabOf DEF AnsweredTab, SessionInv
<1>3. loc[c].outcome = "none"
  BY DEF SessionInv, InStep, NameSteps, LoginSteps
<1>4. Advances(c)
  BY <1>1, <1>2, <1>3 DEF Advances, Continues, Same, NameSteps, LoginSteps, OperationSteps
<1>5. TurnsPage(c) /\ HandsOn(c)
  BY <1>1 DEF TurnsPage, HandsOn, tabVars, NameSteps, LoginSteps, OperationSteps
<1> QED BY <1>4, <1>5

LEMMA NameGoesOn ==
  ASSUME SessionInv, NEW c \in Clicks, NEW step \in NameSteps, pc[c] \in NameSteps, Goto(c, step)
  PROVE  Advances(c) /\ TurnsPage(c) /\ HandsOn(c)
<1>1. step \in Steps /\ step # "certify" /\ step # "issue"
  BY DEF NameSteps, Steps
<1>2. /\ step = "certify" => row = loc[c].session
      /\ step = "issue" => row = loc[c].session /\ now <= deadline[row]
  BY <1>1
<1> QED BY <1>1, <1>2, GoesOn

LEMMA LoginGoesOn ==
  ASSUME SessionInv, NEW c \in Clicks, NEW step \in LoginSteps, pc[c] \in LoginSteps, Goto(c, step),
         step = "certify" => row = loc[c].session
  PROVE  Advances(c) /\ TurnsPage(c) /\ HandsOn(c)
<1>1. step \in Steps /\ step # "issue"
  BY DEF LoginSteps, Steps
<1>2. step = "issue" => row = loc[c].session /\ now <= deadline[row]
  BY <1>1
<1> QED BY <1>1, <1>2, GoesOn

LEMMA OperationGoesOn ==
  ASSUME SessionInv, NEW c \in Clicks, NEW step, Goto(c, step),
         \/ /\ pc[c] = "user" /\ step = "issue"
            /\ row = loc[c].session /\ now <= deadline[row]
         \/ pc[c] = "forward" /\ step = "verify"
  PROVE  Advances(c) /\ TurnsPage(c) /\ HandsOn(c)
<1>1. step \in Steps /\ step # "certify"
  BY DEF Steps
<1>2. /\ step = "certify" => row = loc[c].session
      /\ step = "issue" => row = loc[c].session /\ now <= deadline[row]
  BY <1>1
<1> QED BY <1>1, <1>2, GoesOn

\* A step that ends the click, with an answer that turns the page or without.
LEMMA Ends ==
  ASSUME SessionInv, NEW c \in Clicks, NEW o \in Outcomes, End(c, o), AnsweredTab(c),
         pc[c] \notin {"new", "done"},
         o = "ok" => pc[c] \in {"insert", "certify", "verify", "end"},
         TurnsPage(c)
  PROVE  Advances(c) /\ TurnsPage(c) /\ HandsOn(c)
<1>1. ClickTypeOK' /\ Others(c) /\ Same(c) /\ pc'[c] = "done"
      /\ loc'[c].outcome = o /\ loc'[c].token = loc[c].token
  BY TypeParts, EndEffect DEF SessionInv
<1>2. Tab(c) \in Tabs
  BY TypeParts, TabOf DEF SessionInv
<1> QED BY <1>1, <1>2 DEF Advances, HandsOn, AnsweredTab

LEMMA EndsQuietly ==
  ASSUME SessionInv, NEW c \in Clicks, NEW o \in Outcomes, End(c, o), UNCHANGED tabVars,
         pc[c] \notin {"new", "done"},
         o = "ok" => pc[c] \in {"insert", "certify", "verify", "end"}
  PROVE  Advances(c) /\ TurnsPage(c) /\ HandsOn(c)
<1>1. AnsweredTab(c) /\ TurnsPage(c)
  <2>1. c # NoSession
    BY Names
  <2> QED BY <2>1, TypeParts, KeepEffect DEF SessionInv, TurnsPage, tabVars
<1> QED BY <1>1, Ends

LEMMA NameEnds ==
  ASSUME SessionInv, NEW c \in Clicks, NEW o \in {"ok", "failed"}, NameAnswered(c, o),
         pc[c] \notin {"new", "done"}, o = "ok" => pc[c] = "insert"
  PROVE  Advances(c) /\ TurnsPage(c) /\ HandsOn(c)
<1>1. /\ End(c, o) /\ AnsweredTab(c)
      /\ store'[Tab(c)].secret = store[Tab(c)].secret
      /\ \/ page'[Tab(c)] = page[Tab(c)] /\ store' = store
         \/ loc[c].waited /\ page'[Tab(c)] = "password" /\ store'[Tab(c)].challenge = c
         \/ loc[c].waited /\ page'[Tab(c)] = "login" /\ store' = store
  BY TypeParts, NameEffect DEF SessionInv
<1>2. pc'[c] = "done" /\ o \in Outcomes
  BY <1>1, TypeParts, EndEffect DEF SessionInv, Outcomes
<1>3. TurnsPage(c)
  BY <1>1, <1>2, Names DEF TurnsPage
<1> QED BY <1>1, <1>2, <1>3, Ends

LEMMA LoginEnds ==
  ASSUME SessionInv, NEW c \in Clicks, NEW o \in {"ok", "failed"}, LoginAnswered(c, o),
         pc[c] \in LoginSteps \/ (pc[c] = "lost" /\ loc[c].kind = "login"),
         o = "ok" => pc[c] = "certify"
  PROVE  Advances(c) /\ TurnsPage(c) /\ HandsOn(c)
<1>1. /\ End(c, o) /\ AnsweredTab(c)
      /\ store'[Tab(c)].secret = store[Tab(c)].secret
      /\ store'[Tab(c)].challenge = NoSession
      /\ page'[Tab(c)] = (IF o = "ok" THEN "main" ELSE "login")
  BY TypeParts, LoginEffect DEF SessionInv
<1>2. loc[c].waited /\ o \in Outcomes
  BY DEF SessionInv, InStep, Outcomes
<1>3. TurnsPage(c)
  BY <1>1, <1>2, Names DEF TurnsPage
<1> QED BY <1>1, <1>2, <1>3, Ends DEF LoginSteps

LEMMA LogsOut ==
  ASSUME SessionInv, NEW c \in Clicks, NEW o \in {"ok", "out"}, End(c, o),
         Show(Tab(c), "login", Cleared),
         pc[c] \in OperationSteps \/ pc[c] = "end", o = "ok" => pc[c] = "end"
  PROVE  Advances(c) /\ TurnsPage(c) /\ HandsOn(c)
<1>1. /\ AnsweredTab(c) /\ page'[Tab(c)] = "login"
      /\ store'[Tab(c)].secret = NoSession /\ store'[Tab(c)].challenge = NoSession
  BY TypeParts, LogoutEffect DEF SessionInv
<1>2. loc[c].waited /\ o \in Outcomes
  BY DEF SessionInv, InStep, Outcomes
<1>3. TurnsPage(c)
  BY <1>1, <1>2, Names DEF TurnsPage
<1> QED BY <1>1, <1>2, <1>3, Ends DEF OperationSteps

LEMMA IsRefused ==
  ASSUME SessionInv, NEW c \in Clicks, Refused(c),
         pc[c] = "issue" \/ (pc[c] = "lost" /\ loc[c].kind = "operation")
  PROVE  Advances(c) /\ TurnsPage(c) /\ HandsOn(c)
<1>1. /\ ClickTypeOK' /\ UNCHANGED tabVars
      /\ Others(c) /\ Same(c)
      /\ \/ pc'[c] = "done" /\ loc'[c].outcome \in {"refused", "stuck"}
         \/ pc'[c] = "forward" /\ loc'[c].outcome = "none"
      /\ loc'[c].token \in {loc[c].token, store[Tab(c)].token}
  BY TypeParts, RefusedEffect DEF SessionInv
<1>2. PageTypeOK' /\ OtherTabs(Tab(c)) /\ Tab(c) \in Tabs
  BY <1>1, TypeParts, KeepEffect, TabOf DEF AnsweredTab, SessionInv
<1>3. Advances(c)
  BY <1>1, <1>2 DEF Advances, Continues, OperationSteps
<1>4. TurnsPage(c) /\ HandsOn(c)
  BY <1>1, Names DEF TurnsPage, HandsOn, tabVars
<1> QED BY <1>3, <1>4

LEMMA IsGranted ==
  ASSUME SessionInv, NEW c \in Clicks, Granted(c), pc[c] = "issue"
  PROVE  Advances(c) /\ TurnsPage(c) /\ HandsOn(c)
<1>1. /\ ClickTypeOK' /\ PageTypeOK' /\ UNCHANGED page
      /\ Others(c) /\ Same(c) /\ OtherTabs(Tab(c)) /\ pc'[c] = "forward"
      /\ loc'[c].outcome = loc[c].outcome
      /\ loc'[c].token.click = c /\ loc'[c].token.session = loc[c].session
      /\ store'[Tab(c)].secret = store[Tab(c)].secret
      /\ store'[Tab(c)].challenge = store[Tab(c)].challenge
      /\ store'[Tab(c)].token \in {store[Tab(c)].token, loc'[c].token}
  BY TypeParts, GrantEffect DEF SessionInv
<1>2. Tab(c) \in Tabs /\ loc[c].outcome = "none" /\ loc[c].waited
  BY TypeParts, TabOf DEF SessionInv, InStep, OperationSteps
<1>3. Advances(c)
  BY <1>1, <1>2 DEF Advances, Continues, OperationSteps
<1>4. TurnsPage(c) /\ HandsOn(c)
  BY <1>1, <1>2 DEF TurnsPage, HandsOn
<1> QED BY <1>3, <1>4

LEMMA ServeEffect ==
  ASSUME SessionInv, NEW c \in Clicks, Serve(c)
  PROVE  Step(c)
<1> DEFINE Moves == Advances(c) /\ TurnsPage(c) /\ HandsOn(c)
<1>0. TypeOK
  BY DEF SessionInv
<1>1. CASE Search(c)
  <2>1. ChangesTable(c)
    BY <1>0, <1>1, TableKept DEF Search
  <2>2. Moves
    <3>1. CASE Goto(c, "check")
      BY <1>1, <3>1, NameGoesOn DEF Search, NameSteps
    <3>2. CASE NameAnswered(c, "failed")
      BY <1>1, <3>2, NameEnds DEF Search
    <3> QED BY <1>1, <3>1, <3>2 DEF Search
  <2> QED BY <2>1, <2>2 DEF Step
<1>2. CASE CheckRow(c)
  <2>1. ChangesTable(c)
    BY <1>0, <1>2, TableKept DEF CheckRow
  <2>2. Moves
    <3>1. CASE Goto(c, "recheck") \/ Goto(c, "delete")
      BY <1>2, <3>1, NameGoesOn DEF CheckRow, NameSteps
    <3>2. CASE NameAnswered(c, "failed")
      BY <1>2, <3>2, NameEnds DEF CheckRow
    <3> QED BY <1>2, <3>1, <3>2 DEF CheckRow
  <2> QED BY <2>1, <2>2 DEF Step
<1>3. CASE DeleteRow(c)
  <2>1. ChangesTable(c)
    BY <1>0, <1>3, TableKept, RowClosed DEF DeleteRow
  <2>2. Moves
    BY <1>3, NameGoesOn DEF DeleteRow, NameSteps
  <2> QED BY <2>1, <2>2 DEF Step
<1>4. CASE Recheck(c)
  <2>1. deadline' \in [Sessions -> Nat] /\ \A s \in Sessions : deadline'[s] = deadline[s] \/ s = c
    BY <1>0, <1>4, Choices, Names DEF Recheck, TypeOK, TableTypeOK
  <2>2. ChangesTable(c)
    BY <1>0, <1>4, <2>1, Counting DEF Recheck, ChangesTable, TypeOK, TableTypeOK
  <2>3. Moves
    <3>1. CASE Goto(c, "insert")
      BY <1>4, <3>1, NameGoesOn DEF Recheck, NameSteps
    <3>2. CASE NameAnswered(c, "failed")
      BY <1>4, <3>2, NameEnds DEF Recheck
    <3> QED BY <1>4, <3>1, <3>2 DEF Recheck
  <2> QED BY <2>2, <2>3 DEF Step
<1>5. CASE Insert(c)
  <2>1. PICK o \in {"ok", "failed"} : NameAnswered(c, o)
    BY <1>5 DEF Insert
  <2>2. Moves
    BY <1>5, <2>1, NameEnds DEF Insert
  <2>3. pc'[c] = "done"
    BY <1>0, <2>1, TypeParts, NameEffect, EndEffect DEF Outcomes
  <2>4. CASE UNCHANGED tableVars
    BY <1>0, <1>5, <2>2, <2>4, TableKept DEF Insert, Step
  <2>5. CASE NewRow(c)
    <3>1. TableTypeOK' /\ row' = c /\ UNCHANGED <<deadline, closed>>
      BY <1>0, <2>5, Names DEF NewRow, TypeOK, TableTypeOK, SomeSession
    <3> QED BY <1>0, <1>5, <2>2, <2>3, <3>1, Counting DEF Insert, ChangesTable, Step
  <2> QED BY <1>5, <2>2, <2>4, <2>5 DEF Insert, Step
<1>6. CASE CheckLogin(c)
  <2>1. ChangesTable(c)
    BY <1>0, <1>6, TableKept DEF CheckLogin
  <2>2. Moves
    <3>1. CASE Goto(c, "select")
      BY <1>6, <3>1, LoginGoesOn DEF CheckLogin, LoginSteps
    <3>2. CASE LoginAnswered(c, "failed")
      BY <1>6, <3>2, LoginEnds DEF CheckLogin, LoginSteps
    <3> QED BY <1>6, <3>1, <3>2 DEF CheckLogin
  <2> QED BY <2>1, <2>2 DEF Step
<1>7. CASE SelectRow(c)
  <2>1. ChangesTable(c)
    BY <1>0, <1>7, TableKept DEF SelectRow
  <2>2. Moves
    <3>1. CASE row = loc[c].session /\ Goto(c, "certify")
      BY <1>7, <3>1, LoginGoesOn DEF SelectRow, LoginSteps
    <3>2. CASE LoginAnswered(c, "failed")
      BY <1>7, <3>2, LoginEnds DEF SelectRow, LoginSteps
    <3> QED BY <1>7, <3>1, <3>2 DEF SelectRow
  <2> QED BY <2>1, <2>2 DEF Step
<1>8. CASE Certify(c)
  <2>1. ChangesTable(c)
    BY <1>0, <1>8, TableKept DEF Certify
  <2>2. Moves
    BY <1>8, LoginEnds DEF Certify, LoginSteps
  <2> QED BY <2>1, <2>2 DEF Step
<1>9. CASE SelectUser(c)
  <2>1. ChangesTable(c)
    BY <1>0, <1>9, TableKept DEF SelectUser
  <2>2. Moves
    <3>1. CASE row = loc[c].session /\ now <= deadline[row] /\ Goto(c, "issue")
      BY <1>9, <3>1, OperationGoesOn DEF SelectUser
    <3>2. CASE LogoutUser(c)
      BY <1>9, <3>2, LogsOut DEF SelectUser, LogoutUser, OperationSteps
    <3> QED BY <1>9, <3>1, <3>2 DEF SelectUser
  <2> QED BY <2>1, <2>2 DEF Step
<1>10. CASE Issue(c)
  <2>1. ChangesTable(c)
    BY <1>0, <1>10, TableKept DEF Issue
  <2>2. Moves
    <3>1. CASE Granted(c)
      BY <1>10, <3>1, IsGranted DEF Issue
    <3>2. CASE Refused(c)
      BY <1>10, <3>2, IsRefused DEF Issue
    <3>3. CASE LogoutUser(c)
      BY <1>10, <3>3, LogsOut DEF Issue, LogoutUser, OperationSteps
    <3> QED BY <1>10, <3>1, <3>2, <3>3 DEF Issue
  <2> QED BY <2>1, <2>2 DEF Step
<1>11. CASE Forward(c) \/ Verify(c)
  <2>1. ChangesTable(c)
    BY <1>0, <1>11, TableKept DEF Forward, Verify
  <2>2. Moves
    <3>1. CASE pc[c] = "forward" /\ Goto(c, "verify")
      BY <3>1, OperationGoesOn
    <3>2. CASE LogoutUser(c)
      BY <1>11, <3>2, LogsOut DEF Forward, Verify, LogoutUser, OperationSteps
    <3>3. CASE End(c, "failed") /\ UNCHANGED tabVars
      BY <1>11, <3>3, EndsQuietly DEF Forward, Verify, Outcomes
    <3>4. CASE pc[c] = "verify" /\ End(c, "ok") /\ UNCHANGED tabVars
      BY <3>4, EndsQuietly DEF Outcomes
    <3> QED BY <1>11, <3>1, <3>2, <3>3, <3>4 DEF Forward, Verify
  <2> QED BY <2>1, <2>2 DEF Step
<1>12. CASE DeleteUser(c)
  <2>1. ChangesTable(c)
    BY <1>0, <1>12, TableKept, RowClosed DEF DeleteUser
  <2>2. Moves
    <3>1. CASE End(c, "ok") /\ Show(Tab(c), "login", Cleared)
      BY <1>12, <3>1, LogsOut DEF DeleteUser
    <3>2. CASE End(c, "failed") /\ UNCHANGED tabVars
      BY <1>12, <3>2, EndsQuietly DEF DeleteUser, Outcomes
    <3> QED BY <1>12, <3>1, <3>2 DEF DeleteUser
  <2> QED BY <2>1, <2>2 DEF Step
<1>13. CASE Lost(c)
  <2>1. ChangesTable(c)
    BY <1>0, <1>13, TableKept DEF Lost, Works
  <2>2. Moves
    <3>1. CASE NameAnswered(c, "failed")
      BY <1>13, <3>1, NameEnds DEF Lost
    <3>2. CASE loc[c].kind = "login" /\ LoginAnswered(c, "failed")
      BY <1>13, <3>2, LoginEnds DEF Lost
    <3>3. CASE loc[c].kind = "operation" /\ Refused(c)
      BY <1>13, <3>3, IsRefused DEF Lost
    <3>4. CASE End(c, "failed") /\ UNCHANGED tabVars
      BY <1>13, <3>4, EndsQuietly DEF Lost, Outcomes
    <3> QED BY <1>13, <3>1, <3>2, <3>3, <3>4 DEF Lost
  <2> QED BY <2>1, <2>2 DEF Step
<1> QED BY <1>1, <1>2, <1>3, <1>4, <1>5, <1>6, <1>7, <1>8, <1>9, <1>10, <1>11, <1>12, <1>13
        DEF Serve, Open, LogIn, Carry

(***************************************************************************)
(* Every step is one of five sorts.                                        *)
(***************************************************************************)
GivesUp(c) ==
  /\ ClickTypeOK' /\ PageTypeOK' /\ UNCHANGED <<tableVars, envVars, pc, store>>
  /\ Tab(c) \in Tabs /\ Others(c) /\ loc[c].kind = "name" /\ ~loc'[c].waited
  /\ loc'[c].tab = loc[c].tab /\ loc'[c].kind = loc[c].kind
  /\ loc'[c].session = loc[c].session /\ loc'[c].dead = loc[c].dead
  /\ loc'[c].token = loc[c].token /\ loc'[c].outcome = loc[c].outcome
  /\ OtherTabs(Tab(c)) /\ page'[Tab(c)] = "login"

Visits(t) ==
  /\ ClickTypeOK' /\ PageTypeOK' /\ UNCHANGED <<tableVars, envVars, clickVars>>
  /\ OtherTabs(t) /\ page'[t] = "login"
  /\ store'[t].secret = store[t].secret /\ store'[t].challenge = NoSession
  /\ store'[t].token = store[t].token

TimePasses ==
  /\ TableTypeOK' /\ ClickTypeOK' /\ PageTypeOK' /\ UNCHANGED <<tabVars, loc, deadline>>
  /\ now' \in Nat /\ now' >= now /\ restarts' \in Nat /\ restarts' >= restarts /\ faults' = faults
  /\ \/ UNCHANGED <<row, closed>>
     \/ row' = NoSession /\ closed' = closed \cup ({row} \ {NoSession}) /\ restarts' > 0
  /\ \A c \in Clicks :
       pc'[c] = pc[c] \/ (pc[c] \in Remote /\ pc'[c] = "lost" /\ restarts' > 0)

LEMMA NextSorts ==
  ASSUME SessionInv, [Next]_vars
  PROVE  \/ \E c \in Clicks : Starts(c) \/ GivesUp(c) \/ (Serve(c) /\ Step(c))
         \/ \E t \in Tabs : Visits(t)
         \/ TimePasses
<1>0. TypeOK
  BY DEF SessionInv
<1>1. ASSUME NEW c \in Clicks, NEW t \in Tabs,
             \/ EnterName(c, t) \/ Login(c, t) \/ Reload(c, t) \/ Logout(c, t)
             \/ \E a \in Actions : Operate(c, t, a)
      PROVE  Starts(c)
  BY <1>0, <1>1, StartEffect
<1>2. ASSUME NEW c \in Clicks, GiveUp(c) PROVE GivesUp(c)
  <2>1. loc[c].kind = "name" /\ UNCHANGED <<tableVars, envVars>>
    BY <1>2 DEF GiveUp
  <2> QED BY <1>0, <1>2, <2>1, TypeParts, GiveUpEffect, TabOf DEF GivesUp
<1>3. ASSUME NEW c \in Clicks, Serve(c) PROVE Step(c)
  BY <1>3, ServeEffect
<1>4. ASSUME NEW t \in Tabs, Visit(t) PROVE Visits(t)
  <2> DEFINE storage == [store[t] EXCEPT !.challenge = NoSession]
  <2>1. Show(t, "login", storage)
    BY <1>4 DEF Visit
  <2>2. /\ storage \in Storage /\ storage.challenge = NoSession
        /\ storage.secret = store[t].secret /\ storage.token = store[t].token
    BY <1>0, TypeParts, StoreOf DEF Storage, SomeSession
  <2> HIDE DEF storage
  <2>3. PageTypeOK' /\ OtherTabs(t) /\ page'[t] = "login" /\ store'[t] = storage
    BY <1>0, <2>1, <2>2, TypeParts, ShowEffect DEF Pages
  <2>4. ClickTypeOK' /\ UNCHANGED <<tableVars, envVars, clickVars>>
    BY <1>0, <1>4, TypeParts DEF Visit, ClickTypeOK, clickVars
  <2> QED BY <2>2, <2>3, <2>4 DEF Visits
<1>5. CASE Tick
  BY <1>0, <1>5, TypeParts DEF Tick, TimePasses, TableTypeOK, ClickTypeOK, PageTypeOK,
     tabVars, tableVars, clickVars
<1>6. CASE Restart
  <2>1. /\ UNCHANGED <<tabVars, loc, now, faults>> /\ restarts' = restarts + 1 /\ CloseRow
        /\ pc' = [c \in Clicks |-> IF pc[c] \in Remote THEN "lost" ELSE pc[c]]
    BY <1>6 DEF Restart
  <2>2. ClickTypeOK' /\ PageTypeOK'
    BY <1>0, <2>1, TypeParts DEF ClickTypeOK, PageTypeOK, Steps, tabVars
  <2>3. TableTypeOK'
    BY <1>0, <2>1, TypeParts DEF TableTypeOK, CloseRow, SomeSession
  <2> QED BY <1>0, <2>1, <2>2, <2>3, TypeParts DEF TimePasses, CloseRow
<1>7. CASE UNCHANGED vars
  BY <1>0, <1>7, TypeParts DEF vars, TimePasses, TableTypeOK, ClickTypeOK, PageTypeOK,
     tabVars
<1> QED BY <1>1, <1>2, <1>3, <1>4, <1>5, <1>6, <1>7 DEF Next, User

(***************************************************************************)
(* Every step preserves every part of the invariant.                       *)
(***************************************************************************)
LEMMA TypeStep == ASSUME SessionInv, [Next]_vars PROVE TypeOK'
<1> DEFINE InTabs ==
             /\ \A t \in Tabs : page[t] = "main" => store[t].secret # NoSession
             /\ \A t \in Tabs : page[t] = "password" => store[t].challenge # NoSession
<1>0. /\ TableTypeOK /\ ClickTypeOK /\ PageTypeOK /\ InTabs /\ Entering
      /\ now \in Nat /\ faults \in Nat /\ restarts \in Nat
  BY TypeParts DEF SessionInv
<1>1. ASSUME NEW c \in Clicks, Starts(c) PROVE InTabs'
  <2> DEFINE t == loc'[c].tab
  <2>1. /\ t \in Tabs /\ OtherTabs(t) /\ page' = page
        /\ store'[t].challenge = store[t].challenge
        /\ store'[t].secret = store[t].secret \/ store'[t].secret # NoSession
    BY <1>1 DEF Starts
  <2> HIDE DEF t
  <2> QED BY <1>0, <2>1 DEF OtherTabs
<1>2. ASSUME NEW c \in Clicks, GivesUp(c) PROVE InTabs'
  BY <1>0, <1>2 DEF GivesUp, OtherTabs
<1>3. ASSUME NEW c \in Clicks, Step(c) PROVE InTabs'
  <2>1. /\ Tab(c) \in Tabs /\ OtherTabs(Tab(c))
        /\ page'[Tab(c)] = "main" => store'[Tab(c)].secret # NoSession
        /\ page'[Tab(c)] = "password" => store'[Tab(c)].challenge # NoSession
    BY <1>0, <1>3 DEF Step, Advances, TurnsPage, Entering, LoginSteps
  <2> QED BY <1>0, <2>1 DEF OtherTabs
<1>4. ASSUME NEW t \in Tabs, Visits(t) PROVE InTabs'
  BY <1>0, <1>4 DEF Visits, OtherTabs
<1>5. ASSUME TimePasses PROVE InTabs'
  BY <1>0, <1>5 DEF TimePasses, tabVars
<1>6. InTabs'
  BY <1>1, <1>2, <1>3, <1>4, <1>5, NextSorts
<1>7. TableTypeOK' /\ now' \in Nat /\ faults' \in Nat /\ restarts' \in Nat
  BY <1>0, NextSorts
     DEF Starts, GivesUp, Step, ChangesTable, Visits, TimePasses, TableTypeOK, tableVars, envVars
<1>8. ClickTypeOK' /\ PageTypeOK'
  BY NextSorts DEF Starts, GivesUp, Step, Advances, Visits, TimePasses
<1> QED BY <1>6, <1>7, <1>8 DEF TypeOK, TabTypeOK, PageTypeOK, Pages

LEMMA InStepStep == ASSUME SessionInv, [Next]_vars PROVE InStep'
<1> USE DEF InStep, NameSteps, LoginSteps, OperationSteps
<1>0. InStep
  BY DEF SessionInv
<1>1. ASSUME NEW c \in Clicks, Starts(c) PROVE InStep'
  BY <1>0, <1>1 DEF Starts, Others, FirstStep, Kinds
<1>2. ASSUME NEW c \in Clicks, GivesUp(c) PROVE InStep'
  BY <1>0, <1>2 DEF GivesUp, Others
<1>3. ASSUME NEW c \in Clicks, Step(c) PROVE InStep'
  BY <1>0, <1>3 DEF Step, Advances, Continues, Others, Same
<1>4. ASSUME NEW t \in Tabs, Visits(t) PROVE InStep'
  BY <1>0, <1>4 DEF Visits, clickVars
<1>5. CASE TimePasses
  BY <1>0, <1>5 DEF TimePasses, Remote, Steps
<1> QED BY <1>1, <1>2, <1>3, <1>4, <1>5, NextSorts

LEMMA OneAtATimeStep == ASSUME SessionInv, [Next]_vars PROVE OneAtATime'
<1> USE DEF OneAtATime, Waiting, Tab
<1>0. OneAtATime
  BY DEF SessionInv
<1>1. ASSUME NEW c \in Clicks, Starts(c) PROVE OneAtATime'
  BY <1>0, <1>1 DEF Starts, Others, Busy
<1>2. ASSUME NEW c \in Clicks, GivesUp(c) PROVE OneAtATime'
  BY <1>0, <1>2 DEF GivesUp, Others
<1>3. ASSUME NEW c \in Clicks, Step(c) PROVE OneAtATime'
  BY <1>0, <1>3 DEF Step, Advances, Others, Same
<1>4. ASSUME NEW t \in Tabs, Visits(t) PROVE OneAtATime'
  BY <1>0, <1>4 DEF Visits, clickVars
<1>5. CASE TimePasses
  BY <1>0, <1>5 DEF TimePasses, Remote, Steps
<1> QED BY <1>1, <1>2, <1>3, <1>4, <1>5, NextSorts

LEMMA EnteringStep == ASSUME SessionInv, [Next]_vars PROVE Entering'
<1>0. InStep /\ OneAtATime /\ Entering /\ \A d \in Clicks : Tab(d) \in Tabs
  BY TypeParts, TabOf DEF SessionInv
<1>a. \A d \in Clicks : pc[d] \in LoginSteps => Waiting(d)
  BY <1>0 DEF InStep, Waiting, LoginSteps
<1>1. ASSUME NEW c \in Clicks, Starts(c), NEW d \in Clicks, pc'[d] \in LoginSteps
      PROVE  store'[loc'[d].tab].secret # NoSession
  <2>1. CASE d = c
    BY <1>1, <2>1 DEF Starts, FirstStep, Kinds, LoginSteps
  <2>2. CASE d # c
    BY <1>0, <1>a, <1>1, <2>2 DEF Starts, Others, OtherTabs, Busy, Waiting, Entering, Tab
  <2> QED BY <2>1, <2>2
<1>2. ASSUME NEW c \in Clicks, GivesUp(c) PROVE Entering'
  BY <1>0, <1>2 DEF GivesUp, Others, Entering, Tab
<1>3. ASSUME NEW c \in Clicks, Step(c), NEW d \in Clicks, pc'[d] \in LoginSteps
      PROVE  store'[loc'[d].tab].secret # NoSession
  <2>1. CASE d = c
    <3>1. pc[c] \in LoginSteps /\ pc'[c] # "done"
      BY <1>3, <2>1 DEF Step, Advances, Continues, NameSteps, LoginSteps, OperationSteps
    <3> QED BY <1>0, <1>3, <2>1, <3>1 DEF Step, Advances, HandsOn, Same, Entering, Tab
  <2>2. CASE d # c
    <3>1. pc[d] \in LoginSteps /\ loc'[d].tab = Tab(d) /\ Waiting(d)
      BY <1>a, <1>3, <2>2 DEF Step, Advances, Others, Tab
    <3>2. CASE Tab(d) = Tab(c)
      <4>1. ~loc[c].waited
        BY <1>0, <1>3, <2>2, <3>1, <3>2 DEF OneAtATime, Waiting, Step, Advances
      <4> QED BY <1>0, <1>3, <3>1, <3>2, <4>1 DEF Step, TurnsPage, Entering
    <3>3. CASE Tab(d) # Tab(c)
      BY <1>0, <1>3, <3>1, <3>3 DEF Step, Advances, OtherTabs, Entering
    <3> QED BY <3>2, <3>3
  <2> QED BY <2>1, <2>2
<1>4. ASSUME NEW t \in Tabs, Visits(t) PROVE Entering'
  BY <1>0, <1>4 DEF Visits, clickVars, OtherTabs, Entering, Tab
<1>5. CASE TimePasses
  BY <1>0, <1>5 DEF TimePasses, tabVars, Entering, Tab, LoginSteps
<1> QED BY <1>1, <1>2, <1>3, <1>4, <1>5, NextSorts DEF Entering, Tab

LEMMA EndedGrows == ASSUME SessionInv, [Next]_vars PROVE Ended \subseteq Ended'
<1>1. \A c \in Clicks : pc[c] = "done" => pc'[c] = "done"
  BY NextSorts DEF Starts, GivesUp, Step, Advances, Visits, TimePasses, Others, clickVars, Remote, Steps
<1> QED BY <1>1 DEF Ended

LEMMA KnownStep == ASSUME SessionInv, [Next]_vars PROVE Known'
<1>0. Known /\ Ended \subseteq Ended' /\ NoSession \in Ended
  BY EndedGrows DEF SessionInv, Ended
<1>1. ASSUME NEW c \in Clicks, Starts(c) PROVE Known'
  <2> DEFINE t == loc'[c].tab
  <2>1. /\ t \in Tabs /\ Others(c) /\ OtherTabs(t)
        /\ store'[t].challenge = store[t].challenge
        /\ store'[t].secret \in {store[t].secret, loc'[c].session}
        /\ loc'[c].session \in {NoSession, store[t].challenge, store[t].secret}
        /\ loc'[c].kind \in {"login", "operation"} => loc'[c].session # NoSession
    BY <1>1 DEF Starts
  <2> HIDE DEF t
  <2> QED BY <1>0, <2>1 DEF Known, Others, OtherTabs
<1>2. ASSUME NEW c \in Clicks, GivesUp(c) PROVE Known'
  BY <1>0, <1>2 DEF GivesUp, Known, Others
<1>3. ASSUME NEW c \in Clicks, Step(c) PROVE Known'
  <2> DEFINE t == Tab(c)
  <2>1. /\ t \in Tabs /\ Others(c) /\ Same(c) /\ OtherTabs(t)
        /\ store'[t].secret \in {store[t].secret, NoSession}
        /\ store'[t].challenge \in {store[t].challenge, NoSession, c}
        /\ store'[t].challenge = c => pc'[c] = "done" \/ store[t].challenge = c
    BY <1>3 DEF Step, Advances, TurnsPage
  <2>2. pc'[c] = "done" => c \in Ended'
    BY DEF Ended
  <2> HIDE DEF t
  <2> QED BY <1>0, <2>1, <2>2 DEF Known, Others, Same, OtherTabs
<1>4. ASSUME NEW t \in Tabs, Visits(t) PROVE Known'
  BY <1>0, <1>4 DEF Visits, Known, OtherTabs, clickVars
<1>5. CASE TimePasses
  BY <1>0, <1>5 DEF TimePasses, Known, tabVars
<1> QED BY <1>1, <1>2, <1>3, <1>4, <1>5, NextSorts

LEMMA RowStep == ASSUME SessionInv, [Next]_vars PROVE RowIsOpen'
<1>0. RowIsOpen /\ Ended \subseteq Ended' /\ NoSession \in Ended /\ NoSession \notin closed
  BY EndedGrows, Names, TypeParts DEF SessionInv, Ended, TableTypeOK
<1>1. CASE UNCHANGED <<row, closed>>
  BY <1>0, <1>1 DEF RowIsOpen
<1>2. CASE row' = NoSession /\ closed' = closed \cup ({row} \ {NoSession})
  BY <1>0, <1>2 DEF RowIsOpen
<1>3. ASSUME NEW c \in Clicks, pc[c] = "insert", pc'[c] = "done", row' = c, closed' = closed
      PROVE  RowIsOpen'
  <2>1. c \notin closed /\ c \in Ended'
    BY <1>0, <1>3, SessionNames, Names DEF RowIsOpen, Ended
  <2> QED BY <1>0, <1>3, <2>1 DEF RowIsOpen
<1> QED BY <1>1, <1>2, <1>3, NextSorts
        DEF Starts, GivesUp, Step, ChangesTable, Visits, TimePasses, tableVars

LEMMA ClosedGrows == ASSUME SessionInv, [Next]_vars PROVE closed \subseteq closed' /\ now' >= now
<1>1. now \in Nat
  BY TypeParts DEF SessionInv
<1> QED BY <1>1, NextSorts
        DEF Starts, GivesUp, Step, ChangesTable, Visits, TimePasses, tableVars, envVars

LEMMA DeadIsOverStep == ASSUME SessionInv, [Next]_vars PROVE DeadIsOver'
<1>0. /\ DeadIsOver /\ Known /\ TableTypeOK /\ ClickTypeOK /\ now \in Nat
      /\ TableTypeOK' /\ now' \in Nat /\ closed \subseteq closed' /\ now' >= now
  BY TypeParts, TypeStep, ClosedGrows DEF SessionInv, TypeOK
<1> DEFINE IsOver(c) ==
      /\ loc'[c].kind = "login" => loc'[c].dead \subseteq closed'
      /\ loc'[c].kind = "operation" /\ loc'[c].session \in loc'[c].dead =>
           loc'[c].session \in closed' \/ deadline'[loc'[c].session] < now'
<1>1. ASSUME NEW d \in Clicks, UNCHANGED deadline,
             loc'[d].kind = loc[d].kind, loc'[d].session = loc[d].session, loc'[d].dead = loc[d].dead
      PROVE  IsOver(d)
  <2>1. loc[d].dead \subseteq Sessions
    BY <1>0 DEF ClickTypeOK, Locals
  <2>2. loc[d].session \in loc[d].dead => deadline[loc[d].session] \in Nat
    BY <1>0, <2>1 DEF TableTypeOK
  <2> QED BY <1>0, <1>1, <2>2 DEF DeadIsOver
<1>2. ASSUME NEW c \in Clicks, Starts(c), NEW d \in Clicks PROVE IsOver(d)
  <2>1. CASE d = c
    <3>1. PICK kind \in Kinds : loc'[c].kind = kind /\ loc'[c].dead = Over(kind)
      BY <1>2 DEF Starts
    <3>2. UNCHANGED <<closed, deadline, now>>
      BY <1>2 DEF Starts, tableVars, envVars
    <3> QED BY <2>1, <3>1, <3>2 DEF Over
  <2>2. CASE d # c
    BY <1>1, <1>2, <2>2 DEF Starts, Others, tableVars
  <2> QED BY <2>1, <2>2
<1>3. ASSUME NEW c \in Clicks, GivesUp(c), NEW d \in Clicks PROVE IsOver(d)
  BY <1>1, <1>3 DEF GivesUp, Others, tableVars
<1>4. ASSUME NEW c \in Clicks, Step(c), NEW d \in Clicks PROVE IsOver(d)
  <2>1. loc'[d].kind = loc[d].kind /\ loc'[d].session = loc[d].session /\ loc'[d].dead = loc[d].dead
    BY <1>4 DEF Step, Advances, Others, Same
  <2>2. loc[d].dead \subseteq Sessions
    BY <1>0 DEF ClickTypeOK, Locals
  <2>3. ASSUME loc[d].session \in loc[d].dead
        PROVE  deadline[loc[d].session] \in Nat /\ deadline'[loc[d].session] = deadline[loc[d].session]
    <3>1. loc[d].session \in Sessions /\ loc[d].session \in Ended
      BY <1>0, <2>2, <2>3 DEF Known
    <3>2. pc[c] = "recheck" => loc[d].session # c
      BY <3>1, SessionNames, Names DEF Ended
    <3> QED BY <1>0, <1>4, <3>1, <3>2 DEF Step, ChangesTable, TableTypeOK
  <2> QED BY <1>0, <2>1, <2>3 DEF DeadIsOver
<1>5. ASSUME NEW t \in Tabs, Visits(t), NEW d \in Clicks PROVE IsOver(d)
  BY <1>1, <1>5 DEF Visits, tableVars, clickVars
<1>6. ASSUME TimePasses, NEW d \in Clicks PROVE IsOver(d)
  BY <1>1, <1>6 DEF TimePasses
<1>7. \A d \in Clicks : IsOver(d)
  BY <1>2, <1>3, <1>4, <1>5, <1>6, NextSorts
<1> QED BY <1>7 DEF DeadIsOver

\* The handler that looks at the row accepts no session that was over.
LEMMA Looked ==
  ASSUME SessionInv, NEW c \in Clicks, loc[c].kind \in {"login", "operation"},
         row = loc[c].session, loc[c].kind = "operation" => now <= deadline[row]
  PROVE  loc[c].session \notin loc[c].dead
<1>0. DeadIsOver /\ RowIsOpen /\ TableTypeOK /\ ClickTypeOK /\ now \in Nat
  BY TypeParts DEF SessionInv
<1> SUFFICES ASSUME loc[c].session \in loc[c].dead PROVE FALSE
  OBVIOUS
<1>1. loc[c].session \in Sessions
  BY <1>0 DEF ClickTypeOK, Locals
<1>2. deadline[row] \in Nat /\ row \notin closed
  BY <1>0, <1>1 DEF TableTypeOK, RowIsOpen
<1>3. CASE loc[c].kind = "login"
  BY <1>0, <1>2, <1>3 DEF DeadIsOver
<1>4. CASE loc[c].kind = "operation"
  BY <1>0, <1>2, <1>4 DEF DeadIsOver
<1> QED BY <1>3, <1>4

LEMMA AcceptedStep == ASSUME SessionInv, [Next]_vars PROVE Accepted'
<1>0. Accepted /\ Granting /\ InStep
  BY DEF SessionInv
<1> DEFINE Holds(d) ==
      /\ pc'[d] \in {"certify", "issue"} => loc'[d].session \notin loc'[d].dead
      /\ loc'[d].kind = "login" /\ loc'[d].outcome = "ok" => loc'[d].session \notin loc'[d].dead
      /\ loc'[d].token.click = d => loc'[d].token.session \notin loc'[d].dead
<1>1. ASSUME NEW d \in Clicks, loc'[d] = loc[d], pc'[d] = pc[d] \/ pc'[d] = "lost" PROVE Holds(d)
  BY <1>0, <1>1 DEF Accepted, Fresh
<1>2. ASSUME NEW c \in Clicks, Starts(c), NEW d \in Clicks PROVE Holds(d)
  <2>1. CASE d = c
    <3>1. loc'[c].outcome = "none" /\ loc'[c].token.click # c
      BY <1>0, <1>2 DEF Starts, InStep, Granting, Fresh
    <3>2. pc'[c] \notin {"certify", "issue"}
      BY <1>2 DEF Starts, FirstStep, Kinds
    <3> QED BY <2>1, <3>1, <3>2
  <2> QED BY <1>1, <1>2, <2>1 DEF Starts, Others
<1>3. ASSUME NEW c \in Clicks, GivesUp(c), NEW d \in Clicks PROVE Holds(d)
  BY <1>0, <1>1, <1>3 DEF GivesUp, Others, Accepted, Fresh
<1>4. ASSUME NEW c \in Clicks, Step(c), NEW d \in Clicks PROVE Holds(d)
  <2>1. CASE d = c
    <3>1. Same(c) /\ loc[c].session \notin loc[c].dead => Holds(c)
      <4> SUFFICES ASSUME loc[c].session \notin loc[c].dead, Same(c) PROVE Holds(c)
        OBVIOUS
      <4>1. loc'[c].token.click = c => loc'[c].token.session \notin loc'[c].dead
        BY <1>0, <1>4 DEF Step, HandsOn, Same, Accepted, Granting, Fresh, Advances
      <4> QED BY <4>1 DEF Same
    <3>2. Same(c)
      BY <1>4 DEF Step, Advances
    <3>3. CASE loc[c].session \in loc[c].dead
      <4>1. pc[c] \notin {"certify", "issue"}
        BY <1>0, <3>3 DEF Accepted
      <4>2. pc'[c] \notin {"certify", "issue"}
        <5> SUFFICES ASSUME pc'[c] \in {"certify", "issue"} PROVE FALSE
          OBVIOUS
        <5>1. row = loc[c].session /\ (pc'[c] = "issue" => now <= deadline[row])
          BY <1>4 DEF Step, Advances
        <5>2. /\ pc'[c] = "certify" => loc[c].kind = "login"
              /\ pc'[c] = "issue" => loc[c].kind = "operation"
          BY <3>2, InStepStep DEF InStep, Same, LoginSteps, OperationSteps
        <5> QED BY <3>3, <5>1, <5>2, Looked
      <4>3. ~(loc'[c].kind = "login" /\ loc'[c].outcome = "ok")
        BY <1>0, <1>4, <3>2, <4>1
           DEF Step, Advances, Same, InStep, NameSteps, OperationSteps
      <4>4. loc'[c].token.click = c => loc'[c].token.session \notin loc'[c].dead
        BY <1>0, <1>4, <3>2, <4>1 DEF Step, HandsOn, Same, Accepted, Granting, Fresh, Advances
      <4> QED BY <2>1, <4>2, <4>3, <4>4
    <3> QED BY <2>1, <3>1, <3>2, <3>3
  <2>2. CASE d # c
    BY <1>1, <1>4, <2>2 DEF Step, Advances, Others
  <2> QED BY <2>1, <2>2
<1>5. ASSUME NEW t \in Tabs, Visits(t), NEW d \in Clicks PROVE Holds(d)
  BY <1>1, <1>5 DEF Visits, clickVars
<1>6. ASSUME TimePasses, NEW d \in Clicks PROVE Holds(d)
  BY <1>1, <1>6 DEF TimePasses
<1>7. \A d \in Clicks : Holds(d)
  BY <1>2, <1>3, <1>4, <1>5, <1>6, NextSorts
<1> QED BY <1>7 DEF Accepted, Fresh

LEMMA GrantingStep == ASSUME SessionInv, [Next]_vars PROVE Granting'
<1> DEFINE On == {"forward", "verify", "done"}
<1>0. Granting
  BY DEF SessionInv
<1>1. ASSUME NEW c \in Clicks, Starts(c) PROVE Granting'
  <2> DEFINE t == loc'[c].tab
  <2>1. /\ Others(c) /\ OtherTabs(t) /\ pc[c] = "new"
        /\ loc'[c].token = loc[c].token /\ store'[t].token = store[t].token
    BY <1>1 DEF Starts
  <2> HIDE DEF t
  <2>2. /\ \A d \in Clicks : loc'[d].token = loc[d].token /\ (pc'[d] = pc[d] \/ d = c)
        /\ \A u \in Tabs : store'[u].token = store[u].token
    BY <2>1 DEF Others, OtherTabs
  <2> QED BY <1>0, <2>1, <2>2 DEF Granting, Fresh
<1>2. ASSUME NEW c \in Clicks, GivesUp(c) PROVE Granting'
  BY <1>0, <1>2 DEF GivesUp, Others, Granting, Fresh
<1>3. ASSUME NEW c \in Clicks, Step(c) PROVE Granting'
  <2> DEFINE t == Tab(c)
  <2>1. /\ Others(c) /\ OtherTabs(t) /\ t \in Tabs /\ HandsOn(c) /\ pc[c] # "done"
    BY <1>3 DEF Step, Advances
  <2>2. ASSUME NEW d \in Clicks, loc'[d].token.click = d PROVE pc'[d] \in On
    BY <1>0, <2>1, <2>2 DEF HandsOn, Others, Granting, Fresh
  <2>3. ASSUME NEW d \in Clicks, NEW u \in Tabs, store'[u].token.click = d PROVE pc'[d] \in On
    <3>1. CASE store'[u].token = store[u].token
      BY <1>0, <2>1, <2>3, <3>1 DEF HandsOn, Others, Granting
    <3>2. CASE store'[u].token = NoToken
      BY <2>3, <3>2, ClearedStorage, Names
    <3>3. CASE store'[u].token = loc'[c].token /\ loc'[c].token.click = c /\ pc'[c] = "forward"
      BY <2>3, <3>3
    <3> QED BY <2>1, <3>1, <3>2, <3>3 DEF HandsOn, OtherTabs
  <2> QED BY <2>2, <2>3 DEF Granting, Fresh
<1>4. ASSUME NEW t \in Tabs, Visits(t) PROVE Granting'
  BY <1>0, <1>4 DEF Visits, OtherTabs, clickVars, Granting, Fresh
<1>5. CASE TimePasses
  BY <1>0, <1>5 DEF TimePasses, tabVars, Remote, Granting, Fresh
<1> QED BY <1>1, <1>2, <1>3, <1>4, <1>5, NextSorts

LEMMA SucceededStep == ASSUME SessionInv, [Next]_vars PROVE Succeeded'
<1>0. Succeeded /\ InStep
  BY DEF SessionInv
<1>1. ASSUME NEW c \in Clicks, Starts(c) PROVE Succeeded'
  BY <1>0, <1>1 DEF Starts, Others, Succeeded, InStep
<1>2. ASSUME NEW c \in Clicks, GivesUp(c) PROVE Succeeded'
  BY <1>0, <1>2 DEF GivesUp, Others, Succeeded
<1>3. ASSUME NEW c \in Clicks, Step(c) PROVE Succeeded'
  BY <1>0, <1>3 DEF Step, Advances, Others, Same, Succeeded, InStep,
     NameSteps, LoginSteps, OperationSteps
<1>4. ASSUME NEW t \in Tabs, Visits(t) PROVE Succeeded'
  BY <1>0, <1>4 DEF Visits, clickVars, Succeeded
<1>5. CASE TimePasses
  BY <1>0, <1>5 DEF TimePasses, Succeeded
<1> QED BY <1>1, <1>2, <1>3, <1>4, <1>5, NextSorts

LEMMA LostStep == ASSUME SessionInv, [Next]_vars PROVE LostInRestart'
<1>0. LostInRestart /\ restarts \in Nat
  BY TypeParts DEF SessionInv
<1>1. ASSUME NEW c \in Clicks, Starts(c) PROVE LostInRestart'
  BY <1>0, <1>1 DEF Starts, Others, FirstStep, Kinds, envVars, LostInRestart
<1>2. ASSUME NEW c \in Clicks, GivesUp(c) PROVE LostInRestart'
  BY <1>0, <1>2 DEF GivesUp, envVars, LostInRestart
<1>3. ASSUME NEW c \in Clicks, Step(c) PROVE LostInRestart'
  BY <1>0, <1>3 DEF Step, Advances, Continues, Others, ChangesTable, LostInRestart,
     NameSteps, LoginSteps, OperationSteps
<1>4. ASSUME NEW t \in Tabs, Visits(t) PROVE LostInRestart'
  BY <1>0, <1>4 DEF Visits, clickVars, envVars, LostInRestart
<1>5. CASE TimePasses
  BY <1>0, <1>5 DEF TimePasses, LostInRestart
<1> QED BY <1>1, <1>2, <1>3, <1>4, <1>5, NextSorts

(***************************************************************************)
(* The theorems.                                                           *)
(***************************************************************************)
LEMMA SessionStart == Init => SessionInv
<1> SUFFICES ASSUME Init PROVE SessionInv
  OBVIOUS
<1>1. \A t \in Tabs : store[t] = [Cleared EXCEPT !.secret = IF t \in LoggedIn THEN First ELSE NoSession]
  BY DEF Init
<1>2. /\ NoToken \in Tokens /\ NoToken.click = NoSession
      /\ \A t \in Tabs : /\ store[t] \in Storage /\ store[t].challenge = NoSession
                         /\ store[t].secret = (IF t \in LoggedIn THEN First ELSE NoSession)
                         /\ store[t].token = NoToken
  <2>1. First \in SomeSession /\ NoSession \in SomeSession
    BY Names DEF SomeSession
  <2> QED BY <1>1, <2>1, ClearedStorage, ZenonT(60) DEF Storage, Cleared
<1>3. (CHOOSE t \in Tabs : TRUE) \in Tabs
  BY Choices
<1>4. NewLocals \in Locals
  BY <1>2, <1>3, Choices DEF NewLocals, Locals, Kinds, SomeSession
<1>5. NewLocals.kind = "none" /\ NewLocals.outcome = "none" /\ NewLocals.waited
      /\ NewLocals.session = NoSession /\ NewLocals.token = NoToken
  BY DEF NewLocals
<1>6. /\ row \in {NoSession, First} /\ closed = {}
      /\ \A c \in Clicks : pc[c] = "new" /\ loc[c] = NewLocals
  BY DEF Init
<1>7. TypeOK
  <2>1. TableTypeOK /\ now \in Nat /\ faults \in Nat /\ restarts \in Nat
    BY Names, Choices DEF Init, TableTypeOK, SomeSession
  <2>2. ClickTypeOK
    BY <1>4 DEF Init, ClickTypeOK, Steps
  <2>3. page \in [Tabs -> {"login", "password", "main"}]
    BY DEF Init
  <2>4. store \in [Tabs -> Storage]
    BY <1>2 DEF Init
  <2>5. \A t \in Tabs : (page[t] = "main" => t \in LoggedIn) /\ page[t] # "password"
    BY DEF Init
  <2>6. First # NoSession
    BY SessionNames DEF Sessions
  <2> QED BY <1>2, <2>1, <2>2, <2>3, <2>4, <2>5, <2>6 DEF TypeOK, TabTypeOK
<1>8. Known
  BY <1>2, <1>5, <1>6 DEF Known, Ended
<1>9. RowIsOpen
  BY <1>6 DEF RowIsOpen, Ended
<1>10. InStep /\ OneAtATime /\ Entering
  BY <1>5, <1>6 DEF InStep, OneAtATime, Waiting, Entering, NameSteps, LoginSteps, OperationSteps
<1>11. DeadIsOver /\ Succeeded /\ LostInRestart
  BY <1>5, <1>6 DEF DeadIsOver, Succeeded, LostInRestart
<1>12. Accepted /\ Granting
  BY <1>2, <1>5, <1>6, Names DEF Accepted, Granting, Fresh
<1> QED BY <1>7, <1>8, <1>9, <1>10, <1>11, <1>12 DEF SessionInv

LEMMA SessionStep == SessionInv /\ [Next]_vars => SessionInv'
<1> SUFFICES ASSUME SessionInv, [Next]_vars PROVE SessionInv'
  OBVIOUS
<1> QED
  BY TypeStep, InStepStep, OneAtATimeStep, EnteringStep, KnownStep, RowStep, DeadIsOverStep,
     AcceptedStep, GrantingStep, SucceededStep, LostStep DEF SessionInv

LEMMA SessionInvariant == Spec => []SessionInv
BY SessionStart, SessionStep, PTL DEF Spec

\* Type correctness: a page that asks for tokens has a secret to sign with, and one
\* that asks for the password has a challenge, whatever is late, lost or reloaded.
THEOREM SessionTypeCorrect == Spec => []TypeOK
<1>1. SessionInv => TypeOK
  BY DEF SessionInv
<1> QED BY <1>1, SessionInvariant, PTL

\* The end of a session is final (SelectRow, SelectUser): no login with its
\* challenge and no token obtained for it succeeds.
THEOREM EndedSessionsStayEnded == Spec => []EndedIsFinal
<1>1. SessionInv => EndedIsFinal
  BY DEF SessionInv, Accepted, Succeeded, EndedIsFinal
<1> QED BY <1>1, SessionInvariant, PTL

(***************************************************************************)
(* Someone is left with a session.                                         *)
(***************************************************************************)
\* A step of a click, when nothing has failed or restarted and nobody logs out.
LEMMA LeftByStep ==
  ASSUME SessionInv, NEW c \in Clicks, Serve(c),
         faults' = 0, restarts = 0, loc[c].kind # "logout"
  PROVE  \/ row' # NoSession
         \/ Opening(c)'
         \/ row' = row /\ ~Opening(c) /\ ~(loc[c].kind = "name" /\ pc'[c] = "done")
<1>0. InStep /\ ClickTypeOK /\ faults \in Nat /\ pc[c] # "lost" /\ pc[c] # "end"
  BY TypeParts DEF SessionInv, InStep, LostInRestart
<1>1. ~Fails
  BY <1>0 DEF Fails
<1>2. ASSUME NEW step, Goto(c, step) PROVE pc'[c] = step
  BY <1>0, <1>2 DEF Goto, ClickTypeOK
<1>3. CASE Search(c)
  BY <1>1, <1>2, <1>3 DEF Search, Opening, tableVars
<1>4. CASE CheckRow(c)
  BY <1>1, <1>2, <1>4 DEF CheckRow, Opening, tableVars
<1>5. CASE DeleteRow(c)
  BY <1>2, <1>5 DEF DeleteRow, Opening
<1>6. CASE Recheck(c)
  BY <1>1, <1>2, <1>6 DEF Recheck, Opening
<1>7. CASE Insert(c)
  <2>1. c # NoSession
    BY Names
  <2> QED BY <1>1, <1>7, <2>1 DEF Insert, NewRow, tableVars
<1>8. CASE LogIn(c) \/ Carry(c)
  BY <1>0, <1>8 DEF LogIn, CheckLogin, SelectRow, Certify, Carry, SelectUser, Issue, Forward,
     Verify, InStep, LoginSteps, OperationSteps, Opening, tableVars
<1> QED BY <1>0, <1>3, <1>4, <1>5, <1>6, <1>7, <1>8 DEF Serve, Open, DeleteUser, Lost

Quiet == faults = 0 /\ restarts = 0 /\ \A c \in Clicks : loc[c].kind # "logout"
Answered(c) == loc[c].kind = "name" /\ pc[c] = "done"

LEMMA SomeoneStep ==
  ASSUME SessionInv, SomeoneIsIn, [Next]_vars
  PROVE  SomeoneIsIn'
<1> SUFFICES ASSUME Quiet', \E c \in Clicks : Answered(c)'
             PROVE  row' # NoSession \/ \E c \in Clicks : Opening(c)'
  BY DEF SomeoneIsIn, Quiet, Answered
<1>0. InStep /\ faults \in Nat /\ restarts \in Nat
  BY TypeParts DEF SessionInv
<1>1. Quiet /\ (\E c \in Clicks : Answered(c)) => row # NoSession \/ \E c \in Clicks : Opening(c)
  BY DEF SomeoneIsIn, Quiet, Answered
<1>2. ASSUME Quiet, row' = row, \A c \in Clicks : (Answered(c)' => Answered(c)) /\ (Opening(c) => Opening(c)')
      PROVE  row' # NoSession \/ \E c \in Clicks : Opening(c)'
  BY <1>1, <1>2
<1>3. ASSUME NEW c \in Clicks, Starts(c)
      PROVE  row' # NoSession \/ \E d \in Clicks : Opening(d)'
  <2>1. Quiet
    BY <1>0, <1>3 DEF Quiet, Starts, Others, envVars, InStep
  <2>2. \A d \in Clicks : (Answered(d)' => Answered(d)) /\ (Opening(d) => Opening(d)')
    BY <1>3 DEF Starts, Others, FirstStep, Kinds, Answered, Opening
  <2> QED BY <1>2, <1>3, <2>1, <2>2 DEF Starts, tableVars
<1>4. ASSUME NEW c \in Clicks, GiveUp(c)
      PROVE  row' # NoSession \/ \E d \in Clicks : Opening(d)'
  <2>1. GivesUp(c)
    BY <1>4, TypeParts, GiveUpEffect, TabOf DEF SessionInv, GivesUp, GiveUp
  <2>2. \A d \in Clicks : loc'[d].kind = loc[d].kind /\ pc'[d] = pc[d]
    BY <2>1 DEF GivesUp, Others
  <2>3. Quiet /\ row' = row
    BY <2>1, <2>2 DEF Quiet, GivesUp, envVars, tableVars
  <2> QED BY <1>2, <2>2, <2>3 DEF Answered, Opening
<1>5. ASSUME NEW c \in Clicks, Serve(c)
      PROVE  row' # NoSession \/ \E d \in Clicks : Opening(d)'
  <2>1. Step(c)
    BY <1>5, ServeEffect
  <2>2. /\ \A d \in Clicks : loc'[d].kind = loc[d].kind
        /\ \A d \in Clicks \ {c} : pc'[d] = pc[d]
    BY <2>1 DEF Step, Advances, Others, Same
  <2>3. Quiet
    BY <1>0, <2>1, <2>2 DEF Step, ChangesTable, Quiet
  <2>4. \/ row' # NoSession
        \/ Opening(c)'
        \/ row' = row /\ ~Opening(c) /\ ~(loc[c].kind = "name" /\ pc'[c] = "done")
    BY <1>5, <2>3, LeftByStep DEF Quiet
  <2>5. CASE row' = row /\ ~Opening(c) /\ ~(loc[c].kind = "name" /\ pc'[c] = "done")
    <3>1. \A d \in Clicks : (Answered(d)' => Answered(d)) /\ (Opening(d) => Opening(d)')
      BY <2>2, <2>5 DEF Answered, Opening
    <3> QED BY <1>2, <2>3, <2>5, <3>1
  <2> QED BY <2>4, <2>5
<1>6. CASE UNCHANGED <<row, pc, loc, restarts, faults>>
  <2>1. Quiet /\ row' = row
    BY <1>6 DEF Quiet
  <2> QED BY <1>2, <1>6, <2>1 DEF Answered, Opening
<1>7. (\E t \in Tabs : Visit(t)) \/ Tick \/ UNCHANGED vars => UNCHANGED <<row, pc, loc, restarts, faults>>
  BY DEF Visit, Tick, tableVars, clickVars, envVars, vars
<1>8. ~Restart
  BY <1>0 DEF Restart, Quiet
<1>9. ASSUME NEW c \in Clicks, NEW t \in Tabs,
             \/ EnterName(c, t) \/ Login(c, t) \/ Reload(c, t) \/ Logout(c, t)
             \/ \E a \in Actions : Operate(c, t, a)
      PROVE  Starts(c)
  BY <1>9, StartEffect DEF SessionInv
<1> QED BY <1>3, <1>4, <1>5, <1>6, <1>7, <1>8, <1>9 DEF Next, User

\* Of the tabs that open a session at the same time, one is left with a session
\* when all have been answered (DeleteRow, Recheck, Insert).
THEOREM SomeoneHasASession == Spec => []SomeoneIsIn
<1>1. Init => SomeoneIsIn
  BY DEF Init, SomeoneIsIn
<1>2. SessionInv /\ SomeoneIsIn /\ [Next]_vars => SomeoneIsIn'
  BY SomeoneStep
<1> QED BY <1>1, <1>2, SessionInvariant, PTL DEF Spec

(***************************************************************************)
(* A click is refused for a reason.                                        *)
(***************************************************************************)
\* Nothing has failed, and only s has opened a session.
Only(s) ==
  /\ faults = 0 /\ restarts = 0
  /\ \A d \in Clicks \ {s} : loc[d].kind \notin {"name", "logout"}

\* A page or a click goes by the session s.
GoneBy(s) ==
  \/ \E t \in Tabs : s \in {store[t].challenge, store[t].secret}
  \/ \E c \in Clicks : loc[c].kind \in {"login", "operation"} /\ loc[c].session = s

\* Then the row is that session.
RowKept == \A s \in Sessions : Only(s) /\ GoneBy(s) => row = s

\* And no row is met when there is no session but the one that is being opened.
NoneMet ==
  \A c \in Clicks : Only(c) /\ loc[c].kind = "name" /\ Opening(c) => row = NoSession

NoSessionYet == \A c \in Clicks : loc[c].kind \in {"none", "name"} => loc[c].session = NoSession

HasToken == \A c \in Clicks : pc[c] \in {"forward", "verify"} => loc[c].token # NoToken

ReasonInv == RowKept /\ NoneMet /\ NoSessionYet /\ HasToken /\ RefusedForAReason

LEMMA OnlyKept ==
  ASSUME SessionInv, [Next]_vars, NEW s, Only(s)'
  PROVE  Only(s)
<1>1. faults \in Nat /\ restarts \in Nat /\ InStep
  BY TypeParts DEF SessionInv
<1>2. faults' >= faults /\ restarts' >= restarts
  BY <1>1, NextSorts DEF Starts, GivesUp, Step, ChangesTable, Visits, TimePasses, envVars
<1>3. \A d \in Clicks : loc[d].kind \in {"name", "logout"} => loc'[d].kind = loc[d].kind
  BY <1>1, NextSorts DEF Starts, GivesUp, Step, Advances, Visits, TimePasses, Others, Same, InStep, clickVars
<1> QED BY <1>1, <1>2, <1>3 DEF Only

\* While only the session s is opened, the row is changed by its own click.
LEMMA RowChanges ==
  ASSUME SessionInv, NEW c \in Clicks, Serve(c), row' # row
  PROVE  /\ pc[c] \in {"delete", "insert", "end"}
         /\ loc[c].kind \in {"name", "logout"}
         /\ pc[c] = "insert" => row' = c
<1>1. pc[c] \in {"delete", "insert", "end"} /\ (pc[c] = "insert" => row' = c)
  BY DEF Serve, Open, LogIn, Carry, Search, CheckRow, DeleteRow, Recheck, Insert, NewRow,
     CheckLogin, SelectRow, Certify, SelectUser, Issue, Forward, Verify, DeleteUser, Lost, tableVars
<1> QED BY <1>1 DEF SessionInv, InStep, NameSteps

\* A page learns of a session that is in the table.
LEMMA FailedKeepsStore ==
  ASSUME SessionInv, NEW c \in Clicks, NameAnswered(c, "failed")
  PROVE  store' = store
<1>1. PageTypeOK
  BY TypeParts DEF SessionInv
<1> QED BY <1>1 DEF NameAnswered, Show, tabVars, PageTypeOK

LEMMA LearnsOfRow ==
  ASSUME SessionInv, NEW c \in Clicks, Serve(c), faults' = 0, restarts = 0,
         store'[Tab(c)].challenge \notin {store[Tab(c)].challenge, NoSession}
  PROVE  store'[Tab(c)].challenge = c /\ row' = c
<1>0. InStep /\ ClickTypeOK /\ PageTypeOK /\ now \in Nat /\ faults \in Nat /\ pc[c] # "lost"
  BY TypeParts DEF SessionInv, LostInRestart
<1>1. ~Fails
  BY <1>0 DEF Fails
<1>2. store' # store /\ ~UNCHANGED tabVars
  BY DEF tabVars
<1>3. ~Goto(c, pc'[c]) /\ \A s : ~Goto(c, s)
  BY <1>2 DEF Goto
<1>4. ~Search(c) /\ ~CheckRow(c) /\ ~DeleteRow(c) /\ ~Recheck(c)
  BY <1>1, <1>2, <1>3, FailedKeepsStore DEF Search, CheckRow, DeleteRow, Recheck
<1>5. ~LoginAnswered(c, "ok") /\ ~LoginAnswered(c, "failed")
  BY <1>0, LoginEffect
<1>6. ~Show(Tab(c), "login", Cleared)
  BY <1>0, LogoutEffect
<1>7. ~Granted(c) /\ ~Refused(c)
  BY <1>0, <1>2, GrantEffect DEF Refused
<1>8. Insert(c)
  BY <1>0, <1>1, <1>2, <1>3, <1>4, <1>5, <1>6, <1>7
     DEF Serve, Open, LogIn, Carry, CheckLogin, SelectRow, Certify, SelectUser, Issue, Forward,
         Verify, DeleteUser, Lost, LogoutUser
<1>9. row = NoSession /\ NewRow(c) /\ NameAnswered(c, "ok")
  BY <1>1, <1>2, <1>8, FailedKeepsStore DEF Insert
<1>10. store'[Tab(c)].challenge = c
  BY <1>0, <1>2, <1>9, NameEffect
<1> QED BY <1>9, <1>10 DEF NewRow

LEMMA RowKeptStep ==
  ASSUME SessionInv, RowKept, [Next]_vars
  PROVE  RowKept'
<1> SUFFICES ASSUME NEW s \in Sessions, Only(s)', GoneBy(s)' PROVE row' = s
  BY DEF RowKept, Sessions
<1>0. /\ Only(s) /\ Known /\ s # NoSession /\ restarts = 0 /\ faults' = 0 /\ restarts' = 0
      /\ GoneBy(s) => row = s
  BY OnlyKept, Names DEF SessionInv, Only, RowKept
<1>1. ASSUME NEW c \in Clicks, Starts(c) PROVE row' = s
  <2> DEFINE t == loc'[c].tab
  <2>1. /\ t \in Tabs /\ Others(c) /\ OtherTabs(t) /\ row' = row
        /\ store'[t].challenge = store[t].challenge
        /\ store'[t].secret \in {store[t].secret, loc'[c].session}
        /\ loc'[c].session \in {NoSession, store[t].challenge, store[t].secret}
    BY <1>1 DEF Starts, tableVars
  <2> HIDE DEF t
  <2>2. GoneBy(s)
    BY <1>0, <2>1 DEF GoneBy, Others, OtherTabs
  <2> QED BY <1>0, <2>1, <2>2
<1>2. ASSUME NEW c \in Clicks, GivesUp(c) PROVE row' = s
  BY <1>0, <1>2 DEF GivesUp, GoneBy, Others, tableVars
<1>3. ASSUME NEW c \in Clicks, Serve(c), Step(c) PROVE row' = s
  <2> DEFINE t == Tab(c)
  <2>1. /\ t \in Tabs /\ Others(c) /\ Same(c) /\ OtherTabs(t)
        /\ store'[t].secret \in {store[t].secret, NoSession}
    BY <1>3 DEF Step, Advances, TurnsPage
  <2>2. \/ store'[t].challenge \in {store[t].challenge, NoSession}
        \/ store'[t].challenge = c /\ row' = c
    BY <1>0, <1>3, LearnsOfRow
  <2> HIDE DEF t
  <2>3. GoneBy(s) \/ row' = s
    BY <1>0, <2>1, <2>2 DEF GoneBy, Others, Same, OtherTabs
  <2>4. ASSUME GoneBy(s), row' # row PROVE row' = s
    <3>1. c = s
      BY <1>0, <1>3, <2>4, RowChanges DEF Only
    <3>2. s \in Ended
      BY <2>4 DEF GoneBy, SessionInv, Known
    <3>3. pc[c] = "done"
      BY <3>1, <3>2, Names, SessionNames DEF Ended
    <3> QED BY <1>3, <2>4, <3>3, RowChanges
  <2> QED BY <1>0, <2>3, <2>4
<1>4. ASSUME NEW t \in Tabs, Visits(t) PROVE row' = s
  BY <1>0, <1>4 DEF Visits, OtherTabs, GoneBy, clickVars, tableVars
<1>5. CASE TimePasses
  BY <1>0, <1>5 DEF TimePasses, GoneBy, tabVars
<1> QED BY <1>1, <1>2, <1>3, <1>4, <1>5, NextSorts

LEMMA MeetsNone ==
  ASSUME SessionInv, NEW c \in Clicks, Serve(c), faults' = 0, Opening(c)'
  PROVE  row' = NoSession
<1>0. ClickTypeOK /\ faults \in Nat /\ InStep
  BY TypeParts DEF SessionInv
<1>1. ~Fails
  BY <1>0 DEF Fails
<1>2. ASSUME NEW o, End(c, o) PROVE FALSE
  BY <1>0, <1>2 DEF End, Opening, ClickTypeOK
<1>3. ASSUME NEW step, Goto(c, step) PROVE step \in {"recheck", "insert"}
  BY <1>0, <1>3 DEF Goto, Opening, ClickTypeOK
<1>4. ~NameAnswered(c, "ok") /\ ~NameAnswered(c, "failed")
  BY <1>2 DEF NameAnswered
<1>5. ~LoginAnswered(c, "ok") /\ ~LoginAnswered(c, "failed") /\ ~LogoutUser(c)
  BY <1>2 DEF LoginAnswered, LogoutUser
<1>6. ~Granted(c) /\ ~Refused(c)
  <2>1. ASSUME pc' = [pc EXCEPT ![c] = "forward"] PROVE FALSE
    BY <1>0, <2>1 DEF Opening, ClickTypeOK
  <2>2. ASSUME pc' = [pc EXCEPT ![c] = "done"] PROVE FALSE
    BY <1>0, <2>2 DEF Opening, ClickTypeOK
  <2> QED BY <1>2, <2>1, <2>2 DEF Granted, Refused
<1>7. ~DeleteUser(c) /\ ~Lost(c) /\ ~Insert(c) /\ ~Search(c)
  BY <1>1, <1>2, <1>3, <1>4, <1>5, <1>6 DEF DeleteUser, Lost, Insert, Search
<1>8. ~LogIn(c) /\ ~Carry(c)
  BY <1>1, <1>2, <1>3, <1>5, <1>6
     DEF LogIn, Carry, CheckLogin, SelectRow, Certify, SelectUser, Issue, Forward, Verify
<1>9. CASE CheckRow(c)
  BY <1>1, <1>3, <1>9 DEF CheckRow, tableVars
<1>10. CASE DeleteRow(c)
  BY <1>1, <1>10 DEF DeleteRow, CloseRow
<1>11. CASE Recheck(c)
  BY <1>1, <1>4, <1>11 DEF Recheck
<1> QED BY <1>7, <1>8, <1>9, <1>10, <1>11 DEF Serve, Open

LEMMA NoneMetStep ==
  ASSUME SessionInv, NoneMet, [Next]_vars
  PROVE  NoneMet'
<1> SUFFICES ASSUME NEW c \in Clicks, Only(c)', loc'[c].kind = "name", Opening(c)'
             PROVE  row' = NoSession
  BY DEF NoneMet
<1>0. Only(c) /\ faults' = 0
  BY OnlyKept, Names DEF Only
<1>1. ASSUME row' = row, loc'[c].kind = loc[c].kind, pc'[c] = pc[c]
      PROVE  row' = NoSession
  BY <1>0, <1>1 DEF NoneMet, Opening
<1>2. ASSUME NEW d \in Clicks, Starts(d) PROVE row' = NoSession
  BY <1>1, <1>2 DEF Starts, Others, FirstStep, Kinds, Opening, tableVars
<1>3. ASSUME NEW d \in Clicks, GivesUp(d) PROVE row' = NoSession
  BY <1>1, <1>3 DEF GivesUp, Others, tableVars
<1>4. ASSUME NEW d \in Clicks, Serve(d), Step(d) PROVE row' = NoSession
  <2>1. CASE d = c
    BY <1>0, <1>4, <2>1, MeetsNone
  <2>2. CASE d # c
    <3>1. row' = row
      BY <1>0, <1>4, <2>2, RowChanges DEF Only
    <3> QED BY <1>1, <1>4, <2>2, <3>1 DEF Step, Advances, Others
  <2> QED BY <2>1, <2>2
<1>5. ASSUME NEW t \in Tabs, Visits(t) PROVE row' = NoSession
  BY <1>1, <1>5 DEF Visits, tableVars, clickVars
<1>6. CASE TimePasses
  BY <1>1, <1>6 DEF TimePasses, Opening
<1> QED BY <1>2, <1>3, <1>4, <1>5, <1>6, NextSorts

LEMMA NoSessionYetStep ==
  ASSUME SessionInv, NoSessionYet, [Next]_vars
  PROVE  NoSessionYet'
<1>1. ASSUME NEW c \in Clicks
      PROVE  \/ loc'[c].kind = loc[c].kind /\ loc'[c].session = loc[c].session
             \/ loc'[c].kind # "none" /\ (loc'[c].kind = "name" => loc'[c].session = NoSession)
  BY NextSorts DEF Starts, GivesUp, Step, Advances, Visits, TimePasses, Others, Same, clickVars
<1> QED BY <1>1 DEF NoSessionYet

\* What is forwarded is a token: one that was made, or one the page has kept.
LEMMA ForwardsToken ==
  ASSUME SessionInv, NEW c \in Clicks, Serve(c), pc'[c] = "forward"
  PROVE  loc'[c].token # NoToken
<1>0. ClickTypeOK /\ PageTypeOK /\ now \in Nat
  BY TypeParts DEF SessionInv
<1>1. ASSUME NEW o, End(c, o) PROVE FALSE
  BY <1>0, <1>1 DEF End, ClickTypeOK
<1>2. ASSUME NEW step, Goto(c, step) PROVE step = "forward"
  BY <1>0, <1>2 DEF Goto, ClickTypeOK
<1>3. CASE Granted(c)
  BY <1>0, <1>3, GrantEffect, ClearedStorage, Names
<1>4. CASE Refused(c)
  <2> DEFINE kept == store[Tab(c)].token
             outcome == IF kept.session = store[Tab(c)].secret THEN "none" ELSE "stuck"
  <2>1. kept # NoToken /\ loc' = [loc EXCEPT ![c].token = kept, ![c].outcome = outcome]
    BY <1>1, <1>4 DEF Refused
  <2> HIDE DEF kept, outcome
  <2>2. loc[c] \in Locals /\ loc' = [loc EXCEPT ![c] = [loc[c] EXCEPT !.token = kept, !.outcome = outcome]]
    BY <1>0, <2>1 DEF ClickTypeOK, Locals
  <2>3. loc'[c] = [loc[c] EXCEPT !.token = kept, !.outcome = outcome]
    BY <1>0, <2>2 DEF ClickTypeOK
  <2>4. loc'[c].token = kept
    BY <2>2, <2>3 DEF Locals
  <2> QED BY <2>1, <2>4
<1>5. CASE ~Granted(c) /\ ~Refused(c)
  BY <1>1, <1>2, <1>5
     DEF Serve, Open, LogIn, Carry, Search, CheckRow, DeleteRow, Recheck, Insert, CheckLogin,
         SelectRow, Certify, SelectUser, Issue, Forward, Verify, DeleteUser, Lost,
         NameAnswered, LoginAnswered, LogoutUser
<1> QED BY <1>3, <1>4, <1>5

LEMMA HasTokenStep ==
  ASSUME SessionInv, HasToken, [Next]_vars
  PROVE  HasToken'
<1> SUFFICES ASSUME NEW c \in Clicks, pc'[c] \in {"forward", "verify"}
             PROVE  loc'[c].token # NoToken
  BY DEF HasToken
<1>1. ASSUME pc'[c] = pc[c], loc'[c].token = loc[c].token
      PROVE  loc'[c].token # NoToken
  BY <1>1 DEF HasToken
<1>2. ASSUME NEW d \in Clicks, Starts(d) PROVE loc'[c].token # NoToken
  BY <1>1, <1>2 DEF Starts, Others, FirstStep, Kinds
<1>3. ASSUME NEW d \in Clicks, GivesUp(d) PROVE loc'[c].token # NoToken
  BY <1>1, <1>3 DEF GivesUp, Others
<1>4. ASSUME NEW d \in Clicks, Serve(d), Step(d) PROVE loc'[c].token # NoToken
  <2>1. CASE d # c
    BY <1>1, <1>4, <2>1 DEF Step, Advances, Others
  <2>2. CASE d = c /\ pc'[c] = "forward"
    BY <1>4, <2>2, ForwardsToken
  <2>3. CASE d = c /\ pc'[c] = "verify"
    <3>1. pc[c] \in OperationSteps
      BY <1>4, <2>3 DEF Step, Advances, Continues, NameSteps, LoginSteps
    <3>2. ClickTypeOK /\ \A o : ~End(c, o)
      BY <2>3, TypeParts DEF SessionInv, End, ClickTypeOK
    <3>3. \A s : Goto(c, s) => s = "verify" /\ loc' = loc
      BY <2>3, <3>2 DEF Goto, ClickTypeOK
    <3>4. ~Granted(c) /\ ~Refused(c)
      BY <2>3, <3>2 DEF Granted, Refused, ClickTypeOK
    <3>5. pc[c] = "forward" /\ loc' = loc
      BY <1>4, <2>3, <3>1, <3>2, <3>3, <3>4
         DEF Serve, Open, LogIn, Carry, Search, CheckRow, DeleteRow, Recheck, Insert, CheckLogin,
             SelectRow, Certify, SelectUser, Issue, Forward, Verify, DeleteUser, Lost, LogoutUser,
             OperationSteps
    <3> QED BY <3>5 DEF HasToken
  <2> QED BY <2>1, <2>2, <2>3
<1>5. ASSUME NEW t \in Tabs, Visits(t) PROVE loc'[c].token # NoToken
  BY <1>1, <1>5 DEF Visits, clickVars
<1>6. CASE TimePasses
  BY <1>1, <1>6 DEF TimePasses
<1> QED BY <1>2, <1>3, <1>4, <1>5, <1>6, NextSorts

\* When nothing else has happened, a login and an action find their session in the row.
LEMMA RowIsItsOwn ==
  ASSUME SessionInv, RowKept, NEW c \in Clicks, loc[c].kind \in {"login", "operation"},
         faults = 0, restarts = 0,
         \A d \in Clicks \ {c, loc[c].session} : loc[d].kind \notin {"name", "logout"}
  PROVE  row = loc[c].session /\ row \in Sessions /\ row # NoSession
<1>1. loc[c].session \in Sessions
  BY DEF SessionInv, Known, Ended, Sessions
<1>2. Only(loc[c].session) /\ GoneBy(loc[c].session)
  BY DEF Only, GoneBy
<1> QED BY <1>1, <1>2, Names DEF RowKept

LEMMA EndOutcome ==
  ASSUME SessionInv, NEW c \in Clicks, NEW o, End(c, o)
  PROVE  /\ loc'[c].outcome = o /\ pc'[c] = "done"
         /\ loc'[c].action = loc[c].action /\ loc'[c].token = loc[c].token
         /\ loc'[c].kind = loc[c].kind /\ loc'[c].session = loc[c].session
<1>1. loc \in [Clicks -> Locals] /\ loc[c] \in Locals /\ pc \in [Clicks -> Steps]
  BY TypeParts DEF SessionInv, ClickTypeOK
<1>2. loc' = [loc EXCEPT ![c] = [loc[c] EXCEPT !.outcome = o]]
  BY <1>1 DEF End
<1>3. loc'[c] = [loc[c] EXCEPT !.outcome = o]
  BY <1>1, <1>2
<1> QED BY <1>1, <1>3 DEF End, Locals

LEMMA RefusedNow ==
  ASSUME SessionInv, ReasonInv, [Next]_vars, NEW c \in Clicks, Serve(c), Step(c),
         loc'[c].outcome \in {"failed", "out"}
  PROVE  Reason(c)'
<1>0. /\ InStep /\ ClickTypeOK /\ PageTypeOK /\ now \in Nat /\ faults \in Nat /\ restarts \in Nat
      /\ TableTypeOK
  BY TypeParts DEF SessionInv
<1>1. /\ restarts' = restarts /\ now' = now /\ faults' \in Nat /\ faults' >= faults
      /\ Others(c) /\ Same(c) /\ pc[c] \notin {"new", "done"}
  BY DEF Step, ChangesTable, Advances
<1>2. \A d \in Clicks : loc'[d].kind = loc[d].kind
  BY <1>1 DEF Others, Same
<1> SUFFICES ASSUME faults' = 0, restarts = 0,
                    \A d \in Clicks \ {c, loc[c].session} : loc[d].kind \notin {"name", "logout"}
             PROVE  Reason(c)'
  BY <1>0, <1>1, <1>2 DEF Reason, Same
<1>3. ~Fails /\ faults = 0 /\ pc[c] # "lost"
  BY <1>0, <1>1 DEF Fails, SessionInv, LostInRestart
<1>4. loc[c].outcome = "none"
  BY <1>0, <1>1 DEF InStep
<1>5. \A o : End(c, o) => o \in {"failed", "out"}
  BY EndOutcome
<1>6. \A s : ~Goto(c, s)
  BY <1>4 DEF Goto
<1>7. ~Granted(c) /\ ~Refused(c)
  BY <1>0, <1>4, GrantEffect, RefusedEffect
<1>8. \/ End(c, "out") /\ loc[c].kind = "operation"
      \/ End(c, "failed") /\ loc[c].kind \in {"name", "login"}
  <2>1. CASE Open(c)
    BY <1>0, <1>3, <1>5, <1>6, <2>1
       DEF Open, Search, CheckRow, DeleteRow, Recheck, Insert, NameAnswered, InStep, NameSteps
  <2>2. CASE LogIn(c)
    BY <1>0, <1>3, <1>5, <1>6, <2>2
       DEF LogIn, CheckLogin, SelectRow, Certify, LoginAnswered, InStep, LoginSteps
  <2>3. CASE Carry(c)
    BY <1>0, <1>3, <1>5, <1>6, <1>7, <2>3
       DEF Carry, SelectUser, Issue, Forward, Verify, LogoutUser, InStep, OperationSteps
  <2>4. ~DeleteUser(c) /\ ~Lost(c)
    BY <1>3, <1>5 DEF DeleteUser, Lost
  <2> QED BY <2>1, <2>2, <2>3, <2>4 DEF Serve
<1>9. CASE loc[c].kind = "name"
  <2>1. pc[c] \in NameSteps /\ Open(c)
    BY <1>0, <1>1, <1>9, <1>3, <1>5, <1>6
       DEF Serve, LogIn, Carry, CheckLogin, SelectRow, Certify, SelectUser, Issue, Forward, Verify,
           DeleteUser, Lost, Open, Search, CheckRow, DeleteRow, Recheck, Insert, InStep,
           LoginSteps, OperationSteps, NameSteps
  <2>2. row # NoSession /\ Opening(c)
    BY <1>3, <1>5, <1>6, <2>1
       DEF Open, Search, CheckRow, DeleteRow, Recheck, Insert, NameAnswered, Opening
  <2>3. loc[c].session = NoSession
    BY <1>9 DEF ReasonInv, NoSessionYet
  <2>4. Only(c)
    BY <1>3, <2>3, Names DEF Only
  <2> QED BY <1>9, <2>2, <2>4 DEF ReasonInv, NoneMet
<1>10. CASE loc[c].kind = "login"
  <2>1. LogIn(c)
    BY <1>0, <1>3, <1>10
       DEF Serve, Carry, SelectUser, Issue, Forward, Verify, DeleteUser, Lost, Open, Search,
           CheckRow, DeleteRow, Recheck, Insert, InStep, OperationSteps, NameSteps
  <2>2. row = loc[c].session /\ row # NoSession
    BY <1>3, <1>10, RowIsItsOwn DEF ReasonInv
  <2> QED
    BY <1>3, <1>5, <1>6, <2>1, <2>2 DEF LogIn, CheckLogin, SelectRow, Certify, LoginAnswered
<1>11. CASE loc[c].kind = "operation"
  <2>1. Carry(c)
    BY <1>0, <1>3, <1>11
       DEF Serve, LogIn, CheckLogin, SelectRow, Certify, DeleteUser, Lost, Open, Search,
           CheckRow, DeleteRow, Recheck, Insert, InStep, LoginSteps, NameSteps
  <2>2. row = loc[c].session /\ deadline' = deadline /\ row \in Sessions
    BY <1>3, <1>11, <2>1, RowIsItsOwn
       DEF ReasonInv, Carry, SelectUser, Issue, Forward, Verify, tableVars
  <2>3. /\ loc'[c].action = loc[c].action /\ loc'[c].token = loc[c].token
        /\ loc'[c].kind = loc[c].kind /\ loc'[c].session = loc[c].session
    BY <1>8, EndOutcome
  <2>4. pc[c] \in {"forward", "verify"} => loc[c].token # NoToken
    BY DEF ReasonInv, HasToken
  <2>5. \/ now > deadline[loc[c].session]
        \/ loc[c].token # NoToken /\ now >= loc[c].token.ends
        \/ loc[c].action \in {Default} \ Allowed
    <3>1. CASE SelectUser(c)
      <4>1. ~(now <= deadline[loc[c].session])
        BY <1>3, <1>6, <2>2, <3>1 DEF SelectUser
      <4> QED BY <1>0, <2>2, <4>1 DEF TableTypeOK
    <3>2. CASE Issue(c)
      BY <1>3, <1>7, <3>2 DEF Issue
    <3>3. CASE Forward(c) \/ Verify(c)
      BY <1>3, <1>5, <1>6, <2>4, <3>3 DEF Forward, Verify
    <3> QED BY <2>1, <3>1, <3>2, <3>3 DEF Carry
  <2> QED BY <1>1, <1>11, <2>2, <2>3, <2>5 DEF Reason
<1> QED BY <1>8, <1>9, <1>10, <1>11

\* A reason stays one.
LEMMA ReasonStays ==
  ASSUME SessionInv, [Next]_vars, NEW c \in Clicks, pc[c] = "done", Reason(c)
  PROVE  Reason(c)'
<1>0. /\ InStep /\ ClickTypeOK /\ now \in Nat /\ faults \in Nat /\ restarts \in Nat
      /\ TableTypeOK
  BY TypeParts DEF SessionInv
<1>1. /\ faults' >= faults /\ restarts' >= restarts /\ now' >= now
      /\ faults' \in Nat /\ restarts' \in Nat /\ now' \in Nat
  BY <1>0, NextSorts DEF Starts, GivesUp, Step, ChangesTable, Visits, TimePasses, envVars
<1>2. \A d \in Clicks : loc[d].kind \in {"name", "logout"} => loc'[d].kind = loc[d].kind
  BY <1>0, NextSorts
     DEF Starts, GivesUp, Step, Advances, Visits, TimePasses, Others, Same, InStep, clickVars
<1>3. /\ loc'[c].kind = loc[c].kind /\ loc'[c].session = loc[c].session
      /\ loc[c].kind # "name" => loc'[c] = loc[c]
  BY NextSorts
     DEF Starts, GivesUp, Step, Advances, Visits, TimePasses, Others, Same, clickVars
<1>4. CASE faults > 0 \/ restarts > 0
  BY <1>0, <1>1, <1>4 DEF Reason
<1>5. CASE \E d \in Clicks \ {c, loc[c].session} : loc[d].kind \in {"name", "logout"}
  BY <1>2, <1>3, <1>5 DEF Reason
<1>6. CASE /\ loc[c].kind = "operation"
           /\ \/ now > deadline[loc[c].session]
              \/ loc[c].token # NoToken /\ now >= loc[c].token.ends
              \/ loc[c].action \in {Default} \ Allowed
  <2>1. loc'[c] = loc[c]
    BY <1>3, <1>6
  <2>2. loc[c].session \in Sessions /\ (loc[c].session \in Clicks => pc[loc[c].session] = "done")
    BY <1>6, SessionNames DEF SessionInv, Known, Ended, Sessions
  <2>3. deadline'[loc[c].session] = deadline[loc[c].session]
    BY <2>2, NextSorts DEF Starts, GivesUp, Step, ChangesTable, Visits, TimePasses, tableVars
  <2>4. deadline[loc[c].session] \in Nat /\ loc[c].token.ends \in Nat
    BY <1>0, <2>2 DEF TableTypeOK, ClickTypeOK, Locals, Tokens
  <2> QED BY <1>0, <1>1, <1>6, <2>1, <2>3, <2>4 DEF Reason
<1> QED BY <1>4, <1>5, <1>6 DEF Reason

LEMMA RefusedStep ==
  ASSUME SessionInv, ReasonInv, [Next]_vars
  PROVE  RefusedForAReason'
<1> SUFFICES ASSUME NEW c \in Clicks, loc'[c].outcome \in {"failed", "out"}
             PROVE  Reason(c)'
  BY DEF RefusedForAReason
<1>1. CASE loc[c].outcome = loc'[c].outcome
  <2>1. pc[c] = "done"
    BY <1>1 DEF SessionInv, InStep
  <2> QED BY <1>1, <2>1, ReasonStays DEF ReasonInv, RefusedForAReason
<1>2. CASE loc[c].outcome # loc'[c].outcome
  <2>1. Serve(c) /\ Step(c)
    BY <1>2, NextSorts
       DEF Starts, GivesUp, Step, Advances, Visits, TimePasses, Others, clickVars
  <2> QED BY <2>1, RefusedNow
<1> QED BY <1>1, <1>2

\* Login and actions of a user succeed as long as nothing has failed, no deadline
\* has passed and nobody else opens a session of the user or logs out: the row in
\* the table is the session the page goes by (SelectRow, SelectUser, Insert).
THEOREM RefusalsHaveReasons == Spec => []RefusedForAReason
<1>1. Init => ReasonInv
  <2> SUFFICES ASSUME Init PROVE ReasonInv
    OBVIOUS
  <2>1. NewLocals.kind = "none" /\ NewLocals.outcome = "none" /\ NewLocals.session = NoSession
    BY DEF NewLocals
  <2>2. \A c \in Clicks : pc[c] = "new" /\ loc[c] = NewLocals
    BY DEF Init
  <2>3. \A t \in Tabs : /\ store[t].challenge = NoSession
                        /\ store[t].secret \in {First, NoSession}
                        /\ store[t].secret = First => row = First
    BY SessionNames DEF Init, Cleared, Sessions
  <2>4. RowKept
    <3> SUFFICES ASSUME NEW s \in Sessions, GoneBy(s) PROVE row = s
      BY DEF RowKept
    <3>1. s # NoSession
      BY Names
    <3>2. \A c \in Clicks : loc[c].kind = "none"
      BY <2>1, <2>2
    <3>3. PICK t \in Tabs : s \in {store[t].challenge, store[t].secret}
      BY <3>2 DEF GoneBy
    <3> QED BY <2>3, <3>1, <3>3
  <2> QED BY <2>1, <2>2, <2>4
          DEF ReasonInv, NoneMet, NoSessionYet, HasToken, RefusedForAReason
<1>2. SessionInv /\ ReasonInv /\ [Next]_vars => ReasonInv'
  BY RowKeptStep, NoneMetStep, NoSessionYetStep, HasTokenStep, RefusedStep DEF ReasonInv
<1>3. ReasonInv => RefusedForAReason
  BY DEF ReasonInv
<1> QED BY <1>1, <1>2, <1>3, SessionInvariant, PTL DEF Spec
=============================================================================
