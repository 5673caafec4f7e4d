--------------------------- MODULE ConsoleSession ---------------------------
(***************************************************************************)
(* Signing in to the console: App.tsx and LoginView (session-shell.tsx) in *)
(* the tabs of a browser, which share its cookie, and handleSession,       *)
(* handleLogin, handleLogout and requireAuth of internal/consoleapi/api.go *)
(* with internal/consoleauth/auth.go.  The cookie is the token of the      *)
(* password it was given for; a restart may change the password or leave   *)
(* it unset.  A tab shows one page of the console.  Every page asks when   *)
(* it is mounted; the polling ones ask again every five seconds, whatever  *)
(* is out, and take the answer of their newest load only                   *)
(* (use-dashboard-stats.ts:38-69, use-usage-stats.ts).  A page may be left *)
(* while its call is out, and the answer still counts.  What pages show is *)
(* not kept here: of the answers to them only a 401 has an effect, and one *)
(* that is lost is one that stays out.                                     *)
(***************************************************************************)
EXTENDS Integers, FiniteSets

CONSTANTS
  Tab,
  None,
  Password,                     \* the passwords the server may run with
  Page,
  Polling,                      \* the pages that ask every five seconds
  MaxOps, MaxFailures, MaxRestarts \* bounds

VARIABLES
  password,   \* the server's, None while it is not set
  cookie,     \* the browser's: the password it is the token of, or None
  tabs,       \* per tab: session, error, logoutPending, submitting, page
  calls,      \* the calls whose answer counts: a set of records
  ops, failures, restarts

vars == <<password, cookie, tabs, calls, ops, failures, restarts>>

Unknown   == [enabled |-> FALSE, authenticated |-> FALSE, known |-> FALSE]
Session(enabled, authenticated) ==
  [enabled |-> enabled, authenticated |-> authenticated, known |-> TRUE]

(* left counts the pages that were mounted since the call was sent. *)
Call(tab, kind, with) ==
  [tab |-> tab, kind |-> kind, with |-> with, left |-> 0, at |-> "sent", says |-> Unknown]

Fresh(p) ==
  [session |-> Unknown, error |-> FALSE, logoutPending |-> FALSE, submitting |-> FALSE,
   page |-> p]

Init ==
  /\ password \in Password \cup {None}
  /\ cookie \in Password \cup {None}
  /\ tabs \in [Tab -> {Fresh(p) : p \in Page}]
  /\ calls = {Call(t, "session", cookie) : t \in Tab}
  /\ ops = 0 /\ failures = 0 /\ restarts = 0

(* What a tab shows. *)
Known(t) == ~tabs[t].error /\ tabs[t].session.known
InConsole(t) == Known(t) /\ tabs[t].session.enabled /\ tabs[t].session.authenticated
AtLogin(t) == Known(t) /\ tabs[t].session.enabled /\ ~tabs[t].session.authenticated

Out(t, kind) == {c \in calls : c.tab = t /\ c.kind = kind}
OfMount(t)   == {c \in Out(t, "page") : c.left = 0}

Send(t, kind, with) ==
  /\ calls' = calls \cup {Call(t, kind, with)}
  /\ UNCHANGED <<password, cookie, failures, restarts>>

(* The calls when a page of the tab is mounted, and asks. *)
Mounted(t, out, with) ==
  {IF c.tab = t /\ c.kind = "page" THEN [c EXCEPT !.left = @ + 1] ELSE c : c \in out}
    \cup {Call(t, "page", with)}

(***************************************************************************)
(* The user and the page.  A call carries the cookie of the moment.        *)
(***************************************************************************)
HandleLogin(t, typed) ==
  /\ AtLogin(t) /\ ~tabs[t].submitting
  /\ ops < MaxOps /\ ops' = ops + 1
  /\ tabs' = [tabs EXCEPT ![t].submitting = TRUE]
  /\ Out(t, "login") = {} /\ Send(t, "login", typed)

HandleLogout(t) ==
  /\ InConsole(t) /\ ~tabs[t].logoutPending
  /\ ops < MaxOps /\ ops' = ops + 1
  /\ tabs' = [tabs EXCEPT ![t].logoutPending = TRUE]
  /\ Send(t, "logout", None)

(* The address names the page, also after a reload.  The page is mounted anew *)
(* and asks.                                                                  *)
Navigate(t, p) ==
  /\ InConsole(t) /\ tabs[t].page # p
  /\ ops < MaxOps /\ ops' = ops + 1
  /\ tabs' = [tabs EXCEPT ![t].page = p]
  /\ calls' = Mounted(t, calls, cookie)
  /\ UNCHANGED <<password, cookie, failures, restarts>>

(* The timer does not wait for the call that is out: the load it begins is    *)
(* the newest, and what comes of the one before is dropped, a 401 too.        *)
Poll(t) ==
  /\ InConsole(t) /\ tabs[t].page \in Polling
  /\ calls' = (calls \ OfMount(t)) \cup {Call(t, "page", cookie)}
  /\ UNCHANGED <<password, cookie, tabs, ops, failures, restarts>>

Reload(t) ==
  /\ ops < MaxOps /\ ops' = ops + 1
  /\ tabs' = [tabs EXCEPT ![t] = Fresh(tabs[t].page)]
  /\ calls' = {c \in calls : c.tab # t} \cup {Call(t, "session", cookie)}
  /\ UNCHANGED <<password, cookie, failures, restarts>>

(***************************************************************************)
(* The server.                                                             *)
(***************************************************************************)
Restart ==
  /\ restarts < MaxRestarts /\ restarts' = restarts + 1
  /\ \E p \in Password \cup {None} : p # password /\ password' = p
  /\ UNCHANGED <<cookie, tabs, calls, ops, failures>>

Authenticated(with) == password # None /\ with = password

(* Of what was sent only the password of a login matters once it is served:  *)
(* it becomes the cookie.                                                    *)
Kept(c, how) == IF how = "ok" /\ c.kind = "login" THEN c.with ELSE None

Replaced(c, how, says) ==
  calls' = (calls \ {c}) \cup {[c EXCEPT !.at = how, !.says = says, !.with = Kept(c, how)]}

Serve(c) ==
  /\ c.at = "sent"
  /\ CASE c.kind = "session" -> Replaced(c, "ok", Session(password # None, Authenticated(c.with)))
       [] c.kind = "login" ->
            IF password = None \/ c.with # password THEN Replaced(c, "error", Unknown)
            ELSE Replaced(c, "ok", Unknown)
       [] c.kind = "logout" -> Replaced(c, "ok", Unknown)
       [] c.kind = "page" ->
            Replaced(c, IF password = None \/ Authenticated(c.with) THEN "ok" ELSE "unauthorized", Unknown)
  /\ UNCHANGED <<password, cookie, tabs, ops, failures, restarts>>

(* A call of the shell that is lost, or answered with an error. *)
Fail(c) ==
  /\ c.at = "sent" /\ c.kind # "page" /\ failures < MaxFailures /\ failures' = failures + 1
  /\ Replaced(c, "error", Unknown)
  /\ UNCHANGED <<password, cookie, tabs, ops, restarts>>

(***************************************************************************)
(* Answers.  The browser takes the cookie of an answer before the page     *)
(* sees it.  One that opens the console mounts the tab's page, which asks. *)
(***************************************************************************)
StillSignedIn(s) == s
SignedOut(s)     == Session(IF s.known THEN s.enabled ELSE TRUE, FALSE)

ErrorAfter(c) == c.at # "ok"

Opens(c) ==
  /\ c.at = "ok"
  /\ c.kind = "login" \/ (c.kind = "session" /\ c.says.enabled /\ c.says.authenticated)

SessionAnswered(c) ==
  /\ c.kind = "session" /\ UNCHANGED cookie
  /\ tabs' = [tabs EXCEPT ![c.tab].session = IF c.at = "ok" THEN c.says ELSE @,
                          ![c.tab].error = ErrorAfter(c)]

LoginAnswered(c) ==
  /\ c.kind = "login"
  /\ cookie' = IF c.at = "ok" THEN c.with ELSE cookie
  /\ tabs' = [tabs EXCEPT ![c.tab].session = IF c.at = "ok" THEN Session(TRUE, TRUE) ELSE @,
                          ![c.tab].submitting = FALSE]

LogoutAnswered(c) ==
  /\ c.kind = "logout"
  /\ cookie' = IF c.at = "ok" THEN None ELSE cookie
  /\ tabs' = [tabs EXCEPT ![c.tab].session = IF c.at = "ok" THEN SignedOut(@) ELSE @,
                          ![c.tab].logoutPending = FALSE]

(* Also when the page that asked was left meanwhile, or the console: a page   *)
(* numbers its own loads only.                                                *)
PageAnswered(c) ==
  /\ c.kind = "page" /\ UNCHANGED cookie
  /\ tabs' = [tabs EXCEPT ![c.tab].session = IF c.at = "unauthorized" THEN SignedOut(@) ELSE @]

Answered(c) ==
  /\ c.at # "sent"
  /\ SessionAnswered(c) \/ LoginAnswered(c) \/ LogoutAnswered(c) \/ PageAnswered(c)
  /\ calls' = IF Opens(c) THEN Mounted(c.tab, calls \ {c}, cookie') ELSE calls \ {c}
  /\ UNCHANGED <<password, ops, failures, restarts>>

Next ==
  \/ Restart
  \/ \E t \in Tab : HandleLogout(t) \/ Poll(t) \/ Reload(t)
                    \/ (\E p \in Page : Navigate(t, p)) \/ \E p \in Password : HandleLogin(t, p)
  \/ \E c \in calls : Serve(c) \/ Fail(c) \/ Answered(c)

(* The polling pages ask every five seconds; the calls of the shell are      *)
(* answered or fail.  Nothing bounds how long a page's call takes.           *)
ShellAnswered(t) ==
  \E c \in calls : c.tab = t /\ c.kind # "page" /\ (Serve(c) \/ Fail(c) \/ Answered(c))

Fairness == \A t \in Tab : WF_vars(Poll(t)) /\ WF_vars(ShellAnswered(t))

Spec == Init /\ [][Next]_vars /\ Fairness

(***************************************************************************)
(* Properties.                                                             *)
(***************************************************************************)
(* A tab has one call of a kind out, and one of each mount of its pages; a   *)
(* button that is held back has its call out, so that it comes back whatever *)
(* the answer.                                                               *)
TypeOK ==
  /\ password \in Password \cup {None} /\ cookie \in Password \cup {None}
  /\ \A c, d \in calls : c.tab = d.tab /\ c.kind = d.kind /\ c.left = d.left => c = d
  /\ \A t \in Tab : /\ tabs[t].logoutPending => Out(t, "logout") # {}
                    /\ tabs[t].submitting => Out(t, "login") # {}

(* The tab stands at a polling page with a cookie the server refuses. *)
Stale(t) ==
  InConsole(t) /\ tabs[t].page \in Polling /\ password # None /\ cookie # password

(* An answer to the newest load of the page that is mounted is taken. *)
LatestAnswered(t) == \E c \in OfMount(t) : Answered(c)

(* A tab left at a polling page with a cookie the server no longer takes     *)
(* comes to the login, unless the password is unset or a login makes it      *)
(* valid, provided that of the loads the timer goes on to begin an answer    *)
(* comes, time and again, while its load is still the newest.  The code does *)
(* not see to that: where every answer takes longer than the five seconds    *)
(* to the next load none is ever taken, and the tab shows the console for as *)
(* long as it is left there (use-dashboard-stats.ts:39, :44, :64-69).        *)
StaleSessionEnds ==
  \A t \in Tab :
    ([]<>(OfMount(t) # {}) => []<><<LatestAnswered(t)>>_vars) => (Stale(t) ~> ~Stale(t))

(* The first page never waits for ever: it becomes the console, the login,   *)
(* the notice that the console is off, or the error.                         *)
LoadingEnds == \A t \in Tab : ~tabs[t].session.known ~> tabs[t].session.known \/ tabs[t].error
=============================================================================
