--------------------------- MODULE BrowserSession ---------------------------
(***************************************************************************)
(* A tab of the browser, its login and its workspace                       *)
(* (web/static/js/app.js, api/client.js and components/user-manager.js):   *)
(* tokens that grow old and are refreshed before a request, logins and     *)
(* logouts, the bootstrap of a workspace with its retries, the handlers of *)
(* AUTH_EXPIRED and WORKSPACE_EXPIRED, and the views.  Every function that *)
(* awaits is a call; the server answers a request at some moment, and the  *)
(* code after the await runs at a later one.  Workspaces are the server's  *)
(* (module WorkspaceState), reduced to owner and life.                     *)
(***************************************************************************)
EXTENDS Naturals, Sequences

CONSTANTS
    Username,
    MaxWorkspaces,  \* bound: the workspaces the server creates for the tab
    MaxCalls,       \* bound: calls under way when one more begins
    MaxBegun,       \* bound: what the user, or a timer, begins in all
    MaxFaults       \* bound: tokens that age, sessions and workspaces that
                    \* expire, requests that fail

ASSUME SessionAssumption ==
    MaxWorkspaces \in Nat \ {0} /\ MaxCalls \in Nat \ {0} /\ MaxBegun \in Nat
    /\ MaxFaults \in Nat

Nobody == "nobody"
ASSUME NobodyAssumption == Nobody \notin Username /\ "none" \notin Username
NoId == 0
WorkspaceId == 1..MaxWorkspaces
View == {"task-recorder", "data-editor", "task-manager", "user-manager",
         "cloud-device-manager", "recording-exception-manager"}

VARIABLES
    token,          \* localStorage auth_token: whose it is
    old,            \* tokenExpiresSoon, or it has expired already
    cookie,         \* the refresh cookie: whose it is
    manager,        \* userManager.token
    form,           \* the login form is displayed, as last rendered
    handled,        \* authExpiryHandled, reset by a timer
    workspace_id,   \* sessionStorage
    applied,        \* the workspace of lastBootstrapState
    owner,          \* the server: of each workspace, "none" before it exists
    alive,          \* the server: the workspaces that have not expired
    currentView, suspended, shown,
    calls, begun, faults,
    crossed         \* history: a login, a logout, an expiry or a replacement
                    \* under another call

authVars == <<token, old, cookie, manager, form, handled>>
serverVars == <<owner, alive>>
viewVars == <<currentView, suspended, shown>>
tabVars == <<authVars, workspace_id, applied, serverVars, viewVars, calls, begun, faults, crossed>>

Call(kind, step, view) ==
    [kind |-> kind, step |-> step, answer |-> "awaited",
     user |-> token,            \* whose token it carries
     ws |-> workspace_id,       \* the workspace it names
     view |-> view]             \* the view that a login goes back to

TabInit ==
    /\ token \in Username \cup {Nobody}
    /\ old \in BOOLEAN /\ (token = Nobody => ~old)
    /\ cookie \in {token, Nobody}
    /\ manager = Nobody /\ form = TRUE /\ handled = FALSE
    /\ workspace_id = NoId /\ applied = NoId
    /\ owner = [w \in WorkspaceId |-> "none"] /\ alive = {}
    /\ currentView = "task-recorder" /\ suspended = "none"
    /\ shown = {}
    /\ calls = <<Call("start", IF token = Nobody THEN "loaded" ELSE "boot", "none")>>
    /\ begun = 0 /\ faults = 0 /\ crossed = FALSE

-----------------------------------------------------------------------------
(* The views: what each show function hides, by the isVisible flags.       *)

Panels == {"user-manager", "task-manager", "recording-exception-manager"}

\* Mutant: the list of exceptions, which was added last, is forgotten.
HidesOld(view) ==
    (Panels \cup {"task-recorder", "cloud-device-manager"})
        \ {view, "recording-exception-manager"}

\* leaveTaskRecorderIfNeeded hides the recorder; a view of the control panel
\* leaves the flag of the data editor, in a row that is not displayed; the
\* recorder and the editor do not hide the device manager.
Hides(view) ==
    CASE view = "task-recorder" -> Panels \cup {"data-editor"}
      [] view = "data-editor" -> Panels \cup {"task-recorder"}
      [] OTHER -> (Panels \cup {"task-recorder", "cloud-device-manager"}) \ {view}

Row == {"task-recorder", "data-editor"}     \* main-content-row
Visible == {v \in shown : v \in Row => currentView \in Row}

Page == [token |-> token, old |-> old, cookie |-> cookie, manager |-> manager,
         form |-> form, handled |-> handled, workspace_id |-> workspace_id,
         applied |-> applied, currentView |-> currentView, suspended |-> suspended,
         shown |-> shown]
SetPage(p) ==
    /\ token' = p.token /\ old' = p.old /\ cookie' = p.cookie
    /\ manager' = p.manager /\ form' = p.form /\ handled' = p.handled
    /\ workspace_id' = p.workspace_id /\ applied' = p.applied
    /\ currentView' = p.currentView /\ suspended' = p.suspended
    /\ shown' = p.shown

Show(p, view) ==
    [p EXCEPT !.currentView = view, !.shown = (@ \ Hides(view)) \cup {view}]

-----------------------------------------------------------------------------
(* A call begins.                                                          *)

Begin(kind, step, view) ==
    /\ Len(calls) < MaxCalls /\ begun < MaxBegun
    /\ begun' = begun + 1
    /\ calls' = Append(calls, Call(kind, step, view))

\* prepareRequestOptions, ensureFreshToken: a token that expires soon is
\* exchanged first.
FirstStep == IF token # Nobody /\ old THEN "refresh" ELSE "send"

started == \A i \in DOMAIN calls : calls[i].kind # "start"

\* Any request of a component that needs the workspace, the report of activity
\* among them.
request ==
    /\ started /\ token # Nobody
    /\ Begin("work", FirstStep, "none")
    /\ UNCHANGED <<authVars, workspace_id, applied, serverVars, viewVars, faults, crossed>>

resolvePostLoginView ==
    IF suspended # "none" THEN suspended
    ELSE IF currentView # "user-manager" THEN currentView
    ELSE "task-recorder"

login(user) ==
    /\ started /\ form /\ "user-manager" \in Visible
    /\ Len(calls) < MaxCalls /\ begun < MaxBegun
    /\ begun' = begun + 1
    /\ calls' = Append(calls, [Call("login", "login", resolvePostLoginView)
                                    EXCEPT !.user = user])
    /\ UNCHANGED <<authVars, workspace_id, applied, serverVars, viewVars, faults, crossed>>

logout ==
    /\ started /\ ~form /\ "user-manager" \in Visible
    /\ Begin("logout", "logout", "none")
    /\ UNCHANGED <<authVars, workspace_id, applied, serverVars, viewVars, faults, crossed>>

\* A recording is ended if the user confirms (leaveTaskRecorderIfNeeded).
navigate(view) ==
    /\ started /\ view # currentView
    /\ begun < MaxBegun /\ begun' = begun + 1
    /\ SetPage(Show(Page, view))
    /\ UNCHANGED <<serverVars, calls, faults, crossed>>

-----------------------------------------------------------------------------
(* Time passes, and the server answers.                                    *)

Fault == faults < MaxFaults /\ faults' = faults + 1

TokenAges ==
    /\ Fault
    /\ token # Nobody /\ ~old /\ old' = TRUE
    /\ UNCHANGED <<token, cookie, manager, form, handled, workspace_id, applied,
                   serverVars, viewVars, calls, begun, crossed>>

CookieExpires ==
    /\ Fault
    /\ cookie # Nobody /\ cookie' = Nobody
    /\ UNCHANGED <<token, old, manager, form, handled, workspace_id, applied,
                   serverVars, viewVars, calls, begun, crossed>>

WorkspaceExpires(w) ==
    /\ Fault
    /\ w \in alive /\ alive' = alive \ {w}
    /\ UNCHANGED <<authVars, workspace_id, applied, owner, viewVars, calls,
                   begun, crossed>>

\* The timer that handleAuthExpired sets, a second later.
HandledOver ==
    /\ handled /\ handled' = FALSE
    /\ UNCHANGED <<token, old, cookie, manager, form, workspace_id, applied, serverVars,
                   viewVars, calls, begun, faults, crossed>>

New == {w \in WorkspaceId : owner[w] = "none"}
Accepts(c) == c.ws \in alive /\ owner[c.ws] = c.user
Boots == {"boot", "retry", "anew"}

\* The answers to a request, and the workspace that an answer to a bootstrap
\* names; a bootstrap creates one if it names none.
ServeRequest(i) ==
    LET c == calls[i] IN
    /\ c.answer = "awaited" /\ UNCHANGED faults
    /\ \/ /\ c.step \in Boots /\ c.ws = NoId /\ New # {}
          /\ LET w == CHOOSE w \in New : \A x \in New : w <= x IN
             /\ owner' = [owner EXCEPT ![w] = c.user]
             /\ alive' = alive \cup {w}
             /\ calls' = [calls EXCEPT ![i].answer = "ok", ![i].ws = w]
       \/ /\ c.step \in Boots /\ c.ws # NoId
          /\ calls' = [calls EXCEPT ![i].answer =
                            IF Accepts(c) THEN "ok" ELSE "expired"]
          /\ UNCHANGED serverVars
       \/ /\ c.step = "boot" /\ c.user = token /\ old     \* it has expired
          /\ calls' = [calls EXCEPT ![i].answer = "auth"]
          /\ UNCHANGED serverVars
       \/ /\ c.step = "send"
          /\ calls' = [calls EXCEPT ![i].answer =
                            IF c.user = Nobody THEN "failed"
                            ELSE IF Accepts(c) THEN "ok" ELSE "expired"]
          /\ UNCHANGED serverVars
       \/ /\ c.step \in {"refresh", "renew"}
          /\ calls' = [calls EXCEPT
                ![i].answer = IF cookie = Nobody THEN "auth" ELSE "ok",
                ![i].user = IF cookie = Nobody THEN c.user ELSE cookie]
          /\ UNCHANGED serverVars
       \/ /\ c.step \in {"login", "me", "loaded"}
          /\ calls' = [calls EXCEPT ![i].answer = "ok"]
          /\ UNCHANGED serverVars
       \/ /\ c.step = "logout"        \* releases the workspace of the user
          /\ calls' = [calls EXCEPT ![i].answer = "ok"]
          /\ alive' = IF Accepts(c) THEN alive \ {c.ws} ELSE alive
          /\ UNCHANGED owner
    /\ UNCHANGED <<authVars, workspace_id, applied, viewVars, begun, crossed>>

RequestFails(i) ==
    /\ calls[i].answer = "awaited" /\ calls[i].step # "loaded" /\ Fault
    /\ calls' = [calls EXCEPT ![i].answer = "failed"]
    /\ UNCHANGED <<authVars, workspace_id, applied, serverVars, viewVars, begun, crossed>>

Serve(i) == ServeRequest(i) \/ RequestFails(i)

-----------------------------------------------------------------------------
(* The code after an await: the page p, what the call still asks (nothing, *)
(* or itself with another step), and the calls it has begun.               *)

\* Mutant: the handlers of expiries leave what the page shows.
resetNothing(p) == p

resetWorkspaceScopedState(p) == [p EXCEPT !.applied = NoId]

\* window.app.handleAuthExpired finds no user manager before the components
\* have been made.
Components == \A i \in DOMAIN calls :
    calls[i].kind = "start" => calls[i].step \notin Boots \cup {"renew"}

showLogin(p) == Show([p EXCEPT !.manager = Nobody, !.form = TRUE], "user-manager")

suspend(p) == IF p.currentView = "user-manager" THEN p.suspended ELSE p.currentView

handleAuthExpired(p) ==
    LET cleared == resetWorkspaceScopedState(
            [p EXCEPT !.handled = TRUE, !.token = Nobody, !.old = FALSE,
                      !.suspended = suspend(p)])
    IN IF p.handled THEN p
       ELSE IF Components THEN showLogin(cleared) ELSE cleared

setToken(p, user) == [p EXCEPT !.token = user, !.old = FALSE, !.cookie = user]

\* The finally of UserManager.logout; the answer clears the cookie.
loggedOut(p, answered) ==
    showLogin(resetWorkspaceScopedState(
        [p EXCEPT !.suspended = "none", !.token = Nobody, !.old = FALSE,
                  !.workspace_id = NoId,
                  !.cookie = IF answered THEN Nobody ELSE @]))

navigateAfterLogin(p, view) ==
    Show([p EXCEPT !.suspended = "none", !.form = p.manager = Nobody], view)

From(c, p, step) ==
    [c EXCEPT !.step = step, !.answer = "awaited", !.user = p.token,
              !.ws = p.workspace_id]

Resume(i, p, continued, spawned) ==
    /\ SetPage(p)
    /\ calls' = SubSeq(calls, 1, i - 1) \o continued
                   \o SubSeq(calls, i + 1, Len(calls)) \o spawned
    /\ crossed' = (crossed \/ (Len(calls) > 1 /\
                        <<token, workspace_id, applied>>' # <<token, workspace_id, applied>>))
    /\ UNCHANGED <<serverVars, begun, faults>>

Answered(i, steps) == calls[i].answer # "awaited" /\ calls[i].step \in steps

\* loadCurrentUser, in the constructor and in login(): an error of any kind
\* logs out.
askMe(c, p) == <<From(c, p, IF p.old THEN "refresh" ELSE "me")>>
meFailed(i, p) ==
    Resume(i, p, <<[From(calls[i], p, "logout") EXCEPT !.user = p.manager]>>, <<>>)

AnswerRefresh(i) ==
    LET c == calls[i]
        p == setToken(Page, c.user)
        q == IF c.answer = "auth" THEN handleAuthExpired(Page) ELSE Page
    IN /\ Answered(i, {"refresh"})
       /\ \/ /\ c.answer = "ok"
             /\ Resume(i, p, <<From(c, p, IF c.kind \in {"login", "me"}
                                          THEN "me" ELSE "send")>>, <<>>)
          \/ /\ c.answer # "ok" /\ c.kind \in {"login", "me"}
             /\ meFailed(i, q)
          \/ /\ c.answer # "ok" /\ c.kind \notin {"login", "me"}
             /\ Resume(i, q, <<>>, <<>>)

handleWorkspaceExpired(i) ==
    LET p == resetWorkspaceScopedState(Page)
    IN Resume(i, p, <<>>, <<From(Call("boot", "boot", "none"), p, "boot")>>)

\* The end of initApp: the recorder, or the login.
initialized(p) ==
    IF p.token = Nobody THEN Show(p, "user-manager") ELSE Show(p, "task-recorder")

AnswerRequest(i) ==
    LET c == calls[i]
    IN /\ Answered(i, {"send"})
       /\ \/ c.answer = "ok" /\ c.kind = "start" /\ Resume(i, initialized(Page), <<>>, <<>>)
          \/ c.answer = "ok" /\ c.kind = "work" /\ Resume(i, Page, <<>>, <<>>)
          \/ c.answer = "expired" /\ handleWorkspaceExpired(i)
          \/ c.answer = "failed" /\ Resume(i, Page, <<>>, <<>>)

\* initApp after the bootstrap: the user manager loads its user, the data
\* editor its recordings, which needs no request when nobody is logged in.
makeComponents(i, p) ==
    LET c == calls[i]
        q == [p EXCEPT !.manager = p.token, !.form = p.token = Nobody]
    IN IF p.token = Nobody
       THEN Resume(i, initialized(q), <<>>, <<>>)
       ELSE Resume(i, q, <<From(c, q, IF q.old THEN "refresh" ELSE "send")>>,
                   askMe(Call("me", "me", "none"), q))

bootstrapped(i, p) ==
    LET c == calls[i]
    IN CASE c.kind = "start" -> makeComponents(i, p)
         [] c.kind = "login" -> Resume(i, p, askMe(c, p), <<>>)
         [] c.kind = "boot" -> Resume(i, p, <<>>, <<>>)

bootstrapFailed(i, p, suspends) ==
    IF calls[i].kind = "start" /\ suspends THEN makeComponents(i, p)
    ELSE Resume(i, p, <<>>, <<>>)

\* Mutant: any error gives the stored workspace up.
GivesUp_any(c) == c.ws # NoId /\ c.answer \in {"expired", "failed"}

GivesUp(c) == c.ws # NoId /\ c.answer = "expired"

AnswerBootstrap(i) ==
    LET c == calls[i]
    IN /\ Answered(i, Boots)
       /\ \/ /\ c.answer = "ok"
             /\ bootstrapped(i, [Page EXCEPT !.workspace_id = c.ws, !.applied = c.ws])
          \/ /\ GivesUp(c)
             /\ Resume(i, [Page EXCEPT !.workspace_id = NoId],
                       <<[c EXCEPT !.step = "anew", !.answer = "awaited",
                                   !.ws = NoId]>>, <<>>)
          \/ /\ c.answer = "auth"
             /\ Resume(i, Page, <<[c EXCEPT !.step = "renew", !.answer = "awaited"]>>, <<>>)
          \/ c.answer = "failed" /\ bootstrapFailed(i, Page, FALSE)

AnswerRenew(i) ==
    LET c == calls[i]
    IN /\ Answered(i, {"renew"})
       /\ IF c.answer = "ok"
          THEN Resume(i, setToken(Page, c.user),
                      <<[c EXCEPT !.step = "retry", !.answer = "awaited"]>>, <<>>)
          ELSE bootstrapFailed(i, handleAuthExpired(Page), c.answer = "auth")

AnswerLogin(i) ==
    LET c == calls[i]
        p == setToken([resetWorkspaceScopedState(Page) EXCEPT !.manager = c.user], c.user)
    IN /\ Answered(i, {"login"})
       /\ IF c.answer = "ok"
          THEN Resume(i, p, <<From(c, p, "boot")>>, <<>>)
          ELSE Resume(i, Page, <<>>, <<>>)

loadCurrentUser(i) ==
    LET c == calls[i]
    IN /\ Answered(i, {"me"})
       /\ \/ /\ c.answer = "ok" /\ c.kind = "login"
             /\ Resume(i, navigateAfterLogin(Page, c.view), <<>>, <<>>)
          \/ c.answer = "ok" /\ c.kind = "me" /\ Resume(i, Page, <<>>, <<>>)
          \/ c.answer = "failed" /\ meFailed(i, Page)

\* login() goes on after a logout() within it.
AnswerLogout(i) ==
    LET c == calls[i]
        p == loggedOut(Page, c.answer = "ok")
    IN /\ Answered(i, {"logout"})
       /\ Resume(i, IF c.kind = "login" THEN navigateAfterLogin(p, c.view) ELSE p,
                 <<>>, <<>>)

Loaded(i) ==
    /\ Answered(i, {"loaded"})
    /\ makeComponents(i, Page)

Answer(i) ==
    \/ AnswerRefresh(i) \/ AnswerRequest(i) \/ AnswerBootstrap(i)
    \/ AnswerRenew(i) \/ AnswerLogin(i) \/ loadCurrentUser(i)
    \/ AnswerLogout(i) \/ Loaded(i)

UserActs ==
    \/ request \/ logout \/ \E user \in Username : login(user)
    \/ \E view \in View : navigate(view)

\* Bound: the user does nothing more once two sessions have crossed.
TabNext ==
    \/ ~crossed /\ UserActs
    \/ TokenAges \/ CookieExpires \/ \E w \in WorkspaceId : WorkspaceExpires(w)
    \/ HandledOver
    \/ \E i \in DOMAIN calls : Serve(i) \/ Answer(i)

TabSpec == TabInit /\ [][TabNext]_tabVars

-----------------------------------------------------------------------------
(* Properties.                                                             *)

TabTypeOK ==
    /\ token \in Username \cup {Nobody} /\ cookie \in Username \cup {Nobody}
    /\ manager \in Username \cup {Nobody} /\ {old, form, handled} \subseteq BOOLEAN
    /\ {workspace_id, applied} \subseteq WorkspaceId \cup {NoId}
    /\ owner \in [WorkspaceId -> Username \cup {Nobody, "none"}] /\ alive \subseteq WorkspaceId
    /\ currentView \in View /\ shown \subseteq View
    /\ suspended \in (View \ {"user-manager"}) \cup {"none"}
    /\ crossed \in BOOLEAN /\ begun \in 0..MaxBegun /\ faults \in 0..MaxFaults
    /\ \A i \in DOMAIN calls : calls[i].ws \in WorkspaceId \cup {NoId}

\* When nothing is under way and no session has changed under a call, what the
\* page shows is the workspace that its requests name, and the user's own: a
\* login as another user never keeps the recording of the one before.
Quiet == calls = <<>> /\ ~crossed
OwnWorkspace ==
    (Quiet /\ applied # NoId) =>
        /\ applied = workspace_id
        /\ owner[applied] = token

\* No view stays displayed beside another, except the device manager beside the
\* recorder and the editor.
OthersHidden ==
    Visible \ {currentView} \subseteq
        IF currentView \in Row THEN {"cloud-device-manager"} ELSE {}

\* The tab gives up the name of a live workspace of its user, which holds the
\* lease on a recording until it expires, only when that user goes: a failing
\* bootstrap or an expiry that another request has found never makes it do so.
KeepsLiveWorkspace ==
    [][(/\ workspace_id \in alive /\ owner[workspace_id] = token
        /\ token' = token /\ ~crossed')
       => workspace_id' = workspace_id]_tabVars

=============================================================================
