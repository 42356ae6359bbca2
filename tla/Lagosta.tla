------------------------------- MODULE Lagosta -------------------------------
(***************************************************************************)
(* The web interface bundled with Krill: who is logged in, which page is   *)
(* shown, and which CA's details are on it, while requests to the server   *)
(* are answered late, refused, or in another order than they were sent.    *)
(*                                                                         *)
(* JavaScript runs one callback at a time, so an action is one callback:   *)
(* what the user does, or the handler of one answer with everything it     *)
(* calls up to its next request. A request is a member of calls from the   *)
(* moment it is sent until its answer is handled. Equal requests in        *)
(* flight are one member: their answers have the same effect.              *)
(***************************************************************************)
EXTENDS Naturals, FiniteSets

CONSTANTS
    Handle,     \* the CAs there may be
    Token,      \* the tokens the server may issue
    None,       \* no token, no CA
    Links,      \* bound: the pages the user goes to
    Typed,      \* what the user typed, sent as token of a login request
    Urls,       \* where logins and logouts are completed: internal, external
    MaxCalls    \* bound: requests in flight

ASSUME LagostaAssumption ==
    /\ {None, Typed} \cap (Token \cup Handle) = {}
    /\ Urls \subseteq {"internal", "external"} /\ Urls # {}
    /\ Links \subseteq {"login", "testbed", "interstitial", "onboarding"} \cup Handle
    /\ MaxCalls \in Nat

VARIABLES
    stored,     \* the token in localStorage under krill_user, or None
    header,     \* the token apiClient sends with every request
    user,       \* the top bar shows a user, and with them a logout button
    page,       \* the current route
    form,       \* of the Login page there is: where it returns to, and whether it asks for a login
    shown,      \* of the CADetails page there is: the CA it has details of
    lastCA,     \* lagostaLastCA in localStorage
    calls,      \* the requests in flight
    out,        \* history: there was a logout, and no login succeeded since
    racing      \* history: the details shown were requested beside those of another CA

session == <<stored, header, user, out>>
view == <<page, form, shown, lastCA, racing>>
vars == <<session, view, calls>>

-----------------------------------------------------------------------------
(* Routes. "blank" is the page before the route in the address bar (back)  *)
(* is shown, "away" a page of a provider outside the application.          *)

Path == {"login", "testbed", "interstitial", "onboarding"} \cup Handle
PublicPages == {"login", "testbed"}

\* Of the query of the login page: is there an error, and the returnUrl.
Route == [path : Path \cup {"blank", "away"}, error : BOOLEAN, back : Path]

\* The route for "/" is a redirect to the interstitial page, and the default of returnUrl is "/".
At(path) == [path |-> path, error |-> FALSE, back |-> "interstitial"]
BlankAt(path) == [path |-> "blank", error |-> FALSE, back |-> path]
LoginAt(error, back) == [path |-> "login", error |-> error, back |-> back]

NoForm == [back |-> "interstitial", asks |-> FALSE]

Call ==
    [kind : {"authorized"}, to : Route, front : BOOLEAN, pending : BOOLEAN]
        \cup [kind : {"login_url"}, back : Path]
        \cup [kind : {"login"}, back : Path, here : BOOLEAN]
        \cup [kind : {"logout", "cas"}]
        \cup [kind : {"ca"}, handle : Handle, here : BOOLEAN]

\* Every navigation takes the place of the one that is waiting for its guard.
Superseded(cs) ==
    {IF c.kind = "authorized" THEN [c EXCEPT !.pending = FALSE] ELSE c : c \in cs}

\* A page that is left is destroyed: answers no longer reach what it shows.
Destroyed(kind, cs) ==
    {IF c.kind = kind THEN [c EXCEPT !.here = FALSE] ELSE c : c \in cs}

\* The requests in flight once page `to` is shown in the place of the current page.
Left(to, cs) ==
    LET login == IF to.path = "login" THEN cs ELSE Destroyed("login", cs)
    IN  Superseded(IF to.path \in Handle THEN login ELSE Destroyed("ca", login))

\* Mutant of GetContent: the details of the previous CA are not reset.
GetContentKeepsDetails(to, cs) ==
    /\ lastCA' = to.path
    /\ shown' = IF page.path \in Handle THEN shown ELSE None
    /\ racing' = \E c \in cs : c.kind = "ca" /\ c.here
    /\ calls' = cs \cup {[kind |-> "ca", handle |-> to.path, here |-> TRUE]}

\* CADetails is created, or updated by another handle: getContent.
GetContent(to, cs) ==
    /\ lastCA' = to.path
    /\ shown' = None
    /\ racing' = \E c \in cs : c.kind = "ca" /\ c.here
    /\ calls' = cs \cup {[kind |-> "ca", handle |-> to.path, here |-> TRUE]}

\* Login is created, not when only its query changes: without an error it has the top bar load the user.
LoginCreated(to) ==
    /\ form' = [back |-> to.back, asks |-> ~to.error]
    /\ user' = IF to.error THEN user ELSE stored' # None

\* Page `to` is shown. A handler sets stored' before.
Arrive(to, cs) ==
    /\ page' = to
    /\ IF to.path = "login" /\ page.path # "login"
       THEN LoginCreated(to)
       ELSE form' = (IF to.path = "login" THEN form ELSE NoForm) /\ UNCHANGED user
    /\ IF to.path \in Handle
       THEN GetContent(to, Left(to, cs))
       ELSE /\ calls' = Left(to, cs) \cup (IF to.path = "interstitial" THEN {[kind |-> "cas"]} ELSE {})
            /\ shown' = None /\ racing' = FALSE
            /\ UNCHANGED lastCA

\* router.beforeEach up to its request: what is stored is read now, and used when the answer comes.
BeforeEach(to, cs) ==
    calls' = Superseded(cs)
        \cup {[kind |-> "authorized", to |-> to, front |-> stored' # None, pending |-> TRUE]}

\* A navigation to the current route only takes the place of the waiting one.
Guarded(to, cs) == IF to = page THEN calls' = Superseded(cs) ELSE BeforeEach(to, cs)

\* router.push.
Push(to, cs) ==
    IF to.path \in PublicPages /\ to # page
    THEN Arrive(to, cs)
    ELSE Guarded(to, cs) /\ UNCHANGED <<user, view>>

\* The browser leaves the application; nothing of it goes on.
Leave ==
    /\ page' = At("away")
    /\ calls' = {}
    /\ form' = NoForm /\ shown' = None /\ racing' = FALSE
    /\ UNCHANGED <<user, lastCA>>

-----------------------------------------------------------------------------
(* What the user does.                                                     *)

Init ==
    /\ stored = None /\ header = None /\ user = FALSE /\ out = FALSE
    /\ page = BlankAt("interstitial") /\ shown = None /\ lastCA = None /\ racing = FALSE
    /\ form = NoForm
    /\ calls = {[kind |-> "authorized", to |-> At("interstitial"), front |-> FALSE, pending |-> TRUE]}

Room == Cardinality(calls) < MaxCalls

\* A link, the history of the browser, or a CA chosen from the list (switchCA).
Navigate(path) ==
    /\ Room /\ page.path \notin {"blank", "away"}
    /\ UNCHANGED <<stored, header, out>>
    /\ Push(At(path), calls)

\* login of Login.vue and of APIService.
Login ==
    /\ Room /\ page.path = "login" /\ form.asks
    /\ stored' = None
    /\ header' = Typed
    /\ calls' = calls \cup {[kind |-> "login", back |-> form.back, here |-> TRUE]}
    /\ UNCHANGED <<user, out, view>>

\* logout of App.vue and of APIService: by the button, or, except on the login page, when the user is idle.
Logout ==
    /\ Room /\ page.path # "away"
    /\ user \/ page.path # "login"
    /\ stored' = None
    /\ out' = TRUE
    /\ calls' = calls \cup {[kind |-> "logout"]}
    /\ UNCHANGED <<header, user, view>>

\* The application starts anew at a route: what was in memory is gone, and App and apiClient load what is stored.
Load(to) ==
    /\ user' = (stored # None)
    /\ header' = stored
    /\ IF to.path \in PublicPages
       THEN page' = to /\ calls' = {}
       ELSE /\ page' = BlankAt(to.path)
            /\ calls' = {[kind |-> "authorized", to |-> to, front |-> stored # None, pending |-> TRUE]}
    /\ form' = IF to.path = "login" THEN [back |-> to.back, asks |-> ~to.error] ELSE NoForm
    /\ shown' = None /\ racing' = FALSE
    /\ UNCHANGED <<stored, lastCA, out>>

\* The user reloads a page, or comes back from a login provider without a login.
Reload == Load(IF page.path \in {"blank", "away"} THEN At(page.back) ELSE page)

\* A login provider sends the user back to the login page with a token: recordLogin and postLogin.
RecordLogin(t) ==
    /\ page.path = "away"
    /\ stored' = t /\ header' = t /\ user' = TRUE /\ out' = FALSE
    /\ page' = At("login")
    /\ form' = [back |-> "interstitial", asks |-> TRUE]
    /\ calls' = {[kind |-> "authorized", to |-> At("interstitial"), front |-> TRUE, pending |-> TRUE]}
    /\ shown' = None /\ racing' = FALSE
    /\ UNCHANGED <<lastCA>>

-----------------------------------------------------------------------------
(* Answers. ok: the answer has a 2xx status; otherwise it is an error, or  *)
(* the request failed on the way. new: the token the server put into the   *)
(* answer because the current one is about to expire, or None. cas: the    *)
(* CAs there are, without "ta"; CAs come and go between two answers.       *)

\* Mutant of Intercept: without the check for a logout.
InterceptStoresAlways(ok, new) ==
    IF ok /\ new # None
    THEN header' = new /\ stored' = new
    ELSE UNCHANGED <<header, stored>>

\* The response interceptor of apiClient.
Intercept(ok, new) ==
    IF ok /\ new # None
    THEN /\ header' = new
         /\ stored' = IF stored # None THEN new ELSE None
    ELSE UNCHANGED <<header, stored>>

\* Mutant of Authorized: what is stored is not asked for.
AuthorizedBackendOnly(c, ok, new) ==
    LET rest == calls \ {c}
    IN  /\ c.kind = "authorized"
        /\ IF ok
           THEN /\ Intercept(ok, new)
                /\ IF c.pending
                   THEN Arrive(c.to, rest)
                   ELSE calls' = rest /\ UNCHANGED <<user, view>>
           ELSE /\ stored' = None
                /\ calls' = rest \cup {[kind |-> "login_url", back |-> c.to.path]}
                /\ UNCHANGED <<header, user, view>>
        /\ UNCHANGED out

\* router.beforeEach with the answer of isAuthorized. A redirect to a login page is made whichever navigation is waiting.
Authorized(c, ok, new) ==
    LET rest == calls \ {c}
    IN  /\ c.kind = "authorized"
        /\ IF c.front /\ ok
           THEN /\ Intercept(ok, new)
                /\ IF c.pending
                   THEN Arrive(c.to, rest)
                   ELSE calls' = rest /\ UNCHANGED <<user, view>>
           ELSE /\ stored' = None
                /\ header' = IF ok /\ new # None THEN new ELSE header
                /\ calls' = rest \cup {[kind |-> "login_url", back |-> c.to.path]}
                /\ UNCHANGED <<user, view>>
        /\ UNCHANGED out

\* router.beforeEach with the answer of getLoginURL.
LoginUrl(c, ok, url) ==
    /\ c.kind = "login_url"
    /\ UNCHANGED <<stored, header, out>>
    /\ IF ok /\ url = "external"
       THEN Leave
       ELSE Push(LoginAt(~ok, c.back), calls \ {c})

\* Mutant of LoggedIn: the token of the answer is stored, but not sent.
LoggedInKeepsHeader(c, ok, t) ==
    /\ c.kind = "login"
    /\ IF ok
       THEN /\ stored' = t /\ out' = FALSE
            /\ Guarded(At(c.back), calls \ {c})
            /\ user' = (user \/ c.here)
            /\ UNCHANGED <<header, view>>
       ELSE /\ stored' = None
            /\ calls' = calls \ {c}
            /\ UNCHANGED <<header, user, out, view>>

\* login of APIService and postLogin of Login.vue. The top bar hears only of a page that is still there.
LoggedIn(c, ok, t) ==
    /\ c.kind = "login"
    /\ IF ok
       THEN /\ stored' = t /\ header' = t /\ out' = FALSE
            /\ Guarded(At(c.back), calls \ {c})
            /\ user' = (user \/ c.here)
            /\ UNCHANGED view
       ELSE /\ stored' = None
            /\ calls' = calls \ {c}
            /\ UNCHANGED <<header, user, out, view>>

\* logout of App.vue. The login page with an error leaves the top bar as it is.
LoggedOut(c, ok, url, new) ==
    /\ c.kind = "logout"
    /\ header' = IF ok /\ new # None THEN new ELSE header
    /\ stored' = IF ok THEN None ELSE stored
    /\ UNCHANGED out
    /\ IF ~ok
       THEN Push(LoginAt(TRUE, "interstitial"), calls \ {c})
       ELSE IF url = "external"
       THEN Leave
       ELSE Push(At("interstitial"), calls \ {c})

\* loadCAs of Interstitial.vue: to the CA of the last visit, else to the first of the list, else to onboarding.
\* It goes there also when the page was left meanwhile.
ListedCAs(c, ok, cas, new) ==
    /\ c.kind = "cas"
    /\ Intercept(ok, new)
    /\ UNCHANGED out
    /\ \E to \in IF ~ok \/ cas = {} THEN {"onboarding"} ELSE IF lastCA # None THEN {lastCA} ELSE cas :
           Push(At(to), calls \ {c})

\* The handler of getCA in getContent of CADetails.vue: the details, or away from this page and not back to it.
ShowCA(c, ok, new) ==
    /\ c.kind = "ca"
    /\ Intercept(ok, new)
    /\ IF ok
       THEN /\ shown' = IF c.here THEN c.handle ELSE shown
            /\ calls' = calls \ {c}
            /\ UNCHANGED <<user, page, form, lastCA, racing>>
       ELSE /\ lastCA' = None
            /\ Guarded(At("interstitial"), calls \ {c})
            /\ UNCHANGED <<user, page, form, shown, racing>>
    /\ UNCHANGED out

-----------------------------------------------------------------------------
Answers(c) ==
    \/ \E ok \in BOOLEAN, new \in Token \cup {None} :
           Authorized(c, ok, new) \/ ShowCA(c, ok, new)
    \/ \E ok \in BOOLEAN, cas \in SUBSET Handle, new \in Token \cup {None} : ListedCAs(c, ok, cas, new)
    \/ \E ok \in BOOLEAN, url \in Urls : LoginUrl(c, ok, url)
    \/ \E ok \in BOOLEAN, t \in Token : LoggedIn(c, ok, t)
    \/ \E ok \in BOOLEAN, url \in Urls, new \in Token \cup {None} : LoggedOut(c, ok, url, new)

Answer(kind) == \E c \in {d \in calls : d.kind = kind} : Answers(c)

Next ==
    \/ \E path \in Links : Navigate(path)
    \/ Login \/ Logout \/ Reload
    \/ \E t \in Token : RecordLogin(t)
    \/ \E c \in calls : Answers(c)

Spec == Init /\ [][Next]_vars

\* A request that was sent is answered, or fails, at some time: the browser sees to it.
\* Nothing is assumed of the user or of the order of the answers.
Fairness ==
    /\ WF_vars(Answer("authorized"))
    /\ WF_vars(Answer("login_url"))
    /\ WF_vars(Answer("login"))
    /\ WF_vars(Answer("logout"))
    /\ WF_vars(Answer("cas"))
    /\ WF_vars(Answer("ca"))

FairSpec == Spec /\ Fairness

-----------------------------------------------------------------------------
TypeOK ==
    /\ stored \in Token \cup {None}
    /\ header \in Token \cup {None, Typed}
    /\ user \in BOOLEAN /\ out \in BOOLEAN /\ racing \in BOOLEAN
    /\ page \in Route
    /\ form \in [back : Path, asks : BOOLEAN]
    /\ shown \in Handle \cup {None} /\ lastCA \in Handle \cup {None}
    /\ calls \subseteq Call

\* After a logout, by the user or for idleness, only a login brings a stored token back, whichever answers with a
\* new token come after it: the comment in the interceptor of apiClient ("If this somehow crosses over with a logout").
LogoutSticks == out => stored = None

\* While a user is stored, the token sent is the token stored, through logins, new tokens, late answers and reloads:
\* a reload of the page, which loads what is stored, changes nothing for the user.
HeaderIsStored == stored # None => header = stored

\* The details on the page of a CA are this CA's, unless they were requested while those of another were awaited.
ShownIsSelected == page.path \in Handle /\ shown # None /\ ~racing => shown = page.path

\* A logout takes the user from the pages with data, unless there is a login: to a public page, to the provider, or, when
\* the user reloads a page meanwhile, to a blank one. The exception is an empty interstitial page: a navigation from there
\* waited for its guard, and the logout stopped it by going to the page already shown, which leads nowhere.
Ended ==
    \/ page.path \in PublicPages \cup {"away", "blank"}
    \/ page.path = "interstitial" /\ calls = {}
LogoutEnds == out ~> (~out \/ Ended)

=============================================================================
