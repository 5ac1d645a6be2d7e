------------------------------ MODULE Sessions ------------------------------
(***************************************************************************)
(* Who is signed in: IdentityService (signup, login, refresh, logout,      *)
(* forgotPassword, resetPassword), the browser's refresh-and-retry (api,   *)
(* AuthContext) and the gateway between them.  A call of the browser is a  *)
(* slot; its handler goes on when the browser or the gateway has given it  *)
(* up.  One step per access to the database, one per answer.               *)
(*                                                                         *)
(* A password is the number of resets before it, a cookie the session      *)
(* whose token it holds.  Access tokens are not revocable: one that has    *)
(* not expired is accepted, and whether it has is a choice of the guard.   *)
(* Rows of logins and mails are left out: nothing reads them.              *)
(***************************************************************************)
EXTENDS Gateway, Integers, FiniteSets

CONSTANTS
    User,
    Students,     \* those who sign up as students
    Browser,
    BrowserOf,    \* the browser of each call
    Asks,         \* what pages ask for in each call (bound)
    Session,      \* refresh sessions (bound; none left, nobody signs in)
    ResetToken,   \* password reset tokens (bound)
    MaxResets,    \* password resets (bound)
    MaxFaults,    \* answers lost, handlers failed and tokens expired (bound)
    Failing,      \* the calls these faults befall (bound)
    None

ASSUME BrowsersAssumption == BrowserOf \in [Call -> Browser]
ASSUME UsersAssumption == Students \subseteq User
ASSUME BoundsAssumption == MaxResets \in Nat /\ MaxFaults \in Nat /\ Failing \subseteq Call
ASSUME NoneAssumption == None \notin Session /\ None \notin User /\ None \notin ResetToken

VARIABLES
    account, profile,  \* whether a user has signed up, and has a profile row
    pw,                \* the password of each user
    sess,              \* the state of each session
    grant,             \* what each session was issued on
    token, tokenUser,  \* the reset tokens and whose they are
    cookie,            \* refresh_token of each browser
    access,            \* the user of the access token in sessionStorage
    op, phase,         \* what the page asked for, and which fetch of api() runs
    sent,              \* what the request carries
    pc,                \* the next step of its handler
    seen,              \* the password the handler loaded or wrote
    fresh,             \* the session it created
    reply,             \* its answer
    cleared,           \* history: the last password whose reset revoked the sessions
    overtaken,         \* history: a reset revoked the user's sessions meanwhile
    beaten,            \* history: another refresh revoked the session it had found
    faults,            \* faults so far
    disturbed          \* history: an answer was lost, or the session ended, in a browser

users    == <<account, profile, pw>>
sessions == <<sess, grant>>
tokens   == <<token, tokenUser>>
browser  == <<cookie, access>>
page     == <<op, phase>>
handler  == <<pc, sent, seen, fresh, reply>>
history  == <<cleared, overtaken, beaten, disturbed>>
vars == <<gateway, users, sessions, tokens, browser, page, handler, faults, history>>

Password == 0..MaxResets
RefreshSteps == {"findSession", "revoke"}
SignupSteps  == {"findEmail", "createUser", "createProfile"}
ResetSteps   == {"findReset", "writePassword", "markUsed", "revokeAll"}
Steps == {"done", "answer", "createSession", "findUser", "revokeOwn", "createReset"}
             \cup RefreshSteps \cup SignupSteps \cup ResetSteps

Ops     == {"page", "me", "load", "login", "signup", "logout", "forgot", "reset"}
Phases  == {"idle", "first", "refresh", "retry"}
Replies == {"none", "ok", "unauthorized", "error"}

Carried == [user : User \cup {None}, password : Password,
            session : Session \cup {None}, token : ResetToken \cup {None}]
Empty == [user |-> None, password |-> 0, session |-> None, token |-> None]

\* from: the session it was exchanged for; late, beaten: of the request that issued it.
Grant == [owner : User \cup {None}, password : Password, from : Session \cup {None},
          late : BOOLEAN, beaten : BOOLEAN]
NoGrant == [owner |-> None, password |-> 0, from |-> None, late |-> FALSE, beaten |-> FALSE]

TypeOK ==
    /\ GatewayTypeOK
    /\ account \in [User -> BOOLEAN] /\ profile \in [User -> BOOLEAN]
    /\ pw \in [User -> Password]
    /\ sess \in [Session -> {"unborn", "live", "ended"}]
    /\ grant \in [Session -> Grant]
    /\ token \in [ResetToken -> {"unsent", "sent", "spent"}]
    /\ tokenUser \in [ResetToken -> User \cup {None}]
    /\ cookie \in [Browser -> Session \cup {None}]
    /\ access \in [Browser -> User \cup {None}]
    /\ op \in [Call -> Ops] /\ phase \in [Call -> Phases] /\ sent \in [Call -> Carried]
    /\ pc \in [Call -> Steps]
    /\ seen \in [Call -> Password]
    /\ fresh \in [Call -> Session \cup {None}]
    /\ reply \in [Call -> Replies]
    /\ cleared \in [User -> Password]
    /\ overtaken \in [Call -> BOOLEAN] /\ beaten \in [Call -> BOOLEAN]
    /\ faults \in 0..MaxFaults
    /\ disturbed \in [Browser -> BOOLEAN]

Init ==
    /\ GatewayInit
    /\ account = [u \in User |-> FALSE]
    /\ profile = [u \in User |-> FALSE]
    /\ pw = [u \in User |-> 0]
    /\ sess = [s \in Session |-> "unborn"]
    /\ grant = [s \in Session |-> NoGrant]
    /\ token = [t \in ResetToken |-> "unsent"]
    /\ tokenUser = [t \in ResetToken |-> None]
    /\ cookie = [b \in Browser |-> None]
    /\ access = [b \in Browser |-> None]
    /\ op = [c \in Call |-> "page"]
    /\ phase = [c \in Call |-> "idle"]
    /\ sent = [c \in Call |-> Empty]
    /\ pc = [c \in Call |-> "done"]
    /\ seen = [c \in Call |-> 0]
    /\ fresh = [c \in Call |-> None]
    /\ reply = [c \in Call |-> "none"]
    /\ cleared = [u \in User |-> 0]
    /\ overtaken = [c \in Call |-> FALSE]
    /\ beaten = [c \in Call |-> FALSE]
    /\ faults = 0
    /\ disturbed = [b \in Browser |-> FALSE]

----------------------------------------------------------------------------
(* The steps of a handler *)

MayFail == faults < MaxFaults /\ faults' = faults + 1

Fault(c) == c \in Failing /\ MayFail

Goto(c, next) == pc' = [pc EXCEPT ![c] = next]

\* The handler of c goes on; nothing is answered yet.
Advance(c, next) ==
    Goto(c, next) /\ UNCHANGED <<gateway, browser, page, sent, seen, fresh, reply, faults, disturbed>>

\* The handler of c has its answer.
Answer(c, answer) ==
    /\ Goto(c, "answer")
    /\ reply' = [reply EXCEPT ![c] = answer]
    /\ UNCHANGED <<gateway, browser, page, sent, seen, fresh, faults, disturbed>>

Races == UNCHANGED <<cleared, overtaken, beaten>>
Reads == UNCHANGED <<users, sessions, tokens>> /\ Races

\* refresh: the session of the token, if it lives; its user is never deleted.
FindSession(c) ==
    /\ pc[c] = "findSession"
    /\ IF sent[c].session # None /\ sess[sent[c].session] = "live"
       THEN Advance(c, "revoke")
       ELSE Answer(c, "unauthorized")
    /\ Reads

Refreshes(c, s) == sent[c].session = s /\ pc[c] = "revoke"

\* Mutant: the session found is not revoked.
RevokeForgotten(c) ==
    /\ pc[c] = "revoke"
    /\ Advance(c, "createSession")
    /\ UNCHANGED <<users, sessions, tokens, cleared, overtaken, beaten>>

\* refresh: revokedAt is saved in the session found, revoked meanwhile or not.
Revoke(c) ==
    /\ pc[c] = "revoke"
    /\ sess' = [sess EXCEPT ![sent[c].session] = "ended"]
    /\ beaten' = [d \in Call |->
                    beaten[d] \/ (d # c /\ Refreshes(d, sent[c].session))]
    /\ Advance(c, "createSession")
    /\ UNCHANGED <<users, grant, tokens, cleared, overtaken>>

\* login: the user of the email, and the password typed.
FindUser(c) ==
    /\ pc[c] = "findUser"
    /\ LET u == sent[c].user IN
       IF account[u] /\ sent[c].password = pw[u]
       THEN /\ Goto(c, "createSession")
            /\ seen' = [seen EXCEPT ![c] = pw[u]]
            /\ UNCHANGED <<gateway, browser, page, sent, fresh, reply, faults, disturbed>>
       ELSE Answer(c, "unauthorized")
    /\ Reads

\* signup: an email that is registered is refused.
FindEmail(c) ==
    /\ pc[c] = "findEmail"
    /\ IF account[sent[c].user] THEN Answer(c, "error") ELSE Advance(c, "createUser")
    /\ Reads

\* signup: users.create, which the unique email may still refuse.
CreateUser(c) ==
    /\ pc[c] = "createUser"
    /\ LET u == sent[c].user IN
       IF account[u]
       THEN Answer(c, "error") /\ UNCHANGED users
       ELSE /\ account' = [account EXCEPT ![u] = TRUE]
            /\ Advance(c, IF u \in Students THEN "createProfile" ELSE "createSession")
            /\ UNCHANGED <<profile, pw>>
    /\ UNCHANGED <<sessions, tokens>> /\ Races

CreateProfile(c) ==
    /\ pc[c] = "createProfile"
    /\ profile' = [profile EXCEPT ![sent[c].user] = TRUE]
    /\ Advance(c, "createSession")
    /\ UNCHANGED <<account, pw, sessions, tokens>> /\ Races

\* A request that issues a session and names no user is a refresh.
IsRefresh(c) == sent[c].user = None

\* What the session of request c is issued on.
GrantOf(c) ==
    LET s == sent[c].session IN
    IF IsRefresh(c)
    THEN [owner |-> grant[s].owner, password |-> grant[s].password, from |-> s,
          late |-> overtaken[c] \/ grant[s].late, beaten |-> beaten[c]]
    ELSE [owner |-> sent[c].user, password |-> seen[c], from |-> None,
          late |-> overtaken[c], beaten |-> FALSE]

\* What only the session needed to know.
Settled(c) ==
    /\ seen' = [seen EXCEPT ![c] = 0]
    /\ overtaken' = [overtaken EXCEPT ![c] = FALSE]
    /\ beaten' = [beaten EXCEPT ![c] = FALSE]

Unborn == {s \in Session : sess[s] = "unborn"}

\* issueAuth: a new session; its token goes into the answer's cookie.
CreateSession(c) ==
    /\ pc[c] = "createSession" /\ Unborn # {}
    /\ LET s == CHOOSE s \in Unborn : TRUE IN
        /\ sess' = [sess EXCEPT ![s] = "live"]
        /\ grant' = [grant EXCEPT ![s] = GrantOf(c)]
        /\ fresh' = [fresh EXCEPT ![c] = s]
    /\ Goto(c, "answer")
    /\ reply' = [reply EXCEPT ![c] = "ok"]
    /\ Settled(c)
    /\ UNCHANGED <<gateway, users, tokens, browser, page, sent, faults, cleared, disturbed>>

\* logout: the session of the cookie, if there is one.
RevokeOwn(c) ==
    /\ pc[c] = "revokeOwn"
    /\ LET s == sent[c].session IN
       sess' = IF s = None THEN sess ELSE [sess EXCEPT ![s] = "ended"]
    /\ Answer(c, "ok")
    /\ UNCHANGED <<users, grant, tokens>> /\ Races

\* forgotPassword: a token for an account that exists; the answer is the same.
CreateReset(c) ==
    /\ pc[c] = "createReset"
    /\ LET u == sent[c].user IN
       IF account[u]
       THEN \E t \in ResetToken :
                /\ token[t] = "unsent"
                /\ token' = [token EXCEPT ![t] = "sent"]
                /\ tokenUser' = [tokenUser EXCEPT ![t] = u]
       ELSE UNCHANGED tokens
    /\ Answer(c, "ok")
    /\ UNCHANGED <<users, sessions>> /\ Races

FindReset(c) ==
    /\ pc[c] = "findReset"
    /\ IF token[sent[c].token] = "sent"
       THEN Advance(c, "writePassword")
       ELSE Answer(c, "unauthorized")
    /\ Reads

ResetUser(c) == tokenUser[sent[c].token]

\* resetPassword: the new password, whatever became of the token meanwhile.
WritePassword(c) ==
    /\ pc[c] = "writePassword"
    /\ pw[ResetUser(c)] < MaxResets
    /\ pw' = [pw EXCEPT ![ResetUser(c)] = @ + 1]
    /\ seen' = [seen EXCEPT ![c] = pw[ResetUser(c)] + 1]
    /\ Goto(c, "markUsed")
    /\ UNCHANGED <<gateway, account, profile, sessions, tokens, browser, page,
                   sent, fresh, reply, faults, history>>

MarkUsed(c) ==
    /\ pc[c] = "markUsed"
    /\ token' = [token EXCEPT ![sent[c].token] = "spent"]
    /\ Advance(c, "revokeAll")
    /\ UNCHANGED <<users, sessions, tokenUser>> /\ Races

\* The requests that have found user u, or a session of it, and will issue another.
ActsFor(c, u) ==
    /\ pc[c] \in {"revoke", "createUser", "createProfile", "createSession"}
    /\ u = IF IsRefresh(c) THEN grant[sent[c].session].owner ELSE sent[c].user

\* Mutant: the browser that resets the password stays signed in.
RevokeAllKeepsOne(c) ==
    /\ pc[c] = "revokeAll"
    /\ LET u == ResetUser(c) IN
        /\ sess' = [s \in Session |->
                      IF grant[s].owner = u /\ sess[s] = "live" /\ s # cookie[BrowserOf[c]]
                      THEN "ended" ELSE sess[s]]
        /\ overtaken' = [d \in Call |-> overtaken[d] \/ ActsFor(d, u)]
        /\ cleared' = [cleared EXCEPT ![u] = IF @ < seen[c] THEN seen[c] ELSE @]
    /\ disturbed' = [b \in Browser |-> TRUE]
    /\ seen' = [seen EXCEPT ![c] = 0]
    /\ Goto(c, "answer")
    /\ reply' = [reply EXCEPT ![c] = "ok"]
    /\ UNCHANGED <<gateway, users, grant, tokens, browser, page, sent, fresh, faults, beaten>>

\* resetPassword: every session of the user that exists now is revoked.
RevokeAll(c) ==
    /\ pc[c] = "revokeAll"
    /\ LET u == ResetUser(c) IN
        /\ sess' = [s \in Session |->
                      IF grant[s].owner = u /\ sess[s] = "live" THEN "ended" ELSE sess[s]]
        /\ overtaken' = [d \in Call |-> overtaken[d] \/ ActsFor(d, u)]
        /\ cleared' = [cleared EXCEPT ![u] = IF @ < seen[c] THEN seen[c] ELSE @]
    /\ disturbed' = [b \in Browser |-> TRUE]
    /\ seen' = [seen EXCEPT ![c] = 0]
    /\ Goto(c, "answer")
    /\ reply' = [reply EXCEPT ![c] = "ok"]
    /\ UNCHANGED <<gateway, users, grant, tokens, browser, page, sent, fresh, faults, beaten>>

Disturb(c) == disturbed' = [disturbed EXCEPT ![BrowserOf[c]] = TRUE]

\* The bounds of the model: a row more than they allow fails like any insert.
OutOfBounds(c) ==
    \/ pc[c] = "createSession" /\ Unborn = {}
    \/ pc[c] = "createReset" /\ \A t \in ResetToken : token[t] # "unsent"
    \/ pc[c] = "writePassword" /\ pw[ResetUser(c)] = MaxResets

\* The handler throws, at a step or after it: 500.
Throw(c) ==
    /\ \/ pc[c] \notin {"done", "answer"}
       \/ pc[c] = "answer" /\ reply[c] = "ok" /\ upstream[c] = "waiting"
    /\ Goto(c, "answer")
    /\ reply' = [reply EXCEPT ![c] = "error"]
    /\ Fault(c) \/ (OutOfBounds(c) /\ UNCHANGED faults)
    /\ Disturb(c)
    /\ fresh' = [fresh EXCEPT ![c] = None]
    /\ Settled(c)
    /\ UNCHANGED <<gateway, users, sessions, tokens, browser, page, sent, cleared>>

\* What the handler of c had in memory is gone.
Forget(c) ==
    /\ Goto(c, "done")
    /\ sent' = [sent EXCEPT ![c] = Empty]
    /\ fresh' = [fresh EXCEPT ![c] = None]
    /\ reply' = [reply EXCEPT ![c] = "none"]
    /\ Settled(c)
    /\ UNCHANGED cleared

\* The service dies, or cannot be reached; a body under way is lost.
Die(c) ==
    /\ pc[c] # "done"
    /\ Forget(c)
    /\ Fault(c) /\ Disturb(c)
    /\ \/ Unavailable(c)
       \/ pc[c] = "answer" /\ (BodyLost(c) \/ BodyReset(c))
       \/ upstream[c] \in {"none", "destroyed"} /\ UNCHANGED gateway
    /\ UNCHANGED <<users, sessions, tokens, browser, page>>

\* Nobody waits for the answer any more.
Discard(c) ==
    /\ pc[c] = "answer" /\ conn[c] # "open"
    /\ Relay(c) \/ (upstream[c] = "none" /\ UNCHANGED gateway)
    /\ Forget(c)
    /\ Disturb(c)
    /\ UNCHANGED <<users, sessions, tokens, browser, page, faults>>

\* The life of a token ends; expired rows are deleted.
ExpireSession(s) ==
    /\ sess[s] = "live" /\ MayFail
    /\ sess' = [sess EXCEPT ![s] = "ended"]
    /\ disturbed' = [b \in Browser |-> TRUE]
    /\ UNCHANGED <<gateway, users, grant, tokens, browser, page, handler>> /\ Races

ExpireToken(t) ==
    /\ token[t] = "sent" /\ MayFail
    /\ token' = [token EXCEPT ![t] = "spent"]
    /\ UNCHANGED <<gateway, users, sessions, tokenUser, browser, page, handler, history>>

Handler(c) ==
    \/ FindSession(c) \/ Revoke(c)
    \/ FindUser(c)
    \/ FindEmail(c) \/ CreateUser(c) \/ CreateProfile(c)
    \/ CreateSession(c)
    \/ RevokeOwn(c)
    \/ CreateReset(c)
    \/ FindReset(c) \/ WritePassword(c) \/ MarkUsed(c) \/ RevokeAll(c)
    \/ Throw(c) \/ Die(c) \/ Discard(c)

----------------------------------------------------------------------------
(* The gateway passes the calls on *)

Served == UNCHANGED <<users, sessions, tokens, browser, page, handler, history>>

Network(c) ==
    /\ \/ HangUp(c) /\ UNCHANGED faults
       \/ pc[c] = "answer" /\ TimeOutRelaying(c) /\ Fault(c)
       \/ TimeOut(c) /\ Fault(c)
       \/ LinkFails(c) /\ Fault(c)
       \/ upstream[c] = "none" /\ LinkFails(c) /\ UNCHANGED faults
    /\ Served

----------------------------------------------------------------------------
(* The browser *)

\* fetch: a request leaves, and its handler begins.
Fetch(c, next, carries, first) ==
    /\ phase' = [phase EXCEPT ![c] = next]
    /\ sent' = [sent EXCEPT ![c] = IF up THEN carries ELSE Empty]
    /\ Goto(c, IF up THEN first ELSE "done")
    /\ fresh' = [fresh EXCEPT ![c] = None]
    /\ reply' = [reply EXCEPT ![c] = "none"]
    /\ UNCHANGED <<users, sessions, tokens, seen, faults, cleared, overtaken, beaten>>

\* JwtAuthGuard and a route that only reads (me, or any other of the portal): an
\* access token that has expired is refused.
FetchGuarded(c, next) ==
    /\ phase' = [phase EXCEPT ![c] = next]
    /\ Goto(c, IF up THEN "answer" ELSE "done")
    /\ \E answer \in {"ok", "unauthorized"} :
         reply' = [reply EXCEPT ![c] = IF up THEN answer ELSE "none"]
    /\ sent' = [sent EXCEPT ![c] = Empty]
    /\ fresh' = [fresh EXCEPT ![c] = None]
    /\ UNCHANGED <<users, sessions, tokens, seen, faults, cleared, overtaken, beaten>>

Naming(u) == [Empty EXCEPT !.user = u]
Cookie(c) == [Empty EXCEPT !.session = cookie[BrowserOf[c]]]

\* A page calls api.
Begin(c, o) ==
    /\ o \in Asks[c] /\ (o \in {"login", "signup"} => Unborn # {})
    /\ phase[c] = "idle" /\ pc[c] = "done" /\ upstream[c] = "none"
    /\ op' = [op EXCEPT ![c] = o]
    /\ Dial(c)
    /\ UNCHANGED browser

Ask(c, o, carries, first) == Begin(c, o) /\ Fetch(c, "first", carries, first)

\* What a page asks of the portal.
Send(c) ==
    LET b == BrowserOf[c] IN
    \/ /\ \/ \E o \in {"page", "me"} :
               access[b] # None /\ Begin(c, o) /\ FetchGuarded(c, "first")
          \/ access[b] = None /\ Ask(c, "load", Cookie(c), "findSession")
          \/ \E u \in User :
               \/ \E v \in 0..pw[u] :
                    Ask(c, "login", [Empty EXCEPT !.user = u, !.password = v], "findUser")
               \/ Ask(c, "signup", Naming(u), "findEmail")
               \/ Ask(c, "forgot", Naming(u), "createReset")
          \/ \E t \in ResetToken :
               /\ token[t] # "unsent"
               /\ Ask(c, "reset", [Empty EXCEPT !.token = t], "findReset")
       /\ UNCHANGED disturbed
    \/ Ask(c, "logout", Cookie(c), "revokeOwn") /\ Disturb(c)

\* api: any other call that meets 401 is refreshed and sent again.
WillRefresh(c) ==
    phase[c] = "first" /\ reply[c] = "unauthorized" /\ op[c] \notin {"load", "login"}

\* api: POST refresh, with the cookie of now.
BeginRefresh(c) ==
    /\ pc[c] = "answer" /\ WillRefresh(c) /\ Redial(c)
    /\ Fetch(c, "refresh", [Cookie(c) EXCEPT !.token = sent[c].token], "findSession")
    /\ UNCHANGED <<op, browser, disturbed>>

\* The browser stores the cookie of an answer before the page sees it.
StoreCookie(c) ==
    LET b == BrowserOf[c] IN
    cookie' = IF reply[c] = "ok" /\ fresh[c] # None THEN [cookie EXCEPT ![b] = fresh[c]]
              ELSE IF reply[c] = "ok" /\ op[c] = "logout" THEN [cookie EXCEPT ![b] = None]
              ELSE cookie

\* api: refreshed; the access token is kept and the call sent again.
Retry(c) ==
    /\ pc[c] = "answer" /\ phase[c] = "refresh" /\ reply[c] = "ok" /\ Redial(c)
    /\ LET u == grant[fresh[c]].owner IN
        /\ access' = [access EXCEPT ![BrowserOf[c]] = u]
        /\ IF op[c] = "reset"
           THEN Fetch(c, "retry", [Empty EXCEPT !.token = sent[c].token], "findReset")
           ELSE FetchGuarded(c, "retry")
    /\ StoreCookie(c)
    /\ UNCHANGED <<op, disturbed>>

\* Mutant: the refresh token is kept in place of the access token.
SettleSwapped(c, success) ==
    LET b == BrowserOf[c] IN
    /\ phase' = [phase EXCEPT ![c] = "idle"]
    /\ op' = [op EXCEPT ![c] = "page"]
    /\ access' = IF success /\ fresh[c] # None THEN [access EXCEPT ![b] = fresh[c]] ELSE access
    /\ UNCHANGED <<users, sessions, tokens, faults>>

\* The page's call ends; AuthContext keeps or clears the access token.
Settle(c, success) ==
    LET b == BrowserOf[c] IN
    /\ phase' = [phase EXCEPT ![c] = "idle"]
    /\ op' = [op EXCEPT ![c] = "page"]
    /\ access' = IF success /\ fresh[c] # None
                 THEN [access EXCEPT ![b] = grant[fresh[c]].owner]
                 ELSE IF op[c] = "logout" \/ (~success /\ op[c] \in {"load", "me"})
                 THEN [access EXCEPT ![b] = None]
                 ELSE access
    /\ UNCHANGED <<users, sessions, tokens, faults>>

\* Mutant: an answer 401 to a refresh clears the cookie.
ReceiveClears(c) ==
    /\ pc[c] = "answer" /\ conn[c] = "open" /\ ~WillRefresh(c)
    /\ ~(phase[c] = "refresh" /\ reply[c] = "ok")
    /\ Relay(c) /\ Settle(c, reply[c] = "ok" /\ phase[c] # "refresh")
    /\ cookie' = IF reply[c] = "ok" /\ fresh[c] = None /\ op[c] # "logout" THEN cookie
                 ELSE [cookie EXCEPT ![BrowserOf[c]] = fresh[c]]
    /\ Forget(c)
    /\ UNCHANGED disturbed

\* The answer ends the call, a failed refresh with the 401 it met.
Receive(c) ==
    /\ pc[c] = "answer" /\ conn[c] = "open" /\ ~WillRefresh(c)
    /\ ~(phase[c] = "refresh" /\ reply[c] = "ok")
    /\ Relay(c) /\ Settle(c, reply[c] = "ok" /\ phase[c] # "refresh")
    /\ StoreCookie(c)
    /\ Forget(c)
    /\ UNCHANGED disturbed

\* No answer, or that of the gateway; the handler may still be at work.
Lose(c) ==
    /\ HangOff(c)
    /\ Settle(c, FALSE)
    /\ Disturb(c)
    /\ UNCHANGED <<cookie, handler, cleared, overtaken, beaten>>

Page(c) == Send(c) \/ BeginRefresh(c) \/ Retry(c) \/ Receive(c) \/ Lose(c)

Next ==
    \/ \E c \in Call : Page(c) \/ Network(c) \/ Handler(c)
    \/ \E s \in Session : ExpireSession(s)
    \/ \E t \in ResetToken : ExpireToken(t)
    \/ Restart /\ Served /\ UNCHANGED faults

Spec == Init /\ [][Next]_vars

----------------------------------------------------------------------------

\* A password reset signs the user out everywhere (resetPassword): a session that lives
\* was issued on the password of the last reset that revoked them, or on a later one --
\* unless its request, or one it descends from, was under way when they were revoked.
ResetSignsOut ==
    \A s \in Session : sess[s] = "live" =>
        \/ grant[s].late
        \/ grant[s].password >= cleared[grant[s].owner]

\* Rotation (refresh, which finds the session and revokes it later): a refresh token is
\* exchanged for one session, except by requests that had found it before the first
\* exchange was recorded.
OneHeir ==
    \A r, s \in Session :
        /\ r # s
        /\ grant[r].from # None /\ grant[r].from = grant[s].from
        => grant[r].beaten \/ grant[s].beaten

\* Concurrent refreshes with one cookie (api, of several calls that meet 401 at once) leave
\* the browser a way back in: unless an answer was lost, a handler failed, or the session
\* was ended by logout, reset or age, a browser with an access token or a cookie has the
\* cookie of a living session, or a refresh is under way that will replace it.  The page
\* may lose its access token all the same, and show the sign-in form until it is loaded
\* again (AuthContext.tsx:39-42).
CookieStaysLive ==
    \A b \in Browser :
        \/ disturbed[b]
        \/ cookie[b] = None /\ access[b] = None
        \/ cookie[b] # None /\ sess[cookie[b]] = "live"
        \/ \E c \in Call :
              /\ BrowserOf[c] = b /\ phase[c] # "idle"
              /\ IsRefresh(c) /\ cookie[b] # None /\ sent[c].session = cookie[b]
              /\ pc[c] \in {"createSession", "answer"} /\ reply[c] # "unauthorized"
=============================================================================
