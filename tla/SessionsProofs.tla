--------------------------- MODULE SessionsProofs ---------------------------
(***************************************************************************)
(* Proofs about Sessions, for any users, browsers, calls, sessions and     *)
(* tokens and any number of resets and faults.                             *)
(***************************************************************************)
EXTENDS Sessions, TLAPS

----------------------------------------------------------------------------
(* The gateway *)

GatewayStep(c) ==
    \/ Dial(c) \/ Relay(c) \/ Unavailable(c) \/ TimeOut(c) \/ HangUp(c) \/ TimeOutRelaying(c)
    \/ BodyLost(c) \/ BodyReset(c) \/ HangOff(c) \/ LinkFails(c)

\* What a step of the portal does to the gateway is a step of the gateway.
LEMMA GatewayFrame ==
    ASSUME [Next]_vars
    PROVE  UNCHANGED gateway \/ Restart \/ \E c \in Call : GatewayStep(c)
<1>1. CASE UNCHANGED vars
    BY <1>1 DEF vars
<1>2. ASSUME NEW c \in Call, Handler(c) PROVE UNCHANGED gateway \/ GatewayStep(c)
    <2>1. CASE Die(c) \/ Discard(c) \/ Throw(c)
        BY <2>1 DEF Die, Discard, Throw, GatewayStep
    <2>2. CASE FindSession(c) \/ Revoke(c) \/ FindUser(c) \/ FindEmail(c) \/ CreateUser(c) \/ CreateProfile(c)
        BY <2>2 DEF FindSession, Revoke, FindUser, FindEmail, CreateUser, CreateProfile, Advance, Answer
    <2>3. CASE CreateSession(c) \/ RevokeOwn(c) \/ CreateReset(c) \/ FindReset(c) \/ WritePassword(c)
                 \/ MarkUsed(c) \/ RevokeAll(c)
        BY <2>3 DEF CreateSession, RevokeOwn, CreateReset, FindReset, WritePassword, MarkUsed, RevokeAll,
                    Advance, Answer
    <2> QED
        BY <1>2, <2>1, <2>2, <2>3 DEF Handler
<1>3. ASSUME NEW c \in Call, Network(c) PROVE GatewayStep(c)
    BY <1>3 DEF Network, GatewayStep
<1>4. ASSUME NEW c \in Call, Page(c) PROVE UNCHANGED gateway \/ GatewayStep(c)
    BY <1>4 DEF Page, Send, Ask, Begin, BeginRefresh, Retry, Redial, Receive, Lose, GatewayStep
<1>5. ASSUME NEW s, ExpireSession(s) PROVE UNCHANGED gateway
    BY <1>5 DEF ExpireSession
<1>6. ASSUME NEW t, ExpireToken(t) PROVE UNCHANGED gateway
    BY <1>6 DEF ExpireToken
<1> QED
    BY <1>1, <1>2, <1>3, <1>4, <1>5, <1>6 DEF Next

\* A request is destroyed only where a service was silent, and only the second head written
\* then, or after a reset in the middle of an answer, ends the gateway.
Silent ==
    /\ GatewayTypeOK
    /\ UpUnlessStrained
    /\ \A c \in Call : upstream[c] = "destroyed" => "silence" \in strain

LEMMA InitSilent == Init => Silent
<1> SUFFICES ASSUME GatewayInit PROVE Silent
    BY DEF Init
<1>1. up \in BOOLEAN /\ strain \subseteq {"silence", "reset"} /\ UpUnlessStrained
    BY DEF GatewayInit, UpUnlessStrained
<1>2. upstream \in [Call -> Upstream] /\ conn \in [Call -> Conn]
    BY DEF GatewayInit, Upstream, Conn
<1>3. \A c \in Call : upstream[c] # "destroyed"
    BY DEF GatewayInit
<1> QED
    BY <1>1, <1>2, <1>3 DEF Silent, GatewayTypeOK

LEMMA StepSilent ==
    ASSUME Silent, [Next]_vars
    PROVE  Silent'
<1> USE DEF Silent, GatewayTypeOK, UpUnlessStrained, Upstream, Conn
<1>1. CASE UNCHANGED gateway
    BY <1>1 DEF gateway
<1>2. CASE Restart
    BY <1>2 DEF Restart
<1>3. ASSUME NEW c \in Call, GatewayStep(c) PROVE Silent'
    <2>1. CASE Dial(c)
        BY <2>1 DEF Dial
    <2>2. CASE Relay(c) \/ Unavailable(c) \/ TimeOut(c)
        BY <2>2 DEF Relay, Unavailable, TimeOut, Becomes, Tell
    <2>3. CASE HangUp(c) \/ TimeOutRelaying(c) \/ BodyReset(c)
        BY <2>3 DEF HangUp, TimeOutRelaying, BodyReset, Crash
    <2>4. CASE BodyLost(c) \/ HangOff(c) \/ LinkFails(c)
        BY <2>4 DEF BodyLost, HangOff, LinkFails, Becomes
    <2> QED
        BY <1>3, <2>1, <2>2, <2>3, <2>4 DEF GatewayStep
<1> QED
    BY <1>1, <1>2, <1>3, GatewayFrame

\* Only a service silent for the 60 s of the timeout, or a connection reset in the middle of
\* an answer, takes the gateway down: one that cannot be reached, fails before it has answered
\* or closes its connection early does not (gateway.ts:73-82).
THEOREM DownOnlyIfStrained == Spec => []UpUnlessStrained
<1>1. Silent => UpUnlessStrained
    BY DEF Silent
<1> QED
    BY <1>1, InitSilent, StepSilent, PTL DEF Spec

----------------------------------------------------------------------------
(* Types *)

OfUser == {"findUser", "findEmail", "createUser", "createProfile", "createReset"}
Sendable(c) == sent[c].token \in ResetToken /\ token[sent[c].token] # "unsent"

\* What a request carries is what its steps need of it.
Carries(c) ==
    /\ pc[c] \in OfUser => sent[c].user \in User
    /\ pc[c] \in RefreshSteps => IsRefresh(c)
    /\ pc[c] = "revoke" \/ (pc[c] = "createSession" /\ IsRefresh(c)) => sent[c].session \in Session
    /\ pc[c] \in ResetSteps => Sendable(c)
    /\ op[c] = "reset" /\ pc[c] # "done" => Sendable(c)
    /\ phase[c] = "refresh" /\ pc[c] # "done" =>
         /\ pc[c] \in RefreshSteps \cup {"createSession", "answer"}
         /\ pc[c] = "answer" /\ reply[c] = "ok" => fresh[c] \in Session

\* A token that was sent has a user.
Sent == \A t \in ResetToken : token[t] # "unsent" => tokenUser[t] \in User

Types == TypeOK /\ Sent /\ \A c \in Call : Carries(c)

LEMMA EmptyCarried ==
    /\ Empty \in Carried /\ Empty.user = None /\ Empty.session = None /\ Empty.token = None
    /\ \A u \in User : Naming(u) \in Carried /\ Naming(u).user = u
    /\ \A u \in User, v \in Password : [Empty EXCEPT !.user = u, !.password = v] \in Carried
                                       /\ [Empty EXCEPT !.user = u, !.password = v].user = u
    /\ \A t \in ResetToken : /\ [Empty EXCEPT !.token = t] \in Carried
                             /\ [Empty EXCEPT !.token = t].token = t
                             /\ [Empty EXCEPT !.token = t].user = None
<1>1. 0 \in Password
    BY BoundsAssumption DEF Password
<1> QED
    BY <1>1 DEF Empty, Carried, Naming

LEMMA InitTypes == Init => Types
<1> SUFFICES ASSUME Init PROVE Types
    OBVIOUS
<1>1. 0 \in Password /\ faults \in 0..MaxFaults
    BY BoundsAssumption DEF Password, Init
<1>2. NoGrant \in Grant
    BY <1>1 DEF Grant, NoGrant
<1>3. GatewayTypeOK
    BY InitSilent DEF Silent
<1>4. /\ account \in [User -> BOOLEAN] /\ profile \in [User -> BOOLEAN]
      /\ overtaken \in [Call -> BOOLEAN] /\ beaten \in [Call -> BOOLEAN]
      /\ disturbed \in [Browser -> BOOLEAN]
    BY DEF Init
<1>5. sent \in [Call -> Carried] /\ grant \in [Session -> Grant]
    BY <1>2, EmptyCarried DEF Init
<1>6. /\ pw \in [User -> Password] /\ cleared \in [User -> Password] /\ seen \in [Call -> Password]
    BY <1>1 DEF Init
<1>7. TypeOK
    BY <1>1, <1>3, <1>4, <1>5, <1>6 DEF Init, TypeOK, Ops, Phases, Replies, Steps
<1>8. Sent /\ \A c \in Call : Carries(c)
    BY DEF Init, Sent, Carries, OfUser, RefreshSteps, ResetSteps
<1> QED
    BY <1>7, <1>8 DEF Types

\* A request that a step leaves alone carries what it carried.
LEMMA OthersCarry ==
    ASSUME NEW d \in Call, Carries(d),
           pc'[d] = pc[d], sent'[d] = sent[d], op'[d] = op[d], phase'[d] = phase[d],
           reply'[d] = reply[d], fresh'[d] = fresh[d],
           Sendable(d) => Sendable(d)'
    PROVE  Carries(d)'
BY DEF Carries, IsRefresh

\* What the database and the history keep.
Stored ==
    /\ account \in [User -> BOOLEAN] /\ profile \in [User -> BOOLEAN]
    /\ pw \in [User -> Password]
    /\ sess \in [Session -> {"unborn", "live", "ended"}]
    /\ grant \in [Session -> Grant]
    /\ token \in [ResetToken -> {"unsent", "sent", "spent"}]
    /\ tokenUser \in [ResetToken -> User \cup {None}]
    /\ cleared \in [User -> Password]
    /\ overtaken \in [Call -> BOOLEAN] /\ beaten \in [Call -> BOOLEAN]
    /\ Sent

\* What a token was sent for stays.
TokensStay == \A t \in ResetToken : token[t] # "unsent" => token'[t] # "unsent" /\ tokenUser'[t] = tokenUser[t]

LEMMA AdvanceTypes ==
    ASSUME Types, NEW c \in Call, NEW next \in Steps, Advance(c, next),
           Stored', TokensStay, Carries(c)'
    PROVE  Types'
<1>1. /\ pc' = [pc EXCEPT ![c] = next]
      /\ UNCHANGED <<gateway, cookie, access, op, phase, sent, seen, fresh, reply, faults, disturbed>>
    BY DEF Advance, Goto, browser, page
<1>2. GatewayTypeOK'
    BY <1>1 DEF Types, TypeOK, gateway, GatewayTypeOK
<1>3. TypeOK'
    BY <1>1, <1>2 DEF Types, TypeOK, Stored
<1>4. \A d \in Call : d # c => Carries(d)'
    BY <1>1, OthersCarry DEF Types, TypeOK, Sendable, TokensStay
<1> QED
    BY <1>3, <1>4 DEF Types, Stored

LEMMA AnswerTypes ==
    ASSUME Types, NEW c \in Call, NEW answer \in Replies, Answer(c, answer),
           Stored', TokensStay, pc[c] # "done", answer = "ok" => phase[c] # "refresh"
    PROVE  Types'
<1>1. /\ pc' = [pc EXCEPT ![c] = "answer"] /\ reply' = [reply EXCEPT ![c] = answer]
      /\ UNCHANGED <<gateway, cookie, access, op, phase, sent, seen, fresh, faults, disturbed>>
    BY DEF Answer, Goto, browser, page
<1>2. GatewayTypeOK'
    BY <1>1 DEF Types, TypeOK, gateway, GatewayTypeOK
<1>3. TypeOK'
    BY <1>1, <1>2 DEF Types, TypeOK, Stored, Steps
<1>4. \A d \in Call : d # c => Carries(d)'
    BY <1>1, OthersCarry DEF Types, TypeOK, Sendable, TokensStay
<1>5. Carries(c)'
    <2>1. pc'[c] = "answer" /\ reply'[c] = answer /\ op'[c] = op[c] /\ phase'[c] = phase[c] /\ sent' = sent
        BY <1>1 DEF Types, TypeOK
    <2>2. op[c] = "reset" => Sendable(c)'
        BY <2>1 DEF Types, Carries, Sendable, TokensStay
    <2> QED
        BY <2>1, <2>2 DEF Carries, OfUser, RefreshSteps, ResetSteps
<1> QED
    BY <1>3, <1>4, <1>5 DEF Types, Stored

LEMMA NowStored == Types => Stored
BY DEF Types, TypeOK, Stored

\* The steps that only read, or write one row.
LEMMA RowTypes ==
    ASSUME Types, NEW c \in Call,
           \/ FindSession(c) \/ Revoke(c) \/ FindEmail(c) \/ CreateUser(c) \/ CreateProfile(c)
           \/ RevokeOwn(c) \/ CreateReset(c) \/ FindReset(c) \/ MarkUsed(c)
    PROVE  Types'
<1> USE DEF Types
<1>1. Carries(c)
    OBVIOUS
<1>2. ASSUME UNCHANGED <<users, sessions, tokens>>, Races PROVE Stored' /\ TokensStay
    BY <1>2, NowStored DEF Stored, Sent, users, sessions, tokens, Races, TokensStay
<1>3. ASSUME NEW next \in Steps, Advance(c, next), pc[c] # "done"
      PROVE  /\ pc'[c] = next /\ sent'[c] = sent[c] /\ op'[c] = op[c] /\ phase'[c] = phase[c]
             /\ (TokensStay /\ Sendable(c)) => Sendable(c)'
    BY <1>3 DEF Advance, Goto, page, TypeOK, Sendable, TokensStay
<1>4. CASE FindSession(c)
    <2>1. Stored' /\ TokensStay /\ pc[c] = "findSession"
        BY <1>2, <1>4 DEF FindSession, Reads
    <2>2. CASE Answer(c, "unauthorized")
        BY <2>1, <2>2, AnswerTypes DEF Replies
    <2>3. CASE Advance(c, "revoke") /\ sent[c].session # None
        <3>1. sent[c].session \in Session
            BY <2>3 DEF TypeOK, Carried
        <3>2. Carries(c)'
            BY <1>1, <1>3, <2>1, <2>3, <3>1 DEF Carries, OfUser, RefreshSteps, ResetSteps, Steps, IsRefresh
        <3> QED
            BY <2>1, <2>3, <3>2, AdvanceTypes DEF Steps, RefreshSteps
    <2> QED
        BY <1>4, <2>2, <2>3 DEF FindSession
<1>5. CASE Revoke(c)
    <2>1. /\ pc[c] = "revoke" /\ sent[c].session \in Session
          /\ sess' = [sess EXCEPT ![sent[c].session] = "ended"]
          /\ beaten' = [d \in Call |-> beaten[d] \/ (d # c /\ Refreshes(d, sent[c].session))]
          /\ Advance(c, "createSession")
          /\ UNCHANGED <<users, grant, tokens, cleared, overtaken>>
        BY <1>1, <1>5 DEF Revoke, Carries
    <2>2. beaten' \in [Call -> BOOLEAN]
        BY <2>1 DEF TypeOK
    <2>3. sess' \in [Session -> {"unborn", "live", "ended"}]
        BY <2>1 DEF TypeOK
    <2>4. Stored' /\ TokensStay
        BY <2>1, <2>2, <2>3, NowStored DEF Stored, Sent, users, tokens, TokensStay
    <2>5. /\ pc'[c] = "createSession" /\ sent'[c] = sent[c] /\ op'[c] = op[c] /\ phase'[c] = phase[c]
          /\ Sendable(c) => Sendable(c)'
        BY <1>3, <2>1, <2>4 DEF Steps
    <2>6. Carries(c)'
        BY <1>1, <2>1, <2>5 DEF Carries, OfUser, RefreshSteps, ResetSteps, IsRefresh
    <2> QED
        BY <2>1, <2>4, <2>6, AdvanceTypes DEF Steps
<1>6. CASE FindEmail(c)
    <2>1. Stored' /\ TokensStay /\ pc[c] = "findEmail"
        BY <1>2, <1>6 DEF FindEmail, Reads
    <2>2. CASE Answer(c, "error")
        BY <2>1, <2>2, AnswerTypes DEF Replies
    <2>3. CASE Advance(c, "createUser")
        <3>1. Carries(c)'
            BY <1>1, <1>3, <2>1, <2>3 DEF Carries, OfUser, RefreshSteps, ResetSteps, Steps, SignupSteps
        <3> QED
            BY <2>1, <2>3, <3>1, AdvanceTypes DEF Steps, SignupSteps
    <2> QED
        BY <1>6, <2>2, <2>3 DEF FindEmail
<1>7. CASE CreateUser(c)
    <2>1. pc[c] = "createUser" /\ UNCHANGED <<sessions, tokens>> /\ Races
        BY <1>7 DEF CreateUser
    <2>2. CASE Answer(c, "error") /\ UNCHANGED users
        BY <1>2, <2>1, <2>2, AnswerTypes DEF Replies
    <2>3. ASSUME account' = [account EXCEPT ![sent[c].user] = TRUE], UNCHANGED <<profile, pw>>,
                 NEW next \in {"createProfile", "createSession"}, Advance(c, next)
          PROVE  Types'
        <3>1. account' \in [User -> BOOLEAN]
            BY <2>3 DEF TypeOK
        <3>2. Stored' /\ TokensStay
            BY <2>1, <2>3, <3>1, NowStored DEF Stored, Sent, sessions, tokens, Races, TokensStay
        <3>3. sent[c].user \in User /\ ~IsRefresh(c)
            BY <1>1, <2>1, NoneAssumption DEF Carries, OfUser, IsRefresh
        <3>4. /\ pc'[c] = next /\ sent'[c] = sent[c] /\ op'[c] = op[c] /\ phase'[c] = phase[c]
              /\ Sendable(c) => Sendable(c)'
            BY <1>3, <2>1, <2>3, <3>2 DEF Steps, SignupSteps
        <3>5. Carries(c)'
            BY <1>1, <2>1, <3>3, <3>4 DEF Carries, OfUser, RefreshSteps, ResetSteps, IsRefresh
        <3> QED
            BY <2>3, <3>2, <3>5, AdvanceTypes DEF Steps, SignupSteps
    <2> QED
        BY <1>7, <2>2, <2>3 DEF CreateUser
<1>8. CASE CreateProfile(c)
    <2>1. /\ pc[c] = "createProfile" /\ profile' = [profile EXCEPT ![sent[c].user] = TRUE]
          /\ Advance(c, "createSession") /\ UNCHANGED <<account, pw, sessions, tokens>> /\ Races
        BY <1>8 DEF CreateProfile
    <2>2. profile' \in [User -> BOOLEAN]
        BY <2>1 DEF TypeOK
    <2>3. Stored' /\ TokensStay
        BY <2>1, <2>2, NowStored DEF Stored, Sent, sessions, tokens, Races, TokensStay
    <2>4. sent[c].user \in User /\ ~IsRefresh(c)
        BY <1>1, <2>1, NoneAssumption DEF Carries, OfUser, IsRefresh
    <2>5. /\ pc'[c] = "createSession" /\ sent'[c] = sent[c] /\ op'[c] = op[c] /\ phase'[c] = phase[c]
          /\ Sendable(c) => Sendable(c)'
        BY <1>3, <2>1, <2>3 DEF Steps
    <2>6. Carries(c)'
        BY <1>1, <2>1, <2>4, <2>5 DEF Carries, OfUser, RefreshSteps, ResetSteps, IsRefresh
    <2> QED
        BY <2>1, <2>3, <2>6, AdvanceTypes DEF Steps
<1>9. CASE RevokeOwn(c)
    <2>1. pc[c] = "revokeOwn" /\ Answer(c, "ok") /\ UNCHANGED <<users, grant, tokens>> /\ Races
        BY <1>9 DEF RevokeOwn
    <2>2. sess' \in [Session -> {"unborn", "live", "ended"}]
        BY <1>9 DEF RevokeOwn, TypeOK
    <2>3. Stored' /\ TokensStay
        BY <2>1, <2>2, NowStored DEF Stored, Sent, users, tokens, Races, TokensStay
    <2>4. phase[c] # "refresh"
        BY <1>1, <2>1 DEF Carries, RefreshSteps
    <2> QED
        BY <2>1, <2>3, <2>4, AnswerTypes DEF Replies
<1>10. CASE CreateReset(c)
    <2>1. /\ pc[c] = "createReset" /\ Answer(c, "ok") /\ UNCHANGED <<users, sessions>> /\ Races
          /\ sent[c].user \in User
        BY <1>1, <1>10 DEF CreateReset, Carries, OfUser
    <2>2. phase[c] # "refresh"
        BY <1>1, <2>1 DEF Carries, RefreshSteps
    <2>3. \/ UNCHANGED tokens
          \/ \E t \in ResetToken : /\ token[t] = "unsent" /\ token' = [token EXCEPT ![t] = "sent"]
                                   /\ tokenUser' = [tokenUser EXCEPT ![t] = sent[c].user]
        BY <1>10 DEF CreateReset
    <2>4. /\ token' \in [ResetToken -> {"unsent", "sent", "spent"}]
          /\ tokenUser' \in [ResetToken -> User \cup {None}]
          /\ Sent' /\ TokensStay
        BY <2>1, <2>3 DEF TypeOK, tokens, Sent, TokensStay
    <2>5. Stored'
        BY <2>1, <2>4, NowStored DEF Stored, users, sessions, Races
    <2> QED
        BY <2>1, <2>2, <2>4, <2>5, AnswerTypes DEF Replies
<1>11. CASE FindReset(c)
    <2>1. Stored' /\ TokensStay /\ pc[c] = "findReset"
        BY <1>2, <1>11 DEF FindReset, Reads
    <2>2. CASE Answer(c, "unauthorized")
        BY <2>1, <2>2, AnswerTypes DEF Replies
    <2>3. CASE Advance(c, "writePassword")
        <3>1. Carries(c)'
            BY <1>1, <1>3, <2>1, <2>3 DEF Carries, OfUser, RefreshSteps, ResetSteps, Steps
        <3> QED
            BY <2>1, <2>3, <3>1, AdvanceTypes DEF Steps, ResetSteps
    <2> QED
        BY <1>11, <2>2, <2>3 DEF FindReset
<1>12. CASE MarkUsed(c)
    <2>1. /\ pc[c] = "markUsed" /\ token' = [token EXCEPT ![sent[c].token] = "spent"]
          /\ Advance(c, "revokeAll") /\ UNCHANGED <<users, sessions, tokenUser>> /\ Races
          /\ Sendable(c)
        BY <1>1, <1>12 DEF MarkUsed, Carries, ResetSteps
    <2>2. token' \in [ResetToken -> {"unsent", "sent", "spent"}] /\ Sent' /\ TokensStay
        BY <2>1 DEF TypeOK, Sent, Sendable, TokensStay
    <2>3. Stored'
        BY <2>1, <2>2, NowStored DEF Stored, users, sessions, Races
    <2>4. Sendable(c)'
        BY <1>3, <2>1, <2>2 DEF Sendable, TokensStay, Advance, Goto
    <2>5. Carries(c)'
        BY <1>1, <1>3, <2>1, <2>4 DEF Carries, OfUser, RefreshSteps, ResetSteps, Steps
    <2> QED
        BY <2>1, <2>2, <2>3, <2>5, AdvanceTypes DEF Steps, ResetSteps
<1> QED
    BY <1>4, <1>5, <1>6, <1>7, <1>8, <1>9, <1>10, <1>11, <1>12

\* Every variable of the calls and the browsers, and of the other calls nothing changed.
Called ==
    /\ cookie \in [Browser -> Session \cup {None}] /\ access \in [Browser -> User \cup {None}]
    /\ op \in [Call -> Ops] /\ phase \in [Call -> Phases] /\ sent \in [Call -> Carried]
    /\ pc \in [Call -> Steps] /\ seen \in [Call -> Password]
    /\ fresh \in [Call -> Session \cup {None}] /\ reply \in [Call -> Replies]
    /\ faults \in 0..MaxFaults /\ disturbed \in [Browser -> BOOLEAN]

Others(c) ==
    \A d \in Call : d # c =>
        /\ pc'[d] = pc[d] /\ sent'[d] = sent[d] /\ op'[d] = op[d] /\ phase'[d] = phase[d]
        /\ reply'[d] = reply[d] /\ fresh'[d] = fresh[d]

LEMMA NowCalled == Types => Called
BY DEF Types, TypeOK, Called

LEMMA CallTypes ==
    ASSUME Types, NEW c \in Call, GatewayTypeOK', Stored', Called', TokensStay, Others(c),
           Carries(c)'
    PROVE  Types'
<1>1. TypeOK'
    BY DEF TypeOK, Stored, Called
<1>2. \A d \in Call : d # c => Carries(d)'
    BY OthersCarry DEF Types, Others, Sendable, TypeOK, TokensStay
<1> QED
    BY <1>1, <1>2 DEF Types, Stored

\* A request that is over, or only has its answer to give, carries what it must.
LEMMA OverCarries ==
    ASSUME NEW c, \/ pc'[c] = "done"
                  \/ /\ pc'[c] = "answer"
                     /\ op'[c] = "reset" => Sendable(c)'
                     /\ phase'[c] = "refresh" /\ reply'[c] = "ok" => fresh'[c] \in Session
    PROVE  Carries(c)'
BY DEF Carries, OfUser, RefreshSteps, ResetSteps

LEMMA FaultTypes ==
    ASSUME Types
    PROVE  /\ MayFail => faults' \in 0..MaxFaults
           /\ \A c \in Call : Disturb(c) => disturbed' \in [Browser -> BOOLEAN]
           /\ \A c \in Call : Fault(c) => faults' \in 0..MaxFaults
<1>1. MaxFaults \in Nat /\ faults \in 0..MaxFaults
    BY BoundsAssumption DEF Types, TypeOK
<1>2. MayFail => faults' \in 0..MaxFaults
    BY <1>1 DEF MayFail
<1> QED
    BY <1>2, BrowsersAssumption DEF Types, TypeOK, Disturb, Fault

LEMMA SettledTypes ==
    ASSUME Types, NEW c \in Call, Settled(c)
    PROVE  /\ seen' \in [Call -> Password]
           /\ overtaken' \in [Call -> BOOLEAN] /\ beaten' \in [Call -> BOOLEAN]
<1>1. 0 \in Password
    BY BoundsAssumption DEF Password
<1> QED
    BY <1>1 DEF Settled, Types, TypeOK

LEMMA GrantTypes ==
    ASSUME Types, NEW c \in Call, pc[c] = "createSession" PROVE GrantOf(c) \in Grant
<1>1. /\ sent[c] \in Carried /\ seen[c] \in Password
      /\ overtaken[c] \in BOOLEAN /\ beaten[c] \in BOOLEAN
    BY DEF Types, TypeOK
<1>2. CASE IsRefresh(c)
    <2> DEFINE s == sent[c].session
    <2>1. s \in Session /\ grant[s] \in Grant
        BY <1>2 DEF Types, TypeOK, Carries
    <2> HIDE DEF s
    <2>2. (overtaken[c] \/ grant[s].late) \in BOOLEAN
        OBVIOUS
    <2>3. grant[s].owner \in User \cup {None} /\ grant[s].password \in Password
        BY <2>1 DEF Grant
    <2>4. GrantOf(c) = [owner |-> grant[s].owner, password |-> grant[s].password, from |-> s,
                        late |-> overtaken[c] \/ grant[s].late, beaten |-> beaten[c]]
        BY <1>2 DEF GrantOf, s
    <2> QED
        BY <1>1, <2>1, <2>2, <2>3, <2>4 DEF Grant
<1>3. CASE ~IsRefresh(c)
    <2>1. sent[c].user \in User
        BY <1>1, <1>3 DEF Carried, IsRefresh
    <2>2. GrantOf(c) = [owner |-> sent[c].user, password |-> seen[c], from |-> None,
                        late |-> overtaken[c], beaten |-> FALSE]
        BY <1>3 DEF GrantOf
    <2> QED
        BY <1>1, <2>1, <2>2 DEF Grant
<1> QED
    BY <1>2, <1>3

\* The steps that write what the handler holds.
LEMMA HoldTypes ==
    ASSUME Types, NEW c \in Call,
           \/ FindUser(c) \/ CreateSession(c) \/ WritePassword(c) \/ RevokeAll(c)
           \/ Throw(c)
    PROVE  Types'
<1> USE DEF Types
<1>1. Carries(c) /\ Stored /\ Called
    BY NowStored, NowCalled
<1>2. ASSUME UNCHANGED gateway PROVE GatewayTypeOK'
    BY <1>2 DEF TypeOK, gateway, GatewayTypeOK
<1>3. 0 \in Password
    BY BoundsAssumption DEF Password
<1>4. CASE FindUser(c)
    <2>1. pc[c] = "findUser" /\ UNCHANGED <<users, sessions, tokens, cleared, overtaken, beaten>>
          /\ sent[c].user \in User
        BY <1>1, <1>4 DEF FindUser, Reads, Races, Carries, OfUser
    <2>2. Stored' /\ TokensStay
        BY <1>1, <2>1 DEF Stored, Sent, users, sessions, tokens, TokensStay
    <2>3. CASE Answer(c, "unauthorized")
        BY <2>1, <2>2, <2>3, AnswerTypes DEF Replies
    <2>4. CASE /\ Goto(c, "createSession") /\ seen' = [seen EXCEPT ![c] = pw[sent[c].user]]
               /\ UNCHANGED <<gateway, browser, page, sent, fresh, reply, faults, disturbed>>
        <3>1. pc' = [pc EXCEPT ![c] = "createSession"] /\ UNCHANGED <<cookie, access, op, phase>>
            BY <2>4 DEF Goto, browser, page
        <3>2. seen' \in [Call -> Password]
            BY <2>1, <2>4 DEF TypeOK
        <3>3. Called'
            BY <1>1, <2>4, <3>1, <3>2 DEF Called, Steps
        <3>4. Others(c)
            BY <2>4, <3>1 DEF Others, TypeOK
        <3>5. Carries(c)'
            BY <1>1, <2>1, <2>2, <2>4, <3>1, NoneAssumption
               DEF Carries, OfUser, RefreshSteps, ResetSteps, IsRefresh, TypeOK, Sendable, TokensStay
        <3> QED
            BY <1>2, <2>2, <2>4, <3>3, <3>4, <3>5, CallTypes
    <2> QED
        BY <1>4, <2>3, <2>4 DEF FindUser
<1>5. CASE CreateSession(c)
    <2>1. PICK s \in Session : /\ sess[s] = "unborn" /\ sess' = [sess EXCEPT ![s] = "live"]
                               /\ grant' = [grant EXCEPT ![s] = GrantOf(c)]
                               /\ fresh' = [fresh EXCEPT ![c] = s]
        BY <1>5 DEF CreateSession, Unborn
    <2>2. /\ pc[c] = "createSession" /\ pc' = [pc EXCEPT ![c] = "answer"]
          /\ reply' = [reply EXCEPT ![c] = "ok"] /\ Settled(c)
          /\ UNCHANGED <<gateway, account, profile, pw, token, tokenUser, cookie, access, op, phase,
                         sent, faults, cleared, disturbed>>
        BY <1>5 DEF CreateSession, Goto, users, tokens, browser, page
    <2>3. /\ sess' \in [Session -> {"unborn", "live", "ended"}]
          /\ grant' \in [Session -> Grant]
        BY <2>1, <2>2, GrantTypes DEF TypeOK
    <2>4. TokensStay /\ Sent'
        BY <2>2 DEF TokensStay, Sent
    <2>5. Stored'
        BY <1>1, <2>2, <2>3, <2>4, SettledTypes DEF Stored
    <2>6. Called'
        BY <1>1, <2>1, <2>2, SettledTypes DEF Called, Steps, Replies
    <2>7. Others(c)
        BY <2>1, <2>2 DEF Others, TypeOK
    <2>8. op[c] = "reset" => Sendable(c)'
        BY <1>1, <2>2 DEF Carries, Sendable
    <2>9. Carries(c)'
        BY <2>1, <2>2, <2>8, OverCarries DEF TypeOK
    <2> QED
        BY <1>2, <2>2, <2>4, <2>5, <2>6, <2>7, <2>9, CallTypes
<1>6. CASE WritePassword(c)
    <2>1. Sendable(c) /\ pc[c] = "writePassword" /\ ResetUser(c) \in User
        BY <1>1, <1>6 DEF WritePassword, Carries, ResetSteps, Sendable, ResetUser, Sent
    <2>2. /\ pw[ResetUser(c)] < MaxResets
          /\ pw' = [pw EXCEPT ![ResetUser(c)] = @ + 1]
          /\ seen' = [seen EXCEPT ![c] = pw[ResetUser(c)] + 1]
          /\ pc' = [pc EXCEPT ![c] = "markUsed"]
          /\ UNCHANGED <<gateway, account, profile, sess, grant, token, tokenUser, cookie, access, op,
                         phase, sent, fresh, reply, faults, cleared, overtaken, beaten, disturbed>>
        BY <1>6 DEF WritePassword, Goto, sessions, tokens, browser, page, history
    <2>3. pw[ResetUser(c)] \in Password
        BY <2>1 DEF TypeOK
    <2>4. pw[ResetUser(c)] + 1 \in Password
        BY <2>2, <2>3, BoundsAssumption DEF Password
    <2>5. pw' \in [User -> Password] /\ seen' \in [Call -> Password]
        BY <2>2, <2>4 DEF TypeOK
    <2>6. TokensStay /\ Sent'
        BY <2>2 DEF TokensStay, Sent
    <2>7. Stored'
        BY <1>1, <2>2, <2>5, <2>6 DEF Stored
    <2>8. Called'
        BY <1>1, <2>2, <2>5 DEF Called, Steps, ResetSteps
    <2>9. Others(c)
        BY <2>2 DEF Others, TypeOK
    <2>10. Sendable(c)' /\ pc'[c] = "markUsed"
        BY <2>1, <2>2 DEF Sendable, TypeOK
    <2>11. Carries(c)'
        BY <1>1, <2>1, <2>2, <2>10 DEF Carries, OfUser, RefreshSteps, ResetSteps
    <2> QED
        BY <1>2, <2>2, <2>6, <2>7, <2>8, <2>9, <2>11, CallTypes
<1>7. CASE RevokeAll(c)
    <2>1. Sendable(c) /\ pc[c] = "revokeAll" /\ ResetUser(c) \in User
        BY <1>1, <1>7 DEF RevokeAll, Carries, ResetSteps, Sendable, ResetUser, Sent
    <2> DEFINE u == ResetUser(c)
    <2>2. /\ sess' = [s \in Session |->
                      IF grant[s].owner = u /\ sess[s] = "live" THEN "ended" ELSE sess[s]]
          /\ overtaken' = [d \in Call |-> overtaken[d] \/ ActsFor(d, u)]
          /\ cleared' = [cleared EXCEPT ![u] = IF @ < seen[c] THEN seen[c] ELSE @]
          /\ disturbed' = [b \in Browser |-> TRUE]
          /\ seen' = [seen EXCEPT ![c] = 0]
          /\ pc' = [pc EXCEPT ![c] = "answer"]
          /\ reply' = [reply EXCEPT ![c] = "ok"]
          /\ UNCHANGED <<gateway, account, profile, pw, grant, token, tokenUser, cookie, access, op, phase,
                         sent, fresh, faults, beaten>>
        BY <1>7 DEF RevokeAll, Goto, users, tokens, browser, page
    <2> HIDE DEF u
    <2>3. overtaken' \in [Call -> BOOLEAN]
        BY <2>2 DEF TypeOK
    <2>4. /\ sess' \in [Session -> {"unborn", "live", "ended"}]
          /\ cleared' \in [User -> Password] /\ seen' \in [Call -> Password]
        BY <1>3, <2>2 DEF TypeOK
    <2>5. TokensStay /\ Sent'
        BY <2>2 DEF TokensStay, Sent
    <2>6. Stored'
        BY <1>1, <2>2, <2>3, <2>4, <2>5 DEF Stored
    <2>7. disturbed' \in [Browser -> BOOLEAN]
        BY <2>2
    <2>8. Called'
        BY <1>1, <2>2, <2>4, <2>7 DEF Called, Steps, Replies
    <2>9. Others(c)
        BY <2>2 DEF Others, TypeOK
    <2>10. phase'[c] # "refresh" /\ Sendable(c)'
        BY <1>1, <2>1, <2>2 DEF Carries, RefreshSteps, Sendable
    <2>11. Carries(c)'
        BY <2>2, <2>10, OverCarries DEF TypeOK
    <2> QED
        BY <1>2, <2>2, <2>5, <2>6, <2>8, <2>9, <2>11, CallTypes
<1>8. CASE Throw(c)
    <2>1. /\ pc[c] # "done" /\ pc' = [pc EXCEPT ![c] = "answer"]
          /\ reply' = [reply EXCEPT ![c] = "error"]
          /\ (Fault(c) \/ UNCHANGED faults)
          /\ Disturb(c) /\ Settled(c)
          /\ fresh' = [fresh EXCEPT ![c] = None]
          /\ UNCHANGED <<gateway, account, profile, pw, sess, grant, token, tokenUser, cookie, access, op,
                         phase, sent, cleared>>
        BY <1>8 DEF Throw, Goto, users, sessions, tokens, browser, page
    <2>2. TokensStay /\ Sent'
        BY <2>1 DEF TokensStay, Sent
    <2>3. Stored'
        BY <1>1, <2>1, <2>2, SettledTypes DEF Stored
    <2>4. faults' \in 0..MaxFaults /\ disturbed' \in [Browser -> BOOLEAN]
        BY <1>1, <2>1, FaultTypes DEF Called
    <2>5. Called'
        BY <1>1, <2>1, <2>4, SettledTypes DEF Called, Steps, Replies
    <2>6. Others(c)
        BY <2>1 DEF Others, TypeOK
    <2>7. op[c] = "reset" => Sendable(c)'
        BY <1>1, <2>1 DEF Carries, Sendable
    <2>8. Carries(c)'
        BY <2>1, <2>7, OverCarries DEF TypeOK
    <2> QED
        BY <1>2, <2>1, <2>2, <2>3, <2>5, <2>6, <2>8, CallTypes
<1> QED
    BY <1>4, <1>5, <1>6, <1>7, <1>8

\* What a request leaves behind when it is over.
LEMMA ForgetTypes ==
    ASSUME Types, NEW c \in Call, Forget(c)
    PROVE  /\ pc' \in [Call -> Steps] /\ sent' \in [Call -> Carried]
           /\ fresh' \in [Call -> Session \cup {None}] /\ reply' \in [Call -> Replies]
           /\ seen' \in [Call -> Password] /\ cleared' = cleared
           /\ overtaken' \in [Call -> BOOLEAN] /\ beaten' \in [Call -> BOOLEAN]
           /\ pc'[c] = "done"
           /\ \A d \in Call : d # c =>
                /\ pc'[d] = pc[d] /\ sent'[d] = sent[d]
                /\ reply'[d] = reply[d] /\ fresh'[d] = fresh[d]
<1>1. Settled(c)
    BY DEF Forget
<1>2. /\ seen' \in [Call -> Password]
      /\ overtaken' \in [Call -> BOOLEAN] /\ beaten' \in [Call -> BOOLEAN]
    BY <1>1, SettledTypes
<1>3. /\ pc' = [pc EXCEPT ![c] = "done"] /\ sent' = [sent EXCEPT ![c] = Empty]
      /\ fresh' = [fresh EXCEPT ![c] = None] /\ reply' = [reply EXCEPT ![c] = "none"]
      /\ cleared' = cleared
    BY DEF Forget, Goto
<1>4. pc' \in [Call -> Steps] /\ pc'[c] = "done" /\ \A d \in Call : d # c => pc'[d] = pc[d]
    BY <1>3 DEF Types, TypeOK, Steps
<1>5. sent' \in [Call -> Carried] /\ \A d \in Call : d # c => sent'[d] = sent[d]
    BY <1>3, EmptyCarried DEF Types, TypeOK
<1>6. /\ fresh' \in [Call -> Session \cup {None}] /\ reply' \in [Call -> Replies]
      /\ \A d \in Call : d # c => reply'[d] = reply[d] /\ fresh'[d] = fresh[d]
    BY <1>3 DEF Types, TypeOK, Replies
<1> QED
    BY <1>2, <1>3, <1>4, <1>5, <1>6

\* Death, silence, age and the network.
LEMMA EndTypes ==
    ASSUME Types, GatewayTypeOK',
           \/ \E c \in Call : Die(c) \/ Discard(c) \/ Network(c)
           \/ \E s \in Session : ExpireSession(s)
           \/ \E t \in ResetToken : ExpireToken(t)
           \/ Restart /\ Served /\ UNCHANGED faults
    PROVE  Types'
<1> USE DEF Types
<1>1. Stored /\ Called
    BY NowStored, NowCalled
<1>2. ASSUME NEW c \in Call, Die(c) \/ Discard(c) PROVE Types'
    <2>1. UNCHANGED <<account, profile, pw, sess, grant, token, tokenUser, cookie, access, op, phase>>
        BY <1>2 DEF Die, Discard, users, sessions, tokens, browser, page
    <2>2. Forget(c) /\ Disturb(c) /\ (Fault(c) \/ UNCHANGED faults)
        BY <1>2 DEF Die, Discard
    <2>3. TokensStay /\ Sent'
        BY <2>1 DEF TokensStay, Sent
    <2>4. Stored'
        BY <1>1, <2>1, <2>2, <2>3, ForgetTypes DEF Stored
    <2>5. faults' \in 0..MaxFaults /\ disturbed' \in [Browser -> BOOLEAN]
        BY <1>1, <2>2, FaultTypes DEF Called
    <2>6. Called'
        BY <1>1, <2>1, <2>2, <2>5, ForgetTypes DEF Called
    <2>7. Others(c)
        BY <2>1, <2>2, ForgetTypes DEF Others
    <2>8. Carries(c)'
        BY <2>2, ForgetTypes, OverCarries
    <2> QED
        BY <2>3, <2>4, <2>6, <2>7, <2>8, CallTypes
\* Steps that leave the calls alone.
<1>3. ASSUME UNCHANGED <<account, profile, pw, grant, tokenUser, cookie, access, op, phase, pc, sent, seen,
                         fresh, reply, cleared, overtaken, beaten>>,
             TokensStay, sess' \in [Session -> {"unborn", "live", "ended"}],
             token' \in [ResetToken -> {"unsent", "sent", "spent"}],
             faults' \in 0..MaxFaults, disturbed' \in [Browser -> BOOLEAN],
             \A t \in ResetToken : token'[t] # "unsent" => token[t] # "unsent"
      PROVE  Types'
    <2>1. Stored'
        BY <1>1, <1>3 DEF Stored, Sent
    <2>2. Called'
        BY <1>1, <1>3 DEF Called
    <2>3. TypeOK'
        BY <2>1, <2>2 DEF TypeOK, Stored, Called
    <2>4. \A d \in Call : Carries(d)'
        BY <1>3, OthersCarry DEF TypeOK, Sendable, TokensStay
    <2> QED
        BY <2>1, <2>3, <2>4 DEF Stored
<1>4. ASSUME Served, faults' \in 0..MaxFaults PROVE Types'
    BY <1>1, <1>3, <1>4
       DEF Served, users, sessions, tokens, browser, page, handler, history, TokensStay, Stored, Called
<1>5. ASSUME NEW c \in Call, Network(c) PROVE Types'
    <2>1. Served /\ (Fault(c) \/ UNCHANGED faults)
        BY <1>5 DEF Network
    <2>2. faults' \in 0..MaxFaults
        BY <1>1, <2>1, FaultTypes DEF Called
    <2> QED
        BY <1>4, <2>1, <2>2
<1>6. CASE Restart /\ Served /\ UNCHANGED faults
    BY <1>1, <1>4, <1>6 DEF Called
<1>7. ASSUME NEW s \in Session, ExpireSession(s) PROVE Types'
    <2>1. /\ sess' = [sess EXCEPT ![s] = "ended"] /\ MayFail
          /\ disturbed' = [b \in Browser |-> TRUE]
          /\ UNCHANGED <<account, profile, pw, grant, token, tokenUser, cookie, access, op, phase, pc, sent,
                         seen, fresh, reply, cleared, overtaken, beaten>>
        BY <1>7 DEF ExpireSession, users, tokens, browser, page, handler, Races
    <2>2. disturbed' \in [Browser -> BOOLEAN]
        BY <2>1
    <2>3. sess' \in [Session -> {"unborn", "live", "ended"}] /\ faults' \in 0..MaxFaults
        BY <2>1, FaultTypes DEF TypeOK
    <2> QED
        BY <1>1, <1>3, <2>1, <2>2, <2>3 DEF TokensStay, Stored
<1>8. ASSUME NEW t \in ResetToken, ExpireToken(t) PROVE Types'
    <2>1. /\ token[t] = "sent" /\ token' = [token EXCEPT ![t] = "spent"] /\ MayFail
          /\ UNCHANGED <<account, profile, pw, sess, grant, tokenUser, cookie, access, op, phase, pc, sent,
                         seen, fresh, reply, cleared, overtaken, beaten, disturbed>>
        BY <1>8 DEF ExpireToken, users, sessions, browser, page, handler, history
    <2>2. /\ token' \in [ResetToken -> {"unsent", "sent", "spent"}] /\ TokensStay
          /\ \A r \in ResetToken : token'[r] # "unsent" => token[r] # "unsent"
        BY <2>1 DEF TypeOK, TokensStay
    <2>3. faults' \in 0..MaxFaults
        BY <2>1, FaultTypes
    <2> QED
        BY <1>1, <1>3, <2>1, <2>2, <2>3 DEF Stored, Called
<1> QED
    BY <1>2, <1>5, <1>6, <1>7, <1>8

\* A request that leaves carries what its handler needs first.
LEMMA FetchTypes ==
    ASSUME Types, NEW c \in Call, NEW next \in Phases, NEW carries \in Carried, NEW first \in Steps,
           Fetch(c, next, carries, first)
    PROVE  /\ phase' \in [Call -> Phases] /\ sent' \in [Call -> Carried] /\ pc' \in [Call -> Steps]
           /\ fresh' \in [Call -> Session \cup {None}] /\ reply' \in [Call -> Replies]
           /\ phase'[c] = next /\ reply'[c] = "none"
           /\ pc'[c] = "done" \/ (pc'[c] = first /\ sent'[c] = carries)
           /\ \A d \in Call : d # c =>
                /\ pc'[d] = pc[d] /\ sent'[d] = sent[d] /\ phase'[d] = phase[d]
                /\ reply'[d] = reply[d] /\ fresh'[d] = fresh[d]
           /\ UNCHANGED <<account, profile, pw, sess, grant, token, tokenUser, seen, faults,
                          cleared, overtaken, beaten>>
<1>1. /\ phase' = [phase EXCEPT ![c] = next]
      /\ sent' = [sent EXCEPT ![c] = IF up THEN carries ELSE Empty]
      /\ pc' = [pc EXCEPT ![c] = IF up THEN first ELSE "done"]
      /\ fresh' = [fresh EXCEPT ![c] = None]
      /\ reply' = [reply EXCEPT ![c] = "none"]
      /\ UNCHANGED <<account, profile, pw, sess, grant, token, tokenUser, seen, faults,
                     cleared, overtaken, beaten>>
    BY DEF Fetch, Goto, users, sessions, tokens
<1>2. /\ pc' \in [Call -> Steps]
      /\ pc'[c] = "done" \/ (up /\ pc'[c] = first)
      /\ \A d \in Call : d # c => pc'[d] = pc[d]
    BY <1>1 DEF Types, TypeOK, Steps
<1>3. /\ sent' \in [Call -> Carried] /\ (up => sent'[c] = carries)
      /\ \A d \in Call : d # c => sent'[d] = sent[d]
    BY <1>1, EmptyCarried DEF Types, TypeOK
<1>4. /\ phase' \in [Call -> Phases] /\ reply' \in [Call -> Replies]
      /\ fresh' \in [Call -> Session \cup {None}] /\ phase'[c] = next /\ reply'[c] = "none"
      /\ \A d \in Call : d # c => phase'[d] = phase[d] /\ reply'[d] = reply[d] /\ fresh'[d] = fresh[d]
    BY <1>1 DEF Types, TypeOK, Replies
<1> QED
    BY <1>1, <1>2, <1>3, <1>4

LEMMA GuardedTypes ==
    ASSUME Types, NEW c \in Call, NEW next \in Phases, FetchGuarded(c, next)
    PROVE  /\ phase' \in [Call -> Phases] /\ sent' \in [Call -> Carried] /\ pc' \in [Call -> Steps]
           /\ fresh' \in [Call -> Session \cup {None}] /\ reply' \in [Call -> Replies]
           /\ phase'[c] = next /\ pc'[c] \in {"done", "answer"}
           /\ \A d \in Call : d # c =>
                /\ pc'[d] = pc[d] /\ sent'[d] = sent[d] /\ phase'[d] = phase[d]
                /\ reply'[d] = reply[d] /\ fresh'[d] = fresh[d]
           /\ UNCHANGED <<account, profile, pw, sess, grant, token, tokenUser, seen, faults,
                          cleared, overtaken, beaten>>
<1>1. PICK answer \in {"ok", "unauthorized"} :
          reply' = [reply EXCEPT ![c] = IF up THEN answer ELSE "none"]
    BY DEF FetchGuarded
<1>2. /\ phase' = [phase EXCEPT ![c] = next]
      /\ pc' = [pc EXCEPT ![c] = IF up THEN "answer" ELSE "done"]
      /\ sent' = [sent EXCEPT ![c] = Empty]
      /\ fresh' = [fresh EXCEPT ![c] = None]
      /\ UNCHANGED <<account, profile, pw, sess, grant, token, tokenUser, seen, faults,
                     cleared, overtaken, beaten>>
    BY DEF FetchGuarded, Goto, users, sessions, tokens
<1>3. /\ pc' \in [Call -> Steps] /\ pc'[c] \in {"done", "answer"}
      /\ \A d \in Call : d # c => pc'[d] = pc[d]
    BY <1>2 DEF Types, TypeOK, Steps
<1>4. sent' \in [Call -> Carried] /\ \A d \in Call : d # c => sent'[d] = sent[d]
    BY <1>2, EmptyCarried DEF Types, TypeOK
<1>5. /\ phase' \in [Call -> Phases] /\ reply' \in [Call -> Replies]
      /\ fresh' \in [Call -> Session \cup {None}] /\ phase'[c] = next
      /\ \A d \in Call : d # c => phase'[d] = phase[d] /\ reply'[d] = reply[d] /\ fresh'[d] = fresh[d]
    BY <1>1, <1>2 DEF Types, TypeOK, Replies
<1> QED
    BY <1>2, <1>3, <1>4, <1>5

\* The database is left alone.
LEMMA StoredStays ==
    ASSUME Types, UNCHANGED <<account, profile, pw, sess, grant, token, tokenUser,
                              cleared, overtaken, beaten>>
    PROVE  Stored' /\ TokensStay
BY NowStored DEF Stored, Sent, TokensStay

LEMMA AskTypes ==
    ASSUME Types, GatewayTypeOK', NEW c \in Call, NEW o \in Ops, NEW carries \in Carried,
           NEW first \in Steps \ {"revoke", "createSession"}, Ask(c, o, carries, first),
           disturbed' \in [Browser -> BOOLEAN],
           first \in OfUser => carries.user \in User,
           first \in RefreshSteps => carries.user = None,
           first \in ResetSteps \/ o = "reset" =>
             carries.token \in ResetToken /\ token[carries.token] # "unsent"
    PROVE  Types'
<1>1. /\ op' = [op EXCEPT ![c] = o] /\ UNCHANGED <<cookie, access>>
      /\ Fetch(c, "first", carries, first)
    BY DEF Ask, Begin, browser
<1>2. "first" \in Phases
    BY DEF Phases
<1>3. /\ op' \in [Call -> Ops] /\ op'[c] = o
      /\ \A d \in Call : d # c => op'[d] = op[d]
    BY <1>1 DEF Types, TypeOK
<1>4. Stored' /\ TokensStay
    BY <1>1, <1>2, FetchTypes, StoredStays
<1>5. Called'
    BY <1>1, <1>2, <1>3, FetchTypes, NowCalled DEF Called
<1>6. Others(c)
    BY <1>1, <1>2, <1>3, FetchTypes DEF Others
<1>7. CASE pc'[c] = "done"
    BY <1>4, <1>5, <1>6, <1>7, CallTypes, OverCarries
<1>8. CASE pc'[c] = first /\ sent'[c] = carries
    <2>1. phase'[c] = "first" /\ op'[c] = o /\ token' = token
        BY <1>1, <1>2, <1>3, FetchTypes
    <2>2. first \in ResetSteps \/ o = "reset" => Sendable(c)'
        BY <1>8, <2>1 DEF Sendable
    <2>3. Carries(c)'
        BY <1>8, <2>1, <2>2 DEF Carries, IsRefresh
    <2> QED
        BY <1>4, <1>5, <1>6, <2>3, CallTypes
<1> QED
    BY <1>1, <1>2, <1>7, <1>8, FetchTypes

LEMMA CookieCarried ==
    ASSUME Types, NEW c \in Call
    PROVE  /\ Cookie(c) \in Carried /\ Cookie(c).user = None
           /\ \A t \in ResetToken \cup {None} :
                /\ [Cookie(c) EXCEPT !.token = t] \in Carried
                /\ [Cookie(c) EXCEPT !.token = t].token = t
                /\ [Cookie(c) EXCEPT !.token = t].user = None
<1>1. cookie[BrowserOf[c]] \in Session \cup {None}
    BY BrowsersAssumption DEF Types, TypeOK
<1>2. Empty \in Carried /\ Empty.user = None
    BY EmptyCarried
<1>3. Cookie(c) \in Carried /\ Cookie(c).user = None
    BY <1>1, <1>2 DEF Cookie, Carried
<1> QED
    BY <1>3 DEF Carried

\* The cookie of an answer is one of a session.
LEMMA CookieTypes ==
    ASSUME Types, NEW c \in Call, StoreCookie(c)
    PROVE  cookie' \in [Browser -> Session \cup {None}]
<1>1. BrowserOf[c] \in Browser /\ fresh[c] \in Session \cup {None}
    BY BrowsersAssumption DEF Types, TypeOK
<1> QED
    BY <1>1 DEF StoreCookie, Types, TypeOK

LEMMA SettleTypes ==
    ASSUME Types, NEW c \in Call, NEW success, Settle(c, success)
    PROVE  /\ phase' \in [Call -> Phases] /\ op' \in [Call -> Ops]
           /\ access' \in [Browser -> User \cup {None}]
           /\ phase'[c] = "idle" /\ op'[c] = "page"
           /\ \A d \in Call : d # c => phase'[d] = phase[d] /\ op'[d] = op[d]
           /\ UNCHANGED <<account, profile, pw, sess, grant, token, tokenUser, faults>>
<1>1. /\ phase' = [phase EXCEPT ![c] = "idle"] /\ op' = [op EXCEPT ![c] = "page"]
      /\ UNCHANGED <<account, profile, pw, sess, grant, token, tokenUser, faults>>
    BY DEF Settle, users, sessions, tokens
<1>2. fresh[c] # None => grant[fresh[c]].owner \in User \cup {None}
    BY DEF Types, TypeOK, Grant
<1>3. \/ access' = access
      \/ access' = [access EXCEPT ![BrowserOf[c]] = None]
      \/ fresh[c] # None /\ access' = [access EXCEPT ![BrowserOf[c]] = grant[fresh[c]].owner]
    BY DEF Settle
<1>4. access' \in [Browser -> User \cup {None}]
    BY <1>2, <1>3, BrowsersAssumption DEF Types, TypeOK
<1> QED
    BY <1>1, <1>4 DEF Types, TypeOK, Phases, Ops

\* What a page asks for.
LEMMA SendTypes ==
    ASSUME Types, GatewayTypeOK', NEW c \in Call, Send(c)
    PROVE  Types'
<1> USE DEF Types
<1>1. disturbed' \in [Browser -> BOOLEAN]
    BY FaultTypes DEF Send, TypeOK
<1>2. ASSUME NEW o \in {"page", "me"}, Begin(c, o), FetchGuarded(c, "first") PROVE Types'
    <2>1. op' = [op EXCEPT ![c] = o] /\ UNCHANGED <<cookie, access>>
        BY <1>2 DEF Begin, browser
    <2>2. /\ op' \in [Call -> Ops] /\ op'[c] = o
          /\ \A d \in Call : d # c => op'[d] = op[d]
        BY <2>1 DEF TypeOK, Ops
    <2>3. "first" \in Phases
        BY DEF Phases
    <2>4. Stored' /\ TokensStay
        BY <1>2, <2>3, GuardedTypes, StoredStays
    <2>5. Called'
        BY <1>1, <1>2, <2>1, <2>2, <2>3, GuardedTypes, NowCalled DEF Called
    <2>6. Others(c)
        BY <1>2, <2>2, <2>3, GuardedTypes DEF Others
    <2>7. Carries(c)'
        BY <1>2, <2>2, <2>3, GuardedTypes, OverCarries
    <2> QED
        BY <2>4, <2>5, <2>6, <2>7, CallTypes
<1>3. ASSUME NEW o \in {"load", "login", "signup", "forgot", "logout"}, NEW carries \in Carried,
             NEW first \in {"findSession", "findUser", "findEmail", "createReset", "revokeOwn"},
             Ask(c, o, carries, first),
             first \in OfUser => carries.user \in User,
             first = "findSession" => carries.user = None
      PROVE  Types'
    <2>1. o \in Ops /\ first \in Steps \ {"revoke", "createSession"}
        BY DEF Ops, Steps, RefreshSteps, SignupSteps
    <2>2. first \notin ResetSteps /\ o # "reset" /\ (first \in RefreshSteps => first = "findSession")
        BY DEF ResetSteps, RefreshSteps
    <2> QED
        BY <1>1, <1>3, <2>1, <2>2, AskTypes
<1>4. CASE Ask(c, "load", Cookie(c), "findSession") \/ Ask(c, "logout", Cookie(c), "revokeOwn")
    BY <1>3, <1>4, CookieCarried DEF OfUser
<1>5. ASSUME NEW u \in User,
             \/ \E v \in 0..pw[u] :
                  Ask(c, "login", [Empty EXCEPT !.user = u, !.password = v], "findUser")
             \/ Ask(c, "signup", Naming(u), "findEmail")
             \/ Ask(c, "forgot", Naming(u), "createReset")
      PROVE  Types'
    <2>1. Naming(u) \in Carried /\ Naming(u).user = u
        BY EmptyCarried
    <2>2. \A v \in 0..pw[u] : v \in Password
        BY BoundsAssumption DEF TypeOK, Password
    <2>3. \A v \in 0..pw[u] : /\ [Empty EXCEPT !.user = u, !.password = v] \in Carried
                              /\ [Empty EXCEPT !.user = u, !.password = v].user = u
        BY <2>2, EmptyCarried
    <2> QED
        BY <1>3, <1>5, <2>1, <2>3
<1>6. ASSUME NEW t \in ResetToken, token[t] # "unsent",
             Ask(c, "reset", [Empty EXCEPT !.token = t], "findReset")
      PROVE  Types'
    <2>1. "reset" \in Ops /\ "findReset" \in Steps \ {"revoke", "createSession"}
        BY DEF Ops, Steps, ResetSteps
    <2>2. "findReset" \notin OfUser /\ "findReset" \notin RefreshSteps
        BY DEF OfUser, RefreshSteps
    <2>3. [Empty EXCEPT !.token = t] \in Carried /\ [Empty EXCEPT !.token = t].token = t
        BY EmptyCarried
    <2> QED
        BY <1>1, <1>6, <2>1, <2>2, <2>3, AskTypes
<1> QED
    BY <1>2, <1>4, <1>5, <1>6 DEF Send

\* api goes on, and ends.
LEMMA AgainTypes ==
    ASSUME Types, GatewayTypeOK', NEW c \in Call,
           BeginRefresh(c) \/ Retry(c) \/ Receive(c) \/ Lose(c)
    PROVE  Types'
<1> USE DEF Types
<1>1. Carries(c) /\ Stored /\ Called
    BY NowStored, NowCalled
<1>2. CASE BeginRefresh(c)
    <2> DEFINE carries == [Cookie(c) EXCEPT !.token = sent[c].token]
    <2>1. /\ pc[c] = "answer" /\ Fetch(c, "refresh", carries, "findSession")
          /\ UNCHANGED <<op, cookie, access, disturbed>>
        BY <1>2 DEF BeginRefresh, browser
    <2>2. sent[c].token \in ResetToken \cup {None}
        BY DEF TypeOK, Carried
    <2>3. carries \in Carried /\ carries.token = sent[c].token /\ carries.user = None
        BY <2>2, CookieCarried
    <2> HIDE DEF carries
    <2>4. "refresh" \in Phases /\ "findSession" \in Steps
        BY DEF Phases, Steps, RefreshSteps
    <2>5. Stored' /\ TokensStay
        BY <2>1, <2>3, <2>4, FetchTypes, StoredStays
    <2>6. Called'
        BY <1>1, <2>1, <2>3, <2>4, FetchTypes DEF Called
    <2>7. Others(c)
        BY <2>1, <2>3, <2>4, FetchTypes DEF Others
    <2>8. CASE pc'[c] = "done"
        BY <2>5, <2>6, <2>7, <2>8, CallTypes, OverCarries
    <2>9. CASE pc'[c] = "findSession" /\ sent'[c] = carries
        <3>1. op[c] = "reset" => Sendable(c)'
            BY <1>1, <2>1, <2>3, <2>5, <2>9 DEF Carries, Sendable, TokensStay
        <3>2. Carries(c)'
            BY <2>1, <2>3, <2>9, <3>1 DEF Carries, IsRefresh, OfUser, RefreshSteps, ResetSteps
        <3> QED
            BY <2>5, <2>6, <2>7, <3>2, CallTypes
    <2> QED
        BY <2>1, <2>3, <2>4, <2>8, <2>9, FetchTypes
<1>3. CASE Retry(c)
    <2>1. /\ pc[c] = "answer" /\ phase[c] = "refresh" /\ reply[c] = "ok"
          /\ access' = [access EXCEPT ![BrowserOf[c]] = grant[fresh[c]].owner]
          /\ StoreCookie(c) /\ UNCHANGED <<op, disturbed>>
        BY <1>3 DEF Retry
    <2>2. fresh[c] \in Session
        BY <1>1, <2>1 DEF Carries
    <2>3. grant[fresh[c]].owner \in User \cup {None}
        BY <2>2 DEF TypeOK, Grant
    <2>4. /\ access' \in [Browser -> User \cup {None}]
          /\ cookie' \in [Browser -> Session \cup {None}]
        BY <2>1, <2>3, CookieTypes DEF TypeOK
    <2>5. "retry" \in Phases /\ "findReset" \in Steps
        BY DEF Phases, Steps, ResetSteps
    <2>6. CASE op[c] = "reset"
        <3> DEFINE carries == [Empty EXCEPT !.token = sent[c].token]
        <3>1. Fetch(c, "retry", carries, "findReset") /\ Sendable(c)
            BY <1>1, <1>3, <2>1, <2>6 DEF Retry, Carries
        <3>2. carries \in Carried /\ carries.token = sent[c].token
            BY <3>1, EmptyCarried DEF Sendable
        <3> HIDE DEF carries
        <3>3. Stored' /\ TokensStay
            BY <2>5, <3>1, <3>2, FetchTypes, StoredStays
        <3>4. Called'
            BY <1>1, <2>1, <2>4, <2>5, <3>1, <3>2, FetchTypes DEF Called
        <3>5. Others(c)
            BY <2>1, <2>5, <3>1, <3>2, FetchTypes DEF Others
        <3>6. CASE pc'[c] = "done"
            BY <3>3, <3>4, <3>5, <3>6, CallTypes, OverCarries
        <3>7. CASE pc'[c] = "findReset" /\ sent'[c] = carries
            <4>1. Sendable(c)' /\ phase'[c] = "retry"
                BY <2>5, <3>1, <3>2, <3>3, <3>7, FetchTypes DEF Sendable, TokensStay
            <4>2. Carries(c)'
                BY <3>7, <4>1 DEF Carries, OfUser, RefreshSteps
            <4> QED
                BY <3>3, <3>4, <3>5, <4>2, CallTypes
        <3> QED
            BY <2>5, <3>1, <3>2, <3>6, <3>7, FetchTypes
    <2>7. CASE op[c] # "reset"
        <3>1. FetchGuarded(c, "retry")
            BY <1>3, <2>7 DEF Retry
        <3>2. Stored' /\ TokensStay
            BY <2>5, <3>1, GuardedTypes, StoredStays
        <3>3. Called'
            BY <1>1, <2>1, <2>4, <2>5, <3>1, GuardedTypes DEF Called
        <3>4. Others(c)
            BY <2>1, <2>5, <3>1, GuardedTypes DEF Others
        <3>5. Carries(c)'
            BY <2>1, <2>5, <2>7, <3>1, GuardedTypes, OverCarries
        <3> QED
            BY <3>2, <3>3, <3>4, <3>5, CallTypes
    <2> QED
        BY <2>6, <2>7
<1>4. CASE Receive(c)
    <2>1. /\ Settle(c, reply[c] = "ok" /\ phase[c] # "refresh") /\ StoreCookie(c)
          /\ Forget(c) /\ disturbed' = disturbed
        BY <1>4 DEF Receive
    <2>2. /\ cookie' \in [Browser -> Session \cup {None}]
          /\ access' \in [Browser -> User \cup {None}]
          /\ op' \in [Call -> Ops] /\ phase' \in [Call -> Phases]
          /\ \A d \in Call : d # c => phase'[d] = phase[d] /\ op'[d] = op[d]
          /\ UNCHANGED <<account, profile, pw, sess, grant, token, tokenUser, faults>>
        BY <2>1, SettleTypes, CookieTypes
    <2>3. TokensStay /\ Sent'
        BY <2>2 DEF TokensStay, Sent
    <2>4. Stored'
        BY <1>1, <2>1, <2>2, <2>3, ForgetTypes DEF Stored
    <2>5. Called'
        BY <1>1, <2>1, <2>2, ForgetTypes DEF Called
    <2>6. Others(c)
        BY <2>1, <2>2, ForgetTypes DEF Others
    <2>7. Carries(c)'
        BY <2>1, ForgetTypes, OverCarries
    <2> QED
        BY <2>3, <2>4, <2>5, <2>6, <2>7, CallTypes
<1>5. CASE Lose(c)
    <2>1. /\ Settle(c, FALSE) /\ Disturb(c)
          /\ UNCHANGED <<cookie, pc, sent, seen, fresh, reply, cleared, overtaken, beaten>>
        BY <1>5 DEF Lose, handler
    <2>2. /\ access' \in [Browser -> User \cup {None}]
          /\ op' \in [Call -> Ops] /\ phase' \in [Call -> Phases]
          /\ phase'[c] = "idle" /\ op'[c] = "page"
          /\ \A d \in Call : d # c => phase'[d] = phase[d] /\ op'[d] = op[d]
          /\ UNCHANGED <<account, profile, pw, sess, grant, token, tokenUser, faults>>
        BY <2>1, SettleTypes
    <2>3. Stored' /\ TokensStay
        BY <2>1, <2>2, StoredStays
    <2>4. disturbed' \in [Browser -> BOOLEAN]
        BY <2>1, FaultTypes
    <2>5. Called'
        BY <1>1, <2>1, <2>2, <2>4 DEF Called
    <2>6. Others(c)
        BY <2>1, <2>2 DEF Others
    <2>7. Carries(c)'
        BY <1>1, <2>1, <2>2, <2>3 DEF Carries, IsRefresh, Sendable, TokensStay
    <2> QED
        BY <2>3, <2>5, <2>6, <2>7, CallTypes
<1> QED
    BY <1>2, <1>3, <1>4, <1>5

\* Every step keeps the types.
LEMMA StepTypes == Silent /\ Types /\ [Next]_vars => Types'
<1> SUFFICES ASSUME Silent, Types, [Next]_vars PROVE Types'
    OBVIOUS
<1>1. GatewayTypeOK'
    BY StepSilent DEF Silent
<1>2. CASE UNCHANGED vars
    <2>1. UNCHANGED <<account, profile, pw, sess, grant, token, tokenUser, cookie, access, op, phase, pc,
                      sent, seen, fresh, reply, cleared, overtaken, beaten, faults, disturbed>>
        BY <1>2 DEF vars, users, sessions, tokens, browser, page, handler, history
    <2>2. Stored' /\ TokensStay
        BY <2>1, StoredStays
    <2>3. Called'
        BY <2>1, NowCalled DEF Called
    <2>4. TypeOK'
        BY <1>1, <2>2, <2>3 DEF TypeOK, Stored, Called
    <2>5. \A d \in Call : Carries(d)'
        BY <2>1, OthersCarry DEF Types, Sendable
    <2> QED
        BY <2>2, <2>4, <2>5 DEF Types, Stored
<1>3. CASE Next
    BY <1>1, <1>3, RowTypes, HoldTypes, EndTypes, SendTypes, AgainTypes DEF Next, Handler, Page
<1> QED
    BY <1>2, <1>3

\* Every variable has its type: a step never follows a session, a token or a user that is
\* not there, whatever calls were lost, sent again or given up.
THEOREM TypeCorrect == Spec => []TypeOK
<1>1. Types => TypeOK
    BY DEF Types
<1>2. Silent /\ Types /\ [Next]_vars => (Silent /\ Types)'
    BY StepSilent, StepTypes
<1> QED
    BY <1>1, <1>2, InitSilent, InitTypes, PTL DEF Spec

----------------------------------------------------------------------------
(* Steps that race with nobody *)

Alike(d) ==
    /\ pc'[d] = pc[d] /\ sent'[d] = sent[d] /\ seen'[d] = seen[d]
    /\ overtaken'[d] = overtaken[d] /\ beaten'[d] = beaten[d]

\* Here a handler holds nothing it has read of a session or a password.
Harmless == {"done", "answer", "findSession", "findUser", "findEmail", "createUser",
             "createReset", "findReset", "writePassword", "revokeOwn"}

\* Nothing but sessions that end, tokens that come and go, and requests that begin or end.
Plain ==
    /\ UNCHANGED <<grant, cleared, pw, account>>
    /\ \A s \in Session : sess'[s] \in {sess[s], "ended"}
    /\ TokensStay
    /\ \A t \in ResetToken : token'[t] # "unsent" => token[t] # "unsent" \/ account[tokenUser'[t]]
    /\ \A d \in Call : Alike(d) \/ pc'[d] \in Harmless

Racing(c) ==
    \/ FindSession(c) \/ Revoke(c) \/ FindUser(c) \/ CreateUser(c) \/ CreateProfile(c)
    \/ CreateSession(c) \/ WritePassword(c) \/ MarkUsed(c) \/ RevokeAll(c)

\* A request that begins or ends.
LEMMA OneIsPlain ==
    ASSUME Types, NEW c \in Call, pc'[c] \in Harmless,
           UNCHANGED <<account, pw, grant, sess, token, tokenUser, cleared>>,
           \A d \in Call : d # c => Alike(d)
    PROVE  Plain
BY DEF Plain, TokensStay, Types, TypeOK

LEMMA SettledAlike ==
    ASSUME Types, NEW c \in Call, Settled(c), NEW d \in Call, d # c
    PROVE  seen'[d] = seen[d] /\ overtaken'[d] = overtaken[d] /\ beaten'[d] = beaten[d]
BY DEF Settled, Types, TypeOK

LEMMA PlainSteps ==
    ASSUME Types, [Next]_vars
    PROVE  Plain \/ \E c \in Call : Racing(c)
<1> USE DEF Types
<1>1. ASSUME UNCHANGED <<account, pw, grant, tokenUser, cleared, pc, sent, seen, overtaken, beaten>>,
             \A s \in Session : sess'[s] \in {sess[s], "ended"},
             \A t \in ResetToken : token'[t] = token[t] \/ (token[t] # "unsent" /\ token'[t] # "unsent")
      PROVE  Plain
    BY <1>1 DEF Plain, Alike, TokensStay
<1>2. CASE UNCHANGED vars
    BY <1>1, <1>2 DEF vars, users, sessions, tokens, handler, history
<1>3. ASSUME NEW c \in Call, FindEmail(c) \/ FindReset(c) PROVE Plain
    <2>1. /\ \E next \in {"createUser", "writePassword", "answer"} : pc' = [pc EXCEPT ![c] = next]
          /\ UNCHANGED <<account, pw, grant, sess, token, tokenUser, cleared, sent, seen, overtaken, beaten>>
        BY <1>3 DEF FindEmail, FindReset, Advance, Answer, Goto, Reads, Races, users, sessions, tokens
    <2> QED
        BY <2>1, OneIsPlain DEF Alike, TypeOK, Harmless
<1>4. ASSUME NEW c \in Call, RevokeOwn(c) PROVE Plain
    <2>1. /\ pc' = [pc EXCEPT ![c] = "answer"]
          /\ sess' = (IF sent[c].session = None THEN sess ELSE [sess EXCEPT ![sent[c].session] = "ended"])
          /\ UNCHANGED <<account, pw, grant, token, tokenUser, cleared, sent, seen, overtaken, beaten>>
        BY <1>4 DEF RevokeOwn, Answer, Goto, Races, users, tokens
    <2>2. \A s \in Session : sess'[s] \in {sess[s], "ended"}
        BY <2>1 DEF TypeOK
    <2> QED
        BY <2>1, <2>2 DEF Plain, Alike, TypeOK, Harmless, TokensStay
<1>5. ASSUME NEW c \in Call, CreateReset(c) PROVE Plain
    <2>1. /\ pc' = [pc EXCEPT ![c] = "answer"]
          /\ UNCHANGED <<account, pw, grant, sess, cleared, sent, seen, overtaken, beaten>>
        BY <1>5 DEF CreateReset, Answer, Goto, Races, users, sessions
    <2>2. \/ UNCHANGED <<token, tokenUser>>
          \/ /\ account[sent[c].user]
             /\ \E t \in ResetToken :
                  /\ token[t] = "unsent" /\ token' = [token EXCEPT ![t] = "sent"]
                  /\ tokenUser' = [tokenUser EXCEPT ![t] = sent[c].user]
        BY <1>5 DEF CreateReset, tokens
    <2>3. /\ TokensStay
          /\ \A t \in ResetToken : token'[t] # "unsent" => token[t] # "unsent" \/ account[tokenUser'[t]]
        BY <2>2 DEF TokensStay, TypeOK
    <2> QED
        BY <2>1, <2>3 DEF Plain, Alike, TypeOK, Harmless
<1>6. ASSUME NEW c \in Call, Throw(c) PROVE Plain
    <2>1. /\ pc' = [pc EXCEPT ![c] = "answer"] /\ Settled(c)
          /\ UNCHANGED <<account, pw, grant, sess, token, tokenUser, cleared, sent>>
        BY <1>6 DEF Throw, Goto, users, sessions, tokens
    <2>2. \A d \in Call : d # c => Alike(d)
        BY <2>1, SettledAlike DEF Alike, TypeOK
    <2> QED
        BY <2>1, <2>2, OneIsPlain DEF Harmless, TypeOK
<1>7. ASSUME NEW c \in Call, Forget(c), UNCHANGED <<account, pw, grant, sess, token, tokenUser>>
      PROVE  Plain
    <2>1. Settled(c) /\ cleared' = cleared
        BY <1>7 DEF Forget
    <2>2. \A d \in Call : d # c => Alike(d)
        BY <1>7, <2>1, SettledAlike, ForgetTypes DEF Alike
    <2> QED
        BY <1>7, <2>1, <2>2, OneIsPlain, ForgetTypes DEF Harmless
<1>8. ASSUME NEW c \in Call, Die(c) \/ Discard(c) PROVE Plain
    <2>1. Forget(c) /\ UNCHANGED <<account, pw, grant, sess, token, tokenUser>>
        BY <1>8 DEF Die, Discard, users, sessions, tokens
    <2> QED
        BY <1>7, <2>1
<1>9. ASSUME NEW c \in Call, Receive(c) PROVE Plain
    <2>1. Forget(c) /\ Settle(c, reply[c] = "ok" /\ phase[c] # "refresh")
        BY <1>9 DEF Receive
    <2>2. UNCHANGED <<account, pw, grant, sess, token, tokenUser>>
        BY <2>1, SettleTypes
    <2> QED
        BY <1>7, <2>1, <2>2
<1>10. ASSUME NEW c \in Call, Lose(c) PROVE Plain
    <2>1. Settle(c, FALSE) /\ UNCHANGED <<pc, sent, seen, cleared, overtaken, beaten>>
        BY <1>10 DEF Lose, handler
    <2>2. UNCHANGED <<account, pw, grant, sess, token, tokenUser>>
        BY <2>1, SettleTypes
    <2> QED
        BY <1>1, <2>1, <2>2
<1>11. ASSUME NEW c \in Call, Network(c) PROVE Plain
    BY <1>1, <1>11 DEF Network, Served, users, sessions, tokens, handler, history
<1>12. CASE Restart /\ Served /\ UNCHANGED faults
    BY <1>1, <1>12 DEF Served, users, sessions, tokens, handler, history
<1>13. ASSUME NEW s \in Session, ExpireSession(s) PROVE Plain
    <2>1. /\ sess' = [sess EXCEPT ![s] = "ended"]
          /\ UNCHANGED <<account, pw, grant, token, tokenUser, cleared, pc, sent, seen, overtaken, beaten>>
        BY <1>13 DEF ExpireSession, users, tokens, handler, Races
    <2>2. \A r \in Session : sess'[r] \in {sess[r], "ended"}
        BY <2>1 DEF TypeOK
    <2> QED
        BY <1>1, <2>1, <2>2
<1>14. ASSUME NEW t \in ResetToken, ExpireToken(t) PROVE Plain
    <2>1. /\ token[t] = "sent" /\ token' = [token EXCEPT ![t] = "spent"]
          /\ UNCHANGED <<account, pw, grant, sess, tokenUser, cleared, pc, sent, seen, overtaken, beaten>>
        BY <1>14 DEF ExpireToken, users, sessions, handler, history
    <2>2. \A r \in ResetToken : token'[r] = token[r] \/ (token[r] # "unsent" /\ token'[r] # "unsent")
        BY <2>1 DEF TypeOK
    <2> QED
        BY <1>1, <2>1, <2>2
<1>15. ASSUME NEW c \in Call, NEW next, NEW carries, NEW first \in Harmless, Fetch(c, next, carries, first)
       PROVE  Plain
    <2>1. /\ pc' = [pc EXCEPT ![c] = IF up THEN first ELSE "done"]
          /\ sent' = [sent EXCEPT ![c] = IF up THEN carries ELSE Empty]
          /\ UNCHANGED <<account, pw, grant, sess, token, tokenUser, cleared, seen, overtaken, beaten>>
        BY <1>15 DEF Fetch, Goto, users, sessions, tokens
    <2>2. pc'[c] \in Harmless /\ \A d \in Call : d # c => pc'[d] = pc[d]
        BY <2>1 DEF TypeOK, Harmless
    <2>3. \A d \in Call : d # c => sent'[d] = sent[d]
        BY <2>1 DEF TypeOK
    <2> QED
        BY <2>1, <2>2, <2>3, OneIsPlain DEF Alike
<1>16. ASSUME NEW c \in Call, NEW next, FetchGuarded(c, next) PROVE Plain
    <2>1. /\ pc' = [pc EXCEPT ![c] = IF up THEN "answer" ELSE "done"]
          /\ sent' = [sent EXCEPT ![c] = Empty]
          /\ UNCHANGED <<account, pw, grant, sess, token, tokenUser, cleared, seen, overtaken, beaten>>
        BY <1>16 DEF FetchGuarded, Goto, users, sessions, tokens
    <2>2. pc'[c] \in Harmless /\ \A d \in Call : d # c => pc'[d] = pc[d]
        BY <2>1 DEF TypeOK, Harmless
    <2>3. \A d \in Call : d # c => sent'[d] = sent[d]
        BY <2>1 DEF TypeOK
    <2> QED
        BY <2>1, <2>2, <2>3, OneIsPlain DEF Alike
<1>17. ASSUME NEW c \in Call, Send(c) PROVE Plain
    <2>1. ASSUME NEW o, NEW carries, NEW first \in Harmless, Ask(c, o, carries, first) PROVE Plain
        BY <1>15, <2>1 DEF Ask
    <2>2. /\ "findSession" \in Harmless /\ "findUser" \in Harmless /\ "findEmail" \in Harmless
          /\ "createReset" \in Harmless /\ "findReset" \in Harmless /\ "revokeOwn" \in Harmless
        BY DEF Harmless
    <2> QED
        BY <1>16, <1>17, <2>1, <2>2 DEF Send
<1>18. ASSUME NEW c \in Call, BeginRefresh(c) \/ Retry(c) PROVE Plain
    <2>1. "findSession" \in Harmless /\ "findReset" \in Harmless
        BY DEF Harmless
    <2> QED
        BY <1>15, <1>16, <1>18, <2>1 DEF BeginRefresh, Retry
<1> QED
    BY <1>2, <1>3, <1>4, <1>5, <1>6, <1>8, <1>9, <1>10, <1>11, <1>12, <1>13, <1>14, <1>17, <1>18
       DEF Next, Handler, Page, Racing

----------------------------------------------------------------------------
(* Rotation *)

Exchanges(c) == pc[c] \in {"revoke", "createSession"} /\ IsRefresh(c)
Exchanged(c) == pc[c] = "createSession" /\ IsRefresh(c)

\* A session that was exchanged, or is about to be, has ended; of those who hold it or were
\* issued for it no two are unbeaten, but those that have not revoked it yet.
Heirs ==
    /\ OneHeir
    /\ \A s \in Session : sess[s] = "unborn" => grant[s].from = None
    /\ \A s \in Session : grant[s].from # None => sess[grant[s].from] = "ended"
    /\ \A c \in Call : Exchanged(c) => sess[sent[c].session] = "ended"
    /\ \A c \in Call, s \in Session :
         Exchanges(c) /\ grant[s].from = sent[c].session => beaten[c] \/ grant[s].beaten
    /\ \A c, d \in Call :
         c # d /\ Exchanges(c) /\ Exchanged(d) /\ sent[c].session = sent[d].session
         => beaten[c] \/ beaten[d]

LEMMA InitHeirs == Init => Heirs
BY NoneAssumption DEF Init, Heirs, OneHeir, NoGrant, Exchanges, Exchanged

\* Steps that issue nothing and begin no exchange.
LEMMA HeirsKept ==
    ASSUME Types, Heirs, grant' = grant,
           \A s \in Session : sess'[s] \in {sess[s], "ended"},
           \A d \in Call : \/ pc'[d] = pc[d] /\ sent'[d] = sent[d] /\ (beaten[d] => beaten'[d])
                           \/ ~Exchanges(d)'
    PROVE  Heirs'
<1>1. \A s \in Session : grant[s].from \in Session \cup {None}
    BY DEF Types, TypeOK, Grant
<1>2. \A c \in Call : Exchanged(c) => Exchanges(c)
    BY DEF Exchanged, Exchanges
<1>3. \A c \in Call : Exchanges(c) => sent[c].session \in Session
    BY DEF Exchanges, Types, Carries
<1>4. \A c \in Call : Exchanges(c)' => /\ Exchanges(c) /\ sent'[c] = sent[c]
                                       /\ (beaten[c] => beaten'[c])
    BY DEF Exchanges, IsRefresh
<1>5. \A c \in Call : Exchanged(c)' => Exchanged(c) /\ Exchanges(c)'
    BY DEF Exchanges, Exchanged, IsRefresh
<1>6. OneHeir'
    BY DEF Heirs, OneHeir
<1>7. \A s \in Session : sess'[s] = "unborn" => grant'[s].from = None
    BY DEF Heirs
<1>8. \A s \in Session : grant'[s].from # None => sess'[grant'[s].from] = "ended"
    BY <1>1 DEF Heirs
<1>9. \A c \in Call : Exchanged(c)' => sess'[sent'[c].session] = "ended"
    BY <1>2, <1>3, <1>4, <1>5 DEF Heirs
<1>10. \A c \in Call, s \in Session :
         Exchanges(c)' /\ grant'[s].from = sent'[c].session => beaten'[c] \/ grant'[s].beaten
    BY <1>4 DEF Heirs
<1>11. \A c, d \in Call :
         c # d /\ Exchanges(c)' /\ Exchanged(d)' /\ sent'[c].session = sent'[d].session
         => beaten'[c] \/ beaten'[d]
    BY <1>4, <1>5 DEF Heirs
<1> QED
    BY <1>6, <1>7, <1>8, <1>9, <1>10, <1>11 DEF Heirs

LEMMA RacingHeirs ==
    ASSUME Types, Heirs, NEW c \in Call, Racing(c)
    PROVE  Heirs'
<1> USE DEF Types
<1>1. Carries(c)
    OBVIOUS
<1>2. CASE FindUser(c) \/ CreateUser(c) \/ CreateProfile(c)
    <2>1. /\ \E next : pc' = [pc EXCEPT ![c] = next]
          /\ UNCHANGED <<sess, grant, sent, beaten>>
        BY <1>2 DEF FindUser, CreateUser, CreateProfile, Advance, Answer, Goto, Reads, Races, sessions
    <2>2. ~IsRefresh(c)
        BY <1>1, <1>2, NoneAssumption DEF FindUser, CreateUser, CreateProfile, Carries, OfUser, IsRefresh
    <2>3. \A d \in Call : d # c => pc'[d] = pc[d]
        BY <2>1 DEF TypeOK
    <2> QED
        BY <2>1, <2>2, <2>3, HeirsKept DEF Exchanges, IsRefresh
<1>3. CASE WritePassword(c) \/ MarkUsed(c)
    <2>1. /\ \E next \in {"markUsed", "revokeAll"} : pc' = [pc EXCEPT ![c] = next]
          /\ UNCHANGED <<sess, grant, sent, beaten>>
        BY <1>3 DEF WritePassword, MarkUsed, Advance, Goto, Races, sessions, history
    <2>2. \A d \in Call : (d # c => pc'[d] = pc[d]) /\ (d = c => pc'[d] \notin {"revoke", "createSession"})
        BY <2>1 DEF TypeOK
    <2> QED
        BY <2>1, <2>2, HeirsKept DEF Exchanges
<1>4. CASE RevokeAll(c)
    <2>1. /\ pc' = [pc EXCEPT ![c] = "answer"] /\ UNCHANGED <<grant, sent, beaten>>
          /\ sess' = [s \in Session |->
                        IF grant[s].owner = ResetUser(c) /\ sess[s] = "live" THEN "ended" ELSE sess[s]]
        BY <1>4 DEF RevokeAll, Goto
    <2>2. \A d \in Call : (d # c => pc'[d] = pc[d]) /\ (d = c => pc'[d] \notin {"revoke", "createSession"})
        BY <2>1 DEF TypeOK
    <2>3. \A s \in Session : sess'[s] \in {sess[s], "ended"}
        BY <2>1
    <2> QED
        BY <2>1, <2>2, <2>3, HeirsKept DEF Exchanges
<1>5. CASE FindSession(c)
    <2> DEFINE p == sent[c].session
    <2>1. UNCHANGED <<sess, grant, sent, beaten>>
        BY <1>5 DEF FindSession, Advance, Answer, Reads, Races, sessions
    <2>2. CASE pc' = [pc EXCEPT ![c] = "answer"]
        <3>1. \A d \in Call : (d # c => pc'[d] = pc[d]) /\ (d = c => pc'[d] \notin {"revoke", "createSession"})
            BY <2>2 DEF TypeOK
        <3> QED
            BY <2>1, <3>1, HeirsKept DEF Exchanges
    <2>3. CASE pc' = [pc EXCEPT ![c] = "revoke"] /\ p # None /\ sess[p] = "live"
        <3>1. p \in Session
            BY <2>3 DEF TypeOK, Carried
        <3>2. \A s \in Session : grant[s].from # p
            BY <2>3 DEF Heirs
        <3>3. \A d \in Call : Exchanged(d) => sent[d].session # p
            BY <2>3 DEF Heirs
        <3>4. /\ \A d \in Call : d # c => (Exchanges(d)' <=> Exchanges(d)) /\ (Exchanged(d)' <=> Exchanged(d))
              /\ ~Exchanged(c)'
            BY <2>1, <2>3 DEF Exchanges, Exchanged, IsRefresh, TypeOK
        <3>5. OneHeir'
            BY <2>1 DEF Heirs, OneHeir
        <3>6. \A d \in Call, s \in Session :
                Exchanges(d)' /\ grant'[s].from = sent'[d].session => beaten'[d] \/ grant'[s].beaten
            BY <2>1, <3>2, <3>4 DEF Heirs
        <3>7. \A d, e \in Call :
                d # e /\ Exchanges(d)' /\ Exchanged(e)' /\ sent'[d].session = sent'[e].session
                => beaten'[d] \/ beaten'[e]
            BY <2>1, <3>3, <3>4 DEF Heirs
        <3>8. \A d \in Call : Exchanged(d)' => sess'[sent'[d].session] = "ended"
            BY <2>1, <3>4 DEF Heirs
        <3> QED
            BY <2>1, <3>5, <3>6, <3>7, <3>8 DEF Heirs
    <2> QED
        BY <1>5, <2>2, <2>3 DEF FindSession, Advance, Answer, Goto
<1>6. CASE Revoke(c)
    <2> DEFINE p == sent[c].session
    <2>1. /\ pc[c] = "revoke" /\ pc' = [pc EXCEPT ![c] = "createSession"]
          /\ UNCHANGED <<grant, sent>>
          /\ sess' = [sess EXCEPT ![p] = "ended"]
          /\ beaten' = [d \in Call |-> beaten[d] \/ (d # c /\ Refreshes(d, p))]
        BY <1>6 DEF Revoke, Advance, Goto
    <2>2. p \in Session /\ IsRefresh(c)
        BY <1>1, <2>1 DEF Carries, RefreshSteps
    <2>3. \A s \in Session : sess'[s] \in {sess[s], "ended"}
        BY <2>1 DEF TypeOK
    <2>4. sess'[p] = "ended"
        BY <2>1, <2>2 DEF TypeOK
    <2>5. \A d \in Call : /\ beaten[d] => beaten'[d]
                          /\ d # c /\ Refreshes(d, p) => beaten'[d]
        BY <2>1
    <2>6. \A d \in Call : /\ Exchanges(d)' <=> Exchanges(d)
                          /\ d # c => (Exchanged(d)' <=> Exchanged(d))
        BY <2>1 DEF Exchanges, Exchanged, IsRefresh, TypeOK
    <2>7. \A d \in Call : Exchanges(d) => Exchanged(d) \/ pc[d] = "revoke"
        BY DEF Exchanges, Exchanged
    <2> HIDE DEF p
    <2>8. OneHeir'
        BY <2>1 DEF Heirs, OneHeir
    <2>9. \A s \in Session : sess'[s] = "unborn" => grant'[s].from = None
        BY <2>1, <2>3 DEF Heirs
    <2>10. \A s \in Session : grant[s].from \in Session \cup {None}
        BY DEF TypeOK, Grant
    <2>11. \A s \in Session : grant'[s].from # None => sess'[grant'[s].from] = "ended"
        BY <2>1, <2>3, <2>10 DEF Heirs
    <2>12. \A d \in Call : Exchanged(d) => sent[d].session \in Session
        BY DEF Exchanged, Carries
    <2>13. \A d \in Call : Exchanged(d)' => sess'[sent'[d].session] = "ended"
        BY <2>1, <2>3, <2>4, <2>6, <2>12 DEF Heirs, p
    <2>14. \A d \in Call, s \in Session :
             Exchanges(d)' /\ grant'[s].from = sent'[d].session => beaten'[d] \/ grant'[s].beaten
        BY <2>1, <2>5, <2>6 DEF Heirs
    <2>15. \A d, e \in Call :
             d # e /\ Exchanges(d)' /\ Exchanged(e)' /\ sent'[d].session = sent'[e].session
             => beaten'[d] \/ beaten'[e]
        <3>1. SUFFICES ASSUME NEW d \in Call, NEW e \in Call, d # e, Exchanges(d), Exchanged(e)',
                              sent[d].session = sent[e].session
                       PROVE  beaten'[d] \/ beaten'[e]
            BY <2>1, <2>6
        <3>2. CASE e # c
            BY <2>5, <2>6, <3>1, <3>2 DEF Heirs
        <3>3. CASE e = c /\ Exchanged(d)
            <4>1. beaten[c] \/ beaten[d]
                <5>1. Exchanges(c)
                    BY <2>1, <2>2 DEF Exchanges
                <5> QED
                    BY <3>1, <3>3, <5>1 DEF Heirs
            <4> QED
                BY <2>5, <3>3, <4>1
        <3>4. CASE e = c /\ pc[d] = "revoke"
            BY <2>5, <3>1, <3>4 DEF Refreshes, p
        <3> QED
            BY <2>7, <3>1, <3>2, <3>3, <3>4
    <2> QED
        BY <2>8, <2>9, <2>11, <2>13, <2>14, <2>15 DEF Heirs
<1>7. CASE CreateSession(c)
    <2> DEFINE p == sent[c].session
    <2>1. /\ pc[c] = "createSession" /\ pc' = [pc EXCEPT ![c] = "answer"]
          /\ sent' = sent /\ Settled(c)
        BY <1>7 DEF CreateSession, Goto
    <2>2. PICK s \in Session : /\ sess[s] = "unborn"
                               /\ sess' = [sess EXCEPT ![s] = "live"]
                               /\ grant' = [grant EXCEPT ![s] = GrantOf(c)]
        BY <1>7 DEF CreateSession, Unborn
    <2>3. \A d \in Call : d # c => /\ beaten'[d] = beaten[d]
                                   /\ Exchanges(d)' <=> Exchanges(d)
                                   /\ Exchanged(d)' <=> Exchanged(d)
        BY <2>1, SettledAlike DEF Exchanges, Exchanged, IsRefresh, TypeOK
    <2>4. ~Exchanges(c)' /\ ~Exchanged(c)'
        BY <2>1 DEF Exchanges, Exchanged, TypeOK
    <2>5. /\ sess'[s] = "live" /\ grant'[s] = GrantOf(c)
          /\ \A r \in Session : r # s => sess'[r] = sess[r] /\ grant'[r] = grant[r]
        BY <2>2 DEF TypeOK
    <2>6. /\ IsRefresh(c) => /\ grant'[s].from = p /\ grant'[s].beaten = beaten[c]
                             /\ p \in Session /\ sess[p] = "ended" /\ p # s
          /\ ~IsRefresh(c) => grant'[s].from = None
        <3>1. IsRefresh(c) => p \in Session
            BY <1>1, <2>1 DEF Carries
        <3>2. IsRefresh(c) => sess[p] = "ended" /\ p # s
            BY <2>1, <2>2 DEF Heirs, Exchanged
        <3>3. CASE IsRefresh(c)
            <4>1. GrantOf(c) = [owner |-> grant[p].owner, password |-> grant[p].password, from |-> p,
                                late |-> overtaken[c] \/ grant[p].late, beaten |-> beaten[c]]
                BY <3>3 DEF GrantOf
            <4>2. grant'[s].from = p /\ grant'[s].beaten = beaten[c]
                BY <2>5, <4>1
            <4> QED
                BY <3>1, <3>2, <3>3, <4>2
        <3>4. CASE ~IsRefresh(c)
            <4>1. GrantOf(c) = [owner |-> sent[c].user, password |-> seen[c], from |-> None,
                                late |-> overtaken[c], beaten |-> FALSE]
                BY <3>4 DEF GrantOf
            <4>2. grant'[s].from = None
                BY <2>5, <4>1
            <4> QED
                BY <3>4, <4>2
        <3> QED
            BY <3>3, <3>4
    <2>7. \A r \in Session : /\ grant[r].from \in Session \cup {None}
                             /\ grant[r].from # s
        BY <2>2, NoneAssumption DEF TypeOK, Grant, Heirs
    <2>8. \A r \in Session : sess'[r] = "unborn" => grant'[r].from = None
        BY <2>5 DEF Heirs
    <2> HIDE DEF p
    <2>9. OneHeir'
        <3>1. \A r \in Session : r # s /\ IsRefresh(c) /\ grant'[r].from = p => beaten[c] \/ grant'[r].beaten
            BY <2>1, <2>5 DEF Heirs, Exchanges, p
        <3> QED
            BY <2>5, <2>6, <3>1 DEF Heirs, OneHeir
    <2>10. \A r \in Session : grant'[r].from # None => sess'[grant'[r].from] = "ended"
        BY <2>5, <2>6, <2>7 DEF Heirs
    <2>11. \A d \in Call : Exchanged(d)' => sess'[sent'[d].session] = "ended"
        BY <2>1, <2>2, <2>3, <2>4, <2>5, NoneAssumption DEF Heirs, Exchanged, Carries
    <2>12. \A d \in Call, r \in Session :
             Exchanges(d)' /\ grant'[r].from = sent'[d].session => beaten'[d] \/ grant'[r].beaten
        <3>1. SUFFICES ASSUME NEW d \in Call, NEW r \in Session, d # c, Exchanges(d),
                              grant'[r].from = sent[d].session
                       PROVE  beaten[d] \/ grant'[r].beaten
            BY <2>1, <2>3, <2>4
        <3>2. sent[d].session # None
            BY <3>1, NoneAssumption DEF Exchanges, Carries
        <3>3. CASE r # s
            BY <2>5, <3>1, <3>3 DEF Heirs
        <3>4. CASE r = s
            <4>1. IsRefresh(c) /\ sent[d].session = p /\ grant'[r].beaten = beaten[c]
                BY <2>6, <3>1, <3>2, <3>4
            <4>2. Exchanged(c)
                BY <2>1, <4>1 DEF Exchanged
            <4> QED
                BY <3>1, <4>1, <4>2 DEF Heirs, p
        <3> QED
            BY <3>3, <3>4
    <2>13. \A d, e \in Call :
             d # e /\ Exchanges(d)' /\ Exchanged(e)' /\ sent'[d].session = sent'[e].session
             => beaten'[d] \/ beaten'[e]
        BY <2>1, <2>3, <2>4 DEF Heirs
    <2> QED
        BY <2>8, <2>9, <2>10, <2>11, <2>12, <2>13 DEF Heirs
<1> QED
    BY <1>2, <1>3, <1>4, <1>5, <1>6, <1>7 DEF Racing

LEMMA StepHeirs == Types /\ Heirs /\ [Next]_vars => Heirs'
<1> SUFFICES ASSUME Types, Heirs, [Next]_vars PROVE Heirs'
    OBVIOUS
<1>1. CASE Plain
    <2>1. \A d \in Call : \/ pc'[d] = pc[d] /\ sent'[d] = sent[d] /\ (beaten[d] => beaten'[d])
                          \/ ~Exchanges(d)'
        BY <1>1 DEF Plain, Alike, Harmless, Exchanges
    <2> QED
        BY <1>1, <2>1, HeirsKept DEF Plain
<1> QED
    BY <1>1, PlainSteps, RacingHeirs

\* Rotation: a refresh token is exchanged for one session, unless the request had found it
\* before the first exchange was recorded -- the one read that refresh does not repeat.
THEOREM OneExchange == Spec => []OneHeir
<1>1. Heirs => OneHeir
    BY DEF Heirs
<1>2. Silent /\ Types /\ Heirs /\ [Next]_vars => (Silent /\ Types /\ Heirs)'
    BY StepSilent, StepTypes, StepHeirs
<1> QED
    BY <1>1, <1>2, InitSilent, InitTypes, InitHeirs, PTL DEF Spec

----------------------------------------------------------------------------
(* Resets *)

Covered(s) == grant[s].late \/ grant[s].password >= cleared[grant[s].owner]

\* A session that lives, and one that is being exchanged, is covered and has an owner.
Owned(s) == sess[s] = "live" => grant[s].owner \in User /\ Covered(s)
Followed(c) ==
    Exchanges(c) => /\ sess[sent[c].session] # "unborn" /\ grant[sent[c].session].owner \in User
                    /\ overtaken[c] \/ Covered(sent[c].session)

\* So is the one that a login or a signup will issue.
InTime(c) ==
    pc[c] \in {"createProfile", "createSession"} /\ ~IsRefresh(c)
    => overtaken[c] \/ seen[c] >= cleared[sent[c].user]

\* A reset writes its password before it revokes, and only of users who have an account.
Written(c) == pc[c] \in {"markUsed", "revokeAll"} => seen[c] <= pw[ResetUser(c)]
SentToAccounts == \A t \in ResetToken : token[t] # "unsent" => account[tokenUser[t]]
ClearedLater(u) == cleared[u] <= pw[u] /\ (~account[u] => cleared[u] = 0)

Resets ==
    /\ \A s \in Session : Owned(s)
    /\ \A c \in Call : Followed(c) /\ InTime(c) /\ Written(c)
    /\ SentToAccounts
    /\ \A u \in User : ClearedLater(u)

LEMMA InitResets == Init => Resets
BY DEF Init, Resets, Owned, Followed, InTime, Written, SentToAccounts, ClearedLater, Exchanges

LEMMA Numbers ==
    ASSUME Types
    PROVE  /\ \A c \in Call : seen[c] \in Nat /\ sent[c].user \in User \cup {None}
           /\ \A u \in User : pw[u] \in Nat /\ cleared[u] \in Nat
           /\ \A s \in Session : grant[s].password \in Nat
           /\ \A c \in Call : pc[c] \in OfUser => sent[c].user \in User
           /\ \A c \in Call : pc[c] \in ResetSteps => ResetUser(c) \in User
           /\ \A c \in Call : Exchanges(c) => sent[c].session \in Session
           /\ \A c \in Call : pc[c] \in ResetSteps =>
                 sent[c].token \in ResetToken /\ token[sent[c].token] # "unsent"
<1>1. Password \subseteq Nat
    BY BoundsAssumption DEF Password
<1> QED
    BY <1>1 DEF Types, TypeOK, Grant, Carried, Carries, Sendable, Sent, ResetUser, Exchanges

Same(d) == pc'[d] = pc[d] /\ sent'[d] = sent[d] /\ seen'[d] = seen[d]

\* The sessions keep their cover when nobody's sessions are revoked and none is issued.
LEMMA CoverKept ==
    ASSUME Types, Resets, grant' = grant, cleared' = cleared,
           \A s \in Session : sess'[s] \in {sess[s], "ended"},
           \A d \in Call : \/ Same(d) /\ overtaken'[d] = overtaken[d]
                           \/ Followed(d)' /\ InTime(d)'
    PROVE  /\ \A s \in Session : Owned(s)'
           /\ \A d \in Call : Followed(d)' /\ InTime(d)'
<1>1. \A s \in Session : Covered(s)' <=> Covered(s)
    BY DEF Covered
<1>2. \A s \in Session : Owned(s)'
    BY <1>1 DEF Resets, Owned
<1>3. ASSUME NEW d \in Call, Same(d), overtaken'[d] = overtaken[d]
      PROVE  Followed(d)' /\ InTime(d)'
    <2>1. Exchanges(d)' <=> Exchanges(d)
        BY <1>3 DEF Same, Exchanges, IsRefresh
    <2>2. Exchanges(d) => sent[d].session \in Session
        BY Numbers
    <2>3. Followed(d)'
        BY <1>1, <1>3, <2>1, <2>2 DEF Resets, Followed, Same
    <2>4. InTime(d)'
        BY <1>3 DEF Resets, InTime, Same, IsRefresh
    <2> QED
        BY <2>3, <2>4
<1> QED
    BY <1>2, <1>3

\* The passwords and tokens keep their order when no account or password is written.
LEMMA OrderKept ==
    ASSUME Types, Resets, UNCHANGED <<account, pw, cleared>>, TokensStay,
           \A t \in ResetToken : token'[t] # "unsent" => token[t] # "unsent" \/ account[tokenUser'[t]],
           \A d \in Call : Same(d) \/ pc'[d] \notin {"markUsed", "revokeAll"}
                           \/ (pc[d] = "markUsed" /\ sent'[d] = sent[d] /\ seen'[d] = seen[d])
    PROVE  /\ \A d \in Call : Written(d)'
           /\ SentToAccounts' /\ \A u \in User : ClearedLater(u)'
<1>1. ASSUME NEW d \in Call, pc[d] \in {"markUsed", "revokeAll"}, sent'[d] = sent[d], seen'[d] = seen[d]
      PROVE  Written(d)'
    <2>1. pc[d] \in ResetSteps
        BY <1>1 DEF ResetSteps
    <2>2. ResetUser(d)' = ResetUser(d)
        BY <1>1, <2>1, Numbers DEF ResetUser, TokensStay
    <2> QED
        BY <1>1, <2>2 DEF Resets, Written
<1>2. \A d \in Call : Written(d)'
    BY <1>1 DEF Same, Written
<1>3. SentToAccounts'
    BY DEF Resets, SentToAccounts, TokensStay
<1> QED
    BY <1>2, <1>3 DEF Resets, ClearedLater

LEMMA ReadingResets ==
    ASSUME Types, Resets, NEW c \in Call, FindUser(c) \/ FindSession(c) \/ CreateProfile(c)
    PROVE  Resets'
<1> USE DEF Types
<1>1. /\ UNCHANGED <<account, pw, sess, grant, token, tokenUser, sent, cleared, overtaken>>
      /\ \A d \in Call : d # c => Same(d)
      /\ pc'[c] \in {"answer", "revoke", "createSession"}
    BY DEF FindUser, FindSession, CreateProfile, Advance, Answer, Goto, Reads, Races,
           users, sessions, tokens, TypeOK, Same
<1>2. ASSUME pc'[c] = "answer" PROVE Followed(c)' /\ InTime(c)'
    BY <1>2 DEF Followed, InTime, Exchanges
<1>3. ASSUME FindUser(c) /\ pc'[c] # "answer" PROVE Followed(c)' /\ InTime(c)'
    <2>1. sent[c].user \in User /\ pw[sent[c].user] \in Nat /\ cleared[sent[c].user] \in Nat
        BY <1>3, Numbers DEF FindUser, OfUser
    <2>2. pc'[c] = "createSession" /\ seen'[c] = pw[sent[c].user]
        BY <1>3 DEF FindUser, Answer, Goto, TypeOK
    <2>3. ~IsRefresh(c) /\ ~IsRefresh(c)'
        BY <1>1, <2>1, NoneAssumption DEF IsRefresh
    <2>4. InTime(c)'
        BY <1>1, <2>1, <2>2 DEF InTime, Resets, ClearedLater
    <2> QED
        BY <2>3, <2>4 DEF Followed, Exchanges
<1>4. ASSUME CreateProfile(c) /\ pc'[c] # "answer" PROVE Followed(c)' /\ InTime(c)'
    <2>1. sent[c].user \in User /\ seen' = seen /\ pc[c] = "createProfile"
        BY <1>4, Numbers DEF CreateProfile, OfUser, Advance
    <2>2. ~IsRefresh(c) /\ ~IsRefresh(c)'
        BY <1>1, <2>1, NoneAssumption DEF IsRefresh
    <2>3. InTime(c)'
        BY <1>1, <2>1, <2>2 DEF InTime, Resets
    <2> QED
        BY <2>2, <2>3 DEF Followed, Exchanges
<1>5. ASSUME FindSession(c) /\ pc'[c] # "answer" PROVE Followed(c)' /\ InTime(c)'
    <2> DEFINE p == sent[c].session
    <2>1. p # None /\ sess[p] = "live" /\ pc'[c] = "revoke"
        BY <1>5 DEF FindSession, Advance, Answer, Goto, TypeOK
    <2>2. p \in Session
        BY <2>1 DEF TypeOK, Carried
    <2>3. grant[p].owner \in User /\ Covered(p)
        BY <2>1, <2>2 DEF Resets, Owned
    <2>4. Covered(p)' <=> Covered(p)
        BY <1>1 DEF Covered
    <2>5. Followed(c)'
        BY <1>1, <2>1, <2>3, <2>4 DEF Followed, Covered
    <2> QED
        BY <2>1, <2>5 DEF InTime
<1>6. Followed(c)' /\ InTime(c)'
    BY <1>2, <1>3, <1>4, <1>5
<1>7. \A d \in Call : Same(d) \/ pc'[d] \notin {"markUsed", "revokeAll"}
    BY <1>1
<1>8. /\ \A s \in Session : Owned(s)'
      /\ \A d \in Call : Followed(d)' /\ InTime(d)'
    BY <1>1, <1>6, CoverKept
<1>9. /\ \A d \in Call : Written(d)'
      /\ SentToAccounts' /\ \A u \in User : ClearedLater(u)'
    BY <1>1, <1>7, OrderKept DEF TokensStay
<1> QED
    BY <1>8, <1>9 DEF Resets

LEMMA CreateUserResets ==
    ASSUME Types, Resets, NEW c \in Call, CreateUser(c)
    PROVE  Resets'
<1> DEFINE u == sent[c].user
<1> USE DEF Types
<1>1. u \in User
    BY Numbers DEF CreateUser, OfUser
<1>2. /\ UNCHANGED <<pw, sess, grant, token, tokenUser, sent, seen, cleared, overtaken>>
      /\ \A d \in Call : d # c => Same(d)
      /\ pc'[c] \in {"answer", "createProfile", "createSession"}
      /\ pc'[c] # "answer" => ~account[u]
      /\ account' = account \/ account' = [account EXCEPT ![u] = TRUE]
    BY DEF CreateUser, Advance, Answer, Goto, Races, users, sessions, tokens, TypeOK, Same
<1>3. ~IsRefresh(c)'
    BY <1>1, <1>2, NoneAssumption DEF IsRefresh
<1>4. InTime(c)'
    <2>1. CASE pc'[c] # "answer"
        <3>1. cleared[u] = 0
            BY <1>1, <1>2, <2>1 DEF Resets, ClearedLater
        <3>2. seen[c] >= 0
            BY Numbers
        <3> QED
            BY <1>2, <3>1, <3>2 DEF InTime
    <2> QED
        BY <2>1 DEF InTime
<1>5. /\ \A s \in Session : Owned(s)'
      /\ \A d \in Call : Followed(d)' /\ InTime(d)'
    BY <1>2, <1>3, <1>4, CoverKept DEF Followed, Exchanges
<1>6. \A v \in User : account[v] => account'[v]
    BY <1>2 DEF TypeOK
<1>7. \A d \in Call : Written(d)'
    BY <1>2 DEF Resets, Written, Same, ResetUser
<1>8. SentToAccounts'
    BY <1>2, <1>6 DEF Resets, SentToAccounts, Sent
<1>9. \A v \in User : ClearedLater(v)'
    BY <1>2, <1>6 DEF Resets, ClearedLater
<1> QED
    BY <1>5, <1>7, <1>8, <1>9 DEF Resets

LEMMA RevokeResets ==
    ASSUME Types, Resets, NEW c \in Call, Revoke(c)
    PROVE  Resets'
<1> DEFINE p == sent[c].session
<1> USE DEF Types
<1>1. /\ UNCHANGED <<account, pw, grant, token, tokenUser, sent, cleared, overtaken>>
      /\ \A d \in Call : d # c => Same(d)
      /\ pc[c] = "revoke" /\ pc'[c] = "createSession"
      /\ sess' = [sess EXCEPT ![p] = "ended"]
    BY DEF Revoke, Advance, Goto, users, tokens, TypeOK, Same
<1>2. IsRefresh(c) /\ p \in Session
    BY <1>1 DEF Carries, RefreshSteps
<1>3. Exchanges(c)
    BY <1>1, <1>2 DEF Exchanges
<1>4. Covered(p)' <=> Covered(p)
    BY <1>1 DEF Covered
<1>5. Followed(c)'
    BY <1>1, <1>2, <1>3, <1>4 DEF Resets, Followed, TypeOK
<1>6. InTime(c)'
    BY <1>1, <1>2 DEF InTime, IsRefresh
<1>7. \A s \in Session : sess'[s] \in {sess[s], "ended"}
    BY <1>1 DEF TypeOK
<1>8. /\ \A s \in Session : Owned(s)'
      /\ \A d \in Call : Followed(d)' /\ InTime(d)'
    BY <1>1, <1>5, <1>6, <1>7, CoverKept
<1>9. \A d \in Call : Same(d) \/ pc'[d] \notin {"markUsed", "revokeAll"}
    BY <1>1
<1>10. /\ \A d \in Call : Written(d)'
       /\ SentToAccounts' /\ \A u \in User : ClearedLater(u)'
    BY <1>1, <1>9, OrderKept DEF TokensStay
<1> QED
    BY <1>8, <1>10 DEF Resets

LEMMA CreateSessionResets ==
    ASSUME Types, Resets, NEW c \in Call, CreateSession(c)
    PROVE  Resets'
<1> DEFINE p == sent[c].session
<1> USE DEF Types
<1>1. /\ UNCHANGED <<account, pw, token, tokenUser, sent, cleared>>
      /\ pc[c] = "createSession" /\ pc' = [pc EXCEPT ![c] = "answer"] /\ Settled(c)
    BY DEF CreateSession, Goto, users, tokens
<1>2. \A d \in Call : d # c => Same(d) /\ overtaken'[d] = overtaken[d]
    BY <1>1, SettledAlike DEF Same, TypeOK
<1>3. PICK s \in Session : /\ sess[s] = "unborn"
                           /\ sess' = [sess EXCEPT ![s] = "live"]
                           /\ grant' = [grant EXCEPT ![s] = GrantOf(c)]
    BY DEF CreateSession, Unborn
<1>4. /\ sess'[s] = "live" /\ grant'[s] = GrantOf(c)
      /\ \A r \in Session : r # s => sess'[r] = sess[r] /\ grant'[r] = grant[r]
    BY <1>3 DEF TypeOK
<1>5. Owned(s)'
    <2>1. CASE IsRefresh(c)
        <3>1. /\ p \in Session /\ grant[p].owner \in User
              /\ overtaken[c] \/ Covered(p)
            BY <1>1, <2>1, Numbers DEF Resets, Followed, Exchanges
        <3>2. GrantOf(c) = [owner |-> grant[p].owner, password |-> grant[p].password, from |-> p,
                            late |-> overtaken[c] \/ grant[p].late, beaten |-> beaten[c]]
            BY <2>1 DEF GrantOf
        <3>3. grant'[s].owner = grant[p].owner /\ grant'[s].password = grant[p].password
            BY <1>4, <3>2
        <3>4. grant'[s].late = (overtaken[c] \/ grant[p].late)
            BY <1>4, <3>2
        <3> QED
            BY <1>1, <3>1, <3>3, <3>4 DEF Owned, Covered
    <2>2. CASE ~IsRefresh(c)
        <3>1. sent[c].user \in User
            BY <2>2, Numbers DEF IsRefresh
        <3>2. overtaken[c] \/ seen[c] >= cleared[sent[c].user]
            BY <1>1, <2>2 DEF Resets, InTime
        <3>3. GrantOf(c) = [owner |-> sent[c].user, password |-> seen[c], from |-> None,
                            late |-> overtaken[c], beaten |-> FALSE]
            BY <2>2 DEF GrantOf
        <3>4. /\ grant'[s].owner = sent[c].user /\ grant'[s].password = seen[c]
              /\ grant'[s].late <=> overtaken[c]
            BY <1>4, <3>3
        <3> QED
            BY <1>1, <3>1, <3>2, <3>4 DEF Owned, Covered
    <2> QED
        BY <2>1, <2>2
<1>6. \A r \in Session : Owned(r)'
    BY <1>1, <1>4, <1>5 DEF Resets, Owned, Covered
<1>7. ASSUME NEW d \in Call, d # c PROVE Followed(d)' /\ InTime(d)'
    <2>1. (Exchanges(d)' <=> Exchanges(d)) /\ (IsRefresh(d)' <=> IsRefresh(d))
        BY <1>1, <1>2, <1>7 DEF Exchanges, IsRefresh, Same
    <2>2. Followed(d)'
        <3>1. SUFFICES ASSUME Exchanges(d) PROVE Followed(d)'
            BY <2>1 DEF Followed
        <3>2. sent[d].session \in Session /\ sess[sent[d].session] # "unborn" /\ sent[d].session # s
            BY <1>3, <3>1, Numbers DEF Resets, Followed
        <3> QED
            BY <1>1, <1>2, <1>4, <1>7, <3>1, <3>2 DEF Resets, Followed, Covered
    <2>3. InTime(d)'
        BY <1>1, <1>2, <1>7, <2>1 DEF Resets, InTime, Same
    <2> QED
        BY <2>2, <2>3
<1>8. Followed(c)' /\ InTime(c)'
    BY <1>1 DEF Followed, InTime, Exchanges, TypeOK
<1>9. \A d \in Call : Same(d) \/ pc'[d] \notin {"markUsed", "revokeAll"}
    BY <1>1, <1>2 DEF TypeOK
<1>10. /\ \A d \in Call : Written(d)'
       /\ SentToAccounts' /\ \A u \in User : ClearedLater(u)'
    BY <1>1, <1>9, OrderKept DEF TokensStay
<1> QED
    BY <1>6, <1>7, <1>8, <1>10 DEF Resets

LEMMA WritePasswordResets ==
    ASSUME Types, Resets, NEW c \in Call, WritePassword(c)
    PROVE  Resets'
<1> DEFINE u == ResetUser(c)
<1> USE DEF Types
<1>1. u \in User
    BY Numbers DEF WritePassword, ResetSteps
<1>2. /\ UNCHANGED <<account, sess, grant, token, tokenUser, sent, cleared, overtaken>>
      /\ pc' = [pc EXCEPT ![c] = "markUsed"]
      /\ pw' = [pw EXCEPT ![u] = @ + 1] /\ seen' = [seen EXCEPT ![c] = pw[u] + 1]
    BY DEF WritePassword, Goto, sessions, tokens, history
<1>3. pc'[c] = "markUsed" /\ \A d \in Call : d # c => Same(d)
    BY <1>2 DEF TypeOK, Same
<1>4. /\ \A s \in Session : Owned(s)'
      /\ \A d \in Call : Followed(d)' /\ InTime(d)'
    BY <1>2, <1>3, CoverKept DEF Followed, InTime, Exchanges
<1>5. \A v \in User : pw[v] \in Nat /\ pw'[v] \in Nat /\ pw[v] <= pw'[v]
    BY <1>2, Numbers DEF TypeOK
<1>6. Written(c)'
    <2>1. seen'[c] = pw[u] + 1 /\ pw'[u] = pw[u] + 1 /\ ResetUser(c)' = u /\ pw[u] \in Nat
        BY <1>1, <1>2, <1>5 DEF TypeOK, ResetUser
    <2> HIDE DEF u
    <2> QED
        BY <2>1 DEF Written
<1>7. ASSUME NEW d \in Call, d # c PROVE Written(d)'
    <2>1. SUFFICES ASSUME pc[d] \in {"markUsed", "revokeAll"}
                   PROVE  seen[d] <= pw'[ResetUser(d)]
        BY <1>2, <1>3, <1>7 DEF Written, Same, ResetUser
    <2>2. ResetUser(d) \in User /\ seen[d] \in Nat /\ seen[d] <= pw[ResetUser(d)]
        BY <2>1, Numbers DEF Resets, Written, ResetSteps
    <2> QED
        BY <1>5, <2>2
<1>8. \A v \in User : ClearedLater(v)'
    BY <1>2, <1>5, Numbers DEF Resets, ClearedLater
<1>9. SentToAccounts'
    BY <1>2 DEF Resets, SentToAccounts
<1> QED
    BY <1>4, <1>6, <1>7, <1>8, <1>9 DEF Resets

LEMMA MarkUsedResets ==
    ASSUME Types, Resets, NEW c \in Call, MarkUsed(c)
    PROVE  Resets'
<1> USE DEF Types
<1>1. /\ UNCHANGED <<account, pw, sess, grant, tokenUser, sent, seen, cleared, overtaken>>
      /\ token' = [token EXCEPT ![sent[c].token] = "spent"]
      /\ pc[c] = "markUsed" /\ pc' = [pc EXCEPT ![c] = "revokeAll"]
    BY DEF MarkUsed, Advance, Goto, Races, users, sessions
<1>2. pc'[c] = "revokeAll" /\ \A d \in Call : d # c => Same(d)
    BY <1>1 DEF TypeOK, Same
<1>3. /\ \A s \in Session : Owned(s)'
      /\ \A d \in Call : Followed(d)' /\ InTime(d)'
    BY <1>1, <1>2, CoverKept DEF Followed, InTime, Exchanges
<1>4. sent[c].token \in ResetToken /\ token[sent[c].token] # "unsent"
    BY <1>1, Numbers DEF ResetSteps
<1>5. \A t \in ResetToken : token'[t] # "unsent" <=> token[t] # "unsent"
    BY <1>1, <1>4 DEF TypeOK
<1>6. \A t \in ResetToken : token'[t] # "unsent" => token[t] # "unsent" \/ account[tokenUser'[t]]
    BY <1>5
<1>7. /\ \A d \in Call : Written(d)'
      /\ SentToAccounts' /\ \A u \in User : ClearedLater(u)'
    BY <1>1, <1>2, <1>5, <1>6, OrderKept DEF TokensStay
<1> QED
    BY <1>3, <1>7 DEF Resets

LEMMA RevokeAllResets ==
    ASSUME Types, Resets, NEW c \in Call, RevokeAll(c)
    PROVE  Resets'
<1> DEFINE u == ResetUser(c)
<1> USE DEF Types
<1>1. /\ u \in User /\ sent[c].token \in ResetToken /\ token[sent[c].token] # "unsent"
      /\ account[u] /\ seen[c] \in Nat /\ seen[c] <= pw[u] /\ pw[u] \in Nat /\ cleared[u] \in Nat
    BY Numbers DEF RevokeAll, ResetSteps, Resets, Written, SentToAccounts, ResetUser
<1>2. /\ UNCHANGED <<account, pw, grant, token, tokenUser, sent>>
      /\ pc[c] = "revokeAll" /\ pc' = [pc EXCEPT ![c] = "answer"] /\ seen' = [seen EXCEPT ![c] = 0]
      /\ sess' = [s \in Session |->
                    IF grant[s].owner = u /\ sess[s] = "live" THEN "ended" ELSE sess[s]]
      /\ overtaken' = [d \in Call |-> overtaken[d] \/ ActsFor(d, u)]
      /\ cleared' = [cleared EXCEPT ![u] = IF @ < seen[c] THEN seen[c] ELSE @]
    BY DEF RevokeAll, Goto, users, tokens
<1>3. pc'[c] = "answer" /\ \A d \in Call : d # c => Same(d)
    BY <1>2 DEF TypeOK, Same
<1>4. \A d \in Call : (overtaken[d] => overtaken'[d]) /\ (ActsFor(d, u) => overtaken'[d])
    BY <1>2
<1>5. \A s \in Session : /\ sess'[s] = "live" => sess[s] = "live" /\ grant[s].owner # u
                         /\ sess'[s] = "unborn" => sess[s] = "unborn"
    BY <1>2
<1>6. \A v \in User : v # u => cleared'[v] = cleared[v]
    BY <1>2 DEF TypeOK
<1>7. cleared'[u] \in {cleared[u], seen[c]}
    BY <1>1, <1>2 DEF TypeOK
<1> HIDE DEF u
<1>8. \A s \in Session : Owned(s)'
    BY <1>2, <1>5, <1>6 DEF Resets, Owned, Covered
<1>9. ASSUME NEW d \in Call, d # c PROVE Followed(d)'
    <2> DEFINE p == sent[d].session
    <2>1. SUFFICES ASSUME Exchanges(d) PROVE Followed(d)'
        BY <1>2, <1>3, <1>9 DEF Followed, Exchanges, Same, IsRefresh
    <2>2. p \in Session /\ IsRefresh(d) /\ pc[d] \in {"revoke", "createSession"}
        BY <2>1, Numbers DEF Exchanges
    <2>3. sess[p] # "unborn" /\ grant[p].owner \in User /\ (overtaken[d] \/ Covered(p))
        BY <2>1 DEF Resets, Followed
    <2>4. overtaken'[d] \/ Covered(p)'
        <3>1. CASE grant[p].owner = u
            BY <1>4, <2>2, <3>1 DEF ActsFor
        <3>2. CASE grant[p].owner # u
            BY <1>2, <1>4, <1>6, <2>3, <3>2 DEF Covered
        <3> QED
            BY <3>1, <3>2
    <2> QED
        BY <1>2, <1>5, <2>2, <2>3, <2>4 DEF Followed, Covered
<1>10. ASSUME NEW d \in Call, d # c PROVE InTime(d)'
    <2>1. SUFFICES ASSUME pc[d] \in {"createProfile", "createSession"}, ~IsRefresh(d)
                   PROVE  overtaken'[d] \/ seen[d] >= cleared'[sent[d].user]
        BY <1>2, <1>3, <1>10 DEF InTime, Same, IsRefresh
    <2>2. sent[d].user \in User /\ (overtaken[d] \/ seen[d] >= cleared[sent[d].user])
        BY <2>1, Numbers DEF Resets, InTime, IsRefresh
    <2>3. CASE sent[d].user = u
        BY <1>4, <2>1, <2>3 DEF ActsFor
    <2>4. CASE sent[d].user # u
        BY <1>4, <1>6, <2>2, <2>4
    <2> QED
        BY <2>3, <2>4
<1>11. Followed(c)' /\ InTime(c)'
    BY <1>3 DEF Followed, InTime, Exchanges
<1>12. \A d \in Call : Written(d)'
    BY <1>2, <1>3 DEF Resets, Written, Same, ResetUser
<1>13. SentToAccounts'
    BY <1>2 DEF Resets, SentToAccounts
<1>14. \A v \in User : ClearedLater(v)'
    BY <1>1, <1>2, <1>6, <1>7 DEF Resets, ClearedLater
<1> QED
    BY <1>8, <1>9, <1>10, <1>11, <1>12, <1>13, <1>14 DEF Resets

LEMMA PlainResets ==
    ASSUME Types, Resets, Plain
    PROVE  Resets'
<1>1. \A d \in Call : Same(d) \/ pc'[d] \notin {"markUsed", "revokeAll"}
    BY DEF Plain, Alike, Same, Harmless
<1>2. \A d \in Call : \/ Same(d) /\ overtaken'[d] = overtaken[d]
                      \/ Followed(d)' /\ InTime(d)'
    BY DEF Plain, Alike, Same, Harmless, Followed, InTime, Exchanges
<1>3. /\ \A s \in Session : Owned(s)'
      /\ \A d \in Call : Followed(d)' /\ InTime(d)'
    BY <1>2, CoverKept DEF Plain
<1>4. /\ \A d \in Call : Written(d)'
      /\ SentToAccounts' /\ \A u \in User : ClearedLater(u)'
    BY <1>1, OrderKept DEF Plain
<1> QED
    BY <1>3, <1>4 DEF Resets

LEMMA StepResets == Types /\ Resets /\ [Next]_vars => Resets'
<1> SUFFICES ASSUME Types, Resets, [Next]_vars PROVE Resets'
    OBVIOUS
<1>1. CASE Plain
    BY <1>1, PlainResets
<1>2. CASE \E c \in Call : Racing(c)
    BY <1>2, ReadingResets, CreateUserResets, RevokeResets, CreateSessionResets,
       WritePasswordResets, MarkUsedResets, RevokeAllResets DEF Racing
<1> QED
    BY <1>1, <1>2, PlainSteps

\* A password reset signs the user out everywhere: a session that lives was issued on the
\* password of the last reset that revoked them, or on a later one -- unless its request,
\* or one it descends from, was under way when they were revoked.
THEOREM ResetEndsSessions == Spec => []ResetSignsOut
<1>1. Resets => ResetSignsOut
    BY DEF Resets, Owned, Covered, ResetSignsOut
<1>2. Silent /\ Types /\ Resets /\ [Next]_vars => (Silent /\ Types /\ Resets)'
    BY StepSilent, StepTypes, StepResets
<1> QED
    BY <1>1, <1>2, InitSilent, InitTypes, InitResets, PTL DEF Spec
----------------------------------------------------------------------------
(* Staying signed in *)

\* The browser b knows the token of session s, or a request it made carries it.
Has(b, s) == cookie[b] = s \/ \E c \in Call : BrowserOf[c] = b /\ sent[c].session = s

\* A token is known to one browser only, and that of a session just created to nobody but
\* the answer that brings it.
Held ==
    \A s \in Session :
        /\ \A a, b \in Browser : Has(a, s) /\ Has(b, s) => a = b
        /\ \A b \in Browser : Has(b, s) => sess[s] # "unborn"
        /\ \A c \in Call : fresh[c] = s =>
             /\ sess[s] # "unborn"
             /\ \A b \in Browser : ~Has(b, s)
             /\ \A d \in Call : d # c => fresh[d] # s

\* Before it answers a handler has no reply, and only a 200 brings a session.
Replied(c) ==
    /\ pc[c] # "answer" => reply[c] # "unauthorized"
    /\ fresh[c] # None => pc[c] = "answer" /\ reply[c] = "ok"

\* A call of a browser that nothing disturbed: its handler is waited for, it is no logout,
\* the session it brings lives, and it brings one if its token was exchanged.
Calm(c) ==
    /\ pc[c] # "done" => phase[c] # "idle"
    /\ op[c] # "logout" /\ pc[c] # "revokeOwn"
    /\ fresh[c] # None => sess[fresh[c]] = "live"
    /\ pc[c] = "answer" /\ IsRefresh(c) /\ sent[c].session # None =>
         reply[c] = "unauthorized" \/ fresh[c] # None

\* A refresh that has revoked the session of its browser's cookie and will replace it.
Renews(c) ==
    /\ phase[c] # "idle" /\ IsRefresh(c)
    /\ cookie[BrowserOf[c]] # None /\ sent[c].session = cookie[BrowserOf[c]]
    /\ pc[c] \in {"createSession", "answer"} /\ reply[c] # "unauthorized"

SignedIn(b) ==
    \/ cookie[b] = None /\ access[b] = None
    \/ cookie[b] # None /\ sess[cookie[b]] = "live"
    \/ \E c \in Call : BrowserOf[c] = b /\ Renews(c)

Kept ==
    /\ Held
    /\ \A c \in Call : Replied(c) /\ (disturbed[BrowserOf[c]] \/ Calm(c))
    /\ \A b \in Browser : disturbed[b] \/ SignedIn(b)

LEMMA InitKept == Init => Kept
<1> SUFFICES ASSUME Init PROVE Kept
    OBVIOUS
<1>1. \A b \in Browser, s \in Session : ~Has(b, s)
    BY NoneAssumption DEF Init, Has, Empty
<1>2. \A c \in Call, s \in Session : fresh[c] # s
    BY NoneAssumption DEF Init
<1>3. Held
    BY <1>1, <1>2 DEF Held
<1>4. \A c \in Call : Replied(c) /\ Calm(c)
    BY DEF Init, Replied, Calm
<1>5. \A b \in Browser : SignedIn(b)
    BY DEF Init, SignedIn
<1> QED
    BY <1>3, <1>4, <1>5 DEF Kept

\* Nobody learns a token but the browser whose answer brought it.
LEMMA HeldKept ==
    ASSUME Held, NEW c \in Call,
           \A s \in Session : sess'[s] = "unborn" => sess[s] = "unborn",
           \A d \in Call : fresh'[d] \in {fresh[d], None},
           \A b \in Browser, s \in Session : Has(b, s)' =>
             Has(b, s) \/ (b = BrowserOf[c] /\ s = fresh[c] /\ fresh'[c] = None)
    PROVE  Held'
<1> SUFFICES ASSUME NEW s \in Session
             PROVE  /\ \A a, b \in Browser : Has(a, s)' /\ Has(b, s)' => a = b
                    /\ \A b \in Browser : Has(b, s)' => sess'[s] # "unborn"
                    /\ \A d \in Call : fresh'[d] = s =>
                         /\ sess'[s] # "unborn"
                         /\ \A b \in Browser : ~Has(b, s)'
                         /\ \A e \in Call : e # d => fresh'[e] # s
    BY DEF Held
<1>1. /\ \A a, b \in Browser : Has(a, s) /\ Has(b, s) => a = b
      /\ \A b \in Browser : Has(b, s) => sess[s] # "unborn"
      /\ \A d \in Call : fresh[d] = s =>
           /\ sess[s] # "unborn"
           /\ \A b \in Browser : ~Has(b, s)
           /\ \A e \in Call : e # d => fresh[e] # s
    BY DEF Held
<1>2. s # None
    BY NoneAssumption
<1> QED
    BY <1>1, <1>2

\* A browser whose cookie stays is signed in if the session and the renewal stay.
LEMMA SignedInKept ==
    ASSUME NEW b \in Browser, SignedIn(b), cookie'[b] = cookie[b], access'[b] \in {access[b], None},
           cookie[b] # None /\ sess[cookie[b]] = "live" => sess'[cookie[b]] = "live",
           \A d \in Call : BrowserOf[d] = b /\ Renews(d) => Renews(d)'
    PROVE  SignedIn(b)'
BY DEF SignedIn

\* A step of one call, and what it must see to for its own browser.
LEMMA KeptByCall ==
    ASSUME Types, Kept, NEW c \in Call, Others(c), Held', Replied(c)',
           \A b \in Browser : disturbed[b] => disturbed'[b],
           disturbed'[BrowserOf[c]] \/ (Calm(c)' /\ SignedIn(BrowserOf[c])'),
           \A d \in Call : d # c /\ fresh[d] # None =>
             disturbed'[BrowserOf[d]] \/ sess'[fresh[d]] = sess[fresh[d]],
           \A b \in Browser : b # BrowserOf[c] =>
             \/ disturbed'[b]
             \/ /\ cookie'[b] = cookie[b] /\ access'[b] = access[b]
                /\ cookie[b] # None => sess'[cookie[b]] = sess[cookie[b]]
    PROVE  Kept'
<1>1. \A d \in Call : Replied(d) /\ (disturbed[BrowserOf[d]] \/ Calm(d))
    BY DEF Kept
<1>2. \A d \in Call : d # c =>
        /\ pc'[d] = pc[d] /\ sent'[d] = sent[d] /\ op'[d] = op[d] /\ phase'[d] = phase[d]
        /\ reply'[d] = reply[d] /\ fresh'[d] = fresh[d]
    BY DEF Others
<1>3. \A d \in Call : d # c => Replied(d)'
    BY <1>1, <1>2 DEF Replied
<1>4. ASSUME NEW d \in Call, d # c, ~disturbed'[BrowserOf[d]]
      PROVE  Calm(d)'
    <2>1. Calm(d)
        BY <1>1, <1>4, BrowsersAssumption
    <2>2. fresh[d] # None => sess'[fresh[d]] = sess[fresh[d]]
        BY <1>4
    <2> QED
        BY <1>2, <1>4, <2>1, <2>2 DEF Calm, IsRefresh
<1>5. ASSUME NEW b \in Browser, b # BrowserOf[c], ~disturbed'[b]
      PROVE  SignedIn(b)'
    <2>1. SignedIn(b)
        BY <1>5 DEF Kept
    <2>2. /\ cookie'[b] = cookie[b] /\ access'[b] = access[b]
          /\ cookie[b] # None => sess'[cookie[b]] = sess[cookie[b]]
        BY <1>5
    <2>3. \A d \in Call : BrowserOf[d] = b /\ Renews(d) => Renews(d)'
        BY <1>2, <1>5, <2>2 DEF Renews, IsRefresh
    <2> QED
        BY <2>1, <2>2, <2>3, SignedInKept
<1> QED
    BY <1>3, <1>4, <1>5 DEF Kept

\* The steps of no call: the gateway is restarted, or a session or a token ends.
LEMMA KeptByNone ==
    ASSUME Types, Kept, UNCHANGED <<cookie, access, op, phase, pc, sent, fresh, reply>>,
           \A s \in Session : sess'[s] = "unborn" => sess[s] = "unborn",
           UNCHANGED <<sess, disturbed>> \/ \A b \in Browser : disturbed'[b]
    PROVE  Kept'
<1>1. \A b \in Browser, s \in Session : Has(b, s)' <=> Has(b, s)
    BY DEF Has
<1>2. Held'
    <2> SUFFICES ASSUME NEW s \in Session
                 PROVE  /\ \A a, b \in Browser : Has(a, s)' /\ Has(b, s)' => a = b
                        /\ \A b \in Browser : Has(b, s)' => sess'[s] # "unborn"
                        /\ \A d \in Call : fresh'[d] = s =>
                             /\ sess'[s] # "unborn"
                             /\ \A b \in Browser : ~Has(b, s)'
                             /\ \A e \in Call : e # d => fresh'[e] # s
        BY DEF Held
    <2> QED
        BY <1>1 DEF Kept, Held
<1>3. \A d \in Call : Replied(d)'
    BY DEF Kept, Replied
<1>4. CASE UNCHANGED <<sess, disturbed>>
    <2>1. \A d \in Call : disturbed'[BrowserOf[d]] \/ Calm(d)'
        BY <1>4 DEF Kept, Calm, IsRefresh
    <2>2. \A d \in Call : Renews(d) => Renews(d)'
        BY DEF Renews, IsRefresh
    <2>3. \A b \in Browser : disturbed'[b] \/ SignedIn(b)'
        BY <1>4, <2>2, SignedInKept DEF Kept
    <2> QED
        BY <1>2, <1>3, <2>1, <2>3 DEF Kept
<1>5. CASE \A b \in Browser : disturbed'[b]
    BY <1>2, <1>3, <1>5, BrowsersAssumption DEF Kept
<1> QED
    BY <1>4, <1>5

\* A handler that goes on, and touches no session.
LEMMA AdvanceKept ==
    ASSUME Types, Kept, NEW c \in Call, NEW next, pc' = [pc EXCEPT ![c] = next],
           UNCHANGED <<sess, cookie, access, op, phase, sent, fresh, reply, disturbed>>,
           pc[c] \notin {"done", "answer", "createSession"}, next \notin {"answer", "revokeOwn"}
    PROVE  Kept'
<1>1. /\ UNCHANGED <<cookie, access, op, phase, sent, fresh, disturbed>>
      /\ pc'[c] = next /\ reply'[c] = reply[c] /\ Others(c)
      /\ \A b \in Browser, s \in Session : Has(b, s)' <=> Has(b, s)
    BY DEF Types, TypeOK, Others, Has
<1>2. Held'
    BY <1>1, HeldKept DEF Kept
<1>3. Replied(c)'
    BY <1>1 DEF Kept, Replied
<1>4. disturbed[BrowserOf[c]] \/ Calm(c)'
    BY <1>1 DEF Kept, Calm
<1>5. \A d \in Call : Renews(d) => d # c
    BY DEF Renews
<1>6. \A d \in Call : Renews(d) => Renews(d)'
    BY <1>1, <1>5 DEF Renews, Others, IsRefresh
<1>7. disturbed[BrowserOf[c]] \/ SignedIn(BrowserOf[c])'
    BY <1>1, <1>6, SignedInKept, BrowsersAssumption DEF Kept
<1> QED
    BY <1>1, <1>2, <1>3, <1>4, <1>7, KeptByCall

\* A handler that answers without a session.
LEMMA AnswerKept ==
    ASSUME Types, Kept, NEW c \in Call, NEW answer, Answer(c, answer), sess' = sess,
           pc[c] \notin {"done", "answer", "createSession"},
           answer = "unauthorized" \/ ~IsRefresh(c)
    PROVE  Kept'
<1>1. /\ UNCHANGED <<cookie, access, op, phase, sent, fresh, disturbed>>
      /\ pc' = [pc EXCEPT ![c] = "answer"] /\ reply' = [reply EXCEPT ![c] = answer]
    BY DEF Answer, Goto, browser, page
<1>2. /\ pc'[c] = "answer" /\ reply'[c] = answer /\ Others(c)
      /\ \A b \in Browser, s \in Session : Has(b, s)' <=> Has(b, s)
    BY <1>1 DEF Types, TypeOK, Others, Has
<1>3. Held'
    BY <1>1, <1>2, HeldKept DEF Kept
<1>4. Replied(c)'
    BY <1>1, <1>2 DEF Kept, Replied
<1>5. disturbed[BrowserOf[c]] \/ Calm(c)'
    BY <1>1, <1>2 DEF Kept, Calm, IsRefresh
<1>6. \A d \in Call : Renews(d) => d # c
    BY DEF Renews
<1>7. \A d \in Call : Renews(d) => Renews(d)'
    BY <1>1, <1>2, <1>6 DEF Renews, Others, IsRefresh
<1>8. disturbed[BrowserOf[c]] \/ SignedIn(BrowserOf[c])'
    BY <1>1, <1>7, SignedInKept, BrowsersAssumption DEF Kept
<1> QED
    BY <1>1, <1>2, <1>3, <1>4, <1>5, <1>8, KeptByCall

LEMMA RowKept ==
    ASSUME Types, Kept, NEW c \in Call,
           \/ FindSession(c) \/ FindUser(c) \/ FindEmail(c) \/ CreateUser(c) \/ CreateProfile(c)
           \/ CreateReset(c) \/ FindReset(c) \/ WritePassword(c) \/ MarkUsed(c)
    PROVE  Kept'
<1>1. pc[c] \in OfUser => ~IsRefresh(c)
    BY NoneAssumption DEF Types, Carries, IsRefresh
<1>2. ASSUME NEW next, Advance(c, next), sess' = sess,
             pc[c] \notin {"done", "answer", "createSession"}, next \notin {"answer", "revokeOwn"}
      PROVE  Kept'
    BY <1>2, AdvanceKept DEF Advance, Goto, browser, page
<1>3. CASE FindSession(c)
    BY <1>2, <1>3, AnswerKept DEF FindSession, Reads, sessions
<1>4. CASE FindUser(c)
    <2>1. sess' = sess /\ pc[c] = "findUser"
        BY <1>4 DEF FindUser, Reads, sessions
    <2>2. CASE Answer(c, "unauthorized")
        BY <2>1, <2>2, AnswerKept
    <2>3. CASE /\ Goto(c, "createSession")
               /\ UNCHANGED <<gateway, browser, page, sent, fresh, reply, faults, disturbed>>
        BY <2>1, <2>3, AdvanceKept DEF Goto, browser, page
    <2> QED
        BY <1>4, <2>2, <2>3 DEF FindUser
<1>5. CASE FindEmail(c)
    BY <1>1, <1>2, <1>5, AnswerKept DEF FindEmail, Reads, sessions, OfUser
<1>6. CASE CreateUser(c)
    BY <1>1, <1>2, <1>6, AnswerKept DEF CreateUser, sessions, OfUser
<1>7. CASE CreateProfile(c) \/ MarkUsed(c)
    BY <1>2, <1>7 DEF CreateProfile, MarkUsed, sessions
<1>8. CASE CreateReset(c)
    BY <1>1, <1>8, AnswerKept DEF CreateReset, sessions, OfUser
<1>9. CASE FindReset(c)
    BY <1>2, <1>9, AnswerKept DEF FindReset, Reads, sessions
<1>10. CASE WritePassword(c)
    BY <1>10, AdvanceKept DEF WritePassword, Goto, browser, page, sessions, history
<1> QED
    BY <1>3, <1>4, <1>5, <1>6, <1>7, <1>8, <1>9, <1>10

\* A request that ends the session it carries ends no other browser's, and none that an
\* answer is about to bring.
LEMMA EndsItsOwn ==
    ASSUME Types, Kept, NEW c \in Call,
           \A s \in Session : s # sent[c].session => sess'[s] = sess[s]
    PROVE  /\ \A d \in Call : fresh[d] # None => sess'[fresh[d]] = sess[fresh[d]]
           /\ \A b \in Browser : b # BrowserOf[c] /\ cookie[b] # None =>
                sess'[cookie[b]] = sess[cookie[b]]
<1> DEFINE p == sent[c].session
           h == BrowserOf[c]
<1>1. Has(h, p) /\ h \in Browser
    BY BrowsersAssumption DEF Has
<1>2. ASSUME NEW d \in Call, fresh[d] # None
      PROVE  fresh[d] \in Session /\ fresh[d] # p
    <2>1. fresh[d] \in Session
        BY <1>2 DEF Types, TypeOK
    <2>2. ~Has(h, fresh[d])
        BY <1>1, <2>1 DEF Kept, Held
    <2> QED
        BY <1>1, <2>1, <2>2
<1>3. ASSUME NEW b \in Browser, b # h, cookie[b] # None
      PROVE  cookie[b] \in Session /\ cookie[b] # p
    <2>1. cookie[b] \in Session /\ Has(b, cookie[b])
        BY <1>3 DEF Types, TypeOK, Has
    <2> QED
        BY <1>1, <1>3, <2>1 DEF Kept, Held
<1> QED
    BY <1>2, <1>3

\* refresh ends the session of its browser's cookie: from here on it renews it.
LEMMA RevokeKept ==
    ASSUME Types, Kept, NEW c \in Call, Revoke(c)
    PROVE  Kept'
<1> DEFINE p == sent[c].session
           h == BrowserOf[c]
<1>1. /\ pc[c] = "revoke" /\ pc' = [pc EXCEPT ![c] = "createSession"]
      /\ sess' = [sess EXCEPT ![p] = "ended"]
      /\ UNCHANGED <<cookie, access, op, phase, sent, fresh, reply, disturbed>>
    BY DEF Revoke, Advance, Goto, browser, page
<1>2. p \in Session /\ IsRefresh(c) /\ h \in Browser
    BY <1>1, BrowsersAssumption DEF Types, Carries, RefreshSteps
<1>3. /\ pc'[c] = "createSession" /\ Others(c)
      /\ \A b \in Browser, s \in Session : Has(b, s)' <=> Has(b, s)
    BY <1>1 DEF Types, TypeOK, Others, Has
<1>4. \A s \in Session : s # p => sess'[s] = sess[s]
    BY <1>1 DEF Types, TypeOK
<1>6. Held'
    BY <1>1, <1>2, <1>3, <1>4, HeldKept DEF Kept
<1>7. Replied(c)'
    BY <1>1, <1>3 DEF Kept, Replied
<1>8. fresh[c] = None
    BY <1>1 DEF Kept, Replied
<1>9. disturbed[h] \/ Calm(c)'
    BY <1>1, <1>3, <1>8 DEF Kept, Calm
<1>10. /\ \A d \in Call : fresh[d] # None => sess'[fresh[d]] = sess[fresh[d]]
       /\ \A b \in Browser : b # h /\ cookie[b] # None => sess'[cookie[b]] = sess[cookie[b]]
    BY <1>4, EndsItsOwn
<1>11. ASSUME ~disturbed[h] PROVE SignedIn(h)'
    <2>1. Calm(c) /\ SignedIn(h)
        BY <1>2, <1>11 DEF Kept
    <2>2. CASE cookie[h] = p
        <3>1. cookie'[h] # None
            BY <1>1, <1>2, <2>2, NoneAssumption
        <3>2. phase'[c] # "idle" /\ reply'[c] # "unauthorized" /\ IsRefresh(c)'
            BY <1>1, <1>2, <2>1 DEF Calm, Kept, Replied, IsRefresh
        <3>3. Renews(c)'
            BY <1>1, <1>3, <2>2, <3>1, <3>2 DEF Renews
        <3> QED
            BY <3>3 DEF SignedIn
    <2>3. CASE cookie[h] # p
        <3>1. cookie[h] # None => sess'[cookie[h]] = sess[cookie[h]]
            BY <1>2, <1>4, <2>3 DEF Types, TypeOK
        <3>2. \A d \in Call : Renews(d) => d # c
            BY <1>1 DEF Renews
        <3>3. \A d \in Call : Renews(d) => Renews(d)'
            BY <1>1, <1>3, <3>2 DEF Renews, Others, IsRefresh
        <3> QED
            BY <1>1, <1>2, <2>1, <3>1, <3>3, SignedInKept
    <2> QED
        BY <2>2, <2>3
<1> QED
    BY <1>1, <1>3, <1>6, <1>7, <1>9, <1>10, <1>11, KeptByCall

\* logout ends the session of a browser that asked for it.
LEMMA RevokeOwnKept ==
    ASSUME Types, Kept, NEW c \in Call, RevokeOwn(c)
    PROVE  Kept'
<1> DEFINE p == sent[c].session
           h == BrowserOf[c]
<1>1. /\ pc[c] = "revokeOwn" /\ pc' = [pc EXCEPT ![c] = "answer"] /\ reply' = [reply EXCEPT ![c] = "ok"]
      /\ sess' = IF p = None THEN sess ELSE [sess EXCEPT ![p] = "ended"]
      /\ UNCHANGED <<cookie, access, op, phase, sent, fresh, disturbed>>
    BY DEF RevokeOwn, Answer, Goto, browser, page
<1>2. p \in Session \cup {None} /\ h \in Browser
    BY BrowsersAssumption DEF Types, TypeOK, Carried
<1>3. /\ pc'[c] = "answer" /\ reply'[c] = "ok" /\ Others(c)
      /\ \A b \in Browser, s \in Session : Has(b, s)' <=> Has(b, s)
    BY <1>1 DEF Types, TypeOK, Others, Has
<1>4. \A s \in Session : s # p => sess'[s] = sess[s]
    BY <1>1 DEF Types, TypeOK
<1>6. Held'
    <2>1. \A s \in Session : sess'[s] = "unborn" => sess[s] = "unborn"
        BY <1>1, <1>2, <1>4 DEF Types, TypeOK
    <2> QED
        BY <1>1, <1>3, <2>1, HeldKept DEF Kept
<1>7. Replied(c)'
    BY <1>1, <1>3 DEF Kept, Replied
<1>8. disturbed[h]
    BY <1>1 DEF Kept, Calm
<1>9. /\ \A d \in Call : fresh[d] # None => sess'[fresh[d]] = sess[fresh[d]]
      /\ \A b \in Browser : b # h /\ cookie[b] # None => sess'[cookie[b]] = sess[cookie[b]]
    BY <1>4, EndsItsOwn
<1> QED
    BY <1>1, <1>3, <1>6, <1>7, <1>8, <1>9, KeptByCall

\* issueAuth: a session that nobody knows yet.
LEMMA CreateSessionKept ==
    ASSUME Types, Kept, NEW c \in Call, CreateSession(c)
    PROVE  Kept'
<1> DEFINE h == BrowserOf[c]
<1>1. PICK n \in Unborn :
        /\ sess' = [sess EXCEPT ![n] = "live"]
        /\ fresh' = [fresh EXCEPT ![c] = n]
    BY DEF CreateSession
<1>2. /\ pc[c] = "createSession" /\ pc' = [pc EXCEPT ![c] = "answer"]
      /\ reply' = [reply EXCEPT ![c] = "ok"]
      /\ UNCHANGED <<cookie, access, op, phase, sent, disturbed>>
    BY DEF CreateSession, Goto, browser, page
<1>3. n \in Session /\ sess[n] = "unborn" /\ n # None /\ h \in Browser
    BY <1>1, NoneAssumption, BrowsersAssumption DEF Unborn
<1>4. /\ pc'[c] = "answer" /\ reply'[c] = "ok" /\ fresh'[c] = n /\ sess'[n] = "live" /\ Others(c)
      /\ \A s \in Session : s # n => sess'[s] = sess[s]
      /\ \A d \in Call : d # c => fresh'[d] = fresh[d]
    BY <1>1, <1>2, <1>3 DEF Types, TypeOK, Others
<1>5. \A b \in Browser, s \in Session : Has(b, s)' <=> Has(b, s)
    BY <1>2 DEF Has
<1>6. /\ \A b \in Browser : ~Has(b, n)
      /\ \A d \in Call : fresh[d] # n
    BY <1>3 DEF Kept, Held
<1>7. Held'
    <2> SUFFICES ASSUME NEW s \in Session
                 PROVE  /\ \A a, b \in Browser : Has(a, s)' /\ Has(b, s)' => a = b
                        /\ \A b \in Browser : Has(b, s)' => sess'[s] # "unborn"
                        /\ \A d \in Call : fresh'[d] = s =>
                             /\ sess'[s] # "unborn"
                             /\ \A b \in Browser : ~Has(b, s)'
                             /\ \A e \in Call : e # d => fresh'[e] # s
        BY DEF Held
    <2>1. /\ \A a, b \in Browser : Has(a, s) /\ Has(b, s) => a = b
          /\ \A b \in Browser : Has(b, s) => sess[s] # "unborn"
          /\ \A d \in Call : fresh[d] = s =>
               /\ sess[s] # "unborn"
               /\ \A b \in Browser : ~Has(b, s)
               /\ \A e \in Call : e # d => fresh[e] # s
        BY DEF Kept, Held
    <2>2. CASE s = n
        BY <1>4, <1>5, <1>6, <2>1, <2>2
    <2>3. CASE s # n
        BY <1>4, <1>5, <2>1, <2>3
    <2> QED
        BY <2>2, <2>3
<1>8. Replied(c)'
    BY <1>4 DEF Replied
<1>9. disturbed[h] \/ Calm(c)'
    BY <1>2, <1>3, <1>4 DEF Kept, Calm
<1>10. \A d \in Call : d # c /\ fresh[d] # None => sess'[fresh[d]] = sess[fresh[d]]
    BY <1>4, <1>6 DEF Types, TypeOK
<1>11. \A b \in Browser : cookie[b] # None => sess'[cookie[b]] = sess[cookie[b]]
    <2>1. \A b \in Browser : cookie[b] # n
        BY <1>6 DEF Has
    <2> QED
        BY <1>4, <2>1 DEF Types, TypeOK
<1>12. \A d \in Call : Renews(d) => Renews(d)'
    BY <1>2, <1>4 DEF Renews, Others, IsRefresh
<1>13. disturbed[h] \/ SignedIn(h)'
    BY <1>2, <1>3, <1>11, <1>12, SignedInKept DEF Kept
<1> QED
    BY <1>2, <1>4, <1>7, <1>8, <1>9, <1>10, <1>11, <1>13, KeptByCall

\* resetPassword signs every browser of the user out.
LEMMA RevokeAllKept ==
    ASSUME Types, Kept, NEW c \in Call, RevokeAll(c)
    PROVE  Kept'
<1>1. /\ pc[c] = "revokeAll" /\ pc' = [pc EXCEPT ![c] = "answer"] /\ reply' = [reply EXCEPT ![c] = "ok"]
      /\ disturbed' = [b \in Browser |-> TRUE]
      /\ UNCHANGED <<cookie, access, op, phase, sent, fresh>>
    BY DEF RevokeAll, Goto, browser, page
<1>2. \A s \in Session : sess'[s] = "unborn" => sess[s] = "unborn"
    BY DEF RevokeAll
<1>3. /\ pc'[c] = "answer" /\ reply'[c] = "ok" /\ Others(c)
      /\ \A b \in Browser, s \in Session : Has(b, s)' <=> Has(b, s)
      /\ \A b \in Browser : disturbed'[b]
    BY <1>1 DEF Types, TypeOK, Others, Has
<1>4. Held'
    BY <1>1, <1>2, <1>3, HeldKept DEF Kept
<1>5. Replied(c)'
    BY <1>1, <1>3 DEF Kept, Replied
<1> QED
    BY <1>3, <1>4, <1>5, BrowsersAssumption, KeptByCall

LEMMA DisturbFrame ==
    ASSUME Types, NEW c \in Call, Disturb(c)
    PROVE  disturbed'[BrowserOf[c]] /\ \A b \in Browser : disturbed[b] => disturbed'[b]
BY BrowsersAssumption DEF Disturb, Types, TypeOK

LEMMA ForgetFrame ==
    ASSUME Types, NEW c \in Call, Forget(c)
    PROVE  /\ pc'[c] = "done" /\ fresh'[c] = None /\ reply'[c] = "none" /\ sent'[c] = Empty
           /\ \A d \in Call : d # c =>
                /\ pc'[d] = pc[d] /\ sent'[d] = sent[d]
                /\ reply'[d] = reply[d] /\ fresh'[d] = fresh[d]
<1>1. /\ pc' = [pc EXCEPT ![c] = "done"] /\ sent' = [sent EXCEPT ![c] = Empty]
      /\ fresh' = [fresh EXCEPT ![c] = None] /\ reply' = [reply EXCEPT ![c] = "none"]
    BY DEF Forget, Goto
<1> QED
    BY <1>1 DEF Types, TypeOK

\* Calls whose end the browser does not learn of, or learns of as a failure.
LEMMA LostKept ==
    ASSUME Types, Kept, NEW c \in Call, Throw(c) \/ Die(c) \/ Discard(c) \/ Lose(c)
    PROVE  Kept'
<1> DEFINE h == BrowserOf[c]
<1>1. /\ Disturb(c) /\ UNCHANGED <<sess, cookie>> /\ h \in Browser
      /\ UNCHANGED access \/ Settle(c, FALSE)
    BY BrowsersAssumption DEF Throw, Die, Discard, Lose, Settle, sessions, browser
<1>2. disturbed'[h] /\ \A b \in Browser : disturbed[b] => disturbed'[b]
    BY <1>1, DisturbFrame
<1>3. \A b \in Browser : b # h => access'[b] = access[b]
    BY <1>1 DEF Settle, Types, TypeOK
<1>4. CASE Throw(c)
    <2>1. /\ pc' = [pc EXCEPT ![c] = "answer"] /\ reply' = [reply EXCEPT ![c] = "error"]
          /\ fresh' = [fresh EXCEPT ![c] = None] /\ UNCHANGED <<op, phase, sent>>
        BY <1>4 DEF Throw, Goto, page
    <2>2. /\ pc'[c] = "answer" /\ fresh'[c] = None /\ Others(c)
          /\ \A d \in Call : fresh'[d] \in {fresh[d], None}
          /\ \A b \in Browser, s \in Session : Has(b, s)' <=> Has(b, s)
        BY <1>1, <2>1 DEF Types, TypeOK, Others, Has
    <2>3. Held'
        BY <1>1, <2>2, HeldKept DEF Kept
    <2>4. Replied(c)'
        BY <2>2 DEF Replied
    <2> QED
        BY <1>1, <1>2, <1>3, <2>2, <2>3, <2>4, KeptByCall
<1>5. CASE Die(c) \/ Discard(c)
    <2>1. Forget(c) /\ UNCHANGED <<op, phase>>
        BY <1>5 DEF Die, Discard, page
    <2>2. /\ \A d \in Call : fresh'[d] \in {fresh[d], None}
          /\ \A d \in Call : sent'[d] = sent[d] \/ sent'[d].session = None
        BY <2>1, ForgetFrame, EmptyCarried
    <2>3. \A b \in Browser, s \in Session : Has(b, s)' => Has(b, s)
        BY <1>1, <2>2, NoneAssumption DEF Has
    <2>4. Held'
        BY <1>1, <2>2, <2>3, HeldKept DEF Kept
    <2>5. Others(c) /\ Replied(c)'
        BY <2>1, ForgetFrame DEF Others, Replied
    <2> QED
        BY <1>1, <1>2, <1>3, <2>4, <2>5, KeptByCall
<1>6. CASE Lose(c)
    <2>1. Settle(c, FALSE) /\ UNCHANGED <<pc, sent, fresh, reply>>
        BY <1>6 DEF Lose, handler
    <2>2. Others(c)
        BY <2>1, SettleTypes DEF Others
    <2>3. \A b \in Browser, s \in Session : Has(b, s)' <=> Has(b, s)
        BY <1>1, <2>1 DEF Has
    <2>4. Held'
        BY <1>1, <2>1, <2>3, HeldKept DEF Kept
    <2>5. Replied(c)'
        BY <2>1 DEF Kept, Replied
    <2> QED
        BY <1>1, <1>2, <1>3, <2>2, <2>4, <2>5, KeptByCall
<1> QED
    BY <1>4, <1>5, <1>6

\* The page's call ends with an answer, whose cookie the browser keeps.
LEMMA ReceiveKept ==
    ASSUME Types, Kept, NEW c \in Call, Receive(c)
    PROVE  Kept'
<1> DEFINE h == BrowserOf[c]
           success == reply[c] = "ok" /\ phase[c] # "refresh"
<1>1. /\ pc[c] = "answer" /\ ~(phase[c] = "refresh" /\ reply[c] = "ok") /\ disturbed' = disturbed
      /\ Forget(c) /\ Settle(c, success) /\ StoreCookie(c) /\ h \in Browser
    BY BrowsersAssumption DEF Receive
<1>2. /\ op'[c] = "page" /\ sess' = sess
      /\ \A d \in Call : d # c => phase'[d] = phase[d] /\ op'[d] = op[d]
    BY <1>1, SettleTypes
<1>3. /\ pc'[c] = "done" /\ fresh'[c] = None /\ reply'[c] = "none" /\ sent'[c] = Empty
      /\ \A d \in Call : d # c =>
           /\ pc'[d] = pc[d] /\ sent'[d] = sent[d] /\ reply'[d] = reply[d] /\ fresh'[d] = fresh[d]
    BY <1>1, ForgetFrame
<1>4. Others(c)
    BY <1>2, <1>3 DEF Others
<1>5. Replied(c)' /\ Calm(c)'
    BY <1>2, <1>3 DEF Replied, Calm
<1>6. \A b \in Browser : b # h => cookie'[b] = cookie[b] /\ access'[b] = access[b]
    BY <1>1 DEF StoreCookie, Settle, Types, TypeOK
<1>7. cookie'[h] \in {cookie[h], None} \/ cookie'[h] = fresh[c]
    BY <1>1 DEF StoreCookie, Types, TypeOK
<1>8. \A d \in Call : sent'[d] = sent[d] \/ sent'[d].session = None
    BY <1>3, EmptyCarried
<1>9. \A b \in Browser, s \in Session : Has(b, s)' =>
        Has(b, s) \/ (b = h /\ s = fresh[c] /\ fresh'[c] = None)
    BY <1>3, <1>6, <1>7, <1>8, NoneAssumption DEF Has
<1>10. Held'
    BY <1>2, <1>3, <1>9, HeldKept DEF Kept
<1>11. ASSUME ~disturbed[h] PROVE SignedIn(h)'
    <2>1. Calm(c) /\ SignedIn(h) /\ Replied(c)
        BY <1>1, <1>11 DEF Kept
    <2>2. CASE fresh[c] # None
        <3>1. reply[c] = "ok" /\ sess[fresh[c]] = "live"
            BY <2>1, <2>2 DEF Replied, Calm
        <3>2. cookie'[h] = fresh[c]
            BY <1>1, <2>2, <3>1 DEF StoreCookie, Types, TypeOK
        <3> QED
            BY <1>2, <2>2, <3>1, <3>2 DEF SignedIn
    <2>3. CASE fresh[c] = None
        <3>1. cookie' = cookie
            BY <1>1, <2>1, <2>3 DEF StoreCookie, Calm
        <3>2. access'[h] \in {access[h], None}
            BY <1>1, <2>3 DEF Settle, Types, TypeOK
        <3>3. ~Renews(c)
            BY <1>1, <2>1, <2>3 DEF Renews, Calm
        <3>4. \A d \in Call : BrowserOf[d] = h /\ Renews(d) => Renews(d)'
            BY <1>4, <3>1, <3>3 DEF Renews, Others, IsRefresh
        <3> QED
            BY <1>1, <1>2, <2>1, <3>1, <3>2, <3>4, SignedInKept
    <2> QED
        BY <2>2, <2>3
<1> QED
    BY <1>1, <1>2, <1>4, <1>5, <1>6, <1>10, <1>11, KeptByCall

\* A request that leaves carries no session but that of its browser's cookie.
LEMMA FetchFrame ==
    ASSUME Types, NEW c \in Call, NEW next \in Phases \ {"idle"}, NEW carries \in Carried,
           NEW first \in Steps \ {"answer"}, Fetch(c, next, carries, first)
    PROVE  /\ Replied(c)' /\ fresh'[c] = None /\ sess' = sess
           /\ op'[c] # "logout" /\ first # "revokeOwn" => Calm(c)'
           /\ sent'[c].session \in {None, carries.session}
<1>1. /\ pc' = [pc EXCEPT ![c] = IF up THEN first ELSE "done"]
      /\ sent' = [sent EXCEPT ![c] = IF up THEN carries ELSE Empty]
      /\ fresh' = [fresh EXCEPT ![c] = None] /\ sess' = sess
    BY DEF Fetch, Goto, sessions
<1>2. pc'[c] \in {first, "done"} /\ fresh'[c] = None /\ sent'[c] \in {carries, Empty}
    BY <1>1 DEF Types, TypeOK
<1>3. phase'[c] = next /\ reply'[c] = "none"
    BY FetchTypes
<1> QED
    BY <1>1, <1>2, <1>3, EmptyCarried DEF Replied, Calm

LEMMA GuardedFrame ==
    ASSUME Types, NEW c \in Call, NEW next \in Phases \ {"idle"}, FetchGuarded(c, next)
    PROVE  /\ Replied(c)' /\ fresh'[c] = None /\ sess' = sess
           /\ op'[c] # "logout" => Calm(c)'
           /\ sent'[c].session = None
<1>1. PICK answer \in {"ok", "unauthorized"} :
          reply' = [reply EXCEPT ![c] = IF up THEN answer ELSE "none"]
    BY DEF FetchGuarded
<1>2. /\ pc' = [pc EXCEPT ![c] = IF up THEN "answer" ELSE "done"]
      /\ sent' = [sent EXCEPT ![c] = Empty]
      /\ fresh' = [fresh EXCEPT ![c] = None] /\ sess' = sess
    BY DEF FetchGuarded, Goto, sessions
<1>3. /\ pc'[c] = (IF up THEN "answer" ELSE "done") /\ fresh'[c] = None /\ sent'[c] = Empty
      /\ reply'[c] = (IF up THEN answer ELSE "none")
    BY <1>1, <1>2 DEF Types, TypeOK
<1>4. phase'[c] = next
    BY GuardedTypes
<1>5. sent'[c].session = None
    BY <1>3, EmptyCarried
<1>6. Replied(c)'
    BY <1>3 DEF Replied
<1>7. op'[c] # "logout" => Calm(c)'
    BY <1>3, <1>4, <1>5 DEF Calm
<1> QED
    BY <1>2, <1>3, <1>5, <1>6, <1>7

\* A call that begins, or begins anew, while the browser keeps its tokens.
LEMMA BegunKept ==
    ASSUME Types, Kept, NEW c \in Call, Others(c), UNCHANGED <<sess, cookie, access>>,
           fresh'[c] = None, sent'[c].session \in {None, cookie[BrowserOf[c]]}, Replied(c)',
           ~Renews(c), disturbed' = disturbed \/ Disturb(c), disturbed'[BrowserOf[c]] \/ Calm(c)'
    PROVE  Kept'
<1> DEFINE h == BrowserOf[c]
<1>1. h \in Browser /\ \A b \in Browser : disturbed[b] => disturbed'[b]
    BY DisturbFrame, BrowsersAssumption
<1>2. \A b \in Browser, s \in Session : Has(b, s)' => Has(b, s)
    BY NoneAssumption DEF Has, Others
<1>3. Held'
    BY <1>2, HeldKept DEF Kept, Others
<1>4. \A d \in Call : Renews(d) => Renews(d)'
    BY DEF Renews, Others, IsRefresh
<1>5. disturbed[h] \/ SignedIn(h)'
    BY <1>1, <1>4, SignedInKept DEF Kept
<1> QED
    BY <1>1, <1>3, <1>5, KeptByCall

LEMMA SendKept ==
    ASSUME Types, Kept, NEW c \in Call, Send(c)
    PROVE  Kept'
<1> DEFINE h == BrowserOf[c]
<1>1. ASSUME NEW o, Begin(c, o)
      PROVE  /\ UNCHANGED <<cookie, access>> /\ op'[c] = o /\ ~Renews(c)
             /\ \A d \in Call : d # c => op'[d] = op[d]
    BY <1>1 DEF Begin, browser, Renews, Types, TypeOK
<1>2. "first" \in Phases \ {"idle"}
    BY DEF Phases
<1>3. ASSUME NEW o, Begin(c, o), FetchGuarded(c, "first"), o # "logout", disturbed' = disturbed
      PROVE  Kept'
    <2>1. Others(c)
        BY <1>1, <1>2, <1>3, GuardedTypes DEF Others
    <2>2. /\ Replied(c)' /\ fresh'[c] = None /\ sess' = sess /\ Calm(c)' /\ sent'[c].session = None
        BY <1>1, <1>2, <1>3, GuardedFrame
    <2> QED
        BY <1>1, <1>3, <2>1, <2>2, BegunKept
<1>4. ASSUME NEW o, NEW carries \in Carried, NEW first \in Steps \ {"answer"}, Ask(c, o, carries, first),
             carries.session \in {None, cookie[h]},
             \/ disturbed' = disturbed /\ o # "logout" /\ first # "revokeOwn"
             \/ Disturb(c)
      PROVE  Kept'
    <2>1. Begin(c, o) /\ Fetch(c, "first", carries, first)
        BY <1>4 DEF Ask
    <2>2. Others(c)
        BY <1>1, <1>2, <2>1, FetchTypes DEF Others
    <2>3. /\ Replied(c)' /\ fresh'[c] = None /\ sess' = sess
          /\ op'[c] # "logout" /\ first # "revokeOwn" => Calm(c)'
          /\ sent'[c].session \in {None, carries.session}
        BY <1>2, <1>4, <2>1, FetchFrame
    <2>4. disturbed'[h] \/ Calm(c)'
        BY <1>1, <1>4, <2>1, <2>3, DisturbFrame
    <2> QED
        BY <1>1, <1>4, <2>1, <2>2, <2>3, <2>4, BegunKept
<1>5. /\ Cookie(c) \in Carried /\ Cookie(c).session = cookie[h]
      /\ \A u \in User : Naming(u) \in Carried /\ Naming(u).session = None
      /\ \A u \in User, v \in Password :
           /\ [Empty EXCEPT !.user = u, !.password = v] \in Carried
           /\ [Empty EXCEPT !.user = u, !.password = v].session = None
      /\ \A t \in ResetToken : /\ [Empty EXCEPT !.token = t] \in Carried
                               /\ [Empty EXCEPT !.token = t].session = None
    BY CookieCarried, EmptyCarried DEF Cookie, Naming, Empty
<1>6. /\ "findSession" \in Steps \ {"answer"} /\ "findUser" \in Steps \ {"answer"}
      /\ "findEmail" \in Steps \ {"answer"} /\ "createReset" \in Steps \ {"answer"}
      /\ "findReset" \in Steps \ {"answer"} /\ "revokeOwn" \in Steps \ {"answer"}
    BY DEF Steps, RefreshSteps, SignupSteps, ResetSteps
<1>7. \A u \in User : \A v \in 0..pw[u] : v \in Password
    BY BoundsAssumption DEF Types, TypeOK, Password
<1>8. CASE \E o \in {"page", "me"} : access[h] # None /\ Begin(c, o) /\ FetchGuarded(c, "first") /\ UNCHANGED disturbed
    BY <1>3, <1>8
<1>9. CASE Ask(c, "load", Cookie(c), "findSession") /\ UNCHANGED disturbed
    BY <1>4, <1>5, <1>6, <1>9
<1>10. CASE /\ disturbed' = disturbed
             /\ \E u \in User : \/ \E v \in 0..pw[u] :
                                     Ask(c, "login", [Empty EXCEPT !.user = u, !.password = v], "findUser")
                                \/ Ask(c, "signup", Naming(u), "findEmail")
                                \/ Ask(c, "forgot", Naming(u), "createReset")
    <2>1. PICK u \in User : \/ \E v \in 0..pw[u] :
                                   Ask(c, "login", [Empty EXCEPT !.user = u, !.password = v], "findUser")
                            \/ Ask(c, "signup", Naming(u), "findEmail")
                            \/ Ask(c, "forgot", Naming(u), "createReset")
        BY <1>10
    <2>2. CASE \E v \in 0..pw[u] : Ask(c, "login", [Empty EXCEPT !.user = u, !.password = v], "findUser")
        <3>1. PICK v \in 0..pw[u] : Ask(c, "login", [Empty EXCEPT !.user = u, !.password = v], "findUser")
            BY <2>2
        <3> DEFINE carries == [Empty EXCEPT !.user = u, !.password = v]
        <3>2. carries \in Carried /\ carries.session = None
            BY <1>5, <1>7
        <3> HIDE DEF carries
        <3> QED
            BY <1>4, <1>6, <1>10, <3>1, <3>2 DEF carries
    <2>3. CASE Ask(c, "signup", Naming(u), "findEmail") \/ Ask(c, "forgot", Naming(u), "createReset")
        BY <1>4, <1>5, <1>6, <1>10, <2>3
    <2> QED
        BY <2>1, <2>2, <2>3
<1>11. CASE \E t \in ResetToken : Ask(c, "reset", [Empty EXCEPT !.token = t], "findReset") /\ UNCHANGED disturbed
    BY <1>4, <1>5, <1>6, <1>11
<1>12. CASE Ask(c, "logout", Cookie(c), "revokeOwn") /\ Disturb(c)
    BY <1>4, <1>5, <1>6, <1>12
<1> QED
    BY <1>8, <1>9, <1>10, <1>11, <1>12 DEF Send

LEMMA BeginRefreshKept ==
    ASSUME Types, Kept, NEW c \in Call, BeginRefresh(c)
    PROVE  Kept'
<1> DEFINE h == BrowserOf[c]
           carries == [Cookie(c) EXCEPT !.token = sent[c].token]
<1>1. /\ reply[c] = "unauthorized" /\ pc[c] = "answer"
      /\ Fetch(c, "refresh", carries, "findSession")
      /\ UNCHANGED <<op, cookie, access, disturbed>>
    BY DEF BeginRefresh, WillRefresh, browser
<1>2. carries \in Carried /\ carries.session = cookie[h]
    BY CookieCarried DEF Types, TypeOK, Carried, Cookie
<1>3. "refresh" \in Phases \ {"idle"} /\ "findSession" \in Steps \ {"answer"}
    BY DEF Phases, Steps, RefreshSteps
<1> HIDE DEF carries
<1>4. Others(c)
    BY <1>1, <1>2, <1>3, FetchTypes DEF Others
<1>5. /\ Replied(c)' /\ fresh'[c] = None /\ sess' = sess
      /\ op'[c] # "logout" => Calm(c)'
      /\ sent'[c].session \in {None, cookie[h]}
    BY <1>1, <1>2, <1>3, FetchFrame
<1>6. disturbed[h] \/ Calm(c)'
    BY <1>1, <1>5 DEF Kept, Calm
<1>7. ~Renews(c)
    BY <1>1 DEF Renews
<1> QED
    BY <1>1, <1>4, <1>5, <1>6, <1>7, BegunKept

\* A call that was refreshed keeps the new cookie, and is sent again.
LEMMA RetryKept ==
    ASSUME Types, Kept, NEW c \in Call, Retry(c)
    PROVE  Kept'
<1> DEFINE h == BrowserOf[c]
           carries == [Empty EXCEPT !.token = sent[c].token]
<1>1. /\ pc[c] = "answer" /\ phase[c] = "refresh" /\ reply[c] = "ok" /\ StoreCookie(c)
      /\ \/ op[c] = "reset" /\ Fetch(c, "retry", carries, "findReset")
         \/ FetchGuarded(c, "retry")
      /\ UNCHANGED <<op, disturbed>> /\ h \in Browser
      /\ access' = [access EXCEPT ![h] = grant[fresh[c]].owner]
    BY BrowsersAssumption DEF Retry
<1>2. fresh[c] \in Session /\ fresh[c] # None
    BY <1>1, NoneAssumption DEF Types, Carries
<1>3. /\ cookie'[h] = fresh[c]
      /\ \A b \in Browser : b # h => cookie'[b] = cookie[b] /\ access'[b] = access[b]
    BY <1>1, <1>2 DEF StoreCookie, Types, TypeOK
<1>4. carries \in Carried /\ carries.session = None
    BY EmptyCarried DEF Types, TypeOK, Carried, Empty
<1>5. "retry" \in Phases \ {"idle"} /\ "findReset" \in Steps \ {"answer"}
    BY DEF Phases, Steps, ResetSteps
<1> HIDE DEF carries
<1>6. Others(c)
    BY <1>1, <1>4, <1>5, FetchTypes, GuardedTypes DEF Others
<1>7. /\ Replied(c)' /\ fresh'[c] = None /\ sess' = sess
      /\ op'[c] # "logout" => Calm(c)'
      /\ sent'[c].session = None
    BY <1>1, <1>4, <1>5, FetchFrame, GuardedFrame
<1>8. disturbed[h] \/ Calm(c)'
    BY <1>1, <1>7 DEF Kept, Calm
<1>9. \A b \in Browser, s \in Session : Has(b, s)' =>
        Has(b, s) \/ (b = h /\ s = fresh[c] /\ fresh'[c] = None)
    BY <1>3, <1>6, <1>7, NoneAssumption DEF Has, Others
<1>10. Held'
    BY <1>6, <1>7, <1>9, HeldKept DEF Kept, Others
<1>11. disturbed[h] \/ SignedIn(h)'
    BY <1>1, <1>2, <1>3, <1>7 DEF Kept, Calm, SignedIn
<1> QED
    BY <1>1, <1>3, <1>6, <1>7, <1>8, <1>10, <1>11, KeptByCall

LEMMA StepKept == Types /\ Kept /\ [Next]_vars => Kept'
<1> SUFFICES ASSUME Types, Kept, [Next]_vars PROVE Kept'
    OBVIOUS
<1>1. CASE UNCHANGED vars
    BY <1>1, KeptByNone DEF vars, sessions, browser, page, handler, history
<1>2. ASSUME NEW c \in Call, Network(c) PROVE Kept'
    BY <1>2, KeptByNone DEF Network, Served, sessions, browser, page, handler, history
<1>3. CASE Restart /\ Served
    BY <1>3, KeptByNone DEF Served, sessions, browser, page, handler, history
<1>4. ASSUME NEW s \in Session, ExpireSession(s) PROVE Kept'
    <2>1. /\ sess' = [sess EXCEPT ![s] = "ended"] /\ disturbed' = [b \in Browser |-> TRUE]
          /\ UNCHANGED <<cookie, access, op, phase, pc, sent, fresh, reply>>
        BY <1>4 DEF ExpireSession, browser, page, handler
    <2>2. \A r \in Session : sess'[r] = "unborn" => sess[r] = "unborn"
        BY <2>1 DEF Types, TypeOK
    <2> QED
        BY <2>1, <2>2, KeptByNone
<1>5. ASSUME NEW t \in ResetToken, ExpireToken(t) PROVE Kept'
    BY <1>5, KeptByNone DEF ExpireToken, sessions, browser, page, handler, history
<1>6. ASSUME NEW c \in Call, Handler(c) PROVE Kept'
    BY <1>6, RowKept, RevokeKept, CreateSessionKept, RevokeOwnKept, RevokeAllKept, LostKept DEF Handler
<1>7. ASSUME NEW c \in Call, Page(c) PROVE Kept'
    BY <1>7, SendKept, BeginRefreshKept, RetryKept, ReceiveKept, LostKept DEF Page
<1> QED
    BY <1>1, <1>2, <1>3, <1>4, <1>5, <1>6, <1>7 DEF Next

\* Concurrent refreshes with one cookie leave the browser a way back in: unless an answer
\* was lost, a handler failed, or the session was ended by logout, reset or age, a browser
\* with an access token or a cookie has the cookie of a living session, or a refresh is
\* under way that will replace it.  It says nothing of the access token of the page.
THEOREM RefreshesKeepCookie == Spec => []CookieStaysLive
<1>1. Kept => CookieStaysLive
    BY DEF Kept, SignedIn, Renews, CookieStaysLive
<1>2. Silent /\ Types /\ Kept /\ [Next]_vars => (Silent /\ Types /\ Kept)'
    BY StepSilent, StepTypes, StepKept
<1> QED
    BY <1>1, <1>2, InitSilent, InitTypes, InitKept, PTL DEF Spec
=============================================================================
