--------------------------- MODULE DeskPageProofs ---------------------------
(***************************************************************************)
(* Proofs about DeskPage, for any roles, applicants and statuses and any   *)
(* number of requests under way.                                           *)
(***************************************************************************)
EXTENDS DeskPage, TLAPS

\* Rows that have come back are applicants of the role they were asked for.
RowsAreOfTheirRole ==
    \A c \in Call, a \in App :
        call[c] # None /\ call[c].rows[a] # None => RoleOf[a] = call[c].on

\* The services remember what they hold.
HadFollows == \A a \in App : status[a] \in had[a]

Loading(c, kinds) == call[c] # None /\ call[c].kind \in kinds

\* No request brings applicants before a role is selected, and each that does has a role.
Chosen ==
    /\ selected = None => /\ \A c \in Call : ~Loading(c, Brings)
                          /\ shown = Nobody
    /\ \A c \in Call : Loading(c, Brings) => call[c].on # None

\* Unless the selection strayed, every request under way that can bring applicants is for
\* the role that is selected.
NoneStrays == ~strayed => Strays(selected) = {}

\* Then the applicants shown are the selected role's unless others are being loaded.
ShownIsOwn ==
    \/ strayed
    \/ \E c \in Call : Loading(c, {"rows"})
    \/ \A a \in App : shown[a] # None => RoleOf[a] = selected

\* Only rows that are on their way back are old, and the others are not older than the
\* page's last change.
OldAreRows ==
    /\ passed \subseteq old
    /\ \A c \in old : Loading(c, {"rows"}) /\ call[c].stage # "sent"
OthersAreNew ==
    \A c \in Call, a \in App :
        Loading(c, {"rows"}) /\ c \notin old /\ call[c].rows[a] # None
            => call[c].rows[a] \in had[a]

\* A request has nothing before it is answered.
SentAreEmpty == \A c \in Call : call[c] # None /\ call[c].stage = "sent" => call[c].rows = Nobody

\* A change that was made and has not come back, or rows not older than the last one.
Newer(c) ==
    \/ Loading(c, {"set", "bulk"}) /\ call[c].stage = "ok"
    \/ Loading(c, {"rows"}) /\ c \notin old

Stale == \E a \in App : shown[a] # None /\ shown[a] \notin had[a]

\* As long as an old answer may come in its turn, or one is shown, a newer is on its way.
NewerComes == old # passed \/ (~overtaken /\ Stale) => \E c \in Call : Newer(c)

\* A request that will select a role.
Selects(c) == call[c] # None /\ call[c].kind \notin {"rows", "set", "bulk"} /\ call[c].on = None

\* Unless a role was posted early, that is the first load alone, of a page still empty.
FirstLoad ==
    ~early => \A c \in Call : Selects(c) =>
        /\ call[c].kind = "list"
        /\ selected = None /\ listed = {} /\ form = None
        /\ shown = Nobody /\ picked = {}
        /\ \A d \in Call : call[d] # None => d = c

IInv ==
    /\ TypeOK
    /\ PickedAreShown /\ FormOfSelected
    /\ RowsAreOfTheirRole /\ HadFollows
    /\ Chosen /\ NoneStrays /\ ShownIsOwn
    /\ OldAreRows /\ OthersAreNew /\ SentAreEmpty /\ NewerComes
    /\ FirstLoad

\* What a request carries, and that it is one.
LEMMA AskIsRequest ==
    ASSUME NEW kind \in Loads \cup Changes, NEW on \in Role \cup {None},
           NEW apps \in SUBSET App, NEW to \in Status
    PROVE  /\ Ask(kind, on, apps, to) \in Request
           /\ Ask(kind, on, apps, to) # None
           /\ Ask(kind, on, apps, to).kind = kind
           /\ Ask(kind, on, apps, to).on = on
           /\ Ask(kind, on, apps, to).rows = Nobody
           /\ Ask(kind, on, apps, to).stage = "sent"
           /\ Load(kind, on) = Ask(kind, on, {}, "pending")
<1>1. {} \in Lists
    BY PageAssumption DEF Lists
<1> QED
    BY <1>1, RequestAssumption DEF Ask, Load, Request, Rows, Nobody

\* The initial state satisfies the inductive invariant.
LEMMA InitInv == Init => IInv
<1> SUFFICES ASSUME Init PROVE IInv
    OBVIOUS
<1>1. "pending" \in Status /\ 1 \in Call /\ None \notin Role
    BY PageAssumption DEF Status, Call, Role
<1>2. /\ Load("list", None) \in Request /\ Load("list", None) # None
      /\ Load("list", None).kind = "list" /\ Load("list", None).on = None
      /\ Load("list", None).rows = Nobody
    BY AskIsRequest, <1>1 DEF Loads
<1> HIDE DEF Load, Request
<1>3. \A c \in Call : call[c] # None => c = 1 /\ call[c] = Load("list", None)
    BY DEF Init
<1>4. \A a \in App : shown[a] = None /\ status[a] = "pending" /\ had[a] = {"pending"}
    BY DEF Init, Nobody
<1>5. call \in [Call -> Request \cup {None}]
    BY <1>2 DEF Init
<1>6. TypeOK
    <2>1. status \in [App -> Status] /\ shown \in Rows /\ had \in [App -> SUBSET Status]
        BY <1>1 DEF Init, Rows, Nobody
    <2>2. /\ roles \in 0..Roles /\ sends \in 0..MaxSends
          /\ listed \subseteq Role /\ picked \subseteq App
          /\ selected \in Role \cup {None} /\ form \in Role \cup {None}
        BY PageAssumption DEF Init
    <2>3. /\ early \in BOOLEAN /\ strayed \in BOOLEAN /\ overtaken \in BOOLEAN
          /\ old \subseteq Call /\ passed \subseteq Call
        BY DEF Init
    <2> QED
        BY <2>1, <2>2, <2>3, <1>5 DEF TypeOK
<1>7. PickedAreShown /\ FormOfSelected /\ HadFollows
    BY <1>4 DEF Init, PickedAreShown, FormOfSelected, HadFollows
<1>8. RowsAreOfTheirRole /\ Chosen /\ NoneStrays /\ SentAreEmpty
    BY <1>2, <1>3 DEF Init, RowsAreOfTheirRole, Chosen, NoneStrays, SentAreEmpty, Loading, Brings,
                      Strays, Waiting, Nobody
<1>9. ShownIsOwn /\ FirstLoad
    BY <1>2, <1>3, <1>4 DEF Init, ShownIsOwn, FirstLoad, Loading, Selects
<1>10. OldAreRows /\ OthersAreNew /\ NewerComes
    BY <1>2, <1>3, <1>4 DEF Init, OldAreRows, OthersAreNew, NewerComes, Stale, Loading
<1> QED
    BY <1>6, <1>7, <1>8, <1>9, <1>10 DEF IInv

\* A request that is added changes nothing of what is known of the others.
LEMMA AddedInv ==
    ASSUME IInv, NEW c \in Call, call[c] = None, NEW request, request # None,
           call' = [call EXCEPT ![c] = request],
           request.rows = Nobody, request.stage = "sent",
           UNCHANGED <<shown, had, order>>
    PROVE  OldAreRows' /\ OthersAreNew' /\ SentAreEmpty' /\ NewerComes'
<1> USE DEF IInv, order
<1>1. call'[c] = request /\ \A d \in Call : d # c => call'[d] = call[d]
    BY DEF TypeOK
<1>2. c \notin old
    BY DEF OldAreRows, Loading
<1>3. OldAreRows'
    BY <1>1, <1>2 DEF OldAreRows, Loading, TypeOK
<1>4. OthersAreNew' /\ SentAreEmpty'
    BY <1>1 DEF OthersAreNew, SentAreEmpty, Loading, Nobody
<1>5. \A d \in Call : Newer(d) => Newer(d)'
    BY <1>1 DEF Newer, Loading
<1>6. NewerComes'
    BY <1>5 DEF NewerComes, Stale
<1> QED
    BY <1>3, <1>4, <1>6

\* What Send does, for a slot that was free.
LEMMA SendTakesASlot ==
    ASSUME NEW request, Send(request)
    PROVE  \E c \in Call : call[c] = None /\ call' = [call EXCEPT ![c] = request]
BY DEF Send

\* A click that changes something preserves the invariant.
LEMMA SubmitInv ==
    ASSUME IInv, NEW kind \in Changes, NEW apps \in SUBSET App, NEW to \in Status,
           Submit(Ask(kind, selected, apps, to)),
           early' \in BOOLEAN, early => early', kind = "create" /\ selected = None => early',
           kind \in {"save", "close", "reopen"} => selected # None,
           kind \in {"set", "bulk"} => \E a \in App : shown[a] # None
    PROVE  IInv'
<1> DEFINE request == Ask(kind, selected, apps, to)
<1> USE DEF IInv
<1>1. PICK c \in Call : call[c] = None /\ call' = [call EXCEPT ![c] = request]
    BY SendTakesASlot DEF Submit
<1>2. /\ UNCHANGED <<roles, status, listed, selected, shown, picked, form, had>>
      /\ UNCHANGED <<strayed, order>>
      /\ sends < MaxSends /\ sends' = sends + 1
    BY DEF Submit, Send, server, view
<1>3. /\ request \in Request /\ request # None /\ request.stage = "sent"
      /\ request.kind = kind /\ request.on = selected /\ request.rows = Nobody
    BY AskIsRequest DEF TypeOK
<1> HIDE DEF request
<1>4. call \in [Call -> Request \cup {None}] /\ call'[c] = request
    BY <1>1 DEF TypeOK
<1>5. \A d \in Call : d # c => call'[d] = call[d]
    BY <1>1, <1>4
<1>6. TypeOK'
    <2>1. sends' \in 0..MaxSends
        BY <1>2, PageAssumption DEF TypeOK
    <2>2. call' \in [Call -> Request \cup {None}]
        BY <1>1, <1>3, <1>4
    <2>3. /\ early' \in BOOLEAN /\ strayed' \in BOOLEAN /\ overtaken' \in BOOLEAN
          /\ old' \subseteq Call /\ passed' \subseteq Call
        BY <1>2 DEF TypeOK, order
    <2> QED
        BY <2>1, <2>2, <2>3, <1>2 DEF TypeOK
<1>7. PickedAreShown' /\ FormOfSelected' /\ HadFollows'
    BY <1>2 DEF PickedAreShown, FormOfSelected, HadFollows
<1>8. RowsAreOfTheirRole'
    BY <1>3, <1>4, <1>5 DEF RowsAreOfTheirRole, Nobody
<1>9. OldAreRows' /\ OthersAreNew' /\ SentAreEmpty' /\ NewerComes'
    BY <1>1, <1>2, <1>3, AddedInv
<1>10. Chosen' /\ NoneStrays'
    <2>1. kind \in Brings => selected # None
        BY DEF Brings, Changes, Chosen, Nobody
    <2>2. Chosen'
        BY <1>2, <1>3, <1>4, <1>5, <2>1 DEF Chosen, Loading
    <2>3. NoneStrays'
        BY <1>2, <1>3, <1>4, <1>5 DEF NoneStrays, Strays, Waiting
    <2> QED
        BY <2>2, <2>3
<1>11. ShownIsOwn'
    BY <1>1, <1>2, <1>5 DEF ShownIsOwn, Loading
<1>12. FirstLoad'
    <2> SUFFICES ASSUME ~early', NEW d \in Call, Selects(d)' PROVE FALSE
        BY DEF FirstLoad
    <2>1. CASE d = c
        BY <2>1, <1>2, <1>3, <1>4 DEF Selects, Changes
    <2>2. CASE d # c
        <3>1. Selects(d) /\ ~early
            BY <2>2, <1>5 DEF Selects
        <3>2. selected = None /\ shown = Nobody
            BY <3>1 DEF FirstLoad
        <3>3. \A a \in App : shown[a] = None
            BY <3>2 DEF Nobody
        <3> QED
            BY <3>2, <3>3 DEF Changes
    <2> QED
        BY <2>1, <2>2
<1> QED
    BY <1>6, <1>7, <1>8, <1>9, <1>10, <1>11, <1>12

\* Selecting another role, and filtering, load rows and preserve the invariant.
LEMMA LoadInv ==
    ASSUME IInv, NEW on \in Role, Send(Load("rows", on)),
           listed # {} \/ selected # None,
           strayed' = (Strays(on) # {}), selected' = on,
           form' = None \/ (form' = form /\ on = selected),
           UNCHANGED <<server, listed, shown, picked, early, order, had>>
    PROVE  IInv'
<1> DEFINE request == Load("rows", on)
<1> USE DEF IInv, server
<1>1. PICK c \in Call : call[c] = None /\ call' = [call EXCEPT ![c] = request]
    BY SendTakesASlot
<1>2. sends < MaxSends /\ sends' = sends + 1
    BY DEF Send
<1>3. /\ request \in Request /\ request # None /\ request.stage = "sent"
      /\ request.kind = "rows" /\ request.on = on /\ request.rows = Nobody
    BY AskIsRequest DEF Loads, Status
<1> HIDE DEF request
<1>4. call \in [Call -> Request \cup {None}] /\ call'[c] = request
    BY <1>1 DEF TypeOK
<1>5. \A d \in Call : d # c => call'[d] = call[d]
    BY <1>1, <1>4
<1>6. TypeOK'
    <2>1. sends' \in 0..MaxSends
        BY <1>2, PageAssumption DEF TypeOK
    <2>2. call' \in [Call -> Request \cup {None}]
        BY <1>1, <1>3, <1>4
    <2>3. /\ early' \in BOOLEAN /\ strayed' \in BOOLEAN /\ overtaken' \in BOOLEAN
          /\ old' \subseteq Call /\ passed' \subseteq Call
        BY DEF TypeOK, order
    <2>4. selected' \in Role \cup {None} /\ form' \in Role \cup {None}
        BY DEF TypeOK
    <2> QED
        BY <2>1, <2>2, <2>3, <2>4 DEF TypeOK
<1>7. PickedAreShown' /\ FormOfSelected' /\ HadFollows'
    BY DEF PickedAreShown, FormOfSelected, HadFollows
<1>8. RowsAreOfTheirRole'
    BY <1>3, <1>4, <1>5 DEF RowsAreOfTheirRole, Nobody
<1>9. OldAreRows' /\ OthersAreNew' /\ SentAreEmpty' /\ NewerComes'
    BY <1>1, <1>3, AddedInv
<1>10. Chosen' /\ NoneStrays'
    <2>1. on # None
        BY PageAssumption DEF Role
    <2>2. Chosen'
        BY <1>3, <1>4, <1>5, <2>1 DEF Chosen, Loading
    <2>3. NoneStrays'
        BY <1>3, <1>4, <1>5 DEF NoneStrays, Strays, Waiting
    <2> QED
        BY <2>2, <2>3
<1>11. ShownIsOwn'
    BY <1>3, <1>4 DEF ShownIsOwn, Loading
<1>12. FirstLoad'
    <2> SUFFICES ASSUME ~early', NEW d \in Call, Selects(d)' PROVE FALSE
        BY DEF FirstLoad
    <2>1. d # c
        BY <1>3, <1>4 DEF Selects
    <2> QED
        BY <2>1, <1>5 DEF Selects, FirstLoad
<1> QED
    BY <1>6, <1>7, <1>8, <1>9, <1>10, <1>11, <1>12

\* A click that sends nothing preserves the invariant.
LEMMA QuietInv ==
    ASSUME IInv,
           UNCHANGED <<server, listed, selected, shown, call, sends, history>>,
           form' \in {None, form} \/ (form' = selected /\ selected \in listed),
           picked' = picked \/ listed # {} \/ \E a \in App : shown[a] # None,
           picked' \subseteq {a \in App : shown[a] # None}
    PROVE  IInv'
<1> USE DEF IInv, server, history, order
<1>1. TypeOK'
    BY DEF TypeOK
<1>2. PickedAreShown' /\ FormOfSelected' /\ HadFollows' /\ RowsAreOfTheirRole'
    BY DEF PickedAreShown, FormOfSelected, HadFollows, RowsAreOfTheirRole
<1>3. Chosen' /\ NoneStrays' /\ ShownIsOwn'
    BY DEF Chosen, NoneStrays, Strays, Waiting, ShownIsOwn, Loading
<1>4. OldAreRows' /\ OthersAreNew' /\ SentAreEmpty' /\ NewerComes'
    BY DEF OldAreRows, OthersAreNew, SentAreEmpty, NewerComes, Stale, Newer, Loading
<1>5. FirstLoad'
    <2> SUFFICES ASSUME ~early', NEW c \in Call, Selects(c)' PROVE FirstLoad'
        BY DEF FirstLoad
    <2>1. /\ call[c].kind = "list"
          /\ selected = None /\ listed = {} /\ form = None
          /\ shown = Nobody /\ picked = {}
          /\ \A d \in Call : call[d] # None => d = c
        BY DEF Selects, FirstLoad
    <2>2. \A a \in App : shown[a] = None
        BY <2>1 DEF Nobody
    <2>3. picked' = {} /\ form' = None
        BY <2>1, <2>2
    <2> QED
        BY <2>1, <2>3 DEF Selects, FirstLoad
<1> QED
    BY <1>1, <1>2, <1>3, <1>4, <1>5

\* Every click of the recruiter preserves the invariant.
LEMMA ClickInv == IInv /\ Click => IInv'
<1> SUFFICES ASSUME IInv, Click PROVE IInv'
    OBVIOUS
<1> USE DEF IInv
<1>0. "pending" \in Status /\ Choice \subseteq Status /\ "interview" \in Status
      /\ None \notin Role
    BY PageAssumption DEF Status
<1>1. ASSUME Create PROVE IInv'
    BY <1>0, <1>1, SubmitInv DEF Create, Load, Changes, TypeOK
<1>2. ASSUME NEW a \in App, NEW s \in Choice, SetStatus(a, s) PROVE IInv'
    <2>1. early' = early /\ {a} \in SUBSET App /\ s \in Status /\ "set" \in Changes
        BY <1>0, <1>2 DEF SetStatus, Changes
    <2>2. Submit(Ask("set", selected, {a}, s)) /\ shown[a] # None
        BY <1>2 DEF SetStatus
    <2> QED
        BY <2>1, <2>2, SubmitInv DEF TypeOK
<1>3. ASSUME NEW s \in Choice, Bulk(s) PROVE IInv'
    <2>1. \E a \in App : shown[a] # None
        BY <1>3 DEF Bulk, PickedAreShown, TypeOK
    <2> QED
        BY <1>0, <1>3, <2>1, SubmitInv DEF Bulk, Changes, TypeOK
<1>4. ASSUME NEW a \in App, Schedule(a) PROVE IInv'
    <2>1. early' = early /\ {a} \in SUBSET App /\ "set" \in Changes
        BY <1>4 DEF Schedule, Changes
    <2>2. Submit(Ask("set", selected, {a}, "interview")) /\ shown[a] # None
        BY <1>4 DEF Schedule
    <2> QED
        BY <1>0, <2>1, <2>2, SubmitInv DEF TypeOK
<1>5. ASSUME SaveJob PROVE IInv'
    BY <1>0, <1>5, SubmitInv DEF SaveJob, Load, Changes, TypeOK
<1>6. ASSUME SetOpen PROVE IInv'
    <2>1. PICK kind \in {"close", "reopen"} : Submit(Ask(kind, selected, {}, "pending"))
        BY <1>6 DEF SetOpen, Load
    <2>2. early' = early /\ selected # None
        BY <1>0, <1>6 DEF SetOpen, TypeOK
    <2> QED
        BY <1>0, <2>1, <2>2, SubmitInv DEF Changes, TypeOK
<1>7. ASSUME ToggleEdit PROVE IInv'
    <2>1. picked' = picked /\ picked' \subseteq {a \in App : shown[a] # None}
        BY <1>7 DEF ToggleEdit, PickedAreShown, TypeOK
    <2>2. form' \in {None, form} \/ (form' = selected /\ selected \in listed)
        BY <1>7 DEF ToggleEdit
    <2> QED
        BY <1>7, <2>1, <2>2, QuietInv DEF ToggleEdit
<1>8. ASSUME Tick PROVE IInv'
    <2>1. picked' \subseteq {a \in App : shown[a] # None}
        BY <1>8 DEF Tick, PickedAreShown, TypeOK
    <2>2. picked' = picked \/ \E a \in App : shown[a] # None
        BY <1>8, <2>1 DEF Tick, PickedAreShown, TypeOK
    <2>3. form' = form
        BY <1>8 DEF Tick
    <2> QED
        BY <1>8, <2>1, <2>2, <2>3, QuietInv DEF Tick
<1>9. ASSUME NEW k \in Role, Select(k) PROVE IInv'
    <2>1. CASE k = selected
        <3>1. picked' \subseteq {a \in App : shown[a] # None}
            BY <1>9 DEF Select, PickedAreShown, TypeOK
        <3> QED
            BY <1>9, <2>1, <3>1, QuietInv DEF Select, history
    <2>2. CASE k # selected
        BY <1>9, <2>2, LoadInv DEF Select
    <2> QED
        BY <2>1, <2>2
<1>10. ASSUME Filter PROVE IInv'
    BY <1>10, LoadInv DEF Filter, view, TypeOK
<1> QED
    BY <1>1, <1>2, <1>3, <1>4, <1>5, <1>6, <1>7, <1>8, <1>9, <1>10 DEF Click

\* What an answer may change in a request: it stays the same request, and the rows of a
\* load are applicants of its role with the status they have.
LEMMA ServeInv ==
    ASSUME IInv, NEW c \in Call, call[c] # None, call[c].stage = "sent",
           NEW answer \in Request, answer.stage # "sent",
           answer.kind = call[c].kind, answer.on = call[c].on,
           call' = [call EXCEPT ![c] = answer],
           \A a \in App : answer.rows[a] = call[c].rows[a] \/ answer.rows[a] = None \/
                          (answer.rows[a] = status[a] /\ RoleOf[a] = call[c].on),
           roles' \in 0..Roles,
           UNCHANGED <<view, sends, early, strayed, passed, overtaken>>,
           \/ UNCHANGED <<status, had, old>>
           \/ /\ call[c].kind \in {"set", "bulk"}
              /\ status' \in [App -> Status] /\ had' \in [App -> SUBSET Status]
              /\ \A a \in App : status'[a] \in had'[a]
              /\ \/ old' = old /\ \A a \in App : had[a] \subseteq had'[a]
                 \/ /\ answer.stage = "ok"
                    /\ old' = old \cup {d \in Waiting : call[d].kind = "rows"
                                                        /\ call[d].stage # "sent"}
    PROVE  IInv'
<1> USE DEF IInv, view
<1>1. call \in [Call -> Request \cup {None}] /\ call'[c] = answer /\ answer # None
    BY RequestAssumption DEF TypeOK
<1>2. \A d \in Call : d # c => call'[d] = call[d]
    BY <1>1
<1>3. \A d \in Call : /\ call'[d] # None <=> call[d] # None
                      /\ call[d] # None => call'[d].kind = call[d].kind /\ call'[d].on = call[d].on
    BY <1>1, <1>2
<1>4. TypeOK'
    <2>1. call' \in [Call -> Request \cup {None}]
        BY <1>1
    <2>2. old' \subseteq Call
        BY DEF TypeOK, Waiting
    <2>3. /\ status' \in [App -> Status] /\ had' \in [App -> SUBSET Status]
          /\ roles' \in 0..Roles
        BY DEF TypeOK
    <2>4. UNCHANGED <<listed, selected, shown, picked, form, sends, early, strayed, passed, overtaken>>
        OBVIOUS
    <2> QED
        BY <2>1, <2>2, <2>3, <2>4 DEF TypeOK
<1>5. PickedAreShown' /\ FormOfSelected' /\ HadFollows'
    BY DEF PickedAreShown, FormOfSelected, HadFollows
<1>6. RowsAreOfTheirRole'
    BY <1>1, <1>2 DEF RowsAreOfTheirRole
<1>7. Chosen' /\ NoneStrays' /\ ShownIsOwn'
    BY <1>3 DEF Chosen, NoneStrays, Strays, Waiting, ShownIsOwn, Loading
<1>8. OldAreRows' /\ SentAreEmpty'
    <2>1. SentAreEmpty'
        BY <1>1, <1>2 DEF SentAreEmpty
    <2>2. OldAreRows'
        BY <1>1, <1>2, <1>3 DEF OldAreRows, Loading, Waiting, TypeOK
    <2> QED
        BY <2>1, <2>2
<1>10. OthersAreNew'
    <2> SUFFICES ASSUME NEW d \in Call, NEW a \in App,
                        Loading(d, {"rows"})', d \notin old', call'[d].rows[a] # None
                 PROVE  call'[d].rows[a] \in had'[a]
        BY DEF OthersAreNew
    <2>1. Loading(d, {"rows"}) /\ d \notin old
        BY <1>3 DEF Loading
    <2>2. CASE d = c
        <3>1. had' = had
            BY <2>1, <2>2 DEF Loading
        <3>2. call[c].rows[a] = None
            BY DEF SentAreEmpty, Nobody
        <3> QED
            BY <1>1, <2>2, <3>1, <3>2 DEF HadFollows
    <2>3. CASE d # c
        <3>1. call'[d] = call[d] /\ call[d].rows[a] \in had[a]
            BY <1>2, <2>1, <2>3 DEF OthersAreNew
        <3>2. had[a] \subseteq had'[a] \/ call[d].stage = "sent"
            BY <2>1 DEF Waiting, Loading
        <3> QED
            BY <3>1, <3>2 DEF SentAreEmpty, Loading, Nobody
    <2> QED
        BY <2>2, <2>3
<1>11. NewerComes'
    <2>1. ASSUME old' = old, \A a \in App : had[a] \subseteq had'[a] PROVE NewerComes'
        <3>1. \A d \in Call : Newer(d) => Newer(d)'
            BY <1>1, <1>2, <2>1 DEF Newer, Loading
        <3>2. Stale' => Stale
            BY <2>1 DEF Stale
        <3> QED
            BY <2>1, <3>1, <3>2 DEF NewerComes
    <2>2. ASSUME call[c].kind \in {"set", "bulk"}, answer.stage = "ok" PROVE NewerComes'
        <3>1. Newer(c)'
            BY <1>1, <2>2 DEF Newer, Loading
        <3> QED
            BY <3>1 DEF NewerComes
    <2> QED
        BY <2>1, <2>2
<1>9. FirstLoad'
    BY <1>3 DEF FirstLoad, Selects
<1> QED
    BY <1>4, <1>5, <1>6, <1>7, <1>8, <1>9, <1>10, <1>11

\* Every answer of a service preserves the invariant.
LEMMA ServesInv == ASSUME IInv, NEW c \in Call, Serve(c) PROVE IInv'
<1> USE DEF IInv, order
<1>1. UNCHANGED <<view, sends, early, strayed>>
    BY DEF Serve
<1>2. ASSUME call[c] # None PROVE call[c] \in Request
    BY <1>2 DEF TypeOK
<1>3. CASE ServeList(c)
    <2>1. call[c] \in Request /\ call[c] # None /\ call[c].stage = "sent"
        BY <1>2, <1>3 DEF ServeList, Sent
    <2>2. PICK stage \in {"ok", "error"} :
              call' = [call EXCEPT ![c] = [[call[c] EXCEPT !.list = 1..roles] EXCEPT !.stage = stage]]
        BY <1>3 DEF ServeList, Answer
    <2> DEFINE answer == [[call[c] EXCEPT !.list = 1..roles] EXCEPT !.stage = stage]
    <2>3. 1..roles \in Lists
        BY DEF TypeOK, Lists
    <2>4. /\ answer \in Request /\ answer.kind = call[c].kind /\ answer.on = call[c].on
          /\ answer.stage # "sent" /\ answer.rows = call[c].rows
        BY <2>1, <2>3 DEF Request
    <2>5. UNCHANGED <<roles, status, had, order>> /\ roles' \in 0..Roles
        BY <1>3 DEF ServeList, server, TypeOK
    <2> HIDE DEF answer
    <2> QED
        BY <1>1, <2>1, <2>2, <2>4, <2>5, ServeInv DEF answer
<1>4. CASE ServeRows(c)
    <2>1. call[c] \in Request /\ call[c] # None /\ call[c].stage = "sent"
        BY <1>2, <1>4 DEF ServeRows, Sent
    <2>2. PICK through \in SUBSET {a \in App : RoleOf[a] = call[c].on}, stage \in {"ok", "error"} :
              call' = [call EXCEPT ![c] =
                         [[call[c] EXCEPT !.rows = [a \in App |-> IF a \in through THEN status[a] ELSE None]]
                            EXCEPT !.stage = stage]]
        BY <1>4 DEF ServeRows, Answer
    <2> DEFINE rows == [a \in App |-> IF a \in through THEN status[a] ELSE None]
               answer == [[call[c] EXCEPT !.rows = rows] EXCEPT !.stage = stage]
    <2>3. rows \in Rows
        BY DEF TypeOK, Rows
    <2>4. /\ \A a \in App : rows[a] = None \/ (rows[a] = status[a] /\ RoleOf[a] = call[c].on)
        OBVIOUS
    <2> HIDE DEF rows
    <2>5. /\ answer \in Request /\ answer.kind = call[c].kind /\ answer.on = call[c].on
          /\ answer.stage # "sent" /\ answer.rows = rows
        BY <2>1, <2>3 DEF Request
    <2>6. UNCHANGED <<roles, status, had, order>> /\ roles' \in 0..Roles
        BY <1>4 DEF ServeRows, server, TypeOK
    <2>7. call' = [call EXCEPT ![c] = answer]
        BY <2>2 DEF rows
    <2> HIDE DEF answer
    <2> QED
        BY <1>1, <2>1, <2>4, <2>5, <2>6, <2>7, ServeInv
<1>5. CASE ServeCreate(c) \/ ServeStatus(c) \/ ServeJob(c) \/ Refuse(c)
    <2>1. call[c] \in Request /\ call[c] # None /\ call[c].stage = "sent"
        BY <1>2, <1>5 DEF ServeCreate, ServeStatus, ServeJob, Refuse, Sent
    <2>2. PICK stage \in {"ok", "error"} : call' = [call EXCEPT ![c] = [call[c] EXCEPT !.stage = stage]]
        BY <1>5 DEF ServeCreate, ServeStatus, ServeJob, Refuse, Answer
    <2> DEFINE answer == [call[c] EXCEPT !.stage = stage]
    <2>3. /\ answer \in Request /\ answer.kind = call[c].kind /\ answer.on = call[c].on
          /\ answer.stage # "sent" /\ answer.rows = call[c].rows
        BY <2>1 DEF Request
    <2>4. roles' \in 0..Roles
        BY <1>5, PageAssumption DEF ServeCreate, ServeStatus, ServeJob, Refuse, server, TypeOK
    <2>5. /\ UNCHANGED <<passed, overtaken>>
          /\ \/ UNCHANGED <<status, had, old>>
             \/ /\ call[c].kind \in {"set", "bulk"}
                /\ status' \in [App -> Status] /\ had' \in [App -> SUBSET Status]
                /\ \A a \in App : status'[a] \in had'[a]
                /\ \/ old' = old /\ \A a \in App : had[a] \subseteq had'[a]
                   \/ /\ answer.stage = "ok"
                      /\ old' = old \cup {d \in Waiting : call[d].kind = "rows"
                                                          /\ call[d].stage # "sent"}
        <3>1. CASE ServeStatus(c)
            <4>1. call[c].to \in Status /\ call'[c] = answer
                BY <2>1, <2>2 DEF Request, TypeOK
            <4>2. /\ status' \in [App -> Status] /\ had' \in [App -> SUBSET Status]
                  /\ \A a \in App : status'[a] \in had'[a]
                BY <3>1, <4>1 DEF ServeStatus, TypeOK, HadFollows
            <4>3. \/ old' = old /\ \A a \in App : had[a] \subseteq had'[a]
                  \/ /\ answer.stage = "ok"
                     /\ old' = old \cup {d \in Waiting : call[d].kind = "rows"
                                                         /\ call[d].stage # "sent"}
                BY <3>1, <4>1 DEF ServeStatus, TypeOK
            <4> QED
                BY <3>1, <4>2, <4>3 DEF ServeStatus, Sent
        <3> QED
            BY <1>5, <3>1 DEF ServeCreate, ServeJob, Refuse, server
    <2> HIDE DEF answer
    <2> QED
        BY <1>1, <2>1, <2>2, <2>3, <2>4, <2>5, ServeInv DEF answer
<1> QED
    BY <1>3, <1>4, <1>5 DEF Serve

\* The requests after one is taken off, or followed by another.
LEMMA ThenTyped ==
    ASSUME IInv, NEW c \in Call, call[c] # None,
           NEW kind \in Loads, NEW on \in Role \cup {None},
           Then(c, None) \/ Then(c, Load(kind, on))
    PROVE  /\ call' \in [Call -> Request \cup {None}]
           /\ \A d \in Call : d # c => call'[d] = call[d]
           /\ \/ call'[c] = None /\ Then(c, None)
              \/ /\ call'[c] # None /\ call'[c].kind = kind /\ call'[c].on = on
                 /\ call'[c].rows = Nobody /\ call'[c].stage = "sent"
<1>1. /\ Load(kind, on) \in Request /\ Load(kind, on) # None /\ Load(kind, on).stage = "sent"
      /\ Load(kind, on).kind = kind /\ Load(kind, on).on = on /\ Load(kind, on).rows = Nobody
    BY AskIsRequest DEF Status
<1> QED
    BY <1>1 DEF Then, IInv, TypeOK

\* An answer that showed nothing changes nothing of what is known of the others, if a change
\* that was made is followed by a load.
LEMMA FollowedInv ==
    ASSUME IInv, NEW c \in Call, call[c] # None, call[c].kind # "rows",
           \A d \in Call : d # c => call'[d] = call[d],
           call'[c] = None \/ (call'[c].rows = Nobody /\ call'[c].stage = "sent"),
           Newer(c) => call'[c] # None /\ call'[c].kind = "rows",
           UNCHANGED <<shown, had, order>>
    PROVE  OldAreRows' /\ OthersAreNew' /\ SentAreEmpty' /\ NewerComes'
<1> USE DEF IInv, order
<1>1. c \notin old
    BY DEF OldAreRows, Loading
<1>2. OldAreRows'
    BY <1>1 DEF OldAreRows, Loading, TypeOK
<1>3. OthersAreNew' /\ SentAreEmpty'
    BY DEF OthersAreNew, SentAreEmpty, Loading, Nobody
<1>4. ASSUME NEW d \in Call, Newer(d) PROVE Newer(d)'
    <2>1. CASE d = c
        BY <1>1, <1>4, <2>1 DEF Newer, Loading
    <2>2. CASE d # c
        BY <1>4, <2>2 DEF Newer, Loading
    <2> QED
        BY <2>1, <2>2
<1>5. NewerComes'
    BY <1>4 DEF NewerComes, Stale
<1> QED
    BY <1>2, <1>3, <1>5

\* Of the roles the services list, the newest is one.
LEMMA NewestIsListed ==
    ASSUME NEW list \in Lists
    PROVE  list \subseteq Role /\ (list # {} => Newest(list) \in list)
<1>1. PICK n \in 0..Roles : list = 1..n
    BY DEF Lists
<1>2. list \subseteq Role
    BY <1>1, PageAssumption DEF Role
<1>3. ASSUME list # {} PROVE n \in list /\ \A k \in list : k <= n
    BY <1>1, <1>3, PageAssumption
<1> QED
    BY <1>2, <1>3 DEF Newest

\* The rows that have come back preserve the invariant.
LEMMA RowsBackInv == ASSUME IInv, NEW c \in Call, RowsBack(c) PROVE IInv'
<1> USE DEF IInv, server
<1>1. /\ call[c] # None /\ call[c].kind = "rows" /\ call[c] \in Request
      /\ Then(c, None) /\ picked' = {} /\ shown' \in {call[c].rows, Nobody}
      /\ UNCHANGED <<server, listed, selected, form, sends, early, strayed, had>>
      /\ Overtakes(c) /\ Loading(c, {"rows"})
    BY DEF RowsBack, Back, TypeOK, Loading
<1>2. /\ call' \in [Call -> Request \cup {None}] /\ call'[c] = None
      /\ \A d \in Call : d # c => call'[d] = call[d]
    BY <1>1 DEF Then, TypeOK
<1>3. TypeOK'
    <2>1. shown' \in Rows /\ picked' \subseteq App
        BY <1>1 DEF Request, Nobody, Rows
    <2>2. overtaken' \in BOOLEAN /\ old' \subseteq Call /\ passed' \subseteq Call
        BY <1>1 DEF Overtakes, TypeOK
    <2> QED
        BY <1>1, <1>2, <2>1, <2>2 DEF TypeOK
<1>4. PickedAreShown' /\ FormOfSelected' /\ HadFollows'
    BY <1>1 DEF PickedAreShown, FormOfSelected, HadFollows
<1>5. RowsAreOfTheirRole' /\ SentAreEmpty'
    BY <1>2 DEF RowsAreOfTheirRole, SentAreEmpty
<1>6. Chosen' /\ NoneStrays'
    <2>1. selected # None
        BY <1>1 DEF Chosen, Loading, Brings
    <2>2. Chosen'
        BY <1>1, <1>2, <2>1 DEF Chosen, Loading
    <2>3. NoneStrays'
        BY <1>1, <1>2 DEF NoneStrays, Strays, Waiting
    <2> QED
        BY <2>2, <2>3
<1>7. ShownIsOwn'
    <2> SUFFICES ASSUME ~strayed PROVE \A a \in App : shown'[a] # None => RoleOf[a] = selected
        BY <1>1 DEF ShownIsOwn
    <2>1. call[c].on = selected
        BY <1>1 DEF NoneStrays, Strays, Waiting, Brings
    <2> QED
        BY <1>1, <2>1 DEF RowsAreOfTheirRole, Nobody
<1>8. OldAreRows' /\ OthersAreNew'
    <2>1. OldAreRows'
        BY <1>1, <1>2 DEF OldAreRows, Loading, Overtakes, TypeOK
    <2>2. OthersAreNew'
        BY <1>1, <1>2 DEF OthersAreNew, Loading, Overtakes
    <2> QED
        BY <2>1, <2>2
<1>9. NewerComes'
    <2>1. ASSUME NEW d \in Call, Newer(d), d # c PROVE Newer(d)'
        BY <1>1, <1>2, <2>1 DEF Newer, Loading, Overtakes
    <2>2. CASE c \in old
        <3>1. ~Newer(c)
            BY <1>1, <2>2 DEF Newer, Loading
        <3>2. ASSUME old # passed PROVE NewerComes'
            BY <2>1, <3>1, <3>2 DEF NewerComes
        <3>3. ASSUME old = passed PROVE NewerComes'
            BY <1>1, <2>2, <3>3 DEF NewerComes, Overtakes
        <3> QED
            BY <3>2, <3>3
    <2>3. CASE c \notin old
        <3>1. old' = passed'
            BY <1>1, <2>3 DEF Overtakes
        <3>2. ~Stale'
            BY <1>1, <2>3 DEF Stale, OthersAreNew, Nobody
        <3> QED
            BY <3>1, <3>2 DEF NewerComes
    <2> QED
        BY <2>2, <2>3
<1>10. FirstLoad'
    BY <1>1, <1>2 DEF FirstLoad, Selects
<1> QED
    BY <1>3, <1>4, <1>5, <1>6, <1>7, <1>8, <1>9, <1>10

\* The answer to a change of statuses preserves the invariant.
LEMMA StatusBackInv == ASSUME IInv, NEW c \in Call, StatusBack(c) PROVE IInv'
<1> USE DEF IInv, server, history, order
<1>1. /\ call[c] # None /\ call[c].kind \in {"set", "bulk"} /\ call[c] \in Request
      /\ picked' \in {{}, picked}
      /\ UNCHANGED <<server, listed, selected, shown, form, sends, history>>
      /\ Loading(c, Brings)
    BY DEF StatusBack, Back, TypeOK, Loading, Brings
<1>2. call[c].on \in Role /\ selected # None
    BY <1>1 DEF Request, Chosen
<1>3. \/ Then(c, None) /\ ~Ok(c)
      \/ Then(c, Load("rows", call[c].on))
    BY <1>2, PageAssumption DEF StatusBack, Role
<1>4. /\ call' \in [Call -> Request \cup {None}]
      /\ \A d \in Call : d # c => call'[d] = call[d]
      /\ \/ call'[c] = None /\ ~Ok(c)
         \/ /\ call'[c] # None /\ call'[c].kind = "rows" /\ call'[c].on = call[c].on
            /\ call'[c].rows = Nobody /\ call'[c].stage = "sent"
    <2>1. /\ Load("rows", call[c].on) \in Request /\ Load("rows", call[c].on) # None
          /\ Load("rows", call[c].on).kind = "rows" /\ Load("rows", call[c].on).on = call[c].on
          /\ Load("rows", call[c].on).rows = Nobody /\ Load("rows", call[c].on).stage = "sent"
        BY <1>2, AskIsRequest DEF Loads, Status
    <2> HIDE DEF Load
    <2> QED
        BY <1>1, <1>3, <2>1 DEF Then, TypeOK
<1>6. TypeOK'
    BY <1>1, <1>4 DEF TypeOK
<1>7. PickedAreShown' /\ FormOfSelected' /\ HadFollows'
    BY <1>1 DEF PickedAreShown, FormOfSelected, HadFollows
<1>8. RowsAreOfTheirRole'
    BY <1>4 DEF RowsAreOfTheirRole, Nobody
<1>9. OldAreRows' /\ OthersAreNew' /\ SentAreEmpty' /\ NewerComes'
    <2>1. Newer(c) => Ok(c)
        BY <1>1 DEF Newer, Loading, Ok
    <2> QED
        BY <1>1, <1>4, <2>1, FollowedInv
<1>10. Chosen' /\ NoneStrays' /\ ShownIsOwn'
    <2>1. Chosen'
        BY <1>1, <1>2, <1>4, PageAssumption DEF Chosen, Loading, Brings, Role
    <2>2. NoneStrays'
        BY <1>1, <1>2, <1>4 DEF NoneStrays, Strays, Waiting, Brings
    <2>3. ShownIsOwn'
        BY <1>1, <1>4 DEF ShownIsOwn, Loading
    <2> QED
        BY <2>1, <2>2, <2>3
<1>11. FirstLoad'
    BY <1>1, <1>4 DEF FirstLoad, Selects
<1> QED
    BY <1>6, <1>7, <1>8, <1>9, <1>10, <1>11

\* The answer to a load of the roles preserves the invariant: it moves the selection only
\* if it is the first load, or a role was posted early.
LEMMA ListBackInv == ASSUME IInv, NEW c \in Call, ListBack(c) PROVE IInv'
<1> USE DEF IInv, server, order
<1>1. /\ call[c] # None /\ call[c].kind = "list" /\ call[c] \in Request
      /\ UNCHANGED <<server, shown, picked, form, sends, early, order, had>>
    BY DEF ListBack, Back, TypeOK
<1>2. call[c].on \in Role \cup {None} /\ None \notin Role /\ {} \in Lists
    BY <1>1, PageAssumption DEF Request, Role, Lists
<1>3. listed' \in Lists
    BY <1>1, <1>2 DEF ListBack, Request
<1>4. \/ /\ call[c].on = None /\ selected' \in Role
         /\ (selected' = selected /\ Then(c, None)) \/ Then(c, Load("rows", selected'))
      \/ selected' = selected /\ Then(c, None)
    BY <1>3, NewestIsListed DEF ListBack
<1>5. /\ call' \in [Call -> Request \cup {None}]
      /\ \A d \in Call : d # c => call'[d] = call[d]
    BY <1>1, <1>4, ThenTyped DEF Loads
<1>6. \/ /\ call[c].on = None /\ selected' \in Role
         /\ call'[c] # None /\ call'[c].kind = "rows" /\ call'[c].on = selected'
         /\ call'[c].rows = Nobody /\ call'[c].stage = "sent"
      \/ selected' = selected /\ call'[c] = None
    <2>1. ASSUME selected' \in Role
          PROVE  /\ Load("rows", selected') \in Request /\ Load("rows", selected') # None
                 /\ Load("rows", selected').stage = "sent"
                 /\ Load("rows", selected').kind = "rows"
                 /\ Load("rows", selected').on = selected'
                 /\ Load("rows", selected').rows = Nobody
        BY <2>1, AskIsRequest DEF Loads, Status
    <2> QED
        BY <1>4, <2>1 DEF Then, TypeOK
<1>7. TypeOK'
    <2>1. listed' \subseteq Role /\ selected' \in Role \cup {None}
        BY <1>3, <1>4, NewestIsListed DEF TypeOK
    <2>2. strayed' \in BOOLEAN
        BY DEF ListBack, TypeOK
    <2> QED
        BY <1>1, <1>5, <2>1, <2>2 DEF TypeOK
<1>8. PickedAreShown' /\ HadFollows'
    BY <1>1 DEF PickedAreShown, HadFollows
<1>9. FormOfSelected'
    <2>1. ASSUME call[c].on = None, ~early PROVE form = None
        BY <1>1, <2>1 DEF FirstLoad, Selects
    <2> QED
        BY <1>1, <1>6, <2>1 DEF FormOfSelected
<1>10. RowsAreOfTheirRole'
    BY <1>5, <1>6 DEF RowsAreOfTheirRole, Nobody
<1>11. OldAreRows' /\ OthersAreNew' /\ SentAreEmpty' /\ NewerComes'
    <2>1. ~Newer(c)
        BY <1>1 DEF Newer, Loading
    <2> QED
        BY <1>1, <1>5, <1>6, <2>1, FollowedInv
<1>12. Chosen' /\ NoneStrays' /\ ShownIsOwn'
    <2>1. selected' # selected =>
            /\ call'[c].kind = "rows" /\ call'[c].on = selected' /\ call'[c] # None
            /\ strayed' = (Strays(selected') # {c})
        BY <1>6 DEF ListBack
    <2>2. selected' = selected => strayed' = strayed
        BY DEF ListBack
    <2>3. Chosen'
        BY <1>1, <1>2, <1>5, <1>6 DEF Chosen, Loading
    <2>4. NoneStrays'
        <3>1. CASE selected' = selected
            BY <1>5, <1>6, <2>2, <3>1 DEF NoneStrays, Strays, Waiting
        <3>2. CASE selected' # selected
            BY <1>5, <2>1, <3>2 DEF NoneStrays, Strays, Waiting
        <3> QED
            BY <3>1, <3>2
    <2>5. ShownIsOwn'
        <3>1. CASE selected' = selected
            BY <1>1, <1>5, <2>2, <3>1 DEF ShownIsOwn, Loading
        <3>2. CASE selected' # selected
            BY <2>1, <3>2 DEF ShownIsOwn, Loading
        <3> QED
            BY <3>1, <3>2
    <2> QED
        BY <2>3, <2>4, <2>5
<1>13. FirstLoad'
    BY <1>1, <1>5, <1>6 DEF FirstLoad, Selects
<1> QED
    BY <1>7, <1>8, <1>9, <1>10, <1>11, <1>12, <1>13

\* The answer to a change of a role preserves the invariant.
LEMMA JobBackInv == ASSUME IInv, NEW c \in Call, JobBack(c) PROVE IInv'
<1> USE DEF IInv, server, history, order
<1>1. /\ call[c] # None /\ call[c].kind \in Changes \ {"set", "bulk"} /\ call[c] \in Request
      /\ form' \in {None, form}
      /\ Then(c, None) \/ Then(c, Load("list", call[c].on))
      /\ UNCHANGED <<server, listed, selected, shown, picked, sends, history>>
    BY DEF JobBack, Back, TypeOK
<1>2. call[c].on \in Role \cup {None}
    BY <1>1 DEF Request
<1>3. /\ call' \in [Call -> Request \cup {None}]
      /\ \A d \in Call : d # c => call'[d] = call[d]
      /\ \/ call'[c] = None
         \/ /\ call'[c] # None /\ call'[c].kind = "list" /\ call'[c].on = call[c].on
            /\ call'[c].rows = Nobody /\ call'[c].stage = "sent"
    BY <1>1, <1>2, ThenTyped DEF Loads
<1>4. TypeOK'
    BY <1>1, <1>3 DEF TypeOK
<1>5. PickedAreShown' /\ FormOfSelected' /\ HadFollows'
    BY <1>1 DEF PickedAreShown, FormOfSelected, HadFollows
<1>6. RowsAreOfTheirRole'
    BY <1>3 DEF RowsAreOfTheirRole, Nobody
<1>7. OldAreRows' /\ OthersAreNew' /\ SentAreEmpty' /\ NewerComes'
    <2>1. ~Newer(c) /\ call[c].kind # "rows"
        BY <1>1 DEF Newer, Loading, Changes
    <2> QED
        BY <1>1, <1>3, <2>1, FollowedInv
<1>8. Chosen' /\ NoneStrays' /\ ShownIsOwn'
    <2>1. Chosen'
        BY <1>1, <1>3 DEF Chosen, Loading, Brings
    <2>2. NoneStrays'
        BY <1>1, <1>3 DEF NoneStrays, Strays, Waiting, Brings
    <2>3. ShownIsOwn'
        <3>1. \A d \in Call : Loading(d, {"rows"}) => Loading(d, {"rows"})'
            BY <1>1, <1>3 DEF Loading, Changes
        <3> QED
            BY <1>1, <3>1 DEF ShownIsOwn
    <2> QED
        BY <2>1, <2>2, <2>3
<1>9. FirstLoad'
    <2> SUFFICES ASSUME ~early', NEW d \in Call, Selects(d)' PROVE FALSE
        BY DEF FirstLoad
    <2>1. Selects(d)
        BY <1>1, <1>3 DEF Selects, Changes
    <2> QED
        BY <1>1, <2>1 DEF FirstLoad, Changes
<1> QED
    BY <1>4, <1>5, <1>6, <1>7, <1>8, <1>9

\* A change made elsewhere preserves the invariant.
LEMMA OtherInv == ASSUME IInv, NEW a \in App, NEW s \in Other, OtherSets(a, s) PROVE IInv'
<1> USE DEF IInv, view, order
<1>1. s \in Status
    BY DEF Status
<1>2. /\ UNCHANGED <<roles, view, call, sends, early, strayed, order>>
      /\ status' \in [App -> Status] /\ had' \in [App -> SUBSET Status]
      /\ \A b \in App : status'[b] \in had'[b] /\ had[b] \subseteq had'[b]
    BY <1>1 DEF OtherSets, TypeOK, HadFollows
<1>3. TypeOK'
    BY <1>2 DEF TypeOK
<1>4. PickedAreShown' /\ FormOfSelected' /\ HadFollows' /\ RowsAreOfTheirRole'
    BY <1>2 DEF PickedAreShown, FormOfSelected, HadFollows, RowsAreOfTheirRole
<1>5. Chosen' /\ NoneStrays' /\ ShownIsOwn'
    BY <1>2 DEF Chosen, NoneStrays, Strays, Waiting, ShownIsOwn, Loading
<1>6. OldAreRows' /\ OthersAreNew' /\ SentAreEmpty' /\ NewerComes'
    <2>1. \A d \in Call : Newer(d) => Newer(d)'
        BY <1>2 DEF Newer, Loading
    <2>2. Stale' => Stale
        BY <1>2 DEF Stale
    <2>3. NewerComes'
        BY <1>2, <2>1, <2>2 DEF NewerComes
    <2> QED
        BY <1>2, <2>3 DEF OldAreRows, OthersAreNew, SentAreEmpty, Loading
<1>7. FirstLoad'
    BY <1>2 DEF FirstLoad, Selects
<1> QED
    BY <1>3, <1>4, <1>5, <1>6, <1>7

\* Every step preserves the invariant.
LEMMA StepInv == IInv /\ [Next]_vars => IInv'
<1> SUFFICES ASSUME IInv, [Next]_vars PROVE IInv'
    OBVIOUS
<1>1. CASE Click
    BY <1>1, ClickInv
<1>2. ASSUME NEW c \in Call, Serve(c) \/ ListBack(c) \/ RowsBack(c) \/ StatusBack(c) \/ JobBack(c)
      PROVE  IInv'
    BY <1>2, ServesInv, ListBackInv, RowsBackInv, StatusBackInv, JobBackInv
<1>3. ASSUME NEW a \in App, NEW s \in Other, OtherSets(a, s) PROVE IInv'
    BY <1>3, OtherInv
<1>4. CASE UNCHANGED vars
    BY <1>4 DEF vars, server, view, history, order, IInv, TypeOK, PickedAreShown, FormOfSelected,
                RowsAreOfTheirRole, HadFollows, Chosen, NoneStrays, Strays, Waiting, ShownIsOwn,
                OldAreRows, OthersAreNew, SentAreEmpty, NewerComes, Newer, Stale, FirstLoad,
                Loading, Selects
<1> QED
    BY <1>1, <1>2, <1>3, <1>4 DEF Next

\* The inductive invariant holds in every reachable state.
THEOREM Inductive == Spec => []IInv
BY InitInv, StepInv, PTL DEF Spec

\* Every variable of the page and the services has its type.
THEOREM TypeCorrect == Spec => []TypeOK
BY Inductive, PTL DEF IInv

\* A bulk change only ever names applicants on the screen.
THEOREM OnlyShownArePicked == Spec => []PickedAreShown
BY Inductive, PTL DEF IInv

\* The form writes the role it was opened for, unless a role was posted before any was
\* selected.
THEOREM FormKeepsItsRole == Spec => []FormOfSelected
BY Inductive, PTL DEF IInv

\* Once every answer is in, the applicants shown are the selected role's, unless a request of
\* another role was under way when it was selected.
THEOREM ShowsTheSelectedRole == Spec => []RowsOfSelected
<1>1. IInv => RowsOfSelected
    BY DEF IInv, ShownIsOwn, RowsOfSelected, Waiting, Loading
<1> QED
    BY <1>1, Inductive, PTL

\* And they show what the page was last told it did to them, or something newer, unless an
\* older answer came after a newer one.
THEOREM ShowsItsOwnChange == Spec => []OwnChangeShown
<1>1. IInv => OwnChangeShown
    BY DEF IInv, NewerComes, Stale, Newer, OwnChangeShown, Waiting, Loading
<1> QED
    BY <1>1, Inductive, PTL
=============================================================================
