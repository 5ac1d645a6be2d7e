------------------------------ MODULE DeskPage ------------------------------
(***************************************************************************)
(* The recruiter's page (RecruiterDashboard) as a client of the services:  *)
(* the role that is selected, the applicants that are shown, the ones that *)
(* are ticked, the edit form, and the requests that have not come back.    *)
(*                                                                         *)
(* The recruiter goes on clicking while requests are under way, answers    *)
(* come back in any order, and each may be an error.  What the page does   *)
(* with an answer was decided by the render that sent the request: a       *)
(* handler keeps the selected role of that render, whatever is selected by *)
(* then.  The services are their rows: the handlers' own races are         *)
(* HiringDesk's and Catalog's subject.                                     *)
(***************************************************************************)
EXTENDS Integers, FiniteSets

CONSTANTS
    Roles,   \* how many postings there may be; the newer has the higher number
    App,
    RoleOf,  \* the posting of each application
    Choice,  \* the statuses the recruiter sets (bound)
    Other,   \* the statuses others set meanwhile (bound)
    Calls,   \* requests under way at a time (bound)
    MaxSends,\* clicks that send a request (bound)
    None

Role   == 1..Roles
Call   == 1..Calls
Status == {"pending", "interview"} \cup Choice \cup Other

ASSUME PageAssumption ==
    /\ Roles \in Nat \ {0} /\ Calls \in Nat \ {0} /\ MaxSends \in Nat
    /\ RoleOf \in [App -> Role]
    /\ (\A j \in Role : j # None) /\ (\A s \in Status : s # None)

VARIABLES
    roles,     \* the services: how many postings there are
    status,    \* the services: the status of each application
    listed,    \* the page: the roles it shows
    selected,  \* the role that is selected
    shown,     \* the applicants it shows, with their status
    picked,    \* the applicants that are ticked
    form,      \* the role the edit form was opened for, None while it is closed
    call,      \* the requests that have not come back
    sends,     \* clicks that sent one
    early,     \* history: a role was posted while none was selected
    strayed,   \* history: a request that can bring another role's applicants was under
               \* way when the selected role was last selected or filtered
    old,       \* history: the answers on their way that are older than the page's last change
    passed,    \* history: those of them that a newer answer has come before
    overtaken, \* history: the applicants shown are of such an answer
    had        \* history: the statuses of an application since the page was last told that
               \* it set one

server  == <<roles, status>>
view    == <<listed, selected, shown, picked, form>>
order   == <<old, passed, overtaken>>
history == <<early, strayed, order, had>>
vars    == <<server, view, call, sends, history>>

Rows   == [App -> Status \cup {None}]
Nobody == [a \in App |-> None]

\* The requests of the page: on is the role its handler keeps.
Loads   == {"list", "rows"}
Changes == {"create", "set", "bulk", "save", "close", "reopen"}
Lists   == {1..n : n \in 0..Roles}
Request == [kind : Loads \cup Changes, on : Role \cup {None}, apps : SUBSET App, to : Status,
            stage : {"sent", "ok", "error"}, list : Lists, rows : Rows]

ASSUME RequestAssumption == None \notin Request

Ask(kind, on, apps, to) ==
    [kind |-> kind, on |-> on, apps |-> apps, to |-> to, stage |-> "sent",
     list |-> {}, rows |-> Nobody]
Load(kind, on) == Ask(kind, on, {}, "pending")

TypeOK ==
    /\ roles \in 0..Roles
    /\ status \in [App -> Status]
    /\ listed \subseteq Role /\ selected \in Role \cup {None}
    /\ shown \in Rows /\ picked \subseteq App
    /\ form \in Role \cup {None}
    /\ call \in [Call -> Request \cup {None}]
    /\ sends \in 0..MaxSends
    /\ early \in BOOLEAN /\ strayed \in BOOLEAN /\ overtaken \in BOOLEAN
    /\ old \subseteq Call /\ passed \subseteq Call
    /\ had \in [App -> SUBSET Status]

Waiting == {c \in Call : call[c] # None}

\* The requests under way that can bring applicants of another role than j: those that load
\* another's, and those whose load of the roles selects one.
Brings    == {"rows", "set", "bulk"}
Strays(j) == {c \in Waiting : call[c].on # j /\ (call[c].kind \in Brings \/ call[c].on = None)}

\* The page opens: loadJobs is under way.
Init ==
    /\ roles \in 0..Roles
    /\ status = [a \in App |-> "pending"]
    /\ listed = {} /\ selected = None /\ shown = Nobody /\ picked = {} /\ form = None
    /\ call = [c \in Call |-> IF c = 1 THEN Load("list", None) ELSE None]
    /\ sends = 0
    /\ early = FALSE /\ strayed = FALSE
    /\ old = {} /\ passed = {} /\ overtaken = FALSE
    /\ had = [a \in App |-> {"pending"}]

----------------------------------------------------------------------------
(* What the recruiter does.  Requests leave the rest of the page alone. *)

Send(request) ==
    \E c \in Call :
        /\ call[c] = None /\ \A d \in Call : d < c => call[d] # None
        /\ call' = [call EXCEPT ![c] = request]
    /\ sends < MaxSends /\ sends' = sends + 1

Submit(request) ==
    /\ Send(request)
    /\ UNCHANGED <<server, view, strayed, order, had>>

\* createJob: the form for it is always there.
Create == /\ Submit(Load("create", selected))
          /\ early' = (early \/ selected = None)

\* setStatus of one applicant, and bulk of those that are ticked.
SetStatus(a, s) == shown[a] # None /\ Submit(Ask("set", selected, {a}, s)) /\ UNCHANGED early

\* Mutant: the applicants are wrapped once more.
BulkWrapped(s) == picked # {} /\ Submit(Ask("bulk", selected, {picked}, s)) /\ UNCHANGED early

Bulk(s) == picked # {} /\ Submit(Ask("bulk", selected, picked, s)) /\ UNCHANGED early

\* submit of ScheduleInterviewModal: the page behind it loads as after a status.
Schedule(a) == shown[a] # None /\ Submit(Ask("set", selected, {a}, "interview")) /\ UNCHANGED early

\* saveJob, closeJob and reopenJob, offered with the role that is selected and listed.
SaveJob == /\ form # None /\ selected \in listed
           /\ Submit(Load("save", selected)) /\ UNCHANGED early
SetOpen == /\ selected \in listed
           /\ \E kind \in {"close", "reopen"} : Submit(Load(kind, selected))
           /\ UNCHANGED early

\* startEdit, and its button again.
ToggleEdit ==
    /\ selected \in listed
    /\ form' = IF form = None THEN selected ELSE None
    /\ UNCHANGED <<server, listed, selected, shown, picked, call, sends, history>>

Tick ==
    /\ \/ \E a \in App : shown[a] # None /\ picked' = (picked \cup {a}) \ (picked \cap {a})
       \/ picked' \in {{}, {a \in App : shown[a] # None}}
    /\ UNCHANGED <<server, listed, selected, shown, form, call, sends, history>>

\* Mutant: another role is selected with the form still open.
SelectInForm(j) ==
    /\ j \in listed
    /\ selected' = j
    /\ UNCHANGED form
    /\ IF j = selected THEN UNCHANGED <<call, sends, strayed>>
       ELSE Send(Load("rows", j)) /\ strayed' = (Strays(j) # {})
    /\ UNCHANGED <<server, listed, shown, picked, early, order, had>>

\* Mutant: the applicants are not loaded again.
SelectOnly(j) ==
    /\ j \in listed
    /\ selected' = j
    /\ form' = None
    /\ strayed' = (Strays(j) # {})
    /\ UNCHANGED <<server, listed, shown, picked, call, sends, early, order, had>>

\* A role is selected; the effect on selected loads its applicants if it is another.
Select(j) ==
    /\ j \in listed
    /\ selected' = j
    /\ form' = None
    /\ IF j = selected THEN UNCHANGED <<call, sends, strayed>>
       ELSE Send(Load("rows", j)) /\ strayed' = (Strays(j) # {})
    /\ UNCHANGED <<server, listed, shown, picked, early, order, had>>

\* Filter, Reset, Previous and Next.
Filter ==
    /\ selected # None
    /\ Send(Load("rows", selected))
    /\ strayed' = (Strays(selected) # {})
    /\ UNCHANGED <<server, view, early, order, had>>

Click == \/ Create \/ SaveJob \/ SetOpen \/ ToggleEdit \/ Tick \/ Filter
         \/ \E s \in Choice : Bulk(s) \/ \E a \in App : SetStatus(a, s)
         \/ \E a \in App : Schedule(a)
         \/ \E j \in Role : Select(j)

----------------------------------------------------------------------------
(* The services *)

\* Request c is answered: with an error, whether it did something or not, or with what
\* it asked for.
Answer(c, request) ==
    \E stage \in {"ok", "error"} : call' = [call EXCEPT ![c] = [request EXCEPT !.stage = stage]]

Sent(c, kinds) == call[c] # None /\ call[c].kind \in kinds /\ call[c].stage = "sent"

\* listJobs, for a recruiter.
ServeList(c) ==
    /\ Sent(c, {"list"})
    /\ Answer(c, [call[c] EXCEPT !.list = 1..roles])
    /\ UNCHANGED <<server, order, had>>

\* forJob: the filters and the page let some of the role's applicants through.
ServeRows(c) ==
    /\ Sent(c, {"rows"})
    /\ \E through \in SUBSET {a \in App : RoleOf[a] = call[c].on} :
         Answer(c, [call[c] EXCEPT !.rows = [a \in App |-> IF a \in through THEN status[a] ELSE None]])
    /\ UNCHANGED <<server, order, had>>

ServeCreate(c) ==
    /\ Sent(c, {"create"}) /\ roles < Roles
    /\ roles' = roles + 1
    /\ Answer(c, call[c])
    /\ UNCHANGED <<status, order, had>>

\* setStatus, bulkStatus and schedule.
ServeStatus(c) ==
    /\ Sent(c, {"set", "bulk"})
    /\ status' = [a \in App |-> IF a \in call[c].apps THEN call[c].to ELSE status[a]]
    /\ Answer(c, call[c])
    /\ IF call'[c].stage = "ok"
       THEN /\ had' = [a \in App |-> IF a \in call[c].apps THEN {call[c].to} ELSE had[a]]
            /\ old' = old \cup {d \in Waiting : call[d].kind = "rows" /\ call[d].stage # "sent"}
       ELSE /\ had' = [a \in App |-> IF a \in call[c].apps THEN had[a] \cup {call[c].to}
                                                           ELSE had[a]]
            /\ UNCHANGED old
    /\ UNCHANGED <<roles, passed, overtaken>>

\* updateJob, closeJob and reopenJob change what a role says, which the page does not use.
ServeJob(c) ==
    /\ Sent(c, {"save", "close", "reopen"})
    /\ Answer(c, call[c])
    /\ UNCHANGED <<server, order, had>>

\* Any request may fail before it did anything.
Refuse(c) ==
    /\ Sent(c, Loads \cup Changes)
    /\ call' = [call EXCEPT ![c].stage = "error"]
    /\ UNCHANGED <<server, order, had>>

Serve(c) ==
    /\ ServeList(c) \/ ServeRows(c) \/ ServeCreate(c) \/ ServeStatus(c) \/ ServeJob(c) \/ Refuse(c)
    /\ UNCHANGED <<view, sends, early, strayed>>

\* A student decides, an interview is booked or cancelled, another tab.
OtherSets(a, s) ==
    /\ RoleOf[a] <= roles
    /\ status' = [status EXCEPT ![a] = s]
    /\ had' = [had EXCEPT ![a] = @ \cup {s}]
    /\ UNCHANGED <<roles, view, call, sends, early, strayed, order>>

----------------------------------------------------------------------------
(* What the page does with an answer *)

Newest(list) == CHOOSE j \in list : \A k \in list : k <= j

Back(c, kind) == /\ call[c] # None /\ call[c].kind = kind /\ call[c].stage # "sent"
Ok(c) == call[c].stage = "ok"
Then(c, request) == call' = [call EXCEPT ![c] = request]

\* loadJobs: of a failed load the page keeps nothing (apiTry), and the newest role is
\* selected if none was when the load was sent, whatever is by now.
ListBack(c) ==
    /\ Back(c, "list")
    /\ listed' = IF Ok(c) THEN call[c].list ELSE {}
    /\ IF call[c].on = None /\ listed' # {}
       THEN /\ selected' = Newest(listed')
            /\ Then(c, IF selected' = selected THEN None ELSE Load("rows", selected'))
            /\ strayed' = IF selected' = selected THEN strayed ELSE Strays(selected') # {c}
       ELSE UNCHANGED <<selected, strayed>> /\ Then(c, None)
    /\ UNCHANGED <<server, shown, picked, form, sends, early, order, had>>

\* The rows of c are shown: if they are newer than the page's last change, the older ones
\* still on their way will replace them.
Overtakes(c) ==
    /\ overtaken' = (c \in passed)
    /\ old' = old \ {c}
    /\ passed' = IF c \in old THEN passed \ {c} ELSE old

\* Mutant: the ticks stay.
RowsKeepTicks(c) ==
    /\ Back(c, "rows")
    /\ shown' = IF Ok(c) THEN call[c].rows ELSE Nobody
    /\ UNCHANGED picked
    /\ Then(c, None)
    /\ Overtakes(c)
    /\ UNCHANGED <<server, listed, selected, form, sends, early, strayed, had>>

\* loadApps: the applicants shown are replaced, and none is ticked.
RowsBack(c) ==
    /\ Back(c, "rows")
    /\ shown' = IF Ok(c) THEN call[c].rows ELSE Nobody
    /\ picked' = {}
    /\ Then(c, None)
    /\ Overtakes(c)
    /\ UNCHANGED <<server, listed, selected, form, sends, early, strayed, had>>

\* Mutant: the applicants are not loaded again.
StatusBackOnly(c) ==
    /\ \E kind \in {"set", "bulk"} : Back(c, kind)
    /\ picked' = IF Ok(c) /\ call[c].kind = "bulk" THEN {} ELSE picked
    /\ Then(c, None)
    /\ UNCHANGED <<server, listed, selected, shown, form, sends, history>>

\* setStatus and bulk: the role that was selected is loaded again.  An error goes
\* nowhere: nothing is loaded and nothing is said.
StatusBack(c) ==
    /\ \E kind \in {"set", "bulk"} : Back(c, kind)
    /\ picked' = IF Ok(c) /\ call[c].kind = "bulk" THEN {} ELSE picked
    /\ Then(c, IF Ok(c) /\ call[c].on # None THEN Load("rows", call[c].on) ELSE None)
    /\ UNCHANGED <<server, listed, selected, shown, form, sends, history>>

\* createJob, saveJob, closeJob and reopenJob: the roles are loaded again.
JobBack(c) ==
    /\ \E kind \in Changes \ {"set", "bulk"} : Back(c, kind)
    /\ form' = IF Ok(c) /\ call[c].kind \in {"save", "close"} THEN None ELSE form
    /\ Then(c, IF Ok(c) THEN Load("list", call[c].on) ELSE None)
    /\ UNCHANGED <<server, listed, selected, shown, picked, sends, history>>

Next ==
    \/ Click
    \/ \E c \in Call : Serve(c) \/ ListBack(c) \/ RowsBack(c) \/ StatusBack(c) \/ JobBack(c)
    \/ \E a \in App, s \in Other : OtherSets(a, s)

Spec == Init /\ [][Next]_vars

----------------------------------------------------------------------------
(* Properties *)

\* Only applicants on the screen are ticked, so a bulk change names no applicant the
\* recruiter does not see, though answers replace the rows at any moment
\* (RecruiterDashboard.tsx:115, 174-177).
PickedAreShown == \A a \in picked : shown[a] # None

\* The edit form writes over the role it was opened for, because selecting another role
\* closes it.  There is one way around that, and no other: the answer of a load sent
\* while no role was selected moves the selection under the open form, which takes a
\* role posted before one was selected (RecruiterDashboard.tsx:92, 197, 285-286).
FormOfSelected == form # None /\ form # selected => early

\* Once every answer is in, the applicants shown are the selected role's, however many
\* changes, filters and pages were under way at once, whatever failed and in whatever
\* order the answers came.  What can put another role's under the selection is a request
\* that was sent under that role and still under way when this one was selected, and
\* nothing else (RecruiterDashboard.tsx:122-124, 169-178).
RowsOfSelected ==
    Waiting = {} /\ ~strayed => \A a \in App : shown[a] # None => RoleOf[a] = selected

\* And they show each applicant as it was at, or after, the last change of it that the page
\* was told of, whatever others changed meanwhile.  What can undo that on the screen is an
\* answer older than the change that arrives after a newer one, and nothing else
\* (RecruiterDashboard.tsx:106-116, 169-178).
OwnChangeShown ==
    Waiting = {} /\ ~overtaken => \A a \in App : shown[a] # None => shown[a] \in had[a]
=============================================================================
