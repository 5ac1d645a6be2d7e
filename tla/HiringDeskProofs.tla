-------------------------- MODULE HiringDeskProofs --------------------------
(***************************************************************************)
(* Proofs about HiringDesk, for any applications and requests and whatever *)
(* recruiters and students set: what is told was true, a decision needs an *)
(* offer, and success is answered only when everything was told.           *)
(***************************************************************************)
EXTENDS HiringDesk, TLAPS

\* The history of a request follows the applications it names.
HistoryFollows ==
    \A r \in Req : \A a \in at[r] : status[a] \in was[r][a]

\* The steps of requests that name one application; a decision's last is one too.
SingleSteps == Steps \ {"done", "bulkFind", "bulkUpdate", "emit"}

\* A request between its load and its save has loaded a status its
\* application had; one that emits has set its status on all it names, and
\* each of them is told or still to be told.  Only a request that ended has an
\* answer.
RequestsAreOnTheirWay ==
    \A r \in Req :
        /\ pc[r] \in SingleSteps => \E a \in Application : at[r] = {a}
        /\ pc[r] = "save" => \A a \in at[r] : seen[r] \in was[r][a]
        /\ pc[r] = "emit" => \A a \in at[r] : new[r] \in was[r][a]
        /\ pc[r] = "emit" => untold[r] \cup told[r] = at[r]
        /\ pc[r] # "emit" => told[r] = {}
        /\ pc[r] # "done" => reply[r] = "none"

\* A decision names one application, goes its own way, and saves only if the
\* status it loaded is an offer.
DecisionsAreLegal ==
    \A r \in Req : new[r] \in Decision =>
        /\ pc[r] \in {"decideFind", "save", "emit"}
        /\ \E a \in Application : at[r] = {a}
        /\ pc[r] = "save" => seen[r] = "offered"

IInv ==
    /\ TypeOK
    /\ HistoryFollows
    /\ RequestsAreOnTheirWay
    /\ DecisionsAreLegal

\* The initial state satisfies the inductive invariant.
LEMMA InitInv == Init => IInv
BY DEF Init, IInv, TypeOK, HistoryFollows, RequestsAreOnTheirWay, DecisionsAreLegal,
       SingleSteps, Status, RecruiterStatus, Decision, Steps, Replies, Unknown

\* A write of the field is in the history of every request that names the
\* application, and takes nothing out of it.
LEMMA WriteGrows ==
    ASSUME TypeOK, NEW A \in SUBSET Application, NEW s \in Status, Write(A, s)
    PROVE  /\ status' \in [Application -> Status]
           /\ was' \in [Req -> [Application -> SUBSET Status]]
           /\ \A q \in Req, a \in Application : was[q][a] \subseteq was'[q][a]
           /\ \A q \in Req : \A a \in at[q] :
                status[a] \in was[q][a] => status'[a] \in was'[q][a]
           /\ \A q \in Req : \A a \in A \cap at[q] : s \in was'[q][a]
BY DEF Write, TypeOK

\* A request that ends preserves the invariant.
LEMMA AnswerInv ==
    ASSUME IInv, NEW r \in Req, NEW answer \in Replies, Answer(r, answer)
    PROVE  IInv'
<1>1. TypeOK'
  BY DEF IInv, TypeOK, Answer, Unknown, Steps, Status, RecruiterStatus
<1>2. HistoryFollows'
  BY DEF IInv, TypeOK, HistoryFollows, Answer
<1>3. RequestsAreOnTheirWay'
  BY DEF IInv, TypeOK, RequestsAreOnTheirWay, Answer, SingleSteps
<1>4. DecisionsAreLegal'
  BY DEF IInv, TypeOK, DecisionsAreLegal, Answer, Decision
<1>5. QED  BY <1>1, <1>2, <1>3, <1>4 DEF IInv

\* A request that arrives preserves the invariant; a decision comes alone.
LEMMA ArriveInv ==
    ASSUME IInv, NEW r \in Req, NEW first \in Steps \ {"save", "emit"},
           NEW A \in SUBSET Application, NEW s \in Status, Arrive(r, first, A, s),
           s \in Decision => first = "decideFind",
           first \in SingleSteps \cup {"bulkFind"},
           first = "bulkFind" \/ \E a \in Application : A = {a}
    PROVE  IInv'
<1>0. [a \in Application |-> IF a \in A THEN {status[a]} ELSE {}]
        \in [Application -> SUBSET Status]
  BY DEF IInv, TypeOK
<1>1. TypeOK'
  BY <1>0 DEF IInv, TypeOK, Arrive, Replies
<1>2. HistoryFollows'
  BY DEF IInv, TypeOK, HistoryFollows, Arrive
<1>3. RequestsAreOnTheirWay'
  <2> SUFFICES ASSUME NEW q \in Req PROVE RequestsAreOnTheirWay!(q)'
    BY DEF RequestsAreOnTheirWay
  <2>1. CASE q = r
    <3>1. /\ pc[r] = "done" /\ pc'[r] = first /\ at'[r] = A /\ told'[r] = told[r]
          /\ reply'[r] = "none"
      BY DEF Arrive, IInv, TypeOK
    <3>2. told[r] = {}
      BY <3>1 DEF IInv, RequestsAreOnTheirWay
    <3>3. QED  BY <2>1, <3>1, <3>2 DEF SingleSteps
  <2>2. CASE q # r
    <3>1. /\ pc'[q] = pc[q] /\ at'[q] = at[q] /\ new'[q] = new[q] /\ was'[q] = was[q]
          /\ seen'[q] = seen[q] /\ untold'[q] = untold[q] /\ told'[q] = told[q]
          /\ reply'[q] = reply[q]
      BY <2>2 DEF Arrive, IInv, TypeOK
    <3>2. QED  BY <3>1 DEF IInv, RequestsAreOnTheirWay
  <2>3. QED  BY <2>1, <2>2
<1>4. DecisionsAreLegal'
  BY DEF IInv, TypeOK, DecisionsAreLegal, Arrive, SingleSteps
<1>5. QED  BY <1>1, <1>2, <1>3, <1>4 DEF IInv

\* Loading the application preserves the invariant; a decision saves only an
\* offer it has loaded.
LEMMA FindInv ==
    ASSUME IInv, NEW r \in Req, NEW here \in SingleSteps, NEW mayGoOn,
           NEW next \in SingleSteps, Find(r, here, mayGoOn, next),
           here # "save",
           here = "decideFind" =>
             next = "save" /\ \A a \in at[r] : mayGoOn[a] => status[a] = "offered"
    PROVE  IInv'
<1>1. CASE Answer(r, "error")
  BY <1>1, AnswerInv DEF Replies
<1>2. CASE ~Answer(r, "error")
  <2>1. PICK a \in at[r] :
          /\ mayGoOn[a]
          /\ seen' = [seen EXCEPT ![r] = status[a]]
          /\ Goto(r, next)
          /\ UNCHANGED <<status, booked, at, new, untold, history>>
    BY <1>2 DEF Find
  <2>2. pc[r] = here /\ at[r] = {a} /\ a \in Application
    BY <2>1 DEF Find, IInv, TypeOK, RequestsAreOnTheirWay
  <2>3. TypeOK'
    BY <2>1, <2>2 DEF IInv, TypeOK, Goto, history, SingleSteps
  <2>4. HistoryFollows'
    BY <2>1 DEF IInv, TypeOK, HistoryFollows, history
  <2>5. RequestsAreOnTheirWay'
    BY <2>1, <2>2
    DEF IInv, TypeOK, RequestsAreOnTheirWay, HistoryFollows, Goto, history, SingleSteps
  <2>6. DecisionsAreLegal'
    BY <2>1, <2>2 DEF IInv, TypeOK, DecisionsAreLegal, Goto, history, SingleSteps
  <2>7. QED  BY <2>3, <2>4, <2>5, <2>6 DEF IInv
<1>3. QED  BY <1>1, <1>2

\* A save preserves the invariant: if it writes nothing, the status it was to
\* write is the one it loaded.
LEMMA SaveInv ==
    ASSUME IInv, NEW r \in Req, NEW here \in {"save", "bookSave"},
           NEW owed \in SUBSET Application, NEW next \in {"emit", "invite"},
           Save(r, here, owed, next),
           next = "emit" => here = "save" /\ owed = at[r],
           here = "save" => next = "emit"
    PROVE  IInv'
<1>1. /\ at[r] \in SUBSET Application /\ new[r] \in Status
      /\ status' \in [Application -> Status]
      /\ was' \in [Req -> [Application -> SUBSET Status]]
      /\ \A q \in Req, a \in Application : was[q][a] \subseteq was'[q][a]
      /\ \A q \in Req : \A a \in at[q] :
            status[a] \in was[q][a] => status'[a] \in was'[q][a]
      /\ next = "emit" => \A a \in at[r] : new[r] \in was'[r][a]
  <2>1. at[r] \in SUBSET Application /\ new[r] \in Status
    BY DEF IInv, TypeOK
  <2>2. CASE seen[r] = new[r]
    BY <2>1, <2>2 DEF Save, IInv, TypeOK, RequestsAreOnTheirWay
  <2>3. CASE seen[r] # new[r]
    <3>1. Write(at[r], new[r])  BY <2>3 DEF Save
    <3>2. TypeOK  BY DEF IInv
    <3>3. QED  BY <2>1, <3>1, <3>2, WriteGrows
  <2>4. QED  BY <2>2, <2>3
<1>2. pc[r] = here /\ Goto(r, next) /\ untold' = [untold EXCEPT ![r] = owed]
      /\ UNCHANGED <<booked, at, new, seen, told>>
  BY DEF Save, request
<1>3. TypeOK'
  BY <1>1, <1>2 DEF IInv, TypeOK, Goto, Steps
<1>4. HistoryFollows'
  BY <1>1, <1>2 DEF IInv, HistoryFollows
<1>5. RequestsAreOnTheirWay'
  <2> SUFFICES ASSUME NEW q \in Req PROVE RequestsAreOnTheirWay!(q)'
    BY DEF RequestsAreOnTheirWay
  <2>1. /\ at'[q] = at[q] /\ new'[q] = new[q] /\ seen'[q] = seen[q] /\ told'[q] = told[q]
        /\ reply'[q] = reply[q] /\ at[q] \subseteq Application
    BY <1>2 DEF IInv, TypeOK, Goto
  <2>2. CASE q = r
    <3>1. pc'[r] = next /\ untold'[r] = owed /\ pc[r] = here
      BY <1>2 DEF IInv, TypeOK, Goto
    <3>2. told[r] = {} /\ reply[r] = "none"
      BY <3>1 DEF IInv, RequestsAreOnTheirWay
    <3>3. next = "invite" => \E a \in Application : at[r] = {a}
      BY <3>1 DEF IInv, RequestsAreOnTheirWay, SingleSteps, Steps
    <3>4. QED  BY <1>1, <2>1, <2>2, <3>1, <3>2, <3>3 DEF SingleSteps
  <2>3. CASE q # r
    <3>1. pc'[q] = pc[q] /\ untold'[q] = untold[q]
      BY <1>2, <2>3 DEF IInv, TypeOK, Goto
    <3>2. \A a \in at[q] : was[q][a] \subseteq was'[q][a]
      BY <1>1, <2>1
    <3>3. QED  BY <2>1, <3>1, <3>2 DEF IInv, RequestsAreOnTheirWay
  <2>4. QED  BY <2>2, <2>3
<1>6. DecisionsAreLegal'
  BY <1>2 DEF IInv, TypeOK, DecisionsAreLegal, Goto
<1>7. QED  BY <1>3, <1>4, <1>5, <1>6 DEF IInv

\* An unconditional write preserves the invariant.
LEMMA UpdateInv ==
    ASSUME IInv, NEW r \in Req, NEW owed \in SUBSET Application,
           NEW here \in {"bulkUpdate", "cancelReset"}, NEW next \in {"emit", "invite"},
           pc[r] = here, Write(at[r], new[r]),
           untold' = [untold EXCEPT ![r] = owed],
           Goto(r, next), UNCHANGED <<booked, request, told>>,
           next = "emit" => owed = at[r],
           here = "cancelReset" <=> next = "invite"
    PROVE  IInv'
<1>1. at[r] \in SUBSET Application /\ new[r] \in Status
  BY DEF IInv, TypeOK
<1>2. /\ status' \in [Application -> Status]
      /\ was' \in [Req -> [Application -> SUBSET Status]]
      /\ \A q \in Req, a \in Application : was[q][a] \subseteq was'[q][a]
      /\ \A q \in Req : \A a \in at[q] :
            status[a] \in was[q][a] => status'[a] \in was'[q][a]
      /\ \A a \in at[r] : new[r] \in was'[r][a]
  BY <1>1, WriteGrows DEF IInv
<1>3. UNCHANGED <<booked, at, new, seen, told>>
  BY DEF request
<1>4. TypeOK'
  BY <1>2, <1>3 DEF IInv, TypeOK, Goto, Steps
<1>5. HistoryFollows'
  BY <1>2, <1>3 DEF IInv, HistoryFollows
<1>6. RequestsAreOnTheirWay'
  <2> SUFFICES ASSUME NEW q \in Req PROVE RequestsAreOnTheirWay!(q)'
    BY DEF RequestsAreOnTheirWay
  <2>1. /\ at'[q] = at[q] /\ new'[q] = new[q] /\ seen'[q] = seen[q] /\ told'[q] = told[q]
        /\ reply'[q] = reply[q] /\ at[q] \subseteq Application
    BY <1>3 DEF IInv, TypeOK, Goto
  <2>2. CASE q = r
    <3>1. pc'[r] = next /\ untold'[r] = owed /\ pc[r] = here
      BY <1>3 DEF IInv, TypeOK, Goto
    <3>2. told[r] = {} /\ reply[r] = "none"
      BY <3>1 DEF IInv, RequestsAreOnTheirWay
    <3>3. next = "invite" => \E a \in Application : at[r] = {a}
      BY <3>1 DEF IInv, RequestsAreOnTheirWay, SingleSteps, Steps
    <3>4. QED  BY <1>2, <2>1, <2>2, <3>1, <3>2, <3>3 DEF SingleSteps
  <2>3. CASE q # r
    <3>1. pc'[q] = pc[q] /\ untold'[q] = untold[q]
      BY <1>3, <2>3 DEF IInv, TypeOK, Goto
    <3>2. \A a \in at[q] : was[q][a] \subseteq was'[q][a]
      BY <1>2, <2>1
    <3>3. QED  BY <2>1, <3>1, <3>2 DEF IInv, RequestsAreOnTheirWay
  <2>4. QED  BY <2>2, <2>3
<1>7. DecisionsAreLegal'
  BY <1>3 DEF IInv, TypeOK, DecisionsAreLegal, Goto
<1>8. QED  BY <1>4, <1>5, <1>6, <1>7 DEF IInv

\* Every step preserves the inductive invariant.
LEMMA NextInv == IInv /\ [Next]_vars => IInv'
<1> SUFFICES ASSUME IInv, [Next]_vars PROVE IInv'
  OBVIOUS
<1> USE DEF SingleSteps, Steps
<1>1. CASE UNCHANGED vars
  BY <1>1 DEF vars, request, history, IInv, TypeOK, HistoryFollows,
              RequestsAreOnTheirWay, DecisionsAreLegal
<1>2. ASSUME NEW r \in Req, Arrivals(r) PROVE IInv'
  <2>1. CASE StartSet(r)
    <3>1. PICK a \in Application, s \in Choice : Arrive(r, "setFind", {a}, s)
      BY <2>1 DEF StartSet
    <3>2. QED  BY <3>1, ArriveInv, ChoiceAssumption DEF Status, RecruiterStatus, Decision
  <2>2. CASE StartDecide(r)
    <3>1. PICK a \in Application, s \in Verdict : Arrive(r, "decideFind", {a}, s)
      BY <2>2 DEF StartDecide
    <3>2. QED  BY <3>1, ArriveInv, ChoiceAssumption DEF Status
  <2>3. CASE StartBulk(r)
    <3>1. PICK A \in SUBSET Application, s \in Choice : Arrive(r, "bulkFind", A, s)
      BY <2>3 DEF StartBulk
    <3>2. QED  BY <3>1, ArriveInv, ChoiceAssumption DEF Status, RecruiterStatus, Decision
  <2>4. CASE StartBook(r)
    <3>1. PICK a \in Application : Arrive(r, "bookFind", {a}, "interview")
      BY <2>4 DEF StartBook
    <3>2. QED  BY <3>1, ArriveInv DEF Status, RecruiterStatus, Decision
  <2>5. CASE StartCancel(r)
    <3>1. PICK a \in Application : Arrive(r, "cancelFind", {a}, "shortlisted")
      BY <2>5 DEF StartCancel
    <3>2. QED  BY <3>1, ArriveInv DEF Status, RecruiterStatus, Decision
  <2>6. QED  BY <1>2, <2>1, <2>2, <2>3, <2>4, <2>5 DEF Arrivals
<1>3. ASSUME NEW r \in Req, Desk(r) PROVE IInv'
  <2>1. CASE SetFind(r)
    BY <2>1, FindInv DEF SetFind
  <2>2. CASE DecideFind(r)
    <3>1. \A a \in at[r] : a \in Application  BY DEF IInv, TypeOK
    <3>2. QED  BY <2>2, <3>1, FindInv DEF DecideFind
  <2>3. CASE SaveStatus(r)
    <3>1. at[r] \in SUBSET Application  BY DEF IInv, TypeOK
    <3>2. QED  BY <2>3, <3>1, SaveInv DEF SaveStatus
  <2>4. CASE BulkFind(r)
    <3>1. CASE Answer(r, "error")  BY <3>1, AnswerInv DEF Replies
    <3>2. CASE ~Answer(r, "error")
      <4>1. /\ pc[r] = "bulkFind" /\ Goto(r, "bulkUpdate")
            /\ UNCHANGED <<status, booked, at, new, seen, untold, told, was>>
        BY <2>4, <3>2 DEF BulkFind, request, history
      <4>2. TypeOK'  BY <4>1 DEF IInv, TypeOK, Goto
      <4>3. HistoryFollows'  BY <4>1 DEF IInv, HistoryFollows
      <4>4. RequestsAreOnTheirWay'
        BY <4>1 DEF IInv, TypeOK, RequestsAreOnTheirWay, Goto
      <4>5. DecisionsAreLegal'  BY <4>1 DEF IInv, TypeOK, DecisionsAreLegal, Goto
      <4>6. QED  BY <4>2, <4>3, <4>4, <4>5 DEF IInv
    <3>3. QED  BY <3>1, <3>2
  <2>5. CASE BulkUpdate(r)
    <3>1. at[r] \in SUBSET Application  BY DEF IInv, TypeOK
    <3>2. QED  BY <2>5, <3>1, UpdateInv DEF BulkUpdate
  <2>6. CASE EmitStatus(r)
    <3>1. PICK a \in untold[r] :
            /\ told' = [told EXCEPT ![r] = @ \cup {a}]
            /\ untold' = [untold EXCEPT ![r] = @ \ {a}]
      BY <2>6 DEF EmitStatus
    <3>2. /\ pc[r] = "emit" /\ a \in Application
          /\ UNCHANGED <<status, booked, pc, at, new, seen, reply, was>>
      BY <2>6, <3>1 DEF EmitStatus, request, IInv, TypeOK
    <3>3. TypeOK'  BY <3>1, <3>2 DEF IInv, TypeOK
    <3>4. HistoryFollows'  BY <3>2 DEF IInv, HistoryFollows
    <3>5. RequestsAreOnTheirWay'
      BY <3>1, <3>2 DEF IInv, TypeOK, RequestsAreOnTheirWay
    <3>6. DecisionsAreLegal'  BY <3>2 DEF IInv, DecisionsAreLegal
    <3>7. QED  BY <3>3, <3>4, <3>5, <3>6 DEF IInv
  <2>7. CASE AllTold(r)
    BY <2>7, AnswerInv DEF AllTold, Replies
  <2>8. QED  BY <1>3, <2>1, <2>2, <2>3, <2>4, <2>5, <2>6, <2>7 DEF Desk
<1>4. ASSUME NEW r \in Req, Calendar(r) PROVE IInv'
  <2>1. CASE BookFind(r)
    BY <2>1, FindInv DEF BookFind
  <2>2. CASE Book(r)
    <3>1. CASE Answer(r, "error")  BY <3>1, AnswerInv DEF Replies
    <3>2. CASE ~Answer(r, "error")
      <4>1. /\ pc[r] = "book" /\ Goto(r, "bookSave")
            /\ booked' = [a \in Application |-> booked[a] \/ a \in at[r]]
            /\ UNCHANGED <<status, at, new, seen, untold, told, was>>
        BY <2>2, <3>2 DEF Book, request, history
      <4>2. TypeOK'
        <5>1. booked' \in [Application -> BOOLEAN]  BY <4>1, Zenon
        <5>2. QED  BY <4>1, <5>1 DEF IInv, TypeOK, Goto
      <4>3. HistoryFollows'  BY <4>1 DEF IInv, HistoryFollows
      <4>4. RequestsAreOnTheirWay'
        BY <4>1 DEF IInv, TypeOK, RequestsAreOnTheirWay, Goto
      <4>5. DecisionsAreLegal'  BY <4>1 DEF IInv, TypeOK, DecisionsAreLegal, Goto
      <4>6. QED  BY <4>2, <4>3, <4>4, <4>5 DEF IInv
    <3>3. QED  BY <3>1, <3>2
  <2>3. CASE BookSave(r)
    BY <2>3, SaveInv DEF BookSave
  <2>4. CASE CancelFind(r)
    BY <2>4, FindInv DEF CancelFind
  <2>5. CASE CancelReset(r)
    <3>1. untold' = [untold EXCEPT ![r] = untold[r]] /\ untold[r] \in SUBSET Application
      BY <2>5 DEF CancelReset, IInv, TypeOK
    <3>2. QED  BY <2>5, <3>1, UpdateInv DEF CancelReset
  <2>6. CASE Invite(r)
    BY <2>6, AnswerInv DEF Invite, Replies
  <2>7. QED  BY <1>4, <2>1, <2>2, <2>3, <2>4, <2>5, <2>6 DEF Calendar
<1>5. ASSUME NEW r \in Req, Die(r) PROVE IInv'
  BY <1>5, AnswerInv DEF Die, Replies
<1>6. QED  BY <1>1, <1>2, <1>3, <1>4, <1>5 DEF Next

\* The variables keep the types the module gives them.
THEOREM TypeCorrect == Spec => []TypeOK
<1>1. IInv => TypeOK  BY DEF IInv
<1>2. QED  BY InitInv, NextInv, <1>1, PTL DEF Spec

\* What a student is told of an application was true at some moment of the
\* request that tells it, whichever requests write the field beside it.
THEOREM ToldWasTrueHolds == Spec => []ToldWasTrue
<1>1. IInv => ToldWasTrue
  BY DEF IInv, TypeOK, RequestsAreOnTheirWay, ToldWasTrue
<1>2. QED  BY InitInv, NextInv, <1>1, PTL DEF Spec

\* An application is decided only in a decision during which it was on offer:
\* of the writers of the field only decide writes a decision, and only after it
\* has loaded an offer.
THEOREM DecidedOnOfferHolds == Spec => DecidedOnOffer
<1> DEFINE Decides(a) == status'[a] # status[a] /\ status'[a] \in Decision
           ByItsOwn(a) == \E r \in Req :
              at[r] = {a} /\ new[r] = status'[a] /\ "offered" \in was[r][a]
<1>1. ASSUME IInv, NEW r \in Req, Write(at[r], new[r]),
             pc[r] \in {"save", "bookSave", "bulkUpdate", "cancelReset"},
             NEW a \in Application, Decides(a)
      PROVE  ByItsOwn(a)
  <2>1. a \in at[r] /\ status'[a] = new[r]
    BY <1>1 DEF Write, IInv, TypeOK
  <2>2. pc[r] = "save" /\ at[r] = {a} /\ seen[r] = "offered"
    BY <1>1, <2>1 DEF IInv, DecisionsAreLegal
  <2>3. "offered" \in was[r][a]
    BY <1>1, <2>1, <2>2 DEF RequestsAreOnTheirWay, IInv
  <2>4. QED  BY <2>1, <2>2, <2>3
<1>2. ASSUME IInv, NEW r \in Req, Arrivals(r) \/ Desk(r) \/ Calendar(r) \/ Die(r),
             NEW a \in Application, Decides(a)
      PROVE  Write(at[r], new[r])
             /\ pc[r] \in {"save", "bookSave", "bulkUpdate", "cancelReset"}
  <2>1. status' # status  BY <1>2
  <2>2. CASE Arrivals(r) \/ Die(r)
    BY <2>1, <2>2 DEF Arrivals, StartSet, StartDecide, StartBulk, StartBook, StartCancel,
                      Arrive, Die, Answer
  <2>3. CASE Desk(r)
    BY <2>1, <2>3 DEF Desk, SetFind, DecideFind, SaveStatus, BulkFind, BulkUpdate, EmitStatus,
                      AllTold, Find, Save, Answer
  <2>4. CASE Calendar(r)
    BY <2>1, <2>4 DEF Calendar, BookFind, Book, BookSave, CancelFind, CancelReset, Invite,
                      Find, Save, Answer
  <2>5. QED  BY <1>2, <2>2, <2>3, <2>4
<1>3. IInv /\ [Next]_vars => [\A a \in Application : Decides(a) => ByItsOwn(a)]_vars
  BY <1>1, <1>2 DEF Next
<1>4. QED  BY InitInv, NextInv, <1>3, PTL DEF Spec, DecidedOnOffer

\* Success is answered only when every application named was told: a request
\* that emits has no answer, and the step that gives it one needs untold empty.
THEOREM AnsweredMeansToldHolds == Spec => AnsweredMeansTold
<1> DEFINE Answered(r) == pc[r] = "emit" /\ reply'[r] = "ok"
<1>1. ASSUME IInv, NEW r \in Req, Answered(r),
             NEW q \in Req, Arrivals(q) \/ Desk(q) \/ Calendar(q) \/ Die(q)
      PROVE  told[r] = at[r]
  <2>1. reply[r] = "none" /\ reply' # reply
    BY <1>1 DEF IInv, RequestsAreOnTheirWay
  <2>2. q = r
    <3>1. CASE Arrivals(q) \/ Die(q)
      BY <1>1, <2>1, <3>1
      DEF Arrivals, StartSet, StartDecide, StartBulk, StartBook, StartCancel, Arrive, Die,
          Answer, IInv, TypeOK
    <3>2. CASE Desk(q)
      BY <1>1, <2>1, <3>2
      DEF Desk, SetFind, DecideFind, SaveStatus, BulkFind, BulkUpdate, EmitStatus, AllTold,
          Find, Save, Goto, Answer, IInv, TypeOK
    <3>3. CASE Calendar(q)
      BY <1>1, <2>1, <3>3
      DEF Calendar, BookFind, Book, BookSave, CancelFind, CancelReset, Invite, Find, Save,
          Goto, Answer, IInv, TypeOK
    <3>4. QED  BY <1>1, <3>1, <3>2, <3>3
  <2>3. ~Answer(r, "error")
    BY <1>1 DEF Answer, IInv, TypeOK
  <2>4. AllTold(r)
    <3>1. ~Arrivals(r) /\ ~Die(r) /\ ~Calendar(r)
      BY <1>1, <2>3 DEF Arrivals, StartSet, StartDecide, StartBulk, StartBook, StartCancel,
          Arrive, Die, Calendar, BookFind, Book, BookSave, CancelFind, CancelReset, Invite,
          Find, Save
    <3>2. QED
      BY <1>1, <2>1, <2>2, <3>1
      DEF Desk, SetFind, DecideFind, SaveStatus, BulkFind, BulkUpdate, EmitStatus, Find, Save
  <2>5. untold[r] = {} /\ untold[r] \cup told[r] = at[r]
    BY <1>1, <2>4 DEF AllTold, IInv, RequestsAreOnTheirWay
  <2>6. QED  BY <2>5
<1>2. IInv /\ [Next]_vars => [\A r \in Req : Answered(r) => told[r] = at[r]]_vars
  BY <1>1 DEF Next
<1>3. QED  BY InitInv, NextInv, <1>2, PTL DEF Spec, AnsweredMeansTold

----------------------------------------------------------------------------
(* The writers keep the contract of Pipeline *)

\* What a request is to write follows from where it is, and whoever writes for
\* the calendar has seen or made the interview.
WhoWrites ==
    \A r \in Req :
        /\ pc[r] \in {"setFind", "bulkFind", "bulkUpdate"} => new[r] \in Choice
        /\ pc[r] = "decideFind" => new[r] \in Decision
        /\ pc[r] = "save" => new[r] \in Choice \cup Decision
        /\ pc[r] \in {"bookFind", "book", "bookSave"} => new[r] = "interview"
        /\ pc[r] \in {"cancelFind", "cancelReset"} => new[r] = "shortlisted"
        /\ pc[r] \in {"bookSave", "cancelReset"} => \A a \in at[r] : booked[a]

Moves(r) == Arrivals(r) \/ Desk(r) \/ Calendar(r) \/ Die(r)

\* A request that moves leaves the others where they are, and no interview
\* goes away.
LEMMA OthersStay ==
    ASSUME IInv, NEW r \in Req, Moves(r)
    PROVE  /\ \A q \in Req \ {r} : pc'[q] = pc[q] /\ new'[q] = new[q] /\ at'[q] = at[q]
           /\ \A a \in Application : booked[a] => booked'[a]
<1> USE DEF IInv, TypeOK
<1>1. CASE Arrivals(r)
  BY <1>1 DEF Arrivals, StartSet, StartDecide, StartBulk, StartBook, StartCancel, Arrive
<1>2. CASE SetFind(r) \/ DecideFind(r) \/ BookFind(r) \/ CancelFind(r)
  BY <1>2 DEF SetFind, DecideFind, BookFind, CancelFind, Find, Goto, Answer
<1>3. CASE SaveStatus(r) \/ BookSave(r)
  BY <1>3 DEF SaveStatus, BookSave, Save, Goto, request
<1>4. CASE BulkFind(r) \/ AllTold(r) \/ Invite(r) \/ Die(r)
  BY <1>4 DEF BulkFind, AllTold, Invite, Die, Goto, Answer, request
<1>5. CASE BulkUpdate(r) \/ CancelReset(r)
  BY <1>5 DEF BulkUpdate, CancelReset, Goto, request
<1>6. CASE EmitStatus(r)  BY <1>6 DEF EmitStatus, request
<1>7. CASE Book(r)
  <2>1. CASE Answer(r, "error")  BY <2>1 DEF Answer
  <2>2. CASE ~Answer(r, "error")
    BY <1>7, <2>2 DEF Book, Goto, request
  <2>3. QED  BY <2>1, <2>2
<1>8. QED
  BY <1>1, <1>2, <1>3, <1>4, <1>5, <1>6, <1>7 DEF Moves, Desk, Calendar

\* In the initial state nobody is about to write.
LEMMA InitWho == Init => WhoWrites
BY DEF Init, WhoWrites

\* Every step keeps it.
LEMMA NextWho == IInv /\ WhoWrites /\ [Next]_vars => WhoWrites'
<1> SUFFICES ASSUME IInv, WhoWrites, [Next]_vars PROVE WhoWrites'  OBVIOUS
<1> DEFINE Who(r) ==
        /\ pc[r] \in {"setFind", "bulkFind", "bulkUpdate"} => new[r] \in Choice
        /\ pc[r] = "decideFind" => new[r] \in Decision
        /\ pc[r] = "save" => new[r] \in Choice \cup Decision
        /\ pc[r] \in {"bookFind", "book", "bookSave"} => new[r] = "interview"
        /\ pc[r] \in {"cancelFind", "cancelReset"} => new[r] = "shortlisted"
        /\ pc[r] \in {"bookSave", "cancelReset"} => \A a \in at[r] : booked[a]
<1>1. ASSUME NEW r \in Req, Moves(r), NEW q \in Req \ {r} PROVE Who(q)'
  <2>1. /\ pc'[q] = pc[q] /\ new'[q] = new[q] /\ at'[q] = at[q] /\ Who(q)
        /\ at[q] \subseteq Application
    BY <1>1, OthersStay DEF WhoWrites, IInv, TypeOK
  <2>2. \A a \in at[q] : booked[a] => booked'[a]  BY <1>1, <2>1, OthersStay
  <2>3. QED  BY <2>1, <2>2
<1>2. ASSUME NEW r \in Req, Moves(r) PROVE Who(r)'
  <2> USE <1>2 DEF IInv, TypeOK
  <2>0. Who(r)  BY DEF WhoWrites
  <2>a. ASSUME NEW answer, Answer(r, answer) PROVE Who(r)'
    BY <2>a DEF Answer
  <2>1. CASE Arrivals(r)
    BY <2>1, ChoiceAssumption
    DEF Arrivals, StartSet, StartDecide, StartBulk, StartBook, StartCancel, Arrive
  <2>2. CASE SetFind(r) \/ DecideFind(r) \/ BookFind(r) \/ CancelFind(r)
    <3>1. ASSUME NEW here, NEW mayGoOn, NEW next, Find(r, here, mayGoOn, next), pc[r] \in SingleSteps,
                 ~Answer(r, "error")
          PROVE  /\ pc[r] = here /\ pc'[r] = next /\ new'[r] = new[r] /\ at'[r] = at[r]
                 /\ \A a \in at[r] : mayGoOn[a] /\ booked' = booked
      BY <3>1 DEF Find, Goto, RequestsAreOnTheirWay
    <3>2. CASE Answer(r, "error")  BY <2>a, <3>2
    <3>3. pc[r] \in SingleSteps
      BY <2>2 DEF SetFind, DecideFind, BookFind, CancelFind, Find, SingleSteps, Steps
    <3>4. CASE SetFind(r) /\ ~Answer(r, "error")
      BY <2>0, <3>1, <3>3, <3>4 DEF SetFind
    <3>5. CASE DecideFind(r) /\ ~Answer(r, "error")
      BY <2>0, <3>1, <3>3, <3>5 DEF DecideFind
    <3>6. CASE BookFind(r) /\ ~Answer(r, "error")
      BY <2>0, <3>1, <3>3, <3>6 DEF BookFind
    <3>7. CASE CancelFind(r) /\ ~Answer(r, "error")
      BY <2>0, <3>1, <3>3, <3>7 DEF CancelFind
    <3>8. QED  BY <2>2, <3>2, <3>4, <3>5, <3>6, <3>7
  <2>3. CASE SaveStatus(r) \/ BookSave(r)
    BY <2>3 DEF SaveStatus, BookSave, Save, Goto, request
  <2>4. CASE AllTold(r) \/ Invite(r) \/ Die(r)
    BY <2>4, <2>a DEF AllTold, Invite, Die
  <2>5. CASE BulkFind(r)
    <3>1. CASE Answer(r, "error")  BY <2>a, <3>1
    <3>2. CASE ~Answer(r, "error")  BY <2>0, <2>5, <3>2 DEF BulkFind, Goto, request
    <3>3. QED  BY <3>1, <3>2
  <2>6. CASE BulkUpdate(r) \/ CancelReset(r)
    BY <2>6 DEF BulkUpdate, CancelReset, Goto
  <2>7. CASE EmitStatus(r)  BY <2>0, <2>7 DEF EmitStatus, request
  <2>8. CASE Book(r)
    <3>1. CASE Answer(r, "error")  BY <2>a, <3>1
    <3>2. CASE ~Answer(r, "error")  BY <2>0, <2>8, <3>2 DEF Book, Goto, request
    <3>3. QED  BY <3>1, <3>2
  <2>9. QED
    BY <2>1, <2>2, <2>3, <2>4, <2>5, <2>6, <2>7, <2>8 DEF Moves, Desk, Calendar
<1>3. CASE UNCHANGED vars
  BY <1>3 DEF WhoWrites, vars, request
<1>4. QED
  <2>1. CASE \E r \in Req : Moves(r)
    <3>1. PICK r \in Req : Moves(r)  BY <2>1
    <3>2. \A q \in Req : Who(q)'  BY <1>1, <1>2, <3>1
    <3>3. QED  BY <3>2 DEF WhoWrites
  <2>2. QED  BY <1>3, <2>1 DEF Next, Moves

\* Request r has loaded an offer of application a and not yet saved its decision.
HasOpen(r, a) == pc[r] = "save" /\ new[r] \in Decision /\ a \in at[r]

\* The applications whose offer is open are those some request has open.
LEMMA DecidingIsOpen == \A a : a \in Deciding <=> \E r \in Req : HasOpen(r, a)
BY DEF Deciding, HasOpen

\* A request that neither had an offer open nor has one now changes nothing of
\* who is deciding.
LEMMA DecidingSame ==
    ASSUME IInv, NEW r \in Req, Moves(r), \A a : ~HasOpen(r, a) /\ ~HasOpen(r, a)'
    PROVE  Deciding' = Deciding
<1>1. \A q \in Req : \A a : HasOpen(q, a)' <=> HasOpen(q, a)
  BY OthersStay DEF HasOpen
<1>2. QED  BY <1>1 DEF Deciding, HasOpen

\* A request that opens the offer of an application adds just that.
LEMMA DecidingOpens ==
    ASSUME IInv, NEW r \in Req, Moves(r), NEW b,
           \A a : ~HasOpen(r, a) /\ (HasOpen(r, a)' <=> a = b)
    PROVE  Deciding' = Deciding \cup {b}
<1>1. \A q \in Req : \A a : HasOpen(q, a)' <=> HasOpen(q, a) \/ (q = r /\ a = b)
  BY OthersStay DEF HasOpen
<1>2. \A a : a \in Deciding' <=> \E q \in Req : HasOpen(q, a)'  BY DEF Deciding, HasOpen
<1>3. \A a : a \in Deciding' <=> a \in Deciding \/ a = b  BY <1>1, <1>2, DecidingIsOpen
<1>4. QED  BY <1>3

\* A request that is done with the offer of an application takes away just
\* that, if no other request has it open.
LEMMA DecidingEnds ==
    ASSUME IInv, NEW r \in Req, Moves(r), NEW b,
           \A a : (HasOpen(r, a) <=> a = b) /\ ~HasOpen(r, a)'
    PROVE  Deciding' \in {Deciding, Deciding \ {b}} /\ b \in Deciding
<1>1. \A q \in Req : \A a : HasOpen(q, a)' <=> HasOpen(q, a) /\ q # r
  BY OthersStay DEF HasOpen
<1>2. \A a : a \in Deciding' <=> \E q \in Req : HasOpen(q, a)'  BY DEF Deciding, HasOpen
<1>3. \A a : a # b => (a \in Deciding' <=> a \in Deciding)  BY <1>1, <1>2, DecidingIsOpen
<1>4. b \in Deciding  BY DecidingIsOpen
<1>5. CASE b \in Deciding'
  <2>1. \A a : a \in Deciding' <=> a \in Deciding  BY <1>3, <1>4, <1>5
  <2>2. QED  BY <1>4, <2>1
<1>6. CASE b \notin Deciding'
  <2>1. \A a : a \in Deciding' <=> a \in Deciding \ {b}  BY <1>3, <1>6
  <2>2. QED  BY <1>4, <2>1
<1>7. QED  BY <1>5, <1>6

\* The initial state is one of Pipeline.
LEMMA InitContract == Init => Contract!Init
BY DEF Init, Contract!Init, Deciding

\* A step that keeps the rows and opens or ends no offer shows nothing.
LEMMA QuietStep ==
    ASSUME IInv, NEW r \in Req, Moves(r), UNCHANGED <<status, booked>>,
           \A a : ~HasOpen(r, a) /\ ~HasOpen(r, a)'
    PROVE  UNCHANGED Contract!vars
BY DecidingSame DEF Contract!vars

\* A request that ends gives up the offer it had open, if any.
LEMMA AnswerContract ==
    ASSUME IInv, WhoWrites, NEW r \in Req, Moves(r), NEW answer, Answer(r, answer)
    PROVE  UNCHANGED Contract!vars \/ \E a \in Application : Contract!GiveUp(a)
<1>1. UNCHANGED <<status, booked>> /\ \A a : ~HasOpen(r, a)'
  BY DEF Answer, HasOpen, IInv, TypeOK
<1>2. CASE \A a : ~HasOpen(r, a)  BY <1>1, <1>2, QuietStep
<1>3. CASE \E a : HasOpen(r, a)
  <2>1. PICK a \in Application : at[r] = {a}
    BY <1>3 DEF HasOpen, IInv, DecisionsAreLegal
  <2>2. \A b : HasOpen(r, b) <=> b = a  BY <1>3, <2>1 DEF HasOpen
  <2>3. Deciding' = Deciding \/ Deciding' = Deciding \ {a}  BY <1>1, <2>2, DecidingEnds
  <2>4. CASE Deciding' = Deciding  BY <1>1, <2>4 DEF Contract!vars
  <2>5. CASE Deciding' = Deciding \ {a}  BY <1>1, <2>1, <2>5 DEF Contract!GiveUp
  <2>6. QED  BY <2>3, <2>4, <2>5
<1>4. QED  BY <1>2, <1>3

\* A write of a status recruiters may choose is theirs.
LEMMA WriteChooses ==
    ASSUME IInv, NEW r \in Req, Moves(r), Write(at[r], new[r]), booked' = booked,
           \A a : ~HasOpen(r, a) /\ ~HasOpen(r, a)'
    PROVE  \E A \in SUBSET Application : A = at[r] /\ Contract!Choose(A, new[r])
<1>1. PICK A \in SUBSET Application : A = at[r]  BY DEF IInv, TypeOK
<1>2. Deciding' = Deciding  BY DecidingSame
<1>3. QED  BY <1>1, <1>2 DEF Write, Contract!Choose, Contract!Put

\* A step of the desk is one of Pipeline, or shows nothing.
LEMMA DeskContract ==
    ASSUME IInv, WhoWrites, NEW r \in Req, Desk(r)
    PROVE  [Contract!Next]_(Contract!vars)
<1>0. Moves(r)  BY DEF Moves
<1>a. ASSUME NEW answer, Answer(r, answer) PROVE [Contract!Next]_(Contract!vars)
  BY <1>0, <1>a, AnswerContract DEF Contract!Next
<1>1. CASE SetFind(r)
  <2>1. CASE Answer(r, "error")  BY <1>a, <2>1
  <2>2. CASE ~Answer(r, "error")
    <3>1. pc[r] = "setFind" /\ new[r] \in Choice /\ new' = new /\ UNCHANGED <<status, booked>>
      BY <1>1, <2>2 DEF SetFind, Find, WhoWrites
    <3>2. \A a : ~HasOpen(r, a) /\ ~HasOpen(r, a)'
      BY <3>1, ChoiceAssumption DEF HasOpen, RecruiterStatus, Decision
    <3>3. QED  BY <1>0, <3>1, <3>2, QuietStep
  <2>3. QED  BY <2>1, <2>2
<1>2. CASE DecideFind(r)
  <2>1. CASE Answer(r, "error")  BY <1>a, <2>1
  <2>2. CASE ~Answer(r, "error")
    <3>1. PICK a \in at[r] : /\ [b \in Application |-> status[b] = "offered"][a]
                             /\ Goto(r, "save") /\ UNCHANGED <<status, booked, at, new>>
      BY <1>2, <2>2 DEF DecideFind, Find
    <3>a. pc[r] = "decideFind" /\ new[r] \in Decision
      BY <1>2 DEF DecideFind, Find, WhoWrites
    <3>b. PICK c \in Application : at[r] = {c}
      BY <3>a DEF IInv, RequestsAreOnTheirWay, SingleSteps, Steps
    <3>2. a \in Application /\ at[r] = {a} /\ pc[r] = "decideFind" /\ new[r] \in Decision
      BY <3>1, <3>a, <3>b
    <3>3. status[a] = "offered"  BY <3>1, <3>2
    <3>4. \A b : ~HasOpen(r, b) /\ (HasOpen(r, b)' <=> b = a)
      BY <3>1, <3>2 DEF HasOpen, Goto, IInv, TypeOK
    <3>5. Deciding' = Deciding \cup {a}  BY <1>0, <3>4, DecidingOpens
    <3>6. Contract!Open(a)  BY <3>1, <3>3, <3>5 DEF Contract!Open
    <3>7. QED  BY <3>2, <3>6 DEF Contract!Next
  <2>3. QED  BY <2>1, <2>2
<1>3. CASE SaveStatus(r)
  <2>1. pc[r] = "save" /\ pc'[r] = "emit" /\ booked' = booked /\ new[r] \in Choice \cup Decision
    BY <1>3 DEF SaveStatus, Save, Goto, WhoWrites, IInv, TypeOK
  <2>2. \A a : ~HasOpen(r, a)'  BY <2>1 DEF HasOpen
  <2>3. CASE new[r] \in Decision
    <3>1. PICK a \in Application : at[r] = {a}  BY <2>3 DEF IInv, DecisionsAreLegal
    <3>2. PICK s \in Decision : s = new[r]  BY <2>3
    <3>3. seen[r] # new[r]  BY <2>1, <2>3 DEF IInv, DecisionsAreLegal, Decision
    <3>4. Write(at[r], new[r])  BY <1>3, <3>3 DEF SaveStatus, Save
    <3>5. \A b : HasOpen(r, b) <=> b = a  BY <2>1, <2>3, <3>1 DEF HasOpen
    <3>6. Deciding' \in {Deciding, Deciding \ {a}} /\ a \in Deciding
      BY <1>0, <2>2, <3>5, DecidingEnds
    <3>7. Contract!Decide(a, s)
      BY <2>1, <3>1, <3>2, <3>4, <3>6 DEF Write, Contract!Decide, Contract!Put
    <3>8. QED  BY <3>2, <3>7 DEF Contract!Next, Contract!Decision, Decision
  <2>4. CASE new[r] \notin Decision
    <3>1. \A a : ~HasOpen(r, a)  BY <2>4 DEF HasOpen
    <3>2. CASE seen[r] = new[r]
      <4>1. UNCHANGED <<status, booked>>  BY <1>3, <2>1, <3>2 DEF SaveStatus, Save
      <4>2. QED  BY <1>0, <2>2, <3>1, <4>1, QuietStep
    <3>3. CASE seen[r] # new[r]
      <4>1. Write(at[r], new[r])  BY <1>3, <3>3 DEF SaveStatus, Save
      <4>2. PICK A \in SUBSET Application : Contract!Choose(A, new[r])
        BY <1>0, <2>1, <2>2, <3>1, <4>1, WriteChooses
      <4>3. new[r] \in Choice  BY <2>1, <2>4
      <4>4. QED  BY <4>2, <4>3 DEF Contract!Next
    <3>4. QED  BY <3>2, <3>3
  <2>5. QED  BY <2>3, <2>4
<1>4. CASE BulkFind(r)
  <2>1. CASE Answer(r, "error")  BY <1>a, <2>1
  <2>2. CASE ~Answer(r, "error")
    <3>1. pc[r] = "bulkFind" /\ pc'[r] = "bulkUpdate" /\ UNCHANGED <<status, booked>>
      BY <1>4, <2>2 DEF BulkFind, Goto, IInv, TypeOK
    <3>2. QED  BY <1>0, <3>1, QuietStep DEF HasOpen
  <2>3. QED  BY <2>1, <2>2
<1>5. CASE BulkUpdate(r)
  <2>1. /\ pc[r] = "bulkUpdate" /\ pc'[r] = "emit" /\ booked' = booked /\ new[r] \in Choice
        /\ Write(at[r], new[r])
    BY <1>5 DEF BulkUpdate, Goto, WhoWrites, IInv, TypeOK
  <2>2. PICK A \in SUBSET Application : Contract!Choose(A, new[r])
    BY <1>0, <2>1, WriteChooses DEF HasOpen
  <2>3. QED  BY <2>1, <2>2 DEF Contract!Next
<1>6. CASE EmitStatus(r)
  <2>1. pc[r] = "emit" /\ pc' = pc /\ UNCHANGED <<status, booked>>  BY <1>6 DEF EmitStatus
  <2>2. QED  BY <1>0, <2>1, QuietStep DEF HasOpen
<1>7. CASE AllTold(r)  BY <1>7, <1>a DEF AllTold
<1>8. QED  BY <1>1, <1>2, <1>3, <1>4, <1>5, <1>6, <1>7 DEF Desk

\* A step of the calendar is one of Pipeline, or shows nothing: its writes find
\* the interview there.
LEMMA CalendarContract ==
    ASSUME IInv, WhoWrites, NEW r \in Req, Calendar(r)
    PROVE  [Contract!Next]_(Contract!vars)
<1>0. Moves(r)  BY DEF Moves
<1>a. ASSUME NEW answer, Answer(r, answer) PROVE [Contract!Next]_(Contract!vars)
  BY <1>0, <1>a, AnswerContract DEF Contract!Next
<1>1. CASE BookFind(r) \/ CancelFind(r)
  <2>1. CASE Answer(r, "error")  BY <1>a, <2>1
  <2>2. CASE ~Answer(r, "error")
    <3>1. /\ pc[r] \in {"bookFind", "cancelFind"} /\ pc'[r] \in {"book", "cancelReset"}
          /\ UNCHANGED <<status, booked>>
      BY <1>1, <2>2 DEF BookFind, CancelFind, Find, Goto, IInv, TypeOK
    <3>2. QED  BY <1>0, <3>1, QuietStep DEF HasOpen
  <2>3. QED  BY <2>1, <2>2
<1>2. CASE Book(r)
  <2>1. CASE Answer(r, "error")  BY <1>a, <2>1
  <2>2. CASE ~Answer(r, "error")
    <3>1. /\ pc[r] = "book" /\ pc'[r] = "bookSave" /\ \A a \in at[r] : ~booked[a]
          /\ booked' = [a \in Application |-> booked[a] \/ a \in at[r]] /\ status' = status
      BY <1>2, <2>2 DEF Book, Goto, IInv, TypeOK
    <3>2. PICK a \in Application : at[r] = {a}
      BY <3>1 DEF IInv, RequestsAreOnTheirWay, SingleSteps, Steps
    <3>3. Deciding' = Deciding  BY <1>0, <3>1, DecidingSame DEF HasOpen
    <3>4. \A b \in Application : booked'[b] <=> booked[b] \/ b = a  BY <3>1, <3>2
    <3>5. {b \in Application : booked[b]}' = {b \in Application : booked[b]} \cup {a}
      BY <3>4
    <3>6. a \notin {b \in Application : booked[b]}  BY <3>1, <3>2
    <3>7. Contract!Book(a)  BY <3>1, <3>3, <3>5, <3>6 DEF Contract!Book
    <3>8. QED  BY <3>7 DEF Contract!Next
  <2>3. QED  BY <2>1, <2>2
<1>3. CASE BookSave(r)
  <2>1. /\ pc[r] = "bookSave" /\ pc'[r] = "invite" /\ booked' = booked
        /\ new[r] = "interview" /\ \A a \in at[r] : booked[a]
    BY <1>3 DEF BookSave, Save, Goto, WhoWrites, IInv, TypeOK
  <2>2. PICK a \in Application : at[r] = {a}
    BY <2>1 DEF IInv, RequestsAreOnTheirWay, SingleSteps, Steps
  <2>3. CASE seen[r] = new[r]
    <3>1. UNCHANGED <<status, booked>>  BY <1>3, <2>1, <2>3 DEF BookSave, Save
    <3>2. QED  BY <1>0, <2>1, <3>1, QuietStep DEF HasOpen
  <2>4. CASE seen[r] # new[r]
    <3>1. Write(at[r], new[r])  BY <1>3, <2>4 DEF BookSave, Save
    <3>2. Contract!Choose({a}, "interview")
      BY <1>0, <2>1, <2>2, <3>1, WriteChooses DEF HasOpen
    <3>3. Contract!Invite(a)  BY <2>1, <2>2, <3>2 DEF Contract!Invite
    <3>4. QED  BY <3>3 DEF Contract!Next
  <2>5. QED  BY <2>3, <2>4
<1>4. CASE CancelReset(r)
  <2>1. /\ pc[r] = "cancelReset" /\ pc'[r] = "invite" /\ booked' = booked
        /\ new[r] = "shortlisted" /\ \A a \in at[r] : booked[a]
        /\ Write(at[r], new[r])
    BY <1>4 DEF CancelReset, Goto, WhoWrites, IInv, TypeOK
  <2>2. PICK a \in Application : at[r] = {a}
    BY <2>1 DEF IInv, RequestsAreOnTheirWay, SingleSteps, Steps
  <2>3. Contract!Choose({a}, "shortlisted")
    BY <1>0, <2>1, <2>2, WriteChooses DEF HasOpen
  <2>4. Contract!SendBack(a)  BY <2>1, <2>2, <2>3 DEF Contract!SendBack
  <2>5. QED  BY <2>4 DEF Contract!Next
<1>5. CASE Invite(r)  BY <1>5, <1>a DEF Invite
<1>6. QED  BY <1>1, <1>2, <1>3, <1>4, <1>5 DEF Calendar

\* A step is one of Pipeline, or shows nothing.
LEMMA NextContract == IInv /\ WhoWrites /\ [Next]_vars => [Contract!Next]_(Contract!vars)
<1> SUFFICES ASSUME IInv, WhoWrites, [Next]_vars PROVE [Contract!Next]_(Contract!vars)
  OBVIOUS
<1>1. ASSUME NEW r \in Req, Arrivals(r) PROVE [Contract!Next]_(Contract!vars)
  <2>1. pc[r] = "done" /\ pc'[r] # "save" /\ UNCHANGED <<status, booked>>
    BY <1>1 DEF Arrivals, StartSet, StartDecide, StartBulk, StartBook, StartCancel, Arrive,
                IInv, TypeOK
  <2>2. QED  BY <1>1, <2>1, QuietStep DEF HasOpen, Moves
<1>2. ASSUME NEW r \in Req, Die(r) PROVE [Contract!Next]_(Contract!vars)
  BY <1>2, AnswerContract DEF Die, Moves, Contract!Next
<1>3. CASE UNCHANGED vars
  <2>1. Deciding' = Deciding  BY <1>3 DEF vars, request, Deciding
  <2>2. QED  BY <1>3, <2>1 DEF vars, Contract!vars
<1>4. QED  BY <1>1, <1>2, <1>3, DeskContract, CalendarContract DEF Next

\* The five writers keep the contract: whatever they loaded before and however
\* they interleave or die, every change of the status is one Pipeline allows.
THEOREM KeepsContractHolds == Spec => KeepsContract
BY InitContract, InitWho, InitInv, NextInv, NextWho, NextContract, PTL
DEF Spec, KeepsContract, Contract!Spec
=============================================================================
