------------------------------ MODULE Reports ------------------------------
(***************************************************************************)
(* What the portal computes when it is read: who sees what, the lists of   *)
(* applicants, the fit of a student, the numbers of the placement cell,    *)
(* the free slots of a day, and what the pages derive from these.          *)
(*                                                                         *)
(* Readers change nothing.  They are operators on the rows a query finds;  *)
(* the rows of a sequence are in the order the query sorts them by.        *)
(***************************************************************************)
EXTENDS Match

----------------------------------------------------------------------------
(* Who sees what.  A user is [id, role]. *)

\* getJob.
MayRead(user, job) ==
    /\ user.role = "student" => job.approved /\ job.active
    /\ user.role = "recruiter" => job.postedBy = user.id

\* The filter of listJobs.
Selects(user, job) ==
    CASE user.role = "student"   -> job.approved /\ job.active
      [] user.role = "recruiter" -> job.postedBy = user.id
      [] OTHER                   -> TRUE

\* listJobs, all its pages, of the jobs of a company or all.  ranked is what Redis has of a
\* student, at most 200 of them: if any of these passes the filter, no other is shown.
Listed(user, jobs, ranked) ==
    LET selected == {job \in jobs : Selects(user, job)}
    IN  IF user.role = "student" /\ ranked \cap selected # {} THEN ranked \cap selected
        ELSE selected

\* assertViewer.
MayView(user, interview) ==
    user.role = "admin" \/ user.id \in {interview.student, interview.recruiter}

\* The filter of list (InterviewsService).
Shows(user, interview) ==
    CASE user.role = "student"   -> user.id = interview.student
      [] user.role = "recruiter" -> user.id = interview.recruiter
      [] OTHER                   -> TRUE

\* downloadWithToken: a token for one calendar file, or any access token.
MayDownload(token, interview) ==
    /\ token.valid
    /\ token.cal \in {"any", interview.id}
    /\ MayView([id |-> token.sub, role |-> token.role], interview)

\* Where App sends a user who is at a route of the given role; "none" is nobody, "any"
\* every role.
Home(role) == IF role = "none" THEN "auth" ELSE role

Guarded(role, route) ==
    IF role # "none" /\ route \in {"any", role} THEN route ELSE Home(role)

----------------------------------------------------------------------------
(* Lists of applications *)

Pages(total, pageSize) ==
    LET pages == (total + pageSize - 1) \div pageSize
    IN  IF pages = 0 THEN 1 ELSE pages

Paged(rows, page, pageSize) ==
    [items |-> Page(rows, page, pageSize), total |-> Len(rows), totalPages |-> Pages(Len(rows), pageSize)]

Within(low, n, high) == IF n < low THEN low ELSE IF n > high THEN high ELSE n

\* forJob, of the rows of a posting.  A part of the query that is not given is "any"; the
\* search and the skill ask whether a text contains another.
ForJob(rows, query) ==
    LET Passes(row) == /\ query.status \in {"any", row.status}
                       /\ row.score >= query.minScore
                       /\ query.search = "any" \/ query.search \in row.names
                       /\ query.skill = "any" \/ query.skill \in row.skills
    IN  Paged(SelectSeq(rows, Passes), IF query.page < 1 THEN 1 ELSE query.page,
              Within(1, query.pageSize, 50))

----------------------------------------------------------------------------
(* The fit of a student *)

Sum(numbers) == LET total[i \in 0..Len(numbers)] == IF i = 0 THEN 0 ELSE total[i - 1] + numbers[i]
                IN  total[Len(numbers)]
Mean(numbers) == IF numbers = <<>> THEN 0 ELSE Round(Sum(numbers), Len(numbers))
Largest(numbers) ==
    IF numbers = {} THEN 0 ELSE CHOOSE n \in numbers : \A m \in numbers : m <= n

\* versions: a line for each of the five latest uploads; scoresOf is what its analysis
\* found, <<>> if there is none.
VersionLines(uploads, scoresOf) ==
    [i \in 1..Len(Page(uploads, 1, 5)) |->
        LET scores == scoresOf[uploads[i]]
        IN  [upload |-> uploads[i], jobs |-> Len(scores), avg |-> Mean(scores),
             top |-> Largest({scores[k] : k \in DOMAIN scores})]]

\* compare: what changed from one analysis to another.
Compare(a, b) ==
    [added   |-> b.skills \ a.skills,
     removed |-> a.skills \ b.skills,
     deltas  |-> [j \in DOMAIN a.score \cap DOMAIN b.score |-> b.score[j] - a.score[j]]]

\* jobFit: what the latest analysis found, or the scores kept for the applications.
JobFit(latest, scores) ==
    IF latest.jobs # <<>> THEN [items |-> latest.jobs, source |-> "resume"]
    ELSE [items |-> scores, source |-> "profile"]

\* companyFit; its rows are sorted afterwards.
CompanyFit(latest, scores) ==
    IF latest.companies # {} THEN [items |-> latest.companies, source |-> "resume"]
    ELSE LET fit == JobFit(latest, scores)
         IN  [items |-> BestPerCompany(fit.items), source |-> fit.source]

----------------------------------------------------------------------------
(* Analytics *)

\* Of the values in S, the n that come most often, of equals those that came first.
Times(values, v) == Cardinality({i \in DOMAIN values : values[i] = v})
First(values, v) == CHOOSE i \in DOMAIN values : values[i] = v /\ \A k \in 1..(i - 1) : values[k] # v

Leading(n, S, values) ==
    LET Before(v, w) == \/ Times(values, v) > Times(values, w)
                        \/ Times(values, v) = Times(values, w) /\ First(values, v) < First(values, w)
    IN  {v \in S : Cardinality({w \in S : Before(w, v)}) < n}

Values(sequence) == {sequence[i] : i \in DOMAIN sequence}

\* compute: months are counted, which is what Date.UTC makes of a month before January.
\* A company or salary the posting does not give is "" or 0.
Rollup(apps, now) ==
    LET placed   == SelectSeq(apps, LAMBDA a : a.status = "accepted")
        Field(F(_), rows) == [i \in DOMAIN rows |-> F(rows[i])]
        packages == SelectSeq(Field(LAMBDA a : a.maxSalary, placed), LAMBDA n : n # 0)
        firms    == SelectSeq(Field(LAMBDA a : a.company, placed), LAMBDA c : c # "")
    IN  [applications  |-> Len(apps),
         placementRate |-> IF apps = <<>> THEN 0 ELSE Round(100 * Len(placed), Len(apps)),
         avgPackage    |-> Mean(packages),
         topCompanies  |-> [c \in Leading(5, Values(firms), firms) |-> Times(firms, c)],
         trend         |-> [ago \in 0..11 |-> Cardinality({i \in DOMAIN apps : apps[i].month = now - ago})],
         recent        |-> [k \in 1..Within(0, Len(placed), 8) |-> placed[Len(placed) - k + 1]]]

----------------------------------------------------------------------------
(* Slots and services *)

\* slots, in minutes of the day: every half hour from nine to six.  Only an interview
\* that starts then takes a slot, however long it is.
SlotStarts == {540 + 30 * k : k \in 0..17}

FreeSlots(interviews) ==
    SlotStarts \ {i.start : i \in {i \in interviews : i.status = "scheduled"}}

\* probe: what /health of a service comes to.
Probe(outcome) == outcome = "below500"

\* /health, always 200, and /ready.
Health(outcomes) == [service \in DOMAIN outcomes |-> Probe(outcomes[service])]

ReadyStatus(outcomes) ==
    IF Probe(outcomes["identity"]) /\ Probe(outcomes["catalog"]) THEN 200 ELSE 503

\* What JobDetailPage offers a student.
Offers(job, applied) ==
    IF applied = "none" THEN IF job.active /\ job.eligible THEN {"apply"} ELSE {}
    ELSE IF applied = "offered" THEN {"accept", "decline"} ELSE {}
=============================================================================
