----------------------------- MODULE MCReports -----------------------------
(* The operators of Match and Reports against what they should come to, on *)
(* small inputs.                                                           *)
EXTENDS Reports

LOCAL UpTo(n, S) == UNION {[1..k -> S] : k \in 0..n}

LOCAL Users == [id : 1..2, role : {"student", "recruiter", "admin"}]
LOCAL Jobs  == [approved : BOOLEAN, active : BOOLEAN, postedBy : 1..2]
LOCAL Meetings == [student : 1..3, recruiter : 1..3]

\* What a list shows can be opened; what can be opened and is not shown has no rank of a
\* student who is shown another.
ASSUME ListedCanBeOpened ==
    \A user \in Users, jobs \in {S \in SUBSET Jobs : Cardinality(S) <= 2}, ranked \in SUBSET Jobs :
        LET shown == Listed(user, jobs, ranked)
        IN  \A job \in jobs :
              /\ job \in shown => MayRead(user, job)
              /\ MayRead(user, job) /\ job \notin shown =>
                    user.role = "student" /\ job \notin ranked /\ shown # {}

\* Whoever finds an interview in the list may open it, and nobody else but the other party.
ASSUME ViewedIffListed ==
    \A user \in Users, m \in Meetings :
        /\ Shows(user, m) => MayView(user, m)
        /\ MayView(user, m) => Shows(user, m) \/ user.id \in {m.student, m.recruiter}

\* The pages of a list are the list, each row once.
ASSUME PagesAreTheList ==
    \A n \in 0..7, size \in 1..3 :
        LET rows == [i \in 1..n |-> i]
            all[p \in 0..Pages(n, size)] ==
                IF p = 0 THEN <<>> ELSE all[p - 1] \o Paged(rows, p, size).items
        IN  all[Pages(n, size)] = rows

\* handleResume and companyFit go through the rows and keep the best of each company.
LOCAL FitRow == [company : {"x", "y"}, score : 0..2]

ASSUME BestIsTheLoop == \A rows \in UpTo(4, FitRow) : BestPerCompany(rows) = BestByLoop(rows)

\* A value left out of the leading ones comes no more often than any of them.
ASSUME LeadingLead ==
    \A values \in UpTo(5, 1..4), n \in 1..3 :
        LET lead == Leading(n, Values(values), values)
        IN  /\ Cardinality(lead) = Within(0, Cardinality(Values(values)), n)
            /\ \A v \in lead, w \in Values(values) \ lead : Times(values, v) >= Times(values, w)

\* Every application of the last twelve months is counted in one of them; rates are
\* percentages; and the last placement comes first.
LOCAL Row == [status : {"pending", "accepted"}, company : {"x"}, maxSalary : {0, 3}, month : {1, 2, 13}]

ASSUME RollupCounts ==
    \A apps \in UpTo(3, Row) :
        LET data == Rollup(apps, 13)
        IN  /\ Sum([k \in 1..12 |-> data.trend[k - 1]]) = Len(SelectSeq(apps, LAMBDA a : a.month > 1))
            /\ data.placementRate \in 0..100
            /\ data.avgPackage \in {0, 3}
            /\ data.recent # <<>> =>
                 \E i \in DOMAIN apps : /\ apps[i] = data.recent[1]
                                         /\ \A k \in i + 1..Len(apps) : apps[k].status # "accepted"

\* Comparing two analyses one way and the other way gives opposite answers.
LOCAL Analyses == [skills : SUBSET {"go", "sql"}, score : UNION {[S -> 0..1] : S \in SUBSET (1..2)}]

ASSUME CompareMirrors ==
    \A a, b \in Analyses :
        LET there == Compare(a, b)
            back  == Compare(b, a)
        IN  /\ there.added = back.removed
            /\ \A j \in DOMAIN there.deltas : there.deltas[j] = -back.deltas[j]

\* A score is a percentage, and one more required skill in hand never lowers it.
LOCAL Parts == {SkillPart(have, job) : have \in SUBSET (1..2), job \in UpTo(3, 1..2)}

ASSUME ScoresArePercentages ==
    \A s \in Parts, e \in {ExperiencePart(m, r) : m \in 0..3, r \in 0..3},
       p \in {SalaryPart(x, lo, hi) : x \in 0..4, lo \in 0..2, hi \in 0..2} :
        /\ Weighted(s, e, p) \in 0..100
        /\ \A degrees \in SUBSET Degree, n \in 0..3 :
             WeightedEnhanced(s, e, p, EducationPart(degrees), ProjectPart(n)) \in 0..100

ASSUME MoreSkillsNeverLess ==
    \A job \in UpTo(3, 1..2), have \in SUBSET (1..2), more \in SUBSET (1..2) :
        Weighted(SkillPart(have, job), <<70, 1>>, <<50, 1>>)
            <= Weighted(SkillPart(have \cup more, job), <<70, 1>>, <<50, 1>>)
=============================================================================
