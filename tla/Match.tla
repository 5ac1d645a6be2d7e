------------------------------- MODULE Match -------------------------------
(***************************************************************************)
(* The pure algorithms of the portal: what a student scores at a posting   *)
(* (match-algorithm.ts), who may apply to it (eligibility.ts), the best    *)
(* posting of each company, and a page of a list.                          *)
(*                                                                         *)
(* A part of a score is a fraction <<n, d>> of at most 100.  The program   *)
(* computes in floating point; here the sum is exact and rounded once, as  *)
(* Math.round does, so a sum within an ulp of a half may differ by one.    *)
(***************************************************************************)
EXTENDS Integers, Sequences, FiniteSets

\* skillParts: the required skills the student has, duplicates counted as often.
Matched(have, required) == {i \in DOMAIN required : required[i] \in have}

SkillPart(have, required) ==
    IF required = <<>> THEN <<50, 1>>
    ELSE <<100 * Cardinality(Matched(have, required)), Len(required)>>

ExperiencePart(months, required) ==
    IF required = 0 THEN <<70, 1>>
    ELSE IF months >= required THEN <<100, 1>>
    ELSE <<100 * months, required>>

\* A bound the recruiter left out is 0 (the schema's default), and an upper bound of 0
\* divides: 100 - Infinity, which Math.max makes 0.
SalaryPart(expected, min, max) ==
    IF expected = 0 \/ (min = 0 /\ max = 0) THEN <<50, 1>>
    ELSE IF expected \in min..max THEN <<100, 1>>
    ELSE IF expected < min THEN <<100 * expected, min>>
    ELSE IF max = 0 \/ expected >= 3 * max THEN <<0, 1>>
    ELSE <<150 * max - 50 * expected, max>>

Degree == {"doctor", "master", "bachelor", "other"}

EducationPart(degrees) ==
    IF degrees = {} THEN <<40, 1>>
    ELSE IF "doctor" \in degrees THEN <<100, 1>>
    ELSE IF "master" \in degrees THEN <<85, 1>>
    ELSE IF "bachelor" \in degrees THEN <<75, 1>>
    ELSE <<55, 1>>

ProjectPart(projects) ==
    IF projects = 0 THEN <<30, 1>>
    ELSE IF projects >= 3 THEN <<100, 1>>
    ELSE <<35 * projects, 1>>

\* Math.round of n / d.
Round(n, d) == (2 * n + d) \div (2 * d)

\* calculateMatchScore, of the three parts.
Weighted(s, e, p) ==
    Round(70 * s[1] * e[2] * p[2] + 20 * e[1] * s[2] * p[2] + 10 * p[1] * s[2] * e[2],
          100 * s[2] * e[2] * p[2])

\* calculateEnhancedMatchScore; the last two parts are whole.
WeightedEnhanced(s, e, p, education, projects) ==
    Round(55 * s[1] * e[2] * p[2] + 20 * e[1] * s[2] * p[2] + 10 * p[1] * s[2] * e[2]
            + (10 * education[1] + 5 * projects[1]) * s[2] * e[2] * p[2],
          100 * s[2] * e[2] * p[2])

----------------------------------------------------------------------------
(* Eligibility; marks in tenths, 0 where nothing is given. *)

Reasons(job, student) ==
    {r \in {"department", "marks", "year"} :
        \/ r = "department" /\ job.departments # {} /\ student.department \notin job.departments
        \/ r = "marks" /\ student.marks < job.minMarks
        \/ r = "year" /\ job.year # 0 /\ student.year # job.year}

Eligible(job, student) == Reasons(job, student) = {}

----------------------------------------------------------------------------
(* Lists *)

\* handleResume and companyFit: a later posting replaces an earlier one of its company
\* only with a better score.
Keeps(rows, i) ==
    \A k \in DOMAIN rows : rows[k].company = rows[i].company =>
        \/ rows[k].score < rows[i].score
        \/ rows[k].score = rows[i].score /\ i <= k

BestPerCompany(rows) == {rows[i] : i \in {i \in DOMAIN rows : Keeps(rows, i)}}

\* The same as the program goes about it, one row after the other.
BestByLoop(rows) ==
    LET kept[i \in 0..Len(rows)] ==
            IF i = 0 THEN {}
            ELSE LET rivals == {k \in kept[i - 1] : rows[k].company = rows[i].company}
                 IN  IF \E k \in rivals : rows[k].score >= rows[i].score THEN kept[i - 1]
                     ELSE (kept[i - 1] \ rivals) \cup {i}
    IN  {rows[i] : i \in kept[Len(rows)]}

\* listJobs: the page-th slice of pageSize items, pages counted from 1.
Page(items, page, pageSize) ==
    SubSeq(items, (page - 1) * pageSize + 1,
           IF page * pageSize < Len(items) THEN page * pageSize ELSE Len(items))
=============================================================================
