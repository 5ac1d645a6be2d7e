---------------------------- MODULE MatchProofs ----------------------------
(***************************************************************************)
(* Proofs about Match and Reports for all inputs: scores are percentages   *)
(* and grow with what a student has; averages, pages, the best posting of  *)
(* each company and the leading values are what they are called; a list    *)
(* shows what may be opened.                                               *)
(*                                                                         *)
(* Induction over a sequence goes by its least index that would be an      *)
(* exception (LeastNumber).                                                *)
(***************************************************************************)
EXTENDS Reports, FiniteSetTheorems, WellFoundedInduction, TLAPS

\* A part of a score: a fraction of at most 100.
Part == {p \in Nat \X (Nat \ {0}) : p[1] <= 100 * p[2]}

LEMMA TimesMonotone ==
    ASSUME NEW x \in Nat, NEW y \in Nat, NEW z \in Nat, x <= y
    PROVE  x * z <= y * z
OBVIOUS

LEMMA TimesPositive ==
    ASSUME NEW x \in Nat \ {0}, NEW y \in Nat \ {0}
    PROVE  x * y \in Nat \ {0}
OBVIOUS

LEMMA DivBound ==
    ASSUME NEW n \in Nat, NEW d \in Nat \ {0}, n < 101 * d
    PROVE  n \div d \in 0..100
OBVIOUS

\* Rounding a part gives a percentage.
LEMMA RoundBound ==
    ASSUME NEW n \in Nat, NEW d \in Nat \ {0}, n <= 100 * d
    PROVE  Round(n, d) \in 0..100
<1>1. 2 * n + d \in Nat /\ 2 * d \in Nat \ {0} /\ 2 * n + d < 101 * (2 * d)
    OBVIOUS
<1> QED
    BY <1>1, DivBound DEF Round

\* Brought to the common denominator, a part stays at most 100.
LEMMA PartScaled ==
    ASSUME NEW a \in Nat, NEW b \in Nat \ {0}, a <= 100 * b,
           NEW d \in Nat \ {0}, NEW h \in Nat \ {0}, NEW weight \in Nat
    PROVE  /\ weight * a * d * h \in Nat
           /\ weight * a * d * h <= weight * (100 * (b * d * h))
<1>1. a * (d * h) <= (100 * b) * (d * h)
    BY TimesMonotone
<1>2. d * h \in Nat \ {0} /\ a * (d * h) \in Nat /\ b * d * h \in Nat
    BY TimesPositive
<1>3. (100 * b) * (d * h) = 100 * (b * d * h)
    OBVIOUS
<1>4. weight * a * d * h = (a * (d * h)) * weight
    OBVIOUS
<1>5. (a * (d * h)) * weight <= (100 * (b * d * h)) * weight
    BY <1>1, <1>2, <1>3, TimesMonotone
<1>6. (a * (d * h)) * weight \in Nat
    BY <1>2
<1> QED
    BY <1>4, <1>5, <1>6

\* The score of three parts, weighted 70, 20 and 10, is a percentage (calculateMatchScore).
THEOREM WeightedIsPercentage ==
    ASSUME NEW s \in Part, NEW e \in Part, NEW p \in Part
    PROVE  Weighted(s, e, p) \in 0..100
<1> DEFINE a == s[1]  b == s[2]  c == e[1]  d == e[2]  g == p[1]  h == p[2]
<1>1. /\ a \in Nat /\ b \in Nat \ {0} /\ a <= 100 * b
      /\ c \in Nat /\ d \in Nat \ {0} /\ c <= 100 * d
      /\ g \in Nat /\ h \in Nat \ {0} /\ g <= 100 * h
    BY DEF Part
<1>2. Weighted(s, e, p) =
        Round(70 * a * d * h + 20 * c * b * h + 10 * g * b * d, 100 * b * d * h)
    BY DEF Weighted
<1> HIDE DEF a, b, c, d, g, h
<1>3. /\ 70 * a * d * h \in Nat /\ 70 * a * d * h <= 70 * (100 * (b * d * h))
      /\ 20 * c * b * h \in Nat /\ 20 * c * b * h <= 20 * (100 * (d * b * h))
      /\ 10 * g * b * d \in Nat /\ 10 * g * b * d <= 10 * (100 * (h * b * d))
    BY <1>1, PartScaled
<1>4. b * d * h \in Nat \ {0} /\ d * b * h = b * d * h /\ h * b * d = b * d * h
    BY <1>1, TimesPositive
<1>5. 100 * b * d * h = 100 * (b * d * h)
    BY <1>1
<1> DEFINE k == b * d * h
           x == 70 * a * d * h  y == 20 * c * b * h  z == 10 * g * b * d
<1> HIDE DEF k, x, y, z
<1>6. /\ x \in Nat /\ y \in Nat /\ z \in Nat /\ k \in Nat \ {0}
      /\ x <= 70 * (100 * k) /\ y <= 20 * (100 * k) /\ z <= 10 * (100 * k)
    BY <1>3, <1>4 DEF k, x, y, z
<1>7. x + y + z \in Nat /\ 100 * k \in Nat \ {0} /\ x + y + z <= 100 * (100 * k)
    BY <1>6
<1>8. Round(x + y + z, 100 * k) \in 0..100
    BY <1>7, RoundBound
<1> QED
    BY <1>2, <1>5, <1>8 DEF k, x, y, z

\* So is that of five, of which the last two are whole (calculateEnhancedMatchScore).
THEOREM WeightedEnhancedIsPercentage ==
    ASSUME NEW s \in Part, NEW e \in Part, NEW p \in Part,
           NEW education \in (0..100) \X {1}, NEW projects \in (0..100) \X {1}
    PROVE  WeightedEnhanced(s, e, p, education, projects) \in 0..100
<1> DEFINE a == s[1]  b == s[2]  c == e[1]  d == e[2]  g == p[1]  h == p[2]
           w == 10 * education[1] + 5 * projects[1]
<1>1. /\ a \in Nat /\ b \in Nat \ {0} /\ a <= 100 * b
      /\ c \in Nat /\ d \in Nat \ {0} /\ c <= 100 * d
      /\ g \in Nat /\ h \in Nat \ {0} /\ g <= 100 * h
      /\ w \in Nat /\ w <= 15 * 100
    BY DEF Part
<1>2. WeightedEnhanced(s, e, p, education, projects) =
        Round(55 * a * d * h + 20 * c * b * h + 10 * g * b * d + w * b * d * h,
              100 * b * d * h)
    BY DEF WeightedEnhanced
<1> HIDE DEF a, b, c, d, g, h, w
<1>3. /\ 55 * a * d * h \in Nat /\ 55 * a * d * h <= 55 * (100 * (b * d * h))
      /\ 20 * c * b * h \in Nat /\ 20 * c * b * h <= 20 * (100 * (d * b * h))
      /\ 10 * g * b * d \in Nat /\ 10 * g * b * d <= 10 * (100 * (h * b * d))
    BY <1>1, PartScaled
<1>4. b * d * h \in Nat \ {0} /\ d * b * h = b * d * h /\ h * b * d = b * d * h
    BY <1>1, TimesPositive
<1>5. 100 * b * d * h = 100 * (b * d * h) /\ w * b * d * h = w * (b * d * h)
    BY <1>1
<1>6. w * (b * d * h) <= (15 * 100) * (b * d * h) /\ w * (b * d * h) \in Nat
    BY <1>1, <1>4, TimesMonotone
<1> DEFINE k == b * d * h
           x == 55 * a * d * h  y == 20 * c * b * h  z == 10 * g * b * d  v == w * b * d * h
<1> HIDE DEF k, x, y, z, v
<1>7. /\ x \in Nat /\ y \in Nat /\ z \in Nat /\ v \in Nat /\ k \in Nat \ {0}
      /\ x <= 55 * (100 * k) /\ y <= 20 * (100 * k) /\ z <= 10 * (100 * k)
      /\ v <= (15 * 100) * k
    BY <1>3, <1>4, <1>5, <1>6 DEF k, x, y, z, v
<1>8. x + y + z + v \in Nat /\ 100 * k \in Nat \ {0} /\ x + y + z + v <= 100 * (100 * k)
    BY <1>7
<1>9. Round(x + y + z + v, 100 * k) \in 0..100
    BY <1>8, RoundBound
<1> QED
    BY <1>2, <1>5, <1>9 DEF k, x, y, z, v

----------------------------------------------------------------------------

\* Of n required skills a student has at most n, duplicates counted.
LEMMA SkillPartIsPart ==
    ASSUME NEW skill, NEW have \in SUBSET skill, NEW required \in Seq(skill)
    PROVE  SkillPart(have, required) \in Part
<1>1. CASE required = <<>>
    BY <1>1 DEF SkillPart, Part
<1>2. CASE required # <<>>
    <2>1. Len(required) \in Nat \ {0} /\ DOMAIN required = 1..Len(required)
        BY <1>2
    <2>2. /\ IsFiniteSet(1..Len(required)) /\ Cardinality(1..Len(required)) = Len(required)
        BY <2>1, FS_Interval
    <2>3. Matched(have, required) \subseteq 1..Len(required)
        BY <2>1 DEF Matched
    <2>4. /\ IsFiniteSet(Matched(have, required))
          /\ Cardinality(Matched(have, required)) <= Len(required)
        BY <2>2, <2>3, FS_Subset
    <2>5. Cardinality(Matched(have, required)) \in Nat
        BY <2>4, FS_CardinalityType
    <2>6. SkillPart(have, required) = <<100 * Cardinality(Matched(have, required)), Len(required)>>
        BY <1>2 DEF SkillPart
    <2> DEFINE n == Cardinality(Matched(have, required))
    <2> HIDE DEF n
    <2>7. n \in Nat /\ n <= Len(required)
        BY <2>4, <2>5 DEF n
    <2>8. <<100 * n, Len(required)>> \in Part
        BY <2>1, <2>7 DEF Part
    <2> QED
        BY <2>6, <2>8 DEF n
<1> QED
    BY <1>1, <1>2

LEMMA ExperiencePartIsPart ==
    ASSUME NEW months \in Nat, NEW required \in Nat
    PROVE  ExperiencePart(months, required) \in Part
<1>1. CASE required = 0 \/ months >= required
    BY <1>1 DEF ExperiencePart, Part
<1>2. CASE required # 0 /\ months < required
    BY <1>2 DEF ExperiencePart, Part
<1> QED
    BY <1>1, <1>2

\* Also where the bounds of a salary are missing or the wrong way round.
LEMMA SalaryPartIsPart ==
    ASSUME NEW expected \in Nat, NEW min \in Nat, NEW max \in Nat
    PROVE  SalaryPart(expected, min, max) \in Part
<1>1. CASE expected = 0 \/ (min = 0 /\ max = 0) \/ expected \in min..max
    BY <1>1 DEF SalaryPart, Part
<1>2. CASE /\ ~(expected = 0 \/ (min = 0 /\ max = 0) \/ expected \in min..max)
           /\ expected < min
    BY <1>2 DEF SalaryPart, Part
<1>3. CASE /\ ~(expected = 0 \/ (min = 0 /\ max = 0) \/ expected \in min..max)
           /\ expected >= min
    <2>1. expected > max
        BY <1>3
    <2>2. CASE max = 0 \/ expected >= 3 * max
        BY <1>3, <2>2 DEF SalaryPart, Part
    <2>3. CASE max # 0 /\ expected < 3 * max
        <3>1. SalaryPart(expected, min, max) = <<150 * max - 50 * expected, max>>
            BY <1>3, <2>3 DEF SalaryPart
        <3>2. /\ 150 * max - 50 * expected \in Nat /\ max \in Nat \ {0}
              /\ 150 * max - 50 * expected <= 100 * max
            BY <2>1, <2>3
        <3> QED
            BY <3>1, <3>2 DEF Part
    <2> QED
        BY <2>2, <2>3
<1> QED
    BY <1>1, <1>2, <1>3

\* A student's score at a posting is a percentage, whatever either of them says
\* (match-algorithm.ts, calculateMatchScore).
THEOREM ScoreIsPercentage ==
    ASSUME NEW skill, NEW have \in SUBSET skill, NEW required \in Seq(skill),
           NEW months \in Nat, NEW needed \in Nat,
           NEW expected \in Nat, NEW min \in Nat, NEW max \in Nat
    PROVE  Weighted(SkillPart(have, required), ExperiencePart(months, needed),
                    SalaryPart(expected, min, max)) \in 0..100
BY SkillPartIsPart, ExperiencePartIsPart, SalaryPartIsPart, WeightedIsPercentage

\* And so is the one with education and projects (calculateEnhancedMatchScore).
THEOREM EnhancedScoreIsPercentage ==
    ASSUME NEW skill, NEW have \in SUBSET skill, NEW required \in Seq(skill),
           NEW months \in Nat, NEW needed \in Nat,
           NEW expected \in Nat, NEW min \in Nat, NEW max \in Nat,
           NEW degrees \in SUBSET Degree, NEW projects \in Nat
    PROVE  WeightedEnhanced(SkillPart(have, required), ExperiencePart(months, needed),
                            SalaryPart(expected, min, max),
                            EducationPart(degrees), ProjectPart(projects)) \in 0..100
<1>1. EducationPart(degrees) \in (0..100) \X {1}
    BY DEF EducationPart
<1>2. ProjectPart(projects) \in (0..100) \X {1}
    <2>1. CASE projects = 0
        BY <2>1 DEF ProjectPart
    <2>2. CASE projects >= 3
        BY <2>2 DEF ProjectPart
    <2>3. CASE projects # 0 /\ ~(projects >= 3)
        <3>1. ProjectPart(projects) = <<35 * projects, 1>>
            BY <2>3 DEF ProjectPart
        <3>2. 35 * projects \in 0..100
            BY <2>3
        <3> DEFINE n == 35 * projects
        <3> HIDE DEF n
        <3>3. <<n, 1>> \in (0..100) \X {1}
            BY <3>2 DEF n
        <3> QED
            BY <3>1, <3>3 DEF n
    <2> QED
        BY <2>1, <2>2, <2>3
<1> QED
    BY <1>1, <1>2, SkillPartIsPart, ExperiencePartIsPart, SalaryPartIsPart,
       WeightedEnhancedIsPercentage

----------------------------------------------------------------------------
(* A better part never makes a lower score *)

\* n / d rounded is the largest whole number not above n / d + 1 / 2.
LEMMA RoundIs ==
    ASSUME NEW n \in Nat, NEW d \in Nat \ {0}
    PROVE  /\ Round(n, d) \in Nat
           /\ 2 * d * Round(n, d) <= 2 * n + d
           /\ \A q \in Nat : 2 * d * q <= 2 * n + d => q <= Round(n, d)
<1> DEFINE m == 2 * n + d  k == 2 * d
<1>1. m \in Nat /\ k \in Nat \ {0}  OBVIOUS
<1> HIDE DEF m, k
<1>2. m \div k \in Nat /\ k * (m \div k) <= m /\ m < k * (m \div k) + k  BY <1>1
<1>3. ASSUME NEW q \in Nat, k * q <= m PROVE q <= m \div k
  <2>1. SUFFICES ASSUME q >= m \div k + 1 PROVE FALSE  BY <1>2
  <2>2. (m \div k + 1) * k <= q * k  BY <1>1, <1>2, <2>1, TimesMonotone
  <2>3. (m \div k + 1) * k = k * (m \div k) + k /\ q * k = k * q  BY <1>1, <1>2
  <2>4. k * (m \div k) + k \in Nat /\ k * q \in Nat  BY <1>1, <1>2
  <2>5. QED  BY <1>1, <1>2, <1>3, <2>2, <2>3, <2>4
<1>4. QED  BY <1>2, <1>3 DEF Round, m, k

\* The greater of two fractions is not rounded to less.
LEMMA RoundMonotone ==
    ASSUME NEW n \in Nat, NEW d \in Nat \ {0}, NEW m \in Nat, NEW e \in Nat \ {0},
           n * e <= m * d
    PROVE  Round(n, d) <= Round(m, e)
<1> DEFINE q == Round(n, d)
<1>1. q \in Nat /\ 2 * d * q <= 2 * n + d  BY RoundIs
<1> HIDE DEF q
<1>2. (2 * d * q) * e <= (2 * n + d) * e
  BY <1>1, TimesMonotone
<1>3. (2 * d * q) * e = (2 * e * q) * d /\ (2 * n + d) * e = 2 * (n * e) + e * d
  BY <1>1
<1>4. n * e \in Nat /\ m * d \in Nat /\ e * d \in Nat  OBVIOUS
<1>5. (2 * e * q) * d <= 2 * (m * d) + e * d  BY <1>1, <1>2, <1>3, <1>4
<1>6. 2 * (m * d) + e * d = (2 * m + e) * d  OBVIOUS
<1>7. 2 * e * q <= 2 * m + e
  <2>1. SUFFICES ASSUME 2 * m + e + 1 <= 2 * e * q PROVE FALSE  BY <1>1
  <2>2. (2 * m + e + 1) * d <= (2 * e * q) * d  BY <1>1, <2>1, TimesMonotone
  <2>3. (2 * m + e + 1) * d = (2 * m + e) * d + d  OBVIOUS
  <2>4. (2 * m + e) * d \in Nat  OBVIOUS
  <2>5. (2 * e * q) * d \in Nat  BY <1>1
  <2>6. QED  BY <1>5, <1>6, <2>2, <2>3, <2>4, <2>5
<1>8. q <= Round(m, e)  BY <1>1, <1>7, RoundIs
<1>9. QED  BY <1>8 DEF q

\* p is at most q, as fractions.
AtMost(p, q) == p[1] * q[2] <= q[1] * p[2]

\* A weighted sum of which one part gets better does not sink.
LEMMA OnePartMonotone ==
    ASSUME NEW a \in Nat, NEW b \in Nat \ {0}, NEW c \in Nat, NEW d \in Nat \ {0},
           a * d <= c * b,
           NEW x \in Nat, NEW y \in Nat, NEW k \in Nat \ {0}
    PROVE  Round(x * a + y * b, k * b) <= Round(x * c + y * d, k * d)
<1>1. (a * d) * (x * k) <= (c * b) * (x * k)
  BY TimesMonotone
<1>2. (x * a + y * b) * (k * d) = (a * d) * (x * k) + y * b * k * d  OBVIOUS
<1>3. (x * c + y * d) * (k * b) = (c * b) * (x * k) + y * b * k * d  OBVIOUS
<1>4. /\ x * a + y * b \in Nat /\ x * c + y * d \in Nat /\ y * b * k * d \in Nat
      /\ (a * d) * (x * k) \in Nat /\ (c * b) * (x * k) \in Nat
  OBVIOUS
<1>5. k * b \in Nat \ {0} /\ k * d \in Nat \ {0}  BY TimesPositive
<1>6. (x * a + y * b) * (k * d) <= (x * c + y * d) * (k * b)
  BY <1>1, <1>2, <1>3, <1>4
<1>7. QED  BY <1>4, <1>5, <1>6, RoundMonotone

\* A score is no lower if one of its parts is better and the others are the same ...
LEMMA FirstPartMonotone ==
    ASSUME NEW s \in Part, NEW t \in Part, AtMost(s, t), NEW e \in Part, NEW p \in Part
    PROVE  Weighted(s, e, p) <= Weighted(t, e, p)
<1> DEFINE c == e[1]  d == e[2]  g == p[1]  h == p[2]
           x == 70 * d * h  y == 20 * c * h + 10 * g * d  k == 100 * d * h
<1>1. c \in Nat /\ d \in Nat \ {0} /\ g \in Nat /\ h \in Nat \ {0}  BY DEF Part
<1>2. ASSUME NEW a \in Nat, NEW b \in Nat \ {0}
      PROVE  /\ 70 * a * d * h + 20 * c * b * h + 10 * g * b * d = x * a + y * b
             /\ 100 * b * d * h = k * b
  <2> HIDE DEF c, d, g, h
  <2>1. QED  BY <1>1, <1>2
<1>3. x \in Nat /\ y \in Nat /\ k \in Nat \ {0}
  <2> HIDE DEF c, d, g, h
  <2>1. d * h \in Nat \ {0}  BY <1>1, TimesPositive
  <2>2. 70 * d * h = 70 * (d * h) /\ 100 * d * h = 100 * (d * h)  BY <1>1
  <2>3. QED  BY <1>1, <2>1, <2>2
<1>4. /\ s[1] \in Nat /\ s[2] \in Nat \ {0} /\ t[1] \in Nat /\ t[2] \in Nat \ {0}
      /\ s[1] * t[2] <= t[1] * s[2]
  BY DEF Part, AtMost
<1> HIDE DEF x, y, k
<1>5. Round(x * s[1] + y * s[2], k * s[2]) <= Round(x * t[1] + y * t[2], k * t[2])
  BY <1>3, <1>4, OnePartMonotone
<1>6. Weighted(s, e, p) = Round(x * s[1] + y * s[2], k * s[2])
  BY <1>2, <1>4 DEF Weighted
<1>7. Weighted(t, e, p) = Round(x * t[1] + y * t[2], k * t[2])
  BY <1>2, <1>4 DEF Weighted
<1>8. QED  BY <1>5, <1>6, <1>7

\* ... for the second part too.
LEMMA SecondPartMonotone ==
    ASSUME NEW s \in Part, NEW t \in Part, AtMost(s, t), NEW e \in Part, NEW p \in Part
    PROVE  Weighted(e, s, p) <= Weighted(e, t, p)
<1> DEFINE c == e[1]  d == e[2]  g == p[1]  h == p[2]
           x == 20 * d * h  y == 70 * c * h + 10 * g * d  k == 100 * d * h
<1>1. c \in Nat /\ d \in Nat \ {0} /\ g \in Nat /\ h \in Nat \ {0}  BY DEF Part
<1>2. ASSUME NEW a \in Nat, NEW b \in Nat \ {0}
      PROVE  /\ 70 * c * b * h + 20 * a * d * h + 10 * g * d * b = x * a + y * b
             /\ 100 * d * b * h = k * b
  <2> HIDE DEF c, d, g, h
  <2>1. QED  BY <1>1, <1>2
<1>3. x \in Nat /\ y \in Nat /\ k \in Nat \ {0}
  <2> HIDE DEF c, d, g, h
  <2>1. d * h \in Nat \ {0}  BY <1>1, TimesPositive
  <2>2. 20 * d * h = 20 * (d * h) /\ 100 * d * h = 100 * (d * h)  BY <1>1
  <2>3. QED  BY <1>1, <2>1, <2>2
<1>4. /\ s[1] \in Nat /\ s[2] \in Nat \ {0} /\ t[1] \in Nat /\ t[2] \in Nat \ {0}
      /\ s[1] * t[2] <= t[1] * s[2]
  BY DEF Part, AtMost
<1> HIDE DEF x, y, k
<1>5. Round(x * s[1] + y * s[2], k * s[2]) <= Round(x * t[1] + y * t[2], k * t[2])
  BY <1>3, <1>4, OnePartMonotone
<1>6. Weighted(e, s, p) = Round(x * s[1] + y * s[2], k * s[2])
  BY <1>2, <1>4 DEF Weighted
<1>7. Weighted(e, t, p) = Round(x * t[1] + y * t[2], k * t[2])
  BY <1>2, <1>4 DEF Weighted
<1>8. QED  BY <1>5, <1>6, <1>7

\* One with more skills has at least as many of those that are asked for.
LEMMA MoreSkillsAtMost ==
    ASSUME NEW skill, NEW have \in SUBSET skill, NEW more \in SUBSET skill, have \subseteq more,
           NEW required \in Seq(skill)
    PROVE  AtMost(SkillPart(have, required), SkillPart(more, required))
<1>1. CASE required = <<>>  BY <1>1 DEF SkillPart, AtMost
<1>2. CASE required # <<>>
  <2> DEFINE n == Len(required)
             m == Cardinality(Matched(have, required))
             l == Cardinality(Matched(more, required))
  <2>1. n \in Nat \ {0} /\ DOMAIN required = 1..n  BY <1>2
  <2>2. /\ Matched(have, required) \subseteq Matched(more, required)
        /\ Matched(more, required) \subseteq 1..n
    BY <2>1 DEF Matched
  <2>3. IsFiniteSet(1..n)  BY <2>1, FS_Interval
  <2>4. IsFiniteSet(Matched(more, required))  BY <2>2, <2>3, FS_Subset
  <2>5. IsFiniteSet(Matched(have, required)) /\ m <= l  BY <2>2, <2>4, FS_Subset
  <2>6. m \in Nat /\ l \in Nat  BY <2>4, <2>5, FS_CardinalityType
  <2>7. /\ SkillPart(have, required) = <<100 * m, n>>
        /\ SkillPart(more, required) = <<100 * l, n>>
    BY <1>2 DEF SkillPart
  <2> HIDE DEF m, l, n
  <2>8. (100 * m) * n <= (100 * l) * n
    <3>1. 100 * m \in Nat /\ 100 * l \in Nat /\ 100 * m <= 100 * l /\ n \in Nat
      BY <2>1, <2>5, <2>6
    <3>2. QED  BY <3>1, TimesMonotone
  <2>9. QED  BY <2>7, <2>8 DEF AtMost
<1>3. QED  BY <1>1, <1>2

\* And one with more months behind him at least as much experience.
LEMMA MoreMonthsAtMost ==
    ASSUME NEW months \in Nat, NEW more \in Nat, months <= more, NEW required \in Nat
    PROVE  AtMost(ExperiencePart(months, required), ExperiencePart(more, required))
<1>1. CASE required = 0  BY <1>1 DEF ExperiencePart, AtMost
<1>2. CASE required # 0 /\ months >= required
  <2>1. more >= required  BY <1>2
  <2>2. QED  BY <1>2, <2>1 DEF ExperiencePart, AtMost
<1>3. CASE required # 0 /\ months < required /\ more >= required
  <2>1. /\ ExperiencePart(months, required) = <<100 * months, required>>
        /\ ExperiencePart(more, required) = <<100, 1>>
    BY <1>3 DEF ExperiencePart
  <2>2. (100 * months) * 1 <= 100 * required  BY <1>3
  <2>3. QED  BY <2>1, <2>2 DEF AtMost
<1>4. CASE required # 0 /\ more < required
  <2>1. /\ ExperiencePart(months, required) = <<100 * months, required>>
        /\ ExperiencePart(more, required) = <<100 * more, required>>
    BY <1>4 DEF ExperiencePart
  <2>2. (100 * months) * required <= (100 * more) * required
    <3>1. 100 * months \in Nat /\ 100 * more \in Nat /\ 100 * months <= 100 * more  OBVIOUS
    <3>2. QED  BY <3>1, TimesMonotone
  <2>3. QED  BY <2>1, <2>2 DEF AtMost
<1>5. QED  BY <1>1, <1>2, <1>3, <1>4

\* A student who learns skills or gathers months never scores less at a posting, rounding
\* and duplicates among the skills asked for included (match-algorithm.ts,
\* calculateMatchScore).
THEOREM MoreNeverScoresLess ==
    ASSUME NEW skill, NEW have \in SUBSET skill, NEW more \in SUBSET skill, have \subseteq more,
           NEW required \in Seq(skill),
           NEW months \in Nat, NEW later \in Nat, months <= later, NEW needed \in Nat,
           NEW expected \in Nat, NEW min \in Nat, NEW max \in Nat
    PROVE  Weighted(SkillPart(have, required), ExperiencePart(months, needed),
                    SalaryPart(expected, min, max))
             <= Weighted(SkillPart(more, required), ExperiencePart(later, needed),
                         SalaryPart(expected, min, max))
<1> DEFINE s == SkillPart(have, required)  t == SkillPart(more, required)
           e == ExperiencePart(months, needed)  f == ExperiencePart(later, needed)
           p == SalaryPart(expected, min, max)
<1> SUFFICES Weighted(s, e, p) <= Weighted(t, f, p)  OBVIOUS
<1>1. s \in Part /\ t \in Part /\ e \in Part /\ f \in Part /\ p \in Part
  BY SkillPartIsPart, ExperiencePartIsPart, SalaryPartIsPart
<1>2. AtMost(s, t) /\ AtMost(e, f)  BY MoreSkillsAtMost, MoreMonthsAtMost
<1> HIDE DEF s, t, e, f, p
<1>3. Weighted(s, e, p) <= Weighted(t, e, p)  BY <1>1, <1>2, FirstPartMonotone
<1>4. Weighted(t, e, p) <= Weighted(t, f, p)  BY <1>1, <1>2, SecondPartMonotone
<1>5. Weighted(s, e, p) \in 0..100 /\ Weighted(t, e, p) \in 0..100 /\ Weighted(t, f, p) \in 0..100
  BY <1>1, WeightedIsPercentage
<1> DEFINE u == Weighted(s, e, p)  v == Weighted(t, e, p)  w == Weighted(t, f, p)
<1> HIDE DEF u, v, w
<1>6. u \in 0..100 /\ v \in 0..100 /\ w \in 0..100  BY <1>5 DEF u, v, w
<1>7. u <= v /\ v <= w  BY <1>3, <1>4 DEF u, v, w
<1>8. u <= w  BY <1>6, <1>7
<1>9. QED  BY <1>8 DEF u, v, w

----------------------------------------------------------------------------
(* Least elements, which is what induction on data comes to here: a claim that fails   *)
(* somewhere fails at a least place.                                       *)

\* Among finite sets there is one that contains no other.
LEMMA LeastSet ==
    ASSUME NEW S, IsFiniteSet(S), NEW F \in SUBSET SUBSET S, F # {}
    PROVE  \E T \in F : \A U \in F : U \subseteq T => U = T
<1>1. FiniteSubsetsOf(S) = SUBSET S  BY FS_FiniteSubsetsOfFinite
<1>2. IsWellFoundedOn(StrictSubsetOrdering(S), SUBSET S)
  BY <1>1, FS_StrictSubsetOrderingWellFounded
<1>3. PICK T \in F : \A U \in F : <<U, T>> \notin StrictSubsetOrdering(S)
  BY <1>2, WFMin
<1>4. ASSUME NEW U \in F, U \subseteq T PROVE U = T
  BY <1>3, <1>4 DEF StrictSubsetOrdering
<1>5. QED  BY <1>4

\* Among numbers there is a least one.
LEMMA LeastNumber ==
    ASSUME NEW N \in SUBSET Nat, N # {}
    PROVE  \E n \in N : \A m \in N : n <= m
<1>1. PICK top \in N : TRUE  OBVIOUS
<1> DEFINE S == 1..top
           F == {1..m : m \in {m \in N : m <= top}}
<1>2. IsFiniteSet(S)  BY FS_Interval
<1>3. F \in SUBSET SUBSET S /\ F # {}
  <2>1. \A m \in N : m <= top => 1..m \subseteq S  OBVIOUS
  <2>2. 1..top \in F  OBVIOUS
  <2>3. QED  BY <2>1, <2>2
<1> HIDE DEF S
<1>4. PICK T \in F : \A U \in F : U \subseteq T => U = T
  <2> HIDE DEF F
  <2>1. QED  BY <1>2, <1>3, LeastSet
<1>5. PICK n \in N : n <= top /\ T = 1..n  OBVIOUS
<1>6. ASSUME NEW m \in N, m < n PROVE FALSE
  <2>1. m <= top /\ 1..m \in F  BY <1>5, <1>6
  <2>2. 1..m \subseteq T  BY <1>5, <1>6
  <2>3. 1..m = 1..n  BY <1>4, <1>5, <2>1, <2>2
  <2>4. n \in 1..n /\ n \notin 1..m  BY <1>6
  <2>5. QED  BY <2>3, <2>4
<1>7. \A m \in N : n <= m  BY <1>6
<1>8. QED  BY <1>7

\* f starts at base and goes from each value to the next by a step.
Iterates(f, V, base, n, step) ==
    f \in [0..n -> V] /\ f[0] = base /\ \A i \in 1..n : f[i] = step[i][f[i - 1]]

\* A recursion over 0..n has a value everywhere.
LEMMA IterationExists ==
    ASSUME NEW V, NEW base \in V, NEW n \in Nat, NEW step \in [1..n -> [V -> V]]
    PROVE  \E f : Iterates(f, V, base, n, step)
<1> DEFINE Runs(m) ==
        \E f \in [0..m -> V] : f[0] = base /\ \A i \in 1..m : f[i] = step[i][f[i - 1]]
           N == {m \in 0..n : ~Runs(m)}
<1>1. SUFFICES ASSUME N # {} PROVE FALSE
  <2>1. n \in 0..n  OBVIOUS
  <2>2. CASE N = {}
    <3>1. Runs(n)  BY <2>1, <2>2
    <3>2. QED  BY <3>1 DEF Iterates
  <2>3. QED  BY <1>1, <2>2
<1> HIDE DEF Runs
<1>a. N \in SUBSET Nat  OBVIOUS
<1> HIDE DEF N
<1>2. PICK m \in N : \A k \in N : m <= k  BY <1>1, <1>a, LeastNumber
<1> USE DEF Runs, N
<1>3. Runs(0)
  <2>1. [i \in 0..0 |-> base] \in [0..0 -> V] /\ [i \in 0..0 |-> base][0] = base  OBVIOUS
  <2>2. 1..0 = {}  OBVIOUS
  <2>3. QED  BY <2>1, <2>2
<1>4. m \in 1..n /\ m - 1 \in 0..n /\ Runs(m - 1)
  <2>1. m \in 0..n /\ m # 0  BY <1>3
  <2> HIDE DEF Runs
  <2>2. m - 1 \notin N
    <3> HIDE DEF N
    <3>1. m \in Nat /\ ~(m <= m - 1)  BY <2>1
    <3>2. QED  BY <1>2, <3>1
  <2>3. QED  BY <2>1, <2>2
<1>5. PICK f \in [0..(m - 1) -> V] :
        f[0] = base /\ \A i \in 1..(m - 1) : f[i] = step[i][f[i - 1]]
  BY <1>4
<1> DEFINE g == [i \in 0..m |-> IF i = m THEN step[m][f[m - 1]] ELSE f[i]]
<1>6. step[m] \in [V -> V] /\ f[m - 1] \in V  BY <1>4, <1>5
<1>7. g \in [0..m -> V]  BY <1>4, <1>5, <1>6
<1>8. g[0] = base  BY <1>4, <1>5
<1>9. ASSUME NEW i \in 1..m PROVE g[i] = step[i][g[i - 1]]
  <2>1. CASE i = m  BY <1>4, <2>1
  <2>2. CASE i # m
    <3>1. i \in 1..(m - 1) /\ i - 1 \in 0..m /\ i - 1 # m /\ i \in 0..m  BY <1>4, <2>2
    <3>2. QED  BY <1>5, <2>2, <3>1
  <2>3. QED  BY <2>1, <2>2
<1>10. Runs(m)  BY <1>7, <1>8, <1>9
<1>11. ~Runs(m)  BY <1>2
<1>12. QED  BY <1>10, <1>11

\* A sum adds its numbers up, one after the other.
LEMMA SumAddsUp ==
    ASSUME NEW numbers \in Seq(Nat)
    PROVE  \E total \in [0..Len(numbers) -> Nat] :
              /\ total[0] = 0
              /\ \A i \in 1..Len(numbers) : total[i] = total[i - 1] + numbers[i]
              /\ Sum(numbers) = total[Len(numbers)]
<1> DEFINE n == Len(numbers)
           step == [i \in 1..n |-> [v \in Nat |-> v + numbers[i]]]
<1>1. n \in Nat /\ \A i \in 1..n : numbers[i] \in Nat  OBVIOUS
<1>2. step \in [1..n -> [Nat -> Nat]]  BY <1>1
<1>3. PICK f \in [0..n -> Nat] : f[0] = 0 /\ \A i \in 1..n : f[i] = step[i][f[i - 1]]
  <2> HIDE DEF step, n
  <2>1. \E f : Iterates(f, Nat, 0, n, step)  BY <1>1, <1>2, IterationExists
  <2>2. QED  BY <2>1 DEF Iterates
<1>4. \A i \in 1..n : f[i] = f[i - 1] + numbers[i]
  <2> HIDE DEF n
  <2>1. TAKE i \in 1..n
  <2>2. i - 1 \in 0..n  BY <1>1
  <2>3. f[i - 1] \in Nat  BY <2>2
  <2>4. QED  BY <1>3, <2>3
<1> DEFINE Body(h) == [i \in 0..n |-> IF i = 0 THEN 0 ELSE h[i - 1] + numbers[i]]
           total == CHOOSE h : h = Body(h)
<1>5. f = Body(f)
  <2> HIDE DEF n
  <2>1. ASSUME NEW i \in 0..n PROVE f[i] = Body(f)[i]
    <3>1. CASE i = 0  BY <1>3, <3>1
    <3>2. CASE i # 0
      <4>1. i \in 1..n  BY <1>1, <3>2
      <4>2. QED  BY <1>4, <3>2, <4>1
    <3>3. QED  BY <3>1, <3>2
  <2>2. DOMAIN f = 0..n  OBVIOUS
  <2>3. QED  BY <2>1, <2>2
<1>6. total = Body(total)
  <2> HIDE DEF Body
  <2>1. QED  BY <1>5
<1>7. Sum(numbers) = total[n]  BY DEF Sum
<1>8. total \in [0..n -> Nat]
  <2> HIDE DEF n
  <2> DEFINE N == {i \in 0..n : total[i] \notin Nat}
  <2>1. SUFFICES ASSUME N # {} PROVE FALSE
    <3> HIDE DEF total
    <3>1. DOMAIN total = 0..n /\ total = [i \in 0..n |-> total[i]]  BY <1>6
    <3>2. QED  BY <2>1, <3>1
  <2>2. PICK m \in N : \A k \in N : m <= k
    <3>1. N \in SUBSET Nat  BY <1>1
    <3> HIDE DEF N
    <3>2. QED  BY <2>1, <3>1, LeastNumber
  <2> HIDE DEF total
  <2>3. CASE m = 0  BY <1>6, <2>3
  <2>4. CASE m # 0
    <3>1. m \in 1..n /\ m - 1 \in 0..n  BY <1>1, <2>4
    <3>2. total[m - 1] \in Nat  BY <2>2, <3>1
    <3>3. total[m] = total[m - 1] + numbers[m]  BY <1>6, <2>4, <3>1
    <3>4. QED  BY <1>1, <3>1, <3>2, <3>3
  <2>5. QED  BY <2>3, <2>4
<1> HIDE DEF total
<1>9. total[0] = 0 /\ \A i \in 1..n : total[i] = total[i - 1] + numbers[i]
  <2>1. 0 \in 0..n /\ \A i \in 1..n : i \in 0..n /\ i # 0  BY <1>1
  <2>2. QED  BY <1>6, <2>1
<1>10. QED  BY <1>7, <1>8, <1>9

\* A sum of n numbers between two bounds lies between n times the bounds.
LEMMA SumBetween ==
    ASSUME NEW low \in Nat, NEW high \in Nat, NEW numbers \in Seq(Nat),
           \A i \in 1..Len(numbers) : low <= numbers[i] /\ numbers[i] <= high
    PROVE  /\ Sum(numbers) \in Nat
           /\ low * Len(numbers) <= Sum(numbers) /\ Sum(numbers) <= high * Len(numbers)
<1> DEFINE n == Len(numbers)
<1>1. n \in Nat /\ \A i \in 1..n : numbers[i] \in Nat  OBVIOUS
<1>2. PICK total \in [0..n -> Nat] :
        /\ total[0] = 0 /\ \A i \in 1..n : total[i] = total[i - 1] + numbers[i]
        /\ Sum(numbers) = total[n]
  BY SumAddsUp
<1> HIDE DEF n
<1> DEFINE Good(i) == low * i <= total[i] /\ total[i] <= high * i
           N == {i \in 0..n : ~Good(i)}
<1>3. N = {}
  <2>1. SUFFICES ASSUME N # {} PROVE FALSE  OBVIOUS
  <2>2. N \in SUBSET Nat  BY <1>1
  <2>3. PICK m \in N : \A k \in N : m <= k
    <3> HIDE DEF N
    <3>1. QED  BY <2>1, <2>2, LeastNumber
  <2>4. m \in 0..n /\ ~Good(m)  OBVIOUS
  <2>5. m # 0  BY <1>2, <2>4
  <2> HIDE DEF Good
  <2>6. m - 1 \in 0..n /\ m \in 1..n  BY <1>1, <2>4, <2>5
  <2>7. m - 1 \notin N
    <3> HIDE DEF N
    <3>1. ~(m <= m - 1)  BY <2>6
    <3>2. QED  BY <2>3, <3>1
  <2>8. Good(m - 1)  BY <2>6, <2>7
  <2>9. total[m] = total[m - 1] + numbers[m] /\ total[m - 1] \in Nat  BY <1>2, <2>6
  <2>10. numbers[m] \in Nat /\ low <= numbers[m] /\ numbers[m] <= high  BY <1>1, <2>6 DEF n
  <2>11. low * m = low * (m - 1) + low /\ high * m = high * (m - 1) + high  BY <2>6
  <2>12. low * (m - 1) \in Nat /\ high * (m - 1) \in Nat  BY <2>6
  <2>13. Good(m)  BY <2>8, <2>9, <2>10, <2>11, <2>12 DEF Good
  <2>14. QED  BY <2>4, <2>13
<1>4. n \in 0..n  BY <1>1
<1>5. Good(n)  BY <1>3, <1>4
<1>6. QED  BY <1>1, <1>2, <1>4, <1>5 DEF n

\* The mean of numbers, rounded, lies between the least and the greatest of them.
LEMMA MeanBetween ==
    ASSUME NEW low \in Nat, NEW high \in Nat, NEW numbers \in Seq(Nat), numbers # <<>>,
           \A i \in 1..Len(numbers) : low <= numbers[i] /\ numbers[i] <= high
    PROVE  Mean(numbers) \in Nat /\ low <= Mean(numbers) /\ Mean(numbers) <= high
<1> DEFINE n == Len(numbers)  s == Sum(numbers)  q == Round(s, n)
<1>1. n \in Nat \ {0}  OBVIOUS
<1>2. s \in Nat /\ low * n <= s /\ s <= high * n  BY SumBetween
<1>3. Mean(numbers) = q  BY DEF Mean
<1> HIDE DEF n, s
<1>4. q \in Nat /\ 2 * n * q <= 2 * s + n /\ \A k \in Nat : 2 * n * k <= 2 * s + n => k <= q
  BY <1>1, <1>2, RoundIs
<1> HIDE DEF q
<1>5. 2 * n * low <= 2 * s + n
  <2>1. 2 * n * low = 2 * (low * n) /\ low * n \in Nat  BY <1>1
  <2>2. QED  BY <1>1, <1>2, <2>1
<1>6. ~(high + 1 <= q)
  <2>1. SUFFICES ASSUME high + 1 <= q PROVE FALSE  OBVIOUS
  <2>2. (high + 1) * (2 * n) <= q * (2 * n)  BY <1>1, <1>4, <2>1, TimesMonotone
  <2>3. (high + 1) * (2 * n) = 2 * (high * n) + 2 * n /\ q * (2 * n) = 2 * n * q  BY <1>1, <1>4
  <2>4. high * n \in Nat /\ 2 * n * q \in Nat  BY <1>1, <1>4
  <2>5. QED  BY <1>1, <1>2, <1>4, <2>2, <2>3, <2>4
<1>7. QED  BY <1>3, <1>4, <1>5, <1>6

\* What a sequence is made of.
LEMMA Elements ==
    ASSUME NEW S, NEW s \in Seq(S)
    PROVE  DOMAIN s = 1..Len(s) /\ Len(s) \in Nat /\ \A i \in 1..Len(s) : s[i] \in S
OBVIOUS

\* A sequence of scores is one of numbers.
LEMMA ScoresAreNumbers ==
    ASSUME NEW s \in Seq(0..100)
    PROVE  s \in Seq(Nat)
<1>1. DOMAIN s = 1..Len(s) /\ Len(s) \in Nat  OBVIOUS
<1>2. \A i \in 1..Len(s) : s[i] \in Nat
  <2> DEFINE S == 0..100
  <2>1. s \in Seq(S) /\ S \subseteq Nat  OBVIOUS
  <2> HIDE DEF S
  <2>2. QED  BY <2>1, Elements
<1>3. QED  BY <1>1, <1>2

\* Scores have a greatest one.
LEMMA LargestIs ==
    ASSUME NEW S \in SUBSET (0..100), S # {}
    PROVE  Largest(S) \in S /\ \A m \in S : m <= Largest(S)
<1> DEFINE B == {b \in Nat : \A m \in S : m <= b}
<1>1. 100 \in B /\ B \in SUBSET Nat  OBVIOUS
<1>2. PICK b \in B : \A c \in B : b <= c
  <2> HIDE DEF B
  <2>1. QED  BY <1>1, LeastNumber
<1>3. b \in S
  <2>1. SUFFICES ASSUME b \notin S PROVE FALSE  OBVIOUS
  <2>2. \A m \in S : m <= b /\ m # b  BY <1>2, <2>1
  <2>3. b # 0
    <3>1. PICK m \in S : m \in 0..100  OBVIOUS
    <3>2. m <= b /\ m # b /\ b \in Nat  BY <2>2, <3>1
    <3>3. QED  BY <3>1, <3>2
  <2>4. b - 1 \in B
    <3>1. b \in Nat /\ b - 1 \in Nat  BY <1>2, <2>3
    <3>2. \A m \in S : m <= b - 1  BY <2>2, <3>1
    <3>3. QED  BY <3>1, <3>2
  <2>5. b \in Nat /\ b <= b - 1  BY <1>2, <2>4
  <2>6. QED  BY <2>5
<1>4. \E n \in S : \A m \in S : m <= n  BY <1>2, <1>3
<1>5. QED  BY <1>4 DEF Largest

\* What the résumé page says of each of the latest uploads is consistent: the average of its
\* analysis is a percentage and not above its top score (matching.service.ts, versions).
THEOREM AverageNotAboveTop ==
    ASSUME NEW Id, NEW uploads \in Seq(Id), NEW scoresOf \in [Id -> Seq(0..100)],
           NEW i \in 1..Len(VersionLines(uploads, scoresOf))
    PROVE  LET line == VersionLines(uploads, scoresOf)[i]
           IN  line.avg <= line.top /\ line.avg \in 0..100 /\ line.top \in 0..100
<1> DEFINE shown == Len(Page(uploads, 1, 5))
<1>1. shown <= Len(uploads) /\ shown \in Nat
  BY DEF Page
<1>2. /\ VersionLines(uploads, scoresOf) = [k \in 1..shown |->
            [upload |-> uploads[k], jobs |-> Len(scoresOf[uploads[k]]),
             avg |-> Mean(scoresOf[uploads[k]]),
             top |-> Largest({scoresOf[uploads[k]][j] : j \in DOMAIN scoresOf[uploads[k]]})]]
  BY DEF VersionLines
<1> HIDE DEF shown
<1>3. i \in 1..shown /\ i \in 1..Len(uploads)
  <2>1. Len(VersionLines(uploads, scoresOf)) = shown  BY <1>1, <1>2
  <2>2. QED  BY <1>1, <2>1
<1> DEFINE scores == scoresOf[uploads[i]]
           S == {scores[j] : j \in DOMAIN scores}
           avg == Mean(scores)
           top == Largest(S)
<1>4. scores \in Seq(0..100)  BY <1>3
<1>5. /\ VersionLines(uploads, scoresOf)[i].avg = avg
      /\ VersionLines(uploads, scoresOf)[i].top = top
  BY <1>2, <1>3
<1> HIDE DEF scores, avg, top
<1> SUFFICES avg <= top /\ avg \in 0..100 /\ top \in 0..100  BY <1>5
<1> USE DEF avg, top
<1>6. /\ DOMAIN scores = 1..Len(scores) /\ Len(scores) \in Nat
      /\ \A j \in 1..Len(scores) : scores[j] \in 0..100
  BY <1>4, Elements
<1>7. CASE scores = <<>>
  <2>1. S = {}  BY <1>7
  <2>2. top = 0 /\ avg = 0  BY <1>7, <2>1 DEF Largest, Mean
  <2> HIDE DEF top, avg
  <2>3. QED  BY <2>2
<1>8. CASE scores # <<>>
  <2>1. S \in SUBSET (0..100) /\ S # {} /\ \A j \in 1..Len(scores) : scores[j] \in S
    <3>1. Len(scores) # 0  BY <1>4, <1>8
    <3>2. 1 \in DOMAIN scores  BY <1>6, <3>1
    <3>3. QED  BY <1>6, <3>2
  <2> HIDE DEF S
  <2>2. top \in S /\ \A m \in S : m <= top  BY <2>1, LargestIs
  <2>3. top \in 0..100  BY <2>1, <2>2
  <2> HIDE DEF top
  <2>4. ASSUME NEW j \in 1..Len(scores) PROVE 0 <= scores[j] /\ scores[j] <= top
    <3> DEFINE score == scores[j]
    <3>1. score \in 0..100 /\ score <= top  BY <1>6, <2>1, <2>2
    <3> HIDE DEF score
    <3>2. 0 <= score /\ score <= top  BY <3>1
    <3>3. QED  BY <3>2 DEF score
  <2>5. scores \in Seq(Nat)  BY <1>4, ScoresAreNumbers
  <2>6. avg \in Nat /\ avg <= top
    <3>1. top \in Nat /\ 0 \in Nat  BY <2>3
    <3>2. QED  BY <1>8, <2>4, <2>5, <3>1, MeanBetween
  <2> HIDE DEF avg
  <2>7. QED  BY <2>3, <2>6
<1>9. QED  BY <1>7, <1>8

----------------------------------------------------------------------------
(* One row of each company *)

\* Of the first n rows, those that are kept.
Best(rows, n) ==
    {k \in 1..n : \A m \in 1..n : rows[m].company = rows[k].company =>
        \/ rows[m].score < rows[k].score
        \/ rows[m].score = rows[k].score /\ k <= m}

\* Of some rows with scores, one scores highest and comes first among those that do.
LEMMA TopExists ==
    ASSUME NEW n \in Nat, NEW C \in SUBSET (1..n), C # {},
           NEW score, \A k \in C : score[k] \in 0..100
    PROVE  \E k \in C : \A l \in C : score[l] < score[k] \/ (score[l] = score[k] /\ k <= l)
<1> DEFINE S == {score[k] : k \in C}
           top == Largest(S)
<1>1. S \in SUBSET (0..100) /\ S # {}  OBVIOUS
<1>2. top \in S /\ \A v \in S : v <= top
  <2> HIDE DEF S
  <2>1. QED  BY <1>1, LargestIs
<1> HIDE DEF top
<1> DEFINE K == {k \in C : score[k] = top}
<1>3. K \in SUBSET Nat /\ K # {}
  <2>1. K \in SUBSET Nat
    <3>1. \A k \in C : k \in Nat  OBVIOUS
    <3>2. QED  BY <3>1
  <2>2. PICK k \in C : score[k] = top  BY <1>2
  <2>3. k \in K  BY <2>2
  <2> HIDE DEF K
  <2>4. QED  BY <2>1, <2>3
<1>4. PICK k \in K : \A l \in K : k <= l
  <2> HIDE DEF K
  <2>1. QED  BY <1>3, LeastNumber
<1>5. ASSUME NEW l \in C PROVE score[l] < score[k] \/ (score[l] = score[k] /\ k <= l)
  <2> DEFINE a == score[l]
  <2>1. a \in S  OBVIOUS
  <2>2. a <= top /\ a \in Nat /\ top \in Nat
    <3>1. a \in 0..100 /\ top \in 0..100  BY <1>1, <1>2, <2>1
    <3>2. a <= top  BY <1>2, <2>1
    <3>3. QED  BY <3>1, <3>2
  <2>3. score[k] = top  OBVIOUS
  <2>4. CASE a = top
    <3>1. l \in K  BY <2>4
    <3>2. k <= l  BY <1>4, <3>1
    <3>3. QED  BY <2>3, <2>4, <3>2
  <2>5. CASE a # top
    <3> HIDE DEF a
    <3>1. a < top  BY <2>2, <2>5
    <3>2. QED  BY <2>3, <3>1 DEF a
  <2>6. QED  BY <2>4, <2>5
<1>6. QED  BY <1>5

\* Every company met so far has a row that is kept, and it scores highest.
LEMMA BestExists ==
    ASSUME NEW row, \A r \in row : r.score \in 0..100, NEW rows \in Seq(row),
           NEW n \in 0..Len(rows), NEW m \in 1..n
    PROVE  \E k \in Best(rows, n) : /\ rows[k].company = rows[m].company
                                    /\ rows[m].score <= rows[k].score
<1> DEFINE score == [k \in 1..n |-> rows[k].score]
           C == {k \in 1..n : rows[k].company = rows[m].company}
<1>1. \A k \in 1..n : rows[k] \in row  BY Elements
<1>2. \A k \in 1..n : score[k] \in 0..100  BY <1>1
<1>3. m \in C /\ C \in SUBSET (1..n) /\ n \in Nat  BY Elements
<1>4. \E k \in C : \A l \in C : score[l] < score[k] \/ (score[l] = score[k] /\ k <= l)
  <2>1. \A k \in C : score[k] \in 0..100  BY <1>2, <1>3
  <2>2. C # {}  BY <1>3
  <2> HIDE DEF score, C
  <2>3. QED  BY <1>3, <2>1, <2>2, TopExists
<1>5. PICK k \in C : \A l \in C : score[l] < score[k] \/ (score[l] = score[k] /\ k <= l)
  BY <1>4
<1>6. k \in Best(rows, n)
  <2>1. ASSUME NEW l \in 1..n, rows[l].company = rows[k].company
        PROVE  rows[l].score < rows[k].score \/ (rows[l].score = rows[k].score /\ k <= l)
    <3>1. l \in C /\ k \in 1..n  BY <2>1
    <3>2. QED  BY <1>5, <3>1
  <2>2. QED  BY <2>1 DEF Best
<1>7. rows[m].score <= rows[k].score
  <2> DEFINE a == score[m]  b == score[k]
  <2>1. a \in 0..100 /\ b \in 0..100  BY <1>2
  <2>2. a < b \/ a = b  BY <1>3, <1>5
  <2> HIDE DEF a, b
  <2>3. a <= b  BY <2>1, <2>2
  <2>4. a = rows[m].score /\ b = rows[k].score  BY DEF a, b
  <2>5. QED  BY <2>3, <2>4
<1>8. QED  BY <1>6, <1>7

\* No company has two.
LEMMA BestIsOne ==
    ASSUME NEW row, \A r \in row : r.score \in 0..100, NEW rows \in Seq(row),
           NEW n \in 0..Len(rows), NEW k \in Best(rows, n), NEW l \in Best(rows, n),
           rows[k].company = rows[l].company
    PROVE  k = l
<1> DEFINE a == rows[k].score  b == rows[l].score
<1>1. k \in 1..n /\ l \in 1..n  BY DEF Best
<1>2. a \in 0..100 /\ b \in 0..100  BY <1>1, Elements
<1>3. (a < b \/ (a = b /\ l <= k)) /\ (b < a \/ (b = a /\ k <= l))  BY <1>1 DEF Best
<1> HIDE DEF a, b
<1>4. QED  BY <1>1, <1>2, <1>3

\* One turn of the loop over the rows: what is kept once the i-th has been looked at.
Turn(rows, kept, i) ==
    LET rivals == {k \in kept : rows[k].company = rows[i].company}
    IN  IF \E k \in rivals : rows[k].score >= rows[i].score THEN kept
        ELSE (kept \ rivals) \cup {i}

\* A turn of the loop keeps what is best of one more row.
LEMMA BestStep ==
    ASSUME NEW row, \A r \in row : r.score \in 0..100, NEW rows \in Seq(row),
           NEW i \in 1..Len(rows)
    PROVE  Best(rows, i) = Turn(rows, Best(rows, i - 1), i)
<1> DEFINE before == Best(rows, i - 1)
           rivals == {k \in before : rows[k].company = rows[i].company}
<1>1. /\ i \in Nat /\ i - 1 \in Nat /\ i - 1 \in 0..Len(rows) /\ i \in 0..Len(rows)
      /\ 1..i = (1..(i - 1)) \cup {i} /\ \A k \in 1..(i - 1) : k < i /\ k \in Nat
  BY Elements
<1>2. \A k \in 1..i : rows[k].score \in Nat
  <2>1. \A k \in 1..i : rows[k] \in row  BY Elements
  <2>2. \A k \in 1..i : rows[k].score \in 0..100  BY <2>1
  <2>3. \A v \in 0..100 : v \in Nat  OBVIOUS
  <2>4. QED  BY <2>2, <2>3
<1>3. before \in SUBSET (1..(i - 1)) /\ i \notin before  BY <1>1 DEF Best
<1>4. \A x \in 1..(i - 1) : x \in Best(rows, i) <=>
        x \in before /\ (rows[i].company = rows[x].company => rows[i].score <= rows[x].score)
  <2>1. SUFFICES ASSUME NEW x \in 1..(i - 1)
                 PROVE  x \in Best(rows, i) <=>
          x \in before /\ (rows[i].company = rows[x].company => rows[i].score <= rows[x].score)
    OBVIOUS
  <2>2. rows[i].score \in Nat /\ rows[x].score \in Nat /\ x <= i  BY <1>1, <1>2
  <2>3. QED  BY <1>1, <2>2 DEF Best
<1>5. i \in Best(rows, i) <=>
        \A m \in 1..(i - 1) : rows[m].company = rows[i].company => rows[m].score < rows[i].score
  BY <1>1, <1>2 DEF Best
<1>6. Best(rows, i) \in SUBSET (1..i)  BY DEF Best
<1>7. ASSUME NEW k \in rivals, rows[k].score >= rows[i].score
      PROVE  Best(rows, i) = before
  <2>1. k \in 1..(i - 1) /\ k \in before /\ rows[k].company = rows[i].company  BY <1>3
  <2>2. i \notin Best(rows, i)  BY <1>1, <1>2, <1>5, <1>7, <2>1
  <2>3. \A x \in before : rows[x].company = rows[i].company => x = k
    BY <1>1, <2>1, BestIsOne
  <2>4. \A x \in 1..(i - 1) : x \in Best(rows, i) <=> x \in before
    BY <1>1, <1>2, <1>4, <1>7, <2>1, <2>3
  <2>5. QED  BY <1>1, <1>3, <1>6, <2>2, <2>4
<1>8. ASSUME ~ \E k \in rivals : rows[k].score >= rows[i].score
      PROVE  Best(rows, i) = (before \ rivals) \cup {i}
  <2>1. \A k \in rivals : rows[k].score < rows[i].score  BY <1>1, <1>2, <1>3, <1>8
  <2>2. i \in Best(rows, i)
    <3>1. ASSUME NEW m \in 1..(i - 1), rows[m].company = rows[i].company
          PROVE  rows[m].score < rows[i].score
      <4>1. PICK k \in before : rows[k].company = rows[m].company /\ rows[m].score <= rows[k].score
        BY <1>1, BestExists
      <4>2. k \in rivals /\ k \in 1..i /\ m \in 1..i  BY <1>1, <1>3, <3>1, <4>1
      <4>3. rows[k].score < rows[i].score  BY <2>1, <4>2
      <4>4. rows[k].score \in Nat /\ rows[m].score \in Nat /\ rows[i].score \in Nat
        BY <1>1, <1>2, <4>2
      <4>5. QED  BY <4>1, <4>3, <4>4
    <3>2. QED  BY <1>5, <3>1
  <2>3. \A x \in 1..(i - 1) : x \in Best(rows, i) <=> x \in before \ rivals
    BY <1>1, <1>2, <1>4, <2>1
  <2>4. QED  BY <1>1, <1>3, <1>6, <2>2, <2>3
<1>9. QED  BY <1>7, <1>8 DEF Turn

\* Of every company the program keeps one posting, the first of those with its highest score:
\* the loop of handleResume and companyFit computes the best posting of each company.
THEOREM BestIsWhatTheLoopKeeps ==
    ASSUME NEW row, \A r \in row : r.score \in 0..100, NEW rows \in Seq(row)
    PROVE  BestByLoop(rows) = BestPerCompany(rows)
<1> DEFINE n == Len(rows)
           f == [i \in 0..n |-> Best(rows, i)]
           Body(h) == [i \in 0..n |-> IF i = 0 THEN {} ELSE Turn(rows, h[i - 1], i)]
           loop == CHOOSE h : h = Body(h)
<1>1. n \in Nat /\ DOMAIN rows = 1..n  BY Elements
<1>2. BestByLoop(rows) = {rows[i] : i \in loop[n]}  BY DEF BestByLoop, Turn
<1>3. BestPerCompany(rows) = {rows[i] : i \in Best(rows, n)}
  BY <1>1 DEF BestPerCompany, Keeps, Best
<1>4. \A i \in 1..n : Best(rows, i) = Turn(rows, Best(rows, i - 1), i)
  BY BestStep
<1>5. Best(rows, 0) = {}  BY DEF Best
<1> HIDE DEF n
<1>6. f = Body(f)
  <2>1. ASSUME NEW i \in 0..n PROVE f[i] = Body(f)[i]
    <3>1. CASE i = 0  BY <1>5, <3>1
    <3>2. CASE i # 0
      <4>1. i \in 1..n /\ i - 1 \in 0..n  BY <1>1, <3>2
      <4>2. QED  BY <1>4, <3>2, <4>1
    <3>3. QED  BY <3>1, <3>2
  <2>2. QED  BY <2>1
<1>7. loop = Body(loop)
  <2> HIDE DEF Body
  <2>1. QED  BY <1>6
<1> HIDE DEF loop
<1> DEFINE N == {i \in 0..n : loop[i] # Best(rows, i)}
<1>8. N = {}
  <2>1. SUFFICES ASSUME N # {} PROVE FALSE  OBVIOUS
  <2>2. N \in SUBSET Nat  BY <1>1
  <2>3. PICK m \in N : \A k \in N : m <= k
    <3> HIDE DEF N
    <3>1. QED  BY <2>1, <2>2, LeastNumber
  <2>4. CASE m = 0
    <3>1. loop[0] = {}  BY <1>1, <1>7
    <3>2. QED  BY <1>5, <2>4, <3>1
  <2>5. CASE m # 0
    <3>1. m \in 1..n /\ m - 1 \in 0..n /\ m \in 0..n  BY <1>1, <2>5
    <3>2. ~(m <= m - 1)  BY <3>1
    <3>3. m - 1 \notin N
      <4> HIDE DEF N
      <4>1. QED  BY <2>3, <3>2
    <3>4. loop[m - 1] = Best(rows, m - 1)  BY <3>1, <3>3
    <3>5. loop[m] = Turn(rows, loop[m - 1], m)  BY <1>7, <2>5, <3>1
    <3>6. QED  BY <1>4, <3>1, <3>4, <3>5
  <2>6. QED  BY <2>4, <2>5
<1>9. n \in 0..n  BY <1>1
<1>10. loop[n] = Best(rows, n)  BY <1>8, <1>9
<1>11. QED  BY <1>2, <1>3, <1>10

\* No company is lost and none is listed twice: of the company of any row exactly one row is
\* kept, and no row of that company scores more.
THEOREM EveryCompanyOnce ==
    ASSUME NEW row, \A r \in row : r.score \in 0..100, NEW rows \in Seq(row),
           NEW m \in 1..Len(rows)
    PROVE  \E best \in BestByLoop(rows) :
              /\ best.company = rows[m].company /\ rows[m].score <= best.score
              /\ \A other \in BestByLoop(rows) : other.company = best.company => other = best
<1> DEFINE n == Len(rows)
<1>1. n \in 0..Len(rows) /\ DOMAIN rows = 1..n  BY Elements
<1>2. BestByLoop(rows) = {rows[i] : i \in Best(rows, n)}
  BY <1>1, BestIsWhatTheLoopKeeps DEF BestPerCompany, Keeps, Best
<1> HIDE DEF n
<1>3. PICK k \in Best(rows, n) : /\ rows[k].company = rows[m].company
                                 /\ rows[m].score <= rows[k].score
  BY <1>1, BestExists DEF n
<1>4. \A l \in Best(rows, n) : rows[l].company = rows[k].company => l = k
  BY <1>1, BestIsOne
<1>5. rows[k] \in BestByLoop(rows)  BY <1>2
<1>6. ASSUME NEW other \in BestByLoop(rows), other.company = rows[k].company
      PROVE  other = rows[k]
  BY <1>2, <1>4, <1>6
<1>7. QED  BY <1>3, <1>5, <1>6

----------------------------------------------------------------------------
(* Pages *)

\* A page is the rows after those of the pages before it, as many as fit and as there are.
LEMMA PageIs ==
    ASSUME NEW T, NEW rows \in Seq(T), NEW size \in Nat \ {0}, NEW page \in Nat \ {0},
           NEW at \in Nat \ {0}
    PROVE  /\ at \in 1..Len(Page(rows, page, size)) <=>
                 at <= size /\ (page - 1) * size + at <= Len(rows)
           /\ at \in 1..Len(Page(rows, page, size)) =>
                 Page(rows, page, size)[at] = rows[(page - 1) * size + at]
<1> DEFINE n == Len(rows)
           before == (page - 1) * size
           last == IF page * size < n THEN page * size ELSE n
<1>1. n \in Nat /\ before \in Nat /\ page * size = before + size /\ page * size \in Nat
  <2>1. page - 1 \in Nat  OBVIOUS
  <2>2. (page - 1) * size \in Nat  BY <2>1
  <2>3. page * size = (page - 1) * size + size  OBVIOUS
  <2>4. QED  BY <2>2, <2>3
<1>2. Page(rows, page, size) = SubSeq(rows, before + 1, last)  BY DEF Page
<1>3. last \in Nat /\ last <= n /\ (last = before + size \/ (last = n /\ n <= before + size))
  BY <1>1
<1> HIDE DEF n, before, last
<1> DEFINE s == SubSeq(rows, before + 1, last)
<1>4. /\ Len(s) = IF before + 1 <= last THEN last - before ELSE 0
      /\ \A k \in 1..(last - before) : s[k] = rows[before + k]
  BY <1>1, <1>3 DEF n
<1> HIDE DEF s
<1>5. at \in 1..Len(s) <=> at <= last - before
  BY <1>1, <1>3, <1>4
<1>6. at <= last - before <=> at <= size /\ before + at <= n
  BY <1>1, <1>3
<1>7. at <= last - before => s[at] = rows[before + at]
  BY <1>1, <1>3, <1>4
<1>8. QED  BY <1>2, <1>5, <1>6, <1>7 DEF s, n, before

\* Every row of a list is on one of the pages listJobs and forJob announce, and on no other,
\* at one place: whoever goes through the pages of a list that does not change sees every row
\* once.
THEOREM EveryRowOnOnePage ==
    ASSUME NEW T, NEW rows \in Seq(T), NEW size \in Nat \ {0}, NEW i \in 1..Len(rows)
    PROVE  \E page \in 1..Pages(Len(rows), size) :
              /\ \E at \in 1..Len(Page(rows, page, size)) :
                    /\ (page - 1) * size + at = i
                    /\ Page(rows, page, size)[at] = rows[i]
              /\ \A other \in Nat \ {0} : \A at \in 1..Len(Page(rows, other, size)) :
                    (other - 1) * size + at = i => other = page
<1> DEFINE n == Len(rows)
           q == (i - 1) \div size
           at == i - q * size
           last == (n + size - 1) \div size
<1>1. n \in Nat /\ i \in Nat \ {0} /\ i <= n  OBVIOUS
<1> HIDE DEF n
<1>2. q \in Nat /\ q * size <= i - 1 /\ i - 1 < q * size + size
  <2> DEFINE m == i - 1
  <2>1. m \in Nat  BY <1>1
  <2> HIDE DEF m
  <2>2. m \div size \in Nat /\ size * (m \div size) <= m /\ m < size * (m \div size) + size
    BY <2>1
  <2>3. size * (m \div size) = (m \div size) * size  BY <2>2
  <2>4. QED  BY <2>2, <2>3 DEF m
<1>3. last \in Nat /\ n + size - 1 < last * size + size
  <2> DEFINE m == n + size - 1
  <2>1. m \in Nat  BY <1>1
  <2> HIDE DEF m
  <2>2. m \div size \in Nat /\ m < size * (m \div size) + size  BY <2>1
  <2>3. size * (m \div size) = (m \div size) * size  BY <2>2
  <2>4. QED  BY <2>2, <2>3 DEF m
<1>4. Pages(n, size) = IF last = 0 THEN 1 ELSE last  BY DEF Pages
<1> HIDE DEF q, last
<1>5. q * size \in Nat /\ last * size \in Nat  BY <1>2, <1>3
<1>6. q + 1 <= last
  <2>1. SUFFICES ASSUME last <= q PROVE FALSE  BY <1>2, <1>3
  <2>2. last * size <= q * size  BY <1>2, <1>3, <2>1, TimesMonotone
  <2>3. QED  BY <1>1, <1>2, <1>3, <1>5, <2>2
<1>7. q + 1 \in 1..Pages(n, size) /\ q + 1 \in Nat \ {0}  BY <1>2, <1>3, <1>4, <1>6
<1>8. at \in Nat \ {0} /\ at <= size /\ q * size + at = i  BY <1>1, <1>2, <1>5
<1> HIDE DEF at
<1> DEFINE page == q + 1
<1>9. page - 1 = q /\ page \in 1..Pages(n, size) /\ page \in Nat \ {0}  BY <1>2, <1>7
<1> HIDE DEF page
<1>10. /\ at \in 1..Len(Page(rows, page, size)) /\ Page(rows, page, size)[at] = rows[i]
       /\ (page - 1) * size + at = i
  <2>1. (page - 1) * size + at = i  BY <1>8, <1>9
  <2>2. at <= size /\ (page - 1) * size + at <= Len(rows)  BY <1>1, <1>8, <2>1 DEF n
  <2>3. at \in 1..Len(Page(rows, page, size))  BY <1>8, <1>9, <2>2, PageIs
  <2>4. Page(rows, page, size)[at] = rows[(page - 1) * size + at]  BY <1>8, <1>9, <2>3, PageIs
  <2>5. QED  BY <2>1, <2>3, <2>4
<1>11. ASSUME NEW other \in Nat \ {0}, NEW k \in 1..Len(Page(rows, other, size)),
              (other - 1) * size + k = i
       PROVE  other = page
  <2> DEFINE p == other - 1
  <2>1. k \in Nat \ {0}
    <3>1. Len(Page(rows, other, size)) \in Nat  BY DEF Page
    <3>2. QED  BY <3>1
  <2>2. k <= size  BY <2>1, PageIs
  <2>3. p \in Nat /\ p * size + k = i  BY <1>11
  <2> HIDE DEF p
  <2>4. p * size \in Nat  BY <2>3
  <2>5. ~(p + 1 <= q)
    <3>1. SUFFICES ASSUME p + 1 <= q PROVE FALSE  OBVIOUS
    <3>2. (p + 1) * size <= q * size  BY <1>2, <2>3, <3>1, TimesMonotone
    <3>3. (p + 1) * size = p * size + size  BY <2>3
    <3>4. QED  BY <1>2, <1>5, <2>1, <2>2, <2>3, <2>4, <3>2, <3>3
  <2>6. ~(q + 1 <= p)
    <3>1. SUFFICES ASSUME q + 1 <= p PROVE FALSE  OBVIOUS
    <3>2. (q + 1) * size <= p * size  BY <1>2, <2>3, <3>1, TimesMonotone
    <3>3. (q + 1) * size = q * size + size  BY <1>2
    <3>4. QED  BY <1>1, <1>2, <1>5, <2>1, <2>3, <2>4, <3>2, <3>3
  <2>7. p = q  BY <1>2, <2>3, <2>5, <2>6
  <2>8. QED  BY <2>7 DEF p, page
<1>12. QED  BY <1>9, <1>10, <1>11 DEF n

----------------------------------------------------------------------------
(* What comes most often *)

LEMMA TimesIsNumber ==
    ASSUME NEW T, NEW values \in Seq(T), NEW v
    PROVE  Times(values, v) \in Nat
<1>1. DOMAIN values = 1..Len(values) /\ Len(values) \in Nat  OBVIOUS
<1>2. IsFiniteSet(1..Len(values))  BY <1>1, FS_Interval
<1>3. {i \in DOMAIN values : values[i] = v} \subseteq 1..Len(values)  BY <1>1
<1>4. IsFiniteSet({i \in DOMAIN values : values[i] = v})  BY <1>2, <1>3, FS_Subset
<1>5. QED  BY <1>4, FS_CardinalityType DEF Times

\* The companies of the placement cell's list and the skills of a student's are those that
\* come most often: none that is left out comes more often than one that is in it.
THEOREM LeadersComeMostOften ==
    ASSUME NEW T, NEW values \in Seq(T), NEW S, IsFiniteSet(S), NEW n \in Nat,
           NEW v \in Leading(n, S, values), NEW w \in S \ Leading(n, S, values)
    PROVE  Times(values, w) <= Times(values, v)
<1> DEFINE times(u) == Times(values, u)
           Before(u, x) == \/ Times(values, u) > Times(values, x)
                           \/ Times(values, u) = Times(values, x) /\ First(values, u) < First(values, x)
           A == {u \in S : Before(u, v)}
           B == {u \in S : Before(u, w)}
<1>1. \A u : times(u) \in Nat  BY TimesIsNumber
<1>2. v \in S /\ Cardinality(A) < n /\ ~(Cardinality(B) < n)  BY DEF Leading
<1>3. SUFFICES ASSUME times(w) > times(v) PROVE FALSE
  <2>1. times(w) \in Nat /\ times(v) \in Nat  BY <1>1
  <2>2. QED  BY <1>3, <2>1
<1>4. B \subseteq A
  <2>1. SUFFICES ASSUME NEW u \in S, Before(u, w) PROVE Before(u, v)  OBVIOUS
  <2>2. times(u) >= times(w)
    <3>1. times(w) \in Nat /\ times(u) \in Nat  BY <1>1
    <3>2. QED  BY <2>1, <3>1
  <2>3. times(u) > times(v)
    <3>1. times(w) \in Nat /\ times(u) \in Nat /\ times(v) \in Nat  BY <1>1
    <3>2. QED  BY <1>3, <2>2, <3>1
  <2>4. QED  BY <2>3
<1>5. IsFiniteSet(A) /\ IsFiniteSet(B)
  <2>1. A \subseteq S /\ B \subseteq S  OBVIOUS
  <2> HIDE DEF A, B
  <2>2. QED  BY <2>1, FS_Subset
<1> HIDE DEF A, B
<1>6. Cardinality(B) <= Cardinality(A)  BY <1>4, <1>5, FS_Subset
<1>7. Cardinality(A) \in Nat /\ Cardinality(B) \in Nat  BY <1>5, FS_CardinalityType
<1>8. QED  BY <1>2, <1>6, <1>7

----------------------------------------------------------------------------
(* Who sees what *)

\* What listJobs shows to a user he may open (getJob).  What he may open and is not shown
\* has no cached rank, and he is a student who is shown another, which has one.
THEOREM ListedMayBeOpened ==
    ASSUME NEW user, user.role \in {"student", "recruiter", "admin"}, NEW jobs, NEW ranked,
           \A job \in jobs : job.approved \in BOOLEAN /\ job.active \in BOOLEAN,
           NEW job \in jobs
    PROVE  /\ job \in Listed(user, jobs, ranked) => MayRead(user, job)
           /\ MayRead(user, job) /\ job \notin Listed(user, jobs, ranked) =>
                 /\ user.role = "student" /\ job \notin ranked
                 /\ Listed(user, jobs, ranked) # {}
<1> DEFINE selected == {j \in jobs : Selects(user, j)}
<1>1. MayRead(user, job) <=> Selects(user, job)
    <2>1. CASE user.role = "student"  BY <2>1 DEF MayRead, Selects
    <2>2. CASE user.role = "recruiter"  BY <2>2 DEF MayRead, Selects
    <2>3. CASE user.role = "admin"  BY <2>3 DEF MayRead, Selects
    <2>4. QED  BY <2>1, <2>2, <2>3
<1>2. Listed(user, jobs, ranked) =
        IF user.role = "student" /\ ranked \cap selected # {} THEN ranked \cap selected ELSE selected
    BY DEF Listed
<1>3. job \in selected <=> MayRead(user, job)
    BY <1>1
<1> HIDE DEF selected
<1> QED
    BY <1>2, <1>3

\* Whoever finds an interview in the list may open it, and whoever may open it finds it or is
\* the party to it that the list, which goes by the role, does not look for.
THEOREM ListedMayBeViewed ==
    ASSUME NEW user, user.role \in {"student", "recruiter", "admin"}, NEW interview
    PROVE  /\ Shows(user, interview) => MayView(user, interview)
           /\ MayView(user, interview) =>
                 Shows(user, interview) \/ user.id \in {interview.student, interview.recruiter}
<1>1. CASE user.role = "student"  BY <1>1 DEF MayView, Shows
<1>2. CASE user.role = "recruiter"  BY <1>2 DEF MayView, Shows
<1>3. CASE user.role = "admin"  BY <1>3 DEF MayView, Shows
<1>4. QED  BY <1>1, <1>2, <1>3
=============================================================================
