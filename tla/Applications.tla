---------------------------- MODULE Applications ----------------------------
(***************************************************************************)
(* What apply promises students and recruiters, as if the handler ran in   *)
(* two steps: an application is filed at most once, by one request, while  *)
(* it asks, after the posting was approved and under a key that no other   *)
(* bears; that request alone has the recruiter told, once, before it       *)
(* answers.  Whatever else a request is answered is about the application  *)
(* it asked for, or the one filed under its key, and true when it is said. *)
(***************************************************************************)
CONSTANTS Student, Posting, Key, Req, None

Pair == Student \X Posting

VARIABLES
    approved,  \* the postings that were approved
    filed,     \* the applications there are
    under,     \* the key each was filed under, if any
    told,      \* those the recruiter was told of
    asked,     \* what each request asks for
    answer     \* what it was told last, and of which application

vars == <<approved, filed, under, told, asked, answer>>

\* What a request asks for: its application, its key, and whether the
\* application existed when it came (late) or it has filed it itself (filer).
Asking  == [of : Pair \cup {None}, key : Key \cup {None}, as : {"new", "late", "filer"}]
Nothing == [of |-> None, key |-> None, as |-> "new"]

TypeOK ==
    /\ approved \subseteq Posting
    /\ told \subseteq filed /\ filed \subseteq Pair
    /\ under \in [Pair -> Key \cup {None}]
    /\ asked \in [Req -> Asking]

\* The applications filed under key k, whoever's they are.
FiledUnder(k) == {p \in filed : k # None /\ under[p] = k}

Init ==
    /\ approved = {} /\ filed = {} /\ told = {}
    /\ under = [p \in Pair |-> None]
    /\ asked = [r \in Req |-> Nothing]
    /\ answer = [r \in Req |-> [said |-> "none", of |-> None]]

Approve(j) ==
    /\ approved' = approved \cup {j}
    /\ UNCHANGED <<filed, under, told, asked, answer>>

Ask(r, p, k) ==
    /\ asked[r].of = None
    /\ asked' = [asked EXCEPT ![r] =
           [of |-> p, key |-> k, as |-> IF p \in filed THEN "late" ELSE "new"]]
    /\ answer' = [answer EXCEPT ![r] = [said |-> "none", of |-> None]]
    /\ UNCHANGED <<approved, filed, under, told>>

File(r) ==
    /\ asked[r].of # None
    /\ asked[r].of \notin filed /\ asked[r].of[2] \in approved
    /\ FiledUnder(asked[r].key) = {}
    /\ filed' = filed \cup {asked[r].of}
    /\ under' = [under EXCEPT ![asked[r].of] = asked[r].key]
    /\ asked' = [asked EXCEPT ![r].as = "filer"]
    /\ UNCHANGED <<approved, told, answer>>

\* Request r ends.
Say(r, said, of) ==
    /\ asked[r].of # None
    /\ asked' = [asked EXCEPT ![r] = Nothing]
    /\ answer' = [answer EXCEPT ![r] = [said |-> said, of |-> of]]
    /\ UNCHANGED <<approved, filed, under>>

Tell(r) ==
    /\ Say(r, "created", asked[r].of)
    /\ asked[r].as = "filer"
    /\ asked[r].of \in filed \ told
    /\ told' = told \cup {asked[r].of}

\* An application that answers what r asks for: its own, or one under its key.
Answers(r, p) == p \in filed /\ (p = asked[r].of \/ p \in FiledUnder(asked[r].key))

Replay(r) ==
    /\ \E p \in filed : Answers(r, p) /\ Say(r, "replayed", p)
    /\ asked[r].as # "filer"
    /\ UNCHANGED told

\* Whoever asks for an application that exists is not refused it.
Refuse(r) ==
    /\ \/ Say(r, "not found", None) /\ asked[r].as # "filer"
       \/ Say(r, "forbidden", None) /\ asked[r].as = "new"
       \/ /\ Say(r, "conflict", None) /\ asked[r].as # "late"
          /\ \E p \in filed : Answers(r, p)
       \/ Say(r, "dead", None)
    /\ UNCHANGED told

Next ==
    \/ \E j \in Posting : Approve(j)
    \/ \E r \in Req : \/ \E p \in Pair, k \in Key \cup {None} : Ask(r, p, k)
                      \/ File(r) \/ Tell(r) \/ Replay(r) \/ Refuse(r)

Spec == Init /\ [][Next]_vars
=============================================================================
