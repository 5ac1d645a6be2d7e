----------------------------- MODULE MCSessions -----------------------------
(* Sessions on a small instance: one student with one browser. *)
EXTENDS Sessions

CONSTANTS b1, c1

OneBrowser == [c \in Call |-> b1]

\* The first call meets 401s and resets the password, the second does the rest,
\* a guarded call among it: both may refresh at the same time.
Split == [c \in Call |-> IF c = c1 THEN {"me", "reset"}
                         ELSE {"page", "load", "login", "logout", "signup", "forgot"}]
=============================================================================
