----------------------------- MODULE MCDeskPage -----------------------------
EXTENDS DeskPage

CONSTANTS a1, a2

\* An applicant of each role.
MCRoleOf == [a \in App |-> IF a = a1 THEN 1 ELSE 2]
=============================================================================
