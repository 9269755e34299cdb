------------------------------- MODULE MCLinks -------------------------------
(* The instance of Links that TLC explores. *)
EXTENDS Links, TLC

\* Nothing that only fills a slot, and the last of the messages with a thread on
\* screen that kept to itself.
Heard == \A s \in Slots : task[s].kind \in {"list", "create"} => task[s].live
Focus == Heard /\ (crossed \/ page.at = None => Len(posts) <= 2)
=============================================================================
