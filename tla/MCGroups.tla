------------------------------ MODULE MCGroups ------------------------------
EXTENDS Groups, TLC

\* Few things go on at a time: requests, loads of the list, events.  A setting is
\* changed while nothing else is under way, and one stands for the three when it
\* is changed elsewhere.  The last request and what it overlaps are about members,
\* and not from ChatInfo, which is closed by then.
CONSTANT MaxAtOnce

UnderWay == {q \in Requests : requests[q] # None}
Setting == {q \in UnderWay : requests[q].op \in Settings /\ requests[q].step # "answered"}

Focus ==
  /\ Cardinality(UnderWay) + Cardinality(Setting) + Len(loads) + news <= MaxAtOnce
  /\ asked = MaxAsked => info = Closed
  /\ \A q \in UnderWay :
       /\ requests[q].from = "elsewhere" => requests[q].op \notin {"retention", "disappearing"}
       /\ asked = MaxAsked => requests[q].op \notin Settings \cup {"prefs", "clear"}

=============================================================================
