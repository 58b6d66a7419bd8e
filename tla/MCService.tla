------------------------------ MODULE MCService ------------------------------
(* Instances of Service for TLC.                                           *)
EXTENDS Service

CONSTANTS h1, h2, m1, m2, o1, o2, d1, d2

Calm == [routes |-> {}, headers |-> {h1}, limited |-> FALSE, memos |-> {m1}, orders |-> {},
         deposits |-> {}, stops |-> 0, retries |-> FALSE]

\* Callers that mint, that bind orders and that poll, two keys near the rate limit,
\* submissions in a process that stops, and retried transfers in one.
AllLoads ==
  {[Calm EXCEPT !.routes = {"mint"}, !.memos = {m1, m2}],
   [Calm EXCEPT !.routes = {"mint", "bind"}, !.orders = {o1, o2}],
   [Calm EXCEPT !.routes = {"mint", "status"}, !.deposits = {d1, d2}],
   [Calm EXCEPT !.routes = {"look"}, !.headers = {h1, h2}, !.limited = TRUE, !.stops = 1],
   [Calm EXCEPT !.routes = {"submit", "look", "health"}, !.stops = 2],
   [Calm EXCEPT !.routes = {"mint"}, !.stops = 1, !.retries = TRUE]}
=============================================================================
