--------------------------- MODULE MCUserSessions ---------------------------
(* An instance of UserSessions for TLC: two requests at a time, the two    *)
(* clients, two access tokens.                                             *)
EXTENDS UserSessions, TLC

CONSTANTS r1, r2, web, app, t1, t2, p1

\* Requests and tokens are interchangeable; the clients are not, since an
\* OAuth login is always of the web client.
Interchangeable == Permutations(Requests) \union Permutations(Tokens)
=============================================================================
