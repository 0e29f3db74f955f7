--------------------------- MODULE MCOAuthSessions ---------------------------
(* Requests, states and sessions are interchangeable.                        *)
EXTENDS OAuthSessions, TLC

Symmetry == Permutations(Requests) \cup Permutations(StateIds) \cup Permutations(SessionIds)

\* A token response says nothing of the token's end, or it ends soon, or (in the
\* Codex file) it has ended.
Lifetimes == {None, 1, -1}
=============================================================================
