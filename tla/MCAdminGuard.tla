---------------------------- MODULE MCAdminGuard ----------------------------
(* AdminGuard with two accounts and two requests in flight. *)
EXTENDS AdminGuard

CONSTANTS a, b, p, q

MCIds == {a, b}
MCRequests == {p, q}

=============================================================================
