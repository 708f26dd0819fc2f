----------------------------- MODULE MCHttpSession -----------------------------
(***************************************************************************)
(* Two sessions whose clients make requests of all the kinds that the      *)
(* sessions tell apart.                                                    *)
(***************************************************************************)
EXTENDS HttpSession

=============================================================================
