------------------------------ MODULE MCSignIn ------------------------------
(***************************************************************************)
(* SignIn with one browser of many tabs and two requests in flight.        *)
(***************************************************************************)
EXTENDS SignIn, TLC

Symmetry == Permutations(Sessions)
=============================================================================
