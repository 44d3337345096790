----------------------- MODULE MCResultSetRepository ------------------------
(***************************************************************************)
(* ResultSetRepository for TLC: clients that free what they got, and send  *)
(* one request after the other; they name each other's tokens, or do not.  *)
(***************************************************************************)
EXTENDS ResultSetRepository

OneAtATime == {{"serial", "balanced"}, {"own", "serial", "balanced"}}
=============================================================================
