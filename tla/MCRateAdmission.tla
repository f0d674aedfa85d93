-------------------------- MODULE MCRateAdmission --------------------------
(***************************************************************************)
(* The instance of RateAdmission that TLC checks: two tokens, a minute of  *)
(* two ticks and a day of five, so that within the horizon the minute      *)
(* window slides several times inside a day and the day window slides too. *)
(***************************************************************************)
EXTENDS RateAdmission, TLC

CONSTANTS l1, l2

Tokens == Permutations({l1, l2})
=============================================================================
