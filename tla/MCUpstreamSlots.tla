-------------------------- MODULE MCUpstreamSlots --------------------------
(***************************************************************************)
(* The instance of UpstreamSlots that TLC checks: three tokens, of which   *)
(* one can meet its own cap and together they can meet the global one.     *)
(***************************************************************************)
EXTENDS UpstreamSlots, TLC

CONSTANTS s1, s2, s3, s4, s5, s6, l1, l2, l3

MCLabelOf == s1 :> l1 @@ s2 :> l1 @@ s3 :> l1 @@ s4 :> l2 @@ s5 :> l2 @@ s6 :> l3
=============================================================================
