---------------------------- MODULE TokenPromise ----------------------------
(***************************************************************************)
(* What the token administration promises: one store of entries, and the   *)
(* commands that change one label of it, at once or not at all             *)
(* (src/hansard_gateway/manage_tokens.py, README.md "Token                 *)
(* management").                                                           *)
(***************************************************************************)
EXTENDS TokenEntries

VARIABLE store          \* label -> its entry, for the labels that have one

Init == store \in Store

Generate(label) ==
  /\ label \notin DOMAIN store
  /\ \E t \in Token : store' = Generated(store, label, t)

Disable(label) ==
  /\ label \in DOMAIN store
  /\ store' = Disabled(store, label)

Rotate(label) ==
  /\ label \in DOMAIN store
  /\ \E t \in Token : store' = Rotated(store, label, t)

Next == \E label \in Label : Generate(label) \/ Disable(label) \/ Rotate(label)

Spec == Init /\ [][Next]_store
=============================================================================
