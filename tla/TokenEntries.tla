---------------------------- MODULE TokenEntries ----------------------------
(***************************************************************************)
(* The entries of the token store, and what a management command makes of  *)
(* them (src/hansard_gateway/manage_tokens.py).  A digest stands for the   *)
(* token it was made from.                                                 *)
(***************************************************************************)
CONSTANTS Label,        \* the labels of the capability tokens
          Token         \* the plaintexts that can be generated

Entry == [token : Token, enabled : BOOLEAN]
Store == UNION {[D -> Entry] : D \in SUBSET Label}
NoEntries == [l \in {} |-> l]

\* The tokens that open the gateway.
Working(s) == {s[l].token : l \in {m \in DOMAIN s : s[m].enabled}}

\* A new label gets a new token.
Generated(s, label, token) ==
  [l \in DOMAIN s \cup {label} |->
     IF l = label THEN [token |-> token, enabled |-> TRUE] ELSE s[l]]

\* The token of a label stops working.
Disabled(s, label) == [s EXCEPT ![label].enabled = FALSE]

\* A new token takes the place of the old one, and works.
Rotated(s, label, token) ==
  [s EXCEPT ![label] = [token |-> token, enabled |-> TRUE]]
=============================================================================
