--------------------------- MODULE PaymentLedger ---------------------------
(***************************************************************************)
(* The ledger the payment webhooks promise: a charge is settled once,      *)
(* switching Premium on at most once, until the account it belongs to is   *)
(* forgotten.  Premium implements it with rows of the donations table.     *)
(***************************************************************************)
EXTENDS Naturals

CONSTANT Charges

VARIABLES
  settled,     \* charges in the ledger
  activations  \* how often each charge switched Premium on since then

Init == settled = {} /\ activations = [c \in Charges |-> 0]

\* A charge whose user has gone is settled without an activation.
Settle(c) ==
  /\ c \in Charges \ settled
  /\ settled' = settled \cup {c}
  /\ \/ activations' = [activations EXCEPT ![c] = @ + 1]
     \/ UNCHANGED activations

Forget(gone) ==
  /\ gone # {}
  /\ settled' = settled \ gone
  /\ activations' = [c \in Charges |-> IF c \in gone THEN 0 ELSE activations[c]]

Next ==
  \/ \E c \in Charges : Settle(c)
  \/ \E gone \in SUBSET settled : Forget(gone)

Spec == Init /\ [][Next]_<<settled, activations>>
=============================================================================
