----------------------------- MODULE Catalogue -----------------------------
(* What the forms of the client share: the popular services on offer and   *)
(* a search over them, which matches every one of them or none.            *)

CONSTANT Brands

ASSUME CatalogueAssumption ==
    "default" \notin Brands /\ "none" \notin Brands

Queries == {"matching", "unmatched"}
=============================================================================
