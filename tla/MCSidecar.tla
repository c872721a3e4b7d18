----------------------------- MODULE MCSidecar -----------------------------
(***************************************************************************)
(* Two compressions for one permit, two classifications, and a crash: two  *)
(* threads for each lock, the permit contended.                            *)
(***************************************************************************)
EXTENDS Sidecar, TLC

CONSTANTS c1, c2, d1, d2

MCRequests == {c1, c2, d1, d2}
MCKind == c1 :> "compress" @@ c2 :> "compress"
       @@ d1 :> "domain" @@ d2 :> "domain"
=============================================================================
