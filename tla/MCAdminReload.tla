---------------------------- MODULE MCAdminReload ----------------------------
(* Small instances of AdminReload: the requests are interchangeable. *)
EXTENDS AdminReload, TLC

ReqSymmetry == Permutations(Req)
=============================================================================
