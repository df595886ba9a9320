---------------------------- MODULE MCDashboardAPI ----------------------------
(***************************************************************************)
(* Four rows of three addresses: two rows with the same time stamp, one    *)
(* not yet classified, one outside of the bounded period by the time the   *)
(* others are in it.  Of the addresses one is in the database, one is not, *)
(* and one has a record the reader cannot decode; two more are only asked  *)
(* for by themselves.                                                      *)
(***************************************************************************)
EXTENDS DashboardAPI, TLC

CONSTANTS japan, nowhere, broken, france, private

Row(at, ip, protocol, type, severity) ==
    [at |-> at, ip |-> ip, protocol |-> protocol, type |-> type, severity |-> severity]

FourRows ==
    <<Row(1, japan, "ssh", "BRUTE_FORCE", "HIGH"),
      Row(2, japan, "http", "none", "none"),
      Row(2, nowhere, "ssh", "SCAN", "LOW"),
      Row(3, broken, "http", "SCAN", "MEDIUM")>>

FiveAddresses == {japan, nowhere, broken, france, private}
PlaceTable == (japan :> 1) @@ (nowhere :> 0) @@ (france :> 2) @@ (broken :> 0)
OneDamaged == {broken}
=============================================================================
