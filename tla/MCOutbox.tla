------------------------------ MODULE MCOutbox ------------------------------
(***************************************************************************)
(* Small instances of Outbox.  For safety (MCWork): two rows that ask for  *)
(* the same job, a notification requested twice, and batches of two.  For  *)
(* the stuck row: one row the dispatcher can route and a younger one it    *)
(* cannot, and batches of one.                                             *)
(***************************************************************************)
EXTENDS Outbox, TLC

CONSTANTS e1, e2, e3, j1, d1, d2

MCJobOf == [e \in Events |-> j1]
MCAge   == (e1 :> 1 @@ e2 :> 2)
MCAge2  == (e1 :> 1 @@ e3 :> 3)

Symmetry == Permutations(Dispatchers)
=============================================================================
