---------------------------- MODULE MCCargoDeal ----------------------------
(* A small instance of CargoDeal: every user has one handler in flight.     *)
EXTENDS CargoDeal, TLC

CONSTANTS c1, k1, k2, owner, job, atOwner, atJob, at1, at2

OneHandEach == (atOwner :> owner) @@ (atJob :> job) @@ (at1 :> k1) @@ (at2 :> k2)
=============================================================================
