------------------------------ MODULE MCEscrow ------------------------------
(* Small instances of Escrow.                                               *)
EXTENDS Escrow, TLC

CONSTANTS owner, driver, c1, c2

OneOwner == [c \in Cargo |-> owner]

Interchangeable == Permutations(Slot)
=============================================================================
