------------------------------ MODULE MCWallet ------------------------------
(***************************************************************************)
(* A wallet for TLC.  Two messages have a price, one is free; five digits  *)
(* stand for the nineteen of BIGINT.                                       *)
(***************************************************************************)
EXTENDS Wallet

CONSTANTS m1, m2, m3

MCPrice == [m \in ChargedMessages |-> IF m = m1 THEN 20 ELSE IF m = m2 THEN 80 ELSE 0]
=============================================================================
