-------------------------- MODULE MCOrderPayments --------------------------
EXTENDS OrderPayments, TLC

ChargeSymmetry == Permutations(Charges)
=============================================================================
