------------------------------- MODULE Powers -------------------------------
(***************************************************************************)
(* Exact powers, with no width: big.Int's Exp in decodePostgresNumeric, and *)
(* the reference that the doubling of the backoff is compared with.        *)
(***************************************************************************)
EXTENDS Integers

Power(base, exponent) ==
    LET p[n \in Nat] == IF n = 0 THEN 1 ELSE base * p[n-1] IN p[exponent]
=============================================================================
