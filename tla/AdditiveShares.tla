--------------------------- MODULE AdditiveShares ---------------------------
(***************************************************************************)
(* Values that two parties hold as a sum modulo m (shares.rs), one slot of *)
(* a vector, and the private table lookup that all comparisons go through  *)
(* (lookup.rs).  A pair of shares is a record [p0, p1].                    *)
(***************************************************************************)
EXTENDS Naturals

\* Both are right only for arguments below m: they correct by m once.
AddReduced(a, b, m) == IF a + b >= m THEN (a + b) - m ELSE a + b
SubReduced(a, b, m) == IF a >= b THEN a - b ELSE (a + m) - b

Reconstruct(x, m) == (x.p0 + x.p1) % m

\* The shares of v of which party 0 holds s.
Shared(v, s, m) == [p0 |-> s % m, p1 |-> SubReduced(v % m, s % m, m)]

\* AdditiveShares::share_public
SharePublic(v, m) == [p0 |-> v % m, p1 |-> 0]

AddShares(x, y, m) == [p0 |-> AddReduced(x.p0, y.p0, m), p1 |-> AddReduced(x.p1, y.p1, m)]
SubShares(x, y, m) == [p0 |-> SubReduced(x.p0, y.p0, m), p1 |-> SubReduced(x.p1, y.p1, m)]
ScaledShares(x, k, m) == [p0 |-> (x.p0 * k) % m, p1 |-> (x.p1 * k) % m]
OneMinus(x, m) == [p0 |-> SubReduced(1, x.p0, m), p1 |-> SubReduced(0, x.p1, m)]

\* The column of the table that two shares of an index select.
Selected(index, domain) == ((index.p0 % domain) + (index.p1 % domain)) % domain

(***************************************************************************)
(* The protocol adds up a one-hot vector over the columns in support, so a *)
(* selected column outside support contributes nothing.  Party 0's share   *)
(* is the rounding of a random element; draw stands for it.                *)
(***************************************************************************)
Lookup(index, domain, support, table, draw, m) ==
  LET column == Selected(index, domain)
  IN  Shared(IF column \in support THEN table[column] ELSE 0, draw, m)

Bit(condition) == IF condition THEN 1 ELSE 0

TwoTo[n \in Nat] == IF n = 0 THEN 1 ELSE 2 * TwoTo[n - 1]
=============================================================================
