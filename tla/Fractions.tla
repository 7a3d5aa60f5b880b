------------------------------ MODULE Fractions -----------------------------
(***************************************************************************)
(* Exact arithmetic for what the code computes in floating point: reduced  *)
(* fractions with a positive denominator, and means of sequences of them.  *)
(***************************************************************************)
EXTENDS Integers, Sequences, Folds

Gcd[p \in Nat \X Nat] == IF p[2] = 0 THEN p[1] ELSE Gcd[<<p[2], p[1] % p[2]>>]

Abs(n)  == IF n < 0 THEN -n ELSE n
Sign(n) == IF n < 0 THEN -1 ELSE 1

\* Fractions, reduced, with a positive denominator.
Frac(n, d)  == LET g == Gcd[<<Abs(n), Abs(d)>>] IN [num |-> (n \div g) * Sign(d), den |-> Abs(d) \div g]
Whole(n)    == Frac(n, 1)
Plus(a, b)  == Frac(a.num * b.den + b.num * a.den, a.den * b.den)
Minus(a, b) == Frac(a.num * b.den - b.num * a.den, a.den * b.den)
Times(a, b) == Frac(a.num * b.num, a.den * b.den)
Below(a, b) == a.num * b.den <= b.num * a.den

\* The fractions of the arithmetic.
Fraction == [num: Int, den: Nat \ {0}]
Reduced  == {f \in Fraction : f = Frac(f.num, f.den)}

\* What step makes of start with the numbers from 1 to n, one after the other.
Through(step(_, _), start, n) ==
  MapThenFoldSet(LAMBDA i, x : step(x, i), start, LAMBDA i : i,
                 LAMBDA s : CHOOSE i \in s : \A j \in s : i >= j, 1..n)

Total(s) == Through(LAMBDA t, i : Plus(t, s[i]), Whole(0), Len(s))
Mean(s)  == Times(Total(s), Frac(1, Len(s)))
LastOf(s, p) == SubSeq(s, Len(s) - p + 1, Len(s))

\* Where the denominator may be any number but 0.
Over(a, b) == Times(Frac(a.num, b.num), Frac(b.den, a.den))
Above(a, b) == ~Below(a, b)
Size(a)    == [a EXCEPT !.num = Abs(a.num)]
\* Towards 0, as int does.
Trunc(a)   == Sign(a.num) * (Abs(a.num) \div a.den)
=============================================================================
