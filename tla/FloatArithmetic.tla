---------------------------- MODULE FloatArithmetic ----------------------------
(***************************************************************************)
(* Binary floating point numbers as far as the decoder counts samples with *)
(* them (std::ceil and truncation of float quotients and products in       *)
(* buffered_resampler.cc and lyra_decoder.cc).  A number that is not       *)
(* negative is m * 2^e; every operation is done exactly and then rounded to*)
(* a mantissa of p bits, half to even.  Exponents have no limits here:     *)
(* counts of samples are far from them.                                    *)
(***************************************************************************)
EXTENDS Integers

CONSTANT MaxPower    \* bound of the model: powers of two up to 2^MaxPower are taken

\* The mantissas of the constants need 30.
ASSUME MaxPowerAssumption == MaxPower \in Nat /\ MaxPower >= 30

\* What exponentiation is, as far as it is used.
ASSUME PowersOfTwo == \A k \in 0 .. MaxPower - 1 : 2^(k + 1) = 2 * 2^k

\* The highest power of two in n > 0.
Log2(n) == CHOOSE k \in 0 .. MaxPower : n \div 2^k = 1

NearestToQuotient(num, den) ==
  LET q == num \div den
      r == num % den
  IN  IF 2 * r > den \/ (2 * r = den /\ q % 2 = 1) THEN q + 1 ELSE q

Rounded(x, p) ==
  LET excess == Log2(x.m) + 1 - p
  IN  IF x.m = 0 \/ excess <= 0 THEN x
      ELSE [m |-> NearestToQuotient(x.m, 2^excess), e |-> x.e + excess]

\* n > 0 with an odd mantissa.
Exactly(n) ==
  LET k == CHOOSE k \in 0 .. MaxPower : n % 2^k = 0 /\ (n \div 2^k) % 2 = 1
  IN  [m |-> n \div 2^k, e |-> k]

\* static_cast<float>(n)
Float(n, p) == IF n = 0 THEN [m |-> 0, e |-> 0] ELSE Rounded(Exactly(n), p)

\* Faulty variant: the product is kept in a wider register.
WideProduct(x, y, p) == [m |-> x.m * y.m, e |-> x.e + y.e]

Product(x, y, p) == Rounded([m |-> x.m * y.m, e |-> x.e + y.e], p)

\* The mantissa of x / y is x.m / y.m scaled to p bits, for mantissas of p bits.
Quotient(x, y, p) ==
  LET least == p - 1 + Log2(y.m) - Log2(x.m)
      shift == IF x.m * 2^least >= y.m * 2^(p - 1) THEN least ELSE least + 1
  IN  IF x.m = 0 THEN x
      ELSE [m |-> NearestToQuotient(x.m * 2^shift, y.m), e |-> x.e - y.e - shift]

\* static_cast<int>(x)
Truncated(x) == IF x.e >= 0 THEN x.m * 2^x.e ELSE x.m \div 2^(-x.e)

\* static_cast<int>(std::ceil(x))
Ceiling(x) == IF x.e >= 0 THEN x.m * 2^x.e ELSE - ((- x.m) \div 2^(-x.e))
=============================================================================
