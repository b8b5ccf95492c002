----------------------------- MODULE PrimeField -----------------------------
(***************************************************************************)
(* A small prime field for the drivers that compute in the circuit field,  *)
(* and the running monomials the drivers at a fixed X = x hand out as      *)
(* wires (sxy.rs and sx.rs share them line for line).                      *)
(***************************************************************************)
EXTENDS Integers, Sequences

CONSTANTS P,   \* the field's characteristic
          N    \* Rank::n(); a wiring polynomial has 4N coefficients

IsPrime(p) == p > 1 /\ \A d \in 2 .. p - 1 : p % d # 0
ASSUME FieldAssumption == P \in Nat /\ IsPrime(P) /\ N \in Nat \ {0}

F == 0 .. P - 1

Plus(a, b)  == (a + b) % P
Times(a, b) == (a * b) % P
Squared(a)  == Times(a, a)
Power(a, e) ==                       \* by squaring
  LET power[k \in 0 .. e] ==
        IF k = 0 THEN 1
        ELSE Times(Squared(power[k \div 2]), IF k % 2 = 1 THEN a ELSE 1)
  IN  power[e]
Reciprocal(a)  == IF a = 0 THEN 0 ELSE Power(a, P - 2)

(* FoldLeft over a long sequence: eight elements at a time, every result   *)
(* evaluated at once.                                                      *)
FoldLong(op(_, _), base, seq) ==
  LET Slice(from, start) ==
        LET fold[k \in from .. from + 8] ==
              IF k = from THEN start
              ELSE IF k > Len(seq) THEN fold[k - 1]
              ELSE CHOOSE r \in { op(acc, seq[k]) : acc \in {fold[k - 1]} } : TRUE
        IN  fold[from + 8]
      slices[s \in 0 .. (Len(seq) + 7) \div 8] ==
        IF s = 0 THEN base
        ELSE CHOOSE r \in { Slice(8 * (s - 1), start) : start \in {slices[s - 1]} } : TRUE
  IN  slices[(Len(seq) + 7) \div 8]

NumCoeffs == 4 * N

(* lc(DirectSum::default()).value()                                        *)
DirectSum(lc, env) ==
  LET sum[k \in 0 .. Len(lc)] ==
        IF k = 0 THEN 0 ELSE Plus(sum[k - 1], Times(lc[k][2], env[lc[k][1]]))
  IN  sum[Len(lc)]

(* The a, b, c monomials of gate i: x^(2n+i), x^(2n-1-i), x^(4n-1-i),      *)
(* computed like the code from x and its inverse, taken to be 0 at x = 0.  *)
BaseMonomials(x) ==
  [a |-> Power(x, 2 * N),
   b |-> Times(Power(x, 2 * N), Reciprocal(x)),
   c |-> Times(Power(x, 4 * N), Reciprocal(x))]

(* Mutant of AdvancedBy: c runs the wrong way.                             *)
AdvancedUp(m, x, k) ==
  [a |-> Times(m.a, Power(x, k)),
   b |-> Times(m.b, Power(Reciprocal(x), k)),
   c |-> Times(m.c, Power(x, k))]

AdvancedBy(m, x, k) ==
  [a |-> Times(m.a, Power(x, k)),
   b |-> Times(m.b, Power(Reciprocal(x), k)),
   c |-> Times(m.c, Power(Reciprocal(x), k))]

AToD(x) == Power(Reciprocal(x), 2 * N)   \* x^(-2n): from a's monomial to d's
=============================================================================
