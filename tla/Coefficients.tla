---------------------------- MODULE Coefficients ----------------------------
(***************************************************************************)
(* Two number types of ragu_arithmetic: a field element that remembers it  *)
(* is special (coeff.rs), and the unsigned integer in limbs meant for      *)
(* wider endoscalars (uendo.rs), here with LimbBits-bit limbs.             *)
(***************************************************************************)
EXTENDS Polys, Bitwise

Special == {"Zero", "One", "Two", "NegativeOne"}
Coeff   == [kind : Special] \union [kind : {"Arbitrary", "NegativeArbitrary"}, v : F]

Simple(k)    == [kind |-> k]
Arbitrary(a) == [kind |-> "Arbitrary", v |-> a]
Negative(a)  == [kind |-> "NegativeArbitrary", v |-> a]

CoeffValue(c) == CASE c.kind = "Zero" -> 0
                   [] c.kind = "One" -> 1
                   [] c.kind = "Two" -> 2 % P
                   [] c.kind = "NegativeOne" -> P - 1
                   [] c.kind = "Arbitrary" -> c.v
                   [] c.kind = "NegativeArbitrary" -> Minus(0, c.v)

CoeffIsZero(c) == c.kind = "Zero" \/ (c.kind \notin Special /\ c.v = 0)

Either(c, d, k) == c.kind = k \/ d.kind = k
Other(c, d, k)  == IF c.kind = k THEN d ELSE c
Flipped(c)      == IF c.kind = "Arbitrary" THEN Negative(c.v) ELSE Arbitrary(c.v)

(* The match of Mul, arms in order.                                        *)
CoeffMul(c, d) ==
  CASE Either(c, d, "Zero") -> Simple("Zero")
    [] ~Either(c, d, "Zero") /\ Either(c, d, "One") -> Other(c, d, "One")
    [] /\ ~Either(c, d, "Zero") /\ ~Either(c, d, "One")
       /\ Either(c, d, "Two") ->
         LET a == CoeffValue(Other(c, d, "Two")) IN Arbitrary(Plus(a, a))
    [] c.kind = "NegativeOne" /\ d.kind = "NegativeOne" -> Simple("One")
    [] Either(c, d, "NegativeOne") /\ Other(c, d, "NegativeOne").kind \notin Special ->
         Flipped(Other(c, d, "NegativeOne"))
    [] {c.kind, d.kind} \intersect Special = {} ->
         IF c.kind = d.kind THEN Arbitrary(Times(c.v, d.v)) ELSE Negative(Times(c.v, d.v))

(* One or NegativeOne plus an arbitrary value of either sign.              *)
AddOne(one, a) ==
  CASE one.kind = "One" /\ a.kind = "Arbitrary" -> Arbitrary(Plus(a.v, 1))
    [] one.kind = "NegativeOne" /\ a.kind = "Arbitrary" -> Arbitrary(Minus(a.v, 1))
    [] one.kind = "One" /\ a.kind = "NegativeArbitrary" -> Arbitrary(Minus(1, a.v))
    [] one.kind = "NegativeOne" /\ a.kind = "NegativeArbitrary" -> Negative(Plus(1, a.v))

Units == {"One", "NegativeOne"}

(* The match of Add, arms in order.                                        *)
CoeffAdd(c, d) ==
  CASE Either(c, d, "Zero") -> Other(c, d, "Zero")
    [] ~Either(c, d, "Zero") /\ Either(c, d, "Two") ->
         LET a == Other(c, d, "Two")
         IN  IF a.kind = "NegativeOne" THEN Simple("One")
             ELSE Arbitrary(Plus(CoeffValue(a), 2))
    [] c.kind \in Units /\ d.kind \in Units ->
        (CASE c.kind # d.kind -> Simple("Zero")
           [] c.kind = "One" /\ d.kind = "One" -> Simple("Two")
           [] c.kind = "NegativeOne" /\ d.kind = "NegativeOne" -> Arbitrary(Minus(0, 2)))
    [] c.kind \in Units /\ d.kind \notin Special -> AddOne(c, d)
    [] d.kind \in Units /\ c.kind \notin Special -> AddOne(d, c)
    [] {c.kind, d.kind} \intersect Special = {} ->
        (CASE c.kind = "Arbitrary" /\ d.kind = "Arbitrary" -> Arbitrary(Plus(c.v, d.v))
           [] c.kind = "NegativeArbitrary" /\ d.kind = "NegativeArbitrary" ->
                Negative(Plus(c.v, d.v))
           [] c.kind = "Arbitrary" /\ d.kind = "NegativeArbitrary" -> Arbitrary(Minus(c.v, d.v))
           [] c.kind = "NegativeArbitrary" /\ d.kind = "Arbitrary" -> Arbitrary(Minus(d.v, c.v)))
-----------------------------------------------------------------------------
CONSTANTS LimbBits,   \* 64 in the code
          UendoBits   \* BITS, 136 in the code
ASSUME UendoAssumption == /\ LimbBits \in Nat \ {0} /\ UendoBits \in Nat \ {0}
                          /\ UendoBits % LimbBits # 0

Limbs   == (UendoBits + LimbBits - 1) \div LimbBits
TopMask == 2 ^ (UendoBits % LimbBits) - 1           \* NORMALIZATION_MASK
Zeros   == [i \in 0 .. Limbs - 1 |-> 0]
Cut(v)  == v % 2 ^ LimbBits                         \* what a limb keeps of a << b

Normalized(u) == [u EXCEPT ![Limbs - 1] = @ & TopMask]
FromU64(v)    == [Zeros EXCEPT ![0] = v]
UendoAnd(u, w) == [i \in DOMAIN u |-> u[i] & w[i]]
UendoOr(u, w)  == [i \in DOMAIN u |-> u[i] | w[i]]

(* Mutant of ShiftLeft: what a limb carries into the next one is lost.     *)
ShiftLeftNoCarry(u, k) ==
  IF k >= UendoBits THEN Zeros
  ELSE Normalized([t \in DOMAIN u |->
         IF t < k \div LimbBits THEN 0 ELSE Cut(u[t - k \div LimbBits] * 2 ^ (k % LimbBits))])

ShiftLeft(u, k) ==
  LET limb_shift == k \div LimbBits
      bit_shift  == k % LimbBits
      shifted(t) == LET s == t - limb_shift
                    IN  IF bit_shift > 0 /\ s > 0
                          THEN Cut(u[s] * 2 ^ bit_shift)
                                 | (u[s - 1] \div 2 ^ (LimbBits - bit_shift))
                          ELSE Cut(u[s] * 2 ^ bit_shift)
  IN  IF k >= UendoBits THEN Zeros
      ELSE Normalized([t \in DOMAIN u |-> IF t < limb_shift THEN 0 ELSE shifted(t)])

ShiftRight(u, k) ==
  LET limb_shift == k \div LimbBits
      bit_shift  == k % LimbBits
      shifted(t) == LET s == t + limb_shift
                    IN  IF bit_shift > 0 /\ s + 1 < Limbs
                          THEN (u[s] \div 2 ^ bit_shift)
                                 | Cut(u[s + 1] * 2 ^ (LimbBits - bit_shift))
                          ELSE u[s] \div 2 ^ bit_shift
  IN  IF k >= UendoBits THEN Zeros
      ELSE [t \in DOMAIN u |-> IF t + limb_shift >= Limbs THEN 0 ELSE shifted(t)]
=============================================================================
