----------------------------- MODULE Endoscalar -----------------------------
(***************************************************************************)
(* Short challenges with an endomorphism (primitives/endoscalar.rs).  An   *)
(* endoscalar is a tuple of BITS booleans.  The group is the field's       *)
(* additive group and the curve's endomorphism multiplication by ZETA.     *)
(***************************************************************************)
EXTENDS Polys
LOCAL INSTANCE SequencesExt

CONSTANTS BITS,           \* Uendo::BITS: 136 in the code
          ZETA,           \* a cube root of one
          GENERATOR       \* F::MULTIPLICATIVE_GENERATOR, not a square
IsSquare(a) == a = 0 \/ Power(a, (P - 1) \div 2) = 1
ASSUME EndoAssumption ==
  /\ BITS \in Nat \ {0} /\ BITS % 2 = 0
  /\ ZETA \in F /\ ZETA # 1 /\ Power(ZETA, 3) = 1
  /\ GENERATOR \in F /\ ~IsSquare(GENERATOR)

(* extract: bit i says whether the element plus i is a square; the circuit *)
(* shows a root of it or of its product with the generator.                *)
Extract(elem) == [i \in 1 .. BITS |-> IsSquare(Plus(elem, (i - 1) % P))]
ExtractConstraint(elem, i, bit, square) ==
  LET vb == IF bit THEN elem ELSE 0
  IN  Plus(Plus(Times(i, GENERATOR), IF bit THEN Times(i, Minus(1, GENERATOR)) ELSE 0),
           Plus(Times(GENERATOR, elem), Times(Minus(1, GENERATOR), vb))) = square

Pairs == [i \in 1 .. BITS \div 2 |-> i]
Double(a) == Plus(a, a)

(* lift_endoscalar: the scalar an endoscalar stands for.                   *)
LiftNative(bits) ==
  LET term(i) == Times(IF bits[(2 * i) - 1] THEN Minus(0, 1) ELSE 1, IF bits[2 * i] THEN ZETA ELSE 1)
  IN  FoldLong(LAMBDA acc, i : Plus(Double(acc), term(i)), Double(Plus(ZETA, 1)), Pairs)

(* Mutant of Lift: the product of a pair's bits is not corrected for.      *)
LiftWithoutProduct(bits) ==
  LET step(acc, i) ==
        [constant |-> Plus(Double(acc.constant), 1),
         acc |-> Plus(Plus(Double(acc.acc), IF bits[(2 * i) - 1] THEN Minus(0, 2) ELSE 0),
                      IF bits[2 * i] THEN Minus(ZETA, 1) ELSE 0)]
      last == FoldLong(step, [constant |-> Double(Plus(ZETA, 1)), acc |-> 0], Pairs)
  IN  Plus(last.acc, last.constant)
(* Endoscalar::lift in a circuit: linear in the bits and their products.   *)
Lift(bits) ==
  LET step(acc, i) ==
        LET n == bits[(2 * i) - 1]
            e == bits[2 * i]
        IN  [constant |-> Plus(Double(acc.constant), 1),
             acc |-> FoldLeft(Plus, Double(acc.acc),
                       << IF n THEN Minus(0, 2) ELSE 0, IF e THEN Minus(ZETA, 1) ELSE 0,
                          IF n /\ e THEN Double(Minus(1, ZETA)) ELSE 0 >>)]
      last == FoldLong(step, [constant |-> Double(Plus(ZETA, 1)), acc |-> 0], Pairs)
  IN  Plus(last.acc, last.constant)

(* group_scale: double-and-add over +-p and their endomorphisms.           *)
ConditionalNegate(p, b) == IF b THEN Minus(0, p) ELSE p
ConditionalEndo(p, b)   == IF b THEN Times(ZETA, p) ELSE p
DoubleAndAdd(acc, q)    == Plus(Plus(acc, q), acc)
GroupScale(bits, p) ==
  FoldLong(LAMBDA acc, i :
             DoubleAndAdd(acc, ConditionalEndo(ConditionalNegate(p, bits[(2 * i) - 1]), bits[2 * i])),
           Double(Plus(Times(ZETA, p), p)), Pairs)
=============================================================================
