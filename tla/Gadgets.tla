------------------------------ MODULE Gadgets ------------------------------
(***************************************************************************)
(* The drivers a gadget runs under, and the gadgets: elements, booleans,   *)
(* points and endoscalars (element.rs, boolean.rs, point.rs,               *)
(* endoscalar.rs) and what composes them.                                  *)
(*                                                                         *)
(* Drivers have values on their wires:                                     *)
(*   "simulator"  checks every gate and constraint (simulator.rs)          *)
(*   "wired"      computes the wires and checks nothing (emulator.rs)      *)
(*   "wireless"   has unit wires, here always 0 (emulator.rs)              *)
(*   "circuit"    what the gates and constraints say by themselves: the    *)
(*                wires are any assignment that satisfies them, whatever   *)
(*                the witness closures would have computed                 *)
(* A call answers the set of outcomes [dr, out]; only a circuit has other  *)
(* than one, and none when no assignment is left.                          *)
(*                                                                         *)
(* A gadget is its wires and, beside them, the witness value; an operation *)
(* makes gates and constraints over the first and computes the second.     *)
(***************************************************************************)
EXTENDS Endoscalar
LOCAL INSTANCE SequencesExt

CONSTANT CURVE_B         \* the curve is y^2 = x^3 + CURVE_B
ASSUME CurveAssumption == CURVE_B \in F

Allocators == {"()", "Standard"}
Honest == {"simulator", "wired", "wireless"}

NewDriver(kind, allocator) ==
  [kind |-> kind, allocator |-> allocator, num_gates |-> 0, num_constraints |-> 0, pool |-> <<>>, err |-> "ok"]

Failing(dr)   == dr.err # "ok"
Fail(dr, err) == [dr EXCEPT !.err = IF Failing(dr) THEN @ ELSE err]   \* `?`
Outcome(dr, out)   == [dr |-> dr, out |-> out]
Then(outcomes, K(_)) == UNION { K(o) : o \in outcomes }

(* D::try_just: a circuit's wires owe nothing to the witness.              *)
TryJust(dr, holds, err) == IF dr.kind = "circuit" \/ holds THEN dr ELSE Fail(dr, err)

WireOf(dr, v) == IF dr.kind = "wireless" THEN 0 ELSE v

(* DirectSum: a sum of terms, each scaled by the gain at the time.         *)
Term(wire, coeff) == [gain |-> FALSE, wire |-> wire, coeff |-> coeff % P]
Gain(coeff)       == [gain |-> TRUE, wire |-> 0, coeff |-> coeff % P]
LinearExpression(steps) ==
  FoldLeft(LAMBDA lc, s :
             IF s.gain THEN [lc EXCEPT !.current_gain = Times(@, s.coeff)]
             ELSE [lc EXCEPT !.value = Plus(@, Times(s.wire, Times(s.coeff, lc.current_gain)))],
           [value |-> 0, current_gain |-> 1], steps).value

Ones(dr)         == WireOf(dr, 1)                               \* D::ONE
AddWires(dr, lc) == WireOf(dr, LinearExpression(lc))            \* Driver::add
ConstantWire(dr, v) == AddWires(dr, <<Term(Ones(dr), v)>>)

(* The emulators count nothing.                                            *)
Counted(dr, what, n) == IF dr.kind = "simulator" THEN [dr EXCEPT ![what] = @ + n] ELSE dr

(* gate(): the wires a, b and c, and the token for d.                      *)
GateWires(dr, a, b, c) ==
  CASE dr.kind = "circuit" -> { <<x, y, Times(x, y)>> : x \in F, y \in F }
    [] OTHER -> {<< WireOf(dr, a), WireOf(dr, b), WireOf(dr, c) >>}
GateCall(dr, a, b, c) ==
  LET failed  == dr.kind = "simulator" /\ Times(a, b) # c
      counted == IF failed THEN Fail(dr, "gate check failed") ELSE Counted(dr, "num_gates", 1)
  IN  { Outcome(IF Failing(dr) THEN dr ELSE counted,
                [a |-> w[1], b |-> w[2], c |-> w[3], extra |-> w[3] = 0])
        : w \in IF Failing(dr) THEN {<<0, 0, 0>>} ELSE GateWires(dr, a, b, c) }

(* assign_extra(): d is free exactly when c is zero.                       *)
AssignExtra(dr, c_is_zero, v) ==
  LET failed == dr.kind = "simulator" /\ ~c_is_zero /\ v # 0
  IN  { Outcome(IF failed THEN Fail(dr, "auxiliary constraint failed") ELSE dr, d)
        : d \in IF dr.kind = "circuit" THEN (IF c_is_zero THEN F ELSE {0})
                ELSE {WireOf(dr, v)} }

(* enforce_zero() of each expression in turn, then out.                    *)
EnforceZeros(dr, lcs, out) ==
  LET zero(k)  == LinearExpression(lcs[k]) = 0
      broken   == { k \in DOMAIN lcs : ~zero(k) }
      enforced == Counted(dr, "num_constraints", Len(lcs))
      first    == CHOOSE k \in broken : \A j \in broken : k <= j
      failed   == Counted(dr, "num_constraints", first - 1)
  IN  IF Failing(dr) THEN {Outcome(dr, out)}
      ELSE IF dr.kind \in {"wired", "wireless"} \/ broken = {} THEN {Outcome(enforced, out)}
      ELSE IF dr.kind = "circuit" THEN {}
      ELSE {Outcome(Fail(failed, "constraint failed"), out)}

Equal(a, b) == <<Term(a, 1), Term(b, -1)>>             \* enforce_equal's expression

(* A token an allocator without a pool drops.                              *)
Donate(dr, extra) ==
  IF dr.allocator = "Standard" /\ ~Failing(dr) THEN [dr EXCEPT !.pool = Append(@, extra)] ELSE dr

(* Allocator::alloc: redeem the last token, or open a gate for wire a.     *)
AllocWire(dr, v) ==
  IF dr.allocator = "Standard" /\ dr.pool # <<>> /\ ~Failing(dr)
    THEN AssignExtra([dr EXCEPT !.pool = Front(@)], Last(dr.pool), v)
    ELSE Then(GateCall(dr, v, 0, 0), LAMBDA g : {Outcome(Donate(g.dr, g.out.extra), g.out.a)})
-----------------------------------------------------------------------------
Element(wire, value)    == [kind |-> "element", wire |-> wire, value |-> value]
BooleanOf(wire, value)  == [kind |-> "boolean", wire |-> wire, value |-> value]
Point(x, y)             == [kind |-> "point", x |-> x, y |-> y]
Bit(b)     == IF b THEN 1 ELSE 0
Square(v)  == Times(v, v)
AsElement(b) == Element(b.wire, Bit(b.value))             \* Boolean::element

Mapped(outcomes, Make(_, _)) == { Outcome(o.dr, Make(o.dr, o.out)) : o \in outcomes }
-----------------------------------------------------------------------------
(* Elements.                                                               *)
ElementAlloc(dr, v) == Mapped(AllocWire(dr, v), LAMBDA d, w : Element(w, v))

AllocSquare(dr, v) ==
  Then(GateCall(dr, v, v, Square(v)), LAMBDA g :
    EnforceZeros(g.dr, <<Equal(g.out.a, g.out.b)>>,
                 <<Element(g.out.a, v), Element(g.out.c, Square(v))>>))

Constant(dr, v) == Element(ConstantWire(dr, v), v)
One(dr)         == Element(Ones(dr), 1)

(* add, sub, add_coeff, scale, negate, double and multiadd are linear.     *)
Linear(dr, elements, coeffs) ==
  LET sum(values) == LinearExpression([k \in DOMAIN elements |-> Term(values[k], coeffs[k])])
  IN  Element(WireOf(dr, sum([k \in DOMAIN elements |-> elements[k].wire])),
              sum([k \in DOMAIN elements |-> elements[k].value]))
AddElements(dr, a, b) == Linear(dr, <<a, b>>, <<1, 1>>)
SubElements(dr, a, b) == Linear(dr, <<a, b>>, <<1, -1>>)
AddCoeff(dr, a, b, c) == Linear(dr, <<a, b>>, <<1, c>>)
Scale(dr, a, c)       == Linear(dr, <<a>>, <<c>>)
Negated(dr, a)        == Scale(dr, a, -1)
Doubled(dr, a)        == AddElements(dr, a, a)
SumElements(dr, elements) ==
  FoldLeft(LAMBDA acc, e : AddElements(dr, acc, e), Constant(dr, 0), elements)

Mul(dr, a, b) ==
  LET product == Times(a.value, b.value)
  IN  Then(GateCall(dr, a.value, b.value, product), LAMBDA g :
        EnforceZeros(g.dr, <<Equal(g.out.a, a.wire), Equal(g.out.b, b.wire)>>,
                     Element(g.out.c, product)))

(* Mutant of InvertWith: the product is not held to one.                   *)
InvertWithFreely(dr, a, inverse) ==
  Then(GateCall(dr, a.value, inverse, 1), LAMBDA g :
    EnforceZeros(g.dr, <<Equal(g.out.a, a.wire)>>, Element(g.out.b, inverse)))
InvertWith(dr, a, inverse) ==
  Then(GateCall(dr, a.value, inverse, 1), LAMBDA g :
    EnforceZeros(g.dr, <<Equal(g.out.a, a.wire), Equal(g.out.c, Ones(dr))>>,
                 Element(g.out.b, inverse)))
Invert(dr, a) ==
  InvertWith(TryJust(dr, a.value # 0, "division by zero"), a, Reciprocal(a.value))

DivNonzero(dr, a, by) ==
  LET quotient == Times(a.value, Reciprocal(by.value))
  IN  Then(GateCall(TryJust(dr, by.value # 0, "division by zero"), quotient, by.value, a.value),
           LAMBDA g : EnforceZeros(g.dr, <<Equal(a.wire, g.out.c), Equal(by.wire, g.out.b)>>,
                                   Element(g.out.a, quotient)))

EnforceZero(dr, a) == EnforceZeros(dr, << <<Term(a.wire, 1)>> >>, <<>>)

(* fold: Horner's rule, the first element at the highest power.            *)
FoldElements(dr, elements, scale) ==
  IF elements = <<>> THEN {Outcome(dr, Constant(dr, 0))}
  ELSE FoldLeft(LAMBDA acc, e :
                  Then(acc, LAMBDA o : Mapped(Mul(o.dr, o.out, scale),
                                              LAMBDA d, scaled : AddElements(d, scaled, e))),
                {Outcome(dr, elements[1])}, Tail(elements))

EnforceRootOfUnity(dr, a, k) ==
  Then(FoldLeft(LAMBDA acc, i : Then(acc, LAMBDA o : Mul(o.dr, o.out, o.out)),
                {Outcome(dr, a)}, [i \in 1 .. k |-> i]),
       LAMBDA o : EnforceZero(o.dr, SubElements(o.dr, o.out, One(o.dr))))
-----------------------------------------------------------------------------
(* Booleans.                                                               *)

(* Mutant of BooleanAlloc: the two wires need not add up to one.           *)
BooleanAllocLoose(dr, v) ==
  Then(GateCall(dr, Bit(v), Bit(~v), 0), LAMBDA g :
    Mapped(EnforceZeros(g.dr, << <<Term(g.out.c, 1)>> >>, BooleanOf(g.out.a, v)),
           LAMBDA d, b : [boolean |-> b, extra |-> g.out.extra]))
(* alloc: the boolean and its gate's extra token, for an allocator or the  *)
(* allocator (), which drops it.                                           *)
BooleanAlloc(dr, v) ==
  Then(GateCall(dr, Bit(v), Bit(~v), 0), LAMBDA g :
    Mapped(EnforceZeros(g.dr, << <<Term(g.out.c, 1)>>,
                                 <<Term(Ones(dr), 1), Term(g.out.a, -1), Term(g.out.b, -1)>> >>,
                        BooleanOf(g.out.a, v)),
           LAMBDA d, b : [boolean |-> b, extra |-> g.out.extra]))
BooleanDonating(dr, v) ==
  { Outcome(Donate(o.dr, o.out.extra), o.out.boolean) : o \in BooleanAlloc(dr, v) }
BooleanDropping(dr, v) == { Outcome(o.dr, o.out.boolean) : o \in BooleanAlloc(dr, v) }

Not(dr, b) == BooleanOf(AddWires(dr, <<Term(Ones(dr), 1), Term(b.wire, -1)>>), ~b.value)

And(dr, a, b) ==
  LET both == a.value /\ b.value
  IN  Then(GateCall(dr, Bit(a.value), Bit(b.value), Bit(both)), LAMBDA g :
        EnforceZeros(g.dr, <<Equal(g.out.a, a.wire), Equal(g.out.b, b.wire)>>,
                     BooleanOf(g.out.c, both)))

ConditionalSelect(dr, cond, a, b) ==           \* a when false, b when true
  Mapped(Mul(dr, AsElement(cond), SubElements(dr, b, a)),
         LAMBDA d, cond_times_diff : AddElements(d, a, cond_times_diff))

ConditionalEnforceEqual(dr, cond, a, b) ==
  Then(GateCall(dr, Bit(cond.value), Minus(a.value, b.value), 0), LAMBDA g :
    { Outcome(Donate(o.dr, g.out.extra), <<>>) : o \in
        EnforceZeros(g.dr, <<Equal(g.out.a, cond.wire),
                             <<Term(g.out.b, 1), Term(a.wire, -1), Term(b.wire, 1)>>,
                             <<Term(g.out.c, 1)>> >>, <<>>) })

(* x * is_zero = 0, then x * inv = 1 - is_zero.                            *)
IsZero(dr, x) ==
  LET is_zero == x.value = 0
  IN  Then(GateCall(dr, x.value, Bit(is_zero), 0), LAMBDA g :
      Then(EnforceZeros(g.dr, <<Equal(g.out.a, x.wire), <<Term(g.out.c, 1)>> >>, <<>>), LAMBDA one :
      Then(GateCall(Donate(one.dr, g.out.extra), x.value, Reciprocal(x.value), Bit(~is_zero)), LAMBDA h :
        EnforceZeros(h.dr, <<Equal(h.out.a, x.wire),
                             <<Term(h.out.c, 1), Term(Ones(dr), -1), Term(g.out.b, 1)>> >>,
                     BooleanOf(g.out.b, is_zero)))))
IsEqual(dr, a, b) == IsZero(dr, SubElements(dr, a, b))

(* multipack: little-endian, CAPACITY bits to an element.                  *)
CAPACITY == CHOOSE n \in 0 .. P : 2 ^ n <= P /\ P < 2 ^ (n + 1)
(* Mutant of Pack: the gain doubles before the bit it belongs to.          *)
PackGainFirst(dr, chunk) ==
  LET gains(wires) == LinearExpression(FoldLeft(LAMBDA lc, w : lc \o <<Gain(2), Term(w, 1)>>, <<>>, wires))
  IN  Element(WireOf(dr, gains([k \in DOMAIN chunk |-> chunk[k].wire])),
              gains([k \in DOMAIN chunk |-> Bit(chunk[k].value)]))
Pack(dr, chunk) ==
  LET gains(wires) == LinearExpression(FoldLeft(LAMBDA lc, w : lc \o <<Term(w, 1), Gain(2)>>, <<>>, wires))
  IN  Element(WireOf(dr, gains([k \in DOMAIN chunk |-> chunk[k].wire])),
              gains([k \in DOMAIN chunk |-> Bit(chunk[k].value)]))
Multipack(dr, bits) ==
  LET chunks == (Len(bits) + CAPACITY - 1) \div CAPACITY
      end(k) == IF k * CAPACITY < Len(bits) THEN k * CAPACITY ELSE Len(bits)
  IN  [k \in 1 .. chunks |-> Pack(dr, SubSeq(bits, ((k - 1) * CAPACITY) + 1, end(k)))]
-----------------------------------------------------------------------------
(* Points of the curve; "infinity" cannot be witnessed.                    *)
OnCurve(x, y) == Plus(Times(Square(x), x), CURVE_B) = Square(y)
Affine   == { p \in F \X F : OnCurve(p[1], p[2]) }

(* Mutant of PointAlloc: the curve equation is not enforced.               *)
PointAllocAnywhere(dr, p) ==
  LET known == TryJust(dr, p # <<>>, "point at infinity cannot be witnessed")
      at    == IF p = <<>> THEN <<0, 0>> ELSE p
  IN  Then(AllocSquare(known, at[1]), LAMBDA x :
      Mapped(AllocSquare(x.dr, at[2]), LAMBDA d, y : Point(x.out[1], y[1])))
PointAlloc(dr, p) ==
  LET known == TryJust(dr, p # <<>>, "point at infinity cannot be witnessed")
      at    == IF p = <<>> THEN <<0, 0>> ELSE p
  IN  Then(AllocSquare(known, at[1]), LAMBDA x :
      Then(Mul(x.dr, x.out[1], x.out[2]), LAMBDA x3 :
      Then(AllocSquare(x3.dr, at[2]), LAMBDA y :
        EnforceZeros(y.dr, << <<Term(x3.out.wire, 1), Term(Ones(dr), CURVE_B), Term(y.out[2].wire, -1)>> >>,
                     Point(x.out[1], y.out[1])))))

PointConstant(dr, p) ==
  IF p = <<>> THEN {Outcome(Fail(dr, "point at infinity cannot be witnessed"),
                            Point(Constant(dr, 0), Constant(dr, 0)))}
  ELSE {Outcome(dr, Point(Constant(dr, p[1]), Constant(dr, p[2])))}

Endo(dr, p)        == Point(Scale(dr, p.x, ZETA), p.y)
NegatePoint(dr, p) == Point(p.x, Negated(dr, p.y))
CondEndo(dr, p, cond) ==
  Mapped(ConditionalSelect(dr, cond, p.x, Scale(dr, p.x, ZETA)), LAMBDA d, x : Point(x, p.y))
CondNegate(dr, p, cond) ==
  Mapped(ConditionalSelect(dr, cond, p.y, Negated(dr, p.y)), LAMBDA d, y : Point(p.x, y))

(* The point on the line of slope delta through a and b, negated.          *)
ThirdPoint(dr, delta, a, b) ==
  Then(Mul(dr, delta, delta), LAMBDA dd :
    LET x3 == SubElements(dr, SubElements(dr, dd.out, a.x), b.x)
    IN  Mapped(Mul(dd.dr, delta, SubElements(dr, a.x, x3)),
               LAMBDA d, m : Point(x3, SubElements(d, m, a.y))))

DoublePoint(dr, p) ==
  Then(Mul(dr, p.x, p.x), LAMBDA xx :
  Then(DivNonzero(xx.dr, Scale(dr, xx.out, 3), Doubled(dr, p.y)), LAMBDA delta :
    ThirdPoint(delta.dr, delta.out, p, p)))

(* add_incomplete: an accumulator, if there is one, takes the factor       *)
(* x1 - x0.  Answers the sum and the accumulator.                          *)
AddIncomplete(dr, p, q, nonzero) ==
  LET tmp == SubElements(dr, q.x, p.x)
  IN  Then(IF nonzero = <<>> THEN {Outcome(dr, <<>>)}
           ELSE Mapped(Mul(dr, nonzero[1], tmp), LAMBDA d, acc : <<acc>>), LAMBDA acc :
      Then(DivNonzero(acc.dr, SubElements(dr, q.y, p.y), tmp), LAMBDA delta :
        Mapped(ThirdPoint(delta.dr, delta.out, p, q), LAMBDA d, sum : <<sum>> \o acc.out)))

DoubleAndAddIncomplete(dr, p, q) ==            \* [2] p + q
  Then(DivNonzero(dr, SubElements(dr, q.y, p.y), SubElements(dr, q.x, p.x)), LAMBDA l1 :
  Then(Mul(l1.dr, l1.out, l1.out), LAMBDA sq :
    LET x_r == SubElements(dr, SubElements(dr, sq.out, p.x), q.x)
    IN  Then(DivNonzero(sq.dr, Doubled(dr, p.y), SubElements(dr, p.x, x_r)), LAMBDA quotient :
          LET l2 == SubElements(dr, quotient.out, l1.out)
          IN  Then(Mul(quotient.dr, l2, l2), LAMBDA sq2 :
                LET x_s == SubElements(dr, SubElements(dr, sq2.out, x_r), p.x)
                IN  Mapped(Mul(sq2.dr, l2, SubElements(dr, p.x, x_s)),
                           LAMBDA d, m : Point(x_s, SubElements(d, m, p.y)))))))
-----------------------------------------------------------------------------
(* Endoscalars: demoted booleans, wires without values, and the value.     *)
EndoscalarOf(bits, value) == [kind |-> "endoscalar", bits |-> bits, value |-> value]
DemotedOf(b)    == [kind |-> "demoted", wire |-> b.wire]
PromoteWith(d, v) == BooleanOf(d.wire, v)
BitsOf(endo)    == [i \in 1 .. BITS |-> PromoteWith(endo.bits[i], endo.value[i])]

Sequentially(dr, n, Step(_, _)) ==             \* for i in 0..n, collecting
  FoldLeft(LAMBDA acc, i :
             Then(acc, LAMBDA o : Mapped(Step(o.dr, i), LAMBDA d, g : Append(o.out, g))),
           {Outcome(dr, <<>>)}, [i \in 1 .. n |-> i])

EndoscalarAlloc(dr, value) ==
  Mapped(Sequentially(dr, BITS, LAMBDA d, i : Mapped(BooleanDropping(d, value[i]), LAMBDA e, b : DemotedOf(b))),
         LAMBDA d, bits : EndoscalarOf(bits, value))

(* extract: bit i says whether elem + i is a square, shown by its root or  *)
(* by the root of its product with the generator.                          *)
ExtractEndoscalar(dr, elem) ==
  LET shifted(i) == Plus(elem.value, (i - 1) % P)
      bit(i)     == IsSquare(shifted(i))
      root(i)    == CHOOSE r \in F : Square(r) = Times(shifted(i), IF bit(i) THEN 1 ELSE GENERATOR)
      one(d, i)  ==
        Then(BooleanDonating(d, bit(i)), LAMBDA b :
        Then(AllocSquare(b.dr, root(i)), LAMBDA sq :
        Then(Mul(sq.dr, elem, AsElement(b.out)), LAMBDA vb :
          EnforceZeros(vb.dr, << << Term(Ones(dr), (i - 1) * GENERATOR),
                                    Term(b.out.wire, (i - 1) * (1 - GENERATOR)),
                                    Term(elem.wire, GENERATOR),
                                    Term(vb.out.wire, 1 - GENERATOR),
                                    Term(sq.out[2].wire, -1) >> >>, DemotedOf(b.out)))))
  IN  Mapped(Sequentially(dr, BITS, one),
             LAMBDA d, bits : EndoscalarOf(bits, [i \in 1 .. BITS |-> bit(i)]))

GroupScaled(dr, endo, p) ==
  LET bits == BitsOf(endo)
      start == Then(AddIncomplete(dr, Endo(dr, p), p, <<>>), LAMBDA s : DoublePoint(s.dr, s.out[1]))
  IN  FoldLeft(LAMBDA acc, i :
                 Then(acc, LAMBDA o :
                 Then(CondNegate(o.dr, p, bits[(2 * i) - 1]), LAMBDA n :
                 Then(CondEndo(n.dr, n.out, bits[2 * i]), LAMBDA q :
                   DoubleAndAddIncomplete(q.dr, o.out, q.out)))),
               start, Pairs)

(* Mutant of LiftElement: the leading terms are not doubled.               *)
LiftElementOnce(dr, endo) ==
  LET bits == BitsOf(endo)
      step(acc, i) ==
        Then(acc, LAMBDA o : Mapped(And(o.dr, bits[(2 * i) - 1], bits[2 * i]), LAMBDA d, ne :
          [acc |-> Linear(d, << o.out.acc, AsElement(bits[(2 * i) - 1]), AsElement(bits[2 * i]), AsElement(ne) >>,
                             << 2, -2, ZETA - 1, 2 * (1 - ZETA) >>),
           constant_term |-> Plus(Times(2, o.out.constant_term), 1)]))
  IN  Mapped(FoldLeft(step, {Outcome(dr, [acc |-> Constant(dr, 0), constant_term |-> (ZETA + 1) % P])}, Pairs),
             LAMBDA d, last : AddElements(d, last.acc, Constant(d, last.constant_term)))
LiftElement(dr, endo) ==
  LET bits == BitsOf(endo)
      step(acc, i) ==
        Then(acc, LAMBDA o : Mapped(And(o.dr, bits[(2 * i) - 1], bits[2 * i]), LAMBDA d, ne :
          [acc |-> Linear(d, << o.out.acc, AsElement(bits[(2 * i) - 1]), AsElement(bits[2 * i]), AsElement(ne) >>,
                             << 2, -2, ZETA - 1, 2 * (1 - ZETA) >>),
           constant_term |-> Plus(Times(2, o.out.constant_term), 1)]))
  IN  Mapped(FoldLeft(step, {Outcome(dr, [acc |-> Constant(dr, 0), constant_term |-> (2 * (ZETA + 1)) % P])}, Pairs),
             LAMBDA d, last : AddElements(d, last.acc, Constant(d, last.constant_term)))
-----------------------------------------------------------------------------
(* Composition.  Pairs, arrays, boxes, FixedVec and derived structs are    *)
(* gadgets in order; WithSuffix adds an element; () is no gadget at all.   *)
Composite(parts)       == [kind |-> "composite", parts |-> parts]
WithSuffix(inner, suf) == [kind |-> "suffix", parts |-> <<inner, suf>>]
Unit                   == Composite(<<>>)

FixedVec(dr, len, parts) ==
  Outcome(IF Len(parts) = len THEN dr ELSE Fail(dr, "vector length mismatch"), Composite(parts))

Parts(g) == CASE g.kind = "point"      -> <<g.x, g.y>>
              [] g.kind = "endoscalar" -> g.bits
              [] OTHER                 -> g.parts
Leaf(g)  == g.kind \in {"element", "boolean", "demoted"}

(* map_gadget visits the wires in one order, and puts others in their      *)
(* place in that order.                                                    *)
RECURSIVE WiresOf(_)
WiresOf(g) == IF Leaf(g) THEN <<g.wire>> ELSE FlattenSeq([k \in DOMAIN Parts(g) |-> WiresOf(Parts(g)[k])])
NumWires(g) == Len(WiresOf(g))

RECURSIVE Rewired(_, _)
Rewired(g, wires) ==
  LET parts   == Parts(g)
      from(k) == FoldLeft(LAMBDA n, j : n + NumWires(parts[j]), 0, [j \in 1 .. k - 1 |-> j])
      part(k) == Rewired(parts[k], SubSeq(wires, from(k) + 1, from(k) + NumWires(parts[k])))
      mapped  == [k \in DOMAIN parts |-> part(k)]
  IN  CASE Leaf(g)               -> [g EXCEPT !.wire = wires[1]]
        [] g.kind = "point"      -> Point(mapped[1], mapped[2])
        [] g.kind = "endoscalar" -> [g EXCEPT !.bits = mapped]
        [] OTHER                 -> [g EXCEPT !.parts = mapped]

CloneWires(g) == Rewired(g, WiresOf(g))
StripWires(g) == Rewired(g, [k \in 1 .. NumWires(g) |-> 0])

EnforceEqualGadgets(dr, a, b) ==
  EnforceZeros(dr, [k \in 1 .. NumWires(a) |-> Equal(WiresOf(a)[k], WiresOf(b)[k])], <<>>)

(* write_gadget: the elements of a gadget, in order.                       *)
RECURSIVE Written(_)
Written(g) == CASE g.kind = "element" -> <<g>>
                [] g.kind = "boolean" -> <<AsElement(g)>>
                [] OTHER -> FlattenSeq([k \in DOMAIN Parts(g) |-> Written(Parts(g)[k])])

(* Pipe: each element written to one driver is allocated in another.       *)
Piped(dr, elements) == Sequentially(dr, Len(elements), LAMBDA d, k : ElementAlloc(d, elements[k].value))

(* Mutant of EnforceConsistent: a boolean does not restore its invariant.  *)
RECURSIVE ConsistentButBooleans(_, _)
ConsistentButBooleans(dr, g) ==
  CASE g.kind \in {"element", "boolean"} -> {Outcome(dr, <<>>)}
    [] g.kind = "point" -> Then(PointAlloc(dr, <<g.x.value, g.y.value>>),
                                LAMBDA o : EnforceEqualGadgets(o.dr, o.out, g))
    [] OTHER -> FoldLeft(LAMBDA acc, part : Then(acc, LAMBDA o : ConsistentButBooleans(o.dr, part)),
                         {Outcome(dr, <<>>)}, Parts(g))
(* enforce_consistent: allocate the gadget afresh and hold it to its wires *)
(* (not for demoted gadgets, which have no value to allocate).             *)
RECURSIVE EnforceConsistent(_, _)
EnforceConsistent(dr, g) ==
  CASE g.kind = "element" -> {Outcome(dr, <<>>)}
    [] g.kind = "boolean" -> Then(BooleanDropping(dr, g.value), LAMBDA o : EnforceEqualGadgets(o.dr, o.out, g))
    [] g.kind = "point" -> Then(PointAlloc(dr, <<g.x.value, g.y.value>>),
                                LAMBDA o : EnforceEqualGadgets(o.dr, o.out, g))
    [] OTHER -> FoldLeft(LAMBDA acc, part : Then(acc, LAMBDA o : EnforceConsistent(o.dr, part)),
                         {Outcome(dr, <<>>)}, Parts(g))

(* A routine: predicted on stripped wires by a wireless emulator; only     *)
(* another wireless emulator takes the output predicted, the others        *)
(* execute with the predicted auxiliary value.                             *)
PredictInverse(input) ==
  LET dr == TryJust(NewDriver("wireless", "()"), input.value # 0, "division by zero")
  IN  [err |-> dr.err, output |-> Element(0, Reciprocal(input.value)), aux |-> Reciprocal(input.value)]
(* Mutant of CallRoutine: every driver takes the output predicted.         *)
CallRoutinePredicted(dr, input) ==
  LET prediction == PredictInverse(StripWires(input))
  IN  {Outcome(TryJust(dr, prediction.err = "ok", prediction.err), prediction.output)}
CallRoutine(dr, input) ==
  LET prediction == PredictInverse(StripWires(input))
      predicted  == TryJust(dr, prediction.err = "ok", prediction.err)
  IN  IF dr.kind = "wireless" THEN {Outcome(predicted, prediction.output)}
      ELSE InvertWith(predicted, input, prediction.aux)
=============================================================================
