----------------------------- MODULE MCGadgets -----------------------------
(***************************************************************************)
(* Scripts of gadget operations, run under the three honest drivers in     *)
(* lockstep with the set of all assignments that satisfy the circuit so    *)
(* far: the field of seven elements and the curve y^2 = x^3 + 3 over it, a *)
(* group of thirteen points.  A register holds a gadget; an operation      *)
(* names the registers it takes and appends those it makes.                *)
(***************************************************************************)
EXTENDS Gadgets
LOCAL INSTANCE SequencesExt

CONSTANT Scripts         \* name -> the operations, in order
ASSUME ScriptsAssumption ==
  \A name \in DOMAIN Scripts : \A k \in DOMAIN Scripts[name] :
    Scripts[name][k].args \in Seq(Nat \ {0})

VARIABLES script,        \* the name of the script that runs
          pc,            \* its next operation
          runs,          \* honest driver -> its state and registers
          circuit,       \* the satisfying assignments, as driver and registers
          made,          \* operation -> the first register it made
          loose          \* an operation was used outside its documented domain

vars == <<script, pc, runs, circuit, made, loose>>

Ops       == Scripts[script]
Doing(op) == pc <= Len(Ops) /\ Ops[pc].op = op
             /\ (runs["simulator"].dr.err = "ok" \/ circuit # {})
Regs      == runs["simulator"].regs
Err(d)    == runs[d].dr.err
Taking(regs) == [k \in DOMAIN Ops[pc].args |-> regs[Ops[pc].args[k]]]
Extended(run, o) == [dr |-> o.dr, regs |-> run.regs \o o.out]
Only(outcomes) == CHOOSE o \in outcomes : TRUE

(* Whether wires stand for a value of their gadget at all.                 *)
RECURSIVE Valid(_)
Valid(g) == CASE g.kind = "element" -> TRUE
              [] g.kind \in {"boolean", "demoted"} -> g.wire \in {0, 1}
              [] g.kind = "point" -> OnCurve(g.x.wire, g.y.wire)
              [] OTHER -> \A k \in DOMAIN Parts(g) : Valid(Parts(g)[k])

Init ==
  /\ script \in DOMAIN Scripts /\ pc = 1 /\ made = <<>> /\ loose = FALSE
  /\ \E a \in Allocators :
       /\ runs = [d \in Honest |-> [dr |-> NewDriver(d, a), regs |-> <<>>]]
       /\ circuit = {[dr |-> NewDriver("circuit", a), regs |-> <<>>]}

(* The next operation, under every driver.  Of the assignments, those      *)
(* Kept: an input's wires are the honest ones, or stand for no value.      *)
Perform(G(_, _), Kept(_)) ==
  LET after(run) == { Extended(run, o) : o \in G(run.dr, Taking(run.regs)) }
  IN  /\ runs' = [d \in Honest |-> Only(after(runs[d]))]
      /\ circuit' = { w \in UNION { after(w) : w \in circuit } : w.dr.err = "ok" /\ Kept(w) }
      /\ pc' = pc + 1 /\ made' = Append(made, Len(Regs) + 1) /\ UNCHANGED script

(* The last gadget of an assignment is the honest one, or none at all.     *)
Same(w) == LET g == Last(w.regs)
           IN  ~Valid(g) \/ WiresOf(g) = WiresOf(Last(runs'["simulator"].regs))

Apply(op, G(_, _)) == Doing(op) /\ Perform(G, LAMBDA w : TRUE) /\ UNCHANGED loose
Give(op, values, G(_, _, _)) ==
  Doing(op) /\ (\E v \in values : Perform(LAMBDA dr, a : G(dr, a, v), Same)) /\ UNCHANGED loose
(* Where a denominator may be zero the quotient may be unconstrained.      *)
Divide(op, G(_, _)) ==
  /\ Doing(op) /\ Perform(G, LAMBDA w : TRUE)
  /\ loose' = (loose \/ runs'["simulator"].dr.err = "division by zero")

Made(outcomes) == Mapped(outcomes, LAMBDA d, g : <<g>>)
Now(dr, g)     == {Outcome(dr, <<g>>)}
-----------------------------------------------------------------------------
Alloc        == Give("Alloc", F, LAMBDA dr, a, v : Made(ElementAlloc(dr, v)))
AllocSq      == Give("AllocSquare", F, LAMBDA dr, a, v :
                  Mapped(AllocSquare(dr, v), LAMBDA d, pair : Reverse(pair)))
MakeConstant == Apply("Constant", LAMBDA dr, a : Now(dr, Constant(dr, 5)))
MakeOne      == Apply("One", LAMBDA dr, a : Now(dr, One(dr)))
Multiply     == Apply("Mul", LAMBDA dr, a : Made(Mul(dr, a[1], a[2])))
Combine      == Apply("Linear", LAMBDA dr, a : {Outcome(dr,
                  <<AddElements(dr, a[1], a[2]), SubElements(dr, a[1], a[2]), AddCoeff(dr, a[1], a[2], 3),
                    Scale(dr, a[1], 5), Negated(dr, a[2]), Doubled(dr, a[2]), SumElements(dr, a),
                    Linear(dr, a, <<4, 6>>) >>)})
Fold         == Apply("Fold", LAMBDA dr, a : Made(FoldElements(dr, Front(a), Last(a))))
Inversion    == Apply("Invert", LAMBDA dr, a : Made(Invert(dr, a[1])))
(* The caller's inverse may be wrong, but not where there is none.         *)
InverseGiven == /\ Doing("InvertWith")
                /\ \E v \in F :
                     /\ Perform(LAMBDA dr, a : Made(InvertWith(dr, a[1], v)), LAMBDA w : TRUE)
                     /\ loose' = (Taking(Regs)[1].value # 0 /\ Times(Taking(Regs)[1].value, v) # 1)
Quotient     == Divide("DivNonzero", LAMBDA dr, a : Made(DivNonzero(dr, a[1], a[2])))
Routine      == Apply("Routine", LAMBDA dr, a : Made(CallRoutine(dr, a[1])))
ForceZero    == Apply("EnforceZero", LAMBDA dr, a : EnforceZero(dr, a[1]))
ForceRoot    == Apply("EnforceRootOfUnity", LAMBDA dr, a : EnforceRootOfUnity(dr, a[1], 1))
AllocBit     == Give("BooleanAlloc", BOOLEAN, LAMBDA dr, a, v : Made(BooleanDonating(dr, v)))
Complement   == Apply("Not", LAMBDA dr, a : Now(dr, Not(dr, a[1])))
Conjunction  == Apply("And", LAMBDA dr, a : Made(And(dr, a[1], a[2])))
Select       == Apply("ConditionalSelect", LAMBDA dr, a : Made(ConditionalSelect(dr, a[1], a[2], a[3])))
ForceEqualIf == Apply("ConditionalEnforceEqual", LAMBDA dr, a : ConditionalEnforceEqual(dr, a[1], a[2], a[3]))
Zero         == Apply("IsZero", LAMBDA dr, a : Made(IsZero(dr, a[1])))
Equals       == Apply("IsEqual", LAMBDA dr, a : Made(IsEqual(dr, a[1], a[2])))
PackBits     == Apply("Multipack", LAMBDA dr, a : {Outcome(dr, Multipack(dr, a))})
AllocPoint   == Give("PointAlloc", Affine \union {<<>>}, LAMBDA dr, a, v : Made(PointAlloc(dr, v)))
FixedPoint   == Give("PointConstant", Affine \union {<<>>}, LAMBDA dr, a, v : Made(PointConstant(dr, v)))
Endomorphism == Apply("Endo", LAMBDA dr, a : Now(dr, Endo(dr, a[1])))
Negation     == Apply("NegatePoint", LAMBDA dr, a : Now(dr, NegatePoint(dr, a[1])))
EndoIf       == Apply("CondEndo", LAMBDA dr, a : Made(CondEndo(dr, a[1], a[2])))
NegateIf     == Apply("CondNegate", LAMBDA dr, a : Made(CondNegate(dr, a[1], a[2])))
TwiceAPoint  == Divide("DoublePoint", LAMBDA dr, a : Made(DoublePoint(dr, a[1])))
AddPoints    == Divide("AddIncomplete", LAMBDA dr, a : AddIncomplete(dr, a[1], a[2], SubSeq(a, 3, Len(a))))
TwiceAndAdd  == Divide("DoubleAndAdd", LAMBDA dr, a : Made(DoubleAndAddIncomplete(dr, a[1], a[2])))
AllocEndo    == Give("EndoscalarAlloc", [1 .. BITS -> BOOLEAN], LAMBDA dr, a, v : Made(EndoscalarAlloc(dr, v)))
(* The bit of a zero is not determined: both roots are zero.               *)
ExtractEndo  == /\ Doing("Extract")
                /\ Perform(LAMBDA dr, a : Made(ExtractEndoscalar(dr, a[1])), LAMBDA w : TRUE)
                /\ loose' = (loose \/ \E i \in 0 .. BITS - 1 : Plus(Taking(Regs)[1].value, i) = 0)
ScaleByEndo  == Divide("GroupScale", LAMBDA dr, a : Made(GroupScaled(dr, a[1], a[2])))
LiftEndo     == Apply("Lift", LAMBDA dr, a : Made(LiftElement(dr, a[1])))
Demote       == Apply("Demote", LAMBDA dr, a : Now(dr, DemotedOf(CloneWires(a[1]))))
Promote      == Apply("Promote", LAMBDA dr, a : Now(dr, PromoteWith(a[1], a[2].value)))
Compose      == Apply("Compose", LAMBDA dr, a : Now(dr, Composite(a)))
Suffix       == Apply("WithSuffix", LAMBDA dr, a : Now(dr, WithSuffix(a[1], a[2])))
Vector       == Apply("FixedVec", LAMBDA dr, a : LET v == FixedVec(dr, 2, a) IN Now(v.dr, v.out))
Write        == Apply("Write", LAMBDA dr, a : {Outcome(dr, Written(a[1]))})
Pipe         == /\ Doing("Pipe") /\ UNCHANGED loose
                /\ Perform(LAMBDA dr, a : Made(Mapped(Piped(dr, Written(a[1])), LAMBDA d, es : Composite(es))),
                           Same)
ForceEqual   == Apply("EnforceEqual", LAMBDA dr, a : EnforceEqualGadgets(dr, a[1], a[2]))

(* A stage's output, on wires of its own, has its invariants restored: the *)
(* honest wires, but for one of them.                                      *)
Substituted(dr, g) ==
  IF dr.kind # "circuit" THEN {g}
  ELSE { Rewired(g, [WiresOf(g) EXCEPT ![k] = v]) : k \in 1 .. NumWires(g), v \in F }
Restore      == /\ Doing("Enforced") /\ UNCHANGED loose
                /\ Perform(LAMBDA dr, a : UNION { Mapped(EnforceConsistent(dr, g), LAMBDA d, o : <<g>>)
                                                  : g \in Substituted(dr, a[1]) }, Same)

Next == \/ Alloc \/ AllocSq \/ MakeConstant \/ MakeOne \/ Multiply \/ Combine \/ Fold \/ Inversion
        \/ InverseGiven \/ Quotient \/ Routine \/ ForceZero \/ ForceRoot \/ AllocBit \/ Complement
        \/ Conjunction \/ Select \/ ForceEqualIf \/ Zero \/ Equals \/ PackBits \/ AllocPoint
        \/ FixedPoint \/ Endomorphism \/ Negation \/ EndoIf \/ NegateIf \/ TwiceAPoint \/ AddPoints
        \/ TwiceAndAdd \/ AllocEndo \/ ExtractEndo \/ ScaleByEndo \/ LiftEndo \/ Demote \/ Promote
        \/ Compose \/ Suffix \/ Vector \/ Write \/ Pipe \/ ForceEqual \/ Restore
Spec == Init /\ [][Next]_vars
-----------------------------------------------------------------------------
Op(name, args) == [op |-> name, args |-> args]
MCScripts ==
  [arithmetic |-> << Op("Alloc", <<>>), Op("Alloc", <<>>), Op("Mul", <<1, 2>>), Op("Linear", <<1, 2>>),
                     Op("Constant", <<>>), Op("Fold", <<1, 3, 12, 2>>) >>,
   inverses   |-> << Op("Alloc", <<>>), Op("Alloc", <<>>), Op("DivNonzero", <<1, 2>>), Op("Invert", <<2>>),
                     Op("Routine", <<1>>) >>,
   given      |-> << Op("Alloc", <<>>), Op("InvertWith", <<1>>), Op("Mul", <<1, 2>>) >>,
   equalities |-> << Op("Alloc", <<>>), Op("Alloc", <<>>), Op("IsEqual", <<1, 2>>), Op("Alloc", <<>>),
                     Op("ConditionalEnforceEqual", <<3, 1, 2>>), Op("IsZero", <<4>>), Op("And", <<3, 5>>),
                     Op("ConditionalSelect", <<6, 1, 4>>) >>,
   conditions |-> << Op("BooleanAlloc", <<>>), Op("Alloc", <<>>), Op("Alloc", <<>>), Op("Not", <<1>>),
                     Op("ConditionalSelect", <<4, 2, 3>>), Op("ConditionalEnforceEqual", <<1, 2, 3>>) >>,
   packing    |-> << Op("BooleanAlloc", <<>>), Op("BooleanAlloc", <<>>), Op("BooleanAlloc", <<>>),
                     Op("Multipack", <<1, 2, 3>>), Op("EnforceEqual", <<1, 3>>) >>,
   roots      |-> << Op("AllocSquare", <<>>), Op("EnforceRootOfUnity", <<2>>), Op("One", <<>>),
                     Op("Linear", <<3, 2>>), Op("EnforceZero", <<5>>) >>,
   points     |-> << Op("PointAlloc", <<>>), Op("BooleanAlloc", <<>>), Op("DoublePoint", <<1>>),
                     Op("CondNegate", <<3, 2>>), Op("CondEndo", <<1, 2>>), Op("Endo", <<1>>),
                     Op("NegatePoint", <<3>>), Op("PointConstant", <<>>) >>,
   additions  |-> << Op("PointAlloc", <<>>), Op("PointAlloc", <<>>), Op("AddIncomplete", <<1, 2>>),
                     Op("DoubleAndAdd", <<1, 2>>) >>,
   certified  |-> << Op("One", <<>>), Op("PointAlloc", <<>>), Op("PointAlloc", <<>>),
                     Op("AddIncomplete", <<2, 3, 1>>), Op("AddIncomplete", <<4, 3, 5>>), Op("Invert", <<7>>) >>,
   scaling    |-> << Op("PointAlloc", <<>>), Op("EndoscalarAlloc", <<>>), Op("GroupScale", <<2, 1>>),
                     Op("Lift", <<2>>) >>,
   extraction |-> << Op("Alloc", <<>>), Op("Extract", <<1>>), Op("Lift", <<2>>) >>,
   compounds  |-> << Op("BooleanAlloc", <<>>), Op("PointAlloc", <<>>), Op("Compose", <<1, 2>>),
                     Op("Enforced", <<3>>), Op("EnforceEqual", <<3, 4>>), Op("Alloc", <<>>),
                     Op("FixedVec", <<3, 1>>), Op("WithSuffix", <<3, 5>>), Op("Write", <<7>>), Op("Pipe", <<2>>),
                     Op("Demote", <<1>>), Op("Promote", <<13, 1>>), Op("FixedVec", <<1>>) >>]
-----------------------------------------------------------------------------
(* A gadget's constraints say what its witness code computes: when the     *)
(* honest run succeeds the circuit is satisfiable, with nothing but the    *)
(* honest wires in every register; when it fails so does the circuit,      *)
(* unless a zero denominator was documented as the caller's business, and  *)
(* even then once the accumulator of add_incomplete is inverted            *)
(* (element.rs:272, point.rs:155, boolean.rs:165).                         *)
CircuitsMeanTheirWitness ==
  /\ Err("simulator") = "ok" => circuit # {}
  /\ Err("simulator") = "ok" /\ ~loose =>
       \A w \in circuit : \A k \in DOMAIN Regs : WiresOf(w.regs[k]) = WiresOf(Regs[k])
  /\ Err("simulator") # "ok" /\ circuit # {} => loose
  /\ script = "certified" /\ pc > Len(Ops) /\ circuit # {} => Err("simulator") = "ok"

(* The emulators compute what the simulator does: the same gadgets with    *)
(* wires, their witness values without; a witness either cannot compute,   *)
(* none can (emulator.rs, simulator.rs).  A wire holds the value beside    *)
(* it, and writing keeps to the order of the wires (io.rs, foreign.rs).    *)
EmulatorsAgree ==
  /\ Err("wired") = Err("wireless")
  /\ Err("wired") # "ok" => Err("simulator") # "ok"
  /\ Err("simulator") = "ok" =>
       /\ runs["wired"].regs = Regs
       /\ runs["wireless"].regs = [k \in DOMAIN Regs |-> StripWires(Regs[k])]
       /\ \A k \in DOMAIN Regs : Regs[k].kind \notin {"demoted", "endoscalar"} =>
            WiresOf(Regs[k]) = [e \in DOMAIN Written(Regs[k]) |-> Written(Regs[k])[e].value]

(* The group, by multiples of one point.                                   *)
Generator == CHOOSE p \in Affine : TRUE
AddAffine(p, q) ==
  CASE p = <<>> -> q
    [] q = <<>> -> p
    [] p # <<>> /\ q # <<>> /\ p[1] = q[1] /\ p[2] # q[2] -> <<>>
    [] OTHER -> LET delta == IF p = q THEN Times(Times(3, Square(p[1])), Reciprocal(Plus(p[2], p[2])))
                             ELSE Times(Minus(q[2], p[2]), Reciprocal(Minus(q[1], p[1])))
                    x == Minus(Minus(Square(delta), p[1]), q[1])
                IN  << x, Minus(Times(delta, Minus(p[1], x)), p[2]) >>
Order == 13
Multiples[k \in 0 .. Order - 1] == IF k = 0 THEN <<>> ELSE AddAffine(Multiples[k - 1], Generator)
Logs   == [p \in Affine |-> CHOOSE k \in 1 .. Order - 1 : Multiples[k] = p]
Log(g) == Logs[<<g.x.value, g.y.value>>]
Lambda == Logs[<<Times(ZETA, Generator[1]), Generator[2]>>]
Scalars == INSTANCE Endoscalar WITH P <- Order, ZETA <- Lambda, GENERATOR <- 2, S <- 2, ROOT <- 5

(* What operation k promises of the registers it took and made.            *)
Promised(k) ==
  LET a   == [j \in DOMAIN Ops[k].args |-> Regs[Ops[k].args[j]]]
      out == Regs[made[k]]
      is(n) == Log(out) = n % Order
      op  == Ops[k].op
  IN  CASE op = "DoublePoint"   -> is(2 * Log(a[1]))
        [] op = "AddIncomplete" -> is(Log(a[1]) + Log(a[2]))
        [] op = "DoubleAndAdd"  -> is((2 * Log(a[1])) + Log(a[2]))
        [] op = "NegatePoint"   -> is(Order - Log(a[1]))
        [] op = "Endo"          -> is(Lambda * Log(a[1]))
        [] op = "CondNegate"    -> is(Log(a[1]) * (IF a[2].value THEN Order - 1 ELSE 1))
        [] op = "CondEndo"      -> is(Log(a[1]) * (IF a[2].value THEN Lambda ELSE 1))
        [] op = "GroupScale"    -> is(Scalars!LiftNative(a[1].value) * Log(a[2]))
        [] op = "Lift"          -> out.value = LiftNative(a[1].value)
        [] op = "Extract"       -> out.value = Extract(a[1].value)
        [] op = "Fold"          -> out.value = EvalPoly(Reverse([j \in 1 .. Len(a) - 1 |-> a[j].value]), Last(a).value)
        [] op = "IsEqual"       -> out.value = (a[1].value = a[2].value)
        [] op = "ConditionalSelect" -> out.value = a[IF a[1].value THEN 3 ELSE 2].value
        [] op = "Multipack"     -> <<out.value, Regs[made[k] + 1].value>> =
                                     << Bit(a[1].value) + (2 * Bit(a[2].value)), Bit(a[3].value) >>
        [] OTHER -> TRUE

(* The values are right: points follow the group law, the endomorphism     *)
(* multiplies by a root of one, an endoscalar scales a point by what it    *)
(* lifts to in the field of scalars, folds are polynomials in Horner form  *)
(* (point.rs, endoscalar.rs:154-236, element.rs fold, boolean.rs).         *)
GadgetsCompute == Err("simulator") = "ok" => \A k \in DOMAIN made : Promised(k)
=============================================================================
