------------------------------ MODULE Staging -------------------------------
(***************************************************************************)
(* Multi-stage circuits (staging/mod.rs, builder.rs, rx_driver.rs,         *)
(* bonding.rs) and the allocators that lay their wires out (allocator.rs). *)
(*                                                                         *)
(* A driver is the list of its gates; a physical wire is <<gate, slot>>,   *)
(* gates from 0, and ONE is the SYSTEM gate's d.  A stage is [values,      *)
(* wires]: the values it reserves and the wires its gadget has.  A         *)
(* constraint is a sequence of terms <<wire, coefficient>>, with the       *)
(* virtual wires written out.                                              *)
(***************************************************************************)
EXTENDS SparsePoly
LOCAL INSTANCE SequencesExt

CONSTANTS StageTypes,        \* the stages a circuit may be made of
          MaxStages,
          MaxBody,           \* driver calls after finish
          Alpha,             \* a stage polynomial's alpha
          Witnesses          \* the values a stage's gadget may be of
ASSUME StagingAssumption == /\ StageTypes \subseteq [values : Nat, wires : Nat]
                            /\ MaxStages \in Nat /\ MaxBody \in Nat
                            /\ Alpha \in F /\ Witnesses \subseteq Seq(F)

VARIABLES stages,            \* the stages added, parent first
          guards,            \* their stage wires
          gates,             \* the circuit driver's gates, witness values
          pool,              \* Standard's pool in the circuit's body
          handed,            \* the wires the body's allocator handed out
          body,              \* driver calls made in the body
          constraints,       \* the constraints the body emitted
          virtual,           \* virtual wires: their linear combinations
          error,             \* BondingValidator::error, or "none"
          phase              \* "stages", "body" or "refused"
vars == <<stages, guards, gates, pool, handed, body, constraints, virtual, error, phase>>

ONE == <<0, "d">>
Gate(a, b, c) == [a |-> a, b |-> b, c |-> c, d |-> 0]
-----------------------------------------------------------------------------
(* Allocators, over [gates, pool, wire]: the wire just handed out.  The    *)
(* token of a gate is its index.                                           *)
NewAllocator(g) == [gates |-> g, pool |-> <<>>, wire |-> ONE]
AssignExtra(g, extra, v) == [g EXCEPT ![extra + 1].d = v]

Newest(tokens) == tokens[Len(tokens)]
Others(tokens) == SubSeq(tokens, 1, Len(tokens) - 1)

(* Mutant of AllocStandard: a token stays in the pool after its use.       *)
AllocKeepsToken(s, v) ==
  IF s.pool # <<>>
    THEN [s EXCEPT !.gates = AssignExtra(@, Newest(s.pool), v), !.wire = <<Newest(s.pool), "d">>]
    ELSE [gates |-> Append(s.gates, Gate(v, 0, 0)), pool |-> <<Len(s.gates)>>,
          wire |-> <<Len(s.gates), "a">>]
(* Standard::alloc: the last token pooled, or a fresh gate whose extra     *)
(* enters the pool.                                                        *)
AllocStandard(s, v) ==
  IF s.pool # <<>>
    THEN [gates |-> AssignExtra(s.gates, Newest(s.pool), v), pool |-> Others(s.pool),
          wire |-> <<Newest(s.pool), "d">>]
    ELSE [gates |-> Append(s.gates, Gate(v, 0, 0)), pool |-> <<Len(s.gates)>>,
          wire |-> <<Len(s.gates), "a">>]
AllocUnit(s, v) == [s EXCEPT !.gates = Append(@, Gate(v, 0, 0)), !.wire = <<Len(s.gates), "a">>]
Donate(s, extra) == [s EXCEPT !.pool = Append(@, extra)]

AllocAll(s, values) ==       \* state and wires after allocating them in turn
  LET after[k \in 0 .. Len(values)] ==
        IF k = 0 THEN [state |-> s, wires |-> <<>>]
        ELSE LET acc  == after[k - 1]
                 next == AllocStandard(acc.state, values[k])
             IN  [state |-> next, wires |-> Append(acc.wires, next.wire)]
  IN  after[Len(values)]
Zeroes(n) == [i \in 1 .. n |-> 0]
-----------------------------------------------------------------------------
(* The layout of stage i of a chain.                                       *)
NumGates(stage) == (stage.values + 1) \div 2
SkipGates(chain, i) ==
  LET skip[k \in 1 .. i] == IF k = 1 THEN 1 ELSE skip[k - 1] + NumGates(chain[k - 1])
  IN  skip[i]
StageMaskOf(chain, i)  == NewMask(SkipGates(chain, i), NumGates(chain[i]))
FinalMaskOf(chain, i)  == NewFinalMask(SkipGates(chain, i) + NumGates(chain[i]))
GeneratorIndexForA(chain, i, coefficient) == 2 * N - 1 - SkipGates(chain, i) - coefficient

(* StageExt::rx_configured, on the driver that only records.               *)
TraceOf(g) == BuildTrace([a |-> [k \in DOMAIN g |-> g[k].a], b |-> [k \in DOMAIN g |-> g[k].b],
                          c |-> [k \in DOMAIN g |-> g[k].c], d |-> [k \in DOMAIN g |-> g[k].d]])
StageGates(chain, i, alpha, values) ==
  AllocAll(NewAllocator(<<>>),
           <<alpha, 0>> \o Zeroes(2 * (SkipGates(chain, i) - 1)) \o values
             \o Zeroes(chain[i].values - Len(values))).state.gates
StageRx(chain, i, alpha, values) ==
  IF Len(values) > chain[i].values THEN TooManyGates ELSE TraceOf(StageGates(chain, i, alpha, values))
-----------------------------------------------------------------------------
(* BondingValidator: the first message recorded stays.                     *)
Recorded(msg) == error' = IF error = "none" THEN msg ELSE error
MentionsOne(lc) == \E k \in DOMAIN lc : lc[k][1] = ONE
(* The validator sees ONE in a combination's own terms, not in what its    *)
(* virtual wires stand for.                                                *)
ChecksOne(lc) == IF MentionsOne(lc) THEN Recorded("one") ELSE UNCHANGED error
(* Mutant of ChecksConstant: constants are let through.                    *)
ConstantUnchecked(c) == UNCHANGED error
ChecksConstant(c) == Recorded("constant")

Expanded(lc) ==              \* a combination over physical wires
  FlattenSeq([k \in DOMAIN lc |->
    IF lc[k][1][2] # "v" THEN <<lc[k]>>
    ELSE LET w == virtual[lc[k][1][1]]
         IN  [j \in DOMAIN w |-> <<w[j][1], Times(w[j][2], lc[k][2])>>]])

Init ==
  /\ stages = <<>> /\ guards = <<>> /\ pool = <<>> /\ handed = <<>> /\ body = 0
  /\ gates = <<Gate(0, 0, 0)>>          \* the SYSTEM gate, of orchestrate
  /\ constraints = <<>> /\ virtual = <<>> /\ error = "none" /\ phase = "stages"

(* Mutant of PaddedWiresOf: no padding past the gadget's own last gate.    *)
PaddedToOwnGate(stage) == stage.wires + (stage.wires % 2)
(* configure_stage: wires, then zeros while half of them is short of the   *)
(* stage's gates.                                                          *)
PaddedWiresOf(stage) == IF stage.wires \div 2 < NumGates(stage) THEN 2 * NumGates(stage)
                        ELSE stage.wires
AddStage(stage) ==
  LET taken == AllocAll(NewAllocator(gates), Zeroes(PaddedWiresOf(stage)))
  IN  /\ phase = "stages" /\ Len(stages) < MaxStages
      /\ IF stage.wires > stage.values
           THEN phase' = "refused" /\ UNCHANGED <<stages, guards, gates>>
           ELSE /\ stages' = Append(stages, stage)
                /\ guards' = Append(guards, SubSeq(taken.wires, 1, stage.wires))
                /\ gates' = taken.state.gates
                /\ UNCHANGED phase
      /\ UNCHANGED <<pool, handed, body, constraints, virtual, error>>

Finish ==
  /\ phase = "stages" /\ stages # <<>> /\ phase' = "body"
  /\ UNCHANGED <<stages, guards, gates, pool, handed, body, constraints, virtual, error>>

(* StageGuard: the gadget's wires become the stage's, in order.            *)
Injected(stage_wires, count) ==
  IF count > Len(stage_wires) THEN <<"InvalidWitness">> ELSE SubSeq(stage_wires, 1, count)
Loaded == FlattenSeq([i \in DOMAIN stages |-> Injected(guards[i], stages[i].wires)])

Call == phase = "body" /\ body < MaxBody /\ body' = body + 1
Frozen == Recorded("allocation")        \* gate() after the stages are final

BodyAlloc(v) ==              \* Element::alloc with the body's Standard
  LET next == AllocStandard([gates |-> gates, pool |-> pool, wire |-> ONE], v)
  IN  /\ Call
      /\ gates' = next.gates /\ pool' = next.pool /\ handed' = Append(handed, next.wire)
      /\ IF pool = <<>> THEN Frozen ELSE UNCHANGED error
      /\ UNCHANGED <<stages, guards, constraints, virtual, phase>>
BooleanAlloc(v) ==           \* Boolean::alloc: a gate with c = 0, its extra donated
  /\ Call
  /\ gates' = Append(gates, Gate(v, Minus(1, v), 0))
  /\ pool' = Donate([pool |-> pool], Len(gates)).pool
  /\ handed' = Append(handed, <<Len(gates), "a">>) /\ Frozen
  /\ UNCHANGED <<stages, guards, constraints, virtual, phase>>
Mul(v, w) ==                 \* Element::mul: the extra is dropped
  /\ Call
  /\ gates' = Append(gates, Gate(v, w, Times(v, w)))
  /\ handed' = handed \o << <<Len(gates), "a">>, <<Len(gates), "b">>, <<Len(gates), "c">> >> /\ Frozen
  /\ UNCHANGED <<stages, guards, pool, constraints, virtual, phase>>
Constant(c) ==
  /\ Call /\ virtual' = Append(virtual, << <<ONE, c>> >>) /\ ChecksConstant(c)
  /\ UNCHANGED <<stages, guards, gates, pool, handed, constraints, phase>>
Add(lc) ==
  /\ Call /\ virtual' = Append(virtual, Expanded(lc)) /\ ChecksOne(lc)
  /\ UNCHANGED <<stages, guards, gates, pool, handed, constraints, phase>>
EnforceZero(lc) ==
  /\ Call /\ constraints' = Append(constraints, Expanded(lc)) /\ ChecksOne(lc)
  /\ UNCHANGED <<stages, guards, gates, pool, handed, virtual, phase>>
-----------------------------------------------------------------------------
(* The wiring object of the circuit: the j-th of m constraints at Y^(m-j+1) *)
(* and ONE, constrained last, at Y^0; a bonding circuit strips the latter. *)
Exponent(wire) ==
  CASE wire[2] = "d" -> wire[1]
    [] wire[2] = "b" -> 2 * N - 1 - wire[1]
    [] wire[2] = "a" -> 2 * N + wire[1]
    [] wire[2] = "c" -> 4 * N - 1 - wire[1]
Powers(y) == [j \in DOMAIN constraints |-> Power(y, Len(constraints) - j + 1)]
CoeffAt(d, y) ==
  FoldLeft(LAMBDA acc, j : FoldLeft(LAMBDA a, t :
      IF Exponent(t[1]) = d THEN Plus(a, Times(t[2], Powers(y)[j])) ELSE a, acc, constraints[j]),
    0, [j \in DOMAIN constraints |-> j])
InnerY(y)    == FromCoeffs([d \in 1 .. NumCoeffs |->
                  IF d = 1 THEN Plus(1, CoeffAt(0, y)) ELSE CoeffAt(d - 1, y)])
StrippedY(y) == CombineAssign(InnerY(y), BuildWiring([None4 EXCEPT !.d = <<1>>]), "sub")
StrippedXY(x, y) == Minus(EvalSparse(InnerY(y), x), 1)
StrippedX(x) ==
  LET m    == Len(constraints)
      at(j) == FoldLeft(LAMBDA a, t : Plus(a, Times(t[2], Power(x, Exponent(t[1])))), 0, constraints[j])
      inner == FromCoeffs([q \in 1 .. m + 1 |-> IF q = 1 THEN 1 ELSE at(m - q + 2)])
  IN  CombineAssign(inner, FromCoeffs(<<IterCoeffs(inner)[1]>>), "sub")

Next ==
  \/ \E stage \in StageTypes : AddStage(stage)
  \/ Finish
  \/ \E v \in {1, 2} : BodyAlloc(v)
  \/ \E v \in {0, 1} : BooleanAlloc(v)
  \/ Mul(2, 3)
  \/ Constant(2)
  \/ \E v, w \in {Loaded[k] : k \in DOMAIN Loaded} \cup {<<k, "v">> : k \in DOMAIN virtual} \cup {ONE} :
       \/ Add(<< <<v, 1>>, <<w, 2>> >>)
       \/ EnforceZero(<< <<v, 1>>, <<w, P - 1>> >>)
Spec == Init /\ [][Next]_vars
-----------------------------------------------------------------------------
Slots == {"a", "b", "c", "d"}
SlotOf(gate, slot) == CASE slot = "a" -> gate.a [] slot = "b" -> gate.b
                        [] slot = "c" -> gate.c [] slot = "d" -> gate.d

(* A stage's polynomial, computed by the prover alone from the values of   *)
(* the stage's gadget, has them at the very wires the circuit got as that  *)
(* stage's, and nothing elsewhere but alpha.                               *)
HoldsValues(i, data) ==
  LET g        == StageGates(stages, i, Alpha, data)
      at(wire) == IF wire[1] < Len(g) THEN SlotOf(g[wire[1] + 1], wire[2]) ELSE 0
      given    == { guards[i][k] : k \in DOMAIN guards[i] }
  IN  /\ at(<<0, "a">>) = Alpha
      /\ \A k \in DOMAIN guards[i] : at(guards[i][k]) = data[k]
      /\ \A wire \in ((0 .. Len(gates) + 1) \X Slots) \ given :
           wire # <<0, "a">> => at(wire) = 0

(* No wire is given out twice, to the stages or by the body's allocators.  *)
NoWireTwice ==
  /\ \A i, j \in DOMAIN guards : \A k \in DOMAIN guards[i], l \in DOMAIN guards[j] :
       guards[i][k] = guards[j][l] => i = j /\ k = l
  /\ \A k, l \in DOMAIN handed : handed[k] = handed[l] => k = l
  /\ \A k \in DOMAIN handed : handed[k][1] >= SkipGates(stages, Len(stages) + 1)
  /\ \A i \in DOMAIN guards : \A k \in DOMAIN guards[i] :
       guards[i][k][1] < SkipGates(stages, Len(stages) + 1)

Satisfied(gate) == Times(gate.a, gate.b) = gate.c /\ Times(gate.c, gate.d) = 0

(* Whatever stages a circuit has, prover and circuit agree on which wires  *)
(* are a stage's; no wire is handed out twice, also not by an allocator    *)
(* whose pool takes donations; and every gate stays satisfied (staging/    *)
(* mod.rs rx_configured, builder.rs configure_stage, allocator.rs).        *)
StagesKeepTheirWires ==
  /\ \A i \in DOMAIN stages, data \in Witnesses :
       Len(data) = stages[i].wires => HoldsValues(i, data)
  /\ NoWireTwice
  /\ \A k \in DOMAIN gates : Satisfied(gates[k])
=============================================================================
