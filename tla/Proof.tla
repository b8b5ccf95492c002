------------------------------- MODULE Proof --------------------------------
(***************************************************************************)
(* A proof, the builder that collects its parts and derives the cached     *)
(* ones, and the trivial proof (proof/mod.rs, proof/builder.rs).  A proof  *)
(* is [alpha, part]: part maps <<kind, name>> to what is stored there.     *)
(* Kinds: rx and commitment (native), bridge and bridge_commitment,        *)
(* challenge, header, nested, child.  Next to a native rx stands what it   *)
(* is: kind mask, the mask whose stage, or last stage, laid it out, and of *)
(* a circuit's trace kind circuit, [index, output, enforced, ran_on], with *)
(* the polynomials of the stages it ran on.  A nested polynomial names its *)
(* mask itself.                                                            *)
(***************************************************************************)
EXTENDS Endoscalar, TLC
LOCAL INSTANCE SequencesExt

CONSTANT HEADER_SIZE
-----------------------------------------------------------------------------
(***************************************************************************)
(* The claims a native proof makes and the k(y) they are checked against   *)
(* (internal/claims.rs, internal/native/claims.rs, fuse/claims.rs).  A     *)
(* claim names the polynomials it is about: groups of keys                 *)
(* <<side, component>>, summed inside a group and combined by powers of z  *)
(* across groups.  A source gives, per side, the native polynomials        *)
(* ("rx"), their commitments and the application circuit's index.          *)
(*                                                                         *)
(* Many revdot claims are folded into one by two layers of random          *)
(* combination (internal/fold_revdot.rs): the left sides by 1/mu, the      *)
(* right ones by mu*nu.  A polynomial is its tuple of coefficients, lowest *)
(* degree first.                                                           *)
(***************************************************************************)

CONSTANTS NumGroups, GroupSize         \* 19 and 7 in the code (RevdotParameters)
ASSUME RevdotAssumption == NumGroups \in Nat \ {0} /\ GroupSize \in Nat \ {0}

Evaluated(p)       == SubSeq(p, 1, NumCoeffs)       \* p, as the tuple it is
ZeroPoly           == [d \in 1 .. NumCoeffs |-> 0]
AddAssign(p, q)    == Evaluated([d \in 1 .. NumCoeffs |-> Plus(p[d], q[d])])
ScaleBy(p, s)      == Evaluated([d \in 1 .. NumCoeffs |-> Times(p[d], s)])
DilateBy(p, z)     == Evaluated([d \in 1 .. NumCoeffs |-> Times(p[d], Power(z, d - 1))])
RevdotOf(p, q)     == Dot(p, Reverse(q))
SumPolynomials(rxs) == FoldLeft(AddAssign, ZeroPoly, rxs)

(* fold, of polynomials and of elements: Horner, the first gets the        *)
(* highest power.                                                          *)
Fold(polys, s)        == FoldLong(LAMBDA acc, p : AddAssign(ScaleBy(acc, s), p), ZeroPoly, polys)
FoldElements(items, s) == FoldLong(LAMBDA acc, e : Plus(Times(acc, s), e), 0, items)

(* slice::chunks, short and absent chunks filled up with a default: group  *)
(* g of a source the code asserts to fit.                                  *)
Fits(source) == Len(source) <= GroupSize * NumGroups
Chunk(source, g, default) ==
  [i \in 1 .. GroupSize |->
     LET k == ((g - 1) * GroupSize) + i IN IF k <= Len(source) THEN source[k] ELSE default]
Chunks(source, default) ==
  FoldLong(LAMBDA acc, g : Append(acc, Chunk(source, g, default)), <<>>,
           [g \in 1 .. NumGroups |-> g])

(* Mutant of FoldInner: the last chunk is not filled up.                   *)
FoldInnerShort(source, s) ==
  FoldLong(LAMBDA acc, chunk : Append(acc, Fold(SelectSeq(chunk, LAMBDA p : p # ZeroPoly), s)),
           <<>>, Chunks(source, ZeroPoly))
FoldInner(source, s) ==
  FoldLong(LAMBDA acc, chunk : Append(acc, Fold(chunk, s)), <<>>, Chunks(source, ZeroPoly))
FoldOuter(folded, s) == Fold(folded, s)

FoldTwoLayer(source, layer1_scale, layer2_scale) ==
  FoldElements(FoldLong(LAMBDA acc, chunk : Append(acc, FoldElements(chunk, layer1_scale)), <<>>,
                        Chunks(source, 0)),
               layer2_scale)
-----------------------------------------------------------------------------
(* The off-diagonal products of n left and n right sides, row by row.      *)
OffDiagonalPairs(n) ==
  FoldLong(LAMBDA acc, k : LET i == (k \div n) + 1
                               j == (k % n) + 1
                           IN  IF i = j THEN acc ELSE Append(acc, <<i, j>>),
           <<>>, [k \in 1 .. n * n |-> k - 1])

ComputeErrors(as, bs) ==
  FoldLong(LAMBDA acc, ij : Append(acc, RevdotOf(as[ij[1]], bs[ij[2]])), <<>>,
           OffDiagonalPairs(Len(as)))

InnerErrorTerms(as, bs) ==
  LET left == Chunks(as, ZeroPoly)
      right == Chunks(bs, ZeroPoly)
  IN  FoldLong(LAMBDA acc, g : Append(acc, ComputeErrors(left[g], right[g])), <<>>,
               [g \in 1 .. NumGroups |-> g])
OuterErrorTerms(as, bs) == ComputeErrors(as, bs)

(* Entry i, j of the matrix: a claim's own value on the diagonal, off it   *)
(* the next of the error terms.                                            *)
Entry(errors, ky_values, i, j) ==
  LET n == Len(ky_values)
  IN  IF i = j THEN ky_values[i]
               ELSE errors[((i - 1) * (n - 1)) + (IF j < i THEN j ELSE j - 1)]

(* Mutant of FoldProducts: rows and columns swap their scales.             *)
FoldProductsSwapped(mu, nu, errors, ky_values) ==
  LET n == Len(ky_values)
  IN  FoldElements([i \in 1 .. n |->
        FoldElements([j \in 1 .. n |-> Entry(errors, ky_values, i, j)], Reciprocal(mu))],
        Times(mu, nu))
(* ClaimFolder: the value of the folded claim.                             *)
FoldProducts(mu, nu, errors, ky_values) ==
  LET n == Len(ky_values)
  IN  FoldElements([i \in 1 .. n |->
        FoldElements([j \in 1 .. n |-> Entry(errors, ky_values, i, j)], Times(mu, nu))],
        Reciprocal(mu))
-----------------------------------------------------------------------------

CONSTANT RegistryTerms   \* the registry polynomial m(W, X, Y): a sum of products
                         \* of one polynomial in each variable

InternalCircuitIndex ==
  <<"Hashes1Circuit", "Hashes2Circuit", "InnerCollapseCircuit", "OuterCollapseCircuit",
    "ComputeVCircuit", "PreambleStage", "InnerErrorStage", "OuterErrorStage", "QueryStage",
    "EvalStage", "InnerErrorFinalStaged", "OuterErrorFinalStaged", "EvalFinalStaged">>
CircuitIndex(id) == (CHOOSE i \in DOMAIN InternalCircuitIndex : InternalCircuitIndex[i] = id) - 1

RxIndex == <<"Application", "Hashes1", "Hashes2", "InnerCollapse", "OuterCollapse", "ComputeV",
             "Preamble", "InnerError", "OuterError", "Query", "Eval">>
RxNames    == { RxIndex[i] : i \in DOMAIN RxIndex }
Components == RxNames \union {"AbA", "AbB"}

(* The rx polynomials whose sum an internal circuit's claim is about.      *)
CircuitRxs ==
  [Hashes1Circuit       |-> <<"Hashes1", "Preamble", "OuterError">>,
   Hashes2Circuit       |-> <<"Hashes2", "OuterError">>,
   InnerCollapseCircuit |-> <<"InnerCollapse", "Preamble", "InnerError", "OuterError">>,
   OuterCollapseCircuit |-> <<"OuterCollapse", "Preamble", "OuterError">>,
   ComputeVCircuit      |-> <<"ComputeV", "Preamble", "Query", "Eval">>]

(* Those whose well-formedness a mask's claim is about.                    *)
BondingRxs ==
  [PreambleStage |-> <<"Preamble">>, InnerErrorStage |-> <<"InnerError">>,
   OuterErrorStage |-> <<"OuterError">>, QueryStage |-> <<"Query">>, EvalStage |-> <<"Eval">>,
   InnerErrorFinalStaged |-> <<"InnerCollapse">>,
   OuterErrorFinalStaged |-> <<"Hashes1", "Hashes2", "OuterCollapse">>,
   EvalFinalStaged |-> <<"ComputeV">>]
-----------------------------------------------------------------------------
(* The registry at a point, in the variables that are left.                *)
OmegaJ(index) == Power(ROOT, BitReverse(index, S))
RegistryX(w, x) ==
  FoldLeft(LAMBDA acc, t : AddAssign(acc, ScaleBy(t.y, Times(EvalPoly(t.w, w), EvalPoly(t.x, x)))),
           ZeroPoly, RegistryTerms)
RegistryY(w, y) ==
  FoldLeft(LAMBDA acc, t : AddAssign(acc, ScaleBy(t.x, Times(EvalPoly(t.w, w), EvalPoly(t.y, y)))),
           ZeroPoly, RegistryTerms)
RegistryXY(x, y) ==
  FoldLeft(LAMBDA acc, t : AddAssign(acc, ScaleBy(t.w, Times(EvalPoly(t.x, x), EvalPoly(t.y, y)))),
           ZeroPoly, RegistryTerms)
RegistryWXY(w, x, y) == EvalPoly(RegistryXY(x, y), w)
CircuitY(index, y)   == RegistryY(OmegaJ(index), y)

(* tz: t(X, z), on the last N coefficients, gate i from the end.           *)
TzPoly(z) ==
  [d \in 1 .. NumCoeffs |->
     LET i == NumCoeffs - d
     IN  IF i >= N \/ z = 0 THEN 0
         ELSE Minus(0, Plus(Power(z, (2 * N) - 1 - i), Power(z, (2 * N) + i)))]

(* txz.rs: t(x, z) as the routine predicts it, and as its gates compute    *)
(* it, for x and z not zero.                                               *)
TxzPredicted(x, z) ==
  LET l0 == Times(Power(x, 4 * N - 1), Power(z, 2 * N))
      l == Times(l0, GeoSum(Times(Reciprocal(x), z), N))
      r == Times(l0, GeoSum(Times(Reciprocal(x), Reciprocal(z)), N))
  IN  Minus(0, Plus(l, Times(r, Reciprocal(z))))
TxzExecuted(x, z) ==
  LET squared(e) == FoldLeft(LAMBDA acc, k : Times(acc, acc), e, [k \in 1 .. Log2Ceil(N) |-> k])
      x4n == Power(squared(x), 4)
      l0 == Times(Times(x4n, Reciprocal(x)), Power(squared(z), 2))
      doubled(acc, k) ==
        [sum |-> Plus(acc.sum, Times(acc.sum, acc.step)), step |-> Times(acc.step, acc.step)]
      sum(step) == FoldLeft(doubled, [sum |-> l0, step |-> step], [k \in 1 .. Log2Ceil(N) |-> k]).sum
  IN  Minus(0, Plus(sum(Times(Reciprocal(x), z)),
                    Times(sum(Times(Reciprocal(x), Reciprocal(z))), Reciprocal(z))))
-----------------------------------------------------------------------------
Both(sides, component) == [i \in DOMAIN sides |-> <<sides[i], component>>]
Claim(kind, index, groups, right) ==
  [kind |-> kind, index |-> index, groups |-> groups, right |-> right]

Build(sides, app_circuits) ==
  LET raw == [i \in DOMAIN sides |->
                Claim("raw", 0, << << <<sides[i], "AbA">> >> >>, <<sides[i], "AbB">>)]
      application == [i \in DOMAIN sides |->
                Claim("application", app_circuits[i], << << <<sides[i], "Application">> >> >>, <<>>)]
      internal(id) ==
        IF id \in DOMAIN CircuitRxs
          THEN [i \in DOMAIN sides |->
                  Claim("circuit", CircuitIndex(id),
                        << [k \in DOMAIN CircuitRxs[id] |-> <<sides[i], CircuitRxs[id][k]>>] >>,
                        <<>>)]
          ELSE LET keys == FlattenSeq([k \in DOMAIN BondingRxs[id] |->
                                         Both(sides, BondingRxs[id][k])])
               IN  << Claim("bonding", CircuitIndex(id), [k \in DOMAIN keys |-> <<keys[k]>>], <<>>) >>
  IN  raw \o application
      \o FlattenSeq([k \in DOMAIN InternalCircuitIndex |-> internal(InternalCircuitIndex[k])])
-----------------------------------------------------------------------------
(* TrackedPoly: a polynomial with the source polynomials it combines.      *)
Tracked(poly, decomp) == [poly |-> poly, decomp |-> decomp]
TrackedSum(source, keys) ==
  Tracked(SumPolynomials([k \in DOMAIN keys |-> source[keys[k][1]].rx[keys[k][2]]]),
          [k \in DOMAIN keys |-> <<keys[k], 1>>])
FoldScale(t, by) ==
  Tracked(ScaleBy(t.poly, by), [k \in DOMAIN t.decomp |-> <<t.decomp[k][1], Times(t.decomp[k][2], by)>>])
FoldAddAssign(t, other) == Tracked(AddAssign(t.poly, other.poly), t.decomp \o other.decomp)
TrackedFold(items, s) ==
  FoldLong(LAMBDA acc, t : FoldAddAssign(FoldScale(acc, s), t), Tracked(ZeroPoly, <<>>), items)
TrackedFoldInner(items, s) ==
  FoldLong(LAMBDA acc, chunk : Append(acc, TrackedFold(chunk, s)), <<>>,
           Chunks(items, Tracked(ZeroPoly, <<>>)))

(* The terms of one key added up, the key where it was first met.          *)
(* Mutant: the last term of a key replaces the others.                     *)
DedupReplacing(decomp) ==
  FoldLong(LAMBDA entries, term :
             IF \E i \in DOMAIN entries : entries[i][1] = term[1]
               THEN LET i == CHOOSE i \in DOMAIN entries : entries[i][1] = term[1]
                    IN  [entries EXCEPT ![i][2] = term[2]]
               ELSE Append(entries, term), <<>>, decomp)
Dedup(decomp) ==
  FoldLong(LAMBDA entries, term :
             IF \E i \in DOMAIN entries : entries[i][1] = term[1]
               THEN LET i == CHOOSE i \in DOMAIN entries : entries[i][1] = term[1]
                    IN  [entries EXCEPT ![i][2] = Plus(@, term[2])]
               ELSE Append(entries, term), <<>>, decomp)

(* The commitment of a combination, from those of what it combines.        *)
DecompCommitment(source, decomp) ==
  LET entries == Dedup(decomp)
  IN  Dot([k \in DOMAIN entries |-> entries[k][2]],
          [k \in DOMAIN entries |-> source[entries[k][1][1]].commitment[entries[k][1][2]]])

(* Mutant of Sides: a circuit's right side forgets the gate polynomial.    *)
SidesWithoutTz(source, claim, y, z) ==
  LET a == TrackedFold([g \in DOMAIN claim.groups |-> TrackedSum(source, claim.groups[g])], z)
      sy == CircuitY(claim.index, y)
  IN  [a |-> a,
       b |-> CASE claim.kind = "raw" -> source[claim.right[1]].rx[claim.right[2]]
               [] claim.kind \in {"application", "circuit"} -> AddAssign(DilateBy(a.poly, z), sy)
               [] claim.kind = "bonding" -> sy]
(* The processor of both fuse and verify: a claim's left and right side.   *)
Sides(source, claim, y, z) ==
  LET a == TrackedFold([g \in DOMAIN claim.groups |-> TrackedSum(source, claim.groups[g])], z)
      sy == CircuitY(claim.index, y)
  IN  [a |-> a,
       b |-> CASE claim.kind = "raw" -> source[claim.right[1]].rx[claim.right[2]]
               [] claim.kind \in {"application", "circuit"} -> AddAssign(AddAssign(DilateBy(a.poly, z), sy), TzPoly(z))
               [] claim.kind = "bonding" -> sy]

(* The processor of compute_v: both sides at a point, ax at xz and bx at   *)
(* x, from values of the children's polynomials and of the registry.       *)
SidesAt(query, claim, z, txz) ==
  LET sum(keys) == FoldLeft(LAMBDA acc, k : Plus(acc, query[k[1]].at_xz[k[2]]), 0, keys)
      side == claim.groups[1][1][1]
      ax == FoldElements([g \in DOMAIN claim.groups |-> sum(claim.groups[g])], z)
      sy == IF claim.kind = "application" THEN query[side].registry_xy_at_circuit_id
                                          ELSE query.fixed_registry[claim.index + 1]
  IN  [ax |-> ax,
       bx |-> CASE claim.kind = "raw" -> query[claim.right[1]].b_at_x
                [] claim.kind \in {"application", "circuit"} -> Plus(Plus(ax, sy), txz)
                [] claim.kind = "bonding" -> sy]
-----------------------------------------------------------------------------
NumUnifiedCircuits == 4
(* ky_values: what each claim must be worth, zero for the masks and the    *)
(* places left over.                                                       *)
(* Mutant: the bridge circuit's value after those of the unified ones.     *)
KyValuesBridgeLast(ky, sides) ==
  LET each(name) == [i \in DOMAIN sides |-> ky[sides[i]][name]]
  IN  each("raw_c") \o each("application")
      \o FlattenSeq([k \in 1 .. NumUnifiedCircuits |-> each("unified")]) \o each("unified_bridge")
KyValues(ky, sides) ==
  LET each(name) == [i \in DOMAIN sides |-> ky[sides[i]][name]]
  IN  each("raw_c") \o each("application") \o each("unified_bridge")
      \o FlattenSeq([k \in 1 .. NumUnifiedCircuits |-> each("unified")])
KyGroups(ky, sides) == Chunks(KyValues(ky, sides), 0)
-----------------------------------------------------------------------------
(***************************************************************************)
(* The unified instance the internal circuits of a fuse share and the      *)
(* slots through which each circuit reads, derives or takes charge of its  *)
(* parts (internal/native/unified.rs).  A commitment is one element here.  *)
(* A circuit's run is [instance, value, was_set, failed, enforced]: the    *)
(* slots filled, those it covers, whether a panic ended it, and whether    *)
(* every equality it enforced held.                                        *)
(***************************************************************************)
Slots == <<"bridge_preamble_commitment", "w", "bridge_s_prime_commitment", "y", "z",
           "bridge_inner_error_commitment", "mu", "nu", "bridge_outer_error_commitment",
           "mu_prime", "nu_prime", "c", "bridge_ab_commitment", "x",
           "bridge_query_commitment", "alpha", "bridge_f_commitment", "u",
           "bridge_eval_commitment", "pre_beta", "v">>
SlotNames == { Slots[i] : i \in DOMAIN Slots }

None == -1                             \* a slot not filled

(* Instance: the prover's values, and the slots covered so far.            *)
NewInstance(values) == [values |-> [s \in SlotNames |-> values[s]], coverage |-> {}, failed |-> FALSE]

OutputBuilder(instance) ==
  [instance |-> instance.values, value |-> [s \in SlotNames |-> None], was_set |-> {},
   failed |-> FALSE, enforced |-> TRUE]

(* Slot::read, provide and receive: each asserts the slot is not filled.   *)
Fill(run, slot, v) ==
  IF run.value[slot] # None THEN [run EXCEPT !.failed = TRUE]
                            ELSE [run EXCEPT !.value[slot] = v]
Read(run, slot)       == Fill(run, slot, run.instance[slot])
Provide(run, slot, v) == [Fill(run, slot, v) EXCEPT !.was_set = @ \union {slot}]
Receive(run, slot)    == [Read(run, slot) EXCEPT !.was_set = @ \union {slot}]

EachSlot(run, slots, op) ==
  FoldLong(LAMBDA r, s : IF op = "read" THEN Read(r, s) ELSE Receive(r, s), run, slots)
EnforceEqual(run, a, b) == [run EXCEPT !.enforced = @ /\ a = b]

(* Slot::take: what no one filled is allocated from the instance.          *)
Output(run) ==
  [s \in SlotNames |-> IF run.value[s] = None THEN run.instance[s] ELSE run.value[s]]

(* Coverage::cover, for the slots one circuit set.                         *)
Cover(instance, run) ==
  [instance EXCEPT !.coverage = @ \union run.was_set,
                   !.failed = @ \/ run.failed \/ run.was_set \cap instance.coverage # {}]
Complete(instance) == instance.coverage = SlotNames        \* assert_complete

(* The unified output on the wire, in the order of its fields.             *)
Written(output) == [i \in DOMAIN Slots |-> output[Slots[i]]]

(* horner.rs and ky.rs: the values from the highest power down, the        *)
(* constant term last.                                                     *)
Horner(values, y) == FoldLong(LAMBDA acc, v : Plus(Times(acc, y), v), 0, values)
FinishKy(values, y) == Horner(Append(values, 1), y)
-----------------------------------------------------------------------------
(***************************************************************************)
(* The nested side of a proof (internal/endoscalar.rs, internal/nested):   *)
(* the endoscaling of the points whose combination commits to p, the       *)
(* bridge stages that carry host commitments, and the circuits that tie    *)
(* them together.  A bridge polynomial is [mask, alpha, values], with the  *)
(* values in the order of its stage's witness; a commitment is a group     *)
(* element.                                                                *)
(***************************************************************************)
NUM_ENDOSCALING_POINTS == 37
ENDOSCALINGS_PER_STEP  == 4
NumInputs == NUM_ENDOSCALING_POINTS - 1
NumSteps  == (NumInputs + ENDOSCALINGS_PER_STEP - 1) \div ENDOSCALINGS_PER_STEP
StepEnd(step) ==                        \* of input_range
  IF ENDOSCALINGS_PER_STEP * step < NumInputs THEN ENDOSCALINGS_PER_STEP * step ELSE NumInputs

(* PointsWitness::new: the accumulator after every step.                   *)
PointsWitness(bits, points) ==
  LET scale == LiftNative(bits)
      acc[k \in 0 .. NumInputs] ==
        IF k = 0 THEN Head(points) ELSE ((scale * acc[k - 1]) + points[k + 1]) % P
  IN  [initial |-> Head(points), inputs |-> Tail(points),
       interstitials |-> [step \in 1 .. NumSteps |-> acc[StepEnd(step)]]]

(* EndoscalingStep: a circuit scales and adds the inputs of its range.     *)
EndoscalingStep(bits, points, step) ==
  LET start == StepEnd(step - 1)
      from == IF step = 1 THEN points.initial ELSE points.interstitials[step - 1]
  IN  FoldLong(LAMBDA acc, input : Plus(GroupScale(bits, acc), input), from,
               SubSeq(points.inputs, start + 1, StepEnd(step)))
        = points.interstitials[step]
-----------------------------------------------------------------------------
(* The witness of the bridge stages.                                       *)
ChildFields == RxIndex \o <<"AbA", "AbB", "RegistryXY", "P">>
StageFields ==
  [BridgeSPrime     |-> <<"registry_wx0", "registry_wx1", "stashed_preamble">>,
   BridgeInnerError |-> <<"native_inner_error", "registry_wy">>,
   BridgeOuterError |-> <<"native_outer_error">>,
   BridgeAB         |-> <<"a", "b">>,
   BridgeQuery      |-> <<"native_query", "registry_xy">>,
   BridgeF          |-> <<"native_f">>,
   BridgeEval       |-> <<"native_eval">>]
BridgeNames == DOMAIN StageFields \union {"BridgePreamble"}
ChildBridges == BridgeNames \ {"BridgePreamble", "BridgeF"}

BridgeRx(stage, alpha, values) == [mask |-> stage, alpha |-> alpha, values |-> values]
At(bridge, stage, field) ==
  bridge[stage].values[CHOOSE i \in DOMAIN StageFields[stage] : StageFields[stage][i] = field]

(* The preamble's bridge: its own commitment and those of both children.   *)
PreambleValues(native_preamble, left, right) ==
  <<native_preamble>> \o [i \in DOMAIN ChildFields |-> left[ChildFields[i]]]
                      \o [i \in DOMAIN ChildFields |-> right[ChildFields[i]]]
NativePreamble(preamble) == preamble.values[1]
ChildPoints(preamble, side) ==
  LET from == 1 + (IF side = "left" THEN 0 ELSE Len(ChildFields))
  IN  SubSeq(preamble.values, from + 1, from + Len(ChildFields))
Stashed(preamble, side, field) ==
  ChildPoints(preamble, side)[CHOOSE i \in DOMAIN ChildFields : ChildFields[i] = field]

(* The commitment of a bridge polynomial: a generator for every place.     *)
NestedCommit(rx) ==
  FoldLong(LAMBDA acc, v : Plus(Times(acc, GENERATOR), v), rx.alpha, rx.values)
-----------------------------------------------------------------------------
(* Loading: the inputs of the endoscaling, one after another, are the      *)
(* commitments the bridges carry; its walker asserts it met them all.      *)
Loading(points, bridge) ==
  LET preamble == bridge["BridgePreamble"]
      walked == ChildPoints(preamble, "left") \o ChildPoints(preamble, "right")
                \o << At(bridge, "BridgeSPrime", "registry_wx0"), At(bridge, "BridgeSPrime", "registry_wx1"),
                      At(bridge, "BridgeInnerError", "registry_wy"),
                      At(bridge, "BridgeAB", "a"), At(bridge, "BridgeAB", "b"),
                      At(bridge, "BridgeQuery", "registry_xy") >>
  IN  /\ points.inputs = walked
      /\ At(bridge, "BridgeSPrime", "stashed_preamble") = NativePreamble(preamble)
      /\ points.initial = At(bridge, "BridgeF", "native_f")

(* Copying: what the preamble says of a child is in the child's own        *)
(* stages, its p the last interstitial of its endoscaling.                 *)
Copying(preamble, side, child) ==
  LET stashed(field) == Stashed(preamble, side, field)
      in_child(stage, field) == At(child.bridge, stage, field)
  IN  /\ stashed("Preamble")   = in_child("BridgeSPrime", "stashed_preamble")
      /\ stashed("InnerError") = in_child("BridgeInnerError", "native_inner_error")
      /\ stashed("OuterError") = in_child("BridgeOuterError", "native_outer_error")
      /\ stashed("AbA")        = in_child("BridgeAB", "a")
      /\ stashed("AbB")        = in_child("BridgeAB", "b")
      /\ stashed("Query")      = in_child("BridgeQuery", "native_query")
      /\ stashed("RegistryXY") = in_child("BridgeQuery", "registry_xy")
      /\ stashed("Eval")       = in_child("BridgeEval", "native_eval")
      /\ stashed("P")          = Last(child.points.interstitials)
-----------------------------------------------------------------------------
(* The claims of the nested side of one proof, in the order of its         *)
(* registry, and their k(y) values: ones for the steps, then zeros.  A key *)
(* is <<whose, name, step>>, whose the proof's own side or a child's.      *)
BridgeStages == <<"BridgePreamble", "BridgeSPrime", "BridgeInnerError", "BridgeOuterError",
                  "BridgeAB", "BridgeQuery", "BridgeF", "BridgeEval">>
LoadingStages ==
  <<"PointsStage">> \o SelectSeq(BridgeStages, LAMBDA n : n \notin {"BridgeOuterError", "BridgeEval"})
CopyingStages ==
  <<"PointsStage">> \o SelectSeq(BridgeStages, LAMBDA n : n \notin {"BridgePreamble", "BridgeF"})

Keys(whose, names) == [k \in DOMAIN names |-> <<whose, names[k], 0>>]
StepKey(s) == <<"own", "EndoscalingStep", s>>
NestedClaim(kind, at, groups) == [kind |-> kind, at |-> at, groups |-> groups]
NestedBuild ==
  LET steps == [s \in 1 .. NumSteps |-> s]
      mask(stage) == NestedClaim(stage, 0, << Keys("own", <<stage>>) >>)
      copying(side) == NestedClaim("Copying", side,
                         << Keys("own", <<"BridgePreamble">>) \o Keys(side, CopyingStages) >>)
  IN  [s \in DOMAIN steps |-> NestedClaim("EndoscalingStep", s,
                                << <<StepKey(s)>> \o Keys("own", <<"EndoscalarStage", "PointsStage">>) >>)]
      \o << mask("EndoscalarStage"), mask("PointsStage"),
            NestedClaim("PointsFinalStaged", 0, [s \in DOMAIN steps |-> <<StepKey(s)>>]) >>
      \o [k \in DOMAIN BridgeStages |-> mask(BridgeStages[k])]
      \o << NestedClaim("Loading", 0, << Keys("own", LoadingStages) >>), copying("left"), copying("right") >>

(* Mutant: the last step's one is missing.                                 *)
NestedKyValuesShort == [s \in 1 .. NumSteps - 1 |-> 1]
NestedKyValues == [s \in 1 .. NumSteps |-> 1]
-----------------------------------------------------------------------------
Lazy     == RxIndex \o <<"RegistryXY">>       \* committed on first access
Explicit == {"AbA", "AbB", "P"}               \* set with their commitments
Native   == Components \union {"RegistryXY", "P"}
ChallengeNames == {"w", "y", "z", "mu", "nu", "mu_prime", "nu_prime", "x", "alpha", "u", "pre_beta"}

AllParts ==
  ({"rx", "commitment"} \X Native) \union ({"bridge", "bridge_commitment"} \X BridgeNames)
    \union ({"challenge"} \X ChallengeNames) \union ({"header", "child"} \X {"left", "right"})
    \union ({"nested"} \X {"steps", "endoscalar", "points"}) \union {<<"id", "circuit_id">>}

HostCommit(poly) == EvalPoly(poly, GENERATOR)   \* commit, one generator per coefficient
-----------------------------------------------------------------------------
(* ProofBuilder: a part is set once; a getter finds its part set.          *)
NewBuilder(alpha) == [alpha |-> alpha, part |-> [k \in {} |-> 0], failed |-> FALSE]
IsSet(b, key)     == key \in DOMAIN b.part
SetPart(b, key, v) ==
  IF IsSet(b, key) THEN [b EXCEPT !.failed = TRUE] ELSE [b EXCEPT !.part = (key :> v) @@ @]
SetParts(b, kind, values) ==
  LET keys == {kind} \X DOMAIN values
  IN  IF \E k \in keys : IsSet(b, k) THEN [b EXCEPT !.failed = TRUE]
      ELSE [b EXCEPT !.part = [k \in keys |-> values[k[2]]] @@ @]

SetRx(b, name, poly) == SetPart(b, <<"rx", name>>, poly)
SetWithCommitment(b, name, poly, commitment) ==
  SetPart(SetRx(b, name, poly), <<"commitment", name>>, commitment)
SetBridge(b, name, rx) ==
  SetPart(SetPart(b, <<"bridge", name>>, rx), <<"bridge_commitment", name>>, NestedCommit(rx))

(* lazy_commitment!: computed from the polynomial on first access; those   *)
(* of a, b and p are not.                                                  *)
Force(b, name) ==
  IF IsSet(b, <<"commitment", name>>) THEN b
  ELSE IF name \in Explicit \/ ~IsSet(b, <<"rx", name>>) THEN [b EXCEPT !.failed = TRUE]
  ELSE SetPart(b, <<"commitment", name>>, HostCommit(b.part[<<"rx", name>>]))
Commitment(b, name) == Force(b, name).part[<<"commitment", name>>]

(* cached_bridge!: the power of bridge_alpha and the commitments a cached  *)
(* bridge is derived from, in the order of its stage's fields.             *)
(* Mutant: the fields of the query's bridge are swapped.                   *)
CachedBridgeSwapped ==
  [BridgeOuterError |-> [power |-> 1, from |-> <<"OuterError">>],
   BridgeAB         |-> [power |-> 2, from |-> <<"AbA", "AbB">>],
   BridgeQuery      |-> [power |-> 3, from |-> <<"RegistryXY", "Query">>],
   BridgeEval       |-> [power |-> 4, from |-> <<"Eval">>]]
CachedBridge ==
  [BridgeOuterError |-> [power |-> 1, from |-> <<"OuterError">>],
   BridgeAB         |-> [power |-> 2, from |-> <<"AbA", "AbB">>],
   BridgeQuery      |-> [power |-> 3, from |-> <<"Query", "RegistryXY">>],
   BridgeEval       |-> [power |-> 4, from |-> <<"Eval">>]]
ForceBridge(b, name) ==
  LET bridge == CachedBridge[name]
      c == FoldLeft(Force, b, bridge.from)
  IN  IF IsSet(b, <<"bridge", name>>) \/ c.failed THEN c
      ELSE SetBridge(c, name,
             BridgeRx(name, Power(b.alpha, bridge.power),
                      [i \in DOMAIN bridge.from |-> c.part[<<"commitment", bridge.from[i]>>]]))

(* build: the lazy commitments and cached bridges forced, no part missing. *)
BuildProof(b) ==
  LET c == FoldLeft(ForceBridge, FoldLeft(Force, b, Lazy),
                    <<"BridgeOuterError", "BridgeAB", "BridgeQuery", "BridgeEval">>)
  IN  [c EXCEPT !.failed = @ \/ ~(AllParts \subseteq DOMAIN c.part)]
-----------------------------------------------------------------------------
(* Accessors of a proof.                                                   *)
Rx(p, name)         == p.part[<<"rx", name>>]
CommitmentOf(p, name) == p.part[<<"commitment", name>>]
ChallengeOf(p, c)   == p.part[<<"challenge", c>>]
HeaderOf(p, side)   == p.part[<<"header", side>>]
CircuitId(p)        == p.part[<<"id", "circuit_id">>]
BridgesOf(p)        == [n \in BridgeNames |-> p.part[<<"bridge", n>>]]
ProofC(p)           == RevdotOf(Rx(p, "AbA"), Rx(p, "AbB"))
ProofV(p)           == EvalPoly(Rx(p, "P"), ChallengeOf(p, "u"))
ChildRx(p, side)    == p.part[<<"child", side>>]

(* A nested polynomial of a proof by its key.                              *)
NestedRx(p, key) ==
  IF key[1] = "own"
    THEN CASE key[2] = "EndoscalarStage" -> p.part[<<"nested", "endoscalar">>]
           [] key[2] = "PointsStage" -> p.part[<<"nested", "points">>]
           [] key[2] \in BridgeNames -> p.part[<<"bridge", key[2]>>]
           [] key[2] = "EndoscalingStep" -> p.part[<<"nested", "steps">>][key[3]]
    ELSE IF key[2] = "PointsStage" THEN ChildRx(p, key[1]).points ELSE ChildRx(p, key[1]).bridge[key[2]]

(* What a parent keeps of a child for the copying claims.                  *)
AsChildStageRx(p) ==
  [points |-> p.part[<<"nested", "points">>], bridge |-> [n \in ChildBridges |-> p.part[<<"bridge", n>>]]]

(* Commitments a parent's preamble bridge stashes of a child.              *)
ChildWitness(p) == [n \in Native |-> CommitmentOf(p, n)]

(* FuseProofSource, or with one side SingleProofSource.                    *)
ProofSource(proofs) ==
  [side \in DOMAIN proofs |->
     [rx |-> [n \in Components |-> Rx(proofs[side], n)],
      commitment |-> [n \in Components |-> CommitmentOf(proofs[side], n)]]]

(* The unified instance a proof, or a builder about to be done, stands for.*)
UnifiedValues(p) ==
  [s \in SlotNames |->
     CASE s \in ChallengeNames -> ChallengeOf(p, s)
       [] s = "c" -> ProofC(p)
       [] s = "v" -> ProofV(p)
       [] OTHER -> p.part[<<"bridge_commitment",
            CASE s = "bridge_preamble_commitment"    -> "BridgePreamble"
              [] s = "bridge_s_prime_commitment"     -> "BridgeSPrime"
              [] s = "bridge_inner_error_commitment" -> "BridgeInnerError"
              [] s = "bridge_outer_error_commitment" -> "BridgeOuterError"
              [] s = "bridge_ab_commitment"          -> "BridgeAB"
              [] s = "bridge_query_commitment"       -> "BridgeQuery"
              [] s = "bridge_f_commitment"           -> "BridgeF"
              [] s = "bridge_eval_commitment"        -> "BridgeEval">>]]
-----------------------------------------------------------------------------
(* compute_endoscaling: every step's circuit is run on the witness it will *)
(* be checked against.  The result is [builder, commitment].               *)
ComputeEndoscaling(b, beta_endo, points) ==
  LET witness == PointsWitness(beta_endo, points)
      steps == [s \in 1 .. NumSteps |->
                  [mask |-> "PointsFinalStaged", step |-> s,
                   enforced |-> EndoscalingStep(beta_endo, witness, s)]]
      set == SetParts(b, "nested", [steps |-> steps,
                                    endoscalar |-> [mask |-> "EndoscalarStage", bits |-> beta_endo],
                                    points |-> [mask |-> "PointsStage"] @@ witness])
  IN  [builder |-> [set EXCEPT !.failed = @ \/ Len(points) # NUM_ENDOSCALING_POINTS],
       commitment |-> Last(witness.interstitials)]

OnesHost == [d \in 1 .. NumCoeffs |-> IF d \in {1, 2 * N, 2 * N + 1, 4 * N} THEN 1 ELSE 0]

(* trivial_proof: everything one, except what fuse will cross-check.       *)
OnesCommitment == HostCommit(OnesHost)
TrivialRx ==
  LET ids == SetParts(SetPart(NewBuilder(1), <<"id", "circuit_id">>, 0), "header",
                      [side \in {"left", "right"} |-> [i \in 1 .. HEADER_SIZE |-> 0]])
      rxs == SetRx(SetParts(ids, "rx", [n \in RxNames |-> OnesHost]), "RegistryXY", RegistryXY(1, 1))
  IN  SetWithCommitment(SetWithCommitment(rxs, "AbA", OnesHost, OnesCommitment),
                        "AbB", OnesHost, OnesCommitment)
TrivialBridges ==
  LET ones(stage) == BridgeRx(stage, 1, [i \in DOMAIN StageFields[stage] |-> OnesCommitment])
  IN  FoldLeft(LAMBDA b, stage : SetBridge(b, stage, ones(stage)), TrivialRx,
               <<"BridgeSPrime", "BridgeInnerError", "BridgeF">>)
TrivialPoints(xy) ==
  LET ones(n) == [i \in 1 .. n |-> OnesCommitment]
      child == ones(13) \o <<xy, OnesCommitment>>
  IN  <<OnesCommitment>> \o child \o child \o ones(5) \o <<xy>>
TrivialPreamble(scaled, xy) ==
  LET stashed == [n \in Native |-> CASE n = "RegistryXY" -> xy
                                     [] n = "P" -> scaled.commitment
                                     [] OTHER -> OnesCommitment]
  IN  SetBridge(SetWithCommitment(scaled.builder, "P", OnesHost, scaled.commitment),
                "BridgePreamble", BridgeRx("BridgePreamble", 1, PreambleValues(OnesCommitment, stashed, stashed)))
TrivialEndoscaled(b, xy) ==
  TrivialPreamble(ComputeEndoscaling(b, Extract(1), TrivialPoints(xy)), xy)
TrivialCached ==
  FoldLeft(ForceBridge, TrivialEndoscaled(TrivialBridges, Commitment(TrivialBridges, "RegistryXY")),
           <<"BridgeOuterError", "BridgeAB", "BridgeQuery", "BridgeEval">>)
OwnChild(b) ==
  SetParts(b, "child", [left |-> AsChildStageRx(b), right |-> AsChildStageRx(b)])
TrivialProof ==
  BuildProof(SetParts(OwnChild(TrivialCached), "challenge", [c \in ChallengeNames |-> 1]))
=============================================================================
