------------------------------ MODULE Registry ------------------------------
(***************************************************************************)
(* The registry of circuits (registry.rs): a builder with four lists, and  *)
(* the polynomial m(W, X, Y) that interpolates the circuits registered;    *)
(* and the application builder (ragu_pcd lib.rs) with the steps and        *)
(* headers it registers, and the circuit indices its two registries, the   *)
(* native and the nested one, are read back by.                            *)
(*                                                                         *)
(* A wiring object is a mask or a bivariate polynomial given by its terms  *)
(* <<i, j, c>>, c X^i Y^j: Wiring shows that the evaluators of a circuit   *)
(* agree on one such polynomial, and that it stays below Y^(4n-1).         *)
(* A header type is [type, suffix, width]; a step [index, left, right,     *)
(* output] names three header types; a circuit is the object ObjectOf      *)
(* gives to its name.                                                      *)
(***************************************************************************)
EXTENDS SparsePoly
LOCAL INSTANCE SequencesExt
LOCAL INSTANCE FiniteSetsExt

CONSTANTS KeySpace,          \* 2^64 in the code: what low_u64 keeps
          Wirings,           \* the objects a circuit may turn into
          Bondings,          \* the objects a bonding circuit may turn into
          MaxObjects,        \* objects registered directly, with no application
          HEADER_SIZE,       \* elements of an encoded header
          InternalsFit,      \* every internal circuit and mask fits the rank
          AppSteps,          \* the application's Step types
          Contents,          \* field elements a header's data may hold
          ObjectOf(_)        \* a circuit's or a mask's wiring object

VARIABLES builder,           \* RegistryBuilder: category -> sequence of objects
          registry,          \* Registry, or Nothing before finalize
          failed,            \* a registration or finalize returned an error
          header_map,        \* suffix -> the header type it was first seen with
          num_application_steps,
          hashes_log2,       \* log2_circuits as Hashes1 was built with
          nested,            \* [builder, registry] of the scalar field
          client,            \* who registers: "direct" or "application"
          accepted           \* ghost: the steps whose registration succeeded
registryVars    == <<builder, registry, failed>>
applicationVars == <<header_map, num_application_steps, hashes_log2, nested>>
vars            == <<registryVars, applicationVars, client, accepted>>

Nothing    == <<>>
DigestRounds == 6

IsMask(c) == c.mask
TermsXY(terms, x, y) ==
  FoldSet(LAMBDA t, acc : Plus(acc, Times(t[3], Times(Power(x, t[1]), Power(y, t[2])))), 0, terms)
Column(terms, k, at) ==     \* the coefficients of variable k, the other one at a point
  [d \in 1 .. NumCoeffs |->
     FoldSet(LAMBDA t, acc : Plus(acc, Times(t[3], Power(at, t[3 - k]))), 0,
             { t \in terms : t[k] = d - 1 })]

ObjectXY(c, x, y) == IF IsMask(c) THEN NotchXY(c, x, y) ELSE TermsXY(c.terms, x, y)
ObjectX(c, x) == IF IsMask(c) THEN NotchProject(c, x) ELSE FromCoeffs(Column(c.terms, 2, x))
ObjectY(c, y) == IF IsMask(c) THEN NotchProject(c, y) ELSE FromCoeffs(Column(c.terms, 1, y))

(* CircuitIndex::omega_j, for the index that circuit of this place has.    *)
OmegaJ(index) == Power(ROOT, BitReverse(index, S))
OmegaKey(f)   == Times(5, f) % KeySpace
-----------------------------------------------------------------------------
NumCircuits(b)  == Len(b.internal_circuits) + Len(b.bonding) + Len(b.internal_steps)
                     + Len(b.application_steps)
NumInternal(b)  == Len(b.internal_circuits) + Len(b.bonding)
Log2Circuits(b) == Log2Ceil(NumCircuits(b))
Concatenated(b) ==
  b.internal_circuits \o b.bonding \o b.internal_steps \o b.application_steps

ASSUME KeyAssumption ==      \* the code's own assumption on OmegaKey
  \A i, j \in 0 .. 2 ^ S - 1 : OmegaKey(OmegaJ(i)) = OmegaKey(OmegaJ(j)) => OmegaJ(i) = OmegaJ(j)

(* Mutant of PlaceOf: circuits take the powers of omega as they come.      *)
PlaceInOrder(index, log2) == index
(* The power of the domain's omega the circuit of this index is put at.    *)
PlaceOf(index, log2) == BitReverse(index, log2)

OmegaLookup(circuits, log2) ==
  LET keyed(i) == OmegaKey(Power(NewDomain[log2].omega, PlaceOf(i - 1, log2)))
      keys     == { keyed(i) : i \in DOMAIN circuits }
  IN  [k \in keys |-> Max({ i \in DOMAIN circuits : keyed(i) = k })]
-----------------------------------------------------------------------------
(* Registry::at: the Lagrange coefficients at w, or the circuit w names.   *)
(* Mutant of MaskCoeffSum: coefficients taken in registration order.       *)
MaskCoeffSumInOrder(reg, cache) ==
  CASE cache.kind = "Interpolate" ->
         FoldLeft(LAMBDA acc, i : IF IsMask(reg.circuits[i]) THEN Plus(acc, cache.coeffs[i])
                                  ELSE acc, 0, [i \in DOMAIN reg.circuits |-> i])
    [] cache.kind = "Direct" -> IF IsMask(reg.circuits[cache.index]) THEN 1 ELSE 0
    [] cache.kind = "Empty" -> 0
MaskCoeffSum(reg, cache) ==
  CASE cache.kind = "Interpolate" ->
         FoldLeft(LAMBDA acc, i : IF IsMask(reg.circuits[i])
                                    THEN Plus(acc, cache.coeffs[BitReverse(i - 1, reg.log2) + 1])
                                    ELSE acc, 0, [i \in DOMAIN reg.circuits |-> i])
    [] cache.kind = "Direct" -> IF IsMask(reg.circuits[cache.index]) THEN 1 ELSE 0
    [] cache.kind = "Empty" -> 0

At(reg, w) ==
  LET ell   == Ell(NewDomain[reg.log2], w, 2 ^ reg.log2)
      cache == CASE ell # <<>> -> [kind |-> "Interpolate", coeffs |-> ell]
                 [] ell = <<>> /\ OmegaKey(w) \in DOMAIN reg.omega_lookup ->
                      [kind |-> "Direct", index |-> reg.omega_lookup[OmegaKey(w)]]
                 [] OTHER -> [kind |-> "Empty"]
  IN  [registry |-> reg, cache |-> cache, mask_coeff_sum |-> MaskCoeffSum(reg, cache)]

(* w_cached: which circuits count, and with which coefficient.             *)
Weighted(at) ==
  LET circuits == at.registry.circuits
      index(j) == BitReverse(j - 1, at.registry.log2) + 1
  IN  CASE at.cache.kind = "Interpolate" ->
             SelectSeq([j \in DOMAIN at.cache.coeffs |-> <<index(j), at.cache.coeffs[j]>>],
                       LAMBDA p : p[1] \in DOMAIN circuits)
        [] at.cache.kind = "Direct" -> << <<at.cache.index, 1>> >>
        [] at.cache.kind = "Empty" -> <<>>

KeyXY(reg, x, y) == IF x = 0 \/ y = 0 THEN 0 ELSE Times(reg.key, Power(Times(x, y), 4 * N - 1))
Added(p, q) == CombineAssign(p, q, "add")

AtXY(at, x, y) ==                                          \* RegistryAt::xy
  LET circuits == FoldLeft(LAMBDA acc, p :
        Plus(acc, Times(ObjectXY(at.registry.circuits[p[1]], x, y), p[2])), 0, Weighted(at))
  IN  Plus(Plus(circuits, Times(at.mask_coeff_sum, GlobalMask(x, y))), KeyXY(at.registry, x, y))

AtY(at, y) ==                                              \* RegistryAt::y
  LET circuits == FoldLeft(LAMBDA acc, p :
        Added(acc, Scale(ObjectY(at.registry.circuits[p[1]], y), p[2])), <<>>, Weighted(at))
      masked == Added(circuits, Scale(GlobalProject(y), at.mask_coeff_sum))
  IN  IF y = 0 THEN masked
      ELSE Added(masked, BuildWiring([None4 EXCEPT
             !.c = <<Times(at.registry.key, Power(y, 4 * N - 1))>>]))

AtX(at, x) ==                                              \* RegistryAt::x
  LET circuits == FoldLeft(LAMBDA acc, p :
        Added(acc, Scale(ObjectX(at.registry.circuits[p[1]], x), p[2])), <<>>, Weighted(at))
      masked == Added(circuits, Scale(GlobalProject(x), at.mask_coeff_sum))
  IN  IF x = 0 THEN masked
      ELSE Added(masked, FromCoeffs([d \in 1 .. NumCoeffs |->
             IF d = NumCoeffs THEN Times(at.registry.key, Power(x, 4 * N - 1)) ELSE 0]))

RegistryXY(reg, x, y) ==                                   \* Registry::xy, in W
  LET n == 2 ^ reg.log2
      value(i) == Plus(ObjectXY(reg.circuits[i], x, y),
                       IF IsMask(reg.circuits[i]) THEN GlobalMask(x, y) ELSE 0)
      evals == [p \in 1 .. n |->
                  LET i == BitReverse(p - 1, reg.log2) + 1
                  IN  IF i \in DOMAIN reg.circuits THEN value(i) ELSE 0]
      coeffs == Ifft(NewDomain[reg.log2], evals)
  IN  FromCoeffs(Padded([coeffs EXCEPT ![1] = Plus(@, KeyXY(reg, x, y))], NumCoeffs))

WXY(reg, w, x, y)    == AtXY(At(reg, w), x, y)
WX(reg, w, x)        == AtX(At(reg, w), x)
WY(reg, w, y)        == AtY(At(reg, w), y)
CircuitY(reg, i, y)  == WY(reg, OmegaJ(i), y)
CircuitXY(reg, i, x, y) == WXY(reg, OmegaJ(i), x, y)
CircuitInDomain(reg, i) == Belongs(NewDomain[reg.log2], OmegaJ(i))
-----------------------------------------------------------------------------
(* The digest: each evaluation seeds the next point.  BLAKE2b is any       *)
(* function of what it has absorbed.                                       *)
Blake(state, eval)          == (131 * state + 17 * eval + 29) % 65536
FieldFromHash(state, index) == (state \div (index + 1) + 7 * index) % P

Digest(reg) ==
  LET round[k \in 0 .. DigestRounds] ==
        IF k = 0 THEN [hash |-> 0, w |-> 2 % P, x |-> 3 % P, y |-> 5 % P]
        ELSE LET s == round[k - 1]
                 h == Blake(s.hash, WXY(reg, s.w, s.x, s.y))
             IN  [hash |-> h, w |-> FieldFromHash(h, 0), x |-> FieldFromHash(h, 1),
                  y |-> FieldFromHash(h, 2)]
  IN  FieldFromHash(Blake(round[DigestRounds].hash, 0), 0)

Provisional(b) ==
  [log2 |-> Log2Circuits(b), circuits |-> Concatenated(b), key |-> 1,
   omega_lookup |-> OmegaLookup(Concatenated(b), Log2Circuits(b))]
Keyed(reg) == [reg EXCEPT !.key = Digest(reg)]

EmptyBuilder == [internal_circuits |-> <<>>, bonding |-> <<>>, internal_steps |-> <<>>,
                 application_steps |-> <<>>]
InitRegistry == builder = EmptyBuilder /\ registry = Nothing /\ failed = FALSE

WithObject(b, category, c) == [b EXCEPT ![category] = Append(@, c)]
Open == registry = Nothing /\ ~failed

(* register_circuit, register_internal_circuit, register_internal_step:    *)
(* a circuit out of bounds is an error, and the builder is gone.           *)
RegisterCircuit(category) ==
  /\ Open /\ category # "bonding"
  /\ \E c \in Wirings :
       \/ builder' = WithObject(builder, category, c) /\ UNCHANGED failed
       \/ failed' = TRUE /\ UNCHANGED builder
  /\ UNCHANGED registry

RegisterBonding(objects) ==
  /\ Open
  /\ \E c \in objects : builder' = WithObject(builder, "bonding", c)
  /\ UNCHANGED <<registry, failed>>

Finalize ==
  /\ Open
  /\ IF NumCircuits(builder) > NumCoeffs
       THEN failed' = TRUE /\ UNCHANGED registry
       ELSE registry' = Keyed(Provisional(builder)) /\ UNCHANGED failed
  /\ UNCHANGED builder
-----------------------------------------------------------------------------
NUM_INTERNAL_SUFFIXES == 2
NUM_INTERNAL_STEPS    == 2
NUM_ENDOSCALING_POINTS == 37
ENDOSCALINGS_PER_STEP == 4

Internal(i)   == [kind |-> "Internal", value |-> i]
UserDefined(i) == [kind |-> "Application", value |-> i]

(* Mutant of SuffixGet: application suffixes are not shifted.              *)
SuffixUnshifted(s) == s.value
(* Suffix::get: the element that ends an encoding.  The code adds in       *)
(* usize: an application suffix is taken to be at most usize::MAX - 2, as   *)
(* the addition overflows above it.                                        *)
SuffixGet(s) == IF s.kind = "Internal" THEN s.value ELSE s.value + NUM_INTERNAL_SUFFIXES

UnitHeader == [type |-> "unit", suffix |-> Internal(1), width |-> 0]
HeaderTypes == {UnitHeader} \cup UNION { {s.left, s.right, s.output} : s \in AppSteps }

(* A type fixes its suffix and its width; only ragu's own headers have     *)
(* internal suffixes (Suffix::internal is private to the crate).           *)
ASSUME ApplicationAssumption ==
  /\ HEADER_SIZE \in Nat \ {0} /\ InternalsFit \in BOOLEAN
  /\ \A h \in HeaderTypes :
       h.width \in Nat /\ (h = UnitHeader \/ h.suffix \in [kind : {"Application"}, value : Nat])
  /\ \A h, g \in HeaderTypes : h.type = g.type => h = g

DataOf(h)  == [1 .. h.width -> Contents]
-----------------------------------------------------------------------------
(* Padded: the content through a buffer that counts, zeros up to           *)
(* HEADER_SIZE - 1, the suffix.  A wire is [how, value].                   *)
Wire(how, v) == [how |-> how, value |-> v]
Fits(h) == h.width <= HEADER_SIZE - 1
PaddedWires(h, data) ==
  [i \in 1 .. h.width |-> Wire("alloc", data[i])]
    \o [i \in 1 .. HEADER_SIZE - 1 - h.width |-> Wire("constant", 0)]
    \o <<Wire("constant", SuffixGet(h.suffix))>>

(* Encoded: by its gadget, or uniformly, every element a fresh wire.       *)
GadgetWires(h, data)  == PaddedWires(h, data)
UniformWires(h, data) == [i \in 1 .. HEADER_SIZE |-> Wire("alloc", PaddedWires(h, data)[i].value)]
EncodedHeader(h, data) == [i \in 1 .. HEADER_SIZE |-> PaddedWires(h, data)[i].value]

Rerandomize(h) == [index |-> Internal(0), left |-> h, right |-> UnitHeader, output |-> h]
Trivial == [index |-> Internal(1), left |-> UnitHeader, right |-> UnitHeader, output |-> UnitHeader]

(* Adapter::witness: the three headers, one after the other.               *)
AdapterWires(s, left, right, output) ==
  IF s.index = Internal(0)
    THEN UniformWires(s.left, left) \o GadgetWires(s.right, right) \o UniformWires(s.left, left)
    ELSE GadgetWires(s.left, left) \o GadgetWires(s.right, right) \o GadgetWires(s.output, output)
AdapterFits(s) == Fits(s.left) /\ Fits(s.right) /\ Fits(s.output)
Shape(wires)   == [i \in DOMAIN wires |-> wires[i].how]
-----------------------------------------------------------------------------
(* InternalCircuitIndex::ALL of both registries: circuits, then masks and  *)
(* bonding circuits.                                                       *)
NativeCircuits == << <<"Hashes1Circuit">>, <<"Hashes2Circuit">>, <<"InnerCollapseCircuit">>,
                     <<"OuterCollapseCircuit">>, <<"ComputeVCircuit">> >>
NativeStages == << <<"PreambleStage">>, <<"InnerErrorStage">>, <<"OuterErrorStage">>,
                   <<"QueryStage">>, <<"EvalStage">>, <<"InnerErrorFinalStaged">>,
                   <<"OuterErrorFinalStaged">>, <<"EvalFinalStaged">> >>
NativeAll == NativeCircuits \o NativeStages
NativeNUM == 13

NumSteps(points)  ==
  LET steps == (points - 1 + ENDOSCALINGS_PER_STEP - 1) \div ENDOSCALINGS_PER_STEP
  IN  IF 1 > steps THEN 1 ELSE steps
EndoscalingSteps  == [i \in 1 .. NumSteps(NUM_ENDOSCALING_POINTS) |-> <<"EndoscalingStep", i - 1>>]
NestedBonding == << <<"EndoscalarStage">>, <<"PointsStage">>, <<"PointsFinalStaged">>,
                    <<"BridgePreamble">>, <<"BridgeSPrime">>, <<"BridgeInnerError">>,
                    <<"BridgeOuterError">>, <<"BridgeAB">>, <<"BridgeQuery">>, <<"BridgeF">>,
                    <<"BridgeEval">>, <<"Loading">>, <<"Copying", "Left">>, <<"Copying", "Right">> >>
NestedAll == EndoscalingSteps \o NestedBonding

PositionIn(all, id) == (CHOOSE i \in DOMAIN all : all[i] = id) - 1
NativeCircuitIndex(id) == PositionIn(NativeAll, id)
NestedCircuitIndex(id) == PositionIn(NestedAll, id)

(* Mutant of StepCircuitIndex: application steps ahead of the internal     *)
(* ones.                                                                   *)
StepCircuitAhead(index, steps) ==
  CASE index.kind = "Internal" -> NativeNUM + index.value
    [] index.kind = "Application" /\ index.value < steps -> NativeNUM + index.value
    [] OTHER -> -1
(* Index::circuit_index, -1 for its error.                                 *)
StepCircuitIndex(index, steps) ==
  CASE index.kind = "Internal" -> NativeNUM + index.value
    [] index.kind = "Application" /\ index.value < steps ->
         NUM_INTERNAL_STEPS + NativeNUM + index.value
    [] OTHER -> -1

TotalCircuits(steps) == steps + NUM_INTERNAL_STEPS + NativeNUM
-----------------------------------------------------------------------------
InitApplication ==
  /\ InitRegistry
  /\ header_map = <<>> /\ num_application_steps = 0 /\ hashes_log2 = 0
  /\ nested = [builder |-> EmptyBuilder, registry |-> Nothing]

(* prevent_duplicate_suffixes, over a step's headers in the code's order.  *)
Conflicts(map, h) == h.suffix \in DOMAIN map /\ map[h.suffix] # h.type
Remember(map, h)  == IF h.suffix \in DOMAIN map THEN map
                     ELSE [s \in DOMAIN map \cup {h.suffix} |->
                             IF s = h.suffix THEN h.type ELSE map[s]]
Sees(acc, h) ==
  IF acc.ok /\ ~Conflicts(acc.map, h) THEN [ok |-> TRUE, map |-> Remember(acc.map, h)]
  ELSE [ok |-> FALSE, map |-> acc.map]
(* Mutant of SuffixesAfter: the right header is forgotten.                 *)
SuffixesAfterTwo(map, s) == Sees(Sees([ok |-> TRUE, map |-> map], s.output), s.left)
SuffixesAfter(map, s) == Sees(Sees(Sees([ok |-> TRUE, map |-> map], s.output), s.left), s.right)

StepCircuit(s) == ObjectOf(<<"step", s.index>>)
Register(s) ==
  LET seen == SuffixesAfter(header_map, s)
  IN  /\ Open
      /\ IF s.index = UserDefined(num_application_steps) /\ seen.ok /\ AdapterFits(s)
           THEN /\ builder' = WithObject(builder, "application_steps", StepCircuit(s))
                /\ num_application_steps' = num_application_steps + 1
                /\ header_map' = seen.map
                /\ UNCHANGED failed
           ELSE failed' = TRUE /\ UNCHANGED <<builder, num_application_steps, header_map>>
      /\ UNCHANGED <<registry, hashes_log2, nested>>

PushAll(b, category, ids) == [b EXCEPT ![category] = @ \o [i \in DOMAIN ids |-> ObjectOf(ids[i])]]
NativeRegisterAll(b) ==
  PushAll(PushAll(b, "internal_circuits", NativeCircuits), "bonding", NativeStages)
NestedRegisterAll(b) ==
  PushAll(PushAll(b, "internal_circuits", EndoscalingSteps), "bonding", NestedBonding)

(* An error of register_all or register_internal_step, of either registry, *)
(* is that of an internal circuit or mask too large for the rank; it does  *)
(* not depend on what the application registered.                          *)
FinalizeApplication ==
  LET log2 == Log2Ceil(TotalCircuits(num_application_steps))
      full == PushAll(NativeRegisterAll(builder), "internal_steps",
                      << <<"step", Rerandomize(UnitHeader).index>>, <<"step", Trivial.index>> >>)
      nest == NestedRegisterAll(nested.builder)
  IN  /\ Open
      /\ IF /\ InternalsFit
            /\ Log2Circuits(full) = log2
            /\ NumCircuits(full) = TotalCircuits(num_application_steps)
            /\ NumCircuits(full) <= NumCoeffs /\ NumCircuits(nest) <= NumCoeffs
           THEN /\ builder' = full /\ hashes_log2' = log2
                /\ registry' = Keyed(Provisional(full))
                /\ nested' = [builder |-> nest, registry |-> Keyed(Provisional(nest))]
                /\ UNCHANGED failed
           ELSE failed' = TRUE /\ UNCHANGED <<builder, hashes_log2, registry, nested>>
      /\ UNCHANGED <<header_map, num_application_steps>>

-----------------------------------------------------------------------------
Init == InitApplication /\ client \in {"direct", "application"} /\ accepted = <<>>

DirectNext ==
  /\ client = "direct" /\ NumCircuits(builder) < MaxObjects
  /\ \/ \E category \in {"internal_circuits", "application_steps"} :
          RegisterCircuit(category)
     \/ RegisterBonding(Bondings)
  /\ UNCHANGED <<header_map, num_application_steps, hashes_log2, nested, client, accepted>>
DirectFinalize ==
  /\ client = "direct" /\ Finalize
  /\ UNCHANGED <<header_map, num_application_steps, hashes_log2, nested, client, accepted>>
AppRegister ==
  /\ client = "application"
  /\ \E s \in AppSteps : Register(s) /\ accepted' = IF failed' THEN accepted ELSE Append(accepted, s)
  /\ UNCHANGED client
AppFinalize == client = "application" /\ FinalizeApplication /\ UNCHANGED <<client, accepted>>
Next == DirectNext \/ DirectFinalize \/ AppRegister \/ AppFinalize
Spec == Init /\ [][Next]_vars

Finalized == registry # Nothing
AcceptedSteps   == { accepted[k] : k \in DOMAIN accepted }
AcceptedHeaders == {UnitHeader} \cup UNION { {s.left, s.right, s.output} : s \in AcceptedSteps }

(* Every internal circuit, mask and step is at the index its identifier    *)
(* gives, in both registries, whatever steps were registered before it; a  *)
(* step that was not registered is refused, and Hashes1 was built for the  *)
(* domain the registry has (native/mod.rs, nested/mod.rs, step/mod.rs).    *)
StepsFindTheirCircuits ==
  client = "application" /\ Finalized =>
    /\ \A k \in DOMAIN NativeAll :
         registry.circuits[NativeCircuitIndex(NativeAll[k]) + 1] = ObjectOf(NativeAll[k])
    /\ \A k \in DOMAIN NestedAll :
         nested.registry.circuits[NestedCircuitIndex(NestedAll[k]) + 1] = ObjectOf(NestedAll[k])
    /\ \A s \in {Rerandomize(h) : h \in AcceptedHeaders} \cup {Trivial} \cup AcceptedSteps :
         registry.circuits[StepCircuitIndex(s.index, num_application_steps) + 1] = StepCircuit(s)
    /\ StepCircuitIndex(UserDefined(Len(accepted)), num_application_steps) = -1
    /\ hashes_log2 = registry.log2

(* Among the headers of the steps an application accepted, and the unit    *)
(* header, an encoding names one header type and one value of it; and the  *)
(* rerandomization circuit is the same for every header and carries its    *)
(* encoding through (lib.rs register, padded.rs, rerandomize.rs).          *)
EncodingsIdentifyHeaders ==
  /\ \A h, g \in AcceptedHeaders : \A a \in DataOf(h), b \in DataOf(g) :
       EncodedHeader(h, a) = EncodedHeader(g, b) => h = g /\ a = b
  /\ \A h \in AcceptedHeaders : \A a \in DataOf(h) :
       LET wires == AdapterWires(Rerandomize(h), a, <<>>, a)
       IN  /\ Shape(wires) = Shape(AdapterWires(Rerandomize(UnitHeader), <<>>, <<>>, <<>>))
           /\ \A i \in 1 .. HEADER_SIZE :
                wires[i] = wires[2 * HEADER_SIZE + i] /\ wires[i].value = EncodedHeader(h, a)[i]
=============================================================================
