-------------------------------- MODULE Fuse --------------------------------
(***************************************************************************)
(* Application::fuse phase by phase (fuse/mod.rs and its _01 .. _11), and  *)
(* seed, rerandomize and verify on top of it (lib.rs, verify.rs).  A pcd   *)
(* is [proof, header]: its proof and its data as encoded, suffix last.     *)
(* The polynomial of a native stage or circuit is a digest of what is in   *)
(* it; the claims about those of a child need not hold as numbers, so the  *)
(* circuits' equality of c is followed up to the children's own defects.   *)
(*                                                                         *)
(* The five internal circuits a fuse runs (internal/native/circuits) come  *)
(* first, on the witnesses of the native stages (internal/native/stages):  *)
(*   preamble  per side [left, right, output_header, circuit_id, unified]; *)
(*   inner     the error terms of each group;                              *)
(*   outer     [errors, collapsed, ky, sponge_state];                      *)
(*   query     per side the child's evaluations at x and xz, and the       *)
(*             registry's; eval the evaluations at u.                      *)
(* A circuit ends with [instance, output, enforced]: the coverage it       *)
(* leaves, its public output, whether all it enforced held.                *)
(***************************************************************************)
EXTENDS Proof, Sponge, FiniteSets
LOCAL INSTANCE SequencesExt

CONSTANTS RAGU_TAG,
          Log2Circuits

TwoSides == {"left", "right"}

(* ProofInputs::alloc, of a proof next to the header it is claimed to have.*)
ProofInputs(p, output_header) ==
  [left |-> HeaderOf(p, "left"), right |-> HeaderOf(p, "right"), output_header |-> output_header,
   circuit_id |-> OmegaJ(CircuitId(p)), unified |-> UnifiedValues(p)]

ApplicationKy(inputs, y) == FinishKy(inputs.left \o inputs.right \o inputs.output_header, y)
UnifiedKy(inputs, y)     == FinishKy(Written(inputs.unified) \o <<0>>, y)
UnifiedBridgeKy(inputs, y) ==
  FinishKy(Written(inputs.unified) \o inputs.left \o inputs.right \o <<0>>, y)
ChildKy(inputs, y) ==
  [application |-> ApplicationKy(inputs, y), unified |-> UnifiedKy(inputs, y),
   unified_bridge |-> UnifiedBridgeKy(inputs, y), raw_c |-> inputs.unified.c]

IsTrivial(inputs)    == Last(inputs.output_header) = 1
IsBaseCase(preamble) == IsTrivial(preamble.left) /\ IsTrivial(preamble.right)

Finish(run, instance, suffix) ==
  [instance |-> Cover(instance, run), output |-> Written(Output(run)) \o suffix \o <<0>>,
   enforced |-> run.enforced]
-----------------------------------------------------------------------------
(* A transcript in a circuit: commitments come in through their slots,     *)
(* challenges go out through theirs.                                       *)
Absorbing(slot) == <<"receive", slot>>
Drawing(slot)   == <<"provide", slot>>
RunScript(run, sponge, script) ==
  FoldLong(LAMBDA acc, op :
             IF op[1] = "receive"
               THEN LET received == Receive(acc.run, op[2])
                    IN  [run |-> received, sponge |-> SpongeAbsorb(acc.sponge, received.value[op[2]])]
               ELSE LET drawn == SpongeSqueeze(acc.sponge)
                    IN  [run |-> Provide(acc.run, op[2], drawn.value), sponge |-> drawn.sponge],
           [run |-> run, sponge |-> sponge], script)

Hashes1(w, instance) ==
  LET roots == EnforceEqual(OutputBuilder(instance),
                 << Power(w.preamble.left.circuit_id, 2 ^ Log2Circuits),
                    Power(w.preamble.right.circuit_id, 2 ^ Log2Circuits) >>, <<1, 1>>)
      end == RunScript(roots, Tagged(RAGU_TAG),
               << Absorbing("bridge_preamble_commitment"), Drawing("w"),
                  Absorbing("bridge_s_prime_commitment"), Drawing("y"), Drawing("z"),
                  Absorbing("bridge_inner_error_commitment") >>)
      saved == EnforceEqual(end.run, SaveState(end.sponge).value, w.outer.sponge_state)
  IN  Finish(saved, instance, w.preamble.left.output_header \o w.preamble.right.output_header)

(* Mutant of Hashes2: the commitment of f is read, no circuit covers it.   *)
Hashes2Reading(w, instance) ==
  LET to_f == RunScript(OutputBuilder(instance), Resume(w.outer.sponge_state),
               << Drawing("mu"), Drawing("nu"),
                  Absorbing("bridge_outer_error_commitment"), Drawing("mu_prime"), Drawing("nu_prime"),
                  Absorbing("bridge_ab_commitment"), Drawing("x"),
                  Absorbing("bridge_query_commitment"), Drawing("alpha") >>)
      f == Read(to_f.run, "bridge_f_commitment")
  IN  Finish(RunScript(f, SpongeAbsorb(to_f.sponge, f.value["bridge_f_commitment"]),
               << Drawing("u"), Absorbing("bridge_eval_commitment"), Drawing("pre_beta") >>).run,
             instance, <<>>)
Hashes2(w, instance) ==
  Finish(RunScript(OutputBuilder(instance), Resume(w.outer.sponge_state),
           << Drawing("mu"), Drawing("nu"),
              Absorbing("bridge_outer_error_commitment"), Drawing("mu_prime"), Drawing("nu_prime"),
              Absorbing("bridge_ab_commitment"), Drawing("x"),
              Absorbing("bridge_query_commitment"), Drawing("alpha"),
              Absorbing("bridge_f_commitment"), Drawing("u"),
              Absorbing("bridge_eval_commitment"), Drawing("pre_beta") >>).run, instance, <<>>)
-----------------------------------------------------------------------------
SideNames == <<"left", "right">>

(* Every group of claims collapses to the value the next layer folds.      *)
Collapse(mu, nu, inner, ky) ==
  LET groups == KyGroups(ky, SideNames)
  IN  FoldLong(LAMBDA acc, g : Append(acc, FoldProducts(mu, nu, inner[g], groups[g])), <<>>,
               [g \in 1 .. NumGroups |-> g])

(* The children's k(y) as the circuits know them: c comes from preamble.   *)
KySource(w) == [s \in TwoSides |-> [w.outer.ky[s] EXCEPT !.raw_c = w.preamble[s].unified.c]]

InnerCollapse(w, instance) ==
  LET run == EachSlot(OutputBuilder(instance), <<"mu", "nu">>, "read")
  IN  Finish(EnforceEqual(run, Collapse(run.value["mu"], run.value["nu"], w.inner, KySource(w)),
                          w.outer.collapsed), instance, <<>>)

(* What the enforced equality of c would be off by: off is 0 in a base     *)
(* case, where nothing is enforced.                                        *)
OuterCollapse(w, instance) ==
  LET run == EachSlot(OutputBuilder(instance), <<"y">>, "read")
      kys == EnforceEqual(run, KySource(w), [s \in TwoSides |-> ChildKy(w.preamble[s], run.value["y"])])
      folding == EachSlot(kys, <<"mu_prime", "nu_prime">>, "read")
      computed_c == FoldProducts(folding.value["mu_prime"], folding.value["nu_prime"],
                                 w.outer.errors, w.outer.collapsed)
      run_c == Receive(folding, "c")
      off == IF IsBaseCase(w.preamble) THEN 0 ELSE Minus(run_c.value["c"], computed_c)
  IN  [circuit |-> Finish(run_c, instance, <<>>), off |-> off]
-----------------------------------------------------------------------------
(* compute_axbx: a(xz) and b(x) of the folded claim, from its claims'.     *)
ComputeAxBx(query, z, txz, ch) ==
  LET claims == Build(SideNames, SideNames)
      at == FoldLong(LAMBDA acc, k : Append(acc, SidesAt(query, claims[k], z, txz)), <<>>,
                     [k \in DOMAIN claims |-> k])
  IN  [ax |-> FoldTwoLayer([k \in DOMAIN at |-> at[k].ax], Reciprocal(ch["mu"]), Reciprocal(ch["mu_prime"])),
       bx |-> FoldTwoLayer([k \in DOMAIN at |-> at[k].bx], Times(ch["mu"], ch["nu"]),
                           Times(ch["mu_prime"], ch["nu_prime"]))]

(* poly_queries: a polynomial's value at u, its claimed value at a point,  *)
(* the point.                                                              *)
Asking(pu, v, point) == [pu |-> pu, v |-> v, point |-> point]
PolyQueries(w, ch, computed) ==
  LET eval == w.eval
      query == w.query
      xz == Times(ch["x"], ch["z"])
      unified(side) == w.preamble[side].unified
      per_child(side) ==
        [i \in DOMAIN RxIndex |-> Asking(eval[side][RxIndex[i]], query[side].at_xz[RxIndex[i]], xz)]
      ab(side) == << Asking(eval[side].AbA, query[side].at_xz["AbA"], xz),
                     Asking(eval[side].AbB, query[side].b_at_x, ch["x"]) >>
      fixed == [i \in DOMAIN InternalCircuitIndex |->
                  Asking(eval.current.registry_xy, query.fixed_registry[i], OmegaJ(i - 1))]
  IN  << Asking(eval.left.P, unified("left").v, unified("left").u),
         Asking(eval.right.P, unified("right").v, unified("right").u),
         Asking(eval.left.RegistryXY, query.left.registry_xy_at_w, ch["w"]),
         Asking(eval.right.RegistryXY, query.right.registry_xy_at_w, ch["w"]),
         Asking(eval.current.registry_wx0, query.left.registry_xy_at_w, unified("left").y),
         Asking(eval.current.registry_wx1, query.right.registry_xy_at_w, unified("right").y),
         Asking(eval.current.registry_wx0, query.left.registry_wy_at_child_x, ch["y"]),
         Asking(eval.current.registry_wx1, query.right.registry_wy_at_child_x, ch["y"]),
         Asking(eval.current.registry_wy, query.left.registry_wy_at_child_x, unified("left").x),
         Asking(eval.current.registry_wy, query.right.registry_wy_at_child_x, unified("right").x),
         Asking(eval.current.registry_wy, query.registry_wxy, ch["x"]),
         Asking(eval.current.registry_xy, query.registry_wxy, ch["w"]),
         Asking(eval.current.registry_xy, query.left.registry_xy_at_circuit_id, w.preamble.left.circuit_id),
         Asking(eval.current.registry_xy, query.right.registry_xy_at_circuit_id, w.preamble.right.circuit_id) >>
      \o ab("left") \o ab("right")
      \o << Asking(eval.current.a, computed.ax, xz), Asking(eval.current.b, computed.bx, ch["x"]) >>
      \o per_child("left") \o per_child("right") \o fixed

(* eval::Output in the order it is written.                                *)
EvalWritten(eval) ==
  [i \in DOMAIN ChildFields |-> eval.left[ChildFields[i]]]
    \o [i \in DOMAIN ChildFields |-> eval.right[ChildFields[i]]]
    \o << eval.current.registry_wx0, eval.current.registry_wx1, eval.current.registry_wy,
          eval.current.a, eval.current.b, eval.current.registry_xy >>

(* v is computed from what p was combined of, never from p.                *)
VOfQueries(w, instance, run, queries) ==
  LET ch == run.value
      denominators == [k \in DOMAIN queries |-> Minus(ch["u"], queries[k].point)]
      fu == Horner([k \in DOMAIN queries |->
                      Times(Minus(queries[k].pu, queries[k].v), Reciprocal(denominators[k]))], ch["alpha"])
      invertible == \A e \in {ch["x"], ch["z"], ch["mu"], ch["mu_prime"]} \union
                             {denominators[k] : k \in DOMAIN denominators} : e # 0
      predicted == TxzPredicted(ch["x"], ch["z"]) = TxzExecuted(ch["x"], ch["z"])
  IN  Finish(Provide([run EXCEPT !.enforced = @ /\ invertible /\ predicted], "v",
                     Horner(<<fu>> \o EvalWritten(w.eval), Lift(Extract(ch["pre_beta"])))), instance, <<>>)
VOfRun(w, instance, run) ==
  LET ch == run.value
  IN  VOfQueries(w, instance, run,
        PolyQueries(w, ch, ComputeAxBx(w.query, ch["z"], TxzExecuted(ch["x"], ch["z"]), ch)))
ComputeV(w, instance) ==
  VOfRun(w, instance, EachSlot(OutputBuilder(instance),
    <<"pre_beta", "w", "y", "z", "x", "mu", "nu", "mu_prime", "nu_prime", "alpha", "u">>, "read"))
-----------------------------------------------------------------------------
CONSTANTS Steps,        \* registered steps: [circuit, left, right, output], suffixes
          DataValues,   \* data of an output header
          Randomness,   \* seeds of the random number generator
          MaxFuses

VARIABLES pcds,      \* the proof-carrying data produced so far
          seeded,    \* seeded_trivial: a pcd once made, or <<>>
          goal,      \* "fuse", or "seed" while rerandomize makes its trivial
          phase,     \* the phase of fuse to run next, or "idle"
          job,       \* the step being run: [circuit, left, right, header, rng]
          builder, sponge,
          local,     \* the values later phases use, by name
          waiting       \* the pcd rerandomize waits with, or <<>>
vars == <<pcds, seeded, goal, phase, job, builder, sponge, local, waiting>>

RerandomizeCircuit == 13
TrivialCircuit     == 14
UnitSuffix         == 1
EncodedHeader(data, suffix) ==
  [i \in 1 .. HEADER_SIZE |-> IF i = 1 THEN data ELSE IF i = HEADER_SIZE THEN suffix ELSE 0]
UnitHeader == EncodedHeader(0, UnitSuffix)

Random(k) == Plus(Times(job.rng, k), k)             \* the k-th draw
(* StageExt::rx and Registry::assemble, as a digest.                       *)
RxDigest(alpha, values) ==
  FoldLong(LAMBDA acc, d : Append(acc, Horner(<<alpha>> \o values, d + 1)), <<>>,
           [d \in 1 .. NumCoeffs |-> d])

InputsWritten(inputs) ==
  inputs.left \o inputs.right \o inputs.output_header \o <<inputs.circuit_id>> \o Written(inputs.unified)
QueryWritten(q) ==
  [i \in DOMAIN RxIndex |-> q.at_xz[RxIndex[i]]]
    \o <<q.at_xz["AbA"], q.b_at_x, q.registry_xy_at_w, q.registry_xy_at_circuit_id, q.registry_wy_at_child_x>>
KyWritten(ky) == <<ky.application, ky.unified, ky.unified_bridge>>

(* StageExt::rx of the native stages, from their witnesses.                *)
PreambleRx(w)   == RxDigest(Random(2), InputsWritten(w.left) \o InputsWritten(w.right))
InnerErrorRx(w) == RxDigest(Random(5), FlattenSeq(w))
OuterErrorRx(w) == RxDigest(Random(7), w.errors \o w.collapsed \o KyWritten(w.ky["left"])
                                         \o KyWritten(w.ky["right"]) \o w.sponge_state)
QueryRx(w)      == RxDigest(Random(8), w.fixed_registry \o <<w.registry_wxy>>
                                         \o QueryWritten(w.left) \o QueryWritten(w.right))
EvalRx(w)       == RxDigest(Random(10), EvalWritten(w))
StageRx(w) == [Preamble |-> PreambleRx(w.preamble), InnerError |-> InnerErrorRx(w.inner),
               OuterError |-> OuterErrorRx(w.outer), Query |-> QueryRx(w.query), Eval |-> EvalRx(w.eval)]

(* The stages the witness of a circuit is built over, in their order: its  *)
(* trace lies after the last of them.                                      *)
CircuitStages ==
  [Hashes1 |-> <<"Preamble", "OuterError">>, Hashes2 |-> <<"OuterError">>,
   InnerCollapse |-> <<"Preamble", "OuterError", "InnerError">>,
   OuterCollapse |-> <<"Preamble", "OuterError">>, ComputeV |-> <<"Preamble", "Query", "Eval">>]
StageMask == [Preamble |-> "PreambleStage", InnerError |-> "InnerErrorStage",
              OuterError |-> "OuterErrorStage", Query |-> "QueryStage", Eval |-> "EvalStage"]
FinalMask == [InnerError |-> "InnerErrorFinalStaged", OuterError |-> "OuterErrorFinalStaged",
              Eval |-> "EvalFinalStaged"]
(* The identifiers compute_internal_circuits assembles the traces under.   *)
AssembledAs ==
  [Hashes1 |-> "Hashes1Circuit", Hashes2 |-> "Hashes2Circuit", InnerCollapse |-> "InnerCollapseCircuit",
   OuterCollapse |-> "OuterCollapseCircuit", ComputeV |-> "ComputeVCircuit"]
SetStage(b, name, poly) == SetPart(SetRx(b, name, poly), <<"mask", name>>, StageMask[name])

TrivialPcd == [proof |-> TrivialProof, header |-> UnitHeader]

Init ==
  /\ pcds = <<>> /\ seeded = <<>> /\ waiting = <<>>
  /\ goal = "fuse" /\ phase = "idle"
  /\ job = <<>> /\ builder = NewBuilder(0) /\ sponge = NewSponge /\ local = [n \in {} |-> 0]

Started == Len(pcds) + (IF seeded = <<>> THEN 0 ELSE 1)
Start(circuit, left, right, header, rng, why) ==
  /\ goal' = why /\ phase' = "Application"
  /\ job' = [circuit |-> circuit, left |-> left, right |-> right, header |-> header, rng |-> rng]
  /\ builder' = NewBuilder(rng) /\ sponge' = Tagged(RAGU_TAG) /\ local' = [n \in {} |-> 0]

(* fuse of a registered step with pcds of the headers it takes; a step of  *)
(* unit headers on both sides may be seeded.                               *)
Inputs(suffix, trivial) ==
  { pcds[i] : i \in DOMAIN pcds } \union (IF suffix = UnitSuffix THEN {trivial} ELSE {})
BeginFuse == \E s \in Steps, data \in DataValues, rng \in Randomness :
  /\ phase = "idle" /\ waiting = <<>> /\ Started < MaxFuses
  /\ \E trivial \in {TrivialPcd} :
     \E left \in Inputs(s.left, trivial), right \in Inputs(s.right, trivial) :
       /\ Last(left.header) = s.left /\ Last(right.header) = s.right
       /\ Start(s.circuit, left.proof, right.proof,
                [own |-> EncodedHeader(data, s.output), left |-> left.header, right |-> right.header],
                rng, "fuse")
  /\ UNCHANGED <<pcds, seeded, waiting>>

(* rerandomize: seeded_trivial_pcd first, which is made once.              *)
BeginRerandomize == \E i \in DOMAIN pcds, rng \in Randomness :
  /\ phase = "idle" /\ waiting = <<>> /\ Started < MaxFuses
  /\ IF seeded = <<>>
       THEN /\ waiting' = <<pcds[i]>>
            /\ \E trivial \in {TrivialProof} : Start(TrivialCircuit, trivial, trivial,
                     [own |-> UnitHeader, left |-> UnitHeader, right |-> UnitHeader], rng, "seed")
       ELSE /\ Start(RerandomizeCircuit, pcds[i].proof, seeded[1],
                     [own |-> pcds[i].header, left |-> pcds[i].header, right |-> UnitHeader], rng, "fuse")
            /\ UNCHANGED waiting
  /\ UNCHANGED <<pcds, seeded>>
-----------------------------------------------------------------------------
Keep(name, v)   == (name :> v) @@ local
AbsorbBridge(b, name) == SpongeAbsorb(sponge, b.part[<<"bridge_commitment", name>>])

(* Write the bridge's commitment and draw the phase's challenges.          *)
Draw(b, name, challenges, values) ==
  \E s \in { FoldLeft(LAMBDA acc, c :
                        LET a == SpongeSqueeze(acc.sponge)
                        IN  [sponge |-> a.sponge, local |-> (c :> a.value) @@ acc.local],
                      [sponge |-> AbsorbBridge(b, name), local |-> values], challenges) } :
    sponge' = s.sponge /\ local' = s.local
Go(from, to) == phase = from /\ phase' = to /\ UNCHANGED <<pcds, seeded, goal, job, waiting>>
Children  == [left |-> job.left, right |-> job.right]
Source  == ProofSource(Children)
Of(c)   == local[c]

(* compute_application_proof                                               *)
ComputeApplication ==
  /\ Go("Application", "Preamble")
  /\ builder' = LET out == job.header.left \o job.header.right \o job.header.own
                IN  SetPart(SetRx(SetParts(SetPart(builder, <<"id", "circuit_id">>, job.circuit),
                                           "header", [left |-> job.header.left, right |-> job.header.right]),
                                  "Application", RxDigest(Random(1), <<job.circuit>> \o out)),
                            <<"circuit", "Application">>,
                            [index |-> job.circuit, output |-> out, enforced |-> TRUE, ran_on |-> <<>>])
  /\ UNCHANGED <<sponge, local>>

(* compute_preamble                                                        *)
ComputePreamble ==
  /\ Go("Preamble", "SPrime")
  /\ \E preamble \in {[left  |-> ProofInputs(job.left, HeaderOf(builder, "left")),
                       right |-> ProofInputs(job.right, HeaderOf(builder, "right"))]} :
     \E b1 \in {Force(SetStage(builder, "Preamble", PreambleRx(preamble)), "Preamble")} :
     \E b2 \in {SetBridge(b1, "BridgePreamble", BridgeRx("BridgePreamble", Random(3),
                  PreambleValues(Commitment(b1, "Preamble"), ChildWitness(job.left), ChildWitness(job.right))))} :
       builder' = b2 /\ Draw(b2, "BridgePreamble", <<"w">>, Keep("preamble", preamble))

(* compute_s_prime                                                         *)
ComputeSPrime ==
  /\ Go("SPrime", "InnerError")
  /\ \E wx0 \in {RegistryX(Of("w"), ChallengeOf(job.left, "x"))},
        wx1 \in {RegistryX(Of("w"), ChallengeOf(job.right, "x"))} :
     \E b \in {SetBridge(builder, "BridgeSPrime",
                 BridgeRx("BridgeSPrime", Random(4),
                          <<HostCommit(wx0), HostCommit(wx1), Commitment(builder, "Preamble")>>))} :
       builder' = b /\ Draw(b, "BridgeSPrime", <<"y", "z">>,
                            ("wx0" :> wx0) @@ ("wx1" :> wx1) @@ local)

(* inner_error_terms, then a clone of the transcript is saved.             *)
InnerErrorPhase ==
  /\ Go("InnerError", "OuterError")
  /\ \E claims \in {Build(SideNames, <<CircuitId(job.left), CircuitId(job.right)>>)} :
     \E sides \in {FoldLong(LAMBDA acc, k : Append(acc, Sides(Source, claims[k], Of("y"), Of("z"))), <<>>,
                            [k \in DOMAIN claims |-> k])} :
     \E inner \in {InnerErrorTerms([k \in DOMAIN sides |-> sides[k].a.poly], [k \in DOMAIN sides |-> sides[k].b])},
        wy \in {RegistryY(Of("w"), Of("y"))} :
     \E b1 \in {Force(SetStage(builder, "InnerError", InnerErrorRx(inner)), "InnerError")} :
     \E b2 \in {SetBridge(b1, "BridgeInnerError",
                  BridgeRx("BridgeInnerError", Random(6), <<Commitment(b1, "InnerError"), HostCommit(wy)>>))} :
       /\ builder' = [b2 EXCEPT !.failed = @ \/ ~Fits(sides)
                                             \/ SaveState(AbsorbBridge(b2, "BridgeInnerError")).value = <<>>]
       /\ Draw(b2, "BridgeInnerError", <<"mu", "nu">>,
               ("claims" :> claims) @@ ("sides" :> sides) @@ ("inner" :> inner) @@ ("wy" :> wy)
                 @@ ("saved" :> SaveState(AbsorbBridge(b2, "BridgeInnerError")).value) @@ local)

KysOf(preamble, y) == [s \in TwoSides |-> ChildKy(preamble[s], y)]
(* outer_error_terms                                                       *)
OuterErrorPhase ==
  /\ Go("OuterError", "AB")
  /\ \E sides \in {Of("sides")}, ky \in {KysOf(Of("preamble"), Of("y"))} :
     \E a \in {TrackedFoldInner([k \in DOMAIN sides |-> sides[k].a], Reciprocal(Of("mu")))},
        b \in {FoldInner([k \in DOMAIN sides |-> sides[k].b], Times(Of("mu"), Of("nu")))} :
     \E outer \in {[errors |-> OuterErrorTerms([g \in DOMAIN a |-> a[g].poly], b),
                    collapsed |-> Collapse(Of("mu"), Of("nu"), Of("inner"), ky),
                    ky |-> ky, sponge_state |-> Of("saved")]} :
     \E b2 \in {ForceBridge(SetStage(builder, "OuterError", OuterErrorRx(outer)), "BridgeOuterError")} :
       /\ builder' = [b2 EXCEPT !.failed = @ \/ Of("mu") = 0]
       /\ Draw(b2, "BridgeOuterError", <<"mu_prime", "nu_prime">>,
               ("a" :> a) @@ ("b" :> b) @@ ("outer" :> outer) @@ local)

(* compute_ab: a's commitment from those of the children's polynomials.    *)
ComputeAB ==
  /\ Go("AB", "Query")
  /\ \E a \in {TrackedFold(Of("a"), Reciprocal(Of("mu_prime")))},
        b \in {FoldOuter(Of("b"), Times(Of("mu_prime"), Of("nu_prime")))} :
     \E b2 \in {ForceBridge(SetWithCommitment(
                  SetWithCommitment(builder, "AbA", a.poly, DecompCommitment(Source, a.decomp)),
                  "AbB", b, HostCommit(b)), "BridgeAB")} :
       /\ builder' = [b2 EXCEPT !.failed = @ \/ Of("mu_prime") = 0]
       /\ Draw(b2, "BridgeAB", <<"x">>, local)
-----------------------------------------------------------------------------
Xz == Times(Of("x"), Of("z"))
(* query's ChildEvaluationsWitness::from_proof                             *)
QueryOf(p, registry_xy) ==
  [at_xz |-> [n \in RxNames \union {"AbA"} |-> EvalPoly(Rx(p, n), Xz)],
   b_at_x |-> EvalPoly(Rx(p, "AbB"), Of("x")),
   registry_xy_at_w |-> EvalPoly(Rx(p, "RegistryXY"), Of("w")),
   registry_xy_at_circuit_id |-> EvalPoly(registry_xy, OmegaJ(CircuitId(p))),
   registry_wy_at_child_x |-> EvalPoly(Of("wy"), ChallengeOf(p, "x"))]

(* compute_query                                                           *)
ComputeQuery ==
  /\ Go("Query", "F")
  /\ \E xy \in {RegistryXY(Of("x"), Of("y"))} :
     \E query \in {[left |-> QueryOf(job.left, xy), right |-> QueryOf(job.right, xy),
                    fixed_registry |-> [i \in DOMAIN InternalCircuitIndex |-> EvalPoly(xy, OmegaJ(i - 1))],
                    registry_wxy |-> EvalPoly(xy, Of("w"))]} :
     \E b \in {ForceBridge(SetRx(SetStage(builder, "Query", QueryRx(query)), "RegistryXY", xy),
                            "BridgeQuery")} :
       builder' = b /\ Draw(b, "BridgeQuery", <<"alpha">>, Keep("query", query))

(* The quotients of compute_f, in the order of poly_queries.               *)
Quotients ==
  LET own(n) == builder.part[<<"rx", n>>]
      sides == <<job.left, job.right>>
  IN  << <<Rx(sides[1], "P"), ChallengeOf(sides[1], "u")>>, <<Rx(sides[2], "P"), ChallengeOf(sides[2], "u")>>,
         <<Rx(sides[1], "RegistryXY"), Of("w")>>, <<Rx(sides[2], "RegistryXY"), Of("w")>>,
         <<Of("wx0"), ChallengeOf(sides[1], "y")>>, <<Of("wx1"), ChallengeOf(sides[2], "y")>>,
         <<Of("wx0"), Of("y")>>, <<Of("wx1"), Of("y")>>,
         <<Of("wy"), ChallengeOf(sides[1], "x")>>, <<Of("wy"), ChallengeOf(sides[2], "x")>>,
         <<Of("wy"), Of("x")>>, <<own("RegistryXY"), Of("w")>>,
         <<own("RegistryXY"), OmegaJ(CircuitId(sides[1]))>>, <<own("RegistryXY"), OmegaJ(CircuitId(sides[2]))>>,
         <<Rx(sides[1], "AbA"), Xz>>, <<Rx(sides[1], "AbB"), Of("x")>>,
         <<Rx(sides[2], "AbA"), Xz>>, <<Rx(sides[2], "AbB"), Of("x")>>,
         <<own("AbA"), Xz>>, <<own("AbB"), Of("x")>> >>
      \o [i \in DOMAIN RxIndex |-> <<Rx(sides[1], RxIndex[i]), Xz>>]
      \o [i \in DOMAIN RxIndex |-> <<Rx(sides[2], RxIndex[i]), Xz>>]
      \o [i \in DOMAIN InternalCircuitIndex |-> <<own("RegistryXY"), OmegaJ(i - 1)>>]

(* compute_f: its bridge is committed by hand, f is in no proof.           *)
ComputeF ==
  /\ Go("F", "Eval")
  /\ \E quotients \in {FoldLong(LAMBDA acc, q : Append(acc, Append(Factor(q[1], q[2]), 0)), <<>>, Quotients)} :
     \E f \in {Fold(quotients, Of("alpha"))} :
     \E b \in {SetBridge(builder, "BridgeF", BridgeRx("BridgeF", Random(9), <<HostCommit(f)>>))} :
       builder' = b /\ Draw(b, "BridgeF", <<"u">>, Keep("f", f))

EvalOf(p) == [n \in Native |-> EvalPoly(Rx(p, n), Of("u"))]
(* compute_eval                                                            *)
ComputeEval ==
  /\ Go("Eval", "P")
  /\ \E eval \in {[left |-> EvalOf(job.left), right |-> EvalOf(job.right),
                   current |-> [registry_wx0 |-> EvalPoly(Of("wx0"), Of("u")),
                                registry_wx1 |-> EvalPoly(Of("wx1"), Of("u")),
                                registry_wy |-> EvalPoly(Of("wy"), Of("u")),
                                a |-> EvalPoly(builder.part[<<"rx", "AbA">>], Of("u")),
                                b |-> EvalPoly(builder.part[<<"rx", "AbB">>], Of("u")),
                                registry_xy |-> EvalPoly(builder.part[<<"rx", "RegistryXY">>], Of("u"))]]} :
     \E b \in {ForceBridge(SetStage(builder, "Eval", EvalRx(eval)), "BridgeEval")} :
       builder' = b /\ Draw(b, "BridgeEval", <<"pre_beta">>, Keep("eval", eval))
-----------------------------------------------------------------------------
Accumulated(p) == [i \in DOMAIN ChildFields |->
                     [poly |-> Rx(p, ChildFields[i]), commitment |-> CommitmentOf(p, ChildFields[i])]]
(* compute_p: p and its commitment from the same terms in one order.       *)
ComputeP ==
  /\ Go("P", "Circuits")
  /\ \E bits \in {Extract(Of("pre_beta"))}, own \in {[n \in {"AbA", "AbB", "RegistryXY"} |->
                    [poly |-> builder.part[<<"rx", n>>], commitment |-> Commitment(builder, n)]]} :
     \E terms \in {Accumulated(job.left) \o Accumulated(job.right)
                     \o << [poly |-> Of("wx0"), commitment |-> HostCommit(Of("wx0"))],
                           [poly |-> Of("wx1"), commitment |-> HostCommit(Of("wx1"))],
                           [poly |-> Of("wy"), commitment |-> HostCommit(Of("wy"))],
                           own["AbA"], own["AbB"], own["RegistryXY"] >>} :
     \E p \in {Fold(<<Of("f")>> \o [k \in DOMAIN terms |-> terms[k].poly], LiftNative(bits))},
        scaled \in {ComputeEndoscaling(builder, bits,
                      <<HostCommit(Of("f"))>> \o [k \in DOMAIN terms |-> terms[k].commitment])} :
       builder' = SetWithCommitment(scaled.builder, "P", p, scaled.commitment)
  /\ UNCHANGED <<sponge, local>>

(* Mutant of ChildrenRx: both sides keep the left child's stages.          *)
ChildrenRxLeft(left, right)  == [left |-> AsChildStageRx(left), right |-> AsChildStageRx(left)]
ChildrenRx(left, right) == [left |-> AsChildStageRx(left), right |-> AsChildStageRx(right)]

(* The challenges and the children's stages are set before the circuits    *)
(* run.                                                                    *)
WithChallenges ==
  SetParts(SetParts(builder, "challenge", [c \in ChallengeNames |-> Of(c)]),
           "child", ChildrenRx(job.left, job.right))
Witness == [preamble |-> Of("preamble"), inner |-> Of("inner"), outer |-> Of("outer"),
            query |-> Of("query"), eval |-> Of("eval")]
SetTraces(b, ran, stage_rx) ==
  SetParts(SetParts(SetParts(b, "rx", [n \in DOMAIN ran |-> RxDigest(Random(11), ran[n].output)]),
                    "mask", [n \in DOMAIN ran |-> FinalMask[Last(CircuitStages[n])]]),
           "circuit", [n \in DOMAIN ran |->
             [index |-> CircuitIndex(AssembledAs[n]), output |-> ran[n].output, enforced |-> ran[n].enforced,
              ran_on |-> [s \in ToSet(CircuitStages[n]) |-> stage_rx[s]]]])
(* compute_internal_circuits: the instance goes from circuit to circuit,   *)
(* and every slot has been covered at the end.                             *)
ComputeCircuits ==
  /\ Go("Circuits", "Build")
  /\ \E b \in {WithChallenges} :
     \E hashes_1 \in {Hashes1(Witness, NewInstance(UnifiedValues(b)))} :
     \E hashes_2 \in {Hashes2(Witness, hashes_1.instance)} :
     \E inner \in {InnerCollapse(Witness, hashes_2.instance)} :
     \E outer \in {OuterCollapse(Witness, inner.instance)} :
     \E v \in {ComputeV(Witness, outer.circuit.instance)} :
     \E ran \in {[Hashes1 |-> hashes_1, Hashes2 |-> hashes_2, InnerCollapse |-> inner,
                  OuterCollapse |-> outer.circuit, ComputeV |-> v]} :
       /\ builder' = [SetTraces(b, ran, StageRx(Witness)) EXCEPT !.failed = @ \/ v.instance.failed \/ ~Complete(v.instance)]
       /\ local' = Keep("off", outer.off)
  /\ UNCHANGED sponge

(* build, carry, and who asked for it.                                     *)
Finished ==
  /\ phase = "Build" /\ ~builder.failed
  /\ \E built \in {BuildProof(builder)} :
       /\ ~built.failed
       /\ LET proof == [alpha |-> built.alpha, part |-> built.part]
          IN  IF goal = "seed"
                THEN /\ seeded' = <<proof>> /\ waiting' = <<>> /\ UNCHANGED pcds
                     /\ Start(RerandomizeCircuit, waiting[1].proof, proof,
                              [own |-> waiting[1].header, left |-> waiting[1].header, right |-> UnitHeader],
                              job.rng, "fuse")
                ELSE /\ pcds' = Append(pcds, [proof |-> proof, header |-> job.header.own])
                     /\ phase' = "idle" /\ job' = <<>>
                     /\ builder' = NewBuilder(0) /\ sponge' = NewSponge /\ local' = [n \in {} |-> 0]
                     /\ UNCHANGED <<seeded, goal, waiting>>

Next ==
  \/ BeginFuse \/ BeginRerandomize
  \/ ComputeApplication \/ ComputePreamble \/ ComputeSPrime \/ InnerErrorPhase \/ OuterErrorPhase
  \/ ComputeAB \/ ComputeQuery \/ ComputeF \/ ComputeEval \/ ComputeP \/ ComputeCircuits
  \/ Finished
Spec == Init /\ [][Next]_vars
-----------------------------------------------------------------------------
(* A revdot claim is an identity in Y and z.  An internal circuit's holds  *)
(* if its trace satisfies that circuit and the stages added to it are the  *)
(* ones it ran on; a mask's if every polynomial lies in the mask's stage.  *)
(* Otherwise its value is no k(y), random points apart.                    *)
Unmet == -1
IsTrace(p, names, index) ==
  LET circuit == p.part[<<"circuit", Head(names)>>]
  IN  /\ circuit.enforced /\ circuit.index = index
      /\ IF Tail(names) = <<>> THEN circuit.ran_on = <<>>
                               ELSE circuit.ran_on = [s \in ToSet(Tail(names)) |-> Rx(p, s)]
NativeRevdot(p, claim, y) ==
  LET names(g) == [k \in DOMAIN claim.groups[g] |-> claim.groups[g][k][2]]
  IN  CASE claim.kind = "raw" -> RevdotOf(Rx(p, "AbA"), Rx(p, claim.right[2]))
        [] claim.kind \in {"application", "circuit"} ->
             IF IsTrace(p, names(1), claim.index)
               THEN FinishKy(p.part[<<"circuit", Head(names(1))>>].output, y) ELSE Unmet
        [] claim.kind = "bonding" ->
             IF \A g \in DOMAIN claim.groups :
                  p.part[<<"mask", names(g)[1]>>] = InternalCircuitIndex[claim.index + 1]
               THEN 0 ELSE Unmet

(* The k(y) values and the claims zipped: zeros without end follow the     *)
(* values, so the claims decide how many are compared.                     *)
(* Mutant: the zeros are missing, and the claims they were for are cut.    *)
ZipCut(values, revdots) ==
  \A k \in DOMAIN revdots \cap DOMAIN values : values[k] = revdots[k]
AllZipped(values, revdots) ==
  \A k \in DOMAIN revdots : revdots[k] = IF k \in DOMAIN values THEN values[k] ELSE 0

(* One proof as the source of claims, and of k(y) values.                  *)
VerifyNative(p, header, y) ==
  LET claims == Build(<<"self">>, <<CircuitId(p)>>)
      ky == [ChildKy(ProofInputs(p, header), y) EXCEPT !.raw_c = ProofC(p)]
  IN  AllZipped(KyValues([self |-> ky], <<"self">>), [k \in DOMAIN claims |-> NativeRevdot(p, claims[k], y)])

NestedRevdot(p, claim) ==
  LET rx(key) == NestedRx(p, key)
      sum == [n \in { claim.groups[1][k][2] : k \in DOMAIN claim.groups[1] } |->
                rx(CHOOSE key \in ToSet(claim.groups[1]) : key[2] = n)]
      holds == CASE claim.kind = "EndoscalingStep" ->
                      /\ sum["EndoscalingStep"].enforced /\ sum["EndoscalingStep"].step = claim.at
                      /\ EndoscalingStep(sum["EndoscalarStage"].bits, sum["PointsStage"], claim.at)
                 [] claim.kind = "Loading" -> Loading(sum["PointsStage"], sum)
                 [] claim.kind = "Copying" ->
                      Copying(sum["BridgePreamble"], claim.at, [points |-> sum["PointsStage"], bridge |-> sum])
                 [] OTHER -> \A g \in DOMAIN claim.groups : rx(claim.groups[g][1]).mask = claim.kind
  IN  IF ~holds THEN Unmet ELSE IF claim.kind = "EndoscalingStep" THEN 1 ELSE 0

VerifyNested(p) ==
  AllZipped(NestedKyValues, [k \in DOMAIN NestedBuild |-> NestedRevdot(p, NestedBuild[k])])

(* verify, its y drawn; its w stands for the identity in W it tests.       *)
Verify(p, header, y) ==
  /\ CircuitId(p) < 2 ^ Log2Circuits
  /\ Len(HeaderOf(p, "left")) = HEADER_SIZE /\ Len(HeaderOf(p, "right")) = HEADER_SIZE
  /\ VerifyNative(p, header, y) /\ VerifyNested(p)
  /\ Rx(p, "RegistryXY") = RegistryXY(ChallengeOf(p, "x"), ChallengeOf(p, "y"))
=============================================================================
