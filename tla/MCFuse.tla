------------------------------- MODULE MCFuse -------------------------------
(***************************************************************************)
(* Trees of up to three fuses with a leaf step, a merging step and the two *)
(* internal ones, in the field of 12289 elements.                          *)
(***************************************************************************)
EXTENDS Fuse
LOCAL INSTANCE SequencesExt

MCSteps == { [circuit |-> 15, left |-> 1, right |-> 1, output |-> 2],
             [circuit |-> 16, left |-> 2, right |-> 2, output |-> 2] }
MCTag == <<1, 77>>
MCRoundConstants == <<<<3, 70, 901>>, <<1100, 25, 5>>, <<6, 1313, 9>>, <<4, 88, 1500>>>>
MCMdsMatrix == <<<<2, 1, 1>>, <<1, 2, 1>>, <<1, 1, 3>>>>
Curve(a, b) == [d \in 1 .. NumCoeffs |-> ((a * d * d) + b) % P]
MCRegistryTerms == << [w |-> Curve(3, 5), x |-> Curve(7, 11), y |-> Curve(13, 17)],
                      [w |-> Curve(190, 23), x |-> Curve(29, 310), y |-> Curve(37, 410)] >>
-----------------------------------------------------------------------------
Ran == phase = "Build"                 \* the internal circuits have run

(* The circuits of a fuse accept it and say what the prover says: nothing  *)
(* panics, no part is missing in the end, each slot is covered by one      *)
(* circuit, the challenges squeezed in two halves are those of the         *)
(* prover's transcript, and v, from the evaluations and quotients in their *)
(* one order, is p(u) (unified.rs, hashes_1.rs, hashes_2.rs,               *)
(* inner_collapse.rs, compute_v.rs poly_queries and the orders _08_f.rs    *)
(* and _10_p.rs must keep, proof/builder.rs build).                        *)
CircuitsAcceptTheFuse ==
  /\ ~builder.failed /\ (Ran => ~BuildProof(builder).failed)
  /\ Ran => \A n \in {"Hashes1", "Hashes2", "InnerCollapse", "OuterCollapse", "ComputeV"} :
       LET circuit == builder.part[<<"circuit", n>>]
       IN  /\ circuit.enforced
           /\ SubSeq(circuit.output, 1, Len(Slots)) = Written(UnifiedValues(builder))

(* What a claim about a child must be worth, by what the claim is of.      *)
Worth(claim, ky) ==
  LET side == claim.groups[1][1][1]
  IN  CASE claim.kind = "raw" -> ky[side].raw_c
        [] claim.kind = "application" -> ky[side].application
        [] claim.kind = "bonding" -> 0
        [] OTHER -> IF claim.index = CircuitIndex("Hashes1Circuit") THEN ky[side].unified_bridge
                                                                    ELSE ky[side].unified
FoldDefects(defects) ==
  LET none(n) == [k \in 1 .. n * (n - 1) |-> 0]
      groups == Chunks(defects, 0)
      layer1 == FoldLong(LAMBDA acc, g : Append(acc,
                  FoldProducts(Of("mu"), Of("nu"), none(GroupSize), groups[g])), <<>>, [g \in 1 .. NumGroups |-> g])
  IN  FoldProducts(Of("mu_prime"), Of("nu_prime"), none(NumGroups), layer1)

(* Folding loses nothing of the children: c and what the collapse circuits *)
(* make of the error terms differ by the children's own defects, each      *)
(* under its own weight, so they agree if and, but for the challenges,     *)
(* only if every claim of both children holds (fold_revdot.rs, the orders  *)
(* of native/claims.rs build and ky_values, _04, _05 and _06).             *)
FoldingKeepsEveryClaim ==
  Ran => \E ky \in {KysOf(Of("preamble"), Of("y"))} :
         \E defects \in {FoldLong(LAMBDA acc, k : Append(acc,
                            Minus(RevdotOf(Of("sides")[k].a.poly, Of("sides")[k].b), Worth(Of("claims")[k], ky))),
                            <<>>, [k \in DOMAIN Of("claims") |-> k])} :
           Of("off") = IF IsBaseCase(Of("preamble")) THEN 0 ELSE FoldDefects(defects)

(* Every cached commitment opens to its polynomial: a's, assembled from    *)
(* those of the children, and p's, an endoscaling in the other field, up   *)
(* to what the trivial proof's placeholder is off by (_06_ab.rs, _10_p.rs, *)
(* proof/builder.rs).                                                      *)
OffBy(p) == Minus(CommitmentOf(p, "P"), HostCommit(Rx(p, "P")))
CommitmentsOpen ==
  Ran => /\ \A n \in Explicit \ {"P"} : CommitmentOf(builder, n) = HostCommit(Rx(builder, n))
         /\ LET beta == LiftNative(Extract(Of("pre_beta")))
            IN  OffBy(builder) = Plus(Times(Power(beta, 21), OffBy(job.left)),
                                      Times(Power(beta, 6), OffBy(job.right)))

(* Whatever tree of seeds, fuses and rerandomizations made it, a pcd is    *)
(* accepted, and rerandomizing kept its header (lib.rs seed, rerandomize;  *)
(* verify.rs; nested/circuits/loading.rs and copying.rs; the parts a later *)
(* phase or parent reads are the ones an earlier one stored).              *)
EveryPcdVerifies ==
  \A y \in Randomness :
    /\ \A i \in DOMAIN pcds : Verify(pcds[i].proof, pcds[i].header, y)
    /\ \A i \in DOMAIN seeded : Verify(seeded[i], UnitHeader, y)

(* A proof with one thing wrong: a circuit's trace, a polynomial's stage,  *)
(* a coefficient, a value of the instance, a point.  Of its own bridges    *)
(* only a parent's copying reads the stages' commitments, of its           *)
(* children's nothing reads the registry's.                                *)
OneOff(values, k) == [values EXCEPT ![k] = Plus(@, 1)]
WrongNative(p) ==
  UNION { {[p EXCEPT !.part[<<"circuit", n>>].enforced = FALSE],
           [p EXCEPT !.part[<<"circuit", n>>].output = OneOff(@, 1)]}
            : n \in DOMAIN CircuitStages \union {"Application"} }
    \union { [p EXCEPT !.part[<<"mask", n>>] = "other"] : n \in RxNames \ {"Application"} }
    \union { [p EXCEPT !.part[key] = Plus(@, 1)]
               : key \in ({"challenge"} \X ChallengeNames) \union ({"bridge_commitment"} \X BridgeNames)
                         \union {<<"id", "circuit_id">>} }
    \union { [p EXCEPT !.part[<<"header", side>>] = OneOff(@, 1)] : side \in TwoSides }
    \union { [p EXCEPT !.part[<<"rx", n>>] = OneOff(@, 1)]
               : n \in DOMAIN StageMask \union {"AbA", "AbB", "P", "RegistryXY"} }
WrongNested(p) ==
  LET own == UNION { {n} \X DOMAIN p.part[<<"bridge", n>>].values : n \in BridgeNames }
      child == { <<n, k>> \in own : n \in ChildBridges }
      unread == {"BridgeInnerError", "BridgeOuterError", "BridgeQuery", "BridgeEval"} \X {1}
      registry == {<<"BridgeSPrime", 1>>, <<"BridgeSPrime", 2>>, <<"BridgeInnerError", 2>>}
  IN  UNION { {[p EXCEPT !.part[<<"nested", "steps">>][s].enforced = FALSE],
               [p EXCEPT !.part[<<"nested", "steps">>][s].mask = "other"],
               [p EXCEPT !.part[<<"nested", "points">>].interstitials = OneOff(@, s)]} : s \in 1 .. NumSteps }
        \union { [p EXCEPT !.part[<<"nested", n>>].mask = "other"] : n \in {"endoscalar", "points"} }
        \union { [p EXCEPT !.part[<<"nested", "points">>].inputs = OneOff(@, k)] : k \in 1 .. NumInputs }
        \union { [p EXCEPT !.part[<<"bridge", n>>].mask = "other"] : n \in BridgeNames }
        \union { [p EXCEPT !.part[<<"bridge", b[1]>>].values = OneOff(@, b[2])] : b \in own \ unread }
        \union { [p EXCEPT !.part[<<"child", side>>].bridge[b[1]].values = OneOff(@, b[2])]
                   : side \in TwoSides, b \in child \ registry }

(* verify compares every claim: a pcd with one polynomial that is not what *)
(* its circuit, mask or instance asks for is refused, so no list of k(y)   *)
(* values ends before the list of claims and no polynomial is left out of  *)
(* them (verify.rs zip, the orders and lengths of build and ky_values in   *)
(* native/claims.rs and nested/claims.rs).                                 *)
EveryClaimIsCompared ==
  phase = "idle" /\ pcds # <<>> =>
    \E pcd \in {Last(pcds)} : \A p \in WrongNative(pcd.proof) \union WrongNested(pcd.proof), y \in Randomness :
      ~Verify(p, pcd.header, y)
=============================================================================
