----------------------------- MODULE MCRegistry -----------------------------
(***************************************************************************)
(* The registry under two clients: one that registers a few objects in any *)
(* categories, and the application builder with steps that may come out of *)
(* order, share a suffix or not fit.                                       *)
(***************************************************************************)
EXTENDS Registry
LOCAL INSTANCE SequencesExt
LOCAL INSTANCE FiniteSetsExt
LOCAL INSTANCE Functions

CONSTANT MaxSteps         \* steps the application client registers

Terms(s) == [mask |-> FALSE, terms |-> s]
Direct == {Terms({<<0, 0, 3>>, <<2, 5, 4>>})}
MCBondings == Direct \cup {NewMask(1, 2)}

(* Distinct names get distinct objects; stages are masks.                  *)
StepNames == [k \in 1 .. 2 + MaxSteps |->
                <<"step", IF k <= 2 THEN Internal(k - 1) ELSE UserDefined(k - 3)>>]
PlaceOfName(name) ==
  CASE name \in Range(NativeAll) -> NativeCircuitIndex(name)
    [] name \in Range(StepNames) -> 15 + PositionIn(StepNames, name)
    [] OTHER -> 40 + NestedCircuitIndex(name)
MCObjectOf(name) ==
  LET k == PlaceOfName(name)
  IN  IF name \in Range(NativeStages) \cup Range(SubSeq(NestedBonding, 1, 11))
        THEN NewMask(1 + (k % 4), 1 + ((k \div 4) % 4))
        ELSE Terms({<<k % NumCoeffs, (3 * k) % (NumCoeffs - 1), 1 + k>>})

HeaderType(type, suffix, width) == [type |-> type, suffix |-> UserDefined(suffix), width |-> width]
HA == HeaderType("A", 0, 1)
HB == HeaderType("B", 1, 2)
HC == HeaderType("C", 0, 1)         \* A's suffix
HD == HeaderType("D", 2, 3)         \* does not fit
StepType(i, l, r, o) == [index |-> UserDefined(i), left |-> l, right |-> r, output |-> o]
MCAppSteps == {StepType(0, UnitHeader, UnitHeader, HA), StepType(1, HA, HA, HB),
               StepType(1, HA, HC, HB), StepType(0, UnitHeader, UnitHeader, HD),
               StepType(2, HB, UnitHeader, HC), StepType(1, UnitHeader, UnitHeader, HB),
               StepType(2, HB, HA, HB)}

-----------------------------------------------------------------------------
Points == {<<2, 3>>, <<5, 0>>}

(* An object's value from its definition: a mask is the sum over the wires *)
(* of every gate but the SYSTEM gate and the stage's.                      *)
DefinedXY(c, x, y) ==
  IF ~IsMask(c) THEN TermsXY(c.terms, x, y)
  ELSE LET gates == (1 .. N - 1) \ (c.skip_gates .. c.skip_gates + c.num_gates - 1)
           degrees == UNION {{k, 2 * N - 1 - k, 2 * N + k, 4 * N - 1 - k} : k \in gates}
       IN  FoldSet(LAMBDA d, acc : Plus(acc, Power(Times(x, y), d)), 0, degrees)
Registered == builder.internal_circuits \o builder.bonding \o builder.internal_steps
                \o builder.application_steps

(* The registry polynomial, at the point CircuitIndex::omega_j gives for   *)
(* each index whatever the domain's size, is the circuit registered at     *)
(* that index plus the key term, and the key term alone for an index of    *)
(* the domain no circuit has (registry.rs at, w_cached, mask_coeff_sum).   *)
RegistryInterpolates ==
  Finalized => \A i \in 0 .. 2 ^ registry.log2 - 1, p \in Points :
    /\ CircuitInDomain(registry, i)
    /\ CircuitXY(registry, i, p[1], p[2]) =
         Plus(IF i < Len(Registered) THEN DefinedXY(Registered[i + 1], p[1], p[2]) ELSE 0,
              KeyXY(registry, p[1], p[2]))

(* The four restrictions of m agree, at a point of the domain with a       *)
(* circuit, at one without and off the domain: xy evaluated at w, wx at y  *)
(* and wy at x all give wxy, key term and mask terms included.             *)
RestrictionsAgree ==
  Finalized => \A q \in {<<OmegaJ(1), 2, 3>>, <<OmegaJ(3), 2, 3>>, <<6, 2, 3>>, <<6, 5, 0>>} :
    LET w     == q[1]
        p     == <<q[2], q[3]>>
        at    == At(registry, w)
        value == AtXY(at, p[1], p[2])
    IN  /\ EvalSparse(AtX(at, p[1]), p[2]) = value
        /\ EvalSparse(AtY(at, p[2]), p[1]) = value
        /\ EvalSparse(RegistryXY(registry, p[1], p[2]), w) = value
=============================================================================
