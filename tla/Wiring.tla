------------------------------- MODULE Wiring -------------------------------
(***************************************************************************)
(* The wiring polynomial of one circuit and its three evaluations: the     *)
(* circuit is measured and registered (into_wiring_object), gets its floor *)
(* plan, and the wiring object is then asked for s(x, y), s(x, Y) and      *)
(* s(X, y) (lib.rs:269-292).  Each evaluation runs the circuit again with  *)
(* another driver; they only share the floor plan.                         *)
(***************************************************************************)
EXTENDS Synthesis, PrimeField

CONSTANTS Xs, Ys   \* the points asked for

ASSUME PointsAssumption == Xs \subseteq F /\ Ys \subseteq F
ASSUME WiresAssumption  == \A p \in Programs : WellWired(p)

VARIABLES
  prog, x, y,   \* the circuit and the point
  plan,         \* the floor plan, <<>> before the circuit is registered
  phase,        \* "measure", "sxy", "sx", "sy", "done", or "refused"
  mstack, num_gates, num_constraints, segments, mpc,          \* Metrics
  xy_stack, xy_routine, xy_pc, xy_value,                      \* Sxy
  sx_stack, sx_routine, sx_pc, sx_coeffs,                     \* Sx
  sy_stack, sy_routine, sy_pc, wires, free, work, view        \* Sy

mVars  == <<mstack, num_gates, num_constraints, segments, mpc>>
xyVars == <<xy_stack, xy_routine, xy_pc, xy_value>>
sxVars == <<sx_stack, sx_routine, sx_pc, sx_coeffs>>
syVars == <<sy_stack, sy_routine, sy_pc, wires, free, work, view>>
given  == <<prog, x, y>>
vars   == <<given, plan, phase, mVars, xyVars, sxVars, syVars>>

M  == INSTANCE Metrics WITH stack <- mstack, pc <- mpc
XY == INSTANCE Sxy WITH stack <- xy_stack, current_routine <- xy_routine, pc <- xy_pc,
                        value <- xy_value
SX == INSTANCE Sx WITH stack <- sx_stack, current_routine <- sx_routine, pc <- sx_pc,
                       coeffs <- sx_coeffs
SY == INSTANCE Sy WITH stack <- sy_stack, current_routine <- sy_routine, pc <- sy_pc

Init == /\ M!Init
        /\ XY!Init
        /\ SX!Init
        /\ SY!Init
        /\ plan = <<>>
        /\ phase = "measure"
        /\ x \in Xs /\ y \in Ys

Measure == /\ phase = "measure"
           /\ M!Next
           /\ UNCHANGED <<x, y, plan, phase, xyVars, sxVars, syVars>>

Register ==
  /\ phase = "measure"
  /\ mpc = "done"
  /\ IF BoundError(N, num_gates, num_constraints) = Ok
       THEN phase' = "sxy" /\ plan' = FloorPlan(segments)
       ELSE phase' = "refused" /\ UNCHANGED plan
  /\ UNCHANGED <<given, mVars, xyVars, sxVars, syVars>>

EvaluateXY == /\ phase = "sxy"
              /\ XY!Next
              /\ phase' = IF xy_pc' = "done" THEN "sx" ELSE phase
              /\ UNCHANGED <<mVars, sxVars, syVars>>

EvaluateX == /\ phase = "sx"
             /\ SX!Next
             /\ phase' = IF sx_pc' = "done" THEN "sy" ELSE phase
             /\ UNCHANGED <<y, mVars, xyVars, syVars>>

EvaluateY == /\ phase = "sy"
             /\ SY!Next
             /\ phase' = IF sy_pc' = "done" THEN "done" ELSE phase
             /\ UNCHANGED <<x, mVars, xyVars, sxVars>>

Stopped == phase \in {"done", "refused"} /\ UNCHANGED vars

Next == Measure \/ Register \/ EvaluateXY \/ EvaluateX \/ EvaluateY \/ Stopped

Spec == Init /\ [][Next]_vars /\ WF_vars(Next)
-----------------------------------------------------------------------------
(* A polynomial by its coefficients, and the view of a wiring polynomial   *)
(* (sparse::View::wiring), at a point.                                     *)
PolyAt(coeffs, z) ==
  LET horner[j \in 1 .. Len(coeffs) + 1] ==
        IF j > Len(coeffs) THEN 0 ELSE Plus(Times(horner[j + 1], z), coeffs[j])
  IN  horner[1]

Exponent(w) == CASE w[1] = "a" -> 2 * N + w[2]
                 [] w[1] = "b" -> 2 * N - 1 - w[2]
                 [] w[1] = "c" -> 4 * N - 1 - w[2]
                 [] w[1] = "d" -> w[2]

ViewAt(v, z) ==
  PolyAt([e \in 1 .. NumCoeffs |->
            LET ws == { w \in DOMAIN v : Exponent(w) = e - 1 }
            IN  IF ws = {} THEN 0 ELSE v[CHOOSE w \in ws : TRUE]], z)
-----------------------------------------------------------------------------
(* While a circuit is measured and after, the totals its rank is checked   *)
(* against are where the floor plan made of its records ends               *)
(* (metrics.rs:491-494, floor_planner.rs:80-103).                          *)
TotalsAreSums == M!TotalsAreSums

(* Every virtual wire of sy has one count per reference (sy.rs:137-140),   *)
(* and its slot is reused only when it is spent (sy.rs:330-345).           *)
RefcountsExact == SY!RefcountsExact
FreeListSound  == SY!FreeListSound

(* A registered circuit never fails in an evaluator: the bounds are not    *)
(* met, the counts are those of the floor plan, no refcount underflows, no *)
(* slot leaks (`expect("should succeed if metrics succeeded")`,            *)
(* lib.rs:269-285; the asserts of sxy.rs, sx.rs and sy.rs).                *)
Progressing == {"idle", "run", "done"}
RegisteredCircuitsEvaluate == {xy_pc, sx_pc, sy_pc} \subseteq Progressing
=============================================================================
