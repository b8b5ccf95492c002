----------------------------- MODULE Synthesis -----------------------------
(***************************************************************************)
(* What the wiring drivers (metrics, sxy, sx, sy) share: raw::orchestrate  *)
(* around the circuit body, the wires a running body can name, and the     *)
(* floor plan that places segments.                                        *)
(*                                                                         *)
(* These drivers have no witness (MaybeKind = Empty): the closures of      *)
(* gate() and assign_extra() are never called, so an operation that fails  *)
(* in the trace succeeds here, and the prediction is only asked for `aux`: *)
(* Known and Unknown routines are executed alike.                          *)
(***************************************************************************)
EXTENDS Circuit, TLC

(* The driver calls of a body.  orchestrate() adds to the circuit's own    *)
(* one constraint per public output and, last of all, one on ONE.  (It     *)
(* also allocates the SYSTEM gate before the body: see each driver's Init.) *)
OpsOf(p, name) ==
  LET outs == p[name].outs
  IN  p[name].ops \o
      (IF name = Main
         THEN [k \in DOMAIN outs |-> EnforceZero(<< <<outs[k], 1>> >>)]
              \o <<EnforceZero(<< <<1, 1>> >>)>>
         ELSE <<>>)

(* A frame: the body, the next call, and the wires it can name.            *)
NewCallFrame(name, one, inputs) ==
  [name |-> name, at |-> 1, extras |-> <<>>, env |-> <<one>> \o inputs]

AtEnd(p, f)       == f.at > Len(OpsOf(p, f.name))
NextOp(p, f)      == OpsOf(p, f.name)[f.at]
AboutTo(p, f, k)  == ~AtEnd(p, f) /\ NextOp(p, f).kind = k
Advanced(f)       == [f EXCEPT !.at = @ + 1]
Bind(f, wires)    == [Advanced(f) EXCEPT !.env = @ \o wires]
BindGate(f, wires, token) ==
  [f EXCEPT !.at = @ + 1, !.env = @ \o wires, !.extras = Append(@, token)]
InputWires(f, op) == [k \in DOMAIN op.args |-> f.env[op.args[k]]]
OutputWires(p, f) == [k \in DOMAIN p[f.name].outs |-> f.env[p[f.name].outs[k]]]

(* The places of its frame's wires a driver call reads, and how many wires *)
(* it adds to them.                                                        *)
Reads(op) == IF op.kind \in {"add", "enforce_zero"}
               THEN { op.lc[k][1] : k \in DOMAIN op.lc }
             ELSE IF op.kind = "routine" THEN { op.args[k] : k \in DOMAIN op.args }
             ELSE {}
Binds(p, op) == IF op.kind = "gate" THEN 3
                ELSE IF op.kind = "enforce_zero" THEN 0
                ELSE IF op.kind = "routine" THEN Len(p[op.name].outs)
                ELSE 1

(* What Rust's types and ownership guarantee of circuit code: a call names *)
(* wires its body has by then, a routine is called with as many as it      *)
(* takes, and the circuit itself is not called.                            *)
CallsOf(p, name) ==
  { c \in UNION { {r} \X DOMAIN p[r].ops : r \in Routines } :
      p[c[1]].ops[c[2]].kind = "routine" /\ p[c[1]].ops[c[2]].name = name }
Arity(p, name) ==
  IF CallsOf(p, name) = {} THEN 0
  ELSE CHOOSE n \in { Len(p[c[1]].ops[c[2]].args) : c \in CallsOf(p, name) } : TRUE
WiresBefore(p, name) ==                   \* each of its calls, and its return
  LET size[i \in 1 .. Len(OpsOf(p, name)) + 1] ==
        IF i = 1 THEN 1 + Arity(p, name) ELSE size[i - 1] + Binds(p, OpsOf(p, name)[i - 1])
  IN  size
WellWired(p) ==
  /\ CallsOf(p, Main) = {}
  /\ \A name \in { r \in Routines : r = Main \/ CallsOf(p, r) # {} } :
       /\ \A i \in DOMAIN OpsOf(p, name) :
            Reads(OpsOf(p, name)[i]) \subseteq 1 .. WiresBefore(p, name)[i]
       /\ \A k \in DOMAIN p[name].outs :
            p[name].outs[k] \in 1 .. WiresBefore(p, name)[Len(OpsOf(p, name)) + 1]
       /\ \A c \in CallsOf(p, name) : Len(p[c[1]].ops[c[2]].args) = Arity(p, name)

(* The sums of the first 0, 1, .. n of the sizes.                          *)
PrefixSums(n, size) ==
  LET sum[k \in 0 .. n] == IF k = 0 THEN 0 ELSE sum[k - 1] + size[k]
  IN  sum
GateSums(records) ==
  PrefixSums(Len(records), [i \in DOMAIN records |-> records[i].num_gates])
ConstraintSums(records) ==
  PrefixSums(Len(records), [i \in DOMAIN records |-> records[i].num_constraints])

(* Mutant of FloorPlan: the SYSTEM gate is not reckoned with.              *)
FloorPlanShifted(records) ==
  [i \in DOMAIN records |->
     [gate_start       |-> IF i = 1 THEN 0 ELSE GateSums(records)[i - 1] - 1,
      constraint_start |-> ConstraintSums(records)[i - 1],
      num_gates        |-> records[i].num_gates,
      num_constraints  |-> records[i].num_constraints]]

(* floor_plan(): prefix sums of the segments' gate and constraint counts.  *)
FloorPlan(records) ==
  [i \in DOMAIN records |->
     [gate_start       |-> GateSums(records)[i - 1],
      constraint_start |-> ConstraintSums(records)[i - 1],
      num_gates        |-> records[i].num_gates,
      num_constraints  |-> records[i].num_constraints]]

(* Mutant of BoundError: one gate too many.                                *)
BoundErrorOneOff(n, gates, constraints) ==
  IF constraints >= 4 * n THEN "ConstraintBoundExceeded"
  ELSE IF gates > n + 1   THEN "GateBoundExceeded"
  ELSE Ok

(* The bounds into_wiring_object checks: the last of the 4n coefficients   *)
(* is reserved for the registry key.                                       *)
BoundError(n, gates, constraints) ==
  IF constraints >= 4 * n THEN "ConstraintBoundExceeded"
  ELSE IF gates > n       THEN "GateBoundExceeded"
  ELSE Ok

-----------------------------------------------------------------------------
(* The evaluators of s(X, Y) add to a call frame the segment of the floor  *)
(* plan it fills and the absolute index of the next gate and constraint,   *)
(* which start where the plan places the segment.                          *)

(* The asserts at the end of routine() and of eval().                      *)
Filled(plan, f) ==
  /\ f.gates = plan[f.seg].gate_start + plan[f.seg].num_gates
  /\ f.constraints = plan[f.seg].constraint_start + plan[f.seg].num_constraints

(* Mutant of NoRoomForConstraint: two coefficients are reserved.           *)
NoRoomForTwoConstraints(n, f) == f.constraints >= 4 * n - 2

NoRoomForGate(n, f)       == f.gates = n
NoRoomForConstraint(n, f) == f.constraints >= 4 * n - 1
=============================================================================
