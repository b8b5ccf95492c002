---------------------------- MODULE PointDriver -----------------------------
(***************************************************************************)
(* What the evaluators at a fixed X = x share (sx.rs and sxy.rs have it    *)
(* line for line): wires are values of monomials, which a scope hands out  *)
(* from running products.  Each operator maps the innermost frame to what  *)
(* it becomes.                                                             *)
(***************************************************************************)
EXTENDS Synthesis, PrimeField

(* A scope at its place of the floor plan: the monomials of gate i of the  *)
(* segment are those of gate gate_start + i.                               *)
NewScope(plan, seg, name, inputs, x) ==
  [call |-> NewCallFrame(name, 1, inputs), seg |-> seg,
   gates |-> plan[seg].gate_start, constraints |-> plan[seg].constraint_start,
   monomials |-> AdvancedBy(BaseMonomials(x), x, plan[seg].gate_start)]

(* gate(): the current monomials are its wires, a's is also the token.     *)
GateTaken(f, x) == [f EXCEPT !.gates = @ + 1, !.monomials = AdvancedBy(@, x, 1)]

WithGate(f, x) ==
  LET m == f.monomials
  IN  [GateTaken(f, x) EXCEPT !.call = BindGate(@, <<m.a, m.b, m.c>>, m.a)]

WithExtra(f, op, x) == [f EXCEPT !.call = Bind(@, <<Times(@.extras[op.gate], AToD(x))>>)]
WithSum(f, op)      == [f EXCEPT !.call = Bind(@, <<DirectSum(op.lc, @.env)>>)]

(* The caller, after a routine returned.                                   *)
WithOutputs(caller, p, callee) ==
  [caller EXCEPT !.call.env = @ \o OutputWires(p, callee.call)]
=============================================================================
