------------------------------ MODULE MCWiring ------------------------------
(* Model checking of Wiring against the constraints of the circuit.        *)
EXTENDS Wiring, MCPrograms, SequencesExt

WiringPrograms ==
  { WiredCircuit(main, "other", g) : main \in WiredMains, g \in {"twin", "late"} }
  \union { WiredCircuit(ChainMain, "leaf", "leaf") }
  \union LimitPrograms

PointsX == {0, 1, 3, 10}   \* 3 generates the multiplicative group of F_17
PointsY == {0, 1, 3, 12}

-----------------------------------------------------------------------------
(* What a circuit's wiring polynomial is: a recursive reading of it, with  *)
(* wires as monomials' values and one list of constraints per routine call. *)
RECURSIVE CallNames(_, _)
CallNames(p, name) ==
  <<name>> \o FlattenSeq([i \in DOMAIN p[name].ops |->
                IF p[name].ops[i].kind = "routine" THEN CallNames(p, p[name].ops[i].name)
                                                   ELSE <<>>])

GatesOf(p, name) ==
  Cardinality({ i \in DOMAIN p[name].ops : p[name].ops[i].kind = "gate" })
    + (IF name = Main THEN 1 ELSE 0)

(* The gates of all calls that start before call number i (from 1).        *)
GatesBefore(p, i) ==
  LET names == CallNames(p, Main)
  IN  FoldSeq(LAMBDA name, sum : sum + GatesOf(p, name), 0, SubSeq(names, 1, i - 1))

SumOf(lc, env) == FoldSeq(LAMBDA t, s : Plus(s, Times(t[2], env[t[1]])), 0, lc)

(* Runs a body from operation k on at X = z; st holds the wires' values,   *)
(* the place of the next gate, the body's constraints, those of its calls. *)
RECURSIVE Reading(_, _, _, _, _)
RECURSIVE From(_, _, _, _, _, _)
From(p, name, k, first, z, st) ==
  IF k > Len(OpsOf(p, name)) THEN st
  ELSE LET op == OpsOf(p, name)[k]
           g  == st.gate
           inner == Reading(p, op.name, [i \in DOMAIN op.args |-> st.env[op.args[i]]],
                            first + 1 + Len(st.nested), z)
           next == CASE op.kind = "gate" ->
                          [st EXCEPT !.gate = @ + 1, !.taken = Append(@, g),
                             !.env = @ \o <<Power(z, 2 * N + g), Power(z, 2 * N - 1 - g),
                                            Power(z, 4 * N - 1 - g)>>]
                     [] op.kind = "assign_extra" ->
                          [st EXCEPT !.env = Append(@, Power(z, st.taken[op.gate]))]
                     [] op.kind = "add" ->
                          [st EXCEPT !.env = Append(@, SumOf(op.lc, @))]
                     [] op.kind = "enforce_zero" ->
                          [st EXCEPT !.own = Append(@, SumOf(op.lc, st.env))]
                     [] op.kind = "routine" ->
                          [st EXCEPT !.env = @ \o inner.outs, !.nested = @ \o inner.lists]
       IN  From(p, name, k + 1, first, z, next)

Reading(p, name, inputs, first, z) ==
  LET start == GatesBefore(p, first) + (IF name = Main THEN 1 ELSE 0)
      st == From(p, name, 1, first, z,
                 [env |-> <<1>> \o inputs, gate |-> start, taken |-> <<>>,
                  own |-> <<>>, nested |-> <<>>])
  IN  [outs  |-> [k \in DOMAIN p[name].outs |-> st.env[p[name].outs[k]]],
       lists |-> <<st.own>> \o st.nested]

(* s(x, y): segments come in call order, constraints of one segment in     *)
(* reverse order of emission, each takes the next power of Y.              *)
S(p, z, v) ==
  LET lists == Reading(p, Main, <<>>, 1, z).lists
      all   == FoldLeft(LAMBDA done, l : done \o Reverse(l), <<>>, lists)
  IN  FoldRight(LAMBDA c, acc : Plus(Times(acc, v), c), all, 0)
-----------------------------------------------------------------------------
(* The three evaluations agree, whichever order the circuit code drops its *)
(* wires in: s(x, y) is s(x, Y) at y and s(X, y) at x (the cross-checks of *)
(* the drivers' tests; wiring/mod.rs:75-86), x = 0 and y = 0 included.     *)
EvaluationsAgree ==
  phase = "done" => xy_value = PolyAt(sx_coeffs, y) /\ xy_value = ViewAt(view, x)

(* They evaluate the circuit's constraints over its wires: also across     *)
(* routine calls every wire keeps its monomial, every constraint has its   *)
(* own power of Y, and none reaches the coefficient of the registry key    *)
(* (wiring/mod.rs:52-73, lib.rs:231-236).                                  *)
EvaluatesConstraints ==
  phase = "done" => /\ xy_value = S(prog, x, y)
                    /\ sx_coeffs[NumCoeffs] = 0

-----------------------------------------------------------------------------
(* "The j-th constraint emitted within that segment is placed at           *)
(* Y^(l_i + j)" (wiring/mod.rs:66-71).                                     *)
PlacedInEmissionOrder ==
  phase = "done" =>
    LET lists == Reading(prog, Main, <<>>, 1, x).lists
    IN  \A i \in DOMAIN lists : \A j \in DOMAIN lists[i] :
          sx_coeffs[plan[i].constraint_start + j] = lists[i][j]
=============================================================================
