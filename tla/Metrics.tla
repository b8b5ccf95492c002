------------------------------ MODULE Metrics ------------------------------
(***************************************************************************)
(* The `Counter` driver of ragu_circuits/src/metrics.rs: one depth-first   *)
(* pass over a circuit that counts gates and constraints per segment and   *)
(* fingerprints each routine call.                                         *)
(*                                                                         *)
(* The fingerprint evaluates, at pseudorandom points, a polynomial in the  *)
(* points x0..x3, x_remap, y and h; here it IS that polynomial.  A wire is *)
(* a linear combination of monomials <<base, exponent>>, the Horner        *)
(* accumulator `result` is the sequence of constraint polynomials fed to   *)
(* it (h the implied leading term).                                        *)
(***************************************************************************)
EXTENDS Synthesis, FiniteSetsExt

VARIABLES
  prog,             \* the circuit
  stack,            \* call frames with their saved CounterScope, innermost first
  num_gates,        \* Counter::num_gates
  num_constraints,  \* Counter::num_constraints
  segments,         \* Counter::segments
  pc                \* "system", "body" or "done"

vars == <<prog, stack, num_gates, num_constraints, segments, pc>>

Bases    == {"one", "a", "b", "c", "d", "remap"}
Monomial == Bases \X Nat

(* Wires: finite linear combinations of monomials, no zero coefficients.   *)
Unit(base, e) == [m \in {<<base, e>>} |-> 1]
One           == Unit("one", 0)
CoeffOf(w, m) == IF m \in DOMAIN w THEN w[m] ELSE 0

(* DirectSum over a linear combination: lc(DirectSum::default()).value().  *)
Combine(lc, env) ==
  LET support == UNION { DOMAIN env[lc[k][1]] : k \in DOMAIN lc }
      total(m) == MapThenSumSet(LAMBDA k : lc[k][2] * CoeffOf(env[lc[k][1]], m), DOMAIN lc)
      kept    == { m \in support : total(m) # 0 }
  IN  [m \in kept |-> total(m)]

(* RoutineIdentity: Root (the root's record, and a call under way) or      *)
(* Routine(fingerprint).                                                   *)
RootIdentity == <<>>
NewRecord    == [num_gates |-> 0, num_constraints |-> 0, identity |-> RootIdentity]

(* A fresh CounterScope: every geometric sequence at its base, i.e. `gate` *)
(* = exponent of the next a/b/c/d monomial, `remap` that of the next token.*)
NewScope(name, seg, inputs, remap) ==
  [call |-> NewCallFrame(name, One, inputs), inputs |-> inputs,
   current_segment |-> seg, gate |-> 1, remap |-> remap, result |-> <<>>]

Tokens(from, n) == [k \in 1 .. n |-> Unit("remap", from + k - 1)]

Top == Head(stack)
SetTop(s) == stack' = <<s>> \o Tail(stack)

Init ==
  /\ prog \in Programs
  /\ stack = <<NewScope(Main, 1, <<>>, 1)>>
  /\ num_gates = 0
  /\ num_constraints = 0
  /\ segments = <<NewRecord>>
  /\ pc = "system"

(* Mutants of CountGate: it counts into the last record; it forgets the    *)
(* total.                                                                  *)
CountGateInLast ==
  /\ num_gates' = num_gates + 1
  /\ segments' = [segments EXCEPT ![Len(segments)].num_gates = @ + 1]

CountGateLocally ==
  /\ segments' = [segments EXCEPT ![Top.current_segment].num_gates = @ + 1]
  /\ UNCHANGED num_gates

(* gate(): count it, here and in the current segment, advance the runners. *)
CountGate ==
  /\ num_gates' = num_gates + 1
  /\ segments' = [segments EXCEPT ![Top.current_segment].num_gates = @ + 1]

(* orchestrate() allocates the SYSTEM gate and discards its wires.         *)
AllocatesSystemGate ==
  /\ pc = "system"
  /\ pc' = "body"
  /\ CountGate
  /\ SetTop([Top EXCEPT !.gate = @ + 1])
  /\ UNCHANGED <<prog, num_constraints>>

Gates ==
  /\ pc = "body"
  /\ AboutTo(prog, Top.call, "gate")
  /\ CountGate
  /\ LET e   == Top.gate
         abc == <<Unit("a", e), Unit("b", e), Unit("c", e)>>
     IN  SetTop([Top EXCEPT !.gate = e + 1, !.call = BindGate(@, abc, e)])
  /\ UNCHANGED <<prog, num_constraints, pc>>

(* assign_extra(): the token is the d monomial itself.                     *)
AssignsExtra ==
  /\ pc = "body"
  /\ AboutTo(prog, Top.call, "assign_extra")
  /\ LET token == Top.call.extras[NextOp(prog, Top.call).gate]
     IN  SetTop([Top EXCEPT !.call = Bind(@, <<Unit("d", token)>>)])
  /\ UNCHANGED <<prog, num_gates, num_constraints, segments, pc>>

Adds ==
  /\ pc = "body"
  /\ AboutTo(prog, Top.call, "add")
  /\ SetTop([Top EXCEPT !.call = Bind(@, <<Combine(NextOp(prog, @).lc, @.env)>>)])
  /\ UNCHANGED <<prog, num_gates, num_constraints, segments, pc>>

EnforcesZero ==
  /\ pc = "body"
  /\ AboutTo(prog, Top.call, "enforce_zero")
  /\ num_constraints' = num_constraints + 1
  /\ segments' = [segments EXCEPT ![Top.current_segment].num_constraints = @ + 1]
  /\ SetTop([Top EXCEPT
               !.result = Append(@, Combine(NextOp(prog, Top.call).lc, Top.call.env)),
               !.call   = Advanced(@)])
  /\ UNCHANGED <<prog, num_gates, pc>>

(* Mutant of EntersRoutine: no record is pushed.                           *)
EntersUnrecorded ==
  /\ pc = "body"
  /\ AboutTo(prog, Top.call, "routine")
  /\ LET op == NextOp(prog, Top.call)
         n  == Len(op.args)
     IN  stack' = <<NewScope(op.name, Len(segments) + 1, Tokens(1, n), 1 + n)>>
                  \o <<[Top EXCEPT !.call = Advanced(@)]>> \o Tail(stack)
  /\ UNCHANGED <<prog, num_gates, num_constraints, segments, pc>>

(* routine(): a new record, the scope saved and reset, the input wires     *)
(* replaced by fresh tokens of the NEW scope.                              *)
EntersRoutine ==
  /\ pc = "body"
  /\ AboutTo(prog, Top.call, "routine")
  /\ segments' = Append(segments, NewRecord)
  /\ LET op == NextOp(prog, Top.call)
         n  == Len(op.args)
     IN  stack' = <<NewScope(op.name, Len(segments) + 1, Tokens(1, n), 1 + n)>>
                  \o <<[Top EXCEPT !.call = Advanced(@)]>> \o Tail(stack)
  /\ UNCHANGED <<prog, num_gates, num_constraints, pc>>

(* Mutant of Identity: a routine is known by its shape alone.              *)
IdentityByCounts(scope, record) ==
  << [input_kind  |-> Len(scope.inputs),
      output_kind |-> Len(OutputWires(prog, scope.call)),
      num_gates   |-> record.num_gates, num_constraints |-> record.num_constraints] >>

(* The rest of routine(): fingerprint the record (the TypeIds of input and *)
(* output kinds are abstracted to their wire counts), restore the caller's *)
(* scope and give it the output wires as fresh tokens of its own.          *)
Identity(scope, record) ==
  << [input_kind  |-> Len(scope.inputs),
      output_kind |-> Len(OutputWires(prog, scope.call)),
      eval        |-> scope.result,
      num_gates   |-> record.num_gates, num_constraints |-> record.num_constraints] >>

LeavesRoutine ==
  /\ pc = "body"
  /\ AtEnd(prog, Top.call)
  /\ Len(stack) > 1
  /\ LET seg == Top.current_segment
     IN  segments' = [segments EXCEPT ![seg].identity = Identity(Top, segments[seg])]
  /\ LET caller == stack[2]
         n      == Len(OutputWires(prog, Top.call))
         env    == caller.call.env \o Tokens(caller.remap, n)
     IN  stack' = <<[caller EXCEPT !.remap = @ + n, !.call.env = env]>>
                  \o SubSeq(stack, 3, Len(stack))
  /\ UNCHANGED <<prog, num_gates, num_constraints, pc>>

(* eval_raw() has its CircuitMetrics.                                      *)
Finishes ==
  /\ pc = "body"
  /\ AtEnd(prog, Top.call)
  /\ Len(stack) = 1
  /\ pc' = "done"
  /\ UNCHANGED <<prog, stack, num_gates, num_constraints, segments>>

Next == \/ AllocatesSystemGate \/ Gates \/ AssignsExtra \/ Adds \/ EnforcesZero
        \/ EntersRoutine \/ LeavesRoutine \/ Finishes

Measured == pc = "done" /\ UNCHANGED vars

Spec == Init /\ [][Next \/ Measured]_vars /\ WF_vars(Next)

(* Every scope under way counts into a record that exists, and its wires   *)
(* are combinations of the points' monomials (metrics.rs:211-237, 409-428). *)
TypeOK ==
  /\ prog \in Programs
  /\ num_gates \in Nat /\ num_constraints \in Nat
  /\ pc \in {"system", "body", "done"}
  /\ \A i \in DOMAIN segments :
       segments[i].num_gates \in Nat /\ segments[i].num_constraints \in Nat
  /\ \A i \in DOMAIN stack :
       /\ stack[i].call.name \in Routines
       /\ stack[i].current_segment \in DOMAIN segments
       /\ \A w \in DOMAIN stack[i].call.env :
            DOMAIN stack[i].call.env[w] \subseteq Monomial

(* The totals the rank is checked against are where the floor plan made of *)
(* the records ends, at every step (metrics.rs:491-494, floor_planner.rs:  *)
(* 80-103).                                                                *)
TotalsAreSums == /\ num_gates = GateSums(segments)[Len(segments)]
                 /\ num_constraints = ConstraintSums(segments)[Len(segments)]

(* The records come in depth-first order of the calls and count what each  *)
(* call does itself, nested calls excluded; the root has the SYSTEM gate,  *)
(* the public outputs and ONE on top (metrics.rs:122-158, raw.rs:164-187). *)
RecordsDepthFirst ==
  pc = "done" =>
    /\ Len(segments) = Cardinality(CallTree(prog))
    /\ \A c \in CallTree(prog) :
         LET record == segments[OrderOf(prog, c[1])]
         IN  /\ record.num_gates = Cardinality(Kind(prog, c[2], "gate"))
                                    + (IF c[1] = <<>> THEN 1 ELSE 0)
             /\ record.num_constraints = Cardinality(Kind(prog, c[2], "enforce_zero"))
                                          + (IF c[1] = <<>> THEN Len(prog[Main].outs) + 1 ELSE 0)
=============================================================================
