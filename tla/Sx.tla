--------------------------------- MODULE Sx ---------------------------------
(***************************************************************************)
(* wiring::sx::eval: the polynomial s(x, Y) of a circuit, one coefficient  *)
(* per constraint, written at its absolute index in synthesis order; at    *)
(* the end every segment's range is reversed.                              *)
(***************************************************************************)
EXTENDS PointDriver

VARIABLES
  prog, plan, x,     \* the circuit, its floor plan and the point
  stack,             \* call frames with their SxScope, innermost first
  current_routine,   \* segments entered after the root
  pc,                \* "idle", "run", "done", or why it stopped
  coeffs             \* `result`: place j + 1 is for Y^j

input == <<prog, plan, x>>
vars  == <<input, stack, current_routine, pc, coeffs>>

Top       == stack[1]
Go(f)     == stack' = [stack EXCEPT ![1] = f] /\ UNCHANGED pc
Stop(why) == pc' = why /\ UNCHANGED stack

Init == /\ stack = <<>> /\ current_routine = 0 /\ pc = "idle"
        /\ coeffs = [j \in 1 .. NumCoeffs |-> 0]

Starts == /\ pc = "idle"
          /\ pc' = "run"
          /\ stack' = <<GateTaken(NewScope(plan, 1, Main, <<>>, x), x)>>
          /\ UNCHANGED <<input, current_routine, coeffs>>

Running(kind) == pc = "run" /\ AboutTo(prog, Top.call, kind)
NextCall      == NextOp(prog, Top.call)

Gates ==
  /\ Running("gate")
  /\ IF NoRoomForGate(N, Top) THEN Stop("GateBoundExceeded") ELSE Go(WithGate(Top, x))
  /\ UNCHANGED <<input, current_routine, coeffs>>

AssignsExtra ==
  /\ Running("assign_extra")
  /\ Go(WithExtra(Top, NextCall, x))
  /\ UNCHANGED <<input, current_routine, coeffs>>

Adds ==
  /\ Running("add")
  /\ Go(WithSum(Top, NextCall))
  /\ UNCHANGED <<input, current_routine, coeffs>>

EnforcesZero ==
  /\ Running("enforce_zero")
  /\ IF NoRoomForConstraint(N, Top)
       THEN Stop("ConstraintBoundExceeded") /\ UNCHANGED coeffs
       ELSE /\ coeffs' = [coeffs EXCEPT ![Top.constraints + 1] =
                            DirectSum(NextCall.lc, Top.call.env)]
            /\ Go([Top EXCEPT !.constraints = @ + 1, !.call = Advanced(@)])
  /\ UNCHANGED <<input, current_routine>>

EntersRoutine ==
  /\ Running("routine")
  /\ current_routine' = current_routine + 1
  /\ LET seg    == current_routine + 2    \* floor_plan[current_routine], from 1
         inputs == InputWires(Top.call, NextCall)
     IN  IF seg \notin DOMAIN plan THEN Stop("panicked")
         ELSE /\ stack' = <<NewScope(plan, seg, NextCall.name, inputs, x)>>
                          \o [stack EXCEPT ![1].call = Advanced(@)]
              /\ UNCHANGED pc
  /\ UNCHANGED <<input, coeffs>>

LeavesRoutine ==
  /\ pc = "run"
  /\ AtEnd(prog, Top.call)
  /\ Len(stack) > 1
  /\ IF ~Filled(plan, Top) THEN Stop("panicked")
     ELSE /\ stack' = [Tail(stack) EXCEPT ![1] = WithOutputs(@, prog, Top)]
          /\ UNCHANGED pc
  /\ UNCHANGED <<input, current_routine, coeffs>>

(* Each segment's coefficients, the last one emitted first.                *)
Reversed ==
  LET range(s) == plan[s].constraint_start + 1
                    .. plan[s].constraint_start + plan[s].num_constraints
      at(j)    == { s \in DOMAIN plan : j \in range(s) }
      from(s, j) == 2 * plan[s].constraint_start + plan[s].num_constraints + 1 - j
  IN  [j \in DOMAIN coeffs |->
         IF at(j) = {} THEN coeffs[j] ELSE coeffs[from(CHOOSE s \in at(j) : TRUE, j)]]

Finishes ==
  /\ pc = "run"
  /\ AtEnd(prog, Top.call)
  /\ Len(stack) = 1
  /\ stack' = <<>>
  /\ coeffs' = Reversed
  /\ pc' = IF current_routine + 1 = Len(plan) /\ Filled(plan, Top) /\ coeffs'[1] = 1
             THEN "done" ELSE "panicked"
  /\ UNCHANGED <<input, current_routine>>

Next == \/ Starts \/ Gates \/ AssignsExtra \/ Adds \/ EnforcesZero
        \/ EntersRoutine \/ LeavesRoutine \/ Finishes
=============================================================================
