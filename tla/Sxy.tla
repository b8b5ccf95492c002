-------------------------------- MODULE Sxy --------------------------------
(***************************************************************************)
(* wiring::sxy::eval: the value s(x, y) of a circuit's wiring polynomial,  *)
(* by one Horner step per constraint within a segment and a jump to the    *)
(* segment's place of the floor plan at every routine call.                *)
(***************************************************************************)
EXTENDS PointDriver

VARIABLES
  prog, plan, x, y,  \* the circuit, its floor plan and the point
  stack,             \* call frames with their SxyScope, innermost first
  current_routine,   \* segments entered after the root
  pc,                \* "idle", "run", "done", or why it stopped
  value              \* what eval returned

input == <<prog, plan, x, y>>
vars  == <<input, stack, current_routine, pc, value>>

Top       == stack[1]
SetTop(f) == stack' = [stack EXCEPT ![1] = f]
Go(f)     == SetTop(f) /\ UNCHANGED pc
Stop(why) == pc' = why /\ UNCHANGED stack

Scope(seg, name, inputs) ==
  LET s == NewScope(plan, seg, name, inputs, x)
  IN  [call |-> s.call, seg |-> s.seg, gates |-> s.gates, constraints |-> s.constraints,
       monomials |-> s.monomials, result |-> 0, sum |-> 0]

Init == stack = <<>> /\ current_routine = 0 /\ pc = "idle" /\ value = 0

(* The root scope, and orchestrate()'s SYSTEM gate.                        *)
Starts == /\ pc = "idle"
          /\ pc' = "run"
          /\ stack' = <<GateTaken(Scope(1, Main, <<>>), x)>>
          /\ UNCHANGED <<input, current_routine, value>>

Running(kind) == pc = "run" /\ AboutTo(prog, Top.call, kind)
NextCall      == NextOp(prog, Top.call)

(* An error leaves every routine under way, each past its asserts: here    *)
(* they come before the `?`.                                               *)
Fail(error) ==
  Stop(IF \A i \in 1 .. Len(stack) - 1 : Filled(plan, stack[i]) THEN error ELSE "panicked")

Gates ==
  /\ Running("gate")
  /\ IF NoRoomForGate(N, Top) THEN Fail("GateBoundExceeded") ELSE Go(WithGate(Top, x))
  /\ UNCHANGED <<input, current_routine, value>>

AssignsExtra ==
  /\ Running("assign_extra")
  /\ Go(WithExtra(Top, NextCall, x))
  /\ UNCHANGED <<input, current_routine, value>>

Adds ==
  /\ Running("add")
  /\ Go(WithSum(Top, NextCall))
  /\ UNCHANGED <<input, current_routine, value>>

(* One Horner step.                                                        *)
EnforcesZero ==
  /\ Running("enforce_zero")
  /\ IF NoRoomForConstraint(N, Top) THEN Fail("ConstraintBoundExceeded")
     ELSE Go([Top EXCEPT !.constraints = @ + 1,
                         !.result = Plus(Times(@, y), DirectSum(NextCall.lc, Top.call.env)),
                         !.call = Advanced(@)])
  /\ UNCHANGED <<input, current_routine, value>>

EntersRoutine ==
  /\ Running("routine")
  /\ current_routine' = current_routine + 1
  /\ LET seg == current_routine + 2    \* floor_plan[current_routine], from 1
     IN  IF seg \notin DOMAIN plan THEN Stop("panicked")
         ELSE /\ stack' = <<Scope(seg, NextCall.name, InputWires(Top.call, NextCall))>>
                          \o [stack EXCEPT ![1].call = Advanced(@)]
              /\ UNCHANGED pc
  /\ UNCHANGED <<input, value>>

(* The routine's result, placed at its Y offset, and what its own routines *)
(* contributed become part of the caller's sum.                            *)
Contribution(f) ==
  Plus(Times(Power(y, plan[f.seg].constraint_start), f.result), f.sum)

LeavesRoutine ==
  /\ pc = "run"
  /\ AtEnd(prog, Top.call)
  /\ Len(stack) > 1
  /\ IF ~Filled(plan, Top) THEN Stop("panicked")
     ELSE LET caller == WithOutputs(stack[2], prog, Top)
          IN  /\ stack' = [Tail(stack) EXCEPT
                             ![1] = [caller EXCEPT !.sum = Plus(@, Contribution(Top))]]
              /\ UNCHANGED pc
  /\ UNCHANGED <<input, current_routine, value>>

Finishes ==
  /\ pc = "run"
  /\ AtEnd(prog, Top.call)
  /\ Len(stack) = 1
  /\ stack' = <<>>
  /\ IF current_routine + 1 = Len(plan) /\ Filled(plan, Top)
       THEN pc' = "done" /\ value' = Plus(Top.result, Top.sum)
       ELSE pc' = "panicked" /\ UNCHANGED value
  /\ UNCHANGED <<input, current_routine>>

Next == \/ Starts \/ Gates \/ AssignsExtra \/ Adds \/ EnforcesZero
        \/ EntersRoutine \/ LeavesRoutine \/ Finishes
=============================================================================
