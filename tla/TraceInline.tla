---------------------------- MODULE TraceInline ----------------------------
(***************************************************************************)
(* trace::eval without the "multicore" feature.  A routine whose output is *)
(* predicted runs at once in an evaluator of its own nested in the caller; *)
(* when it is over, its segments and then those it had deferred itself go  *)
(* to the caller's `deferred`.  The first error unwinds everything.        *)
(***************************************************************************)
EXTENDS Evaluator

VARIABLES
  prog,     \* the circuit being evaluated
  nest,     \* the evaluators under way, innermost first, with their `deferred`
  pc,       \* "run" or "done"
  result    \* what eval returned

vars == <<prog, nest, pc, result>>

Level   == [ev : EvaluatorSet, deferred : Seq(Segment)]
Nothing == [err |-> Ok, segments |-> <<>>]

NewLevel(name, prefix) == [ev |-> NewEvaluator(name, prefix), deferred |-> <<>>]

Init ==
  /\ prog \in Programs
  /\ nest = <<NewLevel(Main, <<>>)>>
  /\ pc = "run"
  /\ result = Nothing

Current   == Head(nest).ev
Op1(kind) == AboutTo(prog, Current, kind)
Next1     == NextOp(prog, Current)

Step(ev) == /\ nest' = <<[Head(nest) EXCEPT !.ev = ev]>> \o Tail(nest)
            /\ UNCHANGED <<prog, pc, result>>

Gates == pc = "run" /\ Op1("gate") /\ Next1.err = Ok /\ Step(PushGate(Current, Next1))

AssignsExtra ==
  pc = "run" /\ Op1("assign_extra") /\ Next1.err = Ok /\ Step(SetExtra(Current, Next1))

AddsOrEnforces ==
  pc = "run" /\ (Op1("add") \/ Op1("enforce_zero")) /\ Step(Ignore(Current))

Executes ==
  /\ pc = "run"
  /\ Op1("routine")
  /\ Next1.err = Ok
  /\ Next1.predict = "Unknown"
  /\ Step(EnterRoutine(Current, Next1))

(* predict() returned Known: a nested evaluator executes it now.           *)
ExecutesDeferred ==
  /\ pc = "run"
  /\ Op1("routine")
  /\ Next1.err = Ok
  /\ Next1.predict = "Known"
  /\ nest' = <<NewLevel(Next1.name, ChildPrefix(Current))>>
             \o <<[Head(nest) EXCEPT !.ev = DeferRoutine(Current)]>> \o Tail(nest)
  /\ UNCHANGED <<prog, pc, result>>

Returns ==
  pc = "run" /\ Running(Current) /\ AtEnd(prog, Current) /\ Step(LeaveScope(Current))

(* Mutant of KeepsDeferred: what the nested evaluator deferred is lost.    *)
KeepsSegmentsOnly ==
  /\ pc = "run"
  /\ ~Running(Current)
  /\ Len(nest) > 1
  /\ nest' = <<[nest[2] EXCEPT !.deferred = @ \o nest[1].ev.segments]>>
             \o SubSeq(nest, 3, Len(nest))
  /\ UNCHANGED <<prog, pc, result>>

(* The nested evaluator is over; the caller keeps what it produced.        *)
KeepsDeferred ==
  /\ pc = "run"
  /\ ~Running(Current)
  /\ Len(nest) > 1
  /\ LET inner == nest[1]
         outer == nest[2]
     IN  nest' = <<[outer EXCEPT !.deferred = @ \o inner.ev.segments \o inner.deferred]>>
                 \o SubSeq(nest, 3, Len(nest))
  /\ UNCHANGED <<prog, pc, result>>

(* Mutant of Fails: a deferred routine's error is swallowed.               *)
FailsUnnoticed ==
  /\ pc = "run"
  /\ Running(Current)
  /\ ~AtEnd(prog, Current)
  /\ Next1.kind \in {"gate", "assign_extra", "routine"}
  /\ Next1.err # Ok
  /\ nest' = Tail(nest)
  /\ IF Len(nest) > 1 THEN UNCHANGED <<pc, result>>
     ELSE pc' = "done" /\ result' = [err |-> Next1.err, segments |-> <<>>]
  /\ UNCHANGED prog

Fails ==
  /\ pc = "run"
  /\ Running(Current)
  /\ ~AtEnd(prog, Current)
  /\ Next1.kind \in {"gate", "assign_extra", "routine"}
  /\ Next1.err # Ok
  /\ nest' = <<>>
  /\ pc' = "done"
  /\ result' = [err |-> Next1.err, segments |-> <<>>]
  /\ UNCHANGED prog

Finish ==
  /\ pc = "run"
  /\ ~Running(Current)
  /\ Len(nest) = 1
  /\ nest' = <<>>
  /\ pc' = "done"
  /\ \E s \in Sorted(Current.segments \o Head(nest).deferred) :
       result' = [err |-> Ok, segments |-> s]
  /\ UNCHANGED prog

Returned == pc = "done" /\ UNCHANGED vars

Next == \/ Gates \/ AssignsExtra \/ AddsOrEnforces \/ Executes \/ ExecutesDeferred
        \/ Returns \/ KeepsDeferred \/ Fails \/ Finish \/ Returned

Spec == Init /\ [][Next]_vars /\ WF_vars(Next)

(* As in Trace, for every evaluator of the nest (trace.rs:48-51, 151-176). *)
TypeOK ==
  /\ prog \in Programs
  /\ nest \in Seq(Level)
  /\ pc \in {"run", "done"}
  /\ result \in [err : Errors \union {Ok}, segments : Seq(Segment)]

Abstract == INSTANCE TraceEval WITH done <- pc = "done"

(* The single-threaded build returns the same trace as the multicore one:  *)
(* both implement TraceEval (trace.rs:308-320 and 396-413).                *)
ReturnsDepthFirstTrace == Abstract!ASpec

(* It stops at the first error of the depth-first run, also when that is   *)
(* one of a deferred routine the multicore build would have outlived       *)
(* (the `?` after execute, trace.rs:313).                                  *)
FirstErrorWins ==
  pc = "done" /\ result.err # Ok => result.err \in Abstract!FirstError(prog)
=============================================================================
