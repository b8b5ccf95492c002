------------------------------ MODULE Assembly ------------------------------
(***************************************************************************)
(* From a circuit to its trace polynomial: the circuit is measured when it *)
(* is registered (into_wiring_object), the floor plan is computed from the *)
(* records (RegistryBuilder::finalize), the witness is evaluated (Trace)   *)
(* and the trace is scattered to the places of the floor plan              *)
(* (Trace::assemble).  The two passes read the same circuit but are        *)
(* different drivers; that they agree is what the composition is about.    *)
(***************************************************************************)
EXTENDS Trace

CONSTANTS N,       \* Rank::n(): the most gates a circuit may have
          Alpha    \* the blinding factor put into a[0]

ASSUME RankAssumption == N \in Nat \ {0} /\ Alpha \in Nat

VARIABLES stack, num_gates, num_constraints, segments, mpc,  \* Metrics
          phase,     \* "measure", "evaluate", "refused", "assembled", "panicked"
          error,     \* why it was refused
          view       \* the gates of the assembled polynomial

M == INSTANCE Metrics WITH pc <- mpc

metricsVars  == <<stack, num_gates, num_constraints, segments, mpc>>
assemblyVars == <<phase, error, view>>
allVars      == <<vars, metricsVars, assemblyVars>>

AInit == /\ Init
         /\ M!Init
         /\ phase = "measure"
         /\ error = Ok
         /\ view = <<>>

Measure == /\ phase = "measure"
           /\ M!Next
           /\ UNCHANGED <<vars, assemblyVars>>

(* into_wiring_object accepts or refuses the circuit.                      *)
Register ==
  /\ phase = "measure"
  /\ mpc = "done"
  /\ LET e == M!BoundError(N, num_gates, num_constraints)
     IN  IF e = Ok THEN phase' = "evaluate" /\ UNCHANGED error
                   ELSE phase' = "refused" /\ error' = e
  /\ UNCHANGED <<vars, metricsVars, view>>

Evaluate == /\ phase = "evaluate"
            /\ pc # "done"
            /\ Next
            /\ UNCHANGED <<metricsVars, assemblyVars>>

(* CircuitExt::trace failed: there is nothing to assemble.                 *)
TraceFails == /\ phase = "evaluate"
              /\ pc = "done"
              /\ result.err # Ok
              /\ phase' = "refused"
              /\ error' = result.err
              /\ UNCHANGED <<vars, metricsVars, view>>

(* Trace::assemble.                                                        *)
Plan       == M!FloorPlan(segments)
EndOf(i)   == Plan[i].gate_start + Len(result.segments[i].gates)
TotalGates == LET ends == { EndOf(i) : i \in DOMAIN result.segments }
              IN  CHOOSE m \in ends : \A e \in ends : e <= m

AssertsHold == /\ Len(Plan) = Len(result.segments)
               /\ Plan[1].gate_start = 0
SizesMatch  == \A i \in DOMAIN Plan : Len(result.segments[i].gates) = Plan[i].num_gates

(* Place g (from 1) of the view gets the gate of the last segment that     *)
(* covers it, and stays zero if none does.                                 *)
Scattered ==
  LET covers(i, g) == Plan[i].gate_start < g /\ g <= EndOf(i)
      gate(g) == LET is == { i \in DOMAIN Plan : covers(i, g) }
                     i  == CHOOSE k \in is : \A l \in is : l <= k
                 IN  IF is = {} THEN Placeholder
                     ELSE result.segments[i].gates[g - Plan[i].gate_start]
  IN  [g \in 1 .. TotalGates |-> gate(g)]

Assemble ==
  /\ phase = "evaluate"
  /\ pc = "done"
  /\ result.err = Ok
  /\ IF ~AssertsHold
       THEN phase' = "panicked" /\ UNCHANGED <<error, view>>
     ELSE IF TotalGates > N
       THEN phase' = "refused" /\ error' = "GateBoundExceeded" /\ UNCHANGED view
     ELSE IF ~SizesMatch
       THEN phase' = "panicked" /\ UNCHANGED <<error, view>>
     ELSE /\ phase' = "assembled"
          /\ view' = [Scattered EXCEPT ![1] = [abc |-> Alpha, d |-> 1]]
          /\ UNCHANGED error
  /\ UNCHANGED <<vars, metricsVars>>

Stopped == phase \in {"refused", "assembled", "panicked"} /\ UNCHANGED allVars

ANext == Measure \/ Register \/ Evaluate \/ TraceFails \/ Assemble \/ Stopped

AllSpec == AInit /\ [][ANext]_allVars

(* The parts keep their types and the assembled view is a list of gates    *)
(* (trace.rs:113-146).                                                     *)
ATypeOK == /\ TypeOK
           /\ M!TypeOK
           /\ phase \in {"measure", "evaluate", "refused", "assembled", "panicked"}
           /\ view \in Seq(TraceGate)

(* Whatever the schedule of the witness evaluation, the trace of a circuit *)
(* that was accepted fits the floor plan of its measurement: no assert of  *)
(* Trace::assemble fails (trace.rs:92-100, 126-131), and the bound check   *)
(* there (trace.rs:109) never refuses what into_wiring_object accepted     *)
(* (lib.rs:231-245).                                                       *)
AcceptedCircuitsAssemble ==
  /\ phase # "panicked"
  /\ phase = "refused" /\ pc = "done" => error = result.err

(* Gate i of the polynomial is gate i of a depth-first run: segments do    *)
(* not overlap and leave no gap, and only gate 0 carries alpha and ONE     *)
(* (trace.rs:79-86, 121-144).                                              *)
PolynomialDepthFirst ==
  phase = "assembled" =>
    LET list  == result.segments
        start == M!PrefixSums(Len(list), [i \in DOMAIN list |-> Len(list[i].gates)])
    IN  /\ Abstract!DepthFirst(prog, list)
        /\ Len(view) = start[Len(list)]
        /\ \A i \in DOMAIN list : \A k \in DOMAIN list[i].gates :
             view[start[i - 1] + k] = IF start[i - 1] + k = 1 THEN [abc |-> Alpha, d |-> 1]
                                      ELSE list[i].gates[k]
=============================================================================
