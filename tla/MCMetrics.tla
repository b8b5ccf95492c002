----------------------------- MODULE MCMetrics -----------------------------
(* Model checking of Metrics.                                              *)
EXTENDS Metrics, MCPrograms

MCCircuits == WiredPrograms \union LimitPrograms

(* Two calls have the same fingerprint exactly when their routines impose  *)
(* the same constraints, whoever calls them, with whatever wires and       *)
(* however deep (metrics.rs:239-251, 430-458); only the root has none      *)
(* (the asserts of eval_raw, metrics.rs:496-508).                          *)
FingerprintsClassify ==
  pc = "done" =>
    LET identity(c) == segments[OrderOf(prog, c[1])].identity
        nested      == { c \in CallTree(prog) : c[1] # <<>> }
    IN  /\ \A i \in DOMAIN segments : segments[i].identity = RootIdentity <=> i = 1
        /\ \A c, e \in nested : identity(c) = identity(e) <=> Shape[c[2]] = Shape[e[2]]
=============================================================================
