------------------------------ MODULE MCTrace -------------------------------
(* Model checking of Trace.                                                *)
EXTENDS Trace, MCPrograms

(* eval returns: every task drops its Sender, with an error too, and so    *)
(* `for batch in rx` ends (trace.rs:290-305, 389-391).                     *)
Terminates == <>(pc = "done")
=============================================================================
