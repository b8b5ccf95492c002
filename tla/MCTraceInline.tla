---------------------------- MODULE MCTraceInline ---------------------------
(* Model checking of TraceInline.                                          *)
EXTENDS TraceInline, MCPrograms
=============================================================================
