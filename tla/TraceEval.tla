----------------------------- MODULE TraceEval -----------------------------
(***************************************************************************)
(* What trace::eval promises, whatever the schedule and whichever build:   *)
(* one step from a circuit to its result.  The result is the list of       *)
(* segments of the circuit's calls in depth-first order, or one of the     *)
(* errors a run can raise.  Written without evaluators, scopes or counters:*)
(* what a body does is read off its text, what a run gets to is the least  *)
(* set closed under what a body does.                                      *)
(***************************************************************************)
EXTENDS Evaluator

VARIABLES prog, done, result

avars == <<prog, done, result>>

(* The k-th gate a body makes, nested routines left out: the values of the *)
(* k-th gate() and of the last assign_extra() on its token.                *)
GateCall(p, n, k)   == CHOOSE i \in Kind(p, n, "gate") : GatesMade(p, n, i) = k - 1
ExtraCalls(p, n, k) == { i \in Kind(p, n, "assign_extra") : p[n].ops[i].gate = k }
LastValue(p, n, is) ==
  IF is = {} THEN 0 ELSE p[n].ops[CHOOSE i \in is : \A j \in is : j <= i].val
OwnGates(p, n) ==
  [k \in 1 .. Cardinality(Kind(p, n, "gate")) |->
     [abc |-> p[n].ops[GateCall(p, n, k)].val, d |-> LastValue(p, n, ExtraCalls(p, n, k))]]
GatesOf(p, c) == (IF c[1] = <<>> THEN <<Placeholder>> ELSE <<>>) \o OwnGates(p, c[2])

(* A list has one segment for every call, in depth-first order, with the   *)
(* gates of its body.                                                      *)
DepthFirst(p, list) ==
  /\ { list[i].dfs_path : i \in DOMAIN list } = { c[1] : c \in CallTree(p) }
  /\ InOrder(list)
  /\ \A i \in DOMAIN list : \A c \in CallTree(p) :
       list[i].dfs_path = c[1] => list[i].gates = GatesOf(p, c)

(* A call's closure or predict() fails; or it is of a routine whose error  *)
(* comes out of the call, because predictions of its kind (those of inline)*)
(* run in their caller.                                                    *)
Faulty(o) == o.kind \in {"gate", "assign_extra", "routine"} /\ o.err # Ok
CallRaises(o, inline, S) ==
  Faulty(o) \/ (o.kind = "routine" /\ o.predict \in inline /\ o.name \in S)
RaisingSets(p, inline) ==
  { S \in SUBSET Routines : \A n \in Routines :
      (\E i \in DOMAIN p[n].ops : CallRaises(p[n].ops[i], inline, S)) => n \in S }
Raising(p, inline) == { n \in Routines : \A S \in RaisingSets(p, inline) : n \in S }

(* A body gets to a call if none before it raises an error; a run enters   *)
(* the routines whose calls its bodies get to, those with the predictions  *)
(* of into.                                                                *)
GetsTo(p, inline, n, i) ==
  \A j \in 1 .. i - 1 : ~CallRaises(p[n].ops[j], inline, Raising(p, inline))
EnteredSets(p, inline, into) ==
  { S \in SUBSET Routines :
      /\ Main \in S
      /\ \A n \in S : \A i \in Calls(p, n) :
           /\ GetsTo(p, inline, n, i)
           /\ p[n].ops[i].err = Ok
           /\ p[n].ops[i].predict \in into
           => p[n].ops[i].name \in S }
Entered(p, inline, into) ==
  { n \in Routines : \A S \in EnteredSets(p, inline, into) : n \in S }
FaultsOf(p, inline, n) ==
  { i \in DOMAIN p[n].ops : Faulty(p[n].ops[i]) /\ GetsTo(p, inline, n, i) }
ErrorsOf(p, inline, into) ==
  UNION { { p[n].ops[i].err : i \in FaultsOf(p, inline, n) } : n \in Entered(p, inline, into) }

(* The errors of the circuit and of every routine it gets to, where only   *)
(* unpredicted ones run in their callers; those of the root's own control  *)
(* flow; and that of a run that executes every routine at its call.        *)
AnyError(p)   == ErrorsOf(p, {"Unknown"}, {"Known", "Unknown"})
RootError(p)  == ErrorsOf(p, {"Unknown"}, {"Unknown"})
FirstError(p) == ErrorsOf(p, {"Known", "Unknown"}, {"Known", "Unknown"})

Promised(p, r) ==
  IF AnyError(p) = {}
    THEN r.err = Ok /\ DepthFirst(p, r.segments)
    ELSE r.err \in AnyError(p) /\ r.segments = <<>>

AInit == prog \in Programs /\ done = FALSE /\ result = [err |-> Ok, segments |-> <<>>]

Return == ~done /\ done' = TRUE /\ Promised(prog, result') /\ UNCHANGED prog

ASpec == AInit /\ [][Return]_avars

(* Where spawned routines report to eval by a channel, an error of the     *)
(* root body comes before theirs.                                          *)
ReturnRootFirst ==
  /\ Return
  /\ RootError(prog) # {} => result'.err \in RootError(prog)

RootFirstSpec == AInit /\ [][ReturnRootFirst]_avars
=============================================================================
