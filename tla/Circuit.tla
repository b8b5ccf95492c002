------------------------------ MODULE Circuit ------------------------------
(***************************************************************************)
(* What circuit code does to its driver.                                   *)
(*                                                                         *)
(* Every synthesis driver of Ragu (trace, metrics, sxy, sx, sy) runs the   *)
(* SAME user code: Circuit::witness and Routine::execute, written against  *)
(* the Driver trait.  A circuit is therefore modelled once, as a program:  *)
(* a function from routine names to bodies, a body being the sequence of   *)
(* driver calls the code makes and the wires it returns.  The drivers are  *)
(* the machines that run it.                                               *)
(*                                                                         *)
(* Wires are named by their place in the running scope's environment:      *)
(* 1 is Driver::ONE, then the input wires, then one wire more for each     *)
(* `add` and `assign_extra` and three for each `gate`.                     *)
(***************************************************************************)
EXTENDS Integers, Sequences, FiniteSets

CONSTANTS Programs,   \* the circuits under study
          Routines,   \* names of bodies; "main" is the circuit itself
          Errors      \* the errors witness closures may return

Ok   == "ok"
Main == "main"

(* A wire with its coefficient; a linear combination is a sequence of them. *)
Term == Nat \X Int

(* dr.gate(|| ..): `val` stands for the assignment (a, b, c) the closure    *)
(* computes; a closure that fails returns `err` instead.                    *)
GateOp == [kind : {"gate"}, val : Nat, err : Errors \union {Ok}]

(* dr.assign_extra(token, || ..), the token being the one returned by the   *)
(* scope's gate number `gate`.                                              *)
AssignExtraOp ==
  [kind : {"assign_extra"}, gate : Nat \ {0}, val : Nat, err : Errors \union {Ok}]

(* dr.add(lc) and dr.enforce_zero(lc).                                      *)
LinearOp == [kind : {"add", "enforce_zero"}, lc : Seq(Term)]

(* dr.routine(routine, input): `predict` is what Routine::predict returns   *)
(* when it does not fail.                                                   *)
RoutineOp == [kind : {"routine"}, name : Routines, args : Seq(Nat \ {0}),
              predict : {"Known", "Unknown"}, err : Errors \union {Ok}]

Op   == GateOp \union AssignExtraOp \union LinearOp \union RoutineOp
Body == [ops : Seq(Op), outs : Seq(Nat \ {0})]

ASSUME CircuitAssumption ==
  /\ Main \in Routines
  /\ Ok \notin Errors
  /\ Programs \subseteq [Routines -> Body]

(* The constructors programs are written with.                             *)
Gate(v)            == [kind |-> "gate", val |-> v, err |-> Ok]
FailingGate(e)     == [kind |-> "gate", val |-> 0, err |-> e]
Extra(k, v)        == [kind |-> "assign_extra", gate |-> k, val |-> v, err |-> Ok]
Add(lc)            == [kind |-> "add", lc |-> lc]
EnforceZero(lc)    == [kind |-> "enforce_zero", lc |-> lc]
Call(r, args, how) == [kind |-> "routine", name |-> r, args |-> args,
                       predict |-> how, err |-> Ok]
FailingCall(r, e)  == [Call(r, <<>>, "Unknown") EXCEPT !.err = e]
Code(ops)          == [ops |-> ops, outs |-> <<>>]
-----------------------------------------------------------------------------
(* A DFS path: routine-call indices from the root.  Paths are ordered      *)
(* lexicographically, a proper prefix first (Vec's Ord).                   *)
Path == Seq(Nat)
PathLess(p, q) ==
  \/ Len(p) < Len(q) /\ SubSeq(q, 1, Len(p)) = p
  \/ \E k \in DOMAIN p \intersect DOMAIN q :
       p[k] < q[k] /\ \A j \in 1 .. k - 1 : p[j] = q[j]

(* The places of the driver calls of one kind in a body, and how many of   *)
(* them come before a place.                                               *)
Kind(p, n, kind)     == { i \in 1 .. Len(p[n].ops) : p[n].ops[i].kind = kind }
Made(p, n, at, kind) == Cardinality(Kind(p, n, kind) \intersect 1 .. at - 1)
Calls(p, n)          == Kind(p, n, "routine")
CallsMade(p, n, at)  == Made(p, n, at, "routine")
GatesMade(p, n, at)  == Made(p, n, at, "gate")

(* Every call of a circuit, as its path and the body it runs: the circuit  *)
(* itself on the empty path, a call of a body on that body's path and the  *)
(* number of calls it made before.                                         *)
CallsFrom(p, c) ==
  { <<Append(c[1], CallsMade(p, c[2], i)), p[c[2]].ops[i].name>> : i \in Calls(p, c[2]) }
CallLevels(p) ==
  LET level[d \in 0 .. Cardinality(Routines)] ==
        IF d = 0 THEN {<<(<<>>), Main>>} ELSE UNION { CallsFrom(p, c) : c \in level[d - 1] }
  IN  level
CallTree(p) == UNION { CallLevels(p)[d] : d \in 0 .. Cardinality(Routines) }

(* The place of a call among all of them, depth first.                     *)
OrderOf(p, q) == 1 + Cardinality({ c \in CallTree(p) : PathLess(c[1], q) })

(* Synthesis of a circuit ends: no body is, however indirectly, called by  *)
(* itself, so calls do not nest deeper than there are bodies.              *)
ASSUME NestingAssumption ==
  IsFiniteSet(Routines) /\ \A p \in Programs : CallLevels(p)[Cardinality(Routines)] = {}
=============================================================================
