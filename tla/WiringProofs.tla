---------------------------- MODULE WiringProofs ----------------------------
(***************************************************************************)
(* Proofs about the three evaluations of a circuit (Wiring.tla), for every *)
(* set of well-wired circuits, bound n, field and points:                  *)
(*                                                                         *)
(* - in every evaluation of s(X, y) the virtual wire table of sy stays     *)
(*   sound, and its assertions never fire: the inductive invariant of sy   *)
(*   (SyProofs.tla) holds throughout, since the other phases touch neither *)
(*   the circuit nor sy's state;                                           *)
(* - the pass that measures a circuit counts, routine by routine, the gates*)
(*   and constraints of what it has walked (CountInv), so the totals it    *)
(*   ends with are their sums;                                             *)
(* - every evaluator walks the scopes the measuring pass recorded, in the  *)
(*   same order, and gates and constraints stay within what is left of the *)
(*   scope's placement (XYInv, SXInv, SYInv): each comes to its end without *)
(*   an error, and a circuit that is registered can be evaluated.          *)
(***************************************************************************)
EXTENDS Wiring, DataTheorems

SYP == INSTANCE SyProofs WITH stack <- sy_stack, current_routine <- sy_routine, pc <- sy_pc

(* The instance of SyProofs is about the same parameters, circuits, start  *)
(* and steps: its definitions are those of Wiring and of SY, word for word. *)
LEMMA SameParameters ==
  /\ SYP!Main \in Routines /\ SYP!Ok \notin Errors /\ Programs \subseteq [Routines -> SYP!Body]
  /\ SYP!IsFiniteSet(Routines)
  /\ \A p \in Programs : SYP!CallLevels(p)[SYP!Cardinality(Routines)] = {}
  /\ P \in Nat /\ SYP!IsPrime(P) /\ N \in Nat \ {0}
<1>1. SYP!Main \in Routines /\ SYP!Ok \notin Errors /\ Programs \subseteq [Routines -> SYP!Body]
  BY CircuitAssumption
     DEF Main, Ok, Body, Op, GateOp, AssignExtraOp, LinearOp, RoutineOp, Term,
         SYP!Main, SYP!Ok, SYP!Body, SYP!Op, SYP!GateOp, SYP!AssignExtraOp, SYP!LinearOp,
         SYP!RoutineOp, SYP!Term
<1>2. P \in Nat /\ SYP!IsPrime(P) /\ N \in Nat \ {0}
  BY FieldAssumption DEF IsPrime, SYP!IsPrime
<1>3. SYP!IsFiniteSet(Routines)
  BY NestingAssumption DEF IsFiniteSet, SYP!IsFiniteSet
<1>4. \A S : SYP!Cardinality(S) = Cardinality(S)
  BY DEF SYP!Cardinality, Cardinality
<1>5. \A p, n, kind : SYP!Kind(p, n, kind) = Kind(p, n, kind)
  BY DEF SYP!Kind, Kind
<1>6. ASSUME NEW p, NEW n, NEW at PROVE SYP!CallsMade(p, n, at) = CallsMade(p, n, at)
  <2> HIDE DEF Kind, SYP!Kind
  <2>1. SYP!Kind(p, n, "routine") \intersect 1 .. at - 1 = Kind(p, n, "routine") \intersect 1 .. at - 1
    BY <1>5
  <2> QED
    BY <2>1, <1>4 DEF SYP!CallsMade, SYP!Made, CallsMade, Made
<1>7. \A p, c : SYP!CallsFrom(p, c) = CallsFrom(p, c)
  BY <1>5, <1>6 DEF SYP!CallsFrom, SYP!Calls, CallsFrom, Calls
<1>8. ASSUME NEW p PROVE SYP!CallLevels(p) = CallLevels(p)
  <2> DEFINE Solves(h) == h = [d \in 0 .. Cardinality(Routines) |->
                                 IF d = 0 THEN {<<(<<>>), Main>>}
                                 ELSE UNION { CallsFrom(p, c) : c \in h[d - 1] }]
             Fits(h) == h = [d \in 0 .. Cardinality(Routines) |->
                               IF d = 0 THEN {<<(<<>>), Main>>}
                               ELSE UNION { SYP!CallsFrom(p, c) : c \in h[d - 1] }]
  <2>1. \A h : Solves(h) <=> Fits(h)
    BY <1>7
  <2>2. CallLevels(p) = CHOOSE h : Solves(h)
    BY DEF CallLevels
  <2>3. SYP!CallLevels(p) = CHOOSE h : Fits(h)
    BY <1>4 DEF SYP!CallLevels, SYP!Main, Main
  <2> HIDE DEF Solves, Fits
  <2> QED
    BY <2>1, <2>2, <2>3
<1>9. \A p \in Programs : SYP!CallLevels(p)[SYP!Cardinality(Routines)] = {}
  BY <1>4, <1>8, NestingAssumption
<1> QED
  BY <1>1, <1>2, <1>3, <1>9

-----------------------------------------------------------------------------
(* The calls of a body.  From SyProofs, with what the last one is.         *)
LEMMA OpsAre ==
  ASSUME NEW p \in Programs, NEW r \in Routines
  PROVE  /\ OpsOf(p, r) \in Seq(Op) /\ Len(OpsOf(p, r)) \in Nat
         /\ \A i \in 1 .. Len(OpsOf(p, r)) :
              /\ OpsOf(p, r)[i].kind \in {"gate", "assign_extra", "add", "enforce_zero", "routine"}
              /\ OpsOf(p, r)[i].kind = "routine" => OpsOf(p, r)[i].name \in Routines
              /\ OpsOf(p, r)[i].kind \in {"add", "enforce_zero"} => OpsOf(p, r)[i].lc \in Seq(Term)
<1>1. /\ SYP!OpsOf(p, r) \in Seq(SYP!Op)
  BY SameParameters, SYP!OpsAre
<1>2. SYP!OpsOf(p, r) = OpsOf(p, r)
  BY DEF SYP!OpsOf, SYP!Main, SYP!EnforceZero, OpsOf, Main, EnforceZero
<1>3. SYP!Op = Op
  BY DEF SYP!Op, SYP!GateOp, SYP!AssignExtraOp, SYP!LinearOp, SYP!RoutineOp, SYP!Term, SYP!Ok,
         Op, GateOp, AssignExtraOp, LinearOp, RoutineOp, Term, Ok
<1>4. OpsOf(p, r) \in Seq(Op)
  BY <1>1, <1>2, <1>3
<1>5. \A op \in Op : /\ op.kind \in {"gate", "assign_extra", "add", "enforce_zero", "routine"}
                     /\ op.kind = "routine" => op.name \in Routines
                     /\ op.kind \in {"add", "enforce_zero"} => op.lc \in Seq(Term)
  BY DEF Op, GateOp, AssignExtraOp, LinearOp, RoutineOp
<1>6. Len(OpsOf(p, r)) \in Nat /\ \A i \in 1 .. Len(OpsOf(p, r)) : OpsOf(p, r)[i] \in Op
  BY <1>4, LenProperties
<1> QED
  BY <1>4, <1>5, <1>6

(* orchestrate() ends the circuit's calls with the constraint on ONE.      *)
LEMMA LastIsOne ==
  ASSUME NEW p \in Programs
  PROVE  /\ Len(OpsOf(p, Main)) >= 1
         /\ OpsOf(p, Main)[Len(OpsOf(p, Main))] = EnforceZero(<< <<1, 1>> >>)
<1> DEFINE outs == p[Main].outs
           ops == p[Main].ops
           own == [k \in DOMAIN outs |-> EnforceZero(<< <<outs[k], 1>> >>)]
           one == EnforceZero(<< <<1, 1>> >>)
<1>1. p[Main] \in Body
  BY CircuitAssumption
<1>2. ops \in Seq(Op) /\ outs \in Seq(Nat \ {0})
  BY <1>1 DEF Body
<1>3. own \in Seq(Range(own))
  <2>1. Len(outs) \in Nat /\ DOMAIN outs = 1 .. Len(outs)
    BY <1>2
  <2>2. own \in [1 .. Len(outs) -> Range(own)]
    BY <2>1 DEF Range
  <2> HIDE DEF own
  <2> QED
    BY <2>1, <2>2
<1>4. OpsOf(p, Main) = ops \o (own \o <<one>>)
  BY DEF OpsOf
<1>5. IsList(ops) /\ IsList(own)
  BY <1>2, <1>3, ListOf
<1> HIDE DEF own, one, ops
<1>6. IsList(<<one>>) /\ Len(<<one>>) = 1 /\ <<one>>[1] = one
  BY Single
<1>7. Len(ops) \in Nat /\ Len(own) \in Nat
  BY <1>5, ListIs
<1>8. /\ IsList(own \o <<one>>) /\ Len(own \o <<one>>) = Len(own) + 1
      /\ (own \o <<one>>)[Len(own) + 1] = one
  <2>1. /\ IsList(own \o <<one>>) /\ Len(own \o <<one>>) = Len(own) + Len(<<one>>)
        /\ \A k \in 1 .. Len(<<one>>) : (own \o <<one>>)[Len(own) + k] = <<one>>[k]
    BY <1>5, <1>6, Joined
  <2> QED
    BY <2>1, <1>6
<1> DEFINE more == own \o <<one>>
<1>9. /\ Len(ops \o more) = Len(ops) + (Len(own) + 1)
      /\ (ops \o more)[Len(ops) + (Len(own) + 1)] = one
  <2> HIDE DEF more
  <2>1. /\ Len(ops \o more) = Len(ops) + Len(more)
        /\ \A k \in 1 .. Len(more) : (ops \o more)[Len(ops) + k] = more[k]
    BY <1>5, <1>8, Joined DEF more
  <2>2. Len(own) + 1 \in 1 .. Len(more)
    BY <1>7, <1>8 DEF more
  <2> QED
    BY <2>1, <2>2, <1>8 DEF more
<1> HIDE DEF more
<1> QED
  BY <1>4, <1>7, <1>9 DEF more, one

(* The calls of one kind before a place of a body, and the gates and       *)
(* constraints of a segment there: the root begins with the SYSTEM gate.   *)
Done(p, r, at, kind) == Cardinality({ i \in 1 .. at - 1 : OpsOf(p, r)[i].kind = kind })
GatesDone(p, r, at) == Done(p, r, at, "gate") + (IF r = Main THEN 1 ELSE 0)
ConstraintsDone(p, r, at) == Done(p, r, at, "enforce_zero")
Last(p, r) == Len(OpsOf(p, r)) + 1

(* One call more.                                                          *)
LEMMA DoneIs ==
  ASSUME NEW p \in Programs, NEW r \in Routines, NEW kind
  PROVE  /\ Done(p, r, 1, kind) = 0
         /\ \A at \in 1 .. Last(p, r) : Done(p, r, at, kind) \in Nat
                                        /\ Done(p, r, at, kind) <= Done(p, r, Last(p, r), kind)
         /\ \A at \in 1 .. Len(OpsOf(p, r)) :
              Done(p, r, at + 1, kind) =
                Done(p, r, at, kind) + (IF OpsOf(p, r)[at].kind = kind THEN 1 ELSE 0)
<1> DEFINE ops == OpsOf(p, r)
           D(at) == { i \in 1 .. at - 1 : ops[i].kind = kind }
<1>1. Len(ops) \in Nat /\ Last(p, r) = Len(ops) + 1
  BY OpsAre DEF Last
<1> HIDE DEF ops
<1>2. \A at : Done(p, r, at, kind) = Cardinality(D(at))
  BY DEF Done, ops
<1>3. D(1) = {}
  OBVIOUS
<1>4. ASSUME NEW at \in 1 .. Len(ops) + 1
      PROVE  IsFiniteSet(D(at)) /\ Cardinality(D(at)) \in Nat
  <2>1. at - 1 \in Nat /\ D(at) \subseteq 1 .. at - 1
    BY <1>1
  <2> HIDE DEF D
  <2> QED
    BY <2>1, Few
<1>5. ASSUME NEW at \in 1 .. Len(ops) + 1
      PROVE  Cardinality(D(at)) <= Cardinality(D(Len(ops) + 1))
  <2>1. D(at) \subseteq D(Len(ops) + 1)
    BY <1>1
  <2>2. IsFiniteSet(D(Len(ops) + 1))
    BY <1>1, <1>4
  <2> QED
    BY <2>1, <2>2, FS_Subset
<1>6. ASSUME NEW at \in 1 .. Len(ops)
      PROVE  Cardinality(D(at + 1)) = Cardinality(D(at)) + (IF ops[at].kind = kind THEN 1 ELSE 0)
  <2>1. IsFiniteSet(D(at)) /\ Cardinality(D(at)) \in Nat
    <3>1. at \in 1 .. Len(ops) + 1
      BY <1>1
    <3> HIDE DEF D
    <3> QED
      BY <3>1, <1>4
  <2>2. CASE ops[at].kind = kind
    <3>1. D(at + 1) = D(at) \cup {at} /\ at \notin D(at)
      BY <1>1, <2>2
    <3>2. Cardinality(D(at) \cup {at}) = Cardinality(D(at)) + 1
      BY <2>1, <3>1, FS_AddElement
    <3> QED
      BY <2>2, <3>1, <3>2
  <2>3. CASE ops[at].kind # kind
    <3>1. D(at + 1) = D(at)
      BY <1>1, <2>3
    <3> HIDE DEF D
    <3> QED
      BY <2>1, <2>3, <3>1
  <2> QED
    BY <2>2, <2>3
<1> HIDE DEF D
<1> QED
  BY <1>1, <1>2, <1>3, <1>4, <1>5, <1>6, FS_EmptySet DEF ops

(* One call more, of gates and of constraints.                             *)
LEMMA DoneNext ==
  ASSUME NEW p \in Programs, NEW r \in Routines, NEW at \in 1 .. Len(OpsOf(p, r))
  PROVE  /\ GatesDone(p, r, at + 1) =
              GatesDone(p, r, at) + (IF OpsOf(p, r)[at].kind = "gate" THEN 1 ELSE 0)
         /\ ConstraintsDone(p, r, at + 1) =
              ConstraintsDone(p, r, at) + (IF OpsOf(p, r)[at].kind = "enforce_zero" THEN 1 ELSE 0)
<1> DEFINE G(i) == Done(p, r, i, "gate")
           K(i) == Done(p, r, i, "enforce_zero")
<1>1. at \in 1 .. Last(p, r)
  BY OpsAre DEF Last
<1>2. G(at) \in Nat /\ G(at + 1) = G(at) + (IF OpsOf(p, r)[at].kind = "gate" THEN 1 ELSE 0)
  BY <1>1, DoneIs
<1>3. K(at + 1) = K(at) + (IF OpsOf(p, r)[at].kind = "enforce_zero" THEN 1 ELSE 0)
  BY <1>1, DoneIs
<1> QED
  BY <1>2, <1>3 DEF GatesDone, ConstraintsDone

(* The counts, at the start, on the way and at the end of a body.          *)
LEMMA DoneRange ==
  ASSUME NEW p \in Programs, NEW r \in Routines, NEW at \in 1 .. Last(p, r)
  PROVE  /\ GatesDone(p, r, at) \in Nat /\ GatesDone(p, r, at) <= GatesDone(p, r, Last(p, r))
         /\ ConstraintsDone(p, r, at) \in Nat
         /\ ConstraintsDone(p, r, at) <= ConstraintsDone(p, r, Last(p, r))
         /\ GatesDone(p, r, Last(p, r)) \in Nat /\ ConstraintsDone(p, r, Last(p, r)) \in Nat
         /\ GatesDone(p, r, 1) = (IF r = Main THEN 1 ELSE 0) /\ ConstraintsDone(p, r, 1) = 0
<1> DEFINE G(i) == Done(p, r, i, "gate")
           K(i) == Done(p, r, i, "enforce_zero")
           L == Last(p, r)
<1>1. L \in 1 .. L
  BY OpsAre DEF Last
<1>2. G(1) = 0 /\ \A i \in 1 .. L : G(i) \in Nat /\ G(i) <= G(L)
  BY DoneIs
<1>3. K(1) = 0 /\ \A i \in 1 .. L : K(i) \in Nat /\ K(i) <= K(L)
  BY DoneIs
<1>4. G(1) = 0 /\ G(at) \in Nat /\ G(L) \in Nat /\ G(at) <= G(L)
  BY <1>1, <1>2
<1>5. K(1) = 0 /\ K(at) \in Nat /\ K(L) \in Nat /\ K(at) <= K(L)
  BY <1>1, <1>3
<1> HIDE DEF G, K, L
<1>6. G(1) + (IF r = Main THEN 1 ELSE 0) = (IF r = Main THEN 1 ELSE 0)
  BY <1>4
<1>7. /\ G(at) + (IF r = Main THEN 1 ELSE 0) \in Nat /\ G(L) + (IF r = Main THEN 1 ELSE 0) \in Nat
      /\ G(at) + (IF r = Main THEN 1 ELSE 0) <= G(L) + (IF r = Main THEN 1 ELSE 0)
  BY <1>4
<1> QED
  BY <1>4, <1>5, <1>6, <1>7 DEF GatesDone, ConstraintsDone, G, K, L
-----------------------------------------------------------------------------
(* Where a walk over a circuit is: the body, the next call and the segment *)
(* of each frame, innermost first, and how many segments were entered.     *)
(* Every driver makes the same moves between such controls.                *)
Spot(r, at, seg) == [name |-> r, at |-> at, seg |-> seg]
Start == [depth |-> 1, spots |-> [k \in 1 .. 1 |-> Spot(Main, 1, 1)], count |-> 1]
Onward(s) == Spot(s.name, s.at + 1, s.seg)

Ended(p, c) == c.spots[1].at = Last(p, c.spots[1].name)
Over(p, c)  == c.depth = 1 /\ Ended(p, c)
OpAt(p, c)  == OpsOf(p, c.spots[1].name)[c.spots[1].at]

GoneOn(c) ==
  [depth |-> c.depth, count |-> c.count,
   spots |-> [k \in 1 .. c.depth |-> IF k = 1 THEN Onward(c.spots[1]) ELSE c.spots[k]]]
Entered(c, name) ==
  [depth |-> c.depth + 1, count |-> c.count + 1,
   spots |-> [k \in 1 .. c.depth + 1 |->
                IF k = 1 THEN Spot(name, 1, c.count + 1)
                ELSE IF k = 2 THEN Onward(c.spots[1]) ELSE c.spots[k - 1]]]
Left(c) ==
  [depth |-> c.depth - 1, count |-> c.count,
   spots |-> [k \in 1 .. c.depth - 1 |-> c.spots[k + 1]]]
After(p, c) ==
  IF Ended(p, c) THEN Left(c)
  ELSE IF OpAt(p, c).kind = "routine" THEN Entered(c, OpAt(p, c).name)
  ELSE GoneOn(c)

(* The routines of n segments: the circuit is called once, at the root.    *)
Names(names, n) ==
  /\ n \in Nat \ {0}
  /\ \A i \in 1 .. n : names[i] \in Routines /\ (names[i] = Main <=> i = 1)

SpotOk(p, names, n, s) ==
  /\ s.seg \in 1 .. n /\ s.name = names[s.seg]
  /\ s.at \in 1 .. Last(p, s.name)

IsControl(p, names, n, c) ==
  /\ c.depth \in Nat \ {0} /\ c.count \in 1 .. n
  /\ \A k \in 1 .. c.depth : SpotOk(p, names, n, c.spots[k]) /\ (c.spots[k].seg = 1 <=> k = c.depth)

(* The calls of a body that call a routine do not call the circuit.        *)
LEMMA CalleeIs ==
  ASSUME NEW p \in Programs, NEW r \in Routines, NEW i \in 1 .. Len(OpsOf(p, r)),
         OpsOf(p, r)[i].kind = "routine"
  PROVE  OpsOf(p, r)[i].name \in Routines /\ OpsOf(p, r)[i].name # Main
<1> DEFINE op == OpsOf(p, r)[i]
<1>1. op.name \in Routines
  BY OpsAre
<1>2. i \in DOMAIN p[r].ops /\ op = p[r].ops[i]
  <2>1. SYP!OpsOf(p, r) = OpsOf(p, r)
    BY DEF SYP!OpsOf, SYP!Main, SYP!EnforceZero, OpsOf, Main, EnforceZero
  <2>2. \A j \in DOMAIN SYP!OpsOf(p, r) : SYP!OpsOf(p, r)[j].kind = "routine" =>
              j \in DOMAIN p[r].ops /\ SYP!OpsOf(p, r)[j] = p[r].ops[j]
    BY SameParameters, SYP!OpsAre
  <2>3. i \in DOMAIN OpsOf(p, r)
    BY OpsAre, LenProperties
  <2> QED
    BY <2>1, <2>2, <2>3
<1>3. CallsOf(p, Main) = {}
  BY WiresAssumption DEF WellWired
<1>4. ASSUME op.name = Main PROVE FALSE
  <2>1. <<r, i>> \in CallsOf(p, Main)
    BY <1>2, <1>4 DEF CallsOf
  <2> QED
    BY <2>1, <1>3
<1> QED
  BY <1>1, <1>4

(* The places of a body.                                                   *)
LEMMA LastIs ==
  ASSUME NEW p \in Programs, NEW r \in Routines
  PROVE  /\ Len(OpsOf(p, r)) \in Nat /\ Last(p, r) = Len(OpsOf(p, r)) + 1
         /\ \A at \in 1 .. Last(p, r) : at # Last(p, r) => at \in 1 .. Len(OpsOf(p, r))
                                                         /\ at + 1 \in 1 .. Last(p, r)
         /\ 1 \in 1 .. Last(p, r)
BY OpsAre DEF Last

(* More segments: a control stays one.                                     *)
LEMMA ControlWidens ==
  ASSUME NEW p, NEW names, NEW n \in Nat, NEW c, IsControl(p, names, n, c),
         NEW more, NEW m \in Nat, n <= m, \A i \in 1 .. n : more[i] = names[i]
  PROVE  IsControl(p, more, m, c)
<1>1. ASSUME NEW k \in 1 .. c.depth PROVE SpotOk(p, more, m, c.spots[k])
  BY DEF IsControl, SpotOk
<1> QED
  BY <1>1 DEF IsControl

(* The walk's moves lead from control to control.                          *)
LEMMA GoneOnIs ==
  ASSUME NEW p \in Programs, NEW names, NEW n, Names(names, n),
         NEW c, IsControl(p, names, n, c), ~Ended(p, c)
  PROVE  IsControl(p, names, n, GoneOn(c))
<1> DEFINE s == c.spots[1]
           d == GoneOn(c)
<1>1. c.depth \in Nat \ {0} /\ c.count \in 1 .. n
  BY DEF IsControl
<1>2. 1 \in 1 .. c.depth
  BY <1>1
<1>3. SpotOk(p, names, n, s) /\ (s.seg = 1 <=> 1 = c.depth)
  BY <1>2 DEF IsControl
<1>4. s.name \in Routines /\ s.at + 1 \in 1 .. Last(p, s.name)
  <2>1. s.name \in Routines
    BY <1>3 DEF SpotOk, Names
  <2> QED
    BY <2>1, <1>3, LastIs DEF SpotOk, Ended
<1>5. SpotOk(p, names, n, Onward(s)) /\ Onward(s).seg = s.seg
  BY <1>3, <1>4 DEF SpotOk, Onward, Spot
<1>6. d.depth = c.depth /\ d.count = c.count
      /\ \A k \in 1 .. c.depth : d.spots[k] = IF k = 1 THEN Onward(s) ELSE c.spots[k]
  BY DEF GoneOn
<1> HIDE DEF d, s
<1>7. ASSUME NEW k \in 1 .. c.depth
      PROVE  SpotOk(p, names, n, d.spots[k]) /\ (d.spots[k].seg = 1 <=> k = d.depth)
  <2>1. CASE k = 1
    BY <2>1, <1>3, <1>5, <1>6
  <2>2. CASE k # 1
    BY <2>2, <1>6 DEF IsControl
  <2> QED
    BY <2>1, <2>2
<1>8. IsControl(p, names, n, d)
  BY <1>1, <1>6, <1>7 DEF IsControl
<1> QED
  BY <1>8 DEF d

(* A routine is entered: one segment more.                                 *)
LEMMA EnteredIs ==
  ASSUME NEW p \in Programs, NEW names, NEW n, Names(names, n),
         NEW c, IsControl(p, names, n, c), c.count = n, ~Ended(p, c), OpAt(p, c).kind = "routine",
         NEW more, more[n + 1] = OpAt(p, c).name, \A i \in 1 .. n : more[i] = names[i]
  PROVE  Names(more, n + 1) /\ IsControl(p, more, n + 1, Entered(c, OpAt(p, c).name))
<1> DEFINE s == c.spots[1]
           r == OpAt(p, c).name
           d == Entered(c, r)
<1>1. c.depth \in Nat \ {0} /\ n \in Nat \ {0}
  BY DEF IsControl, Names
<1>2. 1 \in 1 .. c.depth
  BY <1>1
<1>3. SpotOk(p, names, n, s) /\ (s.seg = 1 <=> 1 = c.depth)
  BY <1>2 DEF IsControl
<1>4. s.name \in Routines /\ s.at + 1 \in 1 .. Last(p, s.name) /\ s.at \in 1 .. Len(OpsOf(p, s.name))
  <2>1. s.name \in Routines
    BY <1>3 DEF SpotOk, Names
  <2> QED
    BY <2>1, <1>3, LastIs DEF SpotOk, Ended
<1>5. r \in Routines /\ r # Main
  BY <1>4, CalleeIs DEF OpAt
<1>6. Names(more, n + 1)
  <2>1. ASSUME NEW i \in 1 .. n + 1 PROVE more[i] \in Routines /\ (more[i] = Main <=> i = 1)
    <3>1. CASE i = n + 1
      BY <3>1, <1>1, <1>5
    <3>2. CASE i # n + 1
      <4>1. i \in 1 .. n
        BY <3>2, <1>1
      <4> QED
        BY <4>1 DEF Names
    <3> QED
      BY <3>1, <3>2
  <2> QED
    BY <2>1, <1>1 DEF Names
<1>7. SpotOk(p, more, n + 1, Onward(s)) /\ Onward(s).seg = s.seg
  BY <1>1, <1>3, <1>4 DEF SpotOk, Onward, Spot
<1>8. SpotOk(p, more, n + 1, Spot(r, 1, n + 1)) /\ Spot(r, 1, n + 1).seg # 1
  BY <1>1, <1>5, LastIs DEF SpotOk, Spot
<1>9. d.depth = c.depth + 1 /\ d.count = n + 1
      /\ \A k \in 1 .. c.depth + 1 :
           d.spots[k] = IF k = 1 THEN Spot(r, 1, n + 1)
                        ELSE IF k = 2 THEN Onward(s) ELSE c.spots[k - 1]
  BY DEF Entered
<1> HIDE DEF d, s, r
<1>10. ASSUME NEW k \in 1 .. c.depth + 1
       PROVE  SpotOk(p, more, n + 1, d.spots[k]) /\ (d.spots[k].seg = 1 <=> k = d.depth)
  <2>1. CASE k = 1
    BY <2>1, <1>1, <1>8, <1>9
  <2>2. CASE k = 2
    BY <2>2, <1>1, <1>3, <1>7, <1>9
  <2>3. CASE k # 1 /\ k # 2
    <3>1. k - 1 \in 1 .. c.depth /\ d.spots[k] = c.spots[k - 1]
      BY <2>3, <1>1, <1>9
    <3>2. SpotOk(p, names, n, c.spots[k - 1]) /\ (c.spots[k - 1].seg = 1 <=> k - 1 = c.depth)
      BY <3>1 DEF IsControl
    <3>3. SpotOk(p, more, n + 1, c.spots[k - 1])
      BY <3>2, <1>1 DEF SpotOk
    <3> QED
      BY <3>1, <3>2, <3>3, <1>1, <1>9
  <2> QED
    BY <2>1, <2>2, <2>3
<1>11. IsControl(p, more, n + 1, d)
  BY <1>1, <1>9, <1>10 DEF IsControl
<1> QED
  BY <1>6, <1>11 DEF d, r

(* A routine returns.                                                      *)
LEMMA LeftIs ==
  ASSUME NEW p, NEW names, NEW n, NEW c, IsControl(p, names, n, c), c.depth # 1
  PROVE  IsControl(p, names, n, Left(c))
<1> DEFINE d == Left(c)
<1>1. c.depth - 1 \in Nat \ {0} /\ c.depth \in Nat /\ c.count \in 1 .. n
  BY DEF IsControl
<1>2. d.depth = c.depth - 1 /\ d.count = c.count
      /\ \A k \in 1 .. c.depth - 1 : d.spots[k] = c.spots[k + 1]
  BY DEF Left
<1> HIDE DEF d
<1>3. ASSUME NEW k \in 1 .. c.depth - 1
      PROVE  SpotOk(p, names, n, d.spots[k]) /\ (d.spots[k].seg = 1 <=> k = d.depth)
  <2>1. k + 1 \in 1 .. c.depth /\ d.spots[k] = c.spots[k + 1]
    BY <1>1, <1>2
  <2>2. SpotOk(p, names, n, c.spots[k + 1]) /\ (c.spots[k + 1].seg = 1 <=> k + 1 = c.depth)
    BY <2>1 DEF IsControl
  <2> QED
    BY <2>1, <2>2, <1>1, <1>2
<1>4. IsControl(p, names, n, d)
  BY <1>1, <1>2, <1>3 DEF IsControl
<1> QED
  BY <1>4 DEF d
-----------------------------------------------------------------------------
(* The walk of metrics.  R is the set of controls it came through; names   *)
(* are the routines of the segments.                                       *)
MSpot(f) == Spot(f.call.name, f.call.at, f.current_segment)
MControl(stk, n) ==
  [depth |-> Len(stk), spots |-> [k \in 1 .. Len(stk) |-> MSpot(stk[k])], count |-> n]

Trodden(p, names, n, R, now) ==
  /\ Start \in R /\ now \in R
  /\ \A c \in R : /\ IsControl(p, names, n, c)
                  /\ c = now \/ (~Over(p, c) /\ After(p, c) \in R)

CountedTo(p, r, at, rec) ==
  rec.num_gates = GatesDone(p, r, at) /\ rec.num_constraints = ConstraintsDone(p, r, at)
MFrameOk(f) == /\ DOMAIN f = {"call", "inputs", "current_segment", "gate", "remap", "result"}
               /\ DOMAIN f.call = {"name", "at", "extras", "env"}

(* The records count what was done in the segments under way, and all of   *)
(* the others' bodies.                                                     *)
Accounted(p, names, stk, recs) ==
  /\ \A j, k \in 1 .. Len(stk) : stk[j].current_segment = stk[k].current_segment => j = k
  /\ \A k \in 1 .. Len(stk) :
       CountedTo(p, stk[k].call.name, stk[k].call.at, recs[stk[k].current_segment])
  /\ \A i \in 1 .. Len(recs) :
       (\A k \in 1 .. Len(stk) : stk[k].current_segment # i)
         => CountedTo(p, names[i], Last(p, names[i]), recs[i])

MFrames(stk)  == IsList(stk) /\ stk # <<>> /\ \A k \in 1 .. Len(stk) : MFrameOk(stk[k])

Metered(p, names, R, stk, recs) ==
  /\ MFrames(stk) /\ Records(recs)
  /\ Names(names, Len(recs))
  /\ Trodden(p, names, Len(recs), R, MControl(stk, Len(recs)))
  /\ Accounted(p, names, stk, recs)

(* One control further.                                                    *)
LEMMA TroddenOn ==
  ASSUME NEW p, NEW names, NEW n \in Nat, NEW R, NEW now, Trodden(p, names, n, R, now),
         ~Over(p, now),
         NEW more, NEW m \in Nat, n <= m, \A i \in 1 .. n : more[i] = names[i],
         IsControl(p, more, m, After(p, now))
  PROVE  Trodden(p, more, m, R \cup {After(p, now)}, After(p, now))
<1> DEFINE next == After(p, now)
           R2   == R \cup {next}
<1>1. Start \in R2 /\ next \in R2
  BY DEF Trodden
<1>2. ASSUME NEW c \in R
      PROVE  IsControl(p, more, m, c) /\ (c = next \/ (~Over(p, c) /\ After(p, c) \in R2))
  <2>1. IsControl(p, names, n, c) /\ (c = now \/ (~Over(p, c) /\ After(p, c) \in R))
    BY DEF Trodden
  <2>2. IsControl(p, more, m, c)
    BY <2>1, ControlWidens
  <2> QED
    BY <2>1, <2>2
<1>3. IsControl(p, more, m, next)
  OBVIOUS
<1> HIDE DEF next
<1>4. \A c \in R2 : IsControl(p, more, m, c) /\ (c = next \/ (~Over(p, c) /\ After(p, c) \in R2))
  BY <1>2, <1>3
<1>5. Trodden(p, more, m, R2, next)
  BY <1>1, <1>4 DEF Trodden
<1> QED
  BY <1>5 DEF next

(* What a metered state says of the frame on top.                          *)
LEMMA MTop ==
  ASSUME NEW p \in Programs, NEW names, NEW R, NEW stk, NEW recs, Metered(p, names, R, stk, recs),
         NEW c, c = MControl(stk, Len(recs)), NEW f, f = stk[1]
  PROVE  /\ Len(stk) \in Nat \ {0} /\ Len(recs) \in Nat \ {0} /\ 1 \in 1 .. Len(stk)
         /\ MFrameOk(f)
         /\ IsControl(p, names, Len(recs), c)
         /\ c.depth = Len(stk) /\ c.count = Len(recs) /\ c.spots[1] = MSpot(f)
         /\ \A k \in 1 .. Len(stk) : c.spots[k] = MSpot(stk[k])
         /\ f.call.name \in Routines /\ f.call.at \in 1 .. Last(p, f.call.name)
         /\ f.current_segment \in 1 .. Len(recs) /\ names[f.current_segment] = f.call.name
         /\ Ended(p, c) <=> AtEnd(p, f.call)
         /\ ~Ended(p, c) => f.call.at \in 1 .. Len(OpsOf(p, f.call.name)) /\ OpAt(p, c) = NextOp(p, f.call)
<1>1. Len(stk) \in Nat \ {0} /\ Len(recs) \in Nat \ {0}
  BY ListIs DEF Metered, MFrames, Records
<1>2. 1 \in 1 .. Len(stk)
  BY <1>1
<1>3. MFrameOk(f)
  BY <1>2 DEF Metered, MFrames
<1>4. c \in R /\ IsControl(p, names, Len(recs), c)
  BY DEF Metered, Trodden
<1>5. c.depth = Len(stk) /\ c.count = Len(recs)
      /\ \A k \in 1 .. Len(stk) : c.spots[k] = MSpot(stk[k])
  BY DEF MControl
<1>6. c.spots[1] = MSpot(f)
  BY <1>2, <1>5
<1>7. SpotOk(p, names, Len(recs), MSpot(f))
  BY <1>2, <1>4, <1>5, <1>6 DEF IsControl
<1>8. /\ f.current_segment \in 1 .. Len(recs) /\ names[f.current_segment] = f.call.name
      /\ f.call.at \in 1 .. Last(p, f.call.name)
  BY <1>7 DEF SpotOk, MSpot, Spot
<1>9. f.call.name \in Routines
  BY <1>8 DEF Metered, Names
<1>10. Ended(p, c) <=> f.call.at = Last(p, f.call.name)
  BY <1>6 DEF Ended, MSpot, Spot
<1>11. /\ Ended(p, c) <=> AtEnd(p, f.call)
       /\ ~Ended(p, c) => f.call.at \in 1 .. Len(OpsOf(p, f.call.name))
  BY <1>8, <1>9, <1>10, LastIs DEF AtEnd
<1>12. OpAt(p, c) = NextOp(p, f.call)
  BY <1>6 DEF OpAt, NextOp, MSpot, Spot
<1> QED
  BY <1>1, <1>2, <1>3, <1>4, <1>5, <1>6, <1>8, <1>9, <1>11, <1>12

(* metrics goes on in the body on top, and counts what the call was.       *)
LEMMA MeterGoesOn ==
  ASSUME NEW p \in Programs, NEW names, NEW R, NEW stk, NEW recs, Metered(p, names, R, stk, recs),
         ~AtEnd(p, stk[1].call), NextOp(p, stk[1].call).kind # "routine",
         NEW g, MFrameOk(g), MSpot(g) = Onward(MSpot(stk[1])),
         NEW stk2, Retopped(stk2, g, stk),
         NEW recs2, Records(recs2), Len(recs2) = Len(recs),
         \A i \in 1 .. Len(recs) : i # stk[1].current_segment => recs2[i] = recs[i],
         NEW seg, seg = stk[1].current_segment,
         NEW kind, kind = NextOp(p, stk[1].call).kind,
         recs2[seg].num_gates = recs[seg].num_gates + (IF kind = "gate" THEN 1 ELSE 0),
         recs2[seg].num_constraints =
           recs[seg].num_constraints + (IF kind = "enforce_zero" THEN 1 ELSE 0)
  PROVE  Metered(p, names, R \cup {MControl(stk2, Len(recs2))}, stk2, recs2)
<1> DEFINE f == stk[1]
           n == Len(recs)
           c == MControl(stk, n)
           d == MControl(stk2, n)
<1>1. /\ Len(stk) \in Nat \ {0} /\ n \in Nat \ {0} /\ 1 \in 1 .. Len(stk)
      /\ MFrameOk(f) /\ IsControl(p, names, n, c)
      /\ c.depth = Len(stk) /\ c.count = n /\ c.spots[1] = MSpot(f)
      /\ \A k \in 1 .. Len(stk) : c.spots[k] = MSpot(stk[k])
      /\ f.call.name \in Routines /\ f.call.at \in 1 .. Last(p, f.call.name)
      /\ f.current_segment \in 1 .. n /\ names[f.current_segment] = f.call.name
      /\ Ended(p, c) <=> AtEnd(p, f.call)
      /\ ~Ended(p, c) => f.call.at \in 1 .. Len(OpsOf(p, f.call.name)) /\ OpAt(p, c) = NextOp(p, f.call)
  BY MTop
<1>2. IsList(stk) /\ stk # <<>>
  BY DEF Metered, MFrames
<1>3. /\ IsList(stk2) /\ Len(stk2) = Len(stk) /\ stk2[1] = g
      /\ \A k \in 2 .. Len(stk) : stk2[k] = stk[k]
  BY DEF Retopped
<1>4. MFrames(stk2)
  <2>1. stk2 # <<>>
    BY <1>1, <1>3, ListIs
  <2>2. ASSUME NEW k \in 1 .. Len(stk2) PROVE MFrameOk(stk2[k])
    <3>1. CASE k = 1
      BY <3>1, <1>3
    <3>2. CASE k # 1
      <4>1. k \in 2 .. Len(stk) /\ k \in 1 .. Len(stk)
        BY <3>2, <1>1, <1>3
      <4> QED
        BY <4>1, <1>3 DEF Metered, MFrames
    <3> QED
      BY <3>1, <3>2
  <2> QED
    BY <2>1, <2>2, <1>3 DEF MFrames
<1>5. Names(names, n) /\ Trodden(p, names, n, R, c)
  BY DEF Metered
<1> HIDE DEF c
<1>6. ~Ended(p, c) /\ OpAt(p, c).kind # "routine"
  BY <1>1
<1>7. d = After(p, c)
  <2>1. After(p, c) = GoneOn(c)
    BY <1>6 DEF After
  <2>2. \A k \in 1 .. Len(stk) : MSpot(stk2[k]) = IF k = 1 THEN Onward(c.spots[1]) ELSE c.spots[k]
    <3> SUFFICES ASSUME NEW k \in 1 .. Len(stk)
                 PROVE  MSpot(stk2[k]) = IF k = 1 THEN Onward(c.spots[1]) ELSE c.spots[k]
      OBVIOUS
    <3>1. k # 1 => k \in 2 .. Len(stk)
      BY <1>1
    <3> QED
      BY <3>1, <1>1, <1>3
  <2>3. [k \in 1 .. Len(stk2) |-> MSpot(stk2[k])]
          = [k \in 1 .. c.depth |-> IF k = 1 THEN Onward(c.spots[1]) ELSE c.spots[k]]
    BY <2>2, <1>1, <1>3
  <2>4. Len(stk2) = c.depth /\ n = c.count
    BY <1>1, <1>3
  <2> QED
    BY <2>1, <2>3, <2>4 DEF MControl, GoneOn
<1>8. IsControl(p, names, n, After(p, c))
  <2>1. IsControl(p, names, n, GoneOn(c))
    BY <1>1, <1>5, <1>6, GoneOnIs
  <2> QED
    BY <2>1, <1>6 DEF After
<1>9. ~Over(p, c)
  BY <1>6 DEF Over
<1>10. Trodden(p, names, n, R \cup {d}, d)
  <2>1. n \in Nat /\ n <= n
    BY <1>1
  <2>2. Trodden(p, names, n, R \cup {After(p, c)}, After(p, c))
    BY <2>1, <1>5, <1>8, <1>9, TroddenOn
  <2> QED
    BY <2>2, <1>7
<1>11. /\ g.call.name = f.call.name /\ g.call.at = f.call.at + 1 /\ g.current_segment = f.current_segment
  BY DEF MSpot, Spot, Onward
<1>12. Accounted(p, names, stk2, recs2)
  <2> HIDE DEF f, n, d
  <2>1. /\ \A j, k \in 1 .. Len(stk) : stk[j].current_segment = stk[k].current_segment => j = k
        /\ \A k \in 1 .. Len(stk) :
             CountedTo(p, stk[k].call.name, stk[k].call.at, recs[stk[k].current_segment])
        /\ \A i \in 1 .. n :
             (\A k \in 1 .. Len(stk) : stk[k].current_segment # i)
               => CountedTo(p, names[i], Last(p, names[i]), recs[i])
    BY DEF Metered, Accounted, n
  <2>2. \A k \in 1 .. Len(stk) : stk2[k].current_segment = stk[k].current_segment
    <3> SUFFICES ASSUME NEW k \in 1 .. Len(stk) PROVE stk2[k].current_segment = stk[k].current_segment
      OBVIOUS
    <3>1. k # 1 => k \in 2 .. Len(stk)
      BY <1>1
    <3> QED
      BY <3>1, <1>3, <1>11 DEF f
  <2>3. ASSUME NEW k \in 1 .. Len(stk)
        PROVE  CountedTo(p, stk2[k].call.name, stk2[k].call.at, recs2[stk2[k].current_segment])
    <3>1. CASE k = 1
      <4>1. CountedTo(p, f.call.name, f.call.at, recs[seg])
        BY <2>1, <1>1 DEF f
      <4>2. kind = OpsOf(p, f.call.name)[f.call.at].kind /\ f.call.at \in 1 .. Len(OpsOf(p, f.call.name))
        BY <1>1 DEF NextOp, f
      <4>3. /\ GatesDone(p, f.call.name, f.call.at + 1) =
                 GatesDone(p, f.call.name, f.call.at) + (IF kind = "gate" THEN 1 ELSE 0)
            /\ ConstraintsDone(p, f.call.name, f.call.at + 1) =
                 ConstraintsDone(p, f.call.name, f.call.at) + (IF kind = "enforce_zero" THEN 1 ELSE 0)
        BY <4>2, <1>1, DoneNext
      <4>5. recs2[seg].num_gates = GatesDone(p, f.call.name, f.call.at + 1)
        BY <4>1, <4>3 DEF CountedTo
      <4>6. recs2[seg].num_constraints = ConstraintsDone(p, f.call.name, f.call.at + 1)
        BY <4>1, <4>3 DEF CountedTo
      <4> QED
        BY <3>1, <4>5, <4>6, <1>3, <1>11 DEF CountedTo, f
    <3>2. CASE k # 1
      <4>1. stk2[k] = stk[k]
        BY <3>2, <1>1, <1>3
      <4>2. stk[k].current_segment # seg
        BY <3>2, <2>1, <1>1
      <4>3. stk[k].current_segment \in 1 .. n
        <5>1. SpotOk(p, names, n, c.spots[k]) /\ c.spots[k] = MSpot(stk[k])
          BY <1>1 DEF IsControl
        <5> QED
          BY <5>1 DEF SpotOk, MSpot, Spot
      <4> QED
        BY <4>1, <4>2, <4>3, <2>1 DEF n
    <3> QED
      BY <3>1, <3>2
  <2>4. ASSUME NEW i \in 1 .. n, \A k \in 1 .. Len(stk) : stk2[k].current_segment # i
        PROVE  CountedTo(p, names[i], Last(p, names[i]), recs2[i])
    <3>1. \A k \in 1 .. Len(stk) : stk[k].current_segment # i
      BY <2>2, <2>4
    <3>2. i # seg
      BY <3>1, <1>1
    <3> QED
      BY <3>1, <3>2, <2>1 DEF n
  <2>5. \A j, k \in 1 .. Len(stk) : stk2[j].current_segment = stk2[k].current_segment => j = k
    BY <2>1, <2>2
  <2> QED
    BY <2>3, <2>4, <2>5, <1>3 DEF Accounted, n
<1> QED
  BY <1>4, <1>5, <1>10, <1>12 DEF Metered

(* metrics enters a routine, with a record of its own.                     *)
LEMMA MeterEnters ==
  ASSUME NEW p \in Programs, NEW names, NEW R, NEW stk, NEW recs, Metered(p, names, R, stk, recs),
         ~AtEnd(p, stk[1].call), NextOp(p, stk[1].call).kind = "routine",
         NEW g, MFrameOk(g), MSpot(g) = Spot(NextOp(p, stk[1].call).name, 1, Len(recs) + 1),
         NEW h, MFrameOk(h), MSpot(h) = Onward(MSpot(stk[1])),
         NEW stk2, Stacked(stk2, g, h, stk),
         NEW recs2, Records(recs2), Len(recs2) = Len(recs) + 1,
         \A i \in 1 .. Len(recs) : recs2[i] = recs[i],
         recs2[Len(recs) + 1].num_gates = 0, recs2[Len(recs) + 1].num_constraints = 0
  PROVE  \E more, R2 : Metered(p, more, R2, stk2, recs2)
<1> DEFINE f == stk[1]
           n == Len(recs)
           c == MControl(stk, n)
           d == MControl(stk2, n + 1)
           r == NextOp(p, stk[1].call).name
           more == [i \in 1 .. n + 1 |-> IF i = n + 1 THEN r ELSE names[i]]
<1>1. /\ Len(stk) \in Nat \ {0} /\ n \in Nat \ {0} /\ 1 \in 1 .. Len(stk)
      /\ MFrameOk(f) /\ IsControl(p, names, n, c)
      /\ c.depth = Len(stk) /\ c.count = n /\ c.spots[1] = MSpot(f)
      /\ \A k \in 1 .. Len(stk) : c.spots[k] = MSpot(stk[k])
      /\ f.call.name \in Routines /\ f.call.at \in 1 .. Last(p, f.call.name)
      /\ f.current_segment \in 1 .. n /\ names[f.current_segment] = f.call.name
      /\ Ended(p, c) <=> AtEnd(p, f.call)
      /\ ~Ended(p, c) => f.call.at \in 1 .. Len(OpsOf(p, f.call.name)) /\ OpAt(p, c) = NextOp(p, f.call)
  BY MTop
<1>2. IsList(stk) /\ stk # <<>>
  BY DEF Metered, MFrames
<1>3. /\ IsList(stk2) /\ Len(stk2) = Len(stk) + 1 /\ stk2[1] = g /\ stk2[2] = h
      /\ \A k \in 3 .. Len(stk) + 1 : stk2[k] = stk[k - 1]
  BY DEF Stacked
<1>4. MFrames(stk2)
  <2>1. stk2 # <<>>
    BY <1>1, <1>3, ListIs
  <2>2. ASSUME NEW k \in 1 .. Len(stk2) PROVE MFrameOk(stk2[k])
    <3>1. CASE k = 1 \/ k = 2
      BY <3>1, <1>3
    <3>2. CASE k # 1 /\ k # 2
      <4>1. k \in 3 .. Len(stk) + 1 /\ k - 1 \in 1 .. Len(stk)
        BY <3>2, <1>1, <1>3
      <4> QED
        BY <4>1, <1>3 DEF Metered, MFrames
    <3> QED
      BY <3>1, <3>2
  <2> QED
    BY <2>1, <2>2, <1>3 DEF MFrames
<1>5. Names(names, n) /\ Trodden(p, names, n, R, c)
  BY DEF Metered
<1> HIDE DEF c
<1>6. ~Ended(p, c) /\ OpAt(p, c).kind = "routine" /\ OpAt(p, c).name = r
  BY <1>1
<1>7. more[n + 1] = r /\ \A i \in 1 .. n : more[i] = names[i]
  BY <1>1
<1> HIDE DEF more
<1>8. Names(more, n + 1) /\ IsControl(p, more, n + 1, Entered(c, r))
  <2>1. /\ Names(names, n) /\ IsControl(p, names, n, c) /\ c.count = n
        /\ ~Ended(p, c) /\ OpAt(p, c).kind = "routine"
        /\ more[n + 1] = OpAt(p, c).name /\ \A i \in 1 .. n : more[i] = names[i]
    BY <1>1, <1>5, <1>6, <1>7
  <2>2. Names(more, n + 1) /\ IsControl(p, more, n + 1, Entered(c, OpAt(p, c).name))
    BY ONLY <2>1, p \in Programs, EnteredIs
  <2> QED
    BY <2>2, <1>6
<1>9. After(p, c) = Entered(c, r)
  BY <1>6 DEF After
<1>10. d = After(p, c)
  <2>1. \A k \in 1 .. Len(stk) + 1 :
          MSpot(stk2[k]) = IF k = 1 THEN Spot(r, 1, c.count + 1)
                           ELSE IF k = 2 THEN Onward(c.spots[1]) ELSE c.spots[k - 1]
    <3> SUFFICES ASSUME NEW k \in 1 .. Len(stk) + 1
                 PROVE  MSpot(stk2[k]) = IF k = 1 THEN Spot(r, 1, c.count + 1)
                                         ELSE IF k = 2 THEN Onward(c.spots[1]) ELSE c.spots[k - 1]
      OBVIOUS
    <3>1. CASE k = 1
      BY <3>1, <1>1, <1>3
    <3>2. CASE k = 2
      BY <3>2, <1>1, <1>3
    <3>3. CASE k # 1 /\ k # 2
      <4>1. k \in 3 .. Len(stk) + 1 /\ k - 1 \in 1 .. Len(stk)
        BY <3>3, <1>1
      <4> QED
        BY <4>1, <3>3, <1>1, <1>3
    <3> QED
      BY <3>1, <3>2, <3>3
  <2>2. [k \in 1 .. Len(stk2) |-> MSpot(stk2[k])]
          = [k \in 1 .. c.depth + 1 |->
               IF k = 1 THEN Spot(r, 1, c.count + 1)
               ELSE IF k = 2 THEN Onward(c.spots[1]) ELSE c.spots[k - 1]]
    BY <2>1, <1>1, <1>3
  <2>3. Len(stk2) = c.depth + 1 /\ n + 1 = c.count + 1
    BY <1>1, <1>3
  <2> QED
    BY <2>2, <2>3, <1>9 DEF MControl, Entered
<1>11. Trodden(p, more, n + 1, R \cup {d}, d)
  <2>1. n \in Nat /\ n + 1 \in Nat /\ n <= n + 1 /\ ~Over(p, c)
    BY <1>1, <1>6 DEF Over
  <2>2. IsControl(p, more, n + 1, After(p, c))
    BY <1>8, <1>9
  <2>3. Trodden(p, more, n + 1, R \cup {After(p, c)}, After(p, c))
    BY <2>1, <2>2, <1>5, <1>7, TroddenOn
  <2> QED
    BY <2>3, <1>10
<1>12. /\ g.call.name = r /\ g.call.at = 1 /\ g.current_segment = n + 1
       /\ h.call.name = f.call.name /\ h.call.at = f.call.at + 1 /\ h.current_segment = f.current_segment
  BY DEF MSpot, Spot, Onward
<1>13. r \in Routines /\ r # Main
  BY <1>1, <1>6, CalleeIs DEF NextOp
<1>14. Accounted(p, more, stk2, recs2)
  <2> HIDE DEF f, n, d, r
  <2>1. /\ \A j, k \in 1 .. Len(stk) : stk[j].current_segment = stk[k].current_segment => j = k
        /\ \A k \in 1 .. Len(stk) :
             CountedTo(p, stk[k].call.name, stk[k].call.at, recs[stk[k].current_segment])
        /\ \A i \in 1 .. n :
             (\A k \in 1 .. Len(stk) : stk[k].current_segment # i)
               => CountedTo(p, names[i], Last(p, names[i]), recs[i])
    BY DEF Metered, Accounted, n
  <2>2. \A k \in 1 .. Len(stk) : stk[k].current_segment \in 1 .. n
    <3> SUFFICES ASSUME NEW k \in 1 .. Len(stk) PROVE stk[k].current_segment \in 1 .. n
      OBVIOUS
    <3>1. SpotOk(p, names, n, c.spots[k]) /\ c.spots[k] = MSpot(stk[k])
      BY <1>1 DEF IsControl
    <3> QED
      BY <3>1 DEF SpotOk, MSpot, Spot
  <2>3. \A k \in 2 .. Len(stk) + 1 :
          k - 1 \in 1 .. Len(stk) /\ stk2[k].current_segment = stk[k - 1].current_segment
    <3> SUFFICES ASSUME NEW k \in 2 .. Len(stk) + 1
                 PROVE  k - 1 \in 1 .. Len(stk) /\ stk2[k].current_segment = stk[k - 1].current_segment
      OBVIOUS
    <3>1. CASE k = 2
      BY <3>1, <1>1, <1>3, <1>12 DEF f
    <3>2. CASE k # 2
      <4>1. k \in 3 .. Len(stk) + 1 /\ k - 1 \in 1 .. Len(stk)
        BY <3>2, <1>1
      <4> QED
        BY <4>1, <1>3
    <3> QED
      BY <3>1, <3>2
  <2>4. ASSUME NEW j \in 1 .. Len(stk) + 1, NEW k \in 1 .. Len(stk) + 1,
               stk2[j].current_segment = stk2[k].current_segment
        PROVE  j = k
    <3>1. CASE j = 1 /\ k = 1
      BY <3>1
    <3>2. CASE j = 1 /\ k # 1
      <4>1. k \in 2 .. Len(stk) + 1
        BY <3>2, <1>1
      <4>2. stk2[k].current_segment \in 1 .. n /\ stk2[1].current_segment = n + 1
        BY <4>1, <2>2, <2>3, <1>3, <1>12
      <4> QED
        BY <4>2, <2>4, <3>2, <1>1 DEF n
    <3>3. CASE j # 1 /\ k = 1
      <4>1. j \in 2 .. Len(stk) + 1
        BY <3>3, <1>1
      <4>2. stk2[j].current_segment \in 1 .. n /\ stk2[1].current_segment = n + 1
        BY <4>1, <2>2, <2>3, <1>3, <1>12
      <4> QED
        BY <4>2, <2>4, <3>3, <1>1 DEF n
    <3>4. CASE j # 1 /\ k # 1
      <4>1. j \in 2 .. Len(stk) + 1 /\ k \in 2 .. Len(stk) + 1
        BY <3>4, <1>1
      <4>2. j - 1 \in 1 .. Len(stk) /\ k - 1 \in 1 .. Len(stk)
            /\ stk[j - 1].current_segment = stk[k - 1].current_segment
        BY <4>1, <2>3, <2>4
      <4>3. j - 1 = k - 1
        BY ONLY <2>1, <4>2, Zenon
      <4> QED
        BY <4>1, <4>3
    <3> QED
      BY <3>1, <3>2, <3>3, <3>4
  <2>5. ASSUME NEW k \in 1 .. Len(stk) + 1
        PROVE  CountedTo(p, stk2[k].call.name, stk2[k].call.at, recs2[stk2[k].current_segment])
    <3>1. CASE k = 1
      <4>1. GatesDone(p, r, 1) = 0 /\ ConstraintsDone(p, r, 1) = 0
        BY <1>13, LastIs, DoneRange
      <4>2. recs2[n + 1].num_gates = 0 /\ recs2[n + 1].num_constraints = 0
        BY DEF n
      <4> QED
        BY <3>1, <4>1, <4>2, <1>3, <1>12 DEF CountedTo
    <3>2. CASE k = 2
      <4>1. CountedTo(p, f.call.name, f.call.at, recs[f.current_segment])
        BY <2>1, <1>1 DEF f
      <4>2. /\ OpsOf(p, f.call.name)[f.call.at].kind = "routine"
            /\ f.call.at \in 1 .. Len(OpsOf(p, f.call.name))
        BY <1>1, <1>6 DEF NextOp, f
      <4>3. /\ GatesDone(p, f.call.name, f.call.at + 1) = GatesDone(p, f.call.name, f.call.at) + 0
            /\ ConstraintsDone(p, f.call.name, f.call.at + 1) =
                 ConstraintsDone(p, f.call.name, f.call.at) + 0
        BY <4>2, <1>1, DoneNext
      <4>4. /\ GatesDone(p, f.call.name, f.call.at) \in Nat
            /\ ConstraintsDone(p, f.call.name, f.call.at) \in Nat
        BY <1>1, DoneRange
      <4>5. CountedTo(p, f.call.name, f.call.at + 1, recs[f.current_segment])
        BY <4>1, <4>3, <4>4 DEF CountedTo
      <4>6. recs2[f.current_segment] = recs[f.current_segment]
        BY <1>1 DEF n
      <4> QED
        BY <3>2, <4>5, <4>6, <1>3, <1>12
    <3>3. CASE k # 1 /\ k # 2
      <4>1. k - 1 \in 1 .. Len(stk) /\ stk2[k] = stk[k - 1]
        BY <3>3, <1>1, <1>3
      <4>2. stk[k - 1].current_segment \in 1 .. n
        BY <4>1, <2>2
      <4> QED
        BY <4>1, <4>2, <2>1 DEF n
    <3> QED
      BY <3>1, <3>2, <3>3
  <2>6. ASSUME NEW i \in 1 .. n + 1, \A k \in 1 .. Len(stk) + 1 : stk2[k].current_segment # i
        PROVE  CountedTo(p, more[i], Last(p, more[i]), recs2[i])
    <3>1. i # n + 1
      BY <2>6, <1>1, <1>3, <1>12
    <3>2. i \in 1 .. n
      BY <3>1, <1>1 DEF n
    <3>3. \A k \in 1 .. Len(stk) : stk[k].current_segment # i
      <4> SUFFICES ASSUME NEW k \in 1 .. Len(stk) PROVE stk[k].current_segment # i
        OBVIOUS
      <4>1. k + 1 \in 2 .. Len(stk) + 1 /\ (k + 1) - 1 = k /\ k + 1 \in 1 .. Len(stk) + 1
        BY <1>1
      <4> QED
        BY <4>1, <2>3, <2>6
    <3> QED
      BY <3>2, <3>3, <2>1, <1>7 DEF n
  <2>7. Len(recs2) = n + 1
    BY DEF n
  <2> QED
    BY <2>4, <2>5, <2>6, <2>7, <1>3 DEF Accounted
<1>15. Metered(p, more, R \cup {d}, stk2, recs2)
  BY <1>4, <1>8, <1>11, <1>14 DEF Metered
<1> QED
  BY <1>15

(* metrics leaves a routine.                                               *)
LEMMA MeterLeaves ==
  ASSUME NEW p \in Programs, NEW names, NEW R, NEW stk, NEW recs, Metered(p, names, R, stk, recs),
         AtEnd(p, stk[1].call), Len(stk) > 1,
         NEW g, MFrameOk(g), MSpot(g) = MSpot(stk[2]),
         NEW stk2, Unstacked(stk2, g, stk),
         NEW recs2, Records(recs2), Len(recs2) = Len(recs),
         \A i \in 1 .. Len(recs) : recs2[i].num_gates = recs[i].num_gates
                                   /\ recs2[i].num_constraints = recs[i].num_constraints
  PROVE  Metered(p, names, R \cup {MControl(stk2, Len(recs2))}, stk2, recs2)
<1> DEFINE f == stk[1]
           n == Len(recs)
           c == MControl(stk, n)
           d == MControl(stk2, n)
<1>1. /\ Len(stk) \in Nat \ {0} /\ n \in Nat \ {0} /\ 1 \in 1 .. Len(stk)
      /\ MFrameOk(f) /\ IsControl(p, names, n, c)
      /\ c.depth = Len(stk) /\ c.count = n /\ c.spots[1] = MSpot(f)
      /\ \A k \in 1 .. Len(stk) : c.spots[k] = MSpot(stk[k])
      /\ f.call.name \in Routines /\ f.call.at \in 1 .. Last(p, f.call.name)
      /\ f.current_segment \in 1 .. n /\ names[f.current_segment] = f.call.name
      /\ Ended(p, c) <=> AtEnd(p, f.call)
      /\ ~Ended(p, c) => f.call.at \in 1 .. Len(OpsOf(p, f.call.name)) /\ OpAt(p, c) = NextOp(p, f.call)
  BY ONLY p \in Programs, Metered(p, names, R, stk, recs), MTop
<1>2. IsList(stk)
  BY DEF Metered, MFrames
<1>3. /\ IsList(stk2) /\ Len(stk2) = Len(stk) - 1 /\ stk2[1] = g
      /\ \A k \in 2 .. Len(stk) - 1 : stk2[k] = stk[k + 1]
  BY DEF Unstacked
<1>4. MFrames(stk2)
  <2>1. stk2 # <<>>
    BY <1>1, <1>3, ListIs
  <2>2. ASSUME NEW k \in 1 .. Len(stk2) PROVE MFrameOk(stk2[k])
    <3>1. CASE k = 1
      BY <3>1, <1>3
    <3>2. CASE k # 1
      <4>1. k \in 2 .. Len(stk) - 1 /\ k + 1 \in 1 .. Len(stk)
        <5>1. Len(stk) \in Nat /\ Len(stk2) = Len(stk) - 1
          BY <1>1, <1>3
        <5> QED
          BY ONLY <5>1, k \in 1 .. Len(stk2), <3>2
      <4> QED
        BY <4>1, <1>3 DEF Metered, MFrames
    <3> QED
      BY <3>1, <3>2
  <2> QED
    BY <2>1, <2>2, <1>3 DEF MFrames
<1>5. Names(names, n) /\ Trodden(p, names, n, R, c)
  BY DEF Metered
<1> HIDE DEF c
<1>6. Ended(p, c) /\ c.depth # 1
  BY <1>1
<1>7. \A k \in 1 .. Len(stk) - 1 : k + 1 \in 1 .. Len(stk) /\ MSpot(stk2[k]) = MSpot(stk[k + 1])
  <2> SUFFICES ASSUME NEW k \in 1 .. Len(stk) - 1
               PROVE  k + 1 \in 1 .. Len(stk) /\ MSpot(stk2[k]) = MSpot(stk[k + 1])
    OBVIOUS
  <2>1. k + 1 \in 1 .. Len(stk)
    BY <1>1
  <2>2. CASE k = 1
    BY <2>1, <2>2, <1>3
  <2>3. CASE k # 1
    <3>1. k \in 2 .. Len(stk) - 1
      BY <2>3, <1>1
    <3> QED
      BY <2>1, <3>1, <1>3
  <2> QED
    BY <2>2, <2>3
<1>8. After(p, c) = Left(c)
  BY <1>6 DEF After
<1>9. d = After(p, c)
  <2>1. [k \in 1 .. Len(stk2) |-> MSpot(stk2[k])] = [k \in 1 .. c.depth - 1 |-> c.spots[k + 1]]
    BY <1>1, <1>3, <1>7
  <2>2. Len(stk2) = c.depth - 1 /\ n = c.count
    BY <1>1, <1>3
  <2> QED
    BY <2>1, <2>2, <1>8 DEF MControl, Left
<1>10. Trodden(p, names, n, R \cup {d}, d)
  <2>1. n \in Nat /\ n <= n /\ ~Over(p, c)
    BY <1>1, <1>6 DEF Over
  <2>2. IsControl(p, names, n, After(p, c))
    BY <1>1, <1>6, <1>8, LeftIs
  <2>3. Trodden(p, names, n, R \cup {After(p, c)}, After(p, c))
    BY <2>1, <2>2, <1>5, TroddenOn
  <2> QED
    BY <2>3, <1>9
<1>11. Accounted(p, names, stk2, recs2)
  <2> HIDE DEF f, n, d
  <2>1. /\ \A j, k \in 1 .. Len(stk) : stk[j].current_segment = stk[k].current_segment => j = k
        /\ \A k \in 1 .. Len(stk) :
             CountedTo(p, stk[k].call.name, stk[k].call.at, recs[stk[k].current_segment])
        /\ \A i \in 1 .. n :
             (\A k \in 1 .. Len(stk) : stk[k].current_segment # i)
               => CountedTo(p, names[i], Last(p, names[i]), recs[i])
    BY DEF Metered, Accounted, n
  <2>2. \A k \in 1 .. Len(stk) - 1 :
          /\ k + 1 \in 1 .. Len(stk) /\ stk2[k].call.name = stk[k + 1].call.name
          /\ stk2[k].call.at = stk[k + 1].call.at
          /\ stk2[k].current_segment = stk[k + 1].current_segment
    BY <1>7 DEF MSpot, Spot
  <2>3. \A i \in 1 .. n : \A r, at : CountedTo(p, r, at, recs[i]) <=> CountedTo(p, r, at, recs2[i])
    BY DEF CountedTo, n
  <2>4. ASSUME NEW j \in 1 .. Len(stk) - 1, NEW k \in 1 .. Len(stk) - 1,
               stk2[j].current_segment = stk2[k].current_segment
        PROVE  j = k
    <3>1. j + 1 \in 1 .. Len(stk) /\ k + 1 \in 1 .. Len(stk)
          /\ stk[j + 1].current_segment = stk[k + 1].current_segment
      BY <2>2, <2>4
    <3>2. j + 1 = k + 1
      BY ONLY <2>1, <3>1, Zenon
    <3> QED
      BY <3>2
  <2>5. ASSUME NEW k \in 1 .. Len(stk) - 1
        PROVE  CountedTo(p, stk2[k].call.name, stk2[k].call.at, recs2[stk2[k].current_segment])
    <3>1. k + 1 \in 1 .. Len(stk)
      BY <2>2
    <3>2. SpotOk(p, names, n, c.spots[k + 1]) /\ c.spots[k + 1] = MSpot(stk[k + 1])
      BY <3>1, <1>1 DEF IsControl
    <3>3. stk[k + 1].current_segment \in 1 .. n
      BY <3>2 DEF SpotOk, MSpot, Spot
    <3>4. CountedTo(p, stk[k + 1].call.name, stk[k + 1].call.at, recs[stk[k + 1].current_segment])
      BY <3>1, <2>1
    <3> QED
      BY <3>3, <3>4, <2>2, <2>3
  <2>6. ASSUME NEW i \in 1 .. n, \A k \in 1 .. Len(stk) - 1 : stk2[k].current_segment # i
        PROVE  CountedTo(p, names[i], Last(p, names[i]), recs2[i])
    <3>1. CASE i = f.current_segment
      <4>1. CountedTo(p, f.call.name, f.call.at, recs[i])
        BY <3>1, <2>1, <1>1 DEF f
      <4>2. f.call.at = Last(p, f.call.name)
        BY <1>1, <1>6 DEF Ended, MSpot, Spot
      <4> QED
        BY <3>1, <4>1, <4>2, <2>3, <1>1
    <3>2. CASE i # f.current_segment
      <4>1. ASSUME NEW k \in 1 .. Len(stk) PROVE stk[k].current_segment # i
        <5>1. CASE k = 1
          BY <5>1, <3>2 DEF f
        <5>2. CASE k # 1
          <6>1. k - 1 \in 1 .. Len(stk) - 1 /\ (k - 1) + 1 = k
            BY <5>2, <1>1
          <6> QED
            BY <6>1, <2>2, <2>6
        <5> QED
          BY <5>1, <5>2
      <4> QED
        BY <4>1, <2>1, <2>3
    <3> QED
      BY <3>1, <3>2
  <2> QED
    BY <2>4, <2>5, <2>6, <1>3 DEF Accounted, n
<1> QED
  BY <1>4, <1>5, <1>10, <1>11 DEF Metered
(* The bodies are the same seen from Metrics.                              *)
LEMMA SameBodies ==
  \A p, f : /\ M!AtEnd(p, f) <=> AtEnd(p, f)
            /\ M!NextOp(p, f) = NextOp(p, f)
            /\ \A kind : M!AboutTo(p, f, kind) <=> ~AtEnd(p, f) /\ NextOp(p, f).kind = kind
BY DEF M!AtEnd, M!NextOp, M!AboutTo, M!OpsOf, M!Main, M!EnforceZero, AtEnd, NextOp, OpsOf, Main, EnforceZero

(* What a call of a kind adds to the record of its segment.                *)
MCountsFor(kind, r, e) ==
  /\ e.num_gates = r.num_gates + (IF kind = "gate" THEN 1 ELSE 0)
  /\ e.num_constraints = r.num_constraints + (IF kind = "enforce_zero" THEN 1 ELSE 0)

(* The frame and the record of the top, as a step finds them.              *)
LEMMA MFinds ==
  ASSUME NEW p \in Programs, NEW names, NEW R, NEW stk, NEW recs, Metered(p, names, R, stk, recs)
  PROVE  /\ IsList(stk) /\ stk # <<>> /\ Len(stk) \in Nat \ {0} /\ Head(stk) = stk[1]
         /\ MFrameOk(stk[1])
         /\ Records(recs) /\ Len(recs) \in Nat \ {0}
         /\ stk[1].current_segment \in 1 .. Len(recs)
         /\ RecordOk(recs[stk[1].current_segment])
<1> DEFINE f == stk[1]
           c == MControl(stk, Len(recs))
<1>1. /\ Len(stk) \in Nat \ {0} /\ Len(recs) \in Nat \ {0} /\ 1 \in 1 .. Len(stk)
      /\ MFrameOk(f) /\ IsControl(p, names, Len(recs), c)
      /\ c.depth = Len(stk) /\ c.count = Len(recs) /\ c.spots[1] = MSpot(f)
      /\ \A k \in 1 .. Len(stk) : c.spots[k] = MSpot(stk[k])
      /\ f.call.name \in Routines /\ f.call.at \in 1 .. Last(p, f.call.name)
      /\ f.current_segment \in 1 .. Len(recs) /\ names[f.current_segment] = f.call.name
      /\ Ended(p, c) <=> AtEnd(p, f.call)
      /\ ~Ended(p, c) => f.call.at \in 1 .. Len(OpsOf(p, f.call.name)) /\ OpAt(p, c) = NextOp(p, f.call)
  BY MTop
<1>2. IsList(stk) /\ stk # <<>> /\ Records(recs)
  BY DEF Metered, MFrames
<1>3. Head(stk) = stk[1]
  BY <1>2, Popped
<1> QED
  BY <1>1, <1>2, <1>3 DEF Records

(* A call that counts in a record of the segment on top.                   *)
LEMMA MeterCounts ==
  ASSUME NEW p \in Programs, NEW names, NEW R, NEW stk, NEW recs, Metered(p, names, R, stk, recs),
         ~AtEnd(p, stk[1].call), NEW kind, kind = NextOp(p, stk[1].call).kind, kind # "routine",
         NEW g, MFrameOk(g), MSpot(g) = Onward(MSpot(stk[1])),
         NEW e, RecordOk(e), MCountsFor(kind, recs[stk[1].current_segment], e)
  PROVE  \E more, R2 : Metered(p, more, R2, <<g>> \o Tail(stk),
                               [recs EXCEPT ![stk[1].current_segment] = e])
<1> DEFINE i    == stk[1].current_segment
           stk2 == <<g>> \o Tail(stk)
           recs2 == [recs EXCEPT ![i] = e]
<1>1. /\ IsList(stk) /\ stk # <<>> /\ Records(recs) /\ i \in 1 .. Len(recs)
  BY MFinds
<1>2. Retopped(stk2, g, stk)
  BY <1>1, Replaced
<1>3. /\ Records(recs2) /\ Len(recs2) = Len(recs)
      /\ \A k \in 1 .. Len(recs) : recs2[k] = IF k = i THEN e ELSE recs[k]
  BY <1>1, RecordsChange
<1> HIDE DEF stk2, recs2
<1>4. /\ \A k \in 1 .. Len(recs) : k # stk[1].current_segment => recs2[k] = recs[k]
      /\ recs2[i].num_gates = recs[i].num_gates + (IF kind = "gate" THEN 1 ELSE 0)
      /\ recs2[i].num_constraints = recs[i].num_constraints + (IF kind = "enforce_zero" THEN 1 ELSE 0)
  BY <1>1, <1>3 DEF MCountsFor
<1>5. Metered(p, names, R \cup {MControl(stk2, Len(recs2))}, stk2, recs2)
  BY <1>2, <1>3, <1>4, MeterGoesOn
<1> QED
  BY <1>5 DEF stk2, recs2

(* A call that counts nothing.                                             *)
LEMMA MeterPasses ==
  ASSUME NEW p \in Programs, NEW names, NEW R, NEW stk, NEW recs, Metered(p, names, R, stk, recs),
         ~AtEnd(p, stk[1].call), NextOp(p, stk[1].call).kind \notin {"gate", "enforce_zero", "routine"},
         NEW g, MFrameOk(g), MSpot(g) = Onward(MSpot(stk[1]))
  PROVE  \E more, R2 : Metered(p, more, R2, <<g>> \o Tail(stk), recs)
<1> DEFINE i    == stk[1].current_segment
           stk2 == <<g>> \o Tail(stk)
           kind == NextOp(p, stk[1].call).kind
<1>1. /\ IsList(stk) /\ stk # <<>> /\ Records(recs) /\ i \in 1 .. Len(recs) /\ RecordOk(recs[i])
  BY MFinds
<1>2. Retopped(stk2, g, stk)
  BY <1>1, Replaced
<1> HIDE DEF stk2
<1>3. /\ recs[i].num_gates = recs[i].num_gates + (IF kind = "gate" THEN 1 ELSE 0)
      /\ recs[i].num_constraints = recs[i].num_constraints + (IF kind = "enforce_zero" THEN 1 ELSE 0)
  BY <1>1 DEF RecordOk
<1>4. kind # "routine"
  OBVIOUS
<1> HIDE DEF kind
<1>5. Metered(p, names, R \cup {MControl(stk2, Len(recs))}, stk2, recs)
  BY <1>1, <1>2, <1>3, <1>4, MeterGoesOn DEF kind
<1> QED
  BY <1>5 DEF stk2

(* The steps of metrics.  The circuit is not changed by any of them.       *)
MeterAt == \E names, R : Metered(prog, names, R, mstack, segments)

(* gate().                                                                 *)
LEMMA MGates ==
  ASSUME prog \in Programs, MeterAt, M!Gates
  PROVE  MeterAt'
<1> DEFINE f == mstack[1]
           i == f.current_segment
           wires3 == <<M!Unit("a", f.gate), M!Unit("b", f.gate), M!Unit("c", f.gate)>>
           call2 == [f.call EXCEPT !.at = @ + 1, !.env = @ \o wires3, !.extras = Append(@, f.gate)]
           g == [f EXCEPT !.gate = f.gate + 1, !.call = call2]
           e == [segments[i] EXCEPT !.num_gates = @ + 1]
<1>1. PICK names, R : Metered(prog, names, R, mstack, segments)
  BY DEF MeterAt
<1>2. /\ Head(mstack) = f /\ MFrameOk(f) /\ RecordOk(segments[i])
  BY <1>1, MFinds
<1>3. ~AtEnd(prog, f.call) /\ NextOp(prog, f.call).kind = "gate"
  BY <1>2, SameBodies DEF M!Gates, M!Top
<1>4. mstack' = <<g>> \o Tail(mstack)
  BY <1>2 DEF M!Gates, M!Top, M!SetTop, M!BindGate
<1>5. segments' = [segments EXCEPT ![i] = e] /\ UNCHANGED prog
  BY <1>2 DEF M!Gates, M!CountGate, M!Top
<1>6. DOMAIN call2 = DOMAIN f.call /\ call2.name = f.call.name /\ call2.at = f.call.at + 1
  BY <1>2 DEF MFrameOk
<1> HIDE DEF call2
<1>7. MFrameOk(g) /\ MSpot(g) = Onward(MSpot(f))
  BY <1>2, <1>6 DEF MFrameOk, MSpot, Onward, Spot
<1>8. RecordOk(e) /\ MCountsFor("gate", segments[i], e)
  BY <1>2 DEF RecordOk, MCountsFor
<1> HIDE DEF g, e
<1>9. \E more, R2 : Metered(prog, more, R2, <<g>> \o Tail(mstack), [segments EXCEPT ![i] = e])
  <2> DEFINE kind == "gate"
  <2>1. kind = NextOp(prog, f.call).kind /\ kind # "routine" /\ MCountsFor(kind, segments[i], e)
    BY <1>3, <1>8
  <2> HIDE DEF kind
  <2> QED
    BY <2>1, <1>1, <1>3, <1>7, <1>8, MeterCounts
<1> QED
  BY <1>4, <1>5, <1>9 DEF MeterAt

(* assign_extra().                                                         *)
LEMMA MAssignsExtra ==
  ASSUME prog \in Programs, MeterAt, M!AssignsExtra
  PROVE  MeterAt'
<1> DEFINE f == mstack[1]
           wire == <<M!Unit("d", f.call.extras[M!NextOp(prog, f.call).gate])>>
           call1 == [f.call EXCEPT !.at = @ + 1]
           call2 == [call1 EXCEPT !.env = @ \o wire]
           g == [f EXCEPT !.call = call2]
<1>1. PICK names, R : Metered(prog, names, R, mstack, segments)
  BY DEF MeterAt
<1>2. /\ Head(mstack) = f /\ MFrameOk(f)
  BY <1>1, MFinds
<1>3. ~AtEnd(prog, f.call) /\ NextOp(prog, f.call).kind = "assign_extra"
  BY <1>2, SameBodies DEF M!AssignsExtra, M!Top
<1>4. mstack' = <<g>> \o Tail(mstack) /\ UNCHANGED <<prog, segments>>
  BY <1>2 DEF M!AssignsExtra, M!Top, M!SetTop, M!Bind, M!Advanced
<1>5. DOMAIN call2 = DOMAIN f.call /\ call2.name = f.call.name /\ call2.at = f.call.at + 1
  BY <1>2 DEF MFrameOk
<1> HIDE DEF call2
<1>6. MFrameOk(g) /\ MSpot(g) = Onward(MSpot(f))
  BY <1>2, <1>5 DEF MFrameOk, MSpot, Onward, Spot
<1> HIDE DEF g
<1>7. \E more, R2 : Metered(prog, more, R2, <<g>> \o Tail(mstack), segments)
  BY <1>1, <1>3, <1>6, MeterPasses
<1> QED
  BY <1>4, <1>7 DEF MeterAt

(* add().                                                                  *)
LEMMA MAdds ==
  ASSUME prog \in Programs, MeterAt, M!Adds
  PROVE  MeterAt'
<1> DEFINE f == mstack[1]
           wire == <<M!Combine(M!NextOp(prog, f.call).lc, f.call.env)>>
           call1 == [f.call EXCEPT !.at = @ + 1]
           call2 == [call1 EXCEPT !.env = @ \o wire]
           g == [f EXCEPT !.call = call2]
<1>1. PICK names, R : Metered(prog, names, R, mstack, segments)
  BY DEF MeterAt
<1>2. /\ Head(mstack) = f /\ MFrameOk(f)
  BY <1>1, MFinds
<1>3. ~AtEnd(prog, f.call) /\ NextOp(prog, f.call).kind = "add"
  BY <1>2, SameBodies DEF M!Adds, M!Top
<1>4. mstack' = <<g>> \o Tail(mstack) /\ UNCHANGED <<prog, segments>>
  BY <1>2 DEF M!Adds, M!Top, M!SetTop, M!Bind, M!Advanced
<1>5. DOMAIN call2 = DOMAIN f.call /\ call2.name = f.call.name /\ call2.at = f.call.at + 1
  BY <1>2 DEF MFrameOk
<1> HIDE DEF call2
<1>6. MFrameOk(g) /\ MSpot(g) = Onward(MSpot(f))
  BY <1>2, <1>5 DEF MFrameOk, MSpot, Onward, Spot
<1> HIDE DEF g
<1>7. \E more, R2 : Metered(prog, more, R2, <<g>> \o Tail(mstack), segments)
  BY <1>1, <1>3, <1>6, MeterPasses
<1> QED
  BY <1>4, <1>7 DEF MeterAt

(* enforce_zero().                                                         *)
LEMMA MEnforcesZero ==
  ASSUME prog \in Programs, MeterAt, M!EnforcesZero
  PROVE  MeterAt'
<1> DEFINE f == mstack[1]
           i == f.current_segment
           sum == M!Combine(M!NextOp(prog, f.call).lc, f.call.env)
           call2 == [f.call EXCEPT !.at = @ + 1]
           g == [f EXCEPT !.result = Append(@, sum), !.call = call2]
           e == [segments[i] EXCEPT !.num_constraints = @ + 1]
<1>1. PICK names, R : Metered(prog, names, R, mstack, segments)
  BY DEF MeterAt
<1>2. /\ Head(mstack) = f /\ MFrameOk(f) /\ RecordOk(segments[i])
  BY <1>1, MFinds
<1>3. ~AtEnd(prog, f.call) /\ NextOp(prog, f.call).kind = "enforce_zero"
  BY <1>2, SameBodies DEF M!EnforcesZero, M!Top
<1>4. mstack' = <<g>> \o Tail(mstack)
  BY <1>2 DEF M!EnforcesZero, M!Top, M!SetTop, M!Advanced
<1>5. segments' = [segments EXCEPT ![i] = e] /\ UNCHANGED prog
  BY <1>2 DEF M!EnforcesZero, M!Top
<1>6. DOMAIN call2 = DOMAIN f.call /\ call2.name = f.call.name /\ call2.at = f.call.at + 1
  BY <1>2 DEF MFrameOk
<1> HIDE DEF call2
<1>7. MFrameOk(g) /\ MSpot(g) = Onward(MSpot(f))
  BY <1>2, <1>6 DEF MFrameOk, MSpot, Onward, Spot
<1>8. RecordOk(e) /\ MCountsFor("enforce_zero", segments[i], e)
  BY <1>2 DEF RecordOk, MCountsFor
<1> HIDE DEF g, e
<1>9. \E more, R2 : Metered(prog, more, R2, <<g>> \o Tail(mstack), [segments EXCEPT ![i] = e])
  <2> DEFINE kind == "enforce_zero"
  <2>1. kind = NextOp(prog, f.call).kind /\ kind # "routine" /\ MCountsFor(kind, segments[i], e)
    BY <1>3, <1>8
  <2> HIDE DEF kind
  <2> QED
    BY <2>1, <1>1, <1>3, <1>7, <1>8, MeterCounts
<1> QED
  BY <1>4, <1>5, <1>9 DEF MeterAt

(* routine(): entered.                                                     *)
LEMMA MEntersRoutine ==
  ASSUME prog \in Programs, MeterAt, M!EntersRoutine
  PROVE  MeterAt'
<1> DEFINE f == mstack[1]
           op == NextOp(prog, f.call)
           n == Len(op.args)
           g == M!NewScope(op.name, Len(segments) + 1, M!Tokens(1, n), 1 + n)
           call2 == [f.call EXCEPT !.at = @ + 1]
           h == [f EXCEPT !.call = call2]
           e == [num_gates |-> 0, num_constraints |-> 0, identity |-> M!RootIdentity]
           stk2 == (<<g>> \o <<h>>) \o Tail(mstack)
           recs2 == Append(segments, e)
<1>1. PICK names, R : Metered(prog, names, R, mstack, segments)
  BY DEF MeterAt
<1>2. /\ Head(mstack) = f /\ MFrameOk(f) /\ IsList(mstack) /\ mstack # <<>> /\ Records(segments)
  BY <1>1, MFinds
<1>3. ~AtEnd(prog, f.call) /\ op.kind = "routine"
  BY <1>2, SameBodies DEF M!EntersRoutine, M!Top
<1>4. mstack' = stk2
  <2>1. M!NextOp(prog, f.call) = op
    BY SameBodies
  <2> HIDE DEF op
  <2> QED
    BY <2>1, <1>2 DEF M!EntersRoutine, M!Top, M!Advanced
<1>5. segments' = recs2 /\ UNCHANGED prog
  BY DEF M!EntersRoutine, M!NewRecord
<1>6. DOMAIN call2 = DOMAIN f.call /\ call2.name = f.call.name /\ call2.at = f.call.at + 1
  BY <1>2 DEF MFrameOk
<1> HIDE DEF call2
<1>7. MFrameOk(h) /\ MSpot(h) = Onward(MSpot(f))
  BY <1>2, <1>6 DEF MFrameOk, MSpot, Onward, Spot
<1>8. MFrameOk(g) /\ MSpot(g) = Spot(op.name, 1, Len(segments) + 1)
  <2> HIDE DEF op, n
  <2> QED
    BY DEF M!NewScope, M!NewCallFrame, MFrameOk, MSpot, Spot
<1>9. RecordOk(e) /\ e.num_gates = 0 /\ e.num_constraints = 0
  BY DEF RecordOk
<1> HIDE DEF g, h, e
<1>10. Stacked(stk2, g, h, mstack)
  BY <1>2, PushedOver
<1>11. /\ Records(recs2) /\ Len(recs2) = Len(segments) + 1
       /\ \A k \in 1 .. Len(segments) : recs2[k] = segments[k]
       /\ recs2[Len(segments) + 1] = e
  BY <1>2, <1>9, RecordsMore
<1> HIDE DEF stk2, recs2
<1>12. recs2[Len(segments) + 1].num_gates = 0 /\ recs2[Len(segments) + 1].num_constraints = 0
  BY <1>9, <1>11
<1>13. \E more, R2 : Metered(prog, more, R2, stk2, recs2)
  BY <1>1, <1>3, <1>7, <1>8, <1>10, <1>11, <1>12, MeterEnters
<1> QED
  BY <1>4, <1>5, <1>13 DEF MeterAt

(* routine(): left.                                                        *)
LEMMA MLeavesRoutine ==
  ASSUME prog \in Programs, MeterAt, M!LeavesRoutine
  PROVE  MeterAt'
<1> DEFINE f == mstack[1]
           i == f.current_segment
           b == mstack[2]
           n == Len(M!OutputWires(prog, f.call))
           env == b.call.env \o M!Tokens(b.remap, n)
           call2 == [b.call EXCEPT !.env = env]
           g == [b EXCEPT !.remap = @ + n, !.call = call2]
           e == [segments[i] EXCEPT !.identity = M!Identity(f, segments[i])]
           stk2 == <<g>> \o SubSeq(mstack, 3, Len(mstack))
           recs2 == [segments EXCEPT ![i] = e]
<1>1. PICK names, R : Metered(prog, names, R, mstack, segments)
  BY DEF MeterAt
<1>2. /\ IsList(mstack) /\ Head(mstack) = f /\ MFrameOk(f) /\ Records(segments)
      /\ i \in 1 .. Len(segments) /\ RecordOk(segments[i]) /\ Len(mstack) \in Nat
  BY <1>1, MFinds
<1>3. AtEnd(prog, f.call) /\ Len(mstack) > 1
  BY <1>2, SameBodies DEF M!LeavesRoutine, M!Top
<1>4. MFrameOk(b)
  <2>1. 2 \in 1 .. Len(mstack)
    BY <1>2, <1>3
  <2> QED
    BY <1>1, <2>1 DEF Metered, MFrames
<1>5. mstack' = stk2
  <2>1. mstack' = <<[b EXCEPT !.remap = b.remap + n, !.call.env = env]>> \o SubSeq(mstack, 3, Len(mstack))
    BY <1>2 DEF M!LeavesRoutine, M!Top
  <2>2. [b EXCEPT !.remap = b.remap + n, !.call.env = env] = g
    <3> HIDE DEF env, n
    <3> QED
      BY <1>4 DEF MFrameOk
  <2> HIDE DEF g, b, n, env
  <2> QED
    BY <2>1, <2>2
<1>6. segments' = recs2 /\ UNCHANGED prog
  BY <1>2 DEF M!LeavesRoutine, M!Top
<1>7. DOMAIN call2 = DOMAIN b.call /\ call2.name = b.call.name /\ call2.at = b.call.at
  <2> HIDE DEF env
  <2> QED
    BY <1>4 DEF MFrameOk
<1> HIDE DEF call2, n
<1>8. MFrameOk(g) /\ MSpot(g) = MSpot(b)
  BY <1>4, <1>7 DEF MFrameOk, MSpot, Spot
<1>9. /\ RecordOk(e) /\ e.num_gates = segments[i].num_gates
      /\ e.num_constraints = segments[i].num_constraints
  BY <1>2 DEF RecordOk
<1> HIDE DEF g, e
<1>10. Unstacked(stk2, g, mstack)
  BY <1>2, <1>3, PoppedOver
<1>11. /\ Records(recs2) /\ Len(recs2) = Len(segments)
       /\ \A k \in 1 .. Len(segments) : recs2[k] = IF k = i THEN e ELSE segments[k]
  BY <1>2, <1>9, RecordsChange
<1> HIDE DEF stk2, recs2
<1>12. \A k \in 1 .. Len(segments) : /\ recs2[k].num_gates = segments[k].num_gates
                                     /\ recs2[k].num_constraints = segments[k].num_constraints
  BY <1>9, <1>11
<1>13. \E more, R2 : Metered(prog, more, R2, stk2, recs2)
  <2>1. /\ Metered(prog, names, R, mstack, segments) /\ AtEnd(prog, mstack[1].call)
        /\ MFrameOk(g) /\ MSpot(g) = MSpot(mstack[2])
        /\ Records(recs2) /\ Len(recs2) = Len(segments)
    BY <1>1, <1>3, <1>8, <1>11
  <2>2. Metered(prog, names, R \cup {MControl(stk2, Len(recs2))}, stk2, recs2)
    BY ONLY prog \in Programs, <2>1, <1>3, <1>10, <1>12, MeterLeaves
  <2> QED
    BY <2>2
<1> QED
  BY <1>5, <1>6, <1>13 DEF MeterAt

(* The SYSTEM gate.                                                        *)
LEMMA MAllocatesSystemGate ==
  ASSUME prog \in Programs, mstack = <<M!NewScope(Main, 1, <<>>, 1)>>, segments = <<M!NewRecord>>,
         M!AllocatesSystemGate
  PROVE  MeterAt'
<1> DEFINE f == M!NewScope(Main, 1, <<>>, 1)
           r == M!NewRecord
           g == [f EXCEPT !.gate = @ + 1]
           e == [r EXCEPT !.num_gates = @ + 1]
           names == [k \in 1 .. 1 |-> Main]
           now == MControl(<<g>>, 1)
<1>1. Main \in Routines /\ 1 \in 1 .. Last(prog, Main)
  BY CircuitAssumption, LastIs
<1>2. MFrameOk(f) /\ MSpot(f) = Spot(Main, 1, 1)
  BY DEF M!NewScope, M!NewCallFrame, MFrameOk, MSpot, Spot
<1>3. RecordOk(r) /\ r.num_gates = 0 /\ r.num_constraints = 0
  BY DEF M!NewRecord, RecordOk
<1>4. IsList(<<f>>) /\ Len(<<f>>) = 1 /\ <<f>>[1] = f
  BY Single
<1>5. IsList(<<r>>) /\ Len(<<r>>) = 1 /\ <<r>>[1] = r
  BY Single
<1>6. f.current_segment = 1
  BY <1>2 DEF MSpot, Spot
<1> HIDE DEF f, r
<1>7. MFrameOk(g) /\ MSpot(g) = Spot(Main, 1, 1)
  BY <1>2 DEF MFrameOk, MSpot, Spot
<1>8. RecordOk(e) /\ e.num_gates = 1 /\ e.num_constraints = 0
  BY <1>3 DEF RecordOk
<1>9. Head(<<f>>) = f /\ Tail(<<f>>) = <<>>
  OBVIOUS
<1>10. mstack' = <<g>> \o <<>> /\ segments' = [<<r>> EXCEPT ![1] = e] /\ UNCHANGED prog
  <2>1. mstack = <<f>> /\ segments = <<r>>
    BY DEF f, r
  <2>2. M!Top = f
    BY <2>1, <1>9 DEF M!Top
  <2>3. mstack' = <<[M!Top EXCEPT !.gate = @ + 1]>> \o Tail(mstack) /\ UNCHANGED prog
    BY DEF M!AllocatesSystemGate, M!SetTop
  <2>4. segments' = [segments EXCEPT ![M!Top.current_segment] =
                       [segments[M!Top.current_segment] EXCEPT !.num_gates = @ + 1]]
    BY DEF M!AllocatesSystemGate, M!CountGate
  <2>5. segments[1] = r
    BY <2>1, <1>5
  <2>6. mstack' = <<[f EXCEPT !.gate = @ + 1]>> \o <<>>
    BY <2>1, <2>2, <2>3, <1>9
  <2>7. segments' = [<<r>> EXCEPT ![1] = [r EXCEPT !.num_gates = @ + 1]]
    <3>1. segments' = [segments EXCEPT ![1] = [segments[1] EXCEPT !.num_gates = @ + 1]]
      BY <2>2, <2>4, <1>6
    <3> QED
      BY ONLY <3>1, <2>1, <2>5
  <2> QED
    BY <2>3, <2>6, <2>7
<1> HIDE DEF g, e
<1>11. mstack' = <<g>> /\ segments' = <<e>>
  BY <1>10
<1>12. IsList(<<g>>) /\ Len(<<g>>) = 1 /\ <<g>>[1] = g
  BY Single
<1>13. IsList(<<e>>) /\ Len(<<e>>) = 1 /\ <<e>>[1] = e
  BY Single
<1>14. MFrames(<<g>>) /\ Records(<<e>>)
  BY <1>7, <1>8, <1>12, <1>13 DEF MFrames, Records
<1>15. Names(names, 1)
  BY <1>1 DEF Names
<1>16. now = Start
  <2>1. [k \in 1 .. Len(<<g>>) |-> MSpot(<<g>>[k])] = [k \in 1 .. 1 |-> Spot(Main, 1, 1)]
    BY <1>7, <1>12
  <2> QED
    BY <2>1, <1>12 DEF MControl, Start
<1>17. Trodden(prog, names, 1, {Start}, Start)
  <2>1. SpotOk(prog, names, 1, Spot(Main, 1, 1))
    BY <1>1 DEF SpotOk, Spot
  <2>2. IsControl(prog, names, 1, Start)
    BY <2>1 DEF IsControl, Start, Spot
  <2> HIDE DEF names
  <2> QED
    BY <2>2 DEF Trodden
<1>18. Accounted(prog, names, <<g>>, <<e>>)
  <2>1. g.call.name = Main /\ g.call.at = 1 /\ g.current_segment = 1
    BY <1>7 DEF MSpot, Spot
  <2>2. CountedTo(prog, Main, 1, e)
    <3>1. GatesDone(prog, Main, 1) = (IF Main = Main THEN 1 ELSE 0) /\ ConstraintsDone(prog, Main, 1) = 0
      BY <1>1, DoneRange
    <3> QED
      BY <3>1, <1>8 DEF CountedTo
  <2> HIDE DEF names
  <2>3. \A k \in 1 .. Len(<<g>>) : k = 1
    BY <1>12
  <2>4. \A k \in 1 .. Len(<<e>>) : k = 1
    BY <1>13
  <2>5. CountedTo(prog, <<g>>[1].call.name, <<g>>[1].call.at, <<e>>[<<g>>[1].current_segment])
    BY <2>1, <2>2, <1>12, <1>13
  <2>6. 1 \in 1 .. Len(<<g>>) /\ <<g>>[1].current_segment = 1
    BY <2>1, <1>12
  <2> QED
    BY <2>3, <2>4, <2>5, <2>6 DEF Accounted
<1> HIDE DEF now, names
<1>19. Metered(prog, names, {Start}, <<g>>, <<e>>)
  BY <1>12, <1>13, <1>14, <1>15, <1>16, <1>17, <1>18 DEF Metered, now
<1> QED
  BY <1>10, <1>11, <1>19 DEF MeterAt
-----------------------------------------------------------------------------
(* The totals seen from Metrics.                                           *)
LEMMA SameTotals ==
  \A recs : /\ M!GateSums(recs)[Len(recs)] = GateTotal(recs)
            /\ M!ConstraintSums(recs)[Len(recs)] = ConstraintTotal(recs)
BY DEF M!GateSums, M!ConstraintSums, M!PrefixSums, GateTotal, ConstraintTotal, SumsTo

(* The first record, that of the root, counts nothing before the gate.     *)
LEMMA FirstRecord ==
  /\ Records(<<M!NewRecord>>) /\ Len(<<M!NewRecord>>) = 1 /\ <<M!NewRecord>>[1] = M!NewRecord
  /\ RecordOk(M!NewRecord) /\ M!NewRecord.num_gates = 0 /\ M!NewRecord.num_constraints = 0
  /\ GateTotal(<<M!NewRecord>>) = 0 /\ ConstraintTotal(<<M!NewRecord>>) = 0
<1> DEFINE r == M!NewRecord
<1>1. RecordOk(r) /\ r.num_gates = 0 /\ r.num_constraints = 0
  BY DEF M!NewRecord, RecordOk
<1> HIDE DEF r
<1>2. /\ Records(<<r>>) /\ Len(<<r>>) = 1 /\ <<r>>[1] = r
      /\ GateTotal(<<r>>) = 0 /\ ConstraintTotal(<<r>>) = 0
  BY <1>1, OneRecord
<1> QED
  BY <1>1, <1>2 DEF r

(* The invariant of metrics, until the circuit is registered.              *)
MeterInv ==
  /\ mpc \in {"system", "body", "done"}
  /\ mpc = "system" => /\ mstack = <<M!NewScope(Main, 1, <<>>, 1)>>
                       /\ segments = <<M!NewRecord>>
  /\ mpc # "system" => MeterAt
  /\ mpc = "done" => Over(prog, MControl(mstack, Len(segments)))

(* Every step counts into its record and its total alike.                  *)
LEMMA MTotals ==
  ASSUME prog \in Programs, MeterInv, M!TotalsAreSums, M!Next
  PROVE  M!TotalsAreSums'
<1> DEFINE i == M!Top.current_segment
           e == [segments[i] EXCEPT !.num_gates = @ + 1]
           d == [segments[i] EXCEPT !.num_constraints = @ + 1]
           r == [segments[i] EXCEPT !.identity = M!Identity(M!Top, segments[i])]
<1>1. num_gates = GateTotal(segments) /\ num_constraints = ConstraintTotal(segments)
  BY SameTotals DEF M!TotalsAreSums
<1>2. /\ Records(segments) /\ i \in 1 .. Len(segments) /\ RecordOk(segments[i])
  <2>1. CASE mpc = "system"
    <3>1. mstack = <<M!NewScope(Main, 1, <<>>, 1)>> /\ segments = <<M!NewRecord>>
      BY <2>1 DEF MeterInv
    <3>2. M!Top.current_segment = 1
      BY <3>1 DEF M!Top, M!NewScope
    <3> QED
      BY <3>1, <3>2, FirstRecord
  <2>2. CASE mpc # "system"
    <3>1. PICK names, R : Metered(prog, names, R, mstack, segments)
      BY <2>2 DEF MeterInv, MeterAt
    <3> QED
      BY <3>1, MFinds DEF M!Top
  <2> QED
    BY <2>1, <2>2
<1>3. RecordOk(e) /\ e.num_gates = segments[i].num_gates + 1 /\ e.num_constraints = segments[i].num_constraints
  BY <1>2 DEF RecordOk
<1>4. RecordOk(d) /\ d.num_gates = segments[i].num_gates /\ d.num_constraints = segments[i].num_constraints + 1
  BY <1>2 DEF RecordOk
<1>5. RecordOk(r) /\ r.num_gates = segments[i].num_gates /\ r.num_constraints = segments[i].num_constraints
  BY <1>2 DEF RecordOk
<1>6. CASE M!AllocatesSystemGate \/ M!Gates
  <2>1. segments' = [segments EXCEPT ![i] = e] /\ num_gates' = num_gates + 1 /\ UNCHANGED num_constraints
    BY <1>6 DEF M!AllocatesSystemGate, M!Gates, M!CountGate
  <2> HIDE DEF e, i
  <2>2. GateTotal(segments') = GateTotal(segments) + 1 /\ ConstraintTotal(segments') = ConstraintTotal(segments)
    <3>1. /\ e.num_gates = segments[i].num_gates + 1
               => GateTotal([segments EXCEPT ![i] = e]) = GateTotal(segments) + 1
          /\ e.num_gates = segments[i].num_gates
               => GateTotal([segments EXCEPT ![i] = e]) = GateTotal(segments)
          /\ e.num_constraints = segments[i].num_constraints + 1
               => ConstraintTotal([segments EXCEPT ![i] = e]) = ConstraintTotal(segments) + 1
          /\ e.num_constraints = segments[i].num_constraints
               => ConstraintTotal([segments EXCEPT ![i] = e]) = ConstraintTotal(segments)
      BY <1>2, <1>3, TotalsChange
    <3> QED
      BY <2>1, <3>1, <1>3
  <2> QED
    BY <2>1, <2>2, <1>1, SameTotals DEF M!TotalsAreSums
<1>7. CASE M!EnforcesZero
  <2>1. segments' = [segments EXCEPT ![i] = d] /\ num_constraints' = num_constraints + 1 /\ UNCHANGED num_gates
    BY <1>7 DEF M!EnforcesZero
  <2> HIDE DEF d, i
  <2>2. GateTotal(segments') = GateTotal(segments) /\ ConstraintTotal(segments') = ConstraintTotal(segments) + 1
    <3>1. /\ d.num_gates = segments[i].num_gates + 1
               => GateTotal([segments EXCEPT ![i] = d]) = GateTotal(segments) + 1
          /\ d.num_gates = segments[i].num_gates
               => GateTotal([segments EXCEPT ![i] = d]) = GateTotal(segments)
          /\ d.num_constraints = segments[i].num_constraints + 1
               => ConstraintTotal([segments EXCEPT ![i] = d]) = ConstraintTotal(segments) + 1
          /\ d.num_constraints = segments[i].num_constraints
               => ConstraintTotal([segments EXCEPT ![i] = d]) = ConstraintTotal(segments)
      BY <1>2, <1>4, TotalsChange
    <3> QED
      BY <2>1, <3>1, <1>4
  <2> QED
    BY <2>1, <2>2, <1>1, SameTotals DEF M!TotalsAreSums
<1>8. CASE M!LeavesRoutine
  <2>1. segments' = [segments EXCEPT ![i] = r] /\ UNCHANGED <<num_gates, num_constraints>>
    BY <1>8 DEF M!LeavesRoutine
  <2> HIDE DEF r, i
  <2>2. GateTotal(segments') = GateTotal(segments) /\ ConstraintTotal(segments') = ConstraintTotal(segments)
    <3>1. /\ r.num_gates = segments[i].num_gates + 1
               => GateTotal([segments EXCEPT ![i] = r]) = GateTotal(segments) + 1
          /\ r.num_gates = segments[i].num_gates
               => GateTotal([segments EXCEPT ![i] = r]) = GateTotal(segments)
          /\ r.num_constraints = segments[i].num_constraints + 1
               => ConstraintTotal([segments EXCEPT ![i] = r]) = ConstraintTotal(segments) + 1
          /\ r.num_constraints = segments[i].num_constraints
               => ConstraintTotal([segments EXCEPT ![i] = r]) = ConstraintTotal(segments)
      BY <1>2, <1>5, TotalsChange
    <3> QED
      BY <2>1, <3>1, <1>5
  <2> QED
    BY <2>1, <2>2, <1>1, SameTotals DEF M!TotalsAreSums
<1>9. CASE M!EntersRoutine
  <2> DEFINE new == M!NewRecord
  <2>1. segments' = Append(segments, new) /\ UNCHANGED <<num_gates, num_constraints>>
    BY <1>9 DEF M!EntersRoutine
  <2>2. RecordOk(new) /\ new.num_gates = 0 /\ new.num_constraints = 0
    BY FirstRecord
  <2> HIDE DEF new
  <2>3. GateTotal(segments') = GateTotal(segments) /\ ConstraintTotal(segments') = ConstraintTotal(segments)
    BY <2>1, <2>2, <1>2, TotalsAppend
  <2> QED
    BY <2>1, <2>3, <1>1, SameTotals DEF M!TotalsAreSums
<1>10. CASE M!AssignsExtra \/ M!Adds \/ M!Finishes
  <2>1. UNCHANGED <<segments, num_gates, num_constraints>>
    BY <1>10 DEF M!AssignsExtra, M!Adds, M!Finishes
  <2> QED
    BY <2>1, <1>1, SameTotals DEF M!TotalsAreSums
<1> QED
  BY <1>6, <1>7, <1>8, <1>9, <1>10 DEF M!Next

(* The steps of metrics keep its invariant.                                *)
LEMMA MeterKeeps ==
  ASSUME prog \in Programs, MeterInv, M!Next
  PROVE  MeterInv' /\ UNCHANGED prog
<1>1. CASE M!AllocatesSystemGate
  <2>1. mpc' = "body" /\ UNCHANGED prog /\ mpc = "system"
    BY <1>1 DEF M!AllocatesSystemGate
  <2>2. MeterAt'
    BY <1>1, <2>1, MAllocatesSystemGate DEF MeterInv
  <2> QED
    BY <2>1, <2>2 DEF MeterInv
<1>2. CASE M!Gates \/ M!AssignsExtra \/ M!Adds \/ M!EnforcesZero \/ M!EntersRoutine \/ M!LeavesRoutine
  <2>1. mpc' = "body" /\ UNCHANGED prog /\ mpc = "body"
    BY <1>2 DEF M!Gates, M!AssignsExtra, M!Adds, M!EnforcesZero, M!EntersRoutine, M!LeavesRoutine
  <2>2. MeterAt
    BY <2>1 DEF MeterInv
  <2>3. MeterAt'
    BY <1>2, <2>2, MGates, MAssignsExtra, MAdds, MEnforcesZero, MEntersRoutine, MLeavesRoutine
  <2> QED
    BY <2>1, <2>3 DEF MeterInv
<1>3. CASE M!Finishes
  <2>1. mpc' = "done" /\ UNCHANGED <<prog, mstack, segments>> /\ mpc = "body"
    BY <1>3 DEF M!Finishes
  <2>2. PICK names, R : Metered(prog, names, R, mstack, segments)
    BY <2>1 DEF MeterInv, MeterAt
  <2>3. AtEnd(prog, mstack[1].call) /\ Len(mstack) = 1
    <3>1. Head(mstack) = mstack[1]
      BY <2>2, MFinds
    <3> QED
      BY <1>3, <3>1, SameBodies DEF M!Finishes, M!Top
  <2>4. Over(prog, MControl(mstack, Len(segments)))
    <3> DEFINE c == MControl(mstack, Len(segments))
               f == mstack[1]
    <3>1. c.depth = Len(mstack) /\ (Ended(prog, c) <=> AtEnd(prog, f.call))
      <4>1. /\ Len(mstack) \in Nat \ {0} /\ Len(segments) \in Nat \ {0} /\ 1 \in 1 .. Len(mstack)
            /\ MFrameOk(f) /\ IsControl(prog, names, Len(segments), c)
            /\ c.depth = Len(mstack) /\ c.count = Len(segments) /\ c.spots[1] = MSpot(f)
            /\ \A k \in 1 .. Len(mstack) : c.spots[k] = MSpot(mstack[k])
            /\ f.call.name \in Routines /\ f.call.at \in 1 .. Last(prog, f.call.name)
            /\ f.current_segment \in 1 .. Len(segments) /\ names[f.current_segment] = f.call.name
            /\ Ended(prog, c) <=> AtEnd(prog, f.call)
            /\ ~Ended(prog, c) => /\ f.call.at \in 1 .. Len(OpsOf(prog, f.call.name))
                                  /\ OpAt(prog, c) = NextOp(prog, f.call)
        BY <2>2, MTop
      <4> QED
        BY <4>1
    <3> HIDE DEF c
    <3>2. Over(prog, c)
      BY <3>1, <2>3 DEF Over
    <3> QED
      BY <3>2 DEF c
  <2>5. MeterAt' /\ Over(prog, MControl(mstack, Len(segments)))'
    BY <2>1, <2>2, <2>4 DEF MeterAt
  <2> QED
    BY <2>1, <2>5 DEF MeterInv
<1> QED
  BY <1>1, <1>2, <1>3 DEF M!Next

(* The start.                                                              *)
LEMMA MeterStarts == M!Init => prog \in Programs /\ MeterInv /\ M!TotalsAreSums
<1> SUFFICES ASSUME M!Init PROVE prog \in Programs /\ MeterInv /\ M!TotalsAreSums
  OBVIOUS
<1>1. /\ prog \in Programs /\ mpc = "system" /\ num_gates = 0 /\ num_constraints = 0
      /\ mstack = <<M!NewScope(Main, 1, <<>>, 1)>> /\ segments = <<M!NewRecord>>
  BY DEF M!Init, M!Main, Main
<1>2. M!TotalsAreSums
  BY <1>1, FirstRecord, SameTotals DEF M!TotalsAreSums
<1> QED
  BY <1>1, <1>2 DEF MeterInv
-----------------------------------------------------------------------------
(* What the evaluators get: a floor plan that places every segment within  *)
(* the bounds, after the root's constraints if it is not the root, and     *)
(* with the counts of its body; and the controls R of the whole walk.      *)
Placed(p, pl, names, i) ==
  /\ pl[i].gate_start \in Nat /\ pl[i].constraint_start \in Nat
  /\ CountedTo(p, names[i], Last(p, names[i]), pl[i])
  /\ pl[i].num_gates \in Nat /\ pl[i].num_constraints \in Nat
  /\ pl[i].gate_start + pl[i].num_gates <= N
  /\ pl[i].constraint_start + pl[i].num_constraints <= 4 * N - 1
  /\ IF i = 1 THEN pl[i].constraint_start = 0
     ELSE pl[i].constraint_start >= pl[1].num_constraints
Walked(p, names, n, R) ==
  /\ Start \in R
  /\ \A c \in R : /\ IsControl(p, names, n, c)
                  /\ Over(p, c) => c.count = n
                  /\ ~Over(p, c) => After(p, c) \in R
Registered(p, pl, names, R) ==
  /\ IsList(pl) /\ Names(names, Len(pl))
  /\ Walked(p, names, Len(pl), R)
  /\ \A i \in 1 .. Len(pl) : Placed(p, pl, names, i)

(* The bounds.                                                             *)
LEMMA BoundsMet ==
  ASSUME NEW g \in Nat, NEW c \in Nat, BoundError(N, g, c) = Ok
  PROVE  g <= N /\ c <= 4 * N - 1
BY FieldAssumption DEF BoundError, Ok

(* A circuit whose walk is over and within the bounds can be registered.   *)
LEMMA CanRegister ==
  ASSUME NEW p \in Programs, NEW names, NEW R, NEW stk, NEW recs, Metered(p, names, R, stk, recs),
         Over(p, MControl(stk, Len(recs))),
         BoundError(N, GateTotal(recs), ConstraintTotal(recs)) = Ok
  PROVE  Registered(p, FloorPlan(recs), names, R)
<1> DEFINE n == Len(recs)
           f == stk[1]
           c == MControl(stk, n)
           pl == FloorPlan(recs)
           g == [k \in DOMAIN recs |-> recs[k].num_gates]
           h == [k \in DOMAIN recs |-> recs[k].num_constraints]
<1>1. /\ Len(stk) \in Nat \ {0} /\ n \in Nat \ {0} /\ 1 \in 1 .. Len(stk)
      /\ MFrameOk(f) /\ IsControl(p, names, n, c)
      /\ c.depth = Len(stk) /\ c.count = n /\ c.spots[1] = MSpot(f)
      /\ \A k \in 1 .. Len(stk) : c.spots[k] = MSpot(stk[k])
      /\ f.call.name \in Routines /\ f.call.at \in 1 .. Last(p, f.call.name)
      /\ f.current_segment \in 1 .. n /\ names[f.current_segment] = f.call.name
      /\ Ended(p, c) <=> AtEnd(p, f.call)
      /\ ~Ended(p, c) => f.call.at \in 1 .. Len(OpsOf(p, f.call.name)) /\ OpAt(p, c) = NextOp(p, f.call)
  BY ONLY p \in Programs, Metered(p, names, R, stk, recs), MTop
<1>2. Records(recs) /\ Names(names, n) /\ Trodden(p, names, n, R, c) /\ Accounted(p, names, stk, recs)
  BY DEF Metered
<1>3. Over(p, c)
  OBVIOUS
<1> HIDE DEF c
<1>4. Len(stk) = 1 /\ f.call.at = Last(p, f.call.name)
  BY <1>1, <1>3 DEF Over, Ended, MSpot, Spot
<1>5. Walked(p, names, n, R)
  <2>1. \A d \in R : IsControl(p, names, n, d) /\ (d = c \/ (~Over(p, d) /\ After(p, d) \in R))
    BY <1>2 DEF Trodden
  <2>2. Start \in R
    BY <1>2 DEF Trodden
  <2> QED
    BY <2>1, <2>2, <1>1, <1>3 DEF Walked
<1>6. \A i \in 1 .. n : CountedTo(p, names[i], Last(p, names[i]), recs[i])
  <2> HIDE DEF n, f
  <2> SUFFICES ASSUME NEW i \in 1 .. n PROVE CountedTo(p, names[i], Last(p, names[i]), recs[i])
    OBVIOUS
  <2>1. \A k \in 1 .. Len(stk) : k = 1
    BY <1>4
  <2>2. CASE i = f.current_segment
    <3>1. CountedTo(p, f.call.name, f.call.at, recs[f.current_segment])
      BY <1>1, <1>2 DEF Accounted, f
    <3> QED
      BY <3>1, <2>2, <1>1, <1>4
  <2>3. CASE i # f.current_segment
    <3>1. \A k \in 1 .. Len(stk) : stk[k].current_segment # i
      BY <2>1, <2>3 DEF f
    <3> QED
      BY <3>1, <1>2 DEF Accounted, n
  <2> QED
    BY <2>2, <2>3
<1>7. /\ n \in Nat \ {0} /\ DOMAIN recs = 1 .. n
      /\ \A k \in 1 .. n : g[k] \in Nat
      /\ \A k \in 1 .. n : h[k] \in Nat
  BY <1>2, SizesAre
<1>8. \A k \in 1 .. n : g[k] = recs[k].num_gates /\ h[k] = recs[k].num_constraints
  BY <1>7
<1>9. /\ GateSums(recs) = SumsTo(n, g) /\ ConstraintSums(recs) = SumsTo(n, h)
      /\ GateTotal(recs) = SumsTo(n, g)[n] /\ ConstraintTotal(recs) = SumsTo(n, h)[n]
  BY DEF GateTotal, GateSums, ConstraintTotal, ConstraintSums, PrefixSums, SumsTo
<1> DEFINE G == SumsTo(n, g)
           H == SumsTo(n, h)
<1> HIDE DEF n, g, h
<1>10. G[0] = 0 /\ H[0] = 0 /\ G[n] \in Nat /\ H[n] \in Nat
  <2>1. n \in Nat /\ n \in 0 .. n
    BY <1>7
  <2>2. G[0] = 0 /\ \A k \in 0 .. n : G[k] \in Nat
    BY <2>1, <1>7, SumsAre
  <2>3. H[0] = 0 /\ \A k \in 0 .. n : H[k] \in Nat
    BY <2>1, <1>7, SumsAre
  <2> QED
    BY <2>1, <2>2, <2>3
<1>11. \A k \in 1 .. n : G[k - 1] \in Nat /\ G[k - 1] + g[k] <= G[n] /\ (k # 1 => G[k - 1] >= g[1])
  BY <1>7, SumsBound
<1>12. \A k \in 1 .. n : H[k - 1] \in Nat /\ H[k - 1] + h[k] <= H[n] /\ (k # 1 => H[k - 1] >= h[1])
  BY <1>7, SumsBound
<1>13. G[n] <= N /\ H[n] <= 4 * N - 1
  BY <1>9, <1>10, BoundsMet
<1>14. /\ pl \in Seq({ pl[k] : k \in 1 .. n }) /\ Len(pl) = n
       /\ \A k \in 1 .. n : /\ pl[k].gate_start = G[k - 1] /\ pl[k].constraint_start = H[k - 1]
                            /\ pl[k].num_gates = g[k] /\ pl[k].num_constraints = h[k]
  <2>1. pl = [i \in 1 .. n |->
                [gate_start |-> G[i - 1], constraint_start |-> H[i - 1],
                 num_gates |-> recs[i].num_gates, num_constraints |-> recs[i].num_constraints]]
    BY <1>7, <1>9 DEF FloorPlan
  <2> HIDE DEF pl, G, H
  <2>2. \A k \in 1 .. n : /\ pl[k].gate_start = G[k - 1] /\ pl[k].constraint_start = H[k - 1]
                          /\ pl[k].num_gates = g[k] /\ pl[k].num_constraints = h[k]
    BY <2>1, <1>8
  <2>3. DOMAIN pl = 1 .. n /\ n \in Nat
    BY <2>1, <1>7
  <2>4. pl \in [1 .. n -> { pl[k] : k \in 1 .. n }]
    BY <2>1
  <2> QED
    BY <2>2, <2>3, <2>4
<1> HIDE DEF pl, G, H
<1>15. IsList(pl)
  BY <1>14, ListOf
<1>16. ASSUME NEW i \in 1 .. n PROVE Placed(p, pl, names, i)
  <2>1. /\ G[i - 1] \in Nat /\ G[i - 1] + g[i] <= G[n] /\ g[i] \in Nat
        /\ H[i - 1] \in Nat /\ H[i - 1] + h[i] <= H[n] /\ h[i] \in Nat
        /\ i # 1 => H[i - 1] >= h[1]
    BY <1>7, <1>11, <1>12
  <2>2. /\ pl[i].gate_start = G[i - 1] /\ pl[i].constraint_start = H[i - 1]
        /\ pl[i].num_gates = g[i] /\ pl[i].num_constraints = h[i]
        /\ pl[1].num_constraints = h[1]
    BY <1>7, <1>14
  <2>3. CountedTo(p, names[i], Last(p, names[i]), pl[i])
    BY <2>2, <1>6, <1>8 DEF CountedTo
  <2>4. pl[i].gate_start + pl[i].num_gates <= N /\ pl[i].constraint_start + pl[i].num_constraints <= 4 * N - 1
    <3>1. N \in Nat
      BY FieldAssumption
    <3>2. G[i - 1] + g[i] <= N
      BY ONLY <3>1, <2>1, <1>10, <1>13
    <3>3. H[i - 1] + h[i] <= 4 * N - 1
      BY ONLY <3>1, <2>1, <1>10, <1>13
    <3> QED
      BY ONLY <2>2, <3>2, <3>3
  <2>5. IF i = 1 THEN pl[i].constraint_start = 0 ELSE pl[i].constraint_start >= pl[1].num_constraints
    BY <2>1, <2>2, <1>10
  <2> QED
    BY <2>1, <2>2, <2>3, <2>4, <2>5 DEF Placed
<1>17. Registered(p, pl, names, R)
  BY <1>2, <1>5, <1>14, <1>15, <1>16 DEF Registered
<1> QED
  BY <1>17 DEF pl
-----------------------------------------------------------------------------
(* The walk of an evaluator: its frames are at a control of the same walk, *)
(* each with its gates and constraints where the floor plan has them.      *)
ESpot(f) == Spot(f.call.name, f.call.at, f.seg)
EControl(stk, n) ==
  [depth |-> Len(stk), spots |-> [k \in 1 .. Len(stk) |-> ESpot(stk[k])], count |-> n]
InPlace(p, pl, f) ==
  /\ f.gates = pl[f.seg].gate_start + GatesDone(p, f.call.name, f.call.at)
  /\ f.constraints = pl[f.seg].constraint_start + ConstraintsDone(p, f.call.name, f.call.at)
Tracks(p, pl, R, stk, n) ==
  /\ IsList(stk) /\ stk # <<>>
  /\ EControl(stk, n) \in R
  /\ \A k \in 1 .. Len(stk) : InPlace(p, pl, stk[k])

(* Its frames' spots are spots of the circuit.                             *)
LEMMA ESpots ==
  ASSUME NEW p \in Programs, NEW pl, NEW names, NEW R, Registered(p, pl, names, R),
         NEW stk, NEW n, Tracks(p, pl, R, stk, n), NEW k \in 1 .. Len(stk)
  PROVE  /\ stk[k].call.name \in Routines /\ stk[k].call.at \in 1 .. Last(p, stk[k].call.name)
         /\ stk[k].seg \in 1 .. Len(pl) /\ names[stk[k].seg] = stk[k].call.name
         /\ stk[k].seg = 1 <=> k = Len(stk)
         /\ Placed(p, pl, names, stk[k].seg) /\ InPlace(p, pl, stk[k])
<1> DEFINE c == EControl(stk, n)
           f == stk[k]
<1>1. c.depth = Len(stk) /\ c.spots[k] = ESpot(f)
  BY DEF EControl
<1>2. IsControl(p, names, Len(pl), c)
  BY DEF Registered, Walked, Tracks
<1> HIDE DEF c
<1>3. SpotOk(p, names, Len(pl), ESpot(f)) /\ (ESpot(f).seg = 1 <=> k = Len(stk))
  BY <1>1, <1>2 DEF IsControl
<1>4. /\ f.seg \in 1 .. Len(pl) /\ names[f.seg] = f.call.name /\ f.call.at \in 1 .. Last(p, f.call.name)
      /\ f.seg = 1 <=> k = Len(stk)
  BY <1>3 DEF SpotOk, ESpot, Spot
<1>5. f.call.name \in Routines
  BY <1>4 DEF Registered, Names
<1>6. Placed(p, pl, names, f.seg)
  BY <1>4 DEF Registered
<1>7. InPlace(p, pl, f)
  BY DEF Tracks
<1> QED
  BY <1>4, <1>5, <1>6, <1>7

(* Where the counts of a frame are: the next gate and constraint fit, and  *)
(* at the end of its body the segment is filled.                           *)
LEMMA EFits ==
  ASSUME NEW p \in Programs, NEW pl, NEW names, NEW R, Registered(p, pl, names, R),
         NEW stk, NEW n, Tracks(p, pl, R, stk, n), NEW k \in 1 .. Len(stk)
  PROVE  /\ stk[k].gates \in Nat /\ stk[k].constraints \in Nat
         /\ AtEnd(p, stk[k].call) <=> stk[k].call.at = Last(p, stk[k].call.name)
         /\ AtEnd(p, stk[k].call) => Filled(pl, stk[k])
         /\ ~AtEnd(p, stk[k].call) =>
              /\ stk[k].call.at \in 1 .. Len(OpsOf(p, stk[k].call.name))
              /\ NextOp(p, stk[k].call).kind = "gate" => ~NoRoomForGate(N, stk[k])
              /\ NextOp(p, stk[k].call).kind = "enforce_zero" => ~NoRoomForConstraint(N, stk[k])
<1> DEFINE f == stk[k]
           r == f.call.name
           at == f.call.at
           s == f.seg
<1>1. /\ r \in Routines /\ at \in 1 .. Last(p, r) /\ s \in 1 .. Len(pl) /\ names[s] = r
      /\ s = 1 <=> k = Len(stk)
      /\ Placed(p, pl, names, s) /\ InPlace(p, pl, f)
  BY ESpots
<1>2. /\ f.gates = pl[s].gate_start + GatesDone(p, r, at)
      /\ f.constraints = pl[s].constraint_start + ConstraintsDone(p, r, at)
  BY <1>1 DEF InPlace
<1> HIDE DEF f, r, at, s
<1>3. /\ pl[s].gate_start \in Nat /\ pl[s].constraint_start \in Nat
      /\ pl[s].num_gates = GatesDone(p, r, Last(p, r))
      /\ pl[s].num_constraints = ConstraintsDone(p, r, Last(p, r))
      /\ pl[s].num_gates \in Nat /\ pl[s].num_constraints \in Nat
      /\ pl[s].gate_start + pl[s].num_gates <= N
      /\ pl[s].constraint_start + pl[s].num_constraints <= 4 * N - 1
  BY <1>1 DEF Placed, CountedTo
<1>4. /\ GatesDone(p, r, at) \in Nat /\ ConstraintsDone(p, r, at) \in Nat
  BY <1>1, DoneRange
<1>5. Len(OpsOf(p, r)) \in Nat /\ Last(p, r) = Len(OpsOf(p, r)) + 1
  BY <1>1, LastIs
<1>6. AtEnd(p, f.call) <=> at = Last(p, r)
  BY <1>1, <1>5 DEF AtEnd, at, r, f
<1>7. AtEnd(p, f.call) => Filled(pl, f)
  BY <1>2, <1>3, <1>6 DEF Filled, s
<1>8. ASSUME ~AtEnd(p, f.call)
      PROVE  /\ at \in 1 .. Len(OpsOf(p, r))
             /\ NextOp(p, f.call).kind = "gate" => ~NoRoomForGate(N, f)
             /\ NextOp(p, f.call).kind = "enforce_zero" => ~NoRoomForConstraint(N, f)
  <2>1. at \in 1 .. Len(OpsOf(p, r)) /\ at + 1 \in 1 .. Last(p, r)
    BY <1>1, <1>5, <1>6, <1>8
  <2>2. /\ GatesDone(p, r, at + 1) <= GatesDone(p, r, Last(p, r))
        /\ ConstraintsDone(p, r, at + 1) <= ConstraintsDone(p, r, Last(p, r))
    BY <1>1, <2>1, DoneRange
  <2>3. /\ GatesDone(p, r, at + 1) =
             GatesDone(p, r, at) + (IF OpsOf(p, r)[at].kind = "gate" THEN 1 ELSE 0)
        /\ ConstraintsDone(p, r, at + 1) =
             ConstraintsDone(p, r, at) + (IF OpsOf(p, r)[at].kind = "enforce_zero" THEN 1 ELSE 0)
    BY <1>1, <2>1, DoneNext
  <2>4. NextOp(p, f.call) = OpsOf(p, r)[at]
    BY DEF NextOp, r, at
  <2>5. N \in Nat
    BY FieldAssumption
  <2>6. NextOp(p, f.call).kind = "gate" => ~NoRoomForGate(N, f)
    BY <2>2, <2>3, <2>4, <2>5, <1>2, <1>3, <1>4 DEF NoRoomForGate
  <2>7. NextOp(p, f.call).kind = "enforce_zero" => ~NoRoomForConstraint(N, f)
    BY <2>2, <2>3, <2>4, <2>5, <1>2, <1>3, <1>4 DEF NoRoomForConstraint
  <2> QED
    BY <2>1, <2>6, <2>7
<1> QED
  BY <1>2, <1>3, <1>4, <1>6, <1>7, <1>8, SMTT(30) DEF f, r, at

(* The controls it comes to.                                               *)
LEMMA EMoves ==
  ASSUME NEW p \in Programs, NEW pl, NEW names, NEW R, Registered(p, pl, names, R),
         NEW stk, NEW n, Tracks(p, pl, R, stk, n)
  PROVE  /\ Len(stk) \in Nat \ {0} /\ 1 \in 1 .. Len(stk) /\ n \in 1 .. Len(pl) /\ Len(pl) \in Nat \ {0}
         /\ EControl(stk, n).depth = Len(stk) /\ EControl(stk, n).count = n
         /\ EControl(stk, n).spots[1] = ESpot(stk[1])
         /\ \A k \in 1 .. Len(stk) : EControl(stk, n).spots[k] = ESpot(stk[k])
         /\ Ended(p, EControl(stk, n)) <=> AtEnd(p, stk[1].call)
         /\ OpAt(p, EControl(stk, n)) = NextOp(p, stk[1].call)
         /\ AtEnd(p, stk[1].call) /\ Len(stk) = 1 => n = Len(pl)
         /\ ~(AtEnd(p, stk[1].call) /\ Len(stk) = 1) => After(p, EControl(stk, n)) \in R
<1> DEFINE c == EControl(stk, n)
           f == stk[1]
<1>1. Len(stk) \in Nat \ {0} /\ 1 \in 1 .. Len(stk)
  BY ListIs DEF Tracks
<1>2. c.depth = Len(stk) /\ c.count = n /\ \A k \in 1 .. Len(stk) : c.spots[k] = ESpot(stk[k])
  BY DEF EControl
<1>3. c \in R
  BY DEF Tracks
<1> HIDE DEF c
<1>4. c.spots[1] = ESpot(f)
  BY <1>1, <1>2
<1>5. IsControl(p, names, Len(pl), c) /\ (Over(p, c) => c.count = Len(pl)) /\ (~Over(p, c) => After(p, c) \in R)
  BY <1>3 DEF Registered, Walked
<1>6. n \in 1 .. Len(pl)
  BY <1>2, <1>5 DEF IsControl
<1>7. Ended(p, c) <=> f.call.at = Last(p, f.call.name)
  BY <1>4 DEF Ended, ESpot, Spot
<1>8. AtEnd(p, f.call) <=> f.call.at = Last(p, f.call.name)
  BY <1>1, EFits
<1>9. OpAt(p, c) = NextOp(p, f.call)
  BY <1>4 DEF OpAt, NextOp, ESpot, Spot
<1>10. Over(p, c) <=> AtEnd(p, f.call) /\ Len(stk) = 1
  BY <1>2, <1>7, <1>8 DEF Over
<1>11. Len(pl) \in Nat \ {0}
  BY DEF Registered, Names
<1> QED
  BY <1>1, <1>2, <1>4, <1>5, <1>6, <1>7, <1>8, <1>9, <1>10, <1>11 DEF c

(* The evaluator begins.                                                   *)
LEMMA EStarts ==
  ASSUME NEW p \in Programs, NEW pl, NEW names, NEW R, Registered(p, pl, names, R),
         NEW g, ESpot(g) = Spot(Main, 1, 1), g.gates = pl[1].gate_start + 1,
         g.constraints = pl[1].constraint_start
  PROVE  Tracks(p, pl, R, <<g>>, 1)
<1>1. IsList(<<g>>) /\ Len(<<g>>) = 1 /\ <<g>>[1] = g
  BY Single
<1>2. Main \in Routines /\ 1 \in 1 .. Last(p, Main)
  BY CircuitAssumption, LastIs
<1>3. 1 \in 1 .. Len(pl)
  BY DEF Registered, Names
<1>4. pl[1].gate_start \in Nat /\ pl[1].constraint_start \in Nat
  BY <1>3 DEF Registered, Placed
<1>5. GatesDone(p, Main, 1) = (IF Main = Main THEN 1 ELSE 0) /\ ConstraintsDone(p, Main, 1) = 0
  BY <1>2, DoneRange
<1>6. g.call.name = Main /\ g.call.at = 1 /\ g.seg = 1
  BY DEF ESpot, Spot
<1>7. InPlace(p, pl, g)
  BY <1>4, <1>5, <1>6 DEF InPlace
<1>8. EControl(<<g>>, 1) = Start
  <2>1. [k \in 1 .. Len(<<g>>) |-> ESpot(<<g>>[k])] = [k \in 1 .. 1 |-> Spot(Main, 1, 1)]
    BY <1>1
  <2> QED
    BY <2>1, <1>1 DEF EControl, Start
<1>9. Start \in R
  BY DEF Registered, Walked
<1>10. \A k \in 1 .. Len(<<g>>) : k = 1
  BY <1>1
<1>11. <<g>> # <<>>
  BY <1>1, ListIs
<1> QED
  BY <1>1, <1>7, <1>8, <1>9, <1>10, <1>11 DEF Tracks

(* It goes on in the body on top.                                          *)
LEMMA EGoesOn ==
  ASSUME NEW p \in Programs, NEW pl, NEW names, NEW R, Registered(p, pl, names, R),
         NEW stk, NEW n, Tracks(p, pl, R, stk, n),
         ~AtEnd(p, stk[1].call), NEW kind, kind = NextOp(p, stk[1].call).kind, kind # "routine",
         NEW g, ESpot(g) = Onward(ESpot(stk[1])),
         g.gates = stk[1].gates + (IF kind = "gate" THEN 1 ELSE 0),
         g.constraints = stk[1].constraints + (IF kind = "enforce_zero" THEN 1 ELSE 0),
         NEW stk2, Retopped(stk2, g, stk)
  PROVE  Tracks(p, pl, R, stk2, n)
<1> DEFINE f == stk[1]
           c == EControl(stk, n)
           d == EControl(stk2, n)
           r == f.call.name
           at == f.call.at
<1>1. /\ Len(stk) \in Nat \ {0} /\ 1 \in 1 .. Len(stk) /\ n \in 1 .. Len(pl) /\ Len(pl) \in Nat \ {0}
      /\ c.depth = Len(stk) /\ c.count = n
      /\ c.spots[1] = ESpot(f)
      /\ \A k \in 1 .. Len(stk) : c.spots[k] = ESpot(stk[k])
      /\ Ended(p, c) <=> AtEnd(p, f.call)
      /\ OpAt(p, c) = NextOp(p, f.call)
      /\ AtEnd(p, f.call) /\ Len(stk) = 1 => n = Len(pl)
      /\ ~(AtEnd(p, f.call) /\ Len(stk) = 1) => After(p, c) \in R
  BY ONLY p \in Programs, Registered(p, pl, names, R), Tracks(p, pl, R, stk, n), EMoves
<1>2. /\ r \in Routines /\ at \in 1 .. Len(OpsOf(p, r)) /\ f.seg \in 1 .. Len(pl)
      /\ f.gates \in Nat /\ f.constraints \in Nat /\ Placed(p, pl, names, f.seg) /\ InPlace(p, pl, f)
      /\ at \in 1 .. Last(p, r)
  BY <1>1, ESpots, EFits
<1>3. /\ IsList(stk2) /\ Len(stk2) = Len(stk) /\ stk2[1] = g
      /\ \A k \in 2 .. Len(stk) : stk2[k] = stk[k]
  BY DEF Retopped
<1> HIDE DEF c
<1>4. After(p, c) = GoneOn(c) /\ After(p, c) \in R
  BY <1>1 DEF After
<1>5. d = GoneOn(c)
  <2>1. \A k \in 1 .. Len(stk) : ESpot(stk2[k]) = IF k = 1 THEN Onward(c.spots[1]) ELSE c.spots[k]
    <3> SUFFICES ASSUME NEW k \in 1 .. Len(stk)
                 PROVE  ESpot(stk2[k]) = IF k = 1 THEN Onward(c.spots[1]) ELSE c.spots[k]
      OBVIOUS
    <3>1. k # 1 => k \in 2 .. Len(stk)
      BY <1>1
    <3>2. CASE k = 1
      BY <3>2, <1>1, <1>3
    <3>3. CASE k # 1
      BY <3>1, <3>3, <1>1, <1>3
    <3> QED
      BY <3>2, <3>3
  <2>2. [k \in 1 .. Len(stk2) |-> ESpot(stk2[k])]
          = [k \in 1 .. c.depth |-> IF k = 1 THEN Onward(c.spots[1]) ELSE c.spots[k]]
    BY <2>1, <1>1, <1>3
  <2>3. Len(stk2) = c.depth /\ n = c.count
    BY <1>1, <1>3
  <2> QED
    BY <2>2, <2>3 DEF EControl, GoneOn
<1>6. g.call.name = r /\ g.call.at = at + 1 /\ g.seg = f.seg
  BY DEF ESpot, Spot, Onward
<1>7. InPlace(p, pl, g)
  <2>1. /\ GatesDone(p, r, at + 1) =
             GatesDone(p, r, at) + (IF OpsOf(p, r)[at].kind = "gate" THEN 1 ELSE 0)
        /\ ConstraintsDone(p, r, at + 1) =
             ConstraintsDone(p, r, at) + (IF OpsOf(p, r)[at].kind = "enforce_zero" THEN 1 ELSE 0)
    BY <1>2, DoneNext
  <2>2. kind = OpsOf(p, r)[at].kind
    BY DEF NextOp
  <2>3. GatesDone(p, r, at) \in Nat /\ ConstraintsDone(p, r, at) \in Nat
    BY <1>2, DoneRange
  <2>4. pl[f.seg].gate_start \in Nat /\ pl[f.seg].constraint_start \in Nat
    BY <1>2 DEF Placed
  <2>5. /\ f.gates = pl[f.seg].gate_start + GatesDone(p, r, at)
        /\ f.constraints = pl[f.seg].constraint_start + ConstraintsDone(p, r, at)
    BY <1>2 DEF InPlace
  <2>6. g.gates = pl[f.seg].gate_start + GatesDone(p, r, at + 1)
    BY <2>1, <2>2, <2>3, <2>4, <2>5
  <2>7. g.constraints = pl[f.seg].constraint_start + ConstraintsDone(p, r, at + 1)
    BY <2>1, <2>2, <2>3, <2>4, <2>5
  <2> QED
    BY <2>6, <2>7, <1>6 DEF InPlace
<1>8. ASSUME NEW k \in 1 .. Len(stk2) PROVE InPlace(p, pl, stk2[k])
  <2>1. CASE k = 1
    BY <2>1, <1>3, <1>7
  <2>2. CASE k # 1
    <3>1. k \in 2 .. Len(stk) /\ k \in 1 .. Len(stk)
      BY <2>2, <1>1, <1>3
    <3> QED
      BY <3>1, <1>3 DEF Tracks
  <2> QED
    BY <2>1, <2>2
<1>9. stk2 # <<>>
  BY <1>1, <1>3, ListIs
<1>10. d \in R
  BY <1>4, <1>5
<1> HIDE DEF f, r, at
<1> QED
  BY <1>3, <1>8, <1>9, <1>10 DEF Tracks

(* It enters a routine, in the segment next in order.                      *)
LEMMA EEnters ==
  ASSUME NEW p \in Programs, NEW pl, NEW names, NEW R, Registered(p, pl, names, R),
         NEW stk, NEW n, Tracks(p, pl, R, stk, n),
         ~AtEnd(p, stk[1].call), NextOp(p, stk[1].call).kind = "routine"
  PROVE  /\ n + 1 \in 1 .. Len(pl)
         /\ \A g, h, stk2 :
              /\ Stacked(stk2, g, h, stk)
              /\ ESpot(g) = Spot(NextOp(p, stk[1].call).name, 1, n + 1)
              /\ g.gates = pl[n + 1].gate_start /\ g.constraints = pl[n + 1].constraint_start
              /\ ESpot(h) = Onward(ESpot(stk[1]))
              /\ h.gates = stk[1].gates /\ h.constraints = stk[1].constraints
              => Tracks(p, pl, R, stk2, n + 1)
<1> DEFINE f == stk[1]
           c == EControl(stk, n)
           b == NextOp(p, stk[1].call).name
           r == f.call.name
           at == f.call.at
<1>1. /\ Len(stk) \in Nat \ {0} /\ 1 \in 1 .. Len(stk) /\ n \in 1 .. Len(pl) /\ Len(pl) \in Nat \ {0}
      /\ c.depth = Len(stk) /\ c.count = n
      /\ c.spots[1] = ESpot(f)
      /\ \A k \in 1 .. Len(stk) : c.spots[k] = ESpot(stk[k])
      /\ Ended(p, c) <=> AtEnd(p, f.call)
      /\ OpAt(p, c) = NextOp(p, f.call)
      /\ AtEnd(p, f.call) /\ Len(stk) = 1 => n = Len(pl)
      /\ ~(AtEnd(p, f.call) /\ Len(stk) = 1) => After(p, c) \in R
  BY ONLY p \in Programs, Registered(p, pl, names, R), Tracks(p, pl, R, stk, n), EMoves
<1>2. /\ r \in Routines /\ at \in 1 .. Len(OpsOf(p, r)) /\ f.seg \in 1 .. Len(pl)
      /\ f.gates \in Nat /\ f.constraints \in Nat /\ Placed(p, pl, names, f.seg) /\ InPlace(p, pl, f)
      /\ at \in 1 .. Last(p, r)
  BY <1>1, ESpots, EFits
<1> HIDE DEF c
<1>3. After(p, c) = Entered(c, b) /\ After(p, c) \in R
  BY <1>1 DEF After
<1>4. IsControl(p, names, Len(pl), Entered(c, b))
  BY <1>3 DEF Registered, Walked
<1>5. n + 1 \in 1 .. Len(pl)
  BY <1>1, <1>4 DEF IsControl, Entered
<1>6. b \in Routines /\ b # Main
  BY <1>2, CalleeIs DEF NextOp
<1>7. ASSUME NEW g, NEW h, NEW stk2, Stacked(stk2, g, h, stk),
             ESpot(g) = Spot(b, 1, n + 1),
             g.gates = pl[n + 1].gate_start, g.constraints = pl[n + 1].constraint_start,
             ESpot(h) = Onward(ESpot(f)), h.gates = f.gates, h.constraints = f.constraints
      PROVE  Tracks(p, pl, R, stk2, n + 1)
  <2> DEFINE d == EControl(stk2, n + 1)
  <2>1. /\ IsList(stk2) /\ Len(stk2) = Len(stk) + 1 /\ stk2[1] = g /\ stk2[2] = h
        /\ \A k \in 3 .. Len(stk) + 1 : stk2[k] = stk[k - 1]
    BY <1>7 DEF Stacked
  <2> HIDE DEF f, b
  <2>2. d = Entered(c, b)
    <3>1. \A k \in 1 .. Len(stk) + 1 :
            ESpot(stk2[k]) = IF k = 1 THEN Spot(b, 1, c.count + 1)
                             ELSE IF k = 2 THEN Onward(c.spots[1]) ELSE c.spots[k - 1]
      <4> SUFFICES ASSUME NEW k \in 1 .. Len(stk) + 1
                   PROVE  ESpot(stk2[k]) = IF k = 1 THEN Spot(b, 1, c.count + 1)
                                           ELSE IF k = 2 THEN Onward(c.spots[1]) ELSE c.spots[k - 1]
        OBVIOUS
      <4>1. CASE k = 1
        BY <4>1, <1>1, <1>7, <2>1
      <4>2. CASE k = 2
        BY <4>2, <1>1, <1>7, <2>1
      <4>3. CASE k # 1 /\ k # 2
        <5>1. k \in 3 .. Len(stk) + 1 /\ k - 1 \in 1 .. Len(stk)
          BY <4>3, <1>1
        <5> QED
          BY <5>1, <4>3, <1>1, <2>1
      <4> QED
        BY <4>1, <4>2, <4>3
    <3>2. [k \in 1 .. Len(stk2) |-> ESpot(stk2[k])]
            = [k \in 1 .. c.depth + 1 |->
                 IF k = 1 THEN Spot(b, 1, c.count + 1)
                 ELSE IF k = 2 THEN Onward(c.spots[1]) ELSE c.spots[k - 1]]
      BY <3>1, <1>1, <2>1
    <3>3. Len(stk2) = c.depth + 1 /\ n + 1 = c.count + 1
      BY <1>1, <2>1
    <3> QED
      BY <3>2, <3>3 DEF EControl, Entered
  <2>3. InPlace(p, pl, g)
    <3>1. g.call.name = b /\ g.call.at = 1 /\ g.seg = n + 1
      BY <1>7 DEF ESpot, Spot
    <3>2. 1 \in 1 .. Last(p, b)
      BY <1>6, LastIs
    <3>3. GatesDone(p, b, 1) = (IF b = Main THEN 1 ELSE 0) /\ ConstraintsDone(p, b, 1) = 0
      BY <1>6, <3>2, DoneRange
    <3>4. pl[n + 1].gate_start \in Nat /\ pl[n + 1].constraint_start \in Nat
      BY <1>5 DEF Registered, Placed
    <3> QED
      BY <3>1, <3>3, <3>4, <1>6, <1>7 DEF InPlace
  <2>4. InPlace(p, pl, h)
    <3>1. h.call.name = r /\ h.call.at = at + 1 /\ h.seg = f.seg
      BY <1>7 DEF ESpot, Spot, Onward
    <3>2. OpsOf(p, r)[at].kind = "routine"
      BY DEF NextOp, f
    <3>3. /\ GatesDone(p, r, at + 1) = GatesDone(p, r, at) + 0
          /\ ConstraintsDone(p, r, at + 1) = ConstraintsDone(p, r, at) + 0
      BY <1>2, <3>2, DoneNext
    <3>4. GatesDone(p, r, at) \in Nat /\ ConstraintsDone(p, r, at) \in Nat
      BY <1>2, DoneRange
    <3>5. /\ f.gates = pl[f.seg].gate_start + GatesDone(p, r, at)
          /\ f.constraints = pl[f.seg].constraint_start + ConstraintsDone(p, r, at)
      BY <1>2 DEF InPlace
    <3> QED
      BY <3>1, <3>3, <3>4, <3>5, <1>7 DEF InPlace
  <2>5. ASSUME NEW k \in 1 .. Len(stk2) PROVE InPlace(p, pl, stk2[k])
    <3>1. CASE k = 1 \/ k = 2
      BY <3>1, <2>1, <2>3, <2>4
    <3>2. CASE k # 1 /\ k # 2
      <4>1. k \in 3 .. Len(stk) + 1 /\ k - 1 \in 1 .. Len(stk)
        BY <3>2, <1>1, <2>1
      <4> QED
        BY <4>1, <2>1 DEF Tracks
    <3> QED
      BY <3>1, <3>2
  <2>6. stk2 # <<>>
    BY <1>1, <2>1, ListIs
  <2>7. d \in R
    BY <1>3, <2>2
  <2> QED
    BY <2>1, <2>5, <2>6, <2>7 DEF Tracks
<1> HIDE DEF f, b
<1> QED
  BY <1>5, <1>7 DEF f, b

(* It leaves a routine.                                                    *)
LEMMA ELeaves ==
  ASSUME NEW p \in Programs, NEW pl, NEW names, NEW R, Registered(p, pl, names, R),
         NEW stk, NEW n, Tracks(p, pl, R, stk, n),
         AtEnd(p, stk[1].call), Len(stk) > 1,
         NEW g, ESpot(g) = ESpot(stk[2]), g.gates = stk[2].gates, g.constraints = stk[2].constraints,
         NEW stk2, Unstacked(stk2, g, stk)
  PROVE  Tracks(p, pl, R, stk2, n)
<1> DEFINE f == stk[1]
           c == EControl(stk, n)
           d == EControl(stk2, n)
<1>1. /\ Len(stk) \in Nat \ {0} /\ 1 \in 1 .. Len(stk) /\ n \in 1 .. Len(pl) /\ Len(pl) \in Nat \ {0}
      /\ c.depth = Len(stk) /\ c.count = n
      /\ c.spots[1] = ESpot(f)
      /\ \A k \in 1 .. Len(stk) : c.spots[k] = ESpot(stk[k])
      /\ Ended(p, c) <=> AtEnd(p, f.call)
      /\ OpAt(p, c) = NextOp(p, f.call)
      /\ AtEnd(p, f.call) /\ Len(stk) = 1 => n = Len(pl)
      /\ ~(AtEnd(p, f.call) /\ Len(stk) = 1) => After(p, c) \in R
  BY ONLY p \in Programs, Registered(p, pl, names, R), Tracks(p, pl, R, stk, n), EMoves
<1>2. /\ IsList(stk2) /\ Len(stk2) = Len(stk) - 1 /\ stk2[1] = g
      /\ \A k \in 2 .. Len(stk) - 1 : stk2[k] = stk[k + 1]
  BY DEF Unstacked
<1> HIDE DEF c
<1>3. After(p, c) = Left(c) /\ After(p, c) \in R
  BY <1>1 DEF After
<1>4. \A k \in 1 .. Len(stk) - 1 :
        /\ k + 1 \in 1 .. Len(stk) /\ ESpot(stk2[k]) = ESpot(stk[k + 1])
        /\ stk2[k].gates = stk[k + 1].gates /\ stk2[k].constraints = stk[k + 1].constraints
  <2> SUFFICES ASSUME NEW k \in 1 .. Len(stk) - 1
               PROVE  /\ k + 1 \in 1 .. Len(stk) /\ ESpot(stk2[k]) = ESpot(stk[k + 1])
                      /\ stk2[k].gates = stk[k + 1].gates
                      /\ stk2[k].constraints = stk[k + 1].constraints
    OBVIOUS
  <2>1. k + 1 \in 1 .. Len(stk)
    BY <1>1
  <2>2. CASE k = 1
    BY <2>1, <2>2, <1>2
  <2>3. CASE k # 1
    <3>1. k \in 2 .. Len(stk) - 1
      BY <2>3, <1>1
    <3> QED
      BY <2>1, <3>1, <1>2
  <2> QED
    BY <2>2, <2>3
<1>5. d = Left(c)
  <2>1. [k \in 1 .. Len(stk2) |-> ESpot(stk2[k])] = [k \in 1 .. c.depth - 1 |-> c.spots[k + 1]]
    BY <1>1, <1>2, <1>4
  <2>2. Len(stk2) = c.depth - 1 /\ n = c.count
    BY <1>1, <1>2
  <2> QED
    BY <2>1, <2>2 DEF EControl, Left
<1>6. ASSUME NEW k \in 1 .. Len(stk2) PROVE InPlace(p, pl, stk2[k])
  <2>1. k \in 1 .. Len(stk) - 1
    BY <1>2
  <2>2. InPlace(p, pl, stk[k + 1])
    BY <2>1, <1>4 DEF Tracks
  <2>3. /\ stk2[k].call.name = stk[k + 1].call.name /\ stk2[k].call.at = stk[k + 1].call.at
        /\ stk2[k].seg = stk[k + 1].seg
    BY <2>1, <1>4 DEF ESpot, Spot
  <2> QED
    BY <2>1, <2>2, <2>3, <1>4 DEF InPlace
<1>7. stk2 # <<>>
  BY <1>1, <1>2, ListIs
<1>8. d \in R
  BY <1>3, <1>5
<1> QED
  BY <1>2, <1>6, <1>7, <1>8 DEF Tracks
-----------------------------------------------------------------------------

(* Every step but those of Measure.                                        *)
LEMMA OthersLeaveMetrics ==
  ASSUME Register \/ EvaluateXY \/ EvaluateX \/ EvaluateY \/ Stopped \/ UNCHANGED vars
  PROVE  UNCHANGED <<prog, mVars>>
<1>1. CASE Register
  BY <1>1 DEF Register, given
<1>2. CASE EvaluateXY
  <2>1. XY!Next => UNCHANGED prog
    BY DEF XY!Next, XY!Starts, XY!Gates, XY!AssignsExtra, XY!Adds, XY!EnforcesZero,
           XY!EntersRoutine, XY!LeavesRoutine, XY!Finishes, XY!input
  <2> QED
    BY <1>2, <2>1 DEF EvaluateXY
<1>3. CASE EvaluateX
  <2>1. SX!Next => UNCHANGED prog
    BY DEF SX!Next, SX!Starts, SX!Gates, SX!AssignsExtra, SX!Adds, SX!EnforcesZero,
           SX!EntersRoutine, SX!LeavesRoutine, SX!Finishes, SX!input
  <2> QED
    BY <1>3, <2>1 DEF EvaluateX
<1>4. CASE EvaluateY
  <2>1. SY!Next => UNCHANGED prog
    BY DEF SY!Next, SY!StartsAtZero, SY!Starts, SY!Gates, SY!AssignsExtra, SY!Adds,
           SY!EnforcesZero, SY!EntersRoutine, SY!LeavesRoutine, SY!Finishes, SY!Drops,
           SY!WritesView, SY!FreesVirtual, SY!Retires, SY!input
  <2> QED
    BY <1>4, <2>1 DEF EvaluateY
<1>5. CASE Stopped \/ UNCHANGED vars
  BY <1>5 DEF Stopped, vars, given
<1> QED
  BY <1>1, <1>2, <1>3, <1>4, <1>5

(* The totals are an invariant of every step.                              *)
CountInv == /\ prog \in Programs
            /\ M!TotalsAreSums
            /\ phase = "measure" => MeterInv

(* Nothing is counted before the pass begins.                              *)
LEMMA CountStarts == Init => CountInv
BY MeterStarts DEF Init, CountInv

(* The counts stay exact in every step of an evaluation.                   *)
LEMMA CountKeeps == CountInv /\ [Next]_vars => CountInv'
<1> SUFFICES ASSUME CountInv, [Next]_vars PROVE CountInv'
  OBVIOUS
<1>1. prog \in Programs /\ M!TotalsAreSums /\ (phase = "measure" => MeterInv)
  BY DEF CountInv
<1>2. CASE Measure
  <2>1. phase = "measure" /\ M!Next /\ UNCHANGED phase
    BY <1>2 DEF Measure
  <2>2. MeterInv' /\ UNCHANGED prog
    BY ONLY <1>1, <2>1, MeterKeeps
  <2>3. M!TotalsAreSums'
    BY ONLY <1>1, <2>1, MTotals
  <2> QED
    BY <1>1, <2>2, <2>3 DEF CountInv
<1>3. CASE ~Measure
  <2>1. UNCHANGED <<prog, mVars>>
    BY <1>3, OthersLeaveMetrics DEF Next
  <2>2. M!TotalsAreSums' <=> M!TotalsAreSums
    BY <2>1 DEF mVars, M!TotalsAreSums
  <2>3. MeterInv' <=> MeterInv
    BY <2>1 DEF mVars, MeterInv, MeterAt
  <2>4. phase' = "measure" => phase = "measure"
    BY <1>3 DEF Next, Register, EvaluateXY, EvaluateX, EvaluateY, Stopped, vars
  <2> QED
    BY <1>1, <2>1, <2>2, <2>3, <2>4 DEF CountInv
<1> QED
  BY <1>2, <1>3

(* The pass that measures a circuit, by itself: the totals the rank is     *)
(* checked against are the sums of the records at every step               *)
(* (metrics.rs:491-494, floor_planner.rs).                                 *)
THEOREM MetricsTotals == M!Spec => []M!TotalsAreSums
<1> DEFINE Inv == prog \in Programs /\ MeterInv /\ M!TotalsAreSums
<1>1. M!Init => Inv
  BY MeterStarts
<1>2. Inv /\ [M!Next \/ M!Measured]_(M!vars) => Inv'
  <2> SUFFICES ASSUME Inv, [M!Next \/ M!Measured]_(M!vars) PROVE Inv'
    OBVIOUS
  <2>1. CASE M!Next
    <3>1. MeterInv' /\ UNCHANGED prog
      BY <2>1, MeterKeeps
    <3>2. M!TotalsAreSums'
      BY <2>1, MTotals
    <3> QED
      BY <3>1, <3>2
  <2>2. CASE M!Measured \/ UNCHANGED M!vars
    <3>1. UNCHANGED <<prog, mVars>>
      BY <2>2 DEF M!Measured, M!vars, mVars
    <3> QED
      BY <3>1 DEF mVars, M!TotalsAreSums, MeterInv, MeterAt
  <2> QED
    BY <2>1, <2>2
<1>3. Inv => M!TotalsAreSums
  OBVIOUS
<1> HIDE DEF Inv
<1> QED
  BY <1>1, <1>2, <1>3, PTL DEF M!Spec

(* The totals that a circuit's rank is checked against are, at every step  *)
(* of every pass, the sums of the records the floor plan is made of        *)
(* (metrics.rs:491-494, floor_planner.rs).                                 *)
THEOREM Totals == Spec => []TotalsAreSums
<1>1. Spec => []CountInv
  BY CountStarts, CountKeeps, PTL DEF Spec
<1>2. CountInv => TotalsAreSums
  BY DEF CountInv, TotalsAreSums
<1> QED
  BY <1>1, <1>2, PTL
-----------------------------------------------------------------------------
(* A frame of the evaluators at a fixed X = x; and one that has moved on   *)
(* in its body past a call that adds gates and constraints.                *)
PointFrame(f) ==
  /\ {"call", "seg", "gates", "constraints", "monomials"} \subseteq DOMAIN f
  /\ {"name", "at", "extras", "env"} \subseteq DOMAIN f.call
  /\ IsList(f.call.env) /\ f.call.env # <<>> /\ f.call.env[1] = 1
Passed(f, g, gates, constraints) ==
  /\ PointFrame(g) /\ ESpot(g) = Onward(ESpot(f))
  /\ g.gates = f.gates + gates /\ g.constraints = f.constraints + constraints

(* A body binds a wire or three more.                                      *)
LEMMA EnvGrows ==
  ASSUME NEW e, IsList(e), e # <<>>, e[1] = 1, NEW w, IsList(w)
  PROVE  IsList(e \o w) /\ e \o w # <<>> /\ (e \o w)[1] = 1
<1>1. IsList(e \o w) /\ Len(e \o w) = Len(e) + Len(w) /\ \A k \in 1 .. Len(e) : (e \o w)[k] = e[k]
  BY Joined
<1>2. Len(e) \in Nat \ {0} /\ Len(w) \in Nat
  BY ListIs
<1> QED
  BY <1>1, <1>2, ListIs

(* Short lists.                                                            *)
LEMMA ShortLists ==
  \A u, v, w : IsList(<<u>>) /\ IsList(<<u, v, w>>)
<1> SUFFICES ASSUME NEW u, NEW v, NEW w PROVE IsList(<<u>>) /\ IsList(<<u, v, w>>)
  OBVIOUS
<1>1. <<u>> \in Seq({u}) /\ <<u, v, w>> \in Seq({u, v, w})
  OBVIOUS
<1> QED
  BY <1>1, ListOf

(* A call bound to its wires.                                              *)
LEMMA CallBound ==
  ASSUME NEW c, {"name", "at", "extras", "env"} \subseteq DOMAIN c, NEW w, NEW token
  PROVE  /\ {"name", "at", "extras", "env"} \subseteq DOMAIN Bind(c, w)
         /\ Bind(c, w).name = c.name /\ Bind(c, w).at = c.at + 1 /\ Bind(c, w).env = c.env \o w
         /\ {"name", "at", "extras", "env"} \subseteq DOMAIN BindGate(c, w, token)
         /\ BindGate(c, w, token).name = c.name /\ BindGate(c, w, token).at = c.at + 1
         /\ BindGate(c, w, token).env = c.env \o w
         /\ {"name", "at", "extras", "env"} \subseteq DOMAIN Advanced(c)
         /\ Advanced(c).name = c.name /\ Advanced(c).at = c.at + 1 /\ Advanced(c).env = c.env
BY DEF Bind, BindGate, Advanced

(* A frame with its call bound.                                            *)
LEMMA FramePasses ==
  ASSUME NEW f, PointFrame(f), f.gates \in Nat, f.constraints \in Nat,
         NEW g, DOMAIN g = DOMAIN f, g.seg = f.seg,
         NEW i \in Nat, g.gates = f.gates + i, NEW j \in Nat, g.constraints = f.constraints + j,
         NEW w, IsList(w), NEW token,
         g.call \in {Bind(f.call, w), BindGate(f.call, w, token), Advanced(f.call)}
  PROVE  Passed(f, g, i, j)
<1>1. /\ {"name", "at", "extras", "env"} \subseteq DOMAIN g.call
      /\ g.call.name = f.call.name /\ g.call.at = f.call.at + 1
      /\ g.call.env \in {f.call.env, f.call.env \o w}
  <2>1. {"name", "at", "extras", "env"} \subseteq DOMAIN f.call
    BY DEF PointFrame
  <2> DEFINE c == f.call
             b == Bind(c, w)
             d == BindGate(c, w, token)
             e == Advanced(c)
  <2> HIDE DEF c
  <2>2. /\ {"name", "at", "extras", "env"} \subseteq DOMAIN b
        /\ b.name = c.name /\ b.at = c.at + 1 /\ b.env = c.env \o w
        /\ {"name", "at", "extras", "env"} \subseteq DOMAIN d
        /\ d.name = c.name /\ d.at = c.at + 1 /\ d.env = c.env \o w
        /\ {"name", "at", "extras", "env"} \subseteq DOMAIN e
        /\ e.name = c.name /\ e.at = c.at + 1 /\ e.env = c.env
    <3>1. {"name", "at", "extras", "env"} \subseteq DOMAIN c
      BY <2>1 DEF c
    <3> QED
      BY ONLY <3>1, CallBound DEF b, d, e
  <2> DEFINE h == g.call
  <2>3. h \in {b, d, e}
    BY DEF c
  <2> HIDE DEF b, d, e, h
  <2>4. /\ {"name", "at", "extras", "env"} \subseteq DOMAIN h
        /\ h.name = c.name /\ h.at = c.at + 1
        /\ h.env \in {c.env, c.env \o w}
    BY ONLY <2>2, <2>3
  <2> QED
    BY <2>4 DEF h, c
<1>2. IsList(g.call.env) /\ g.call.env # <<>> /\ g.call.env[1] = 1
  <2>1. IsList(f.call.env) /\ f.call.env # <<>> /\ f.call.env[1] = 1
    BY DEF PointFrame
  <2> HIDE DEF PointFrame
  <2>2. IsList(f.call.env \o w) /\ f.call.env \o w # <<>> /\ (f.call.env \o w)[1] = 1
    BY ONLY <2>1, IsList(w), EnvGrows
  <2> QED
    BY <1>1, <2>1, <2>2
<1>3. PointFrame(g)
  BY <1>1, <1>2 DEF PointFrame
<1>4. ESpot(g) = Onward(ESpot(f))
  BY <1>1 DEF ESpot, Onward, Spot
<1> QED
  BY <1>3, <1>4 DEF Passed
-----------------------------------------------------------------------------
(* The walk of an evaluator at a fixed X = x.                              *)
PointWalk(p, pl, R, stk, n) ==
  /\ Tracks(p, pl, R, stk, n)
  /\ \A k \in 1 .. Len(stk) : PointFrame(stk[k])

(* What the walk tells of the frame on top.                                *)
LEMMA PTop ==
  ASSUME NEW p \in Programs, NEW pl, NEW names, NEW R, Registered(p, pl, names, R),
         NEW stk, NEW n, PointWalk(p, pl, R, stk, n)
  PROVE  /\ IsList(stk) /\ stk # <<>> /\ Len(stk) \in Nat \ {0} /\ 1 \in 1 .. Len(stk)
         /\ n \in 1 .. Len(pl) /\ DOMAIN pl = 1 .. Len(pl)
         /\ PointFrame(stk[1]) /\ stk[1].gates \in Nat /\ stk[1].constraints \in Nat
         /\ AtEnd(p, stk[1].call) => Filled(pl, stk[1])
         /\ AtEnd(p, stk[1].call) /\ Len(stk) = 1 => n = Len(pl)
         /\ ~AtEnd(p, stk[1].call) =>
              /\ stk[1].call.name \in Routines
              /\ stk[1].call.at \in 1 .. Len(OpsOf(p, stk[1].call.name))
              /\ NextOp(p, stk[1].call).kind = "gate" => ~NoRoomForGate(N, stk[1])
              /\ NextOp(p, stk[1].call).kind = "enforce_zero" => ~NoRoomForConstraint(N, stk[1])
<1>1. Tracks(p, pl, R, stk, n) /\ \A k \in 1 .. Len(stk) : PointFrame(stk[k])
  BY DEF PointWalk
<1>2. IsList(stk) /\ stk # <<>>
  BY <1>1 DEF Tracks
<1>3. Len(stk) \in Nat \ {0} /\ 1 \in 1 .. Len(stk)
  BY <1>2, ListIs
<1>4. IsList(pl)
  BY DEF Registered
<1>5. DOMAIN pl = 1 .. Len(pl)
  BY ONLY <1>4, ListIs
<1>6. /\ stk[1].gates \in Nat /\ stk[1].constraints \in Nat
      /\ AtEnd(p, stk[1].call) => Filled(pl, stk[1])
      /\ ~AtEnd(p, stk[1].call) =>
              /\ stk[1].call.at \in 1 .. Len(OpsOf(p, stk[1].call.name))
              /\ NextOp(p, stk[1].call).kind = "gate" => ~NoRoomForGate(N, stk[1])
              /\ NextOp(p, stk[1].call).kind = "enforce_zero" => ~NoRoomForConstraint(N, stk[1])
  BY ONLY <1>1, <1>3, p \in Programs, Registered(p, pl, names, R), EFits
<1>7. stk[1].call.name \in Routines
  BY ONLY <1>1, <1>3, p \in Programs, Registered(p, pl, names, R), ESpots
<1>8. n \in 1 .. Len(pl) /\ (AtEnd(p, stk[1].call) /\ Len(stk) = 1 => n = Len(pl))
  BY ONLY <1>1, p \in Programs, Registered(p, pl, names, R), EMoves
<1>9. PointFrame(stk[1])
  BY <1>1, <1>3
<1> QED
  BY ONLY <1>2, <1>3, <1>5, <1>6, <1>7, <1>8, <1>9

(* It begins in a scope of the circuit's own, past the SYSTEM gate.        *)
LEMMA PStarts ==
  ASSUME NEW p \in Programs, NEW pl, NEW names, NEW R, Registered(p, pl, names, R),
         NEW g, PointFrame(g), ESpot(g) = Spot(Main, 1, 1), g.gates = pl[1].gate_start + 1,
         g.constraints = pl[1].constraint_start
  PROVE  PointWalk(p, pl, R, <<g>>, 1)
<1>1. Tracks(p, pl, R, <<g>>, 1)
  BY EStarts
<1>2. IsList(<<g>>) /\ Len(<<g>>) = 1 /\ <<g>>[1] = g
  BY Single
<1>3. \A k \in 1 .. Len(<<g>>) : k = 1
  BY <1>2
<1> QED
  BY <1>1, <1>2, <1>3 DEF PointWalk

(* It goes on past a gate, a constraint, or a call that is neither.        *)
LEMMA PGoesOn ==
  ASSUME NEW p \in Programs, NEW pl, NEW names, NEW R, Registered(p, pl, names, R),
         NEW stk, NEW n, PointWalk(p, pl, R, stk, n),
         ~AtEnd(p, stk[1].call), NEW kind, kind = NextOp(p, stk[1].call).kind, kind # "routine",
         NEW g, Passed(stk[1], g, IF kind = "gate" THEN 1 ELSE 0, IF kind = "enforce_zero" THEN 1 ELSE 0)
  PROVE  PointWalk(p, pl, R, [stk EXCEPT ![1] = g], n)
<1> DEFINE stk2 == [stk EXCEPT ![1] = g]
<1>1. Tracks(p, pl, R, stk, n) /\ \A k \in 1 .. Len(stk) : PointFrame(stk[k])
  BY DEF PointWalk
<1>2. IsList(stk) /\ stk # <<>>
  BY <1>1 DEF Tracks
<1>3. Retopped(stk2, g, stk)
  BY <1>2, Replaced
<1> HIDE DEF stk2
<1>4. /\ PointFrame(g) /\ ESpot(g) = Onward(ESpot(stk[1]))
      /\ g.gates = stk[1].gates + (IF kind = "gate" THEN 1 ELSE 0)
      /\ g.constraints = stk[1].constraints + (IF kind = "enforce_zero" THEN 1 ELSE 0)
  BY DEF Passed
<1>5. Tracks(p, pl, R, stk2, n)
  BY ONLY <1>1, <1>3, <1>4, p \in Programs, Registered(p, pl, names, R), ~AtEnd(p, stk[1].call),
          kind = NextOp(p, stk[1].call).kind, kind # "routine", EGoesOn
<1>6. Len(stk2) = Len(stk) /\ stk2[1] = g /\ \A k \in 2 .. Len(stk) : stk2[k] = stk[k]
  BY <1>3 DEF Retopped
<1>7. Len(stk) \in Nat
  BY <1>2, ListIs
<1>8. ASSUME NEW k \in 1 .. Len(stk2) PROVE PointFrame(stk2[k])
  <2>1. CASE k = 1
    BY <2>1, <1>4, <1>6
  <2>2. CASE k # 1
    <3>1. k \in 2 .. Len(stk) /\ k \in 1 .. Len(stk)
      BY <2>2, <1>6, <1>7
    <3> QED
      BY <3>1, <1>1, <1>6
  <2> QED
    BY <2>1, <2>2
<1> QED
  BY <1>5, <1>8 DEF PointWalk, stk2

(* Its caller is past the call it makes.                                   *)
LEMMA CallerAdvanced ==
  ASSUME NEW stk, IsList(stk), stk # <<>>, PointFrame(stk[1]),
         stk[1].gates \in Nat, stk[1].constraints \in Nat
  PROVE  /\ Passed(stk[1], [stk[1] EXCEPT !.call = Advanced(stk[1].call)], 0, 0)
         /\ [stk EXCEPT ![1].call = Advanced(@)]
              = [stk EXCEPT ![1] = [stk[1] EXCEPT !.call = Advanced(stk[1].call)]]
<1>1. DOMAIN stk = 1 .. Len(stk) /\ Len(stk) \in Nat \ {0}
  BY ListIs
<1> DEFINE f == stk[1]
           h == [f EXCEPT !.call = Advanced(f.call)]
<1>2. PointFrame(f) /\ f.gates \in Nat /\ f.constraints \in Nat
  OBVIOUS
<1> HIDE DEF f
<1>3. DOMAIN h = DOMAIN f /\ h.seg = f.seg /\ h.gates = f.gates /\ h.constraints = f.constraints
      /\ h.call = Advanced(f.call)
  BY <1>2 DEF PointFrame
<1> HIDE DEF h
<1>4. h.gates = f.gates + 0 /\ h.constraints = f.constraints + 0
  BY <1>2, <1>3
<1>5. IsList(<<>>)
  <2>1. <<>> \in Seq({})
    OBVIOUS
  <2> QED
    BY <2>1, ListOf
<1>6. Passed(f, h, 0, 0)
  <2> DEFINE zero == 0
             w == <<>>
  <2>1. zero \in Nat /\ h.gates = f.gates + zero /\ h.constraints = f.constraints + zero /\ IsList(w)
    BY <1>4, <1>5
  <2> HIDE DEF zero, w
  <2>2. Passed(f, h, zero, zero)
    BY ONLY <2>1, <1>2, <1>3, FramePasses
  <2> QED
    BY <2>2 DEF zero
<1>7. [stk EXCEPT ![1].call = Advanced(@)] = [stk EXCEPT ![1] = h]
  BY <1>1 DEF h, f
<1> QED
  BY <1>6, <1>7 DEF f, h

(* It enters a routine, in the segment next in order.                      *)
LEMMA PEnters ==
  ASSUME NEW p \in Programs, NEW pl, NEW names, NEW R, Registered(p, pl, names, R),
         NEW stk, NEW n, PointWalk(p, pl, R, stk, n),
         ~AtEnd(p, stk[1].call), NextOp(p, stk[1].call).kind = "routine"
  PROVE  /\ n + 1 \in DOMAIN pl
         /\ \A g : /\ PointFrame(g)
                   /\ ESpot(g) = Spot(NextOp(p, stk[1].call).name, 1, n + 1)
                   /\ g.gates = pl[n + 1].gate_start /\ g.constraints = pl[n + 1].constraint_start
                   => PointWalk(p, pl, R, <<g>> \o [stk EXCEPT ![1].call = Advanced(@)], n + 1)
<1>1. Tracks(p, pl, R, stk, n) /\ \A k \in 1 .. Len(stk) : PointFrame(stk[k])
  BY DEF PointWalk
<1>2. /\ IsList(stk) /\ stk # <<>> /\ Len(stk) \in Nat \ {0} /\ DOMAIN pl = 1 .. Len(pl)
      /\ PointFrame(stk[1]) /\ stk[1].gates \in Nat /\ stk[1].constraints \in Nat
  BY PTop
<1> DEFINE b == NextOp(p, stk[1].call).name
           h == [stk[1] EXCEPT !.call = Advanced(stk[1].call)]
           under == [stk EXCEPT ![1].call = Advanced(@)]
<1>3. Passed(stk[1], h, 0, 0) /\ under = [stk EXCEPT ![1] = h]
  BY ONLY <1>2, CallerAdvanced
<1> HIDE DEF h, under
<1>4. /\ n + 1 \in 1 .. Len(pl)
      /\ \A g, hh, stk2 :
              /\ Stacked(stk2, g, hh, stk)
              /\ ESpot(g) = Spot(b, 1, n + 1)
              /\ g.gates = pl[n + 1].gate_start /\ g.constraints = pl[n + 1].constraint_start
              /\ ESpot(hh) = Onward(ESpot(stk[1]))
              /\ hh.gates = stk[1].gates /\ hh.constraints = stk[1].constraints
              => Tracks(p, pl, R, stk2, n + 1)
  BY ONLY <1>1, p \in Programs, Registered(p, pl, names, R), ~AtEnd(p, stk[1].call),
          NextOp(p, stk[1].call).kind = "routine", EEnters
<1> HIDE DEF b
<1>5. /\ PointFrame(h) /\ ESpot(h) = Onward(ESpot(stk[1]))
      /\ h.gates = stk[1].gates /\ h.constraints = stk[1].constraints
  BY <1>2, <1>3 DEF Passed
<1>6. ASSUME NEW g, PointFrame(g), ESpot(g) = Spot(b, 1, n + 1),
             g.gates = pl[n + 1].gate_start, g.constraints = pl[n + 1].constraint_start
      PROVE  PointWalk(p, pl, R, <<g>> \o under, n + 1)
  <2> DEFINE stk2 == <<g>> \o under
  <2>1. Stacked(<<g>> \o [stk EXCEPT ![1] = h], g, h, stk)
    BY ONLY <1>2, PushedOver
  <2>2. Stacked(stk2, g, h, stk)
    BY <2>1, <1>3
  <2> HIDE DEF stk2
  <2>3. Tracks(p, pl, R, stk2, n + 1)
    BY ONLY <1>4, <1>5, <1>6, <2>2
  <2>4. /\ Len(stk2) = Len(stk) + 1 /\ stk2[1] = g /\ stk2[2] = h
        /\ \A k \in 3 .. Len(stk) + 1 : stk2[k] = stk[k - 1]
    BY <2>2 DEF Stacked
  <2>5. ASSUME NEW k \in 1 .. Len(stk2) PROVE PointFrame(stk2[k])
    <3>1. CASE k = 1
      BY <3>1, <1>6, <2>4
    <3>2. CASE k = 2
      BY <3>2, <1>5, <2>4
    <3>3. CASE k # 1 /\ k # 2
      <4>1. k \in 3 .. Len(stk) + 1 /\ k - 1 \in 1 .. Len(stk)
        BY <3>3, <1>2, <2>4
      <4> QED
        BY <4>1, <1>1, <2>4
    <3> QED
      BY <3>1, <3>2, <3>3
  <2> QED
    BY <2>3, <2>5 DEF PointWalk, stk2
<1> QED
  BY <1>2, <1>4, <1>6 DEF b, under

(* It leaves a routine, whose outputs its caller gets.                     *)
LEMMA PLeaves ==
  ASSUME NEW p \in Programs, NEW pl, NEW names, NEW R, Registered(p, pl, names, R),
         NEW stk, NEW n, PointWalk(p, pl, R, stk, n),
         AtEnd(p, stk[1].call), Len(stk) > 1,
         NEW g, PointFrame(g), ESpot(g) = ESpot(stk[2]),
         g.gates = stk[2].gates, g.constraints = stk[2].constraints
  PROVE  PointWalk(p, pl, R, [Tail(stk) EXCEPT ![1] = g], n)
<1> DEFINE stk2 == [Tail(stk) EXCEPT ![1] = g]
<1>1. Tracks(p, pl, R, stk, n) /\ \A k \in 1 .. Len(stk) : PointFrame(stk[k])
  BY DEF PointWalk
<1>2. IsList(stk)
  BY <1>1 DEF Tracks
<1>3. Unstacked(stk2, g, stk)
  BY <1>2, PoppedOver
<1> HIDE DEF stk2
<1>4. Tracks(p, pl, R, stk2, n)
  BY ONLY <1>1, <1>3, p \in Programs, Registered(p, pl, names, R), AtEnd(p, stk[1].call), Len(stk) > 1,
          ESpot(g) = ESpot(stk[2]), g.gates = stk[2].gates, g.constraints = stk[2].constraints, ELeaves
<1>5. /\ Len(stk2) = Len(stk) - 1 /\ stk2[1] = g
      /\ \A k \in 2 .. Len(stk) - 1 : stk2[k] = stk[k + 1]
  BY <1>3 DEF Unstacked
<1>6. Len(stk) \in Nat
  BY <1>2, ListIs
<1>7. ASSUME NEW k \in 1 .. Len(stk2) PROVE PointFrame(stk2[k])
  <2>1. CASE k = 1
    BY <2>1, <1>5
  <2>2. CASE k # 1
    <3>1. k \in 2 .. Len(stk) - 1 /\ k + 1 \in 1 .. Len(stk)
      BY <2>2, <1>5, <1>6
    <3> QED
      BY <3>1, <1>1, <1>5
  <2> QED
    BY <2>1, <2>2
<1> QED
  BY <1>4, <1>7 DEF PointWalk, stk2
-----------------------------------------------------------------------------
(* The wires a call passes on and a body returns.                          *)
LEMMA WiresPassed ==
  ASSUME NEW p \in Programs, NEW r \in Routines
  PROVE  /\ \A f : f.name = r => IsList(OutputWires(p, f))
         /\ \A f : \A i \in 1 .. Len(OpsOf(p, r)) :
              OpsOf(p, r)[i].kind = "routine" => IsList(InputWires(f, OpsOf(p, r)[i]))
<1>1. p \in [Routines -> Body]
  BY CircuitAssumption
<1>2. p[r].outs \in Seq(Nat \ {0})
  BY <1>1 DEF Body
<1>3. ASSUME NEW f, f.name = r PROVE IsList(OutputWires(p, f))
  <2> DEFINE o == p[r].outs
             w == OutputWires(p, f)
  <2>1. o \in Seq(Nat \ {0})
    BY <1>2
  <2>2. w = [k \in DOMAIN o |-> f.env[o[k]]]
    BY <1>3 DEF OutputWires
  <2> HIDE DEF o, w
  <2>3. w \in Seq({ w[k] : k \in DOMAIN o })
    BY ONLY <2>1, <2>2
  <2> QED
    BY <2>3, ListOf DEF w
<1>4. ASSUME NEW f, NEW i \in 1 .. Len(OpsOf(p, r)), OpsOf(p, r)[i].kind = "routine"
      PROVE  IsList(InputWires(f, OpsOf(p, r)[i]))
  <2> DEFINE op == OpsOf(p, r)[i]
             o == op.args
             w == InputWires(f, op)
  <2>1. op \in Op
    <3>1. OpsOf(p, r) \in Seq(Op)
      BY OpsAre
    <3> QED
      BY <3>1
  <2>2. o \in Seq(Nat \ {0})
    <3>1. op.kind = "routine"
      BY <1>4
    <3> HIDE DEF op
    <3>2. op \in RoutineOp
      BY <2>1, <3>1 DEF Op, GateOp, AssignExtraOp, LinearOp, RoutineOp
    <3> QED
      BY <3>2 DEF RoutineOp, o
  <2>3. w = [k \in DOMAIN o |-> f.env[o[k]]]
    BY DEF InputWires
  <2> HIDE DEF o, w, op
  <2>4. w \in Seq({ w[k] : k \in DOMAIN o })
    BY ONLY <2>2, <2>3
  <2> QED
    BY <2>4, ListOf DEF w, op
<1> QED
  BY <1>3, <1>4

(* A frame that has just begun.                                            *)
LEMMA FrameBegins ==
  ASSUME NEW f, {"call", "seg", "gates", "constraints", "monomials"} \subseteq DOMAIN f,
         NEW name, NEW inputs, IsList(inputs), f.call = NewCallFrame(name, 1, inputs)
  PROVE  PointFrame(f) /\ ESpot(f) = Spot(name, 1, f.seg)
<1>1. /\ {"name", "at", "extras", "env"} \subseteq DOMAIN f.call
      /\ f.call.name = name /\ f.call.at = 1 /\ f.call.env = <<1>> \o inputs
  BY DEF NewCallFrame
<1>2. IsList(<<1>> \o inputs) /\ <<1>> \o inputs # <<>> /\ (<<1>> \o inputs)[1] = 1
  <2> DEFINE u == <<1>>
  <2>1. IsList(u) /\ Len(u) = 1 /\ u[1] = 1
    BY Single
  <2>2. u # <<>>
    BY <2>1, ListIs
  <2> HIDE DEF u
  <2>3. IsList(u \o inputs) /\ u \o inputs # <<>> /\ (u \o inputs)[1] = 1
    BY <2>1, <2>2, EnvGrows
  <2> QED
    BY <2>3 DEF u
<1> QED
  BY <1>1, <1>2 DEF PointFrame, ESpot, Spot

(* A frame whose body got outputs.                                         *)
LEMMA FrameGets ==
  ASSUME NEW f, PointFrame(f), NEW w, IsList(w),
         NEW g, DOMAIN g = DOMAIN f, g.seg = f.seg, g.gates = f.gates, g.constraints = f.constraints,
         g.call = [f.call EXCEPT !.env = f.call.env \o w]
  PROVE  PointFrame(g) /\ ESpot(g) = ESpot(f)
<1>1. /\ {"name", "at", "extras", "env"} \subseteq DOMAIN g.call
      /\ g.call.name = f.call.name /\ g.call.at = f.call.at
      /\ g.call.env = f.call.env \o w
  BY DEF PointFrame
<1>2. IsList(f.call.env) /\ f.call.env # <<>> /\ f.call.env[1] = 1
  BY DEF PointFrame
<1>3. IsList(f.call.env \o w) /\ f.call.env \o w # <<>> /\ (f.call.env \o w)[1] = 1
  BY ONLY <1>2, IsList(w), EnvGrows
<1> QED
  BY <1>1, <1>3 DEF PointFrame, ESpot, Spot
-----------------------------------------------------------------------------
(* The bodies of sxy are those of the circuit.                             *)
LEMMA XYBodies ==
  \A p, f : /\ XY!AtEnd(p, f) <=> AtEnd(p, f)
            /\ XY!NextOp(p, f) = NextOp(p, f)
            /\ \A kind : XY!AboutTo(p, f, kind) <=> ~AtEnd(p, f) /\ NextOp(p, f).kind = kind
            /\ XY!OutputWires(p, f) = OutputWires(p, f)
            /\ \A op : XY!InputWires(f, op) = InputWires(f, op)
            /\ \A pl, g : XY!Filled(pl, g) <=> Filled(pl, g)
            /\ \A g : /\ XY!NoRoomForGate(N, g) <=> NoRoomForGate(N, g)
                      /\ XY!NoRoomForConstraint(N, g) <=> NoRoomForConstraint(N, g)
BY DEF XY!AtEnd, XY!NextOp, XY!AboutTo, XY!OpsOf, XY!Main, XY!EnforceZero, XY!OutputWires,
       XY!InputWires, XY!Filled, XY!NoRoomForGate, XY!NoRoomForConstraint,
       AtEnd, NextOp, OpsOf, Main, EnforceZero, OutputWires, InputWires, Filled, NoRoomForGate,
       NoRoomForConstraint

(* Its operations move the frame on top on.                                *)
LEMMA XYPasses ==
  ASSUME NEW f, PointFrame(f), f.gates \in Nat, f.constraints \in Nat, NEW op, NEW z
  PROVE  /\ Passed(f, XY!WithGate(f, z), 1, 0)
         /\ Passed(f, XY!WithExtra(f, op, z), 0, 0)
         /\ Passed(f, XY!WithSum(f, op), 0, 0)
<1> DEFINE zero == 0
           one == 1
<1>0. /\ zero \in Nat /\ one \in Nat /\ one = 1
      /\ f.gates + zero = f.gates /\ f.constraints + zero = f.constraints
      /\ \A u : IsList(<<u>>)
  <2>1. \A u : IsList(<<u>>)
    BY ShortLists
  <2> QED
    BY <2>1
<1> HIDE DEF zero, one
<1>1. Passed(f, XY!WithGate(f, z), one, zero)
  <2> DEFINE g == XY!WithGate(f, z)
             m == f.monomials
             w == <<m.a, m.b, m.c>>
  <2>1. DOMAIN g = DOMAIN f /\ g.seg = f.seg /\ g.gates = f.gates + one /\ g.constraints = f.constraints
        /\ g.call = BindGate(f.call, w, m.a)
    BY <1>0 DEF PointFrame, XY!WithGate, XY!GateTaken, XY!BindGate, BindGate
  <2>2. IsList(w)
    BY ShortLists
  <2> DEFINE token == m.a
  <2> HIDE DEF g, w, m, token
  <2>3. g.call = BindGate(f.call, w, token)
    BY <2>1 DEF token
  <2>4. /\ DOMAIN g = DOMAIN f /\ g.seg = f.seg /\ g.gates = f.gates + one
        /\ g.constraints = f.constraints + zero
        /\ g.call \in {Bind(f.call, w), BindGate(f.call, w, token), Advanced(f.call)}
    BY ONLY <1>0, <2>1, <2>3
  <2>6. IsList(w)
    BY <2>2 DEF w, m
  <2>7. one \in Nat /\ zero \in Nat
    BY <1>0
  <2>5. Passed(f, g, one, zero)
    BY ONLY <2>6, <2>4, <2>7, PointFrame(f), f.gates \in Nat, f.constraints \in Nat, FramePasses, SMTT(30)
  <2> QED
    BY <2>5 DEF g
<1>2. Passed(f, XY!WithExtra(f, op, z), zero, zero)
  <2> DEFINE g == XY!WithExtra(f, op, z)
             w == <<XY!Times(f.call.extras[op.gate], XY!AToD(z))>>
  <2>1. DOMAIN g = DOMAIN f /\ g.seg = f.seg /\ g.gates = f.gates /\ g.constraints = f.constraints
        /\ g.call = Bind(f.call, w)
    BY DEF PointFrame, XY!WithExtra, XY!Bind, XY!Advanced, Bind, Advanced
  <2>2. IsList(w)
    BY <1>0
  <2> HIDE DEF g, w
  <2>4. Passed(f, g, zero, zero)
    BY ONLY <1>0, <2>1, <2>2, PointFrame(f), f.gates \in Nat, f.constraints \in Nat, FramePasses
  <2> QED
    BY <2>4 DEF g
<1>3. Passed(f, XY!WithSum(f, op), zero, zero)
  <2> DEFINE g == XY!WithSum(f, op)
             w == <<XY!DirectSum(op.lc, f.call.env)>>
  <2>1. DOMAIN g = DOMAIN f /\ g.seg = f.seg /\ g.gates = f.gates /\ g.constraints = f.constraints
        /\ g.call = Bind(f.call, w)
    BY DEF PointFrame, XY!WithSum, XY!Bind, XY!Advanced, Bind, Advanced
  <2>2. IsList(w)
    BY <1>0
  <2> HIDE DEF g, w
  <2>4. Passed(f, g, zero, zero)
    BY ONLY <1>0, <2>1, <2>2, PointFrame(f), f.gates \in Nat, f.constraints \in Nat, FramePasses
  <2> QED
    BY <2>4 DEF g
<1> QED
  BY <1>1, <1>2, <1>3 DEF zero, one
(* The invariant of sxy: it is on the walk of the circuit.                 *)
XYInv(R) ==
  /\ xy_pc \in Progressing /\ xy_routine \in Nat
  /\ xy_pc = "idle" => xy_routine = 0
  /\ xy_pc = "run" => PointWalk(prog, plan, R, xy_stack, xy_routine + 1)

(* The circuit's own scope.                                                *)
LEMMA XYStarts ==
  ASSUME prog \in Programs, NEW names, NEW R, Registered(prog, plan, names, R), XYInv(R), XY!Starts
  PROVE  XYInv(R)'
<1> DEFINE g == XY!GateTaken(XY!Scope(1, Main, <<>>), x)
<1>1. xy_pc' = "run" /\ xy_stack' = <<g>> /\ xy_routine' = xy_routine /\ prog' = prog /\ plan' = plan
      /\ xy_routine = 0
  BY DEF XYInv, XY!Starts, XY!input, XY!Main, Main
<1>2. /\ {"call", "seg", "gates", "constraints", "monomials"} \subseteq DOMAIN g
      /\ g.call = NewCallFrame(Main, 1, <<>>) /\ g.seg = 1
      /\ g.gates = plan[1].gate_start + 1 /\ g.constraints = plan[1].constraint_start
  BY DEF XY!GateTaken, XY!Scope, XY!NewScope, XY!NewCallFrame, NewCallFrame
<1> HIDE DEF g
<1> DEFINE nothing == <<>>
<1>3. IsList(nothing)
  <2>1. <<>> \in Seq({})
    OBVIOUS
  <2> QED
    BY <2>1, ListOf
<1>4. g.call = NewCallFrame(Main, 1, nothing)
  BY <1>2
<1> HIDE DEF nothing
<1>5. PointFrame(g) /\ ESpot(g) = Spot(Main, 1, g.seg)
  BY ONLY <1>2, <1>3, <1>4, FrameBegins
<1>6. PointWalk(prog, plan, R, <<g>>, 1)
  <2>1. ESpot(g) = Spot(Main, 1, 1)
    BY <1>2, <1>5
  <2> QED
    BY ONLY <1>2, <1>5, <2>1, prog \in Programs, Registered(prog, plan, names, R), PStarts
<1> QED
  BY <1>1, <1>6 DEF XYInv, Progressing

(* Every call but a routine.                                               *)
LEMMA XYGoesOn ==
  ASSUME prog \in Programs, NEW names, NEW R, Registered(prog, plan, names, R), XYInv(R),
         XY!Gates \/ XY!AssignsExtra \/ XY!Adds \/ XY!EnforcesZero
  PROVE  XYInv(R)'
<1> DEFINE f == xy_stack[1]
           n == xy_routine + 1
           kind == NextOp(prog, f.call).kind
           op == NextOp(prog, f.call)
<1>1. /\ xy_pc = "run" /\ xy_routine' = xy_routine /\ prog' = prog /\ plan' = plan
      /\ ~AtEnd(prog, f.call) /\ kind # "routine"
  BY XYBodies DEF XY!Gates, XY!AssignsExtra, XY!Adds, XY!EnforcesZero, XY!Running, XY!Top, XY!input
<1>2. PointWalk(prog, plan, R, xy_stack, n)
  BY <1>1 DEF XYInv
<1> HIDE DEF n, f, kind
<1>3. /\ PointFrame(f) /\ f.gates \in Nat /\ f.constraints \in Nat
      /\ kind = "gate" => ~NoRoomForGate(N, f)
      /\ kind = "enforce_zero" => ~NoRoomForConstraint(N, f)
  <2>1. /\ PointFrame(f) /\ f.gates \in Nat /\ f.constraints \in Nat
        /\ ~AtEnd(prog, f.call) =>
              /\ NextOp(prog, f.call).kind = "gate" => ~NoRoomForGate(N, f)
              /\ NextOp(prog, f.call).kind = "enforce_zero" => ~NoRoomForConstraint(N, f)
    BY ONLY prog \in Programs, Registered(prog, plan, names, R), <1>2, PTop DEF f
  <2> QED
    BY <1>1, <2>1 DEF kind
<1>4. \E g : /\ Passed(f, g, IF kind = "gate" THEN 1 ELSE 0, IF kind = "enforce_zero" THEN 1 ELSE 0)
             /\ xy_stack' = [xy_stack EXCEPT ![1] = g] /\ xy_pc' = xy_pc
  <2>1. CASE XY!Gates
    <3>1. kind = "gate"
      BY <2>1, XYBodies DEF XY!Gates, XY!Running, XY!Top, kind, f
    <3>2. xy_stack' = [xy_stack EXCEPT ![1] = XY!WithGate(f, x)] /\ xy_pc' = xy_pc
      BY <2>1, <3>1, <1>3, XYBodies DEF XY!Gates, XY!Go, XY!SetTop, XY!Top, f
    <3>3. Passed(f, XY!WithGate(f, x), 1, 0)
      BY <1>3, XYPasses
    <3> QED
      BY <3>1, <3>2, <3>3
  <2>2. CASE XY!AssignsExtra
    <3>1. kind = "assign_extra"
      BY <2>2, XYBodies DEF XY!AssignsExtra, XY!Running, XY!Top, kind, f
    <3>2. xy_stack' = [xy_stack EXCEPT ![1] = XY!WithExtra(f, op, x)] /\ xy_pc' = xy_pc
      BY <2>2, XYBodies DEF XY!AssignsExtra, XY!Go, XY!SetTop, XY!Top, XY!NextCall, f
    <3>3. Passed(f, XY!WithExtra(f, op, x), 0, 0)
      BY <1>3, XYPasses
    <3> QED
      BY <3>1, <3>2, <3>3
  <2>3. CASE XY!Adds
    <3>1. kind = "add"
      BY <2>3, XYBodies DEF XY!Adds, XY!Running, XY!Top, kind, f
    <3>2. xy_stack' = [xy_stack EXCEPT ![1] = XY!WithSum(f, op)] /\ xy_pc' = xy_pc
      BY <2>3, XYBodies DEF XY!Adds, XY!Go, XY!SetTop, XY!Top, XY!NextCall, f
    <3>3. Passed(f, XY!WithSum(f, op), 0, 0)
      BY <1>3, XYPasses
    <3> QED
      BY <3>1, <3>2, <3>3
  <2>4. CASE XY!EnforcesZero
    <3> DEFINE g == [f EXCEPT !.constraints = f.constraints + 1,
                              !.result = XY!Plus(XY!Times(f.result, y), XY!DirectSum(op.lc, f.call.env)),
                              !.call = Advanced(f.call)]
    <3>1. kind = "enforce_zero"
      BY <2>4, XYBodies DEF XY!EnforcesZero, XY!Running, XY!Top, kind, f
    <3>2. xy_stack' = [xy_stack EXCEPT ![1] = g] /\ xy_pc' = xy_pc
      BY <2>4, <3>1, <1>3, XYBodies
         DEF XY!EnforcesZero, XY!Go, XY!SetTop, XY!Top, XY!NextCall, f, XY!Advanced, Advanced
    <3>3. Passed(f, g, 0, 1)
      <4>1. DOMAIN g = DOMAIN f /\ g.seg = f.seg /\ g.gates = f.gates /\ g.constraints = f.constraints + 1
            /\ g.call = Advanced(f.call)
        BY <1>3 DEF PointFrame
      <4> HIDE DEF g
      <4> DEFINE zero == 0
                 one == 1
                 w == <<>>
      <4>2. zero \in Nat /\ one \in Nat /\ g.gates = f.gates + zero /\ g.constraints = f.constraints + one
        BY <4>1, <1>3
      <4>3. w \in Seq({})
        OBVIOUS
      <4> HIDE DEF zero, one, w
      <4>4. IsList(w)
        BY <4>3, ListOf
      <4>5. Passed(f, g, zero, one)
        BY ONLY <4>1, <4>2, <4>4, <1>3, FramePasses
      <4> QED
        BY <4>5 DEF zero, one
    <3> HIDE DEF g
    <3> QED
      BY <3>1, <3>2, <3>3
  <2> QED
    BY <2>1, <2>2, <2>3, <2>4
<1>5. PICK g : /\ Passed(f, g, IF kind = "gate" THEN 1 ELSE 0, IF kind = "enforce_zero" THEN 1 ELSE 0)
               /\ xy_stack' = [xy_stack EXCEPT ![1] = g] /\ xy_pc' = xy_pc
  BY <1>4
<1>6. PointWalk(prog, plan, R, [xy_stack EXCEPT ![1] = g], n)
  <2>1. ~AtEnd(prog, xy_stack[1].call) /\ kind = NextOp(prog, xy_stack[1].call).kind /\ kind # "routine"
        /\ Passed(xy_stack[1], g, IF kind = "gate" THEN 1 ELSE 0, IF kind = "enforce_zero" THEN 1 ELSE 0)
    BY <1>1, <1>5 DEF f, kind
  <2> QED
    BY ONLY prog \in Programs, Registered(prog, plan, names, R), <1>2, <2>1, PGoesOn
<1> QED
  BY <1>1, <1>5, <1>6 DEF XYInv, Progressing, n

(* A routine entered.                                                      *)
LEMMA XYEnters ==
  ASSUME prog \in Programs, NEW names, NEW R, Registered(prog, plan, names, R), XYInv(R),
         XY!EntersRoutine
  PROVE  XYInv(R)'
<1> DEFINE f == xy_stack[1]
           n == xy_routine + 1
           op == NextOp(prog, f.call)
           inputs == InputWires(f.call, op)
           g == XY!Scope(n + 1, op.name, inputs)
<1>1. /\ xy_pc = "run" /\ xy_routine' = xy_routine + 1 /\ prog' = prog /\ plan' = plan
      /\ ~AtEnd(prog, f.call) /\ op.kind = "routine"
  BY XYBodies DEF XY!EntersRoutine, XY!Running, XY!Top, XY!input
<1>2. PointWalk(prog, plan, R, xy_stack, n)
  BY <1>1 DEF XYInv
<1>3. f.call.name \in Routines /\ f.call.at \in 1 .. Len(OpsOf(prog, f.call.name))
  <2> HIDE DEF n
  <2>1. ~AtEnd(prog, xy_stack[1].call) =>
             xy_stack[1].call.name \in Routines
             /\ xy_stack[1].call.at \in 1 .. Len(OpsOf(prog, xy_stack[1].call.name))
    BY ONLY prog \in Programs, Registered(prog, plan, names, R), <1>2, PTop
  <2> HIDE DEF op
  <2> QED
    BY <1>1, <2>1
<1>4. /\ n + 1 \in DOMAIN plan
      /\ \A h : /\ PointFrame(h) /\ ESpot(h) = Spot(op.name, 1, n + 1)
                /\ h.gates = plan[n + 1].gate_start /\ h.constraints = plan[n + 1].constraint_start
                => PointWalk(prog, plan, R, <<h>> \o [xy_stack EXCEPT ![1].call = Advanced(@)], n + 1)
  <2> HIDE DEF n
  <2>1. ~AtEnd(prog, xy_stack[1].call) /\ NextOp(prog, xy_stack[1].call).kind = "routine"
    BY <1>1
  <2> QED
    BY ONLY prog \in Programs, Registered(prog, plan, names, R), <1>2, <2>1, PEnters
<1>5. n + 1 = xy_routine + 2
  <2>1. xy_routine \in Nat
    BY DEF XYInv
  <2> QED
    BY <2>1
<1>6. xy_stack' = <<g>> \o [xy_stack EXCEPT ![1].call = Advanced(@)] /\ xy_pc' = xy_pc
  <2> HIDE DEF n
  <2> QED
    BY <1>4, <1>5, XYBodies DEF XY!EntersRoutine, XY!Top, XY!NextCall, XY!Advanced, Advanced
<1>7. IsList(inputs)
  BY <1>1, <1>3, WiresPassed DEF NextOp
<1>8. /\ {"call", "seg", "gates", "constraints", "monomials"} \subseteq DOMAIN g
      /\ g.call = NewCallFrame(op.name, 1, inputs) /\ g.seg = n + 1
      /\ g.gates = plan[n + 1].gate_start /\ g.constraints = plan[n + 1].constraint_start
  <2> HIDE DEF n, inputs, op
  <2> QED
    BY DEF XY!Scope, XY!NewScope, XY!NewCallFrame, NewCallFrame
<1> HIDE DEF g, inputs, op, n, f
<1>9. PointFrame(g) /\ ESpot(g) = Spot(op.name, 1, g.seg)
  BY ONLY <1>7, <1>8, FrameBegins
<1>10. PointWalk(prog, plan, R, <<g>> \o [xy_stack EXCEPT ![1].call = Advanced(@)], n + 1)
  BY <1>4, <1>8, <1>9
<1>11. xy_routine' + 1 = n + 1
  BY <1>1 DEF n
<1> QED
  BY <1>1, <1>6, <1>10, <1>11 DEF XYInv, Progressing

(* A routine left, and the circuit's end.                                  *)
LEMMA XYLeaves ==
  ASSUME prog \in Programs, NEW names, NEW R, Registered(prog, plan, names, R), XYInv(R),
         XY!LeavesRoutine \/ XY!Finishes
  PROVE  XYInv(R)'
<1> DEFINE f == xy_stack[1]
           n == xy_routine + 1
<1>1. xy_pc = "run" /\ AtEnd(prog, f.call) /\ prog' = prog /\ plan' = plan /\ xy_routine' = xy_routine
  BY XYBodies DEF XY!LeavesRoutine, XY!Finishes, XY!Top, XY!input
<1>2. PointWalk(prog, plan, R, xy_stack, n)
  BY <1>1 DEF XYInv
<1> HIDE DEF n
<1>3. /\ IsList(xy_stack) /\ xy_stack # <<>> /\ Len(xy_stack) \in Nat \ {0}
      /\ AtEnd(prog, f.call) => Filled(plan, f)
      /\ AtEnd(prog, f.call) /\ Len(xy_stack) = 1 => n = Len(plan)
  BY ONLY prog \in Programs, Registered(prog, plan, names, R), <1>2, PTop
<1>4. CASE XY!LeavesRoutine
  <2> DEFINE h == xy_stack[2]
             w == OutputWires(prog, f.call)
             g == [XY!WithOutputs(h, prog, f) EXCEPT !.sum = XY!Plus(@, XY!Contribution(f))]
  <2>1. Len(xy_stack) > 1
    BY <1>4 DEF XY!LeavesRoutine
  <2>2. xy_stack' = [Tail(xy_stack) EXCEPT ![1] = g] /\ xy_pc' = xy_pc
    BY <1>1, <1>3, <1>4, XYBodies DEF XY!LeavesRoutine, XY!Top
  <2>3. 1 \in 1 .. Len(xy_stack) /\ 2 \in 1 .. Len(xy_stack)
    BY <1>3, <2>1
  <2>4. PointFrame(h) /\ f.call.name \in Routines
    <3>1. PointFrame(h)
      BY <1>2, <2>3 DEF PointWalk
    <3>2. Tracks(prog, plan, R, xy_stack, n)
      BY <1>2 DEF PointWalk
    <3>3. xy_stack[1].call.name \in Routines
      BY ONLY <2>3, <3>2, prog \in Programs, Registered(prog, plan, names, R), ESpots
    <3> QED
      BY <3>1, <3>3
  <2>5. IsList(w)
    BY <2>4, WiresPassed
  <2>6. DOMAIN g = DOMAIN h /\ g.seg = h.seg /\ g.gates = h.gates /\ g.constraints = h.constraints
        /\ g.call = [h.call EXCEPT !.env = h.call.env \o w]
    <3>1. XY!OutputWires(prog, f.call) = w
      BY XYBodies
    <3> HIDE DEF w, h, f
    <3> QED
      BY <2>4, <3>1 DEF PointFrame, XY!WithOutputs
  <2> HIDE DEF g, h, w
  <2>7. PointFrame(g) /\ ESpot(g) = ESpot(h)
    BY ONLY <2>4, <2>5, <2>6, FrameGets
  <2>8. PointWalk(prog, plan, R, [Tail(xy_stack) EXCEPT ![1] = g], n)
    <3>1. /\ AtEnd(prog, xy_stack[1].call) /\ ESpot(g) = ESpot(xy_stack[2])
          /\ g.gates = xy_stack[2].gates /\ g.constraints = xy_stack[2].constraints
      BY <1>1, <2>6, <2>7 DEF h
    <3> QED
      BY ONLY prog \in Programs, Registered(prog, plan, names, R), <1>2, <2>1, <2>7, <3>1, PLeaves
  <2> QED
    BY <1>1, <2>2, <2>8 DEF XYInv, Progressing, n
<1>5. CASE XY!Finishes
  <2>1. n = Len(plan) /\ Filled(plan, f)
    BY <1>1, <1>3, <1>5 DEF XY!Finishes
  <2>2. xy_pc' = "done"
    BY <1>5, <2>1, XYBodies DEF XY!Finishes, XY!Top, n
  <2> QED
    BY <1>1, <2>2 DEF XYInv, Progressing
<1> QED
  BY <1>4, <1>5

(* Every step of sxy keeps its invariant.                                  *)
LEMMA XYKeeps ==
  ASSUME prog \in Programs, NEW names, NEW R, Registered(prog, plan, names, R), XYInv(R), XY!Next
  PROVE  XYInv(R)'
<1>1. CASE XY!Starts
  BY <1>1, XYStarts
<1>2. CASE XY!Gates \/ XY!AssignsExtra \/ XY!Adds \/ XY!EnforcesZero
  BY <1>2, XYGoesOn
<1>3. CASE XY!EntersRoutine
  BY <1>3, XYEnters
<1>4. CASE XY!LeavesRoutine \/ XY!Finishes
  BY <1>4, XYLeaves
<1> QED
  BY <1>1, <1>2, <1>3, <1>4 DEF XY!Next
-----------------------------------------------------------------------------
(* In sx, the circuit's last call writes the one that eval() asserts.      *)
EndsInOne(p, pl, stk, cs) ==
  \A k \in 1 .. Len(stk) :
    stk[k].seg = 1 /\ stk[k].call.at = Last(p, Main) => cs[pl[1].num_constraints] = 1

(* The last call of the circuit's own body.                                *)
LEMMA LastCall ==
  ASSUME NEW p \in Programs, NEW pl, NEW names, NEW R, Registered(p, pl, names, R),
         NEW stk, NEW n, PointWalk(p, pl, R, stk, n), NEW k \in 1 .. Len(stk),
         stk[k].seg = 1, stk[k].call.at + 1 = Last(p, Main)
  PROVE  /\ NextOp(p, stk[k].call) = EnforceZero(<< <<1, 1>> >>)
         /\ stk[k].constraints + 1 = pl[1].num_constraints
<1> DEFINE f == stk[k]
<1>1. Tracks(p, pl, R, stk, n)
  BY DEF PointWalk
<1>2. /\ f.call.name \in Routines /\ f.call.at \in 1 .. Last(p, f.call.name)
      /\ names[f.seg] = f.call.name /\ Placed(p, pl, names, f.seg) /\ InPlace(p, pl, f)
  BY ONLY <1>1, p \in Programs, Registered(p, pl, names, R), k \in 1 .. Len(stk), ESpots
<1>3. f.seg = 1 /\ f.call.at + 1 = Last(p, Main) /\ names[1] = Main
  BY DEF Registered, Names
<1> HIDE DEF f
<1>4. f.call.name = Main /\ Main \in Routines
  BY <1>2, <1>3
<1>5. Len(OpsOf(p, Main)) \in Nat /\ Last(p, Main) = Len(OpsOf(p, Main)) + 1
  BY <1>4, LastIs
<1>6. f.call.at = Len(OpsOf(p, Main))
  BY <1>2, <1>3, <1>5
<1>7. /\ Len(OpsOf(p, Main)) >= 1
      /\ OpsOf(p, Main)[Len(OpsOf(p, Main))] = EnforceZero(<< <<1, 1>> >>)
  BY LastIsOne
<1>8. NextOp(p, f.call) = EnforceZero(<< <<1, 1>> >>)
  BY <1>4, <1>6, <1>7 DEF NextOp
<1>9. f.constraints = pl[1].constraint_start + ConstraintsDone(p, Main, f.call.at)
  BY <1>2, <1>3, <1>4 DEF InPlace
<1>10. pl[1].constraint_start = 0 /\ pl[1].num_constraints = ConstraintsDone(p, Main, Last(p, Main))
  BY <1>2, <1>3 DEF Placed, CountedTo
<1>11. ConstraintsDone(p, Main, Last(p, Main)) = ConstraintsDone(p, Main, f.call.at) + 1
  <2>1. f.call.at \in 1 .. Len(OpsOf(p, Main)) /\ f.call.at + 1 = Last(p, Main)
    BY <1>3, <1>5, <1>6, <1>7
  <2>2. ConstraintsDone(p, Main, f.call.at + 1) = ConstraintsDone(p, Main, f.call.at)
          + (IF OpsOf(p, Main)[f.call.at].kind = "enforce_zero" THEN 1 ELSE 0)
    BY <2>1, <1>4, DoneNext
  <2>3. OpsOf(p, Main)[f.call.at].kind = "enforce_zero"
    BY <1>6, <1>7 DEF EnforceZero
  <2> QED
    BY <2>1, <2>2, <2>3
<1>12. ConstraintsDone(p, Main, f.call.at) \in Nat
  BY <1>2, <1>4, DoneRange
<1>13. f.constraints + 1 = pl[1].num_constraints
  BY <1>9, <1>10, <1>11, <1>12
<1> QED
  BY <1>8, <1>13 DEF f

(* The other segments' coefficients come after it.                         *)
LEMMA ComesAfter ==
  ASSUME NEW p \in Programs, NEW pl, NEW names, NEW R, Registered(p, pl, names, R),
         NEW stk, NEW n, PointWalk(p, pl, R, stk, n), NEW k \in 1 .. Len(stk), stk[k].seg # 1
  PROVE  stk[k].constraints + 1 # pl[1].num_constraints
<1> DEFINE f == stk[k]
<1>1. Tracks(p, pl, R, stk, n)
  BY DEF PointWalk
<1>2. /\ f.call.name \in Routines /\ f.call.at \in 1 .. Last(p, f.call.name)
      /\ f.seg \in 1 .. Len(pl)
      /\ Placed(p, pl, names, f.seg) /\ InPlace(p, pl, f)
  BY ONLY <1>1, p \in Programs, Registered(p, pl, names, R), k \in 1 .. Len(stk), ESpots
<1>3. f.seg # 1 /\ Placed(p, pl, names, 1)
  BY <1>2 DEF Registered, Names
<1> HIDE DEF f
<1>4. ConstraintsDone(p, f.call.name, f.call.at) \in Nat
  BY <1>2, DoneRange
<1>5. f.constraints = pl[f.seg].constraint_start + ConstraintsDone(p, f.call.name, f.call.at)
  BY <1>2 DEF InPlace
<1>6. /\ pl[f.seg].constraint_start \in Nat /\ pl[f.seg].constraint_start >= pl[1].num_constraints
      /\ pl[1].num_constraints \in Nat
  BY <1>2, <1>3 DEF Placed
<1>7. f.constraints + 1 # pl[1].num_constraints
  BY <1>4, <1>5, <1>6
<1> QED
  BY <1>7 DEF f

(* Past any call but a routine.                                            *)
LEMMA OnesGoOn ==
  ASSUME NEW p \in Programs, NEW pl, NEW names, NEW R, Registered(p, pl, names, R),
         NEW stk, NEW n, PointWalk(p, pl, R, stk, n),
         NEW cs, EndsInOne(p, pl, stk, cs),
         NEW g, ESpot(g) = Onward(ESpot(stk[1])),
         NEW cs2, \A j : j # stk[1].constraints + 1 => cs2[j] = cs[j],
         NextOp(p, stk[1].call) = EnforceZero(<< <<1, 1>> >>) => cs2[stk[1].constraints + 1] = 1
  PROVE  EndsInOne(p, pl, [stk EXCEPT ![1] = g], cs2)
<1> DEFINE stk2 == [stk EXCEPT ![1] = g]
           f == stk[1]
<1>1. IsList(stk) /\ stk # <<>> /\ Len(stk) \in Nat \ {0} /\ 1 \in 1 .. Len(stk)
  BY ONLY p \in Programs, Registered(p, pl, names, R), PointWalk(p, pl, R, stk, n), PTop
<1>2. Retopped(stk2, g, stk)
  BY <1>1, Replaced
<1>3. Len(stk2) = Len(stk) /\ stk2[1] = g /\ \A k \in 2 .. Len(stk) : stk2[k] = stk[k]
  BY <1>2 DEF Retopped
<1> HIDE DEF stk2
<1>4. g.seg = f.seg /\ g.call.at = f.call.at + 1
  BY DEF ESpot, Onward, Spot
<1>5. ASSUME NEW k \in 1 .. Len(stk2), stk2[k].seg = 1, stk2[k].call.at = Last(p, Main)
      PROVE  cs2[pl[1].num_constraints] = 1
  <2>1. CASE k = 1
    <3>1. f.seg = 1 /\ f.call.at + 1 = Last(p, Main)
      BY <2>1, <1>3, <1>4, <1>5
    <3>2. NextOp(p, f.call) = EnforceZero(<< <<1, 1>> >>) /\ f.constraints + 1 = pl[1].num_constraints
      BY ONLY <3>1, <1>1, p \in Programs, Registered(p, pl, names, R), PointWalk(p, pl, R, stk, n), LastCall
    <3> QED
      BY <3>2
  <2>2. CASE k # 1
    <3>1. k \in 2 .. Len(stk) /\ k \in 1 .. Len(stk)
      BY <2>2, <1>1, <1>3
    <3>2. stk[k].seg = 1 /\ stk[k].call.at = Last(p, Main)
      BY <3>1, <1>3, <1>5
    <3>3. cs[pl[1].num_constraints] = 1
      BY <3>1, <3>2 DEF EndsInOne
    <3>4. f.seg # 1
      <4>1. Tracks(p, pl, R, stk, n)
        BY DEF PointWalk
      <4>2. stk[k].seg = 1 <=> k = Len(stk)
        BY ONLY <4>1, <3>1, p \in Programs, Registered(p, pl, names, R), ESpots
      <4> DEFINE i == 1
      <4>3. i \in 1 .. Len(stk)
        BY <1>1
      <4> HIDE DEF i
      <4>4. stk[i].seg = 1 <=> i = Len(stk)
        BY ONLY <4>1, <4>3, p \in Programs, Registered(p, pl, names, R), ESpots
      <4> QED
        BY <4>2, <4>4, <3>2, <2>2 DEF i
    <3>5. f.constraints + 1 # pl[1].num_constraints
      BY ONLY <3>4, <1>1, p \in Programs, Registered(p, pl, names, R), PointWalk(p, pl, R, stk, n), ComesAfter
    <3> QED
      BY <3>3, <3>5
  <2> QED
    BY <2>1, <2>2
<1> QED
  BY <1>5 DEF EndsInOne, stk2

(* Into a routine.                                                         *)
LEMMA OnesEnter ==
  ASSUME NEW p \in Programs, NEW pl, NEW names, NEW R, Registered(p, pl, names, R),
         NEW stk, NEW n, PointWalk(p, pl, R, stk, n),
         ~AtEnd(p, stk[1].call), NextOp(p, stk[1].call).kind = "routine",
         NEW cs, EndsInOne(p, pl, stk, cs), NEW g, g.seg = n + 1
  PROVE  EndsInOne(p, pl, <<g>> \o [stk EXCEPT ![1].call = Advanced(@)], cs)
<1> DEFINE f == stk[1]
           h == [stk[1] EXCEPT !.call = Advanced(stk[1].call)]
           under == [stk EXCEPT ![1].call = Advanced(@)]
           stk2 == <<g>> \o under
<1>1. /\ IsList(stk) /\ stk # <<>> /\ Len(stk) \in Nat \ {0} /\ 1 \in 1 .. Len(stk)
      /\ n \in 1 .. Len(pl)
      /\ PointFrame(stk[1]) /\ stk[1].gates \in Nat /\ stk[1].constraints \in Nat
  BY ONLY p \in Programs, Registered(p, pl, names, R), PointWalk(p, pl, R, stk, n), PTop
<1>2. Passed(stk[1], h, 0, 0) /\ under = [stk EXCEPT ![1] = h]
  BY ONLY <1>1, CallerAdvanced
<1> HIDE DEF h, under
<1>3. h.seg = f.seg /\ h.call.at = f.call.at + 1
  BY <1>2 DEF Passed, ESpot, Onward, Spot
<1>4. Stacked(<<g>> \o [stk EXCEPT ![1] = h], g, h, stk)
  BY ONLY <1>1, PushedOver
<1>5. /\ Len(stk2) = Len(stk) + 1 /\ stk2[1] = g /\ stk2[2] = h
      /\ \A k \in 3 .. Len(stk) + 1 : stk2[k] = stk[k - 1]
  BY <1>2, <1>4 DEF Stacked
<1> HIDE DEF stk2
<1>6. ASSUME NEW k \in 1 .. Len(stk2), stk2[k].seg = 1, stk2[k].call.at = Last(p, Main)
      PROVE  cs[pl[1].num_constraints] = 1
  <2>1. CASE k = 1
    BY <2>1, <1>1, <1>5, <1>6
  <2>2. CASE k = 2
    <3>1. f.seg = 1 /\ f.call.at + 1 = Last(p, Main)
      BY <2>2, <1>3, <1>5, <1>6
    <3>2. NextOp(p, f.call) = EnforceZero(<< <<1, 1>> >>) /\ f.constraints + 1 = pl[1].num_constraints
      BY ONLY <3>1, <1>1, p \in Programs, Registered(p, pl, names, R), PointWalk(p, pl, R, stk, n), LastCall
    <3> QED
      BY <3>2 DEF EnforceZero
  <2>3. CASE k # 1 /\ k # 2
    <3>1. k \in 3 .. Len(stk) + 1 /\ k - 1 \in 1 .. Len(stk)
      BY <2>3, <1>1, <1>5
    <3> QED
      BY <3>1, <1>5, <1>6 DEF EndsInOne
  <2> QED
    BY <2>1, <2>2, <2>3
<1> QED
  BY <1>6 DEF EndsInOne, stk2, under

(* Out of it.                                                              *)
LEMMA OnesLeave ==
  ASSUME NEW p, NEW pl, NEW stk, IsList(stk), Len(stk) > 1, NEW cs, EndsInOne(p, pl, stk, cs),
         NEW g, ESpot(g) = ESpot(stk[2])
  PROVE  EndsInOne(p, pl, [Tail(stk) EXCEPT ![1] = g], cs)
<1> DEFINE stk2 == [Tail(stk) EXCEPT ![1] = g]
<1>1. Unstacked(stk2, g, stk)
  BY PoppedOver
<1> HIDE DEF stk2
<1>2. /\ Len(stk2) = Len(stk) - 1 /\ stk2[1] = g
      /\ \A k \in 2 .. Len(stk) - 1 : stk2[k] = stk[k + 1]
  BY <1>1 DEF Unstacked
<1>3. Len(stk) \in Nat
  BY ListIs
<1>4. g.seg = stk[2].seg /\ g.call.at = stk[2].call.at
  BY DEF ESpot, Spot
<1>5. ASSUME NEW k \in 1 .. Len(stk2), stk2[k].seg = 1, stk2[k].call.at = Last(p, Main)
      PROVE  cs[pl[1].num_constraints] = 1
  <2>1. k + 1 \in 1 .. Len(stk) /\ stk[k + 1].seg = 1 /\ stk[k + 1].call.at = Last(p, Main)
    <3>1. CASE k = 1
      BY <3>1, <1>2, <1>3, <1>4, <1>5
    <3>2. CASE k # 1
      <4>1. k \in 2 .. Len(stk) - 1
        BY <3>2, <1>2, <1>3
      <4> QED
        BY <4>1, <1>2, <1>3, <1>5
    <3> QED
      BY <3>1, <3>2
  <2> QED
    BY <2>1 DEF EndsInOne
<1> QED
  BY <1>5 DEF EndsInOne, stk2
-----------------------------------------------------------------------------
(* The bodies of sx are those of the circuit.                             *)
LEMMA SXBodies ==
  \A p, f : /\ SX!AtEnd(p, f) <=> AtEnd(p, f)
            /\ SX!NextOp(p, f) = NextOp(p, f)
            /\ \A kind : SX!AboutTo(p, f, kind) <=> ~AtEnd(p, f) /\ NextOp(p, f).kind = kind
            /\ SX!OutputWires(p, f) = OutputWires(p, f)
            /\ \A op : SX!InputWires(f, op) = InputWires(f, op)
            /\ \A pl, g : SX!Filled(pl, g) <=> Filled(pl, g)
            /\ \A g : /\ SX!NoRoomForGate(N, g) <=> NoRoomForGate(N, g)
                      /\ SX!NoRoomForConstraint(N, g) <=> NoRoomForConstraint(N, g)
BY DEF SX!AtEnd, SX!NextOp, SX!AboutTo, SX!OpsOf, SX!Main, SX!EnforceZero, SX!OutputWires,
       SX!InputWires, SX!Filled, SX!NoRoomForGate, SX!NoRoomForConstraint,
       AtEnd, NextOp, OpsOf, Main, EnforceZero, OutputWires, InputWires, Filled, NoRoomForGate,
       NoRoomForConstraint

(* Its operations move the frame on top on.                                *)
LEMMA SXPasses ==
  ASSUME NEW f, PointFrame(f), f.gates \in Nat, f.constraints \in Nat, NEW op, NEW z
  PROVE  /\ Passed(f, SX!WithGate(f, z), 1, 0)
         /\ Passed(f, SX!WithExtra(f, op, z), 0, 0)
         /\ Passed(f, SX!WithSum(f, op), 0, 0)
<1> DEFINE zero == 0
           one == 1
<1>0. /\ zero \in Nat /\ one \in Nat /\ one = 1
      /\ f.gates + zero = f.gates /\ f.constraints + zero = f.constraints
      /\ \A u : IsList(<<u>>)
  <2>1. \A u : IsList(<<u>>)
    BY ShortLists
  <2> QED
    BY <2>1
<1> HIDE DEF zero, one
<1>1. Passed(f, SX!WithGate(f, z), one, zero)
  <2> DEFINE g == SX!WithGate(f, z)
             m == f.monomials
             w == <<m.a, m.b, m.c>>
  <2>1. DOMAIN g = DOMAIN f /\ g.seg = f.seg /\ g.gates = f.gates + one /\ g.constraints = f.constraints
        /\ g.call = BindGate(f.call, w, m.a)
    BY <1>0 DEF PointFrame, SX!WithGate, SX!GateTaken, SX!BindGate, BindGate
  <2>2. IsList(w)
    BY ShortLists
  <2> DEFINE token == m.a
  <2> HIDE DEF g, w, m, token
  <2>3. g.call = BindGate(f.call, w, token)
    BY <2>1 DEF token
  <2>4. /\ DOMAIN g = DOMAIN f /\ g.seg = f.seg /\ g.gates = f.gates + one
        /\ g.constraints = f.constraints + zero
        /\ g.call \in {Bind(f.call, w), BindGate(f.call, w, token), Advanced(f.call)}
    BY ONLY <1>0, <2>1, <2>3
  <2>6. IsList(w)
    BY <2>2 DEF w, m
  <2>7. one \in Nat /\ zero \in Nat
    BY <1>0
  <2>5. Passed(f, g, one, zero)
    BY ONLY <2>6, <2>4, <2>7, PointFrame(f), f.gates \in Nat, f.constraints \in Nat, FramePasses, SMTT(30)
  <2> QED
    BY <2>5 DEF g
<1>2. Passed(f, SX!WithExtra(f, op, z), zero, zero)
  <2> DEFINE g == SX!WithExtra(f, op, z)
             w == <<SX!Times(f.call.extras[op.gate], SX!AToD(z))>>
  <2>1. DOMAIN g = DOMAIN f /\ g.seg = f.seg /\ g.gates = f.gates /\ g.constraints = f.constraints
        /\ g.call = Bind(f.call, w)
    BY DEF PointFrame, SX!WithExtra, SX!Bind, SX!Advanced, Bind, Advanced
  <2>2. IsList(w)
    BY <1>0
  <2> HIDE DEF g, w
  <2>4. Passed(f, g, zero, zero)
    BY ONLY <1>0, <2>1, <2>2, PointFrame(f), f.gates \in Nat, f.constraints \in Nat, FramePasses
  <2> QED
    BY <2>4 DEF g
<1>3. Passed(f, SX!WithSum(f, op), zero, zero)
  <2> DEFINE g == SX!WithSum(f, op)
             w == <<SX!DirectSum(op.lc, f.call.env)>>
  <2>1. DOMAIN g = DOMAIN f /\ g.seg = f.seg /\ g.gates = f.gates /\ g.constraints = f.constraints
        /\ g.call = Bind(f.call, w)
    BY DEF PointFrame, SX!WithSum, SX!Bind, SX!Advanced, Bind, Advanced
  <2>2. IsList(w)
    BY <1>0
  <2> HIDE DEF g, w
  <2>4. Passed(f, g, zero, zero)
    BY ONLY <1>0, <2>1, <2>2, PointFrame(f), f.gates \in Nat, f.constraints \in Nat, FramePasses
  <2> QED
    BY <2>4 DEF g
<1> QED
  BY <1>1, <1>2, <1>3 DEF zero, one
(* A combination of ONE alone is ONE's value.                              *)
LEMMA OneAlone ==
  ASSUME NEW env, env[1] = 1
  PROVE  SX!DirectSum(<< <<1, 1>> >>, env) = 1
<1> DEFINE lc == << <<1, 1>> >>
           g == [k \in 0 .. Len(lc) |-> IF k = 0 THEN 0 ELSE SX!Plus(0, SX!Times(lc[k][2], env[lc[k][1]]))]
           f == CHOOSE f : f = [k \in 0 .. Len(lc) |->
                  IF k = 0 THEN 0 ELSE SX!Plus(f[k - 1], SX!Times(lc[k][2], env[lc[k][1]]))]
<1>1. Len(lc) = 1 /\ lc[1] = <<1, 1>> /\ 0 .. 1 = {0, 1}
  OBVIOUS
<1>2. SX!DirectSum(lc, env) = f[Len(lc)]
  BY DEF SX!DirectSum
<1>3. P \in Nat /\ P > 1
  BY FieldAssumption DEF IsPrime
<1> HIDE DEF lc
<1>4. g[0] = 0 /\ g = [k \in 0 .. Len(lc) |->
                  IF k = 0 THEN 0 ELSE SX!Plus(g[k - 1], SX!Times(lc[k][2], env[lc[k][1]]))]
  <2>1. g[0] = 0
    BY <1>1
  <2>2. \A k \in 0 .. Len(lc) : k # 0 => k - 1 = 0
    BY <1>1
  <2> QED
    BY <2>1, <2>2
<1> HIDE DEF g
<1>5. f = [k \in 0 .. Len(lc) |->
                  IF k = 0 THEN 0 ELSE SX!Plus(f[k - 1], SX!Times(lc[k][2], env[lc[k][1]]))]
  BY <1>4
<1> HIDE DEF f
<1>6. f[0] = 0 /\ f[1] = SX!Plus(f[0], SX!Times(lc[1][2], env[lc[1][1]]))
  <2>1. 0 \in 0 .. Len(lc) /\ 1 \in 0 .. Len(lc) /\ 1 # 0 /\ 1 - 1 = 0
    BY <1>1
  <2> QED
    BY <2>1, <1>5
<1>7. lc[1][2] = 1 /\ lc[1][1] = 1
  BY <1>1
<1>8. f[1] = SX!Plus(0, SX!Times(1, 1))
  BY <1>6, <1>7
<1>9. SX!Plus(0, SX!Times(1, 1)) = 1
  <2>1. 1 % P = 1 /\ 1 * 1 = 1 /\ 0 + 1 = 1
    BY <1>3
  <2> QED
    BY <2>1 DEF SX!Plus, SX!Times
<1> QED
  BY <1>1, <1>2, <1>8, <1>9 DEF lc

(* The invariant of sx: it is on the walk of the circuit, and the circuit's *)
(* last call, once made, has left its one.                                 *)
SXInv(R) ==
  /\ sx_pc \in Progressing /\ sx_routine \in Nat
  /\ sx_pc = "idle" => sx_routine = 0
  /\ sx_pc # "done" => IsList(sx_coeffs) /\ Len(sx_coeffs) = 4 * N
  /\ sx_pc = "run" => /\ PointWalk(prog, plan, R, sx_stack, sx_routine + 1)
                      /\ EndsInOne(prog, plan, sx_stack, sx_coeffs)

(* The circuit's own scope.                                                *)
LEMMA SXStarts ==
  ASSUME prog \in Programs, NEW names, NEW R, Registered(prog, plan, names, R), SXInv(R), SX!Starts
  PROVE  SXInv(R)'
<1> DEFINE g == SX!GateTaken(SX!NewScope(plan, 1, Main, <<>>, x), x)
<1>1. sx_pc' = "run" /\ sx_stack' = <<g>> /\ sx_routine' = sx_routine /\ prog' = prog /\ plan' = plan
      /\ sx_coeffs' = sx_coeffs /\ sx_routine = 0 /\ IsList(sx_coeffs) /\ Len(sx_coeffs) = 4 * N
  BY DEF SXInv, SX!Starts, SX!input, SX!Main, Main
<1>2. /\ {"call", "seg", "gates", "constraints", "monomials"} \subseteq DOMAIN g
      /\ g.call = NewCallFrame(Main, 1, <<>>) /\ g.seg = 1
      /\ g.gates = plan[1].gate_start + 1 /\ g.constraints = plan[1].constraint_start
  BY DEF SX!GateTaken, SX!NewScope, SX!NewCallFrame, NewCallFrame
<1> HIDE DEF g
<1> DEFINE nothing == <<>>
<1>3. IsList(nothing)
  <2>1. <<>> \in Seq({})
    OBVIOUS
  <2> QED
    BY <2>1, ListOf
<1>4. g.call = NewCallFrame(Main, 1, nothing)
  BY <1>2
<1> HIDE DEF nothing
<1>5. PointFrame(g) /\ ESpot(g) = Spot(Main, 1, g.seg)
  BY ONLY <1>2, <1>3, <1>4, FrameBegins
<1>6. PointWalk(prog, plan, R, <<g>>, 1)
  <2>1. ESpot(g) = Spot(Main, 1, 1)
    BY <1>2, <1>5
  <2> QED
    BY ONLY <1>2, <1>5, <2>1, prog \in Programs, Registered(prog, plan, names, R), PStarts
<1>7. EndsInOne(prog, plan, <<g>>, sx_coeffs)
  <2>1. g.call.at = 1
    BY <1>2 DEF NewCallFrame
  <2>2. 1 # Last(prog, Main)
    <3>1. Len(OpsOf(prog, Main)) >= 1
      BY LastIsOne
    <3>2. Main \in Routines
      BY CircuitAssumption
    <3>3. Len(OpsOf(prog, Main)) \in Nat /\ Last(prog, Main) = Len(OpsOf(prog, Main)) + 1
      BY <3>2, LastIs
    <3> QED
      BY <3>1, <3>3
  <2>3. Len(<<g>>) = 1 /\ <<g>>[1] = g
    BY Single
  <2>4. \A k \in 1 .. Len(<<g>>) : k = 1
    BY <2>3
  <2> QED
    BY <2>1, <2>2, <2>3, <2>4 DEF EndsInOne
<1> QED
  BY <1>1, <1>6, <1>7 DEF SXInv, Progressing

(* Every call but a routine.                                               *)
LEMMA SXGoesOn ==
  ASSUME prog \in Programs, NEW names, NEW R, Registered(prog, plan, names, R), SXInv(R),
         SX!Gates \/ SX!AssignsExtra \/ SX!Adds \/ SX!EnforcesZero
  PROVE  SXInv(R)'
<1> DEFINE f == sx_stack[1]
           n == sx_routine + 1
           kind == NextOp(prog, f.call).kind
           op == NextOp(prog, f.call)
<1>1. /\ sx_pc = "run" /\ sx_routine' = sx_routine /\ prog' = prog /\ plan' = plan
      /\ ~AtEnd(prog, f.call) /\ kind # "routine"
  BY SXBodies DEF SX!Gates, SX!AssignsExtra, SX!Adds, SX!EnforcesZero, SX!Running, SX!Top, SX!input
<1>2. /\ PointWalk(prog, plan, R, sx_stack, n) /\ EndsInOne(prog, plan, sx_stack, sx_coeffs)
      /\ IsList(sx_coeffs) /\ Len(sx_coeffs) = 4 * N
  BY <1>1 DEF SXInv
<1> HIDE DEF n, f, kind
<1>3. /\ PointFrame(f) /\ f.gates \in Nat /\ f.constraints \in Nat
      /\ kind = "gate" => ~NoRoomForGate(N, f)
      /\ kind = "enforce_zero" => ~NoRoomForConstraint(N, f)
  <2>1. /\ PointFrame(f) /\ f.gates \in Nat /\ f.constraints \in Nat
        /\ ~AtEnd(prog, f.call) =>
              /\ NextOp(prog, f.call).kind = "gate" => ~NoRoomForGate(N, f)
              /\ NextOp(prog, f.call).kind = "enforce_zero" => ~NoRoomForConstraint(N, f)
    BY ONLY prog \in Programs, Registered(prog, plan, names, R), <1>2, PTop DEF f
  <2> QED
    BY <1>1, <2>1 DEF kind
<1> DEFINE Moved(g) ==
             /\ Passed(f, g, IF kind = "gate" THEN 1 ELSE 0, IF kind = "enforce_zero" THEN 1 ELSE 0)
             /\ sx_stack' = [sx_stack EXCEPT ![1] = g] /\ sx_pc' = sx_pc
           Written == /\ IsList(sx_coeffs') /\ Len(sx_coeffs') = 4 * N
                      /\ \A j : j # f.constraints + 1 => sx_coeffs'[j] = sx_coeffs[j]
                      /\ op = EnforceZero(<< <<1, 1>> >>) => sx_coeffs'[f.constraints + 1] = 1
<1>4. (\E g : Moved(g)) /\ Written
  <2>1. CASE SX!Gates
    <3>1. kind = "gate"
      BY <2>1, SXBodies DEF SX!Gates, SX!Running, SX!Top, kind, f
    <3>2. sx_stack' = [sx_stack EXCEPT ![1] = SX!WithGate(f, x)] /\ sx_pc' = sx_pc
          /\ sx_coeffs' = sx_coeffs
      BY <2>1, <3>1, <1>3, SXBodies DEF SX!Gates, SX!Go, SX!Top, f
    <3>3. Passed(f, SX!WithGate(f, x), 1, 0)
      BY <1>3, SXPasses
    <3>4. Moved(SX!WithGate(f, x))
      BY <3>1, <3>2, <3>3
    <3>5. Written
      BY <3>1, <3>2, <1>2 DEF kind, EnforceZero
    <3> QED
      BY <3>4, <3>5
  <2>2. CASE SX!AssignsExtra
    <3>1. kind = "assign_extra"
      BY <2>2, SXBodies DEF SX!AssignsExtra, SX!Running, SX!Top, kind, f
    <3>2. sx_stack' = [sx_stack EXCEPT ![1] = SX!WithExtra(f, op, x)] /\ sx_pc' = sx_pc
          /\ sx_coeffs' = sx_coeffs
      BY <2>2, SXBodies DEF SX!AssignsExtra, SX!Go, SX!Top, SX!NextCall, f
    <3>3. Passed(f, SX!WithExtra(f, op, x), 0, 0)
      BY <1>3, SXPasses
    <3>4. Moved(SX!WithExtra(f, op, x))
      BY <3>1, <3>2, <3>3
    <3>5. Written
      BY <3>1, <3>2, <1>2 DEF kind, EnforceZero
    <3> QED
      BY <3>4, <3>5
  <2>3. CASE SX!Adds
    <3>1. kind = "add"
      BY <2>3, SXBodies DEF SX!Adds, SX!Running, SX!Top, kind, f
    <3>2. sx_stack' = [sx_stack EXCEPT ![1] = SX!WithSum(f, op)] /\ sx_pc' = sx_pc
          /\ sx_coeffs' = sx_coeffs
      BY <2>3, SXBodies DEF SX!Adds, SX!Go, SX!Top, SX!NextCall, f
    <3>3. Passed(f, SX!WithSum(f, op), 0, 0)
      BY <1>3, SXPasses
    <3>4. Moved(SX!WithSum(f, op))
      BY <3>1, <3>2, <3>3
    <3>5. Written
      BY <3>1, <3>2, <1>2 DEF kind, EnforceZero
    <3> QED
      BY <3>4, <3>5
  <2>4. CASE SX!EnforcesZero
    <3> DEFINE g == [f EXCEPT !.constraints = f.constraints + 1, !.call = Advanced(f.call)]
               v == SX!DirectSum(op.lc, f.call.env)
               i == f.constraints + 1
    <3>1. kind = "enforce_zero"
      BY <2>4, SXBodies DEF SX!EnforcesZero, SX!Running, SX!Top, kind, f
    <3>2. /\ sx_stack' = [sx_stack EXCEPT ![1] = g] /\ sx_pc' = sx_pc
          /\ sx_coeffs' = [sx_coeffs EXCEPT ![i] = v]
      BY <2>4, <3>1, <1>3, SXBodies
         DEF SX!EnforcesZero, SX!Go, SX!Top, SX!NextCall, f, SX!Advanced, Advanced
    <3>3. Passed(f, g, 0, 1)
      <4>1. DOMAIN g = DOMAIN f /\ g.seg = f.seg /\ g.gates = f.gates /\ g.constraints = f.constraints + 1
            /\ g.call = Advanced(f.call)
        BY <1>3 DEF PointFrame
      <4> HIDE DEF g
      <4> DEFINE zero == 0
                 one == 1
                 w == <<>>
      <4>2. zero \in Nat /\ one \in Nat /\ g.gates = f.gates + zero /\ g.constraints = f.constraints + one
        BY <4>1, <1>3
      <4>3. w \in Seq({})
        OBVIOUS
      <4> HIDE DEF zero, one, w
      <4>4. IsList(w)
        BY <4>3, ListOf
      <4>5. Passed(f, g, zero, one)
        BY ONLY <4>1, <4>2, <4>4, <1>3, FramePasses
      <4> QED
        BY <4>5 DEF zero, one
    <3> HIDE DEF g
    <3>4. Moved(g)
      BY <3>1, <3>2, <3>3
    <3>5. DOMAIN sx_coeffs = 1 .. 4 * N /\ i \in 1 .. 4 * N
      <4>1. DOMAIN sx_coeffs = 1 .. Len(sx_coeffs)
        BY <1>2, ListIs
      <4>2. N \in Nat
        BY FieldAssumption
      <4>3. f.constraints < 4 * N - 1
        BY <3>1, <1>3, <4>2 DEF NoRoomForConstraint
      <4> QED
        BY <4>1, <4>2, <4>3, <1>2, <1>3
    <3>6. IsList(sx_coeffs') /\ Len(sx_coeffs') = 4 * N
      <4> DEFINE cs == [sx_coeffs EXCEPT ![i] = v]
                 top == 4 * N
      <4>1. DOMAIN cs = 1 .. top /\ top \in Nat
        BY <3>5, FieldAssumption
      <4>2. cs = [j \in 1 .. top |-> cs[j]]
        BY <3>5
      <4> HIDE DEF cs, top
      <4>3. cs \in Seq({ cs[j] : j \in 1 .. top }) /\ Len(cs) = top
        BY ONLY <4>1, <4>2
      <4>4. IsList(cs)
        BY <4>3, ListOf
      <4> QED
        BY <3>2, <4>3, <4>4 DEF cs, top
    <3>7. op = EnforceZero(<< <<1, 1>> >>) => v = 1
      <4>1. f.call.env[1] = 1
        BY <1>3 DEF PointFrame
      <4>2. op = EnforceZero(<< <<1, 1>> >>) => op.lc = << <<1, 1>> >>
        BY DEF EnforceZero
      <4> QED
        BY <4>1, <4>2, OneAlone
    <3> HIDE DEF v
    <3>8. Written
      BY <3>2, <3>5, <3>6, <3>7
    <3> QED
      BY <3>4, <3>8
  <2> QED
    BY <2>1, <2>2, <2>3, <2>4
<1>5. PICK g : Moved(g)
  BY <1>4
<1>6. PointWalk(prog, plan, R, [sx_stack EXCEPT ![1] = g], n)
  <2>1. ~AtEnd(prog, sx_stack[1].call) /\ kind = NextOp(prog, sx_stack[1].call).kind /\ kind # "routine"
        /\ Passed(sx_stack[1], g, IF kind = "gate" THEN 1 ELSE 0, IF kind = "enforce_zero" THEN 1 ELSE 0)
    BY <1>1, <1>5 DEF f, kind
  <2> QED
    BY ONLY prog \in Programs, Registered(prog, plan, names, R), <1>2, <2>1, PGoesOn
<1>7. EndsInOne(prog, plan, [sx_stack EXCEPT ![1] = g], sx_coeffs')
  <2> DEFINE cs == sx_coeffs
             cs2 == sx_coeffs'
  <2>1. /\ \A j : j # sx_stack[1].constraints + 1 => cs2[j] = cs[j]
        /\ NextOp(prog, sx_stack[1].call) = EnforceZero(<< <<1, 1>> >>) =>
             cs2[sx_stack[1].constraints + 1] = 1
        /\ ESpot(g) = Onward(ESpot(sx_stack[1]))
        /\ EndsInOne(prog, plan, sx_stack, cs)
    BY <1>2, <1>4, <1>5 DEF Passed, f
  <2> HIDE DEF cs, cs2
  <2>2. EndsInOne(prog, plan, [sx_stack EXCEPT ![1] = g], cs2)
    BY ONLY prog \in Programs, Registered(prog, plan, names, R), <1>2, <2>1, OnesGoOn
  <2> QED
    BY <2>2 DEF cs2
<1> QED
  BY <1>1, <1>4, <1>5, <1>6, <1>7 DEF SXInv, Progressing, n

(* A routine entered.                                                      *)
LEMMA SXEnters ==
  ASSUME prog \in Programs, NEW names, NEW R, Registered(prog, plan, names, R), SXInv(R),
         SX!EntersRoutine
  PROVE  SXInv(R)'
<1> DEFINE f == sx_stack[1]
           n == sx_routine + 1
           op == NextOp(prog, f.call)
           inputs == InputWires(f.call, op)
           g == SX!NewScope(plan, n + 1, op.name, inputs, x)
<1>1. /\ sx_pc = "run" /\ sx_routine' = sx_routine + 1 /\ prog' = prog /\ plan' = plan
      /\ ~AtEnd(prog, f.call) /\ op.kind = "routine" /\ sx_coeffs' = sx_coeffs
  BY SXBodies DEF SX!EntersRoutine, SX!Running, SX!Top, SX!input
<1>2. /\ PointWalk(prog, plan, R, sx_stack, n) /\ EndsInOne(prog, plan, sx_stack, sx_coeffs)
      /\ IsList(sx_coeffs) /\ Len(sx_coeffs) = 4 * N
  BY <1>1 DEF SXInv
<1>3. f.call.name \in Routines /\ f.call.at \in 1 .. Len(OpsOf(prog, f.call.name))
  <2> HIDE DEF n
  <2>1. ~AtEnd(prog, sx_stack[1].call) =>
             sx_stack[1].call.name \in Routines
             /\ sx_stack[1].call.at \in 1 .. Len(OpsOf(prog, sx_stack[1].call.name))
    BY ONLY prog \in Programs, Registered(prog, plan, names, R), <1>2, PTop
  <2> HIDE DEF op
  <2> QED
    BY <1>1, <2>1
<1>4. /\ n + 1 \in DOMAIN plan
      /\ \A h : /\ PointFrame(h) /\ ESpot(h) = Spot(op.name, 1, n + 1)
                /\ h.gates = plan[n + 1].gate_start /\ h.constraints = plan[n + 1].constraint_start
                => PointWalk(prog, plan, R, <<h>> \o [sx_stack EXCEPT ![1].call = Advanced(@)], n + 1)
  <2> HIDE DEF n
  <2>1. ~AtEnd(prog, sx_stack[1].call) /\ NextOp(prog, sx_stack[1].call).kind = "routine"
    BY <1>1
  <2> QED
    BY ONLY prog \in Programs, Registered(prog, plan, names, R), <1>2, <2>1, PEnters
<1>5. n + 1 = sx_routine + 2
  <2>1. sx_routine \in Nat
    BY DEF SXInv
  <2> QED
    BY <2>1
<1>6. sx_stack' = <<g>> \o [sx_stack EXCEPT ![1].call = Advanced(@)] /\ sx_pc' = sx_pc
  <2> HIDE DEF n
  <2> QED
    BY <1>4, <1>5, SXBodies DEF SX!EntersRoutine, SX!Top, SX!NextCall, SX!Advanced, Advanced
<1>7. IsList(inputs)
  BY <1>1, <1>3, WiresPassed DEF NextOp
<1>8. /\ {"call", "seg", "gates", "constraints", "monomials"} \subseteq DOMAIN g
      /\ g.call = NewCallFrame(op.name, 1, inputs) /\ g.seg = n + 1
      /\ g.gates = plan[n + 1].gate_start /\ g.constraints = plan[n + 1].constraint_start
  <2> HIDE DEF n, inputs, op
  <2> QED
    BY DEF SX!NewScope, SX!NewCallFrame, NewCallFrame
<1> HIDE DEF g, inputs, op, n, f
<1>9. PointFrame(g) /\ ESpot(g) = Spot(op.name, 1, g.seg)
  BY ONLY <1>7, <1>8, FrameBegins
<1>10. PointWalk(prog, plan, R, <<g>> \o [sx_stack EXCEPT ![1].call = Advanced(@)], n + 1)
  BY <1>4, <1>8, <1>9
<1>11. EndsInOne(prog, plan, <<g>> \o [sx_stack EXCEPT ![1].call = Advanced(@)], sx_coeffs)
  <2>1. /\ ~AtEnd(prog, sx_stack[1].call) /\ NextOp(prog, sx_stack[1].call).kind = "routine"
        /\ g.seg = n + 1
    BY <1>1, <1>8 DEF f, op
  <2> QED
    BY ONLY prog \in Programs, Registered(prog, plan, names, R), <1>2, <2>1, OnesEnter
<1>12. sx_routine' + 1 = n + 1
  BY <1>1 DEF n
<1> QED
  BY <1>1, <1>2, <1>6, <1>10, <1>11, <1>12 DEF SXInv, Progressing
(* A routine left.                                                         *)
LEMMA SXLeaves ==
  ASSUME prog \in Programs, NEW names, NEW R, Registered(prog, plan, names, R), SXInv(R),
         SX!LeavesRoutine
  PROVE  SXInv(R)'
<1> DEFINE f == sx_stack[1]
           h == sx_stack[2]
           w == OutputWires(prog, f.call)
           g == SX!WithOutputs(h, prog, f)
           n == sx_routine + 1
<1>1. sx_pc = "run" /\ AtEnd(prog, f.call) /\ prog' = prog /\ plan' = plan /\ sx_routine' = sx_routine
      /\ sx_coeffs' = sx_coeffs /\ Len(sx_stack) > 1
  BY SXBodies DEF SX!LeavesRoutine, SX!Top, SX!input
<1>2. /\ PointWalk(prog, plan, R, sx_stack, n) /\ EndsInOne(prog, plan, sx_stack, sx_coeffs)
      /\ IsList(sx_coeffs) /\ Len(sx_coeffs) = 4 * N
  BY <1>1 DEF SXInv
<1> HIDE DEF n
<1>3. /\ IsList(sx_stack) /\ sx_stack # <<>> /\ Len(sx_stack) \in Nat \ {0}
      /\ AtEnd(prog, f.call) => Filled(plan, f)
  BY ONLY prog \in Programs, Registered(prog, plan, names, R), <1>2, PTop
<1>4. sx_stack' = [Tail(sx_stack) EXCEPT ![1] = g] /\ sx_pc' = sx_pc
  <2>1. Tail(sx_stack)[1] = sx_stack[2] /\ DOMAIN Tail(sx_stack) = 1 .. Len(sx_stack) - 1
    <3>1. Tail(sx_stack)[1] = sx_stack[2]
      BY <1>1, <1>3, PoppedOver
    <3>2. IsList(Tail(sx_stack)) /\ Len(Tail(sx_stack)) = Len(sx_stack) - 1
      BY <1>3, Popped
    <3> QED
      BY <3>1, <3>2, ListIs
  <2>2. 1 \in 1 .. Len(sx_stack) - 1
    BY <1>1, <1>3
  <2>3. sx_stack' = [Tail(sx_stack) EXCEPT ![1] = SX!WithOutputs(@, prog, f)] /\ sx_pc' = sx_pc
    <3> HIDE DEF w, g
    <3> QED
      BY <1>1, <1>3, SXBodies DEF SX!LeavesRoutine, SX!Top
  <2> HIDE DEF f
  <2> QED
    BY <2>1, <2>2, <2>3
<1>5. 1 \in 1 .. Len(sx_stack) /\ 2 \in 1 .. Len(sx_stack)
  BY <1>1, <1>3
<1>6. PointFrame(h) /\ f.call.name \in Routines
  <2>1. PointFrame(h)
    BY <1>2, <1>5 DEF PointWalk
  <2>2. Tracks(prog, plan, R, sx_stack, n)
    BY <1>2 DEF PointWalk
  <2>3. sx_stack[1].call.name \in Routines
    BY ONLY <1>5, <2>2, prog \in Programs, Registered(prog, plan, names, R), ESpots
  <2> QED
    BY <2>1, <2>3
<1>7. IsList(w)
  BY <1>6, WiresPassed
<1>8. DOMAIN g = DOMAIN h /\ g.seg = h.seg /\ g.gates = h.gates /\ g.constraints = h.constraints
      /\ g.call = [h.call EXCEPT !.env = h.call.env \o w]
  <2>1. SX!OutputWires(prog, f.call) = w
    BY SXBodies
  <2> HIDE DEF w, h, f
  <2> QED
    BY <1>6, <2>1 DEF PointFrame, SX!WithOutputs
<1> HIDE DEF g, h, w
<1>9. PointFrame(g) /\ ESpot(g) = ESpot(h)
  BY ONLY <1>6, <1>7, <1>8, FrameGets
<1>10. /\ AtEnd(prog, sx_stack[1].call) /\ ESpot(g) = ESpot(sx_stack[2])
       /\ g.gates = sx_stack[2].gates /\ g.constraints = sx_stack[2].constraints
  BY <1>1, <1>8, <1>9 DEF h
<1>11. PointWalk(prog, plan, R, [Tail(sx_stack) EXCEPT ![1] = g], n)
  BY ONLY prog \in Programs, Registered(prog, plan, names, R), <1>1, <1>2, <1>9, <1>10, PLeaves
<1>12. EndsInOne(prog, plan, [Tail(sx_stack) EXCEPT ![1] = g], sx_coeffs)
  BY ONLY <1>1, <1>2, <1>3, <1>10, OnesLeave
<1> QED
  BY <1>1, <1>2, <1>4, <1>11, <1>12 DEF SXInv, Progressing, n

(* A registered circuit has its one constraint of ONE.                     *)
LEMMA OneEnforced ==
  ASSUME NEW p \in Programs, NEW pl, NEW names, NEW R, Registered(p, pl, names, R)
  PROVE  pl[1].num_constraints >= 1
<1> DEFINE k == Len(OpsOf(p, Main))
           m == pl[1].num_constraints
<1>1. /\ Names(names, Len(pl)) /\ \A i \in 1 .. Len(pl) : Placed(p, pl, names, i)
      /\ names[1] = Main /\ 1 \in 1 .. Len(pl)
  BY DEF Registered, Names
<1>2. m = ConstraintsDone(p, Main, Last(p, Main))
  BY <1>1 DEF Placed, CountedTo
<1>3. Main \in Routines /\ k >= 1 /\ OpsOf(p, Main)[k] = EnforceZero(<< <<1, 1>> >>)
  BY CircuitAssumption, LastIsOne
<1>4. k \in Nat /\ Last(p, Main) = k + 1
  BY <1>3, LastIs
<1>5. k \in 1 .. Len(OpsOf(p, Main)) /\ k \in 1 .. Last(p, Main)
  BY <1>3, <1>4
<1>6. OpsOf(p, Main)[k].kind = "enforce_zero"
  BY <1>3 DEF EnforceZero
<1> HIDE DEF k, m
<1>7. ConstraintsDone(p, Main, k + 1) = ConstraintsDone(p, Main, k)
          + (IF OpsOf(p, Main)[k].kind = "enforce_zero" THEN 1 ELSE 0)
  BY <1>3, <1>5, DoneNext
<1>8. ConstraintsDone(p, Main, k) \in Nat
  BY <1>3, <1>5, DoneRange
<1>9. m >= 1
  BY <1>2, <1>4, <1>6, <1>7, <1>8
<1> QED
  BY <1>9 DEF m

(* Each segment's coefficients reversed, the circuit's last is the first.  *)
LEMMA OneComesFirst ==
  ASSUME NEW p \in Programs, plan # <<>>, NEW names, NEW R, Registered(p, plan, names, R),
         IsList(sx_coeffs), Len(sx_coeffs) = 4 * N, sx_coeffs[plan[1].num_constraints] = 1
  PROVE  SX!Reversed[1] = 1
<1> DEFINE range(s) == plan[s].constraint_start + 1
                         .. plan[s].constraint_start + plan[s].num_constraints
           at(j) == { s \in DOMAIN plan : j \in range(s) }
           from(s, j) == 2 * plan[s].constraint_start + plan[s].num_constraints + 1 - j
           m == plan[1].num_constraints
<1>1. SX!Reversed = [j \in DOMAIN sx_coeffs |->
         IF at(j) = {} THEN sx_coeffs[j] ELSE sx_coeffs[from(CHOOSE s \in at(j) : TRUE, j)]]
  BY DEF SX!Reversed
<1>2. IsList(plan) /\ Names(names, Len(plan)) /\ \A i \in 1 .. Len(plan) : Placed(p, plan, names, i)
  BY DEF Registered
<1>3. DOMAIN plan = 1 .. Len(plan) /\ Len(plan) \in Nat \ {0} /\ names[1] = Main
  BY <1>2, ListIs DEF Names
<1>4. 1 \in 1 .. Len(plan)
  BY <1>3
<1>5. m \in Nat /\ plan[1].constraint_start = 0 /\ m = ConstraintsDone(p, Main, Last(p, Main))
  BY <1>2, <1>3, <1>4 DEF Placed, CountedTo
<1>6. m >= 1
  BY OneEnforced
<1> HIDE DEF m
<1>7. 1 \in range(1)
  <2>1. plan[1].num_constraints = m
    BY DEF m
  <2> QED
    BY <1>5, <1>6, <2>1
<1>8. ASSUME NEW s \in DOMAIN plan, 1 \in range(s) PROVE s = 1
  <2>1. s \in 1 .. Len(plan)
    BY <1>3
  <2>2. plan[s].constraint_start \in Nat
        /\ (s # 1 => plan[s].constraint_start >= plan[1].num_constraints)
    BY <2>1, <1>2 DEF Placed
  <2>3. plan[1].num_constraints = m
    BY DEF m
  <2>4. plan[s].num_constraints \in Nat
    BY <2>1, <1>2 DEF Placed
  <2>5. plan[s].constraint_start + 1 <= 1
    BY <1>8, <2>2, <2>4
  <2> QED
    BY <1>6, <2>2, <2>3, <2>5, <1>5
<1> HIDE DEF range
<1>9. at(1) = {1}
  BY <1>3, <1>4, <1>7, <1>8
<1>10. (CHOOSE s \in at(1) : TRUE) = 1
  BY <1>9
<1>11. from(1, 1) = m
  <2>1. plan[1].num_constraints = m
    BY DEF m
  <2> QED
    BY <2>1, <1>5
<1>12. 1 \in DOMAIN sx_coeffs
  <2>1. DOMAIN sx_coeffs = 1 .. 4 * N
    BY ListIs
  <2> QED
    BY <2>1, FieldAssumption
<1> HIDE DEF at, from
<1>13. SX!Reversed[1] = IF at(1) = {} THEN sx_coeffs[1] ELSE sx_coeffs[from(CHOOSE s \in at(1) : TRUE, 1)]
  BY <1>1, <1>12
<1>14. at(1) # {}
  BY <1>9
<1> QED
  BY <1>10, <1>11, <1>13, <1>14 DEF m

(* The circuit's end.                                                      *)
LEMMA SXFinishes ==
  ASSUME prog \in Programs, NEW names, NEW R, Registered(prog, plan, names, R), SXInv(R),
         SX!Finishes
  PROVE  SXInv(R)'
<1> DEFINE f == sx_stack[1]
           n == sx_routine + 1
<1>1. sx_pc = "run" /\ AtEnd(prog, f.call) /\ sx_routine' = sx_routine /\ Len(sx_stack) = 1
  BY SXBodies DEF SX!Finishes, SX!Top
<1>2. /\ PointWalk(prog, plan, R, sx_stack, n) /\ EndsInOne(prog, plan, sx_stack, sx_coeffs)
      /\ IsList(sx_coeffs) /\ Len(sx_coeffs) = 4 * N
  BY <1>1 DEF SXInv
<1>3. /\ n = Len(plan) /\ Filled(plan, f)
      /\ f.call.at = Last(prog, f.call.name) /\ f.seg = 1 /\ f.call.name = Main
  <2> HIDE DEF n
  <2>1. /\ AtEnd(prog, f.call) => Filled(plan, f)
        /\ AtEnd(prog, f.call) /\ Len(sx_stack) = 1 => n = Len(plan)
    BY ONLY prog \in Programs, Registered(prog, plan, names, R), <1>2, PTop
  <2>2. Tracks(prog, plan, R, sx_stack, n)
    BY <1>2 DEF PointWalk
  <2> DEFINE k == 1
  <2>3. k \in 1 .. Len(sx_stack) /\ k = Len(sx_stack)
    BY <1>1
  <2> HIDE DEF k
  <2>4. names[sx_stack[k].seg] = sx_stack[k].call.name /\ (sx_stack[k].seg = 1 <=> k = Len(sx_stack))
    BY ONLY prog \in Programs, Registered(prog, plan, names, R), <2>2, <2>3, ESpots
  <2>5. AtEnd(prog, sx_stack[k].call) <=> sx_stack[k].call.at = Last(prog, sx_stack[k].call.name)
    BY ONLY prog \in Programs, Registered(prog, plan, names, R), <2>2, <2>3, EFits
  <2>6. names[1] = Main
    BY DEF Registered, Names
  <2> QED
    BY <1>1, <2>1, <2>3, <2>4, <2>5, <2>6 DEF k
<1>4. sx_coeffs[plan[1].num_constraints] = 1
  BY <1>1, <1>2, <1>3 DEF EndsInOne
<1>5. SX!Reversed[1] = 1
  <2>1. Len(plan) \in Nat \ {0} /\ IsList(plan)
    BY DEF Registered, Names
  <2>2. plan # <<>>
    BY <2>1, ListIs
  <2> QED
    BY ONLY prog \in Programs, Registered(prog, plan, names, R), <1>2, <1>4, <2>2, OneComesFirst
<1>6. sx_pc' = "done"
  <2> HIDE DEF f
  <2>1. SX!Top = f /\ (SX!Filled(plan, f) <=> Filled(plan, f))
    BY SXBodies DEF SX!Top, f
  <2> QED
    BY <1>3, <1>5, <2>1 DEF SX!Finishes, n
<1> QED
  BY <1>1, <1>6 DEF SXInv, Progressing

(* Every step of sx keeps its invariant.                                   *)
LEMMA SXKeeps ==
  ASSUME prog \in Programs, NEW names, NEW R, Registered(prog, plan, names, R), SXInv(R), SX!Next
  PROVE  SXInv(R)'
<1>1. CASE SX!Starts
  BY <1>1, SXStarts
<1>2. CASE SX!Gates \/ SX!AssignsExtra \/ SX!Adds \/ SX!EnforcesZero
  BY <1>2, SXGoesOn
<1>3. CASE SX!EntersRoutine
  BY <1>3, SXEnters
<1>4. CASE SX!LeavesRoutine
  BY <1>4, SXLeaves
<1>5. CASE SX!Finishes
  BY <1>5, SXFinishes
<1> QED
  BY <1>1, <1>2, <1>3, <1>4, <1>5 DEF SX!Next
-----------------------------------------------------------------------------
WiringInv == prog \in Programs /\ SYP!IInv /\ SYP!Acyclic(wires)

(* Well-wired circuits.                                                    *)
LEMMA SameWiring == \A p : SYP!WellWired(p) <=> WellWired(p)
BY DEF WellWired, CallsOf, Arity, WiresBefore, Binds, Reads, OpsOf, Main, EnforceZero,
       SYP!WellWired, SYP!CallsOf, SYP!Arity, SYP!WiresBefore, SYP!Binds, SYP!Reads, SYP!OpsOf,
       SYP!Main, SYP!EnforceZero

(* The start.                                                              *)
LEMMA SameStart == SY!Init => SYP!Init
BY DEF SY!Init, SYP!Init

(* add() with everything it is made of.                                    *)
LEMMA SameAdds == SY!Adds => SYP!Adds
BY DEF SY!Adds, SY!Calling, SY!AboutTo, SY!AtEnd, SY!OpsOf, SY!Main,
       SY!EnforceZero, SY!NextOp, SY!Top, SY!NextCall, SY!Clean, SY!Referred,
       SY!RefsTo, SY!Cardinality, SY!IsFiniteSet, SY!Go, SY!Hold, SY!Bind,
       SY!Advanced, SY!input, SYP!Adds, SYP!Calling, SYP!AboutTo, SYP!AtEnd,
       SYP!OpsOf, SYP!Main, SYP!EnforceZero, SYP!NextOp, SYP!Top, SYP!NextCall,
       SYP!Clean, SYP!Referred, SYP!RefsTo, SYP!Cardinality, SYP!IsFiniteSet,
       SYP!Go, SYP!Hold, SYP!Bind, SYP!Advanced, SYP!input

(* free() with everything it is made of.                                   *)
LEMMA SameFreesVirtual == SY!FreesVirtual => SYP!FreesVirtual
BY DEF SY!FreesVirtual, SY!IsVirtual, SY!Plus, SY!Give, SY!Times, SY!Retire,
       SY!input, SYP!FreesVirtual, SYP!IsVirtual, SYP!Plus, SYP!Give, SYP!Times,
       SYP!Retire, SYP!input

(* The end with everything it is made of.                                  *)
LEMMA SameFinishes == SY!Finishes => SYP!Finishes
BY DEF SY!Finishes, SY!AtEnd, SY!OpsOf, SY!Main, SY!EnforceZero, SY!Top,
       SY!HeldVirtual, SY!IsVirtual, SY!Filled, SY!input, SY!table, SYP!Finishes,
       SYP!AtEnd, SYP!OpsOf, SYP!Main, SYP!EnforceZero, SYP!Top, SYP!HeldVirtual,
       SYP!IsVirtual, SYP!Filled, SYP!input, SYP!table

(* Every step, action by action.                                           *)
LEMMA SameStep == SY!Next => SYP!Next
<1> SUFFICES ASSUME SY!Next PROVE SYP!Next
  OBVIOUS
<1>1. SY!StartsAtZero => SYP!StartsAtZero
  BY DEF SY!StartsAtZero, SY!ONE, SY!input, SYP!StartsAtZero, SYP!ONE, SYP!input
<1>2. SY!Starts => SYP!Starts
  BY DEF SY!Starts, SY!TotalGates, SY!NewScope, SY!NewCallFrame, SY!ONE, SY!Power, SY!Times, SY!Squared,
         SY!Main, SY!input, SYP!Starts, SYP!TotalGates, SYP!NewScope,
         SYP!NewCallFrame, SYP!ONE, SYP!Power, SYP!Times, SYP!Squared, SYP!Main, SYP!input
<1>3. SY!Gates => SYP!Gates
  BY DEF SY!Gates, SY!Calling, SY!AboutTo, SY!AtEnd, SY!OpsOf, SY!Main,
         SY!EnforceZero, SY!NextOp, SY!Top, SY!NoRoomForGate, SY!Hold, SY!Bind,
         SY!Advanced, SY!Go, SY!input, SY!table, SYP!Gates, SYP!Calling,
         SYP!AboutTo, SYP!AtEnd, SYP!OpsOf, SYP!Main, SYP!EnforceZero, SYP!NextOp,
         SYP!Top, SYP!NoRoomForGate, SYP!Hold, SYP!Bind, SYP!Advanced, SYP!Go,
         SYP!input, SYP!table
<1>4. SY!AssignsExtra => SYP!AssignsExtra
  BY DEF SY!AssignsExtra, SY!Calling, SY!AboutTo, SY!AtEnd, SY!OpsOf, SY!Main,
         SY!EnforceZero, SY!NextOp, SY!Top, SY!Go, SY!Hold, SY!Bind, SY!Advanced,
         SY!NextCall, SY!input, SY!table, SYP!AssignsExtra, SYP!Calling,
         SYP!AboutTo, SYP!AtEnd, SYP!OpsOf, SYP!Main, SYP!EnforceZero, SYP!NextOp,
         SYP!Top, SYP!Go, SYP!Hold, SYP!Bind, SYP!Advanced, SYP!NextCall,
         SYP!input, SYP!table
<1>5. SY!Adds => SYP!Adds
  BY SameAdds
<1>6. SY!EnforcesZero => SYP!EnforcesZero
  BY DEF SY!EnforcesZero, SY!Calling, SY!AboutTo, SY!AtEnd, SY!OpsOf, SY!Main,
         SY!EnforceZero, SY!NextOp, SY!Top, SY!NoRoomForConstraint, SY!NextCall,
         SY!Plus, SY!Worth, SY!Go, SY!Reciprocal, SY!Power, SY!Times, SY!Squared, SY!Advanced,
         SY!input, SYP!EnforcesZero, SYP!Calling, SYP!AboutTo, SYP!AtEnd,
         SYP!OpsOf, SYP!Main, SYP!EnforceZero, SYP!NextOp, SYP!Top,
         SYP!NoRoomForConstraint, SYP!NextCall, SYP!Plus, SYP!Worth,
         SYP!Go, SYP!Reciprocal, SYP!Power, SYP!Times, SYP!Squared, SYP!Advanced, SYP!input
<1>7. SY!EntersRoutine => SYP!EntersRoutine
  BY DEF SY!EntersRoutine, SY!Calling, SY!AboutTo, SY!AtEnd, SY!OpsOf, SY!Main,
         SY!EnforceZero, SY!NextOp, SY!Top, SY!InputWires, SY!NextCall,
         SY!Advanced, SY!Reads, SY!HeldVirtual, SY!IsVirtual, SY!Needed,
         SY!NewScope, SY!NewCallFrame, SY!ONE, SY!Power, SY!Times, SY!Squared, SY!Referred, SY!RefsTo,
         SY!Cardinality, SY!IsFiniteSet, SY!HandlesTo, SY!input, SYP!EntersRoutine,
         SYP!Calling, SYP!AboutTo, SYP!AtEnd, SYP!OpsOf, SYP!Main, SYP!EnforceZero,
         SYP!NextOp, SYP!Top, SYP!InputWires, SYP!NextCall, SYP!Advanced,
         SYP!Reads, SYP!HeldVirtual, SYP!IsVirtual, SYP!Needed, SYP!NewScope,
         SYP!NewCallFrame, SYP!ONE, SYP!Power, SYP!Times, SYP!Squared, SYP!Referred, SYP!RefsTo,
         SYP!Cardinality, SYP!IsFiniteSet, SYP!HandlesTo, SYP!input
<1>8. SY!LeavesRoutine => SYP!LeavesRoutine
  BY DEF SY!LeavesRoutine, SY!AtEnd, SY!OpsOf, SY!Main, SY!EnforceZero, SY!Top,
         SY!HeldVirtual, SY!IsVirtual, SY!Needed, SY!Reads, SY!OutputWires,
         SY!Filled, SY!RefsTo, SY!Cardinality, SY!IsFiniteSet, SY!HandlesTo,
         SY!input, SYP!LeavesRoutine, SYP!AtEnd, SYP!OpsOf, SYP!Main,
         SYP!EnforceZero, SYP!Top, SYP!HeldVirtual, SYP!IsVirtual, SYP!Needed,
         SYP!Reads, SYP!OutputWires, SYP!Filled, SYP!RefsTo, SYP!Cardinality,
         SYP!IsFiniteSet, SYP!HandlesTo, SYP!input
<1>9. SY!Finishes => SYP!Finishes
  BY SameFinishes
<1>10. SY!Drops => SYP!Drops
  BY DEF SY!Drops, SY!HeldVirtual, SY!IsVirtual, SY!Top, SY!Needed, SY!OpsOf,
         SY!Main, SY!EnforceZero, SY!Reads, SY!Go, SY!Give, SY!input, SYP!Drops,
         SYP!HeldVirtual, SYP!IsVirtual, SYP!Top, SYP!Needed, SYP!OpsOf, SYP!Main,
         SYP!EnforceZero, SYP!Reads, SYP!Go, SYP!Give, SYP!input
<1>11. SY!WritesView => SYP!WritesView
  BY DEF SY!WritesView, SY!IsVirtual, SY!Plus, SY!input, SY!driver, SYP!WritesView,
         SYP!IsVirtual, SYP!Plus, SYP!input, SYP!driver
<1>12. SY!FreesVirtual => SYP!FreesVirtual
  BY SameFreesVirtual
<1>13. SY!Retires => SYP!Retires
  BY DEF SY!Retires, SY!input, SY!driver, SYP!Retires, SYP!input, SYP!driver
<1> QED
  BY <1>1, <1>2, <1>3, <1>4, <1>5, <1>6, <1>7, <1>8, <1>9, <1>10, <1>11, <1>12, <1>13
     DEF SY!Next, SYP!Next

(* The other phases leave sy and the circuit as they are.                  *)
LEMMA OthersLeaveSy ==
  ASSUME Measure \/ Register \/ EvaluateXY \/ EvaluateX \/ Stopped \/ UNCHANGED vars
  PROVE  UNCHANGED <<prog, syVars>>
<1>1. CASE Measure
  <2>1. M!Next => UNCHANGED prog
    BY DEF M!Next, M!AllocatesSystemGate, M!Gates, M!AssignsExtra, M!Adds, M!EnforcesZero,
           M!EntersRoutine, M!LeavesRoutine, M!Finishes
  <2> QED
    BY <1>1, <2>1 DEF Measure
<1>2. CASE Register
  BY <1>2 DEF Register, given
<1>3. CASE EvaluateXY
  <2>1. XY!Next => UNCHANGED prog
    BY DEF XY!Next, XY!Starts, XY!Gates, XY!AssignsExtra, XY!Adds, XY!EnforcesZero,
           XY!EntersRoutine, XY!LeavesRoutine, XY!Finishes, XY!input
  <2> QED
    BY <1>3, <2>1 DEF EvaluateXY
<1>4. CASE EvaluateX
  <2>1. SX!Next => UNCHANGED prog
    BY DEF SX!Next, SX!Starts, SX!Gates, SX!AssignsExtra, SX!Adds, SX!EnforcesZero,
           SX!EntersRoutine, SX!LeavesRoutine, SX!Finishes, SX!input
  <2> QED
    BY <1>4, <2>1 DEF EvaluateX
<1>5. CASE Stopped \/ UNCHANGED vars
  BY <1>5 DEF Stopped, vars, given
<1> QED
  BY <1>1, <1>2, <1>3, <1>4, <1>5

(* The invariant holds when a circuit is taken up ...                      *)
LEMMA WiringStarts == Init => WiringInv
<1> SUFFICES ASSUME Init PROVE WiringInv
  OBVIOUS
<1>1. prog \in Programs
  BY DEF Init, M!Init
<1>2. SYP!Init
  BY SameStart DEF Init
<1>3. SYP!IInv
  BY <1>2, SameParameters, SYP!SyStarts
<1>4. SYP!Acyclic(wires)
  <2>1. SYP!Acyclic(<<>>)
    BY SameParameters, SYP!AcyclicStarts
  <2> QED
    BY <2>1 DEF Init, SY!Init
<1> QED
  BY <1>1, <1>3, <1>4 DEF WiringInv

(* ... and no step of any evaluation breaks it.                            *)
LEMMA WiringKeeps == WiringInv /\ [Next]_vars => WiringInv'
<1> SUFFICES ASSUME WiringInv, [Next]_vars PROVE WiringInv'
  OBVIOUS
<1>1. prog \in Programs /\ SYP!IInv /\ SYP!Acyclic(wires)
  BY DEF WiringInv
<1>2. CASE EvaluateY
  <2>1. SYP!Next /\ UNCHANGED prog
    <3>1. SY!Next => UNCHANGED prog
      BY DEF SY!Next, SY!StartsAtZero, SY!Starts, SY!Gates, SY!AssignsExtra, SY!Adds,
             SY!EnforcesZero, SY!EntersRoutine, SY!LeavesRoutine, SY!Finishes, SY!Drops,
             SY!WritesView, SY!FreesVirtual, SY!Retires, SY!input
    <3> QED
      BY <1>2, <3>1, SameStep DEF EvaluateY
  <2>2. SYP!WellWired(prog)
    BY <1>1, WiresAssumption, SameWiring
  <2>3. SYP!IInv'
    BY <1>1, <2>1, <2>2, SameParameters, SYP!SyKeeps
  <2>4. SYP!Acyclic(wires')
    BY <1>1, <2>1, <2>2, SameParameters, SYP!AcyclicKeeps
  <2>5. SYP!Acyclic(wires)'
    BY <2>4 DEF SYP!Acyclic, SYP!TermsTo, SYP!V
  <2> QED
    BY <1>1, <2>1, <2>3, <2>5 DEF WiringInv
<1>3. CASE ~EvaluateY
  <2>1. UNCHANGED <<prog, syVars>>
    BY <1>3, OthersLeaveSy DEF Next
  <2>2. SYP!IInv'
    BY <1>1, <2>1, SameParameters, SYP!SyStays DEF syVars
  <2>3. SYP!Acyclic(wires)'
    BY <1>1, <2>1 DEF syVars, SYP!Acyclic, SYP!TermsTo, SYP!V
  <2> QED
    BY <1>1, <2>1, <2>2, <2>3 DEF WiringInv
<1> QED
  BY <1>2, <1>3

(* So it always holds.                                                     *)
LEMMA WiringAlways == Spec => []WiringInv
BY WiringStarts, WiringKeeps, PTL DEF Spec

(* Every virtual wire of sy has exactly one count per reference, whatever  *)
(* the circuit, the points and the order its bindings are dropped in: it   *)
(* is resolved with the last of them and not before (sy.rs:137-140).       *)
THEOREM Refcounts == Spec => []RefcountsExact
<1>1. WiringInv => RefcountsExact
  <2>1. SYP!IInv => SYP!RefcountsExact
    BY SameParameters, SYP!SyMeans
  <2>2. SYP!RefcountsExact => SY!RefcountsExact
    BY DEF SYP!RefcountsExact, SYP!References, SYP!HandlesTo, SYP!Cardinality,
           SY!RefcountsExact, SY!References, SY!HandlesTo, SY!Cardinality
  <2> QED
    BY <2>1, <2>2 DEF WiringInv, RefcountsExact
<1> QED
  BY <1>1, WiringAlways, PTL

(* The free list names each spent slot once and no slot in use, so add()   *)
(* never overwrites a wire that is still referred to (sy.rs:330-345).      *)
THEOREM FreeList == Spec => []FreeListSound
<1>1. WiringInv => FreeListSound
  <2>1. SYP!IInv => SYP!FreeListSound
    BY SameParameters, SYP!SyMeans
  <2>2. SYP!FreeListSound => SY!FreeListSound
    BY DEF SYP!FreeListSound, SYP!Clean, SYP!Retire, SY!FreeListSound, SY!Clean, SY!Retire
  <2> QED
    BY <2>1, <2>2 DEF WiringInv, FreeListSound
<1> QED
  BY <1>1, WiringAlways, PTL

(* The assertions of the virtual wire table never fire: free() never meets *)
(* a count of zero (sy.rs:291), and the slot that alloc() pops is spent    *)
(* (sy.rs:324-326).                                                        *)
THEOREM TableNeverPanics == Spec => [][SY!FreesVirtual \/ SY!Adds => UNCHANGED sy_pc]_vars
<1>1. ASSUME WiringInv, SY!FreesVirtual \/ SY!Adds PROVE UNCHANGED sy_pc
  <2>1. SYP!FreesVirtual \/ SYP!Adds
    BY <1>1, SameFreesVirtual, SameAdds
  <2>2. SYP!IInv
    BY <1>1 DEF WiringInv
  <2> QED
    BY <2>1, <2>2, SameParameters, SYP!SyNeverUnderflows
<1>2. WiringInv /\ [Next]_vars => [SY!FreesVirtual \/ SY!Adds => UNCHANGED sy_pc]_vars
  BY <1>1
<1> QED
  BY <1>2, WiringAlways, PTL DEF Spec
-----------------------------------------------------------------------------
(* The frame on top changes, but not where it is.                          *)
LEMMA EStays ==
  ASSUME NEW p, NEW pl, NEW R, NEW stk, NEW n, Tracks(p, pl, R, stk, n),
         NEW g, ESpot(g) = ESpot(stk[1]), g.gates = stk[1].gates, g.constraints = stk[1].constraints,
         NEW stk2, Retopped(stk2, g, stk)
  PROVE  Tracks(p, pl, R, stk2, n)
<1>1. /\ IsList(stk) /\ stk # <<>> /\ EControl(stk, n) \in R
      /\ \A k \in 1 .. Len(stk) : InPlace(p, pl, stk[k])
  BY DEF Tracks
<1>2. Len(stk) \in Nat \ {0} /\ 1 \in 1 .. Len(stk)
  BY <1>1, ListIs
<1>3. /\ IsList(stk2) /\ Len(stk2) = Len(stk) /\ stk2[1] = g
      /\ \A k \in 2 .. Len(stk) : stk2[k] = stk[k]
  BY DEF Retopped
<1>4. \A k \in 1 .. Len(stk) : /\ ESpot(stk2[k]) = ESpot(stk[k]) /\ stk2[k].gates = stk[k].gates
                               /\ stk2[k].constraints = stk[k].constraints
  <2> SUFFICES ASSUME NEW k \in 1 .. Len(stk)
               PROVE  /\ ESpot(stk2[k]) = ESpot(stk[k]) /\ stk2[k].gates = stk[k].gates
                      /\ stk2[k].constraints = stk[k].constraints
    OBVIOUS
  <2>1. CASE k = 1
    BY <2>1, <1>3
  <2>2. CASE k # 1
    <3>1. k \in 2 .. Len(stk)
      BY <2>2, <1>2
    <3> QED
      BY <3>1, <1>3
  <2> QED
    BY <2>1, <2>2
<1>5. EControl(stk2, n) = EControl(stk, n)
  <2>1. [k \in 1 .. Len(stk2) |-> ESpot(stk2[k])] = [k \in 1 .. Len(stk) |-> ESpot(stk[k])]
    BY <1>3, <1>4
  <2> QED
    BY <2>1, <1>3 DEF EControl
<1>6. ASSUME NEW k \in 1 .. Len(stk2) PROVE InPlace(p, pl, stk2[k])
  <2>1. k \in 1 .. Len(stk) /\ InPlace(p, pl, stk[k])
    BY <1>1, <1>3
  <2>2. /\ stk2[k].call.name = stk[k].call.name /\ stk2[k].call.at = stk[k].call.at
        /\ stk2[k].seg = stk[k].seg
    BY <2>1, <1>4 DEF ESpot, Spot
  <2> QED
    BY <2>1, <2>2, <1>4 DEF InPlace
<1>7. stk2 # <<>>
  BY <1>2, <1>3, ListIs
<1> QED
  BY <1>1, <1>3, <1>5, <1>6, <1>7 DEF Tracks
-----------------------------------------------------------------------------
(* The walk of sy.                                                         *)
SYInv(R) ==
  /\ sy_pc \in Progressing /\ sy_routine \in Nat
  /\ sy_pc = "idle" => sy_routine = 0
  /\ sy_pc = "run" => Tracks(prog, plan, R, sy_stack, sy_routine + 1)

(* The bodies of sy are those of the circuit.                              *)
LEMMA SYBodies ==
  \A p, f : /\ SY!AtEnd(p, f) <=> AtEnd(p, f)
            /\ SY!NextOp(p, f) = NextOp(p, f)
            /\ \A kind : SY!AboutTo(p, f, kind) <=> ~AtEnd(p, f) /\ NextOp(p, f).kind = kind
            /\ SY!OutputWires(p, f) = OutputWires(p, f)
            /\ \A op : SY!InputWires(f, op) = InputWires(f, op)
            /\ \A pl, g : SY!Filled(pl, g) <=> Filled(pl, g)
            /\ \A g : /\ SY!NoRoomForGate(N, g) <=> NoRoomForGate(N, g)
                      /\ SY!NoRoomForConstraint(N, g) <=> NoRoomForConstraint(N, g)
BY DEF SY!AtEnd, SY!NextOp, SY!AboutTo, SY!OpsOf, SY!Main, SY!EnforceZero, SY!OutputWires,
       SY!InputWires, SY!Filled, SY!NoRoomForGate, SY!NoRoomForConstraint,
       AtEnd, NextOp, OpsOf, Main, EnforceZero, OutputWires, InputWires, Filled, NoRoomForGate,
       NoRoomForConstraint

(* A frame of sy has its parts.                                            *)
SYShape(f) ==
  /\ DOMAIN f = {"call", "held", "seg", "gates", "constraints", "current_y"}
  /\ DOMAIN f.call = {"name", "at", "extras", "env"}

(* Every frame of a sound state does.                                      *)
LEMMA SYShapes ==
  ASSUME SYP!IInv, IsList(sy_stack), NEW k \in 1 .. Len(sy_stack)
  PROVE  SYShape(sy_stack[k])
<1>1. k \in DOMAIN sy_stack
  BY ListIs
<1> QED
  BY <1>1 DEF SYP!IInv, SYP!Sound, SYP!FramesOk, SYP!FrameOk, SYP!IsFrame, SYShape

(* Its frame on top goes on past a call.                                   *)
SYMoved(f, g, i, j) ==
  ESpot(g) = Onward(ESpot(f)) /\ g.gates = f.gates + i /\ g.constraints = f.constraints + j

(* A frame of sy binds wires.                                              *)
LEMMA SYHolds ==
  ASSUME NEW f, SYShape(f), NEW new
  PROVE  /\ SYShape(SY!Hold(f, new)) /\ ESpot(SY!Hold(f, new)) = Onward(ESpot(f))
         /\ SY!Hold(f, new).gates = f.gates /\ SY!Hold(f, new).constraints = f.constraints
<1> DEFINE c == SY!Bind(f.call, new)
           h == f.held \union (Len(f.call.env) + 1 .. Len(f.call.env) + Len(new))
<1>1. DOMAIN c = {"name", "at", "extras", "env"} /\ c.name = f.call.name /\ c.at = f.call.at + 1
  BY DEF SYShape, SY!Bind, SY!Advanced
<1>2. SY!Hold(f, new) = [f EXCEPT !.call = c, !.held = h]
  BY DEF SY!Hold
<1> HIDE DEF c, h
<1> DEFINE g == [f EXCEPT !.call = c, !.held = h]
<1>3. /\ DOMAIN g = DOMAIN f /\ g.call = c /\ g.seg = f.seg /\ g.gates = f.gates
      /\ g.constraints = f.constraints
  BY DEF SYShape
<1> HIDE DEF g
<1>4. SYShape(g) /\ ESpot(g) = Onward(ESpot(f))
  BY <1>1, <1>3 DEF SYShape, ESpot, Onward, Spot
<1> QED
  BY <1>2, <1>3, <1>4 DEF g

(* It has taken a gate.                                                    *)
LEMMA SYCounts ==
  ASSUME NEW f, SYShape(f)
  PROVE  \A i : /\ ESpot([f EXCEPT !.gates = @ + 1, !.call.extras = Append(@, i)]) = ESpot(f)
                /\ [f EXCEPT !.gates = @ + 1, !.call.extras = Append(@, i)].gates = f.gates + 1
                /\ [f EXCEPT !.gates = @ + 1, !.call.extras = Append(@, i)].constraints = f.constraints
BY DEF SYShape, ESpot, Spot

(* What the walk tells of sy's frame on top.                               *)
LEMMA SYTop ==
  ASSUME NEW p \in Programs, NEW pl, NEW names, NEW R, Registered(p, pl, names, R),
         NEW stk, NEW n, Tracks(p, pl, R, stk, n)
  PROVE  /\ IsList(stk) /\ stk # <<>> /\ Len(stk) \in Nat \ {0} /\ 1 \in 1 .. Len(stk)
         /\ n \in 1 .. Len(pl) /\ DOMAIN pl = 1 .. Len(pl)
         /\ stk[1].gates \in Nat /\ stk[1].constraints \in Nat
         /\ AtEnd(p, stk[1].call) => Filled(pl, stk[1])
         /\ AtEnd(p, stk[1].call) /\ Len(stk) = 1 => n = Len(pl)
         /\ ~AtEnd(p, stk[1].call) =>
              /\ NextOp(p, stk[1].call).kind = "gate" => ~NoRoomForGate(N, stk[1])
              /\ NextOp(p, stk[1].call).kind = "enforce_zero" => ~NoRoomForConstraint(N, stk[1])
<1>1. IsList(stk) /\ stk # <<>>
  BY DEF Tracks
<1>2. Len(stk) \in Nat \ {0} /\ 1 \in 1 .. Len(stk)
  BY <1>1, ListIs
<1>3. IsList(pl)
  BY DEF Registered
<1>4. DOMAIN pl = 1 .. Len(pl)
  BY ONLY <1>3, ListIs
<1>5. /\ stk[1].gates \in Nat /\ stk[1].constraints \in Nat
      /\ AtEnd(p, stk[1].call) => Filled(pl, stk[1])
      /\ ~AtEnd(p, stk[1].call) =>
              /\ NextOp(p, stk[1].call).kind = "gate" => ~NoRoomForGate(N, stk[1])
              /\ NextOp(p, stk[1].call).kind = "enforce_zero" => ~NoRoomForConstraint(N, stk[1])
  BY ONLY <1>2, p \in Programs, Registered(p, pl, names, R), Tracks(p, pl, R, stk, n), EFits
<1>6. n \in 1 .. Len(pl) /\ (AtEnd(p, stk[1].call) /\ Len(stk) = 1 => n = Len(pl))
  BY ONLY p \in Programs, Registered(p, pl, names, R), Tracks(p, pl, R, stk, n), EMoves
<1> QED
  BY ONLY <1>1, <1>2, <1>4, <1>5, <1>6
-----------------------------------------------------------------------------
(* Every call but a routine.                                               *)
LEMMA SYGoesOn ==
  ASSUME prog \in Programs, NEW names, NEW R, Registered(prog, plan, names, R), SYInv(R),
         SYP!IInv, SY!Gates \/ SY!AssignsExtra \/ SY!Adds \/ SY!EnforcesZero
  PROVE  SYInv(R)'
<1> DEFINE f == sy_stack[1]
           n == sy_routine + 1
           kind == NextOp(prog, f.call).kind
<1>1. /\ sy_pc = "run" /\ sy_routine' = sy_routine /\ prog' = prog /\ plan' = plan
      /\ ~AtEnd(prog, f.call) /\ kind # "routine"
  <2>1. SY!input' = SY!input /\ sy_routine' = sy_routine
        /\ \E k \in {"gate", "assign_extra", "add", "enforce_zero"} : SY!Calling(k)
    BY DEF SY!Gates, SY!AssignsExtra, SY!Adds, SY!EnforcesZero, SY!input, SY!table
  <2>2. PICK k \in {"gate", "assign_extra", "add", "enforce_zero"} : SY!Calling(k)
    BY <2>1
  <2>3. sy_pc = "run" /\ ~AtEnd(prog, f.call) /\ kind = k
    BY <2>2, SYBodies DEF SY!Calling, SY!Top
  <2> QED
    BY <2>1, <2>2, <2>3 DEF SY!input
<1>2. Tracks(prog, plan, R, sy_stack, n)
  BY <1>1 DEF SYInv
<1> HIDE DEF n, f, kind
<1>3. /\ IsList(sy_stack) /\ sy_stack # <<>> /\ 1 \in 1 .. Len(sy_stack)
      /\ f.gates \in Nat /\ f.constraints \in Nat
      /\ kind = "gate" => ~NoRoomForGate(N, f)
      /\ kind = "enforce_zero" => ~NoRoomForConstraint(N, f)
  <2>1. /\ IsList(sy_stack) /\ sy_stack # <<>> /\ 1 \in 1 .. Len(sy_stack)
        /\ f.gates \in Nat /\ f.constraints \in Nat
        /\ ~AtEnd(prog, f.call) =>
              /\ NextOp(prog, f.call).kind = "gate" => ~NoRoomForGate(N, f)
              /\ NextOp(prog, f.call).kind = "enforce_zero" => ~NoRoomForConstraint(N, f)
    BY ONLY prog \in Programs, Registered(prog, plan, names, R), <1>2, SYTop DEF f
  <2> QED
    BY <1>1, <2>1 DEF kind
<1>4. SYShape(f)
  BY <1>3, SYShapes DEF f
<1> DEFINE Moved(g) ==
             /\ SYMoved(f, g, IF kind = "gate" THEN 1 ELSE 0, IF kind = "enforce_zero" THEN 1 ELSE 0)
             /\ sy_stack' = [sy_stack EXCEPT ![1] = g] /\ sy_pc' = sy_pc
<1>5. \E g : Moved(g)
  <2>1. CASE SY!Gates
    <3> DEFINE i == f.gates
               h == SY!Hold(f, << <<"a", i>>, <<"b", i>>, <<"c", i>> >>)
               g == [h EXCEPT !.gates = @ + 1, !.call.extras = Append(@, i)]
    <3>1. kind = "gate"
      BY <2>1, SYBodies DEF SY!Gates, SY!Calling, SY!Top, kind, f
    <3>2. sy_stack' = [sy_stack EXCEPT ![1] = g] /\ sy_pc' = sy_pc
      <4>1. ~SY!NoRoomForGate(N, SY!Top)
        BY <3>1, <1>3, SYBodies DEF SY!Top, f
      <4> QED
        BY <2>1, <4>1 DEF SY!Gates, SY!Go, SY!Top, f
    <3>3. /\ SYShape(h) /\ ESpot(h) = Onward(ESpot(f))
          /\ h.gates = f.gates /\ h.constraints = f.constraints
      BY <1>4, SYHolds
    <3> HIDE DEF h
    <3>4. ESpot(g) = ESpot(h) /\ g.gates = h.gates + 1 /\ g.constraints = h.constraints
      BY <3>3, SYCounts
    <3> HIDE DEF g
    <3>5. SYMoved(f, g, 1, 0)
      BY <1>3, <3>3, <3>4 DEF SYMoved
    <3> QED
      BY <3>1, <3>2, <3>5
  <2>2. CASE SY!AssignsExtra \/ SY!Adds
    <3>1. kind \in {"assign_extra", "add"}
      BY <2>2, SYBodies DEF SY!AssignsExtra, SY!Adds, SY!Calling, SY!Top, kind, f
    <3>2. \E new : sy_stack' = [sy_stack EXCEPT ![1] = SY!Hold(f, new)] /\ sy_pc' = sy_pc
      <4>1. CASE SY!AssignsExtra
        BY <4>1 DEF SY!AssignsExtra, SY!Go, SY!Top, f
      <4>2. CASE SY!Adds
        <5>1. SYP!Adds
          BY <4>2, SameAdds
        <5>2. sy_pc' = sy_pc
          BY <5>1, SameParameters, SYP!SyNeverUnderflows
        <5> DEFINE slot == IF free = <<>> THEN Len(wires) + 1 ELSE free[Len(free)]
        <5>3. sy_pc' = "panicked" \/ sy_stack' = [sy_stack EXCEPT ![1] = SY!Hold(f, << <<"v", slot>> >>)]
          BY <4>2 DEF SY!Adds, SY!Go, SY!Top, f
        <5> QED
          BY <1>1, <5>2, <5>3
      <4> QED
        BY <2>2, <4>1, <4>2
    <3>3. PICK new : sy_stack' = [sy_stack EXCEPT ![1] = SY!Hold(f, new)] /\ sy_pc' = sy_pc
      BY <3>2
    <3> DEFINE g == SY!Hold(f, new)
    <3>4. ESpot(g) = Onward(ESpot(f)) /\ g.gates = f.gates /\ g.constraints = f.constraints
      BY <1>4, SYHolds
    <3> HIDE DEF g
    <3>5. SYMoved(f, g, 0, 0)
      BY <1>3, <3>4 DEF SYMoved
    <3>6. Moved(g)
      BY <3>1, <3>3, <3>5 DEF g
    <3> QED
      BY <3>6
  <2>3. CASE SY!EnforcesZero
    <3> DEFINE v == SY!Times(f.current_y, SY!Reciprocal(y))
               c == SY!Advanced(f.call)
               g == [f EXCEPT !.constraints = @ + 1, !.current_y = v, !.call = c]
    <3>1. kind = "enforce_zero"
      BY <2>3, SYBodies DEF SY!EnforcesZero, SY!Calling, SY!Top, kind, f
    <3>2. sy_stack' = [sy_stack EXCEPT ![1] = g] /\ sy_pc' = sy_pc
      <4>1. ~SY!NoRoomForConstraint(N, SY!Top)
        BY <3>1, <1>3, SYBodies DEF SY!Top, f
      <4> QED
        BY <2>3, <4>1 DEF SY!EnforcesZero, SY!Go, SY!Top, f
    <3>3. c.name = f.call.name /\ c.at = f.call.at + 1
      BY <1>4 DEF SYShape, SY!Advanced
    <3> HIDE DEF v, c
    <3>4. g.call = c /\ g.seg = f.seg /\ g.gates = f.gates /\ g.constraints = f.constraints + 1
      BY <1>4 DEF SYShape
    <3> HIDE DEF g
    <3>5. SYMoved(f, g, 0, 1)
      BY <1>3, <3>3, <3>4 DEF SYMoved, ESpot, Onward, Spot
    <3> QED
      BY <3>1, <3>2, <3>5
  <2> QED
    BY <2>1, <2>2, <2>3
<1>6. PICK g : Moved(g)
  BY <1>5
<1> DEFINE stk2 == [sy_stack EXCEPT ![1] = g]
<1>7. Tracks(prog, plan, R, stk2, n)
  <2>1. Retopped(stk2, g, sy_stack)
    BY ONLY <1>3, Replaced
  <2> HIDE DEF stk2
  <2>2. /\ ~AtEnd(prog, sy_stack[1].call) /\ kind = NextOp(prog, sy_stack[1].call).kind
        /\ kind # "routine" /\ ESpot(g) = Onward(ESpot(sy_stack[1]))
        /\ g.gates = sy_stack[1].gates + (IF kind = "gate" THEN 1 ELSE 0)
        /\ g.constraints = sy_stack[1].constraints + (IF kind = "enforce_zero" THEN 1 ELSE 0)
    BY <1>1, <1>6 DEF f, kind, SYMoved
  <2> QED
    BY ONLY prog \in Programs, Registered(prog, plan, names, R), <1>2, <2>1, <2>2, EGoesOn
<1> QED
  BY <1>1, <1>6, <1>7 DEF SYInv, Progressing, n
-----------------------------------------------------------------------------
(* The circuit's own scope; at y = 0 nothing is run.                       *)
LEMMA SYStarts ==
  ASSUME prog \in Programs, NEW names, NEW R, Registered(prog, plan, names, R), SYInv(R),
         SY!StartsAtZero \/ SY!Starts
  PROVE  SYInv(R)'
<1> DEFINE h == SY!NewScope(Main, <<>>, 1)
           g == [h EXCEPT !.gates = @ + 1]
<1>1. sy_routine' = sy_routine /\ prog' = prog /\ plan' = plan /\ sy_routine = 0
  BY DEF SYInv, SY!StartsAtZero, SY!Starts, SY!input
<1>2. CASE SY!StartsAtZero
  BY <1>1, <1>2 DEF SY!StartsAtZero, SYInv, Progressing
<1>3. CASE SY!Starts
  <2>1. plan[1].num_constraints > 0
    <3>1. plan[1].num_constraints >= 1
      BY OneEnforced
    <3>2. plan[1].num_constraints \in Nat
      <4>1. 1 \in 1 .. Len(plan)
        BY DEF Registered, Names
      <4> QED
        BY <4>1 DEF Registered, Placed
    <3> QED
      BY <3>1, <3>2
  <2>2. sy_pc' = "run" /\ sy_stack' = <<g>>
    BY <1>3, <2>1 DEF SY!Starts, SY!Main, Main
  <2>3. /\ DOMAIN h = {"call", "held", "seg", "gates", "constraints", "current_y"}
        /\ h.call.name = Main /\ h.call.at = 1 /\ h.seg = 1
        /\ h.gates = plan[1].gate_start /\ h.constraints = plan[1].constraint_start
    BY DEF SY!NewScope, SY!NewCallFrame
  <2> HIDE DEF h
  <2>4. /\ ESpot(g) = Spot(Main, 1, 1) /\ g.gates = plan[1].gate_start + 1
        /\ g.constraints = plan[1].constraint_start
    BY <2>3 DEF ESpot
  <2> HIDE DEF g
  <2>5. Tracks(prog, plan, R, <<g>>, 1)
    BY ONLY <2>4, prog \in Programs, Registered(prog, plan, names, R), EStarts
  <2> QED
    BY <1>1, <2>2, <2>5 DEF SYInv, Progressing
<1> QED
  BY <1>2, <1>3

(* A routine entered.                                                      *)
LEMMA SYEnters ==
  ASSUME prog \in Programs, NEW names, NEW R, Registered(prog, plan, names, R), SYInv(R),
         SYP!IInv, SY!EntersRoutine
  PROVE  SYInv(R)'
<1> DEFINE f == sy_stack[1]
           n == sy_routine + 1
           op == NextOp(prog, f.call)
           inputs == InputWires(f.call, op)
           g == SY!NewScope(op.name, inputs, n + 1)
           caller == [f EXCEPT !.call = SY!Advanced(f.call)]
<1>1. /\ sy_pc = "run" /\ sy_routine' = sy_routine + 1 /\ prog' = prog /\ plan' = plan
      /\ ~AtEnd(prog, f.call) /\ op.kind = "routine"
  BY SYBodies DEF SY!EntersRoutine, SY!Calling, SY!Top, SY!input
<1>2. Tracks(prog, plan, R, sy_stack, n)
  BY <1>1 DEF SYInv
<1>3. n + 1 = sy_routine + 2
  <2>1. sy_routine \in Nat
    BY DEF SYInv
  <2> QED
    BY <2>1
<1>4. /\ n + 1 \in 1 .. Len(plan)
      /\ \A e, h, stk2 :
              /\ Stacked(stk2, e, h, sy_stack)
              /\ ESpot(e) = Spot(op.name, 1, n + 1)
              /\ e.gates = plan[n + 1].gate_start /\ e.constraints = plan[n + 1].constraint_start
              /\ ESpot(h) = Onward(ESpot(f))
              /\ h.gates = f.gates /\ h.constraints = f.constraints
              => Tracks(prog, plan, R, stk2, n + 1)
  <2> HIDE DEF n
  <2>1. ~AtEnd(prog, sy_stack[1].call) /\ NextOp(prog, sy_stack[1].call).kind = "routine"
    BY <1>1
  <2> QED
    BY ONLY prog \in Programs, Registered(prog, plan, names, R), <1>2, <2>1, EEnters
<1>5. IsList(sy_stack) /\ sy_stack # <<>> /\ 1 \in 1 .. Len(sy_stack) /\ DOMAIN plan = 1 .. Len(plan)
  <2> HIDE DEF n
  <2> QED
    BY ONLY prog \in Programs, Registered(prog, plan, names, R), <1>2, SYTop
<1>6. SYShape(f)
  BY <1>5, SYShapes
<1>7. \E moved : /\ sy_stack' = <<g, [caller EXCEPT !.held = @ \ moved]>> \o Tail(sy_stack)
                 /\ sy_pc' = sy_pc
  <2> HIDE DEF n
  <2>1. sy_routine + 2 \in DOMAIN plan
    BY <1>3, <1>4, <1>5
  <2>2. SY!NextCall = op /\ SY!InputWires(SY!Top.call, SY!NextCall) = inputs
    BY SYBodies DEF SY!NextCall, SY!Top
  <2> HIDE DEF op, inputs
  <2> QED
    BY <1>3, <2>1, <2>2 DEF SY!EntersRoutine, SY!Top
<1>8. PICK moved : /\ sy_stack' = <<g, [caller EXCEPT !.held = @ \ moved]>> \o Tail(sy_stack)
                   /\ sy_pc' = sy_pc
  BY <1>7
<1> DEFINE h == [caller EXCEPT !.held = @ \ moved]
           stk2 == <<g, h>> \o Tail(sy_stack)
<1>9. /\ ESpot(h) = Onward(ESpot(f)) /\ h.gates = f.gates /\ h.constraints = f.constraints
  <2> DEFINE c == SY!Advanced(f.call)
  <2>1. c.name = f.call.name /\ c.at = f.call.at + 1
    BY <1>6 DEF SYShape, SY!Advanced
  <2> HIDE DEF c, f
  <2>2. /\ DOMAIN caller = DOMAIN f /\ caller.call = c /\ caller.seg = f.seg /\ caller.gates = f.gates
        /\ caller.constraints = f.constraints
    BY <1>6 DEF SYShape, c
  <2> HIDE DEF caller
  <2>3. /\ h.call = c /\ h.seg = f.seg /\ h.gates = f.gates /\ h.constraints = f.constraints
    BY <1>6, <2>2 DEF SYShape
  <2> HIDE DEF h
  <2> QED
    BY <2>1, <2>3 DEF ESpot, Onward, Spot
<1>10. /\ ESpot(g) = Spot(op.name, 1, n + 1)
       /\ g.gates = plan[n + 1].gate_start /\ g.constraints = plan[n + 1].constraint_start
  <2> HIDE DEF n, inputs, op
  <2> QED
    BY DEF SY!NewScope, SY!NewCallFrame, ESpot
<1> HIDE DEF g, h
<1>11. Stacked(stk2, g, h, sy_stack)
  BY ONLY <1>5, PushedOver
<1> HIDE DEF stk2, op
<1>12. Tracks(prog, plan, R, stk2, n + 1)
  BY ONLY <1>4, <1>9, <1>10, <1>11
<1>13. sy_stack' = stk2
  BY <1>8 DEF stk2, h
<1>14. sy_routine' + 1 = n + 1 /\ sy_routine' \in Nat
  BY <1>1 DEF n, SYInv
<1> QED
  BY <1>1, <1>8, <1>12, <1>13, <1>14 DEF SYInv, Progressing

(* A routine left.                                                         *)
LEMMA SYLeaves ==
  ASSUME prog \in Programs, NEW names, NEW R, Registered(prog, plan, names, R), SYInv(R),
         SYP!IInv, SY!LeavesRoutine
  PROVE  SYInv(R)'
<1> DEFINE f == sy_stack[1]
           n == sy_routine + 1
           outs == OutputWires(prog, f.call)
           size == Len(sy_stack[2].call.env)
           g == [sy_stack[2] EXCEPT !.call.env = @ \o outs,
                                    !.held = @ \union (size + 1 .. size + Len(outs))]
           stk2 == <<g>> \o Tail(Tail(sy_stack))
<1>1. /\ sy_pc = "run" /\ AtEnd(prog, f.call) /\ prog' = prog /\ plan' = plan
      /\ sy_routine' = sy_routine /\ Len(sy_stack) > 1
  BY SYBodies DEF SY!LeavesRoutine, SY!Top, SY!input
<1>2. Tracks(prog, plan, R, sy_stack, n)
  BY <1>1 DEF SYInv
<1>3. Filled(plan, f) /\ IsList(sy_stack) /\ Len(sy_stack) \in Nat
  <2> HIDE DEF n
  <2>1. AtEnd(prog, f.call) => Filled(plan, f)
    BY ONLY prog \in Programs, Registered(prog, plan, names, R), <1>2, SYTop
  <2>2. IsList(sy_stack) /\ Len(sy_stack) \in Nat \ {0}
    BY ONLY prog \in Programs, Registered(prog, plan, names, R), <1>2, SYTop
  <2> QED
    BY <1>1, <2>1, <2>2
<1>4. sy_stack' = stk2 /\ sy_pc' = sy_pc
  <2> HIDE DEF n
  <2>1. SY!Filled(plan, SY!Top) /\ SY!OutputWires(prog, SY!Top.call) = outs
    BY <1>3, SYBodies DEF SY!Top
  <2> HIDE DEF outs
  <2> QED
    BY <2>1 DEF SY!LeavesRoutine
<1>5. SYShape(sy_stack[2])
  <2>1. 2 \in 1 .. Len(sy_stack)
    BY <1>1, <1>3
  <2> QED
    BY <1>3, <2>1, SYShapes
<1>6. ESpot(g) = ESpot(sy_stack[2]) /\ g.gates = sy_stack[2].gates /\ g.constraints = sy_stack[2].constraints
  <2> DEFINE e == sy_stack[2]
             more == size + 1 .. size + Len(outs)
             c == [e.call EXCEPT !.env = @ \o outs]
  <2> HIDE DEF outs, more
  <2>1. c.name = e.call.name /\ c.at = e.call.at
    BY <1>5 DEF SYShape
  <2>2. g.call = c /\ g.seg = e.seg /\ g.gates = e.gates /\ g.constraints = e.constraints
    BY <1>5 DEF SYShape
  <2> HIDE DEF g, c
  <2> QED
    BY <2>1, <2>2 DEF ESpot, Spot
<1> HIDE DEF g
<1>7. Unstacked(stk2, g, sy_stack)
  BY ONLY <1>1, <1>3, PoppedOver
<1> HIDE DEF stk2, n
<1>8. Tracks(prog, plan, R, stk2, n)
  BY ONLY prog \in Programs, Registered(prog, plan, names, R), <1>2, <1>1, <1>6, <1>7, ELeaves
<1> QED
  BY <1>1, <1>4, <1>8 DEF SYInv, Progressing, n

(* The circuit's end: every segment is filled and no slot has leaked.      *)
LEMMA SYFinishes ==
  ASSUME prog \in Programs, NEW names, NEW R, Registered(prog, plan, names, R), SYInv(R),
         Len(free) = Len(wires), SY!Finishes
  PROVE  SYInv(R)'
<1> DEFINE f == sy_stack[1]
           n == sy_routine + 1
<1>1. /\ sy_pc = "run" /\ AtEnd(prog, f.call) /\ sy_routine' = sy_routine /\ Len(sy_stack) = 1
  BY SYBodies DEF SY!Finishes, SY!Top
<1>2. Tracks(prog, plan, R, sy_stack, n)
  BY <1>1 DEF SYInv
<1>3. Filled(plan, f) /\ n = Len(plan)
  <2> HIDE DEF n
  <2>1. /\ AtEnd(prog, f.call) => Filled(plan, f)
        /\ AtEnd(prog, f.call) /\ Len(sy_stack) = 1 => n = Len(plan)
    BY ONLY prog \in Programs, Registered(prog, plan, names, R), <1>2, SYTop
  <2> QED
    BY <1>1, <2>1
<1>4. SY!Filled(plan, SY!Top)
  BY <1>3, SYBodies DEF SY!Top
<1>5. sy_pc' = "done"
  BY <1>3, <1>4 DEF SY!Finishes
<1> QED
  BY <1>1, <1>5 DEF SYInv, Progressing

(* A handle dropped, and the steps of free().                              *)
LEMMA SYDrops ==
  ASSUME prog \in Programs, NEW names, NEW R, Registered(prog, plan, names, R), SYInv(R),
         SYP!IInv, SY!Drops \/ SY!WritesView \/ SY!FreesVirtual \/ SY!Retires
  PROVE  SYInv(R)'
<1> DEFINE f == sy_stack[1]
           n == sy_routine + 1
<1>1. CASE SY!WritesView \/ SY!FreesVirtual \/ SY!Retires
  <2>1. SY!input' = SY!input /\ sy_stack' = sy_stack /\ sy_routine' = sy_routine
    BY <1>1 DEF SY!WritesView, SY!FreesVirtual, SY!Retires, SY!driver, SY!input
  <2>2. sy_pc' = sy_pc
    <3>1. SY!FreesVirtual => sy_pc' = sy_pc
      <4> SUFFICES ASSUME SY!FreesVirtual PROVE sy_pc' = sy_pc
        OBVIOUS
      <4>1. SYP!FreesVirtual
        BY SameFreesVirtual
      <4> QED
        BY <4>1, SameParameters, SYP!SyNeverUnderflows
    <3> QED
      BY <1>1, <3>1 DEF SY!WritesView, SY!Retires, SY!driver
  <2> QED
    BY <2>1, <2>2 DEF SYInv, SY!input
<1>2. CASE SY!Drops
  <2>1. PICK k : sy_stack' = [sy_stack EXCEPT ![1] = [f EXCEPT !.held = @ \ {k}]] /\ sy_pc' = sy_pc
    BY <1>2 DEF SY!Drops, SY!Go, SY!Top
  <2>2. sy_pc = "run" /\ prog' = prog /\ plan' = plan /\ sy_routine' = sy_routine
    BY <1>2 DEF SY!Drops, SY!input
  <2>3. Tracks(prog, plan, R, sy_stack, n)
    BY <2>2 DEF SYInv
  <2>4. IsList(sy_stack) /\ sy_stack # <<>> /\ 1 \in 1 .. Len(sy_stack)
    <3> HIDE DEF n
    <3> QED
      BY ONLY prog \in Programs, Registered(prog, plan, names, R), <2>3, SYTop
  <2>5. SYShape(f)
    BY <2>4, SYShapes
  <2> DEFINE g == [f EXCEPT !.held = @ \ {k}]
             stk2 == [sy_stack EXCEPT ![1] = g]
  <2>6. ESpot(g) = ESpot(f) /\ g.gates = f.gates /\ g.constraints = f.constraints
    BY <2>5 DEF SYShape, ESpot
  <2>7. sy_stack' = stk2
    BY <2>1
  <2> HIDE DEF g
  <2>8. Retopped(stk2, g, sy_stack)
    BY ONLY <2>4, Replaced
  <2> HIDE DEF stk2, n
  <2>9. Tracks(prog, plan, R, stk2, n)
    BY ONLY <2>3, <2>6, <2>8, EStays
  <2> QED
    BY <2>1, <2>2, <2>7, <2>9 DEF SYInv, Progressing, n
<1> QED
  BY <1>1, <1>2

(* Every step of sy keeps its invariant.                                   *)
LEMMA SYKeeps ==
  ASSUME WiringInv, NEW names, NEW R, Registered(prog, plan, names, R), SYInv(R), SY!Next
  PROVE  SYInv(R)'
<1>1. prog \in Programs /\ SYP!IInv /\ SYP!Acyclic(wires) /\ SYP!WellWired(prog)
  BY WiresAssumption, SameWiring DEF WiringInv
<1>2. SY!Finishes => Len(free) = Len(wires)
  <2> SUFFICES ASSUME SY!Finishes PROVE Len(free) = Len(wires)
    OBVIOUS
  <2>1. SYP!Finishes
    BY SameFinishes
  <2> QED
    BY <1>1, <2>1, SameParameters, SYP!SyFrees
<1> QED
  BY <1>1, <1>2, SYStarts, SYGoesOn, SYEnters, SYLeaves, SYFinishes, SYDrops DEF SY!Next
-----------------------------------------------------------------------------
(* Before it is registered, and if it is refused, no evaluator has begun;  *)
(* after that each of them is on the walk of the registered circuit.       *)
Waiting ==
  /\ xy_pc = "idle" /\ xy_routine = 0
  /\ sx_pc = "idle" /\ sx_routine = 0 /\ IsList(sx_coeffs) /\ Len(sx_coeffs) = 4 * N
  /\ sy_pc = "idle" /\ sy_routine = 0
Evaluating(names, R) ==
  Registered(prog, plan, names, R) /\ XYInv(R) /\ SXInv(R) /\ SYInv(R)
WalkInv ==
  IF phase \in {"measure", "refused"} THEN Waiting ELSE \E names, R : Evaluating(names, R)

(* At first no evaluator has begun.                                        *)
LEMMA WalkStarts == Init => WalkInv
<1> SUFFICES ASSUME Init PROVE WalkInv
  OBVIOUS
<1> DEFINE top == 4 * N
           cs == [j \in 1 .. top |-> 0]
<1>1. top \in Nat
  BY FieldAssumption
<1>2. cs \in Seq({0}) /\ Len(cs) = top
  <2> HIDE DEF top
  <2> QED
    BY <1>1
<1>3. sx_coeffs = cs
  BY DEF Init, SX!Init, SX!NumCoeffs
<1> HIDE DEF cs
<1>4. IsList(cs)
  BY <1>2, ListOf
<1>5. Waiting
  BY <1>2, <1>3, <1>4 DEF Init, XY!Init, SX!Init, SY!Init, Waiting
<1> QED
  BY <1>5 DEF Init, WalkInv

(* A registered circuit is where its measurement was: it can be walked.    *)
LEMMA WalkRegisters ==
  ASSUME CountInv, WalkInv, Register
  PROVE  WalkInv'
<1>1. /\ phase = "measure" /\ mpc = "done" /\ prog' = prog
      /\ UNCHANGED <<xyVars, sxVars, syVars>>
      /\ prog \in Programs /\ M!TotalsAreSums /\ MeterInv /\ Waiting
  BY DEF Register, given, CountInv, WalkInv
<1>2. Waiting'
  BY <1>1 DEF Waiting, xyVars, sxVars, syVars
<1>3. CASE BoundError(N, num_gates, num_constraints) = Ok
  <2>1. phase' = "sxy" /\ plan' = FloorPlan(segments)
    BY <1>3 DEF Register
  <2>2. num_gates = GateTotal(segments) /\ num_constraints = ConstraintTotal(segments)
    BY <1>1, SameTotals DEF M!TotalsAreSums
  <2>3. MeterAt /\ Over(prog, MControl(mstack, Len(segments)))
    BY <1>1 DEF MeterInv
  <2>4. PICK names, R : Metered(prog, names, R, mstack, segments)
    BY <2>3 DEF MeterAt
  <2>5. BoundError(N, GateTotal(segments), ConstraintTotal(segments)) = Ok
    BY <1>3, <2>2
  <2>6. Registered(prog, FloorPlan(segments), names, R)
    BY ONLY <1>1, <2>3, <2>4, <2>5, CanRegister
  <2>7. Registered(prog', plan', names, R)
    BY <1>1, <2>1, <2>6
  <2>8. XYInv(R)' /\ SXInv(R)' /\ SYInv(R)'
    BY <1>2 DEF Waiting, XYInv, SXInv, SYInv, Progressing
  <2>9. Evaluating(names, R)'
    BY <2>7, <2>8 DEF Evaluating
  <2> QED
    BY <2>1, <2>9 DEF WalkInv
<1>4. CASE BoundError(N, num_gates, num_constraints) # Ok
  <2>1. phase' = "refused"
    BY <1>4 DEF Register
  <2> QED
    BY <2>1, <1>2 DEF WalkInv
<1> QED
  BY <1>3, <1>4

(* No step of an evaluator leaves the walk.                                *)
LEMMA WalkKeeps ==
  ASSUME WiringInv, CountInv, WalkInv, [Next]_vars
  PROVE  WalkInv'
<1>1. prog \in Programs
  BY DEF WiringInv
<1>2. CASE Measure
  <2>1. phase = "measure" /\ UNCHANGED <<phase, xyVars, sxVars, syVars>>
    BY <1>2 DEF Measure
  <2> QED
    BY <2>1 DEF WalkInv, Waiting, xyVars, sxVars, syVars
<1>3. CASE Register
  BY <1>3, WalkRegisters
<1>4. CASE Stopped \/ UNCHANGED vars
  <2>1. UNCHANGED vars
    BY <1>4 DEF Stopped
  <2>2. UNCHANGED <<prog, plan, phase, xyVars, sxVars, syVars>>
    BY <2>1 DEF vars, given
  <2> QED
    BY <2>2 DEF WalkInv, Waiting, Evaluating, XYInv, SXInv, SYInv, xyVars, sxVars, syVars
<1>5. ASSUME phase \in {"sxy", "sx", "sy"}, NEW names, NEW R, Evaluating(names, R),
             EvaluateXY \/ EvaluateX \/ EvaluateY
      PROVE  WalkInv'
  <2>1. Registered(prog, plan, names, R) /\ XYInv(R) /\ SXInv(R) /\ SYInv(R)
    BY <1>5 DEF Evaluating
  <2>2. CASE EvaluateXY
    <3>1. XY!Next /\ UNCHANGED <<sxVars, syVars>>
      BY <2>2 DEF EvaluateXY
    <3>2. prog' = prog /\ plan' = plan
      BY <3>1 DEF XY!Next, XY!Starts, XY!Gates, XY!AssignsExtra, XY!Adds, XY!EnforcesZero,
                  XY!EntersRoutine, XY!LeavesRoutine, XY!Finishes, XY!input
    <3>3. XYInv(R)'
      BY <1>1, <2>1, <3>1, XYKeeps
    <3>4. SXInv(R)' /\ SYInv(R)'
      BY <2>1, <3>1, <3>2 DEF SXInv, SYInv, sxVars, syVars
    <3>5. phase' \notin {"measure", "refused"}
      BY <1>5, <2>2 DEF EvaluateXY
    <3>6. Registered(prog', plan', names, R)
      BY <2>1, <3>2
    <3> QED
      BY <3>3, <3>4, <3>5, <3>6 DEF WalkInv, Evaluating
  <2>3. CASE EvaluateX
    <3>1. SX!Next /\ UNCHANGED <<xyVars, syVars>>
      BY <2>3 DEF EvaluateX
    <3>2. prog' = prog /\ plan' = plan
      BY <3>1 DEF SX!Next, SX!Starts, SX!Gates, SX!AssignsExtra, SX!Adds, SX!EnforcesZero,
                  SX!EntersRoutine, SX!LeavesRoutine, SX!Finishes, SX!input
    <3>3. SXInv(R)'
      BY <1>1, <2>1, <3>1, SXKeeps
    <3>4. XYInv(R)' /\ SYInv(R)'
      BY <2>1, <3>1, <3>2 DEF XYInv, SYInv, xyVars, syVars
    <3>5. phase' \notin {"measure", "refused"}
      BY <1>5, <2>3 DEF EvaluateX
    <3>6. Registered(prog', plan', names, R)
      BY <2>1, <3>2
    <3> QED
      BY <3>3, <3>4, <3>5, <3>6 DEF WalkInv, Evaluating
  <2>4. CASE EvaluateY
    <3>1. SY!Next /\ UNCHANGED <<xyVars, sxVars>>
      BY <2>4 DEF EvaluateY
    <3>2. prog' = prog /\ plan' = plan
      BY <3>1 DEF SY!Next, SY!StartsAtZero, SY!Starts, SY!Gates, SY!AssignsExtra, SY!Adds,
                  SY!EnforcesZero, SY!EntersRoutine, SY!LeavesRoutine, SY!Finishes, SY!Drops,
                  SY!WritesView, SY!FreesVirtual, SY!Retires, SY!input
    <3>3. SYInv(R)'
      BY <2>1, <3>1, SYKeeps
    <3>4. XYInv(R)' /\ SXInv(R)'
      BY <2>1, <3>1, <3>2 DEF XYInv, SXInv, xyVars, sxVars
    <3>5. phase' \notin {"measure", "refused"}
      BY <1>5, <2>4 DEF EvaluateY
    <3>6. Registered(prog', plan', names, R)
      BY <2>1, <3>2
    <3> QED
      BY <3>3, <3>4, <3>5, <3>6 DEF WalkInv, Evaluating
  <2> QED
    BY <1>5, <2>2, <2>3, <2>4
<1>6. CASE EvaluateXY \/ EvaluateX \/ EvaluateY
  <2>1. phase \in {"sxy", "sx", "sy"}
    BY <1>6 DEF EvaluateXY, EvaluateX, EvaluateY
  <2>2. PICK names, R : Evaluating(names, R)
    BY <2>1 DEF WalkInv
  <2> QED
    BY <1>5, <1>6, <2>1, <2>2
<1> QED
  BY <1>2, <1>3, <1>4, <1>6 DEF Next

(* A registered circuit never fails in an evaluator, whatever the circuit, *)
(* the bound n, the points and the order its bindings are dropped in: the  *)
(* counts of the floor plan are met to the last, the bounds never are, the *)
(* coefficient of ONE is one, and no slot leaks (the `expect`s of          *)
(* lib.rs:269-285 and the asserts of sxy.rs, sx.rs and sy.rs).             *)
THEOREM Registration == Spec => []RegisteredCircuitsEvaluate
<1> DEFINE Inv == WiringInv /\ CountInv /\ WalkInv
<1>1. Init => Inv
  BY WiringStarts, CountStarts, WalkStarts
<1>2. Inv /\ [Next]_vars => Inv'
  BY WiringKeeps, CountKeeps, WalkKeeps
<1>3. Inv => RegisteredCircuitsEvaluate
  <2>1. Waiting => RegisteredCircuitsEvaluate
    BY DEF Waiting, RegisteredCircuitsEvaluate, Progressing
  <2>2. ASSUME NEW names, NEW R, Evaluating(names, R) PROVE RegisteredCircuitsEvaluate
    BY <2>2 DEF Evaluating, XYInv, SXInv, SYInv, RegisteredCircuitsEvaluate
  <2> QED
    BY <2>1, <2>2 DEF WalkInv
<1> HIDE DEF Inv
<1> QED
  BY <1>1, <1>2, <1>3, PTL DEF Spec
=============================================================================
