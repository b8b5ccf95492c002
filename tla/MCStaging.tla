----------------------------- MODULE MCStaging ------------------------------
(***************************************************************************)
(* Circuits of up to two stages, of odd and even sizes and fewer wires     *)
(* than they reserve, with a short body, over the field of 17 elements.    *)
(***************************************************************************)
EXTENDS Staging
LOCAL INSTANCE SequencesExt
LOCAL INSTANCE Functions

StageType(values, wires) == [values |-> values, wires |-> wires]
MCStageTypes == {StageType(2, 1), StageType(3, 3), StageType(4, 0), StageType(1, 2)}

AllWires  == (0 .. N - 1) \X Slots
Dense(blocks) == [d \in 1 .. NumCoeffs |-> StoredAt(blocks, d - 1)]
Values(n, i)  == [k \in 1 .. n |-> 2 * k + i]
Data(i)       == Values(stages[i].wires, i)
MCWitnesses   == { Values(n, i) : n \in 0 .. 3, i \in 1 .. MaxStages }
First(i) == 1 + FoldLeft(LAMBDA acc, s : acc + (s.values + 1) \div 2, 0, SubSeq(stages, 1, i - 1))
Own(i)   == First(i) .. First(i + 1) - 1              \* the gates a stage owns
Masked(mask) == CombineAssign(GlobalProject(2), NotchProject(mask, 2), "add")

(* With the part all masks share, a stage's mask has a term at exactly the *)
(* wires outside the stage and the SYSTEM gate, and a final mask at those  *)
(* of all the stages: so a stage's polynomial and the circuit's own trace, *)
(* zero on its stages, are orthogonal to theirs and no other wire is free. *)
MasksAdmitStages ==
  phase = "stages" => \A i \in DOMAIN stages :
    \E own \in {Masked(StageMaskOf(stages, i))}, final \in {Masked(FinalMaskOf(stages, i))} :
      /\ \E c \in {Dense(own)} : \A wire \in AllWires :
           c[Exponent(wire) + 1] = 0 <=> wire[1] \in {0} \cup Own(i)
      /\ \E c \in {Dense(final)} : \A wire \in AllWires :
           c[Exponent(wire) + 1] = 0 <=> wire[1] \notin UNION {Own(k) : k \in 1 .. i}
      /\ Revdot(StageRx(stages, i, Alpha, Data(i)), own) = 0
      /\ i = Len(stages) => Revdot(TraceOf(gates), final) = 0

(* A circuit the bonding validator accepts constrains stage wires only: no *)
(* term of its stripped wiring polynomial touches ONE, alpha or a gate     *)
(* beyond the stages, so the stages' polynomials alone satisfy it, and the *)
(* three evaluations strip the same term (staging/bonding.rs).             *)
BondingNeedsOnlyStages ==
  phase = "body" /\ error = "none" =>
    /\ Len(gates) = First(Len(stages) + 1)
    /\ \E stripped \in {StrippedY(3)} :
         /\ \A wire \in AllWires \ Range(FlattenSeq(guards)) :
              StoredAt(stripped, Exponent(wire)) = 0
         /\ EvalSparse(stripped, 2) = StrippedXY(2, 3)
         /\ EvalSparse(StrippedX(2), 3) = StrippedXY(2, 3)
         /\ EvalSparse(StrippedX(0), 3) = StrippedXY(0, 3)
=============================================================================
