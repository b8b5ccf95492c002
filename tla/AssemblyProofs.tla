--------------------------- MODULE AssemblyProofs ---------------------------
(***************************************************************************)
(* Proofs about module Assembly: the witness evaluation, which spreads a   *)
(* circuit over tasks, and metrics, which walks it alone, see the same     *)
(* segments with the same numbers of gates.                                *)
(***************************************************************************)
EXTENDS Assembly, TraceProofs

(* Metrics.  A path comes before its calls, and what lies below an earlier  *)
(* call of a path before a later one.                                      *)
LEMMA LessCall ==
  ASSUME NEW q \in Path, NEW i \in Nat
  PROVE  PathLess(q, Append(q, i)) /\ Below(q, Append(q, i)) /\ Append(q, i)[Len(q) + 1] = i
<1>1. q \in Seq(Nat)
  BY DEF Path
<1>2. /\ Len(q) \in Nat /\ Len(Append(q, i)) = Len(q) + 1
      /\ Append(q, i)[Len(q) + 1] = i
      /\ \A k \in 1 .. Len(q) : Append(q, i)[k] = q[k]
  BY <1>1, AppendProperties
<1>3. SubSeq(Append(q, i), 1, Len(q)) = q
  BY <1>1
<1> QED
  BY <1>2, <1>3 DEF PathLess, Below

(* The second half.                                                        *)
LEMMA LessBelow ==
  ASSUME NEW r \in Path, NEW x \in Path, Below(r, x), NEW i \in Nat, x[Len(r) + 1] < i
  PROVE  PathLess(x, Append(r, i))
<1>1. r \in Seq(Nat) /\ x \in Seq(Nat)
  BY DEF Path
<1>2. /\ Len(r) \in Nat /\ Len(Append(r, i)) = Len(r) + 1
      /\ Append(r, i)[Len(r) + 1] = i
      /\ \A k \in 1 .. Len(r) : Append(r, i)[k] = r[k]
      /\ Append(r, i) \in Seq(Nat)
  BY <1>1, AppendProperties
<1>3. Len(x) \in Nat /\ Len(r) < Len(x) /\ \A k \in 1 .. Len(r) : x[k] = r[k]
  BY <1>1 DEF Below
<1>4. DOMAIN x = 1 .. Len(x) /\ DOMAIN Append(r, i) = 1 .. Len(r) + 1
  BY <1>1, <1>2
<1> DEFINE k == Len(r) + 1
<1>5. k \in DOMAIN x \intersect DOMAIN Append(r, i)
  BY <1>2, <1>3, <1>4
<1>6. \A j \in 1 .. k - 1 : x[j] = Append(r, i)[j]
  BY <1>2, <1>3
<1>7. x[k] < Append(r, i)[k]
  BY <1>2
<1> HIDE DEF k
<1> QED
  BY <1>5, <1>6, <1>7 DEF PathLess

(* A call of a path is below what the path is below.                       *)
LEMMA BelowCall ==
  ASSUME NEW r \in Path, NEW q \in Path, Below(r, q), NEW i \in Nat
  PROVE  Below(r, Append(q, i)) /\ Append(q, i)[Len(r) + 1] = q[Len(r) + 1]
<1>1. r \in Seq(Nat) /\ q \in Seq(Nat)
  BY DEF Path
<1>2. /\ Len(r) \in Nat /\ Len(q) \in Nat /\ Len(Append(q, i)) = Len(q) + 1
      /\ \A k \in 1 .. Len(q) : Append(q, i)[k] = q[k]
  BY <1>1, AppendProperties
<1>3. Len(r) < Len(q) /\ \A k \in 1 .. Len(r) : q[k] = r[k]
  BY DEF Below
<1>4. \A k \in 1 .. Len(r) : k \in 1 .. Len(q)
  BY <1>2, <1>3
<1>5. Len(r) + 1 \in 1 .. Len(q)
  BY <1>2, <1>3
<1> QED
  BY <1>2, <1>3, <1>4, <1>5 DEF Below

(* The driver calls metrics sees of a body: its own and, of the circuit's,  *)
(* one constraint more for each output and for ONE.                        *)
Added(p, n) == IF n = Main THEN Len(p[n].outs) + 1 ELSE 0

(* The list of those calls.                                                *)
LEMMA MOps ==
  ASSUME NEW p \in Programs, NEW n \in Routines
  PROVE  /\ Len(p[n].ops) \in Nat /\ Added(p, n) \in Nat
         /\ Len(M!OpsOf(p, n)) = Len(p[n].ops) + Added(p, n)
         /\ \A k \in 1 .. Len(p[n].ops) : M!OpsOf(p, n)[k] = p[n].ops[k]
         /\ \A k \in Len(p[n].ops) + 1 .. Len(p[n].ops) + Added(p, n) :
              M!OpsOf(p, n)[k].kind = "enforce_zero"
<1> DEFINE ops == p[n].ops
           outs == p[n].outs
           own == [k \in DOMAIN outs |-> M!EnforceZero(<< <<outs[k], 1>> >>)]
           one == M!EnforceZero(<< <<1, 1>> >>)
           more == IF n = Main THEN own \o <<one>> ELSE <<>>
           all == ops \o more
<1>1. p[n] \in Body
  BY CircuitAssumption
<1>2. ops \in Seq(Op) /\ outs \in Seq(Nat \ {0})
  BY <1>1 DEF Body
<1>3. M!OpsOf(p, n) = all
  BY DEF M!OpsOf, M!Main, Main
<1>4. /\ IsList(more) /\ Len(more) = Added(p, n)
      /\ \A k \in 1 .. Len(more) : more[k].kind = "enforce_zero"
  <2>1. CASE n = Main
    <3>1. own \in Seq(Range(own)) /\ Len(own) \in Nat /\ Len(own) = Len(outs)
      <4>1. Len(outs) \in Nat /\ DOMAIN outs = 1 .. Len(outs)
        BY <1>2
      <4>2. own \in [1 .. Len(outs) -> Range(own)] /\ DOMAIN own = 1 .. Len(outs)
        BY <4>1 DEF Range
      <4> HIDE DEF own
      <4> QED
        BY <4>1, <4>2
    <3>2. \A k \in DOMAIN own : own[k].kind = "enforce_zero"
      BY DEF M!EnforceZero
    <3>3. one.kind = "enforce_zero"
      BY DEF M!EnforceZero
    <3>4. IsList(own) /\ DOMAIN own = 1 .. Len(own)
      BY <3>1, ListOf, ListIs
    <3> HIDE DEF own, one
    <3>5. IsList(<<one>>) /\ Len(<<one>>) = 1 /\ <<one>>[1] = one
      BY Single
    <3>6. /\ IsList(own \o <<one>>) /\ Len(own \o <<one>>) = Len(own) + 1
          /\ \A k \in 1 .. Len(own) : (own \o <<one>>)[k] = own[k]
          /\ \A k \in 1 .. Len(<<one>>) : (own \o <<one>>)[Len(own) + k] = <<one>>[k]
      BY <3>4, <3>5, Joined
    <3>7. (own \o <<one>>)[Len(own) + 1] = one
      BY <3>5, <3>6
    <3>8. ASSUME NEW k \in 1 .. Len(own) + 1 PROVE (own \o <<one>>)[k].kind = "enforce_zero"
      <4>1. k \in 1 .. Len(own) \/ k = Len(own) + 1
        BY <3>1
      <4> QED
        BY <4>1, <3>2, <3>3, <3>4, <3>6, <3>7
    <3> QED
      BY <2>1, <3>1, <3>6, <3>8 DEF Added
  <2>2. CASE n # Main
    <3>1. more = <<>> /\ <<>> \in Seq(Nat) /\ Len(<<>>) = 0 /\ Added(p, n) = 0
      BY <2>2 DEF Added
    <3>2. IsList(more)
      BY <3>1, ListOf
    <3> HIDE DEF more
    <3> QED
      BY <3>1, <3>2
  <2> QED
    BY <2>1, <2>2
<1> HIDE DEF own, one, more
<1>5. IsList(ops) /\ Len(ops) \in Nat /\ Len(more) \in Nat
  BY <1>2, <1>4, ListOf, ListIs
<1>6. /\ Len(all) = Len(ops) + Len(more)
      /\ \A k \in 1 .. Len(ops) : all[k] = ops[k]
      /\ \A k \in 1 .. Len(more) : all[Len(ops) + k] = more[k]
  <2> HIDE DEF ops
  <2> QED
    BY <1>4, <1>5, Joined
<1> HIDE DEF all, ops
<1>7. ASSUME NEW k \in Len(ops) + 1 .. Len(ops) + Len(more)
      PROVE  all[k].kind = "enforce_zero"
  <2>1. k - Len(ops) \in 1 .. Len(more) /\ Len(ops) + (k - Len(ops)) = k
    BY <1>5
  <2>2. all[k] = more[k - Len(ops)]
    BY <2>1, <1>6
  <2> QED
    BY <2>1, <2>2, <1>4
<1>8. Added(p, n) = Len(more)
  BY <1>4
<1> QED
  BY <1>3, <1>5, <1>6, <1>7, <1>8 DEF ops

(* A step of metrics sees the calls of the circuit's own body and, after    *)
(* them, the constraints that orchestrate() adds.                          *)
LEMMA MNextCall ==
  ASSUME NEW p \in Programs, NEW f, f.name \in Routines, f.at \in Nat \ {0}
  PROVE  /\ M!AtEnd(p, f) => f.at > Len(p[f.name].ops)
         /\ ~M!AtEnd(p, f) =>
              /\ f.at \in Kind(p, f.name, "gate") <=> M!NextOp(p, f).kind = "gate"
              /\ f.at \in Calls(p, f.name) <=> M!NextOp(p, f).kind = "routine"
              /\ f.at \in Calls(p, f.name) => M!NextOp(p, f) = p[f.name].ops[f.at]
<1> DEFINE n == f.name
           at == f.at
           ops == p[n].ops
           all == M!OpsOf(p, n)
<1>1. /\ Len(ops) \in Nat /\ Added(p, n) \in Nat /\ Len(all) = Len(ops) + Added(p, n)
      /\ \A k \in 1 .. Len(ops) : all[k] = ops[k]
      /\ \A k \in Len(ops) + 1 .. Len(ops) + Added(p, n) : all[k].kind = "enforce_zero"
  BY MOps
<1>2. (M!AtEnd(p, f) <=> at > Len(all)) /\ M!NextOp(p, f) = all[at]
  BY DEF M!AtEnd, M!NextOp
<1>3. /\ at \in Kind(p, n, "gate") <=> at \in 1 .. Len(ops) /\ ops[at].kind = "gate"
      /\ at \in Calls(p, n) <=> at \in 1 .. Len(ops) /\ ops[at].kind = "routine"
  BY DEF Kind, Calls
<1>4. at \in Nat \ {0}
  OBVIOUS
<1> HIDE DEF all, ops, at, n
<1>5. M!AtEnd(p, f) => at > Len(ops)
  BY <1>1, <1>2, <1>4
<1>6. ASSUME ~M!AtEnd(p, f), at \in 1 .. Len(ops)
      PROVE  M!NextOp(p, f) = ops[at]
  BY <1>1, <1>2, <1>6
<1>7. ASSUME ~M!AtEnd(p, f), at \notin 1 .. Len(ops)
      PROVE  M!NextOp(p, f).kind = "enforce_zero"
  <2>1. at \in Len(ops) + 1 .. Len(ops) + Added(p, n)
    BY <1>1, <1>2, <1>4, <1>7
  <2> QED
    BY <2>1, <1>1, <1>2
<1>8. ~M!AtEnd(p, f) =>
        /\ at \in Kind(p, n, "gate") <=> M!NextOp(p, f).kind = "gate"
        /\ at \in Calls(p, n) <=> M!NextOp(p, f).kind = "routine"
        /\ at \in Calls(p, n) => M!NextOp(p, f) = ops[at]
  BY <1>3, <1>6, <1>7
<1> QED
  BY <1>5, <1>8 DEF at, n, ops

(* The constraints a body has made before a call, those added included.    *)
ZeroPlaces(p, n) == { k \in 1 .. Len(M!OpsOf(p, n)) : M!OpsOf(p, n)[k].kind = "enforce_zero" }
Zeros(p, n, at)  == Cardinality(ZeroPlaces(p, n) \intersect 1 .. at - 1)
AllZeros(p, n)   == Cardinality(Kind(p, n, "enforce_zero")) + Added(p, n)

(* How many they are along the body, and at its end.                       *)
LEMMA ZerosAre ==
  ASSUME NEW p \in Programs, NEW f, f.name \in Routines, f.at \in Nat \ {0}
  PROVE  /\ Zeros(p, f.name, 1) = 0
         /\ M!AtEnd(p, f) => Zeros(p, f.name, f.at) = AllZeros(p, f.name)
         /\ ~M!AtEnd(p, f) =>
              Zeros(p, f.name, f.at + 1) = IF M!NextOp(p, f).kind = "enforce_zero"
                                           THEN Zeros(p, f.name, f.at) + 1 ELSE Zeros(p, f.name, f.at)
<1> DEFINE n == f.name
           at == f.at
           len == Len(p[n].ops)
           add == Added(p, n)
           Z == ZeroPlaces(p, n)
           K == Kind(p, n, "enforce_zero")
           T == len + 1 .. len + add
           B == Z \intersect 1 .. at - 1
           C == Z \intersect 1 .. at
           E == Z \intersect {}
<1>1. /\ len \in Nat /\ add \in Nat /\ Len(M!OpsOf(p, n)) = len + add
      /\ \A k \in 1 .. len : M!OpsOf(p, n)[k] = p[n].ops[k]
      /\ \A k \in T : M!OpsOf(p, n)[k].kind = "enforce_zero"
  BY MOps
<1>2. at \in Nat \ {0}
  OBVIOUS
<1>3. Z \subseteq 1 .. len + add /\ len + add \in Nat
  BY <1>1 DEF ZeroPlaces
<1>4. Z = K \union T /\ K \intersect T = {} /\ K \subseteq 1 .. len
  <2>1. K = { k \in 1 .. len : p[n].ops[k].kind = "enforce_zero" }
    BY DEF Kind
  <2>2. 1 .. len + add = (1 .. len) \union T /\ (1 .. len) \intersect T = {}
    BY <1>1
  <2>3. Z = { k \in 1 .. len + add : M!OpsOf(p, n)[k].kind = "enforce_zero" }
    BY <1>1 DEF ZeroPlaces
  <2> HIDE DEF Z, K, T, len, add
  <2> QED
    BY <2>1, <2>2, <2>3, <1>1
<1>5. M!AtEnd(p, f) <=> at > len + add
  BY <1>1 DEF M!AtEnd
<1>6. ~M!AtEnd(p, f) => (at \in Z <=> M!NextOp(p, f).kind = "enforce_zero")
  <2>1. M!NextOp(p, f) = M!OpsOf(p, n)[at]
    BY DEF M!NextOp
  <2> QED
    BY <2>1, <1>1, <1>2, <1>5 DEF ZeroPlaces
<1>7. /\ Zeros(p, n, at) = Cardinality(B)
      /\ Zeros(p, n, at + 1) = Cardinality(C)
      /\ Zeros(p, n, 1) = Cardinality(E)
  <2>1. 1 .. (at + 1) - 1 = 1 .. at /\ 1 .. 1 - 1 = {}
    BY <1>2
  <2> QED
    BY <2>1 DEF Zeros
<1> HIDE DEF Z, K, T, len, add
<1>8. IsFiniteSet(B) /\ Cardinality(B) \in Nat
  <2>1. B \subseteq 1 .. len + add
    BY <1>3
  <2> HIDE DEF B
  <2> QED
    BY <2>1, <1>3, Few
<1>9. Cardinality(E) = 0
  BY FS_EmptySet
<1>10. at \in Z => Cardinality(C) = Cardinality(B) + 1
  <2> SUFFICES ASSUME at \in Z PROVE Cardinality(C) = Cardinality(B) + 1
    OBVIOUS
  <2>1. C = B \union {at} /\ at \notin B
    BY <1>2, <1>3
  <2> HIDE DEF B, C
  <2> QED
    BY <2>1, <1>8, FS_AddElement
<1>11. at \notin Z => C = B
  BY <1>2, <1>3
<1>12. at > len + add => Cardinality(B) = Cardinality(K) + add
  <2> SUFFICES ASSUME at > len + add PROVE Cardinality(B) = Cardinality(K) + add
    OBVIOUS
  <2>1. B = Z
    <3>1. \A k \in 1 .. len + add : k \in 1 .. at - 1
      BY <1>1, <1>2
    <3> QED
      BY <3>1, <1>3
  <2>2. IsFiniteSet(K) /\ Cardinality(K) \in Nat
    BY <1>1, <1>4, Few
  <2>3. IsFiniteSet(T) /\ Cardinality(T) = add
    <3>1. len + 1 \in Int /\ len + add \in Int
      BY <1>1
    <3>2. /\ IsFiniteSet(len + 1 .. len + add)
          /\ Cardinality(len + 1 .. len + add)
               = IF len + 1 > len + add THEN 0 ELSE (len + add) - (len + 1) + 1
      BY ONLY <3>1, FS_Interval
    <3> QED
      BY <3>2, <1>1 DEF T
  <2>4. Cardinality(K \union T) = Cardinality(K) + Cardinality(T) - Cardinality(K \intersect T)
    BY <2>2, <2>3, FS_Union
  <2>5. Cardinality(K \intersect T) = 0
    BY <1>4, FS_EmptySet
  <2>6. Cardinality(B) = Cardinality(K \union T)
    BY <2>1, <1>4
  <2> HIDE DEF B
  <2> QED
    BY <2>2, <2>3, <2>4, <2>5, <2>6, <1>1
<1>13. /\ Zeros(p, n, 1) = 0
       /\ M!AtEnd(p, f) => Zeros(p, n, at) = Cardinality(K) + add
       /\ ~M!AtEnd(p, f) =>
            Zeros(p, n, at + 1) = IF M!NextOp(p, f).kind = "enforce_zero"
                                  THEN Zeros(p, n, at) + 1 ELSE Zeros(p, n, at)
  <2> HIDE DEF B, C, E, n, at
  <2> QED
    BY <1>5, <1>6, <1>7, <1>9, <1>10, <1>11, <1>12
<1> QED
  BY <1>13 DEF n, at, K, add, AllZeros
-----------------------------------------------------------------------------
(* The measurement: paths are those of the records, in depth-first order.  *)
(* A scope stands somewhere in the body of its record's path, the next      *)
(* record it calls for is the last there will be, and it has called what   *)
(* the scopes within it are in; the records of no scope are of bodies that *)
(* were run.                                                               *)
MFrameOk(f) == /\ DOMAIN f = {"call", "inputs", "current_segment", "gate", "remap", "result"}
               /\ DOMAIN f.call = {"name", "at", "extras", "env"}
MFrames(stk) == IsList(stk) /\ stk # <<>> /\ \A k \in 1 .. Len(stk) : MFrameOk(stk[k])
MCalled(p, f) == CallsMade(p, f.call.name, f.call.at)
Listed(paths, n) ==
  /\ paths \in Seq(Path) /\ Len(paths) = n /\ paths[1] = <<>>
  /\ \A i, j \in 1 .. n : i < j => PathLess(paths[i], paths[j])
ScopeMeasures(p, paths, recs, f) ==
  LET q == paths[f.current_segment]
  IN  /\ f.current_segment \in 1 .. Len(recs)
      /\ Stands(p, q, f.call.name, f.call.at, recs[f.current_segment].num_gates, Range(paths))
      /\ \A i \in 1 .. Len(recs) : PathLess(paths[i], Append(q, MCalled(p, f)))
Within(p, paths, f, b) ==
  LET q == paths[f.current_segment]
      r == paths[b.current_segment]
  IN  Below(r, q) /\ q[Len(r) + 1] < MCalled(p, b)
Measures(p, paths, stk, recs) ==
  /\ MFrames(stk) /\ Records(recs) /\ Listed(paths, Len(recs))
  /\ \A k \in 1 .. Len(stk) : ScopeMeasures(p, paths, recs, stk[k])
  /\ \A k, l \in 1 .. Len(stk) : k < l => Within(p, paths, stk[k], stk[l])
  /\ \A i \in 1 .. Len(recs) : (\A k \in 1 .. Len(stk) : stk[k].current_segment # i)
       => Ran(p, paths[i], recs[i].num_gates, Range(paths))

(* What a scope of a measurement is.                                       *)
LEMMA ScopeIs ==
  ASSUME NEW p \in Programs, NEW paths, NEW recs, NEW f, Records(recs), Listed(paths, Len(recs)),
         ScopeMeasures(p, paths, recs, f)
  PROVE  /\ f.current_segment \in 1 .. Len(recs) /\ Len(recs) \in Nat
         /\ paths[f.current_segment] \in Path /\ paths[f.current_segment] \in Seq(Nat)
         /\ f.call.name \in Routines /\ f.call.at \in Nat \ {0}
         /\ MCalled(p, f) \in Nat
         /\ Append(paths[f.current_segment], MCalled(p, f)) \in Path
<1>1. f.current_segment \in 1 .. Len(recs)
  BY DEF ScopeMeasures
<1>2. Len(recs) \in Nat
  BY SizesAre
<1>3. paths[f.current_segment] \in Path
  BY <1>1 DEF Listed
<1>4. f.call.name \in Routines /\ f.call.at \in Nat \ {0}
  BY DEF ScopeMeasures, Stands, CalledAs
<1>5. MCalled(p, f) \in Nat
  BY <1>4, MadeIs DEF MCalled, CallsMade
<1> QED
  BY <1>1, <1>2, <1>3, <1>4, <1>5 DEF Path

(* The scopes are of different records.                                    *)
LEMMA WithinApart ==
  ASSUME NEW p \in Programs, NEW paths, NEW recs, NEW f, NEW b,
         Records(recs), Listed(paths, Len(recs)),
         ScopeMeasures(p, paths, recs, f), ScopeMeasures(p, paths, recs, b),
         Within(p, paths, f, b)
  PROVE  f.current_segment # b.current_segment
<1>1. paths[f.current_segment] \in Seq(Nat) /\ paths[b.current_segment] \in Seq(Nat)
  BY ScopeIs
<1>2. Len(paths[b.current_segment]) < Len(paths[f.current_segment])
  BY DEF Within, Below
<1> QED
  BY <1>1, <1>2

(* What the top of a measurement is.                                       *)
LEMMA MTop ==
  ASSUME NEW p \in Programs, NEW paths, NEW stk, NEW recs, Measures(p, paths, stk, recs)
  PROVE  /\ IsList(stk) /\ stk # <<>> /\ Len(stk) \in Nat \ {0} /\ Head(stk) = stk[1]
         /\ MFrameOk(stk[1]) /\ ScopeMeasures(p, paths, recs, stk[1])
         /\ Records(recs) /\ Len(recs) \in Nat \ {0} /\ Listed(paths, Len(recs))
         /\ stk[1].current_segment \in 1 .. Len(recs)
         /\ RecordOk(recs[stk[1].current_segment])
         /\ stk[1].call.name \in Routines /\ stk[1].call.at \in Nat \ {0}
<1>1. IsList(stk) /\ stk # <<>> /\ Records(recs) /\ Listed(paths, Len(recs))
  BY DEF Measures, MFrames
<1>2. Len(stk) \in Nat \ {0} /\ Head(stk) = stk[1]
  BY <1>1, Popped
<1>3. 1 \in 1 .. Len(stk)
  BY <1>2
<1>4. MFrameOk(stk[1]) /\ ScopeMeasures(p, paths, recs, stk[1])
  BY <1>3 DEF Measures, MFrames
<1>5. Len(recs) \in Nat \ {0}
  BY <1>1, SizesAre
<1>6. /\ stk[1].current_segment \in 1 .. Len(recs)
      /\ stk[1].call.name \in Routines /\ stk[1].call.at \in Nat \ {0}
  BY <1>1, <1>4, ScopeIs
<1>7. RecordOk(recs[stk[1].current_segment])
  BY <1>1, <1>6 DEF Records
<1> QED
  BY <1>1, <1>2, <1>4, <1>5, <1>6, <1>7

(* A scope is measured alike with the records of others changed.           *)
LEMMA ScopeStays ==
  ASSUME NEW p, NEW paths, NEW recs, NEW f, ScopeMeasures(p, paths, recs, f),
         NEW recs2, Len(recs2) = Len(recs),
         recs2[f.current_segment].num_gates = recs[f.current_segment].num_gates,
         NEW g, g.call.name = f.call.name, g.call.at = f.call.at,
         g.current_segment = f.current_segment
  PROVE  ScopeMeasures(p, paths, recs2, g) /\ MCalled(p, g) = MCalled(p, f)
BY DEF ScopeMeasures, MCalled

(* A call of the top that enters no routine.                               *)
LEMMA MeasuresOn ==
  ASSUME NEW p \in Programs, NEW paths, NEW stk, NEW recs, Measures(p, paths, stk, recs),
         NEW f, f = stk[1], NEW i, i = f.current_segment,
         f.call.at \notin Calls(p, f.call.name),
         NEW g, MFrameOk(g), g.call.name = f.call.name, g.call.at = f.call.at + 1,
         g.current_segment = i,
         NEW recs2, Records(recs2), Len(recs2) = Len(recs),
         recs2[i].num_gates = IF f.call.at \in Kind(p, f.call.name, "gate")
                              THEN recs[i].num_gates + 1 ELSE recs[i].num_gates,
         \A k \in 1 .. Len(recs) : k # i => recs2[k].num_gates = recs[k].num_gates
  PROVE  Measures(p, paths, <<g>> \o Tail(stk), recs2)
<1> DEFINE stk2 == <<g>> \o Tail(stk)
           q == paths[i]
           P == Range(paths)
           n == f.call.name
           at == f.call.at
<1>1. /\ IsList(stk) /\ stk # <<>> /\ Len(stk) \in Nat \ {0}
      /\ ScopeMeasures(p, paths, recs, f)
      /\ Records(recs) /\ Len(recs) \in Nat \ {0} /\ Listed(paths, Len(recs))
      /\ i \in 1 .. Len(recs) /\ n \in Routines /\ at \in Nat \ {0}
  BY MTop
<1>2. Retopped(stk2, g, stk)
  BY <1>1, Replaced
<1> HIDE DEF stk2
<1>3. /\ IsList(stk2) /\ Len(stk2) = Len(stk) /\ stk2[1] = g
      /\ \A k \in 1 .. Len(stk) : k # 1 => stk2[k] = stk[k]
  <2>1. \A k \in 1 .. Len(stk) : k # 1 => k \in 2 .. Len(stk)
    BY <1>1
  <2> QED
    BY <1>2, <2>1 DEF Retopped
<1>4. \A k \in 1 .. Len(stk) : MFrameOk(stk[k]) /\ ScopeMeasures(p, paths, recs, stk[k])
  BY DEF Measures, MFrames
<1>5. \A k, l \in 1 .. Len(stk) : k < l => Within(p, paths, stk[k], stk[l])
  BY DEF Measures
<1>6. \A k \in 1 .. Len(stk) : k # 1 => stk[k].current_segment # i
  <2> TAKE k \in 1 .. Len(stk)
  <2> HAVE k # 1
  <2>1. 1 \in 1 .. Len(stk) /\ 1 < k
    BY <1>1
  <2>2. Within(p, paths, f, stk[k])
    BY <2>1, <1>5
  <2> QED
    BY <2>2, <1>1, <1>4, WithinApart
<1>7. ScopeMeasures(p, paths, recs2, g) /\ MCalled(p, g) = MCalled(p, f)
  <2> DEFINE h == recs2[i].num_gates
             c == recs[i].num_gates
  <2>1. Stands(p, q, n, at, c, P) /\ \A k \in 1 .. Len(recs) : PathLess(paths[k], Append(q, CallsMade(p, n, at)))
    BY <1>1 DEF ScopeMeasures, MCalled
  <2>2. h = IF at \in Kind(p, n, "gate") THEN c + 1 ELSE c
    OBVIOUS
  <2>3. at \notin Calls(p, n)
    OBVIOUS
  <2>4. g.call.name = n /\ g.call.at = at + 1 /\ g.current_segment = i
    OBVIOUS
  <2> HIDE DEF h, c, P, q, n, at
  <2>5. P \subseteq P
    OBVIOUS
  <2>6. /\ Stands(p, q, n, at + 1, h, P)
        /\ c \in Nat
        /\ CallsMade(p, n, at) \in Nat
        /\ CallsMade(p, n, at + 1)
             = IF at \in Calls(p, n) THEN CallsMade(p, n, at) + 1 ELSE CallsMade(p, n, at)
    BY ONLY p \in Programs, <2>1, <2>2, <2>3, <2>5, StandsOn
  <2>7. CallsMade(p, n, at + 1) = CallsMade(p, n, at)
    BY <2>3, <2>6
  <2> QED
    BY <2>1, <2>4, <2>6, <2>7, <1>1 DEF ScopeMeasures, MCalled, h, P, q, n, at
<1>8. ASSUME NEW k \in 1 .. Len(stk), k # 1
      PROVE  ScopeMeasures(p, paths, recs2, stk[k])
  <2>1. ScopeMeasures(p, paths, recs, stk[k]) /\ stk[k].current_segment # i
    BY <1>4, <1>6, <1>8
  <2>2. stk[k].current_segment \in 1 .. Len(recs)
    BY <2>1 DEF ScopeMeasures
  <2> QED
    BY <2>1, <2>2, ScopeStays
<1>9. \A k \in 1 .. Len(stk2) : MFrameOk(stk2[k]) /\ ScopeMeasures(p, paths, recs2, stk2[k])
  <2> TAKE k \in 1 .. Len(stk2)
  <2>1. CASE k = 1
    BY <2>1, <1>3, <1>7
  <2>2. CASE k # 1
    BY <2>2, <1>3, <1>4, <1>8
  <2> QED
    BY <2>1, <2>2
<1>10. \A k, l \in 1 .. Len(stk2) : k < l => Within(p, paths, stk2[k], stk2[l])
  <2> TAKE k, l \in 1 .. Len(stk2)
  <2> HAVE k < l
  <2>1. l # 1 /\ Within(p, paths, stk[k], stk[l])
    BY <1>1, <1>3, <1>5
  <2>2. stk2[l] = stk[l] /\ stk2[k].current_segment = stk[k].current_segment
    <3>1. CASE k = 1
      BY <3>1, <2>1, <1>3
    <3>2. CASE k # 1
      BY <3>2, <2>1, <1>3
    <3> QED
      BY <3>1, <3>2
  <2> QED
    BY <2>1, <2>2 DEF Within
<1>11. \A m \in 1 .. Len(recs2) : (\A k \in 1 .. Len(stk2) : stk2[k].current_segment # m)
         => Ran(p, paths[m], recs2[m].num_gates, P)
  <2> TAKE m \in 1 .. Len(recs2)
  <2> HAVE \A k \in 1 .. Len(stk2) : stk2[k].current_segment # m
  <2>1. m # i /\ \A k \in 1 .. Len(stk) : stk[k].current_segment # m
    <3>1. 1 \in 1 .. Len(stk)
      BY <1>1
    <3>2. m # i
      BY <3>1, <1>3
    <3>3. \A k \in 1 .. Len(stk) : k # 1 => stk[k].current_segment # m
      BY <1>3
    <3> QED
      BY <3>2, <3>3
  <2>2. Ran(p, paths[m], recs[m].num_gates, P)
    BY <2>1 DEF Measures
  <2> QED
    BY <2>1, <2>2
<1> HIDE DEF P
<1> QED
  BY <1>1, <1>3, <1>9, <1>10, <1>11, Single DEF Measures, MFrames, stk2, P
-----------------------------------------------------------------------------
(* The path of the routine the top calls: it comes last, below every scope  *)
(* and within all of them once the call is made.                           *)
AddsPath(p, paths, stk, n, x, more) ==
  /\ x \in Path
  /\ Listed(more, n + 1)
  /\ more[n + 1] = x /\ \A i \in 1 .. n : more[i] = paths[i]
  /\ Range(paths) \subseteq Range(more) /\ x \in Range(more)
  /\ \A k \in 2 .. Len(stk) :
       /\ Below(paths[stk[k].current_segment], x)
       /\ x[Len(paths[stk[k].current_segment]) + 1] < MCalled(p, stk[k])
       /\ PathLess(x, Append(paths[stk[k].current_segment], MCalled(p, stk[k])))

(* It is added so.                                                         *)
LEMMA MNewPath ==
  ASSUME NEW p \in Programs, NEW paths, NEW stk, NEW recs, Measures(p, paths, stk, recs),
         NEW x, x = Append(paths[stk[1].current_segment], MCalled(p, stk[1])),
         NEW n, n = Len(recs)
  PROVE  AddsPath(p, paths, stk, n, x, Append(paths, x))
<1> DEFINE f == stk[1]
           q == paths[f.current_segment]
           c == MCalled(p, f)
           more == Append(paths, x)
<1>1. /\ ScopeMeasures(p, paths, recs, f) /\ Len(stk) \in Nat \ {0}
      /\ Records(recs) /\ n \in Nat \ {0} /\ Listed(paths, n)
  BY MTop
<1>2. q \in Path /\ c \in Nat /\ x \in Path /\ x = Append(q, c)
  BY <1>1, ScopeIs
<1>3. \A i \in 1 .. n : PathLess(paths[i], x)
  BY <1>1 DEF ScopeMeasures
<1>4. /\ paths \in Seq(Path) /\ Len(paths) = n /\ paths[1] = <<>>
      /\ \A i, j \in 1 .. n : i < j => PathLess(paths[i], paths[j])
  BY <1>1 DEF Listed
<1>5. /\ more \in Seq(Path) /\ Len(more) = n + 1 /\ more[n + 1] = x
      /\ \A i \in 1 .. n : more[i] = paths[i]
      /\ DOMAIN paths = 1 .. n /\ DOMAIN more = 1 .. n + 1
  BY <1>2, <1>4, AppendProperties
<1> HIDE DEF more
<1>6. Listed(more, n + 1)
  <2>1. more[1] = <<>>
    BY <1>1, <1>4, <1>5
  <2>2. ASSUME NEW i \in 1 .. n + 1, NEW j \in 1 .. n + 1, i < j
        PROVE  PathLess(more[i], more[j])
    <3>1. i \in 1 .. n
      BY <1>1, <2>2
    <3>2. CASE j = n + 1
      BY <3>1, <3>2, <1>3, <1>5
    <3>3. CASE j # n + 1
      <4>1. j \in 1 .. n
        BY <3>3, <1>1
      <4> QED
        BY <3>1, <4>1, <2>2, <1>4, <1>5
    <3> QED
      BY <3>2, <3>3
  <2> QED
    BY <1>5, <2>1, <2>2 DEF Listed
<1>7. Range(paths) \subseteq Range(more) /\ x \in Range(more)
  <2>1. n + 1 \in 1 .. n + 1 /\ \A i \in 1 .. n : i \in 1 .. n + 1
    BY <1>1
  <2> QED
    BY <2>1, <1>5 DEF Range
<1>8. ASSUME NEW k \in 2 .. Len(stk)
      PROVE  /\ Below(paths[stk[k].current_segment], x)
             /\ x[Len(paths[stk[k].current_segment]) + 1] < MCalled(p, stk[k])
             /\ PathLess(x, Append(paths[stk[k].current_segment], MCalled(p, stk[k])))
  <2> DEFINE r == paths[stk[k].current_segment]
             d == MCalled(p, stk[k])
  <2>1. 1 \in 1 .. Len(stk) /\ k \in 1 .. Len(stk) /\ 1 < k
    BY <1>1
  <2>2. ScopeMeasures(p, paths, recs, stk[k]) /\ Within(p, paths, f, stk[k])
    BY <2>1 DEF Measures
  <2>3. r \in Path /\ d \in Nat
    BY <2>2, <1>1, ScopeIs
  <2>4. Below(r, q) /\ q[Len(r) + 1] < d
    BY <2>2 DEF Within
  <2> HIDE DEF r, d, q, c
  <2>5. Below(r, x) /\ x[Len(r) + 1] = q[Len(r) + 1]
    BY <2>3, <2>4, <1>2, BelowCall
  <2>6. PathLess(x, Append(r, d))
    BY <2>3, <2>4, <2>5, <1>2, LessBelow
  <2>7. Below(r, x) /\ x[Len(r) + 1] < d /\ PathLess(x, Append(r, d))
    BY <2>4, <2>5, <2>6
  <2> QED
    BY <2>7 DEF r, d
<1> QED
  BY <1>2, <1>5, <1>6, <1>7, <1>8 DEF AddsPath, more

(* A scope is measured alike with one more path and one more record.       *)
LEMMA ScopeWidens ==
  ASSUME NEW p, NEW paths, NEW recs, NEW f, ScopeMeasures(p, paths, recs, f),
         NEW n \in Nat, n = Len(recs), NEW more, NEW recs2, Len(recs2) = n + 1,
         \A i \in 1 .. n : more[i] = paths[i] /\ recs2[i] = recs[i],
         Range(paths) \subseteq Range(more),
         PathLess(more[n + 1], Append(paths[f.current_segment], MCalled(p, f)))
  PROVE  ScopeMeasures(p, more, recs2, f)
<1> DEFINE i == f.current_segment
           q == paths[i]
<1>1. /\ i \in 1 .. n
      /\ Stands(p, q, f.call.name, f.call.at, recs[i].num_gates, Range(paths))
      /\ \A k \in 1 .. n : PathLess(paths[k], Append(q, MCalled(p, f)))
  BY DEF ScopeMeasures
<1>2. more[i] = q /\ recs2[i] = recs[i] /\ i \in 1 .. n + 1
  BY <1>1
<1>3. Stands(p, q, f.call.name, f.call.at, recs[i].num_gates, Range(more))
  BY <1>1, StandsMore
<1>4. \A k \in 1 .. n + 1 : PathLess(more[k], Append(q, MCalled(p, f)))
  <2> TAKE k \in 1 .. n + 1
  <2>1. k \in 1 .. n \/ k = n + 1
    OBVIOUS
  <2> QED
    BY <2>1, <1>1
<1> QED
  BY <1>2, <1>3, <1>4 DEF ScopeMeasures

(* A routine entered: below, the caller h goes on; on top, the routine g     *)
(* starts with the new record.                                             *)
Going(f, h)     == /\ h.call.name = f.call.name /\ h.call.at = f.call.at + 1
                   /\ h.current_segment = f.current_segment
Starting(g, i)  == g.call.name \in Routines /\ g.call.at = 1 /\ g.current_segment = i

(* The top enters a routine.                                               *)
LEMMA MeasuresEnters ==
  ASSUME NEW p \in Programs, NEW paths, NEW stk, NEW recs, Measures(p, paths, stk, recs),
         NEW f, f = stk[1], f.call.at \in Calls(p, f.call.name),
         NEW h, MFrameOk(h), Going(f, h),
         NEW g, MFrameOk(g), Starting(g, Len(recs) + 1),
         g.call.name = p[f.call.name].ops[f.call.at].name,
         NEW stk2, Stacked(stk2, g, h, stk),
         NEW e, RecordOk(e), e.num_gates = 0
  PROVE  \E more : /\ Measures(p, more, stk2, Append(recs, e))
                   /\ \A k \in 1 .. Len(recs) : more[k] = paths[k]
<1> DEFINE n == Len(recs)
<1>a. /\ h.call.name = f.call.name /\ h.call.at = f.call.at + 1
      /\ h.current_segment = f.current_segment
      /\ g.call.at = 1 /\ g.current_segment = n + 1
  BY DEF Going, Starting
<1> USE <1>a
<1> DEFINE i == f.current_segment
           q == paths[i]
           a == f.call.name
           at == f.call.at
           c == MCalled(p, f)
           x == Append(q, c)
           more == Append(paths, x)
           recs2 == Append(recs, e)
           P == Range(more)
<1>1. /\ IsList(stk) /\ stk # <<>> /\ Len(stk) \in Nat \ {0}
      /\ ScopeMeasures(p, paths, recs, f)
      /\ Records(recs) /\ n \in Nat \ {0} /\ Listed(paths, n)
      /\ i \in 1 .. n /\ a \in Routines /\ at \in Nat \ {0}
  BY MTop
<1>2. q \in Path /\ c \in Nat
  BY <1>1, ScopeIs
<1>3. /\ x \in Path
      /\ Listed(more, n + 1)
      /\ more[n + 1] = x /\ \A k \in 1 .. n : more[k] = paths[k]
      /\ Range(paths) \subseteq P /\ x \in P
      /\ \A k \in 2 .. Len(stk) :
           /\ Below(paths[stk[k].current_segment], x)
           /\ x[Len(paths[stk[k].current_segment]) + 1] < MCalled(p, stk[k])
           /\ PathLess(x, Append(paths[stk[k].current_segment], MCalled(p, stk[k])))
  <2> DEFINE y == x
  <2> HIDE DEF y
  <2>1. y = Append(paths[stk[1].current_segment], MCalled(p, stk[1])) /\ n = Len(recs)
    BY DEF y
  <2>2. AddsPath(p, paths, stk, n, y, Append(paths, y))
    BY ONLY p \in Programs, Measures(p, paths, stk, recs), <2>1, MNewPath
  <2>3. AddsPath(p, paths, stk, n, x, more)
    BY <2>2 DEF y
  <2> HIDE DEF x, more
  <2> QED
    BY <2>3 DEF AddsPath
<1>4. /\ Records(recs2) /\ Len(recs2) = n + 1
      /\ \A k \in 1 .. n : recs2[k] = recs[k]
      /\ recs2[n + 1] = e
  BY <1>1, RecordsMore
<1> HIDE DEF recs2, more, P
<1>5. /\ IsList(stk2) /\ Len(stk2) = Len(stk) + 1 /\ stk2[1] = g /\ stk2[2] = h
      /\ \A k \in 3 .. Len(stk) + 1 : stk2[k] = stk[k - 1]
  BY DEF Stacked
<1>6. /\ \A k \in 1 .. Len(stk) : MFrameOk(stk[k]) /\ ScopeMeasures(p, paths, recs, stk[k])
      /\ \A k, l \in 1 .. Len(stk) : k < l => Within(p, paths, stk[k], stk[l])
      /\ \A m \in 1 .. n : (\A k \in 1 .. Len(stk) : stk[k].current_segment # m)
           => Ran(p, paths[m], recs[m].num_gates, Range(paths))
  BY DEF Measures, MFrames
<1>7. /\ Stands(p, q, a, at, recs[i].num_gates, Range(paths))
      /\ \A k \in 1 .. n : PathLess(paths[k], x)
      /\ CalledAs(p, q, a)
  BY <1>1 DEF ScopeMeasures, Stands
<1>8. c = CallsMade(p, a, at)
  BY DEF MCalled
<1> HIDE DEF x, c
<1>9. ScopeMeasures(p, more, recs2, g) /\ MCalled(p, g) = 0
  <2> DEFINE m == p[a].ops[at].name
  <2>1. CalledAs(p, x, m)
    BY <1>7, <1>8, CalledOn DEF x
  <2>2. g.call.name = m /\ g.call.at = 1 /\ g.current_segment = n + 1
    OBVIOUS
  <2> HIDE DEF m
  <2>3. Stands(p, x, m, 1, Base(x), P) /\ CallsMade(p, m, 1) = 0
    BY <2>1, StandsFirst
  <2>4. Base(x) = 0
    <3>1. Append(q, c) # <<>>
      BY <1>2, AppendProperties DEF Path
    <3> QED
      BY <3>1 DEF Base, x
  <2>5. MCalled(p, g) = 0
    BY <2>2, <2>3 DEF MCalled
  <2>6. PathLess(x, Append(x, 0)) /\ Append(x, 0) \in Path
    <3>1. x \in Path /\ 0 \in Nat
      BY <1>3
    <3> QED
      BY <3>1, LessCall DEF Path
  <2>7. ASSUME NEW k \in 1 .. n + 1 PROVE PathLess(more[k], Append(x, 0))
    <3>1. CASE k = n + 1
      BY <3>1, <2>6, <1>3
    <3>2. CASE k # n + 1
      <4>1. k \in 1 .. n
        BY <3>2, <1>1
      <4>2. more[k] = paths[k] /\ PathLess(paths[k], x) /\ paths[k] \in Path
        BY <4>1, <1>1, <1>3, <1>7 DEF Listed
      <4> QED
        BY <4>2, <2>6, <1>3, LessThrough DEF Path
    <3> QED
      BY <3>1, <3>2
  <2>8. n + 1 \in 1 .. Len(recs2) /\ Len(recs2) = n + 1
    BY <1>1, <1>4
  <2> QED
    BY <2>2, <2>3, <2>4, <2>5, <2>7, <2>8, <1>3, <1>4 DEF ScopeMeasures, P
<1>10. ScopeMeasures(p, more, recs2, h) /\ MCalled(p, h) = c + 1
  <2> DEFINE v == recs[i].num_gates
  <2>1. Stands(p, q, a, at, v, Range(paths)) /\ at \in Calls(p, a)
    BY <1>7
  <2>2. v = IF at \in Kind(p, a, "gate") THEN v + 1 ELSE v
    BY <2>1 DEF Calls, Kind
  <2>3. Range(paths) \subseteq P /\ Append(q, CallsMade(p, a, at)) \in P
    BY <1>3, <1>8 DEF x
  <2>4. h.call.name = a /\ h.call.at = at + 1 /\ h.current_segment = i
    OBVIOUS
  <2> HIDE DEF v, a, at, q, i
  <2>5. /\ Stands(p, q, a, at + 1, v, P)
        /\ v \in Nat
        /\ CallsMade(p, a, at) \in Nat
        /\ CallsMade(p, a, at + 1)
             = IF at \in Calls(p, a) THEN CallsMade(p, a, at) + 1 ELSE CallsMade(p, a, at)
    BY ONLY p \in Programs, <2>1, <2>2, <2>3, StandsOn
  <2>6. MCalled(p, h) = c + 1
    BY <2>1, <2>4, <2>5, <1>8 DEF MCalled
  <2>7. Append(q, c + 1) \in Path /\ PathLess(x, Append(q, c + 1))
    <3>1. Below(q, x) /\ x[Len(q) + 1] = c
      BY <1>2, LessCall DEF x
    <3>2. c + 1 \in Nat /\ c < c + 1
      BY <1>2
    <3> QED
      BY <3>1, <3>2, <1>2, <1>3, LessBelow DEF Path
  <2>8. ASSUME NEW k \in 1 .. n + 1 PROVE PathLess(more[k], Append(q, c + 1))
    <3>1. CASE k = n + 1
      BY <3>1, <2>7, <1>3
    <3>2. CASE k # n + 1
      <4>1. k \in 1 .. n
        <5>1. n \in Nat
          BY <1>1
        <5> QED
          BY ONLY <5>1, <3>2, k \in 1 .. n + 1
      <4>2. more[k] = paths[k] /\ PathLess(paths[k], x) /\ paths[k] \in Path
        BY <4>1, <1>1, <1>3, <1>7 DEF Listed
      <4> QED
        BY <4>2, <2>7, <1>3, LessThrough DEF Path
    <3> QED
      BY <3>1, <3>2
  <2>9. i \in 1 .. Len(recs2) /\ Len(recs2) = n + 1 /\ more[i] = q /\ recs2[i].num_gates = v
    BY <1>1, <1>3, <1>4 DEF q, v
  <2> QED
    BY <2>4, <2>5, <2>6, <2>8, <2>9 DEF ScopeMeasures, P
<1>11. ASSUME NEW k \in 3 .. Len(stk2)
       PROVE  /\ k - 1 \in 2 .. Len(stk) /\ stk2[k] = stk[k - 1]
              /\ stk2[k].current_segment \in 1 .. n
              /\ more[stk2[k].current_segment] = paths[stk2[k].current_segment]
              /\ ScopeMeasures(p, more, recs2, stk2[k]) /\ MFrameOk(stk2[k])
  <2>1. k - 1 \in 2 .. Len(stk) /\ k - 1 \in 1 .. Len(stk) /\ stk2[k] = stk[k - 1]
    BY <1>1, <1>5
  <2>2. ScopeMeasures(p, paths, recs, stk2[k]) /\ MFrameOk(stk2[k])
    BY <2>1, <1>6
  <2>3. PathLess(more[n + 1], Append(paths[stk2[k].current_segment], MCalled(p, stk2[k])))
    BY <2>1, <1>3
  <2>4. stk2[k].current_segment \in 1 .. n
    BY <2>2 DEF ScopeMeasures
  <2>5. ScopeMeasures(p, more, recs2, stk2[k])
    <3>1. /\ n \in Nat /\ n = Len(recs) /\ Len(recs2) = n + 1 /\ Range(paths) \subseteq Range(more)
          /\ \A m \in 1 .. n : more[m] = paths[m] /\ recs2[m] = recs[m]
      BY <1>1, <1>3, <1>4 DEF P
    <3> QED
      BY ONLY <2>2, <2>3, <3>1, ScopeWidens
  <2> QED
    BY <2>1, <2>2, <2>4, <2>5, <1>3
<1>12. \A k \in 1 .. Len(stk2) : k = 1 \/ k = 2 \/ k \in 3 .. Len(stk2)
  BY <1>1, <1>5
<1>13. \A k \in 1 .. Len(stk2) : MFrameOk(stk2[k]) /\ ScopeMeasures(p, more, recs2, stk2[k])
  BY <1>5, <1>9, <1>10, <1>11, <1>12
<1>14. more[g.current_segment] = x /\ more[h.current_segment] = q
  BY <1>1, <1>3
<1>15. ASSUME NEW k \in 1 .. Len(stk2), NEW l \in 1 .. Len(stk2), k < l
       PROVE  Within(p, more, stk2[k], stk2[l])
  <2>1. CASE l = 2
    <3>1. k = 1
      BY <1>12, <1>15, <2>1
    <3>2. Below(q, x) /\ x[Len(q) + 1] = c /\ c < c + 1
      BY <1>2, LessCall DEF x
    <3> QED
      BY <2>1, <3>1, <3>2, <1>5, <1>10, <1>14 DEF Within
  <2>2. CASE l \in 3 .. Len(stk2)
    <3> DEFINE b == stk2[l]
    <3>1. l - 1 \in 2 .. Len(stk) /\ b = stk[l - 1] /\ more[b.current_segment] = paths[b.current_segment]
      BY <2>2, <1>11
    <3>2. CASE k = 1
      <4>1. Below(paths[b.current_segment], x) /\ x[Len(paths[b.current_segment]) + 1] < MCalled(p, b)
        BY <3>1, <1>3
      <4> QED
        BY <3>1, <3>2, <4>1, <1>5, <1>14 DEF Within
    <3>3. CASE k = 2
      <4>1. 1 \in 1 .. Len(stk) /\ l - 1 \in 1 .. Len(stk) /\ 1 < l - 1
        BY <3>1, <1>1
      <4>2. Within(p, paths, f, stk[l - 1])
        BY <4>1, <1>6
      <4> QED
        BY <3>1, <3>3, <4>2, <1>5, <1>14 DEF Within
    <3>4. CASE k \in 3 .. Len(stk2)
      <4>1. /\ k - 1 \in 2 .. Len(stk) /\ stk2[k] = stk[k - 1]
            /\ more[stk2[k].current_segment] = paths[stk2[k].current_segment]
        BY <3>4, <1>11
      <4>2. k - 1 \in 1 .. Len(stk) /\ l - 1 \in 1 .. Len(stk) /\ k - 1 < l - 1
        BY <3>1, <4>1, <1>15, <1>1
      <4>3. Within(p, paths, stk[k - 1], stk[l - 1])
        BY <4>2, <1>6
      <4> QED
        BY <3>1, <4>1, <4>3 DEF Within
    <3> QED
      BY <1>12, <3>2, <3>3, <3>4
  <2>3. l # 1
    BY <1>15, <1>1, <1>5
  <2> QED
    BY <1>12, <2>1, <2>2, <2>3
<1>16. ASSUME NEW m \in 1 .. Len(recs2), \A k \in 1 .. Len(stk2) : stk2[k].current_segment # m
       PROVE  Ran(p, more[m], recs2[m].num_gates, P)
  <2>1. 1 \in 1 .. Len(stk2) /\ 2 \in 1 .. Len(stk2)
    BY <1>1, <1>5
  <2>2. m # n + 1 /\ m # i
    BY <2>1, <1>5, <1>16
  <2>3. m \in 1 .. n
    BY <2>2, <1>1, <1>4
  <2>4. ASSUME NEW k \in 1 .. Len(stk) PROVE stk[k].current_segment # m
    <3>1. CASE k = 1
      BY <3>1, <2>2
    <3>2. CASE k # 1
      <4>1. k + 1 \in 3 .. Len(stk) + 1 /\ k + 1 \in 1 .. Len(stk2) /\ (k + 1) - 1 = k
        BY <3>2, <1>1, <1>5
      <4> QED
        BY <4>1, <1>5, <1>16
    <3> QED
      BY <3>1, <3>2
  <2>5. Ran(p, paths[m], recs[m].num_gates, Range(paths))
    BY <2>3, <2>4, <1>6
  <2> QED
    BY <2>3, <2>5, <1>3, <1>4, RanMore
<1>17. stk2 # <<>> /\ Len(recs2) = n + 1
  BY <1>1, <1>4, <1>5
<1>18. Measures(p, more, stk2, recs2)
  <2> HIDE DEF i, q, a, at
  <2> QED
    BY <1>3, <1>4, <1>5, <1>13, <1>15, <1>16, <1>17 DEF Measures, MFrames, P
<1> QED
  BY <1>3, <1>18 DEF recs2
-----------------------------------------------------------------------------
(* The top returns to the scope that called it.                            *)
LEMMA MeasuresLeaves ==
  ASSUME NEW p \in Programs, NEW paths, NEW stk, NEW recs, Measures(p, paths, stk, recs),
         NEW f, f = stk[1], f.call.at > Len(p[f.call.name].ops), Len(stk) > 1,
         NEW g, MFrameOk(g), g.call.name = stk[2].call.name, g.call.at = stk[2].call.at,
         g.current_segment = stk[2].current_segment,
         NEW stk2, Unstacked(stk2, g, stk),
         NEW recs2, Records(recs2), Len(recs2) = Len(recs),
         \A k \in 1 .. Len(recs) : recs2[k].num_gates = recs[k].num_gates
  PROVE  Measures(p, paths, stk2, recs2)
<1>1. /\ Len(stk) \in Nat /\ Len(stk) > 1 /\ ScopeMeasures(p, paths, recs, f)
      /\ Records(recs) /\ Listed(paths, Len(recs)) /\ Len(recs) \in Nat
      /\ f.current_segment \in 1 .. Len(recs)
  BY MTop
<1>2. /\ IsList(stk2) /\ Len(stk2) = Len(stk) - 1 /\ stk2[1] = g
      /\ \A k \in 2 .. Len(stk) - 1 : stk2[k] = stk[k + 1]
  BY DEF Unstacked
<1>3. /\ \A k \in 1 .. Len(stk) : MFrameOk(stk[k]) /\ ScopeMeasures(p, paths, recs, stk[k])
      /\ \A k, l \in 1 .. Len(stk) : k < l => Within(p, paths, stk[k], stk[l])
      /\ \A m \in 1 .. Len(recs) : (\A k \in 1 .. Len(stk) : stk[k].current_segment # m)
           => Ran(p, paths[m], recs[m].num_gates, Range(paths))
  BY DEF Measures, MFrames
<1>4. ASSUME NEW k \in 1 .. Len(stk2)
      PROVE  /\ k + 1 \in 1 .. Len(stk)
             /\ stk2[k].call.name = stk[k + 1].call.name
             /\ stk2[k].call.at = stk[k + 1].call.at
             /\ stk2[k].current_segment = stk[k + 1].current_segment
             /\ MFrameOk(stk2[k])
  <2>1. k + 1 \in 1 .. Len(stk)
    BY <1>1, <1>2
  <2>2. CASE k = 1
    <3>1. k + 1 = 2
      BY <2>2
    <3> QED
      BY <2>1, <2>2, <3>1, <1>2
  <2>3. CASE k # 1
    <3>1. k \in 2 .. Len(stk) - 1
      BY <2>3, <1>1, <1>2
    <3> QED
      BY <2>1, <3>1, <1>2, <1>3
  <2> QED
    BY <2>2, <2>3
<1>5. ASSUME NEW k \in 1 .. Len(stk2)
      PROVE  ScopeMeasures(p, paths, recs2, stk2[k]) /\ MCalled(p, stk2[k]) = MCalled(p, stk[k + 1])
  <2>1. ScopeMeasures(p, paths, recs, stk[k + 1])
    BY <1>3, <1>4
  <2>2. stk[k + 1].current_segment \in 1 .. Len(recs)
    BY <2>1 DEF ScopeMeasures
  <2>3. recs2[stk[k + 1].current_segment].num_gates = recs[stk[k + 1].current_segment].num_gates
    BY <2>2
  <2>4. /\ stk2[k].call.name = stk[k + 1].call.name
        /\ stk2[k].call.at = stk[k + 1].call.at
        /\ stk2[k].current_segment = stk[k + 1].current_segment
        /\ Len(recs2) = Len(recs)
    BY <1>4
  <2> QED
    BY ONLY <2>1, <2>3, <2>4, ScopeStays, SMTT(30)
<1>6. ASSUME NEW k \in 1 .. Len(stk2), NEW l \in 1 .. Len(stk2), k < l
      PROVE  Within(p, paths, stk2[k], stk2[l])
  <2>1. k + 1 \in 1 .. Len(stk) /\ l + 1 \in 1 .. Len(stk) /\ k + 1 < l + 1
    BY <1>4, <1>6
  <2>2. Within(p, paths, stk[k + 1], stk[l + 1])
    BY <2>1, <1>3
  <2> QED
    BY <2>2, <1>4, <1>5 DEF Within
<1>7. ASSUME NEW m \in 1 .. Len(recs2), \A k \in 1 .. Len(stk2) : stk2[k].current_segment # m
      PROVE  Ran(p, paths[m], recs2[m].num_gates, Range(paths))
  <2>1. m \in 1 .. Len(recs) /\ recs2[m].num_gates = recs[m].num_gates
    BY <1>1
  <2>2. CASE f.current_segment = m
    <3> DEFINE P == Range(paths)
               h == recs[m].num_gates
               q == paths[m]
               n == f.call.name
               at == f.call.at
    <3>1. Stands(p, q, n, at, h, P)
      BY <2>2, <1>1 DEF ScopeMeasures
    <3>2. at > Len(p[n].ops)
      OBVIOUS
    <3> HIDE DEF P, h, q, n, at
    <3>3. Ran(p, q, h, P)
      BY <3>1, <3>2, StandsEnd
    <3> QED
      BY <3>3, <2>1 DEF q, h, P
  <2>3. CASE f.current_segment # m
    <3>1. ASSUME NEW k \in 1 .. Len(stk) PROVE stk[k].current_segment # m
      <4>1. CASE k = 1
        BY <4>1, <2>3
      <4>2. CASE k # 1
        <5>1. k - 1 \in 1 .. Len(stk2) /\ (k - 1) + 1 = k
          BY <4>2, <1>1, <1>2
        <5> QED
          BY <5>1, <1>4, <1>7
      <4> QED
        BY <4>1, <4>2
    <3> QED
      BY <3>1, <2>1, <1>3
  <2> QED
    BY <2>2, <2>3
<1>8. stk2 # <<>>
  BY <1>1, <1>2
<1> QED
  BY <1>1, <1>2, <1>4, <1>5, <1>6, <1>7, <1>8 DEF Measures, MFrames

(* The circuit before its first call, with the SYSTEM gate.                *)
LEMMA MeasuresFirst ==
  ASSUME NEW p \in Programs,
         NEW g, MFrameOk(g), g.call.name = Main, g.call.at = 1, g.current_segment = 1,
         NEW e, RecordOk(e), e.num_gates = 1
  PROVE  Measures(p, << <<>> >>, <<g>>, <<e>>)
<1> DEFINE q == <<>>
           paths == <<q>>
           P == Range(paths)
<1>1. CalledAs(p, q, Main) /\ q \in Path /\ Base(q) = 1
  BY CalledStarts DEF CalledAs, Base
<1> HIDE DEF q
<1>2. Stands(p, q, Main, 1, 1, P) /\ CallsMade(p, Main, 1) = 0
  <2>1. Stands(p, q, Main, 1, Base(q), P) /\ CallsMade(p, Main, 1) = 0
    BY <1>1, StandsFirst
  <2> QED
    BY <2>1, <1>1
<1>3. PathLess(q, Append(q, 0))
  BY <1>1, LessCall
<1>4. IsList(<<g>>) /\ Len(<<g>>) = 1 /\ <<g>>[1] = g
  BY Single
<1>5. IsList(<<e>>) /\ Len(<<e>>) = 1 /\ <<e>>[1] = e
  BY Single
<1>6. paths \in Seq(Path) /\ Len(paths) = 1 /\ paths[1] = q
  BY <1>1
<1> HIDE DEF paths, P
<1>7. MFrames(<<g>>) /\ Records(<<e>>)
  BY <1>4, <1>5 DEF MFrames, Records
<1>8. Listed(paths, 1)
  BY <1>6 DEF Listed, q
<1>9. ScopeMeasures(p, paths, <<e>>, g)
  BY <1>2, <1>3, <1>5, <1>6 DEF ScopeMeasures, MCalled, P
<1>10. Measures(p, paths, <<g>>, <<e>>)
  BY <1>4, <1>5, <1>7, <1>8, <1>9 DEF Measures
<1> QED
  BY <1>10 DEF paths, q
-----------------------------------------------------------------------------
(* The same of constraints: a record has those its body made so far, the   *)
(* record of no scope all of its body's.                                   *)
ScopeEnforces(p, recs, f) ==
  recs[f.current_segment].num_constraints = Zeros(p, f.call.name, f.call.at)
Enforces(p, paths, stk, recs) ==
  /\ \A k \in 1 .. Len(stk) : ScopeEnforces(p, recs, stk[k])
  /\ \A i \in 1 .. Len(recs) : (\A k \in 1 .. Len(stk) : stk[k].current_segment # i)
       => \E n \in Routines : CalledAs(p, paths[i], n) /\ recs[i].num_constraints = AllZeros(p, n)

(* The scopes below the top are of other records than its.                 *)
LEMMA MApart ==
  ASSUME NEW p \in Programs, NEW paths, NEW stk, NEW recs, Measures(p, paths, stk, recs)
  PROVE  /\ \A k \in 1 .. Len(stk) : stk[k].current_segment \in 1 .. Len(recs)
         /\ \A k \in 2 .. Len(stk) : stk[k].current_segment # stk[1].current_segment
<1>1. /\ Len(stk) \in Nat \ {0} /\ Records(recs) /\ Listed(paths, Len(recs))
      /\ ScopeMeasures(p, paths, recs, stk[1])
  BY MTop
<1>2. /\ \A k \in 1 .. Len(stk) : ScopeMeasures(p, paths, recs, stk[k])
      /\ \A k, l \in 1 .. Len(stk) : k < l => Within(p, paths, stk[k], stk[l])
  BY DEF Measures
<1>3. ASSUME NEW k \in 2 .. Len(stk) PROVE stk[k].current_segment # stk[1].current_segment
  <2>1. 1 \in 1 .. Len(stk) /\ k \in 1 .. Len(stk) /\ 1 < k
    BY <1>1
  <2>2. Within(p, paths, stk[1], stk[k]) /\ ScopeMeasures(p, paths, recs, stk[k])
    BY <2>1, <1>2
  <2> QED
    BY <2>2, <1>1, WithinApart
<1> QED
  BY <1>2, <1>3 DEF ScopeMeasures

(* A call of the top that enters no routine.                               *)
LEMMA EnforcesOn ==
  ASSUME NEW p \in Programs, NEW paths, NEW stk, NEW recs,
         Measures(p, paths, stk, recs), Enforces(p, paths, stk, recs),
         NEW f, f = stk[1], NEW i, i = f.current_segment, ~M!AtEnd(p, f.call),
         NEW g, g.call.name = f.call.name, g.call.at = f.call.at + 1, g.current_segment = i,
         NEW recs2, Len(recs2) = Len(recs),
         recs2[i].num_constraints = IF M!NextOp(p, f.call).kind = "enforce_zero"
                                    THEN recs[i].num_constraints + 1 ELSE recs[i].num_constraints,
         \A k \in 1 .. Len(recs) : k # i => recs2[k].num_constraints = recs[k].num_constraints
  PROVE  Enforces(p, paths, <<g>> \o Tail(stk), recs2)
<1> DEFINE stk2 == <<g>> \o Tail(stk)
<1>1. /\ IsList(stk) /\ stk # <<>> /\ Len(stk) \in Nat \ {0} /\ i \in 1 .. Len(recs)
      /\ f.call.name \in Routines /\ f.call.at \in Nat \ {0}
  BY MTop
<1>2. Retopped(stk2, g, stk)
  BY <1>1, Replaced
<1> HIDE DEF stk2
<1>3. /\ Len(stk2) = Len(stk) /\ stk2[1] = g
      /\ \A k \in 2 .. Len(stk) : stk2[k] = stk[k]
  BY <1>2 DEF Retopped
<1>4. /\ \A k \in 1 .. Len(stk) : stk[k].current_segment \in 1 .. Len(recs)
      /\ \A k \in 2 .. Len(stk) : stk[k].current_segment # i
  BY MApart
<1>5. /\ \A k \in 1 .. Len(stk) : ScopeEnforces(p, recs, stk[k])
      /\ \A m \in 1 .. Len(recs) : (\A k \in 1 .. Len(stk) : stk[k].current_segment # m)
           => \E n \in Routines : CalledAs(p, paths[m], n) /\ recs[m].num_constraints = AllZeros(p, n)
  BY DEF Enforces
<1>6. ScopeEnforces(p, recs2, g)
  <2>1. recs[i].num_constraints = Zeros(p, f.call.name, f.call.at)
    BY <1>1, <1>5 DEF ScopeEnforces
  <2>2. Zeros(p, f.call.name, f.call.at + 1)
          = IF M!NextOp(p, f.call).kind = "enforce_zero"
            THEN Zeros(p, f.call.name, f.call.at) + 1 ELSE Zeros(p, f.call.name, f.call.at)
    BY <1>1, ZerosAre
  <2> QED
    BY <2>1, <2>2 DEF ScopeEnforces
<1>7. ASSUME NEW k \in 1 .. Len(stk2) PROVE ScopeEnforces(p, recs2, stk2[k])
  <2>1. CASE k = 1
    BY <2>1, <1>3, <1>6
  <2>2. CASE k # 1
    <3>1. k \in 2 .. Len(stk) /\ k \in 1 .. Len(stk) /\ stk2[k] = stk[k]
      BY <2>2, <1>1, <1>3
    <3> QED
      BY <3>1, <1>4, <1>5 DEF ScopeEnforces
  <2> QED
    BY <2>1, <2>2
<1>8. ASSUME NEW m \in 1 .. Len(recs2), \A k \in 1 .. Len(stk2) : stk2[k].current_segment # m
      PROVE  \E n \in Routines : CalledAs(p, paths[m], n) /\ recs2[m].num_constraints = AllZeros(p, n)
  <2>1. m # i /\ \A k \in 1 .. Len(stk) : stk[k].current_segment # m
    <3>1. 1 \in 1 .. Len(stk2) /\ \A k \in 1 .. Len(stk) : k = 1 \/ k \in 2 .. Len(stk)
      BY <1>1, <1>3
    <3>2. m # i
      BY <3>1, <1>3, <1>8
    <3> QED
      BY <3>1, <3>2, <1>3, <1>8
  <2> QED
    BY <2>1, <1>5
<1> QED
  BY <1>7, <1>8 DEF Enforces, stk2

(* A record more, which counts no constraint yet.                           *)
OneMore(recs2, more, recs, paths) ==
  /\ Len(recs2) = Len(recs) + 1 /\ recs2[Len(recs) + 1].num_constraints = 0
  /\ \A k \in 1 .. Len(recs) : more[k] = paths[k] /\ recs2[k] = recs[k]

(* The top enters a routine.                                               *)
LEMMA EnforcesEnters ==
  ASSUME NEW p \in Programs, NEW paths, NEW stk, NEW recs,
         Measures(p, paths, stk, recs), Enforces(p, paths, stk, recs),
         ~M!AtEnd(p, stk[1].call), M!NextOp(p, stk[1].call).kind = "routine",
         NEW h, Going(stk[1], h), NEW g, Starting(g, Len(recs) + 1),
         NEW stk2, Stacked(stk2, g, h, stk),
         NEW recs2, NEW more, OneMore(recs2, more, recs, paths)
  PROVE  Enforces(p, more, stk2, recs2)
<1> DEFINE f == stk[1]
           n == Len(recs)
<1>a. /\ ~M!AtEnd(p, f.call) /\ M!NextOp(p, f.call).kind = "routine"
      /\ h.call.name = f.call.name /\ h.call.at = f.call.at + 1
      /\ h.current_segment = f.current_segment
      /\ g.call.name \in Routines /\ g.call.at = 1 /\ g.current_segment = n + 1
  BY DEF Going, Starting
<1>b. /\ Len(recs2) = n + 1 /\ recs2[n + 1].num_constraints = 0
      /\ \A k \in 1 .. n : more[k] = paths[k] /\ recs2[k] = recs[k]
  BY DEF OneMore
<1> USE <1>a, <1>b
<1>1. /\ Len(stk) \in Nat \ {0} /\ f.current_segment \in 1 .. n /\ n \in Nat
      /\ f.call.name \in Routines /\ f.call.at \in Nat \ {0}
  BY MTop
<1>2. /\ Len(stk2) = Len(stk) + 1 /\ stk2[1] = g /\ stk2[2] = h
      /\ \A k \in 3 .. Len(stk) + 1 : stk2[k] = stk[k - 1]
  BY DEF Stacked
<1>3. \A k \in 1 .. Len(stk) : stk[k].current_segment \in 1 .. n
  BY MApart
<1>4. /\ \A k \in 1 .. Len(stk) : ScopeEnforces(p, recs, stk[k])
      /\ \A m \in 1 .. n : (\A k \in 1 .. Len(stk) : stk[k].current_segment # m)
           => \E b \in Routines : CalledAs(p, paths[m], b) /\ recs[m].num_constraints = AllZeros(p, b)
  BY DEF Enforces
<1>5. ScopeEnforces(p, recs2, g)
  <2> DEFINE c == [name |-> g.call.name, at |-> 1]
  <2>1. c.name = g.call.name /\ c.at = 1
    OBVIOUS
  <2> HIDE DEF c
  <2>2. Zeros(p, c.name, 1) = 0
    BY <2>1, ZerosAre
  <2> QED
    BY <2>1, <2>2 DEF ScopeEnforces
<1>6. ScopeEnforces(p, recs2, h)
  <2>1. recs[f.current_segment].num_constraints = Zeros(p, f.call.name, f.call.at)
    BY <1>1, <1>4 DEF ScopeEnforces
  <2>2. Zeros(p, f.call.name, f.call.at + 1) = Zeros(p, f.call.name, f.call.at)
    BY <1>1, ZerosAre
  <2> QED
    BY <2>1, <2>2, <1>1 DEF ScopeEnforces
<1>7. ASSUME NEW k \in 1 .. Len(stk2) PROVE ScopeEnforces(p, recs2, stk2[k])
  <2>1. CASE k = 1
    BY <2>1, <1>2, <1>5
  <2>2. CASE k = 2
    BY <2>2, <1>2, <1>6
  <2>3. CASE k # 1 /\ k # 2
    <3>1. k \in 3 .. Len(stk) + 1 /\ k - 1 \in 1 .. Len(stk)
      BY <2>3, <1>1, <1>2
    <3>2. stk2[k] = stk[k - 1]
      BY <3>1, <1>2
    <3>3. ScopeEnforces(p, recs, stk[k - 1]) /\ stk[k - 1].current_segment \in 1 .. n
      BY <3>1, <1>3, <1>4
    <3> QED
      BY <3>2, <3>3 DEF ScopeEnforces
  <2> QED
    BY <2>1, <2>2, <2>3
<1>8. ASSUME NEW m \in 1 .. Len(recs2), \A k \in 1 .. Len(stk2) : stk2[k].current_segment # m
      PROVE  \E b \in Routines : CalledAs(p, more[m], b) /\ recs2[m].num_constraints = AllZeros(p, b)
  <2>1. 1 \in 1 .. Len(stk2) /\ 2 \in 1 .. Len(stk2)
    BY <1>1, <1>2
  <2>2. m # n + 1 /\ m # f.current_segment
    BY <2>1, <1>2, <1>8
  <2>3. m \in 1 .. n
    BY <2>2, <1>1
  <2>4. ASSUME NEW k \in 1 .. Len(stk) PROVE stk[k].current_segment # m
    <3>1. CASE k = 1
      BY <3>1, <2>2
    <3>2. CASE k # 1
      <4>1. k + 1 \in 3 .. Len(stk) + 1 /\ k + 1 \in 1 .. Len(stk2) /\ (k + 1) - 1 = k
        BY <3>2, <1>1, <1>2
      <4> QED
        BY <4>1, <1>2, <1>8
    <3> QED
      BY <3>1, <3>2
  <2> QED
    BY <2>3, <2>4, <1>4
<1> QED
  BY <1>7, <1>8 DEF Enforces

(* The top returns to the scope that called it.                            *)
LEMMA EnforcesLeaves ==
  ASSUME NEW p \in Programs, NEW paths, NEW stk, NEW recs,
         Measures(p, paths, stk, recs), Enforces(p, paths, stk, recs),
         NEW f, f = stk[1], M!AtEnd(p, f.call), Len(stk) > 1,
         NEW g, g.call.name = stk[2].call.name, g.call.at = stk[2].call.at,
         g.current_segment = stk[2].current_segment,
         NEW stk2, Unstacked(stk2, g, stk),
         NEW recs2, Len(recs2) = Len(recs),
         \A k \in 1 .. Len(recs) : recs2[k].num_constraints = recs[k].num_constraints
  PROVE  Enforces(p, paths, stk2, recs2)
<1>1. /\ Len(stk) \in Nat /\ f.current_segment \in 1 .. Len(recs)
      /\ f.call.name \in Routines /\ f.call.at \in Nat \ {0}
      /\ ScopeMeasures(p, paths, recs, f)
  BY MTop
<1>2. /\ Len(stk2) = Len(stk) - 1 /\ stk2[1] = g
      /\ \A k \in 2 .. Len(stk) - 1 : stk2[k] = stk[k + 1]
  BY DEF Unstacked
<1>3. \A k \in 1 .. Len(stk) : stk[k].current_segment \in 1 .. Len(recs)
  BY MApart
<1>4. /\ \A k \in 1 .. Len(stk) : ScopeEnforces(p, recs, stk[k])
      /\ \A m \in 1 .. Len(recs) : (\A k \in 1 .. Len(stk) : stk[k].current_segment # m)
           => \E b \in Routines : CalledAs(p, paths[m], b) /\ recs[m].num_constraints = AllZeros(p, b)
  BY DEF Enforces
<1>5. ASSUME NEW k \in 1 .. Len(stk2)
      PROVE  /\ k + 1 \in 1 .. Len(stk)
             /\ stk2[k].call.name = stk[k + 1].call.name
             /\ stk2[k].call.at = stk[k + 1].call.at
             /\ stk2[k].current_segment = stk[k + 1].current_segment
  <2>1. k + 1 \in 1 .. Len(stk)
    BY <1>1, <1>2
  <2>2. CASE k = 1
    <3>1. k + 1 = 2
      BY <2>2
    <3> QED
      BY <2>1, <2>2, <3>1, <1>2
  <2>3. CASE k # 1
    <3>1. k \in 2 .. Len(stk) - 1
      BY <2>3, <1>1, <1>2
    <3> QED
      BY <2>1, <3>1, <1>2
  <2> QED
    BY <2>2, <2>3
<1>6. ASSUME NEW k \in 1 .. Len(stk2) PROVE ScopeEnforces(p, recs2, stk2[k])
  BY <1>3, <1>4, <1>5 DEF ScopeEnforces
<1>7. ASSUME NEW m \in 1 .. Len(recs2), \A k \in 1 .. Len(stk2) : stk2[k].current_segment # m
      PROVE  \E b \in Routines : CalledAs(p, paths[m], b) /\ recs2[m].num_constraints = AllZeros(p, b)
  <2>1. CASE f.current_segment = m
    <3>1. CalledAs(p, paths[m], f.call.name)
      BY <2>1, <1>1 DEF ScopeMeasures, Stands
    <3>2. recs[m].num_constraints = Zeros(p, f.call.name, f.call.at)
      <4>1. 1 \in 1 .. Len(stk)
        BY <1>1
      <4> QED
        BY <4>1, <2>1, <1>4 DEF ScopeEnforces
    <3>3. Zeros(p, f.call.name, f.call.at) = AllZeros(p, f.call.name)
      BY <1>1, ZerosAre
    <3> QED
      BY <3>1, <3>2, <3>3, <1>1
  <2>2. CASE f.current_segment # m
    <3>1. ASSUME NEW k \in 1 .. Len(stk) PROVE stk[k].current_segment # m
      <4>1. CASE k = 1
        BY <4>1, <2>2
      <4>2. CASE k # 1
        <5>1. k - 1 \in 1 .. Len(stk2) /\ (k - 1) + 1 = k
          BY <4>2, <1>1, <1>2
        <5> QED
          BY <5>1, <1>5, <1>7
      <4> QED
        BY <4>1, <4>2
    <3> QED
      BY <3>1, <1>4
  <2> QED
    BY <2>1, <2>2
<1> QED
  BY <1>6, <1>7 DEF Enforces
-----------------------------------------------------------------------------
(* The steps of metrics.  The circuit is not changed by any of them, and    *)
(* each counts its gate in a record and in the total alike.                *)
MeasuredAt == /\ \E paths : Measures(prog, paths, stack, segments) /\ Enforces(prog, paths, stack, segments)
              /\ num_gates = GateTotal(segments)

(* A call that enters no routine.                                          *)
LEMMA MGoesOn ==
  ASSUME prog \in Programs, MeasuredAt,
         NEW f, f = stack[1], NEW i, i = f.current_segment, ~M!AtEnd(prog, f.call),
         NEW kind, kind = M!NextOp(prog, f.call).kind, kind # "routine",
         NEW g, MFrameOk(g), g.call.name = f.call.name, g.call.at = f.call.at + 1,
         g.current_segment = i,
         stack' = <<g>> \o Tail(stack),
         NEW e, RecordOk(e), e.num_gates = IF kind = "gate" THEN segments[i].num_gates + 1
                                           ELSE segments[i].num_gates,
         e.num_constraints = IF kind = "enforce_zero" THEN segments[i].num_constraints + 1
                             ELSE segments[i].num_constraints,
         segments' = [segments EXCEPT ![i] = e],
         num_gates' = IF kind = "gate" THEN num_gates + 1 ELSE num_gates,
         UNCHANGED prog
  PROVE  MeasuredAt'
<1>1. PICK paths : Measures(prog, paths, stack, segments) /\ Enforces(prog, paths, stack, segments)
  BY DEF MeasuredAt
<1>2. /\ Records(segments) /\ i \in 1 .. Len(segments) /\ RecordOk(segments[i])
      /\ f.call.name \in Routines /\ f.call.at \in Nat \ {0}
  BY <1>1, MTop
<1>3. /\ f.call.at \in Kind(prog, f.call.name, "gate") <=> kind = "gate"
      /\ f.call.at \notin Calls(prog, f.call.name)
  BY <1>2, MNextCall
<1> DEFINE recs2 == [segments EXCEPT ![i] = e]
<1>4. /\ Records(recs2) /\ Len(recs2) = Len(segments)
      /\ \A k \in 1 .. Len(segments) : recs2[k] = IF k = i THEN e ELSE segments[k]
  <2>1. RecordOk(e)
    OBVIOUS
  <2> QED
    BY ONLY <1>2, <2>1, RecordsChange
<1> HIDE DEF recs2
<1>5. /\ recs2[i].num_gates = IF f.call.at \in Kind(prog, f.call.name, "gate")
                              THEN segments[i].num_gates + 1 ELSE segments[i].num_gates
      /\ \A k \in 1 .. Len(segments) : k # i => recs2[k].num_gates = segments[k].num_gates
  BY <1>2, <1>3, <1>4
<1>6. Measures(prog, paths, <<g>> \o Tail(stack), recs2)
  <2> DEFINE s == stack
             r == segments
             p == prog
  <2>1. /\ p \in Programs /\ Measures(p, paths, s, r) /\ f = s[1] /\ i = f.current_segment
        /\ f.call.at \notin Calls(p, f.call.name)
        /\ MFrameOk(g) /\ g.call.name = f.call.name /\ g.call.at = f.call.at + 1
        /\ g.current_segment = i /\ Records(recs2) /\ Len(recs2) = Len(r)
    BY <1>1, <1>3, <1>4
  <2> QED
    BY ONLY <2>1, <1>5, MeasuresOn
<1>7. Enforces(prog, paths, <<g>> \o Tail(stack), recs2)
  <2>1. /\ prog \in Programs /\ Measures(prog, paths, stack, segments)
        /\ Enforces(prog, paths, stack, segments) /\ f = stack[1] /\ i = f.current_segment
        /\ ~M!AtEnd(prog, f.call) /\ g.call.name = f.call.name /\ g.call.at = f.call.at + 1
        /\ g.current_segment = i /\ Len(recs2) = Len(segments)
        /\ recs2[i].num_constraints = IF M!NextOp(prog, f.call).kind = "enforce_zero"
                                      THEN segments[i].num_constraints + 1
                                      ELSE segments[i].num_constraints
        /\ \A k \in 1 .. Len(segments) : k # i =>
             recs2[k].num_constraints = segments[k].num_constraints
    BY <1>1, <1>2, <1>4
  <2> QED
    BY ONLY <2>1, EnforcesOn
<1>8. num_gates' = GateTotal(recs2)
  <2>1. /\ e.num_gates = segments[i].num_gates + 1
             => GateTotal([segments EXCEPT ![i] = e]) = GateTotal(segments) + 1
        /\ e.num_gates = segments[i].num_gates
             => GateTotal([segments EXCEPT ![i] = e]) = GateTotal(segments)
        /\ e.num_constraints = segments[i].num_constraints + 1
             => ConstraintTotal([segments EXCEPT ![i] = e]) = ConstraintTotal(segments) + 1
        /\ e.num_constraints = segments[i].num_constraints
             => ConstraintTotal([segments EXCEPT ![i] = e]) = ConstraintTotal(segments)
    BY <1>2, TotalsChange
  <2>2. num_gates = GateTotal(segments)
    BY DEF MeasuredAt
  <2> QED
    BY <2>1, <2>2 DEF recs2
<1>9. segments' = recs2
  BY DEF recs2
<1> QED
  BY <1>6, <1>8, <1>9, <1>7 DEF MeasuredAt

(* One that counts nothing.                                                *)
LEMMA MPasses ==
  ASSUME prog \in Programs, MeasuredAt,
         NEW f, f = stack[1], ~M!AtEnd(prog, f.call),
         M!NextOp(prog, f.call).kind \notin {"routine", "gate", "enforce_zero"},
         NEW g, MFrameOk(g), g.call.name = f.call.name, g.call.at = f.call.at + 1,
         g.current_segment = f.current_segment,
         stack' = <<g>> \o Tail(stack), UNCHANGED <<prog, segments, num_gates>>
  PROVE  MeasuredAt'
<1>1. PICK paths : Measures(prog, paths, stack, segments) /\ Enforces(prog, paths, stack, segments)
  BY DEF MeasuredAt
<1>2. /\ f.call.name \in Routines /\ f.call.at \in Nat \ {0} /\ Records(segments)
  BY <1>1, MTop
<1>3. /\ f.call.at \notin Kind(prog, f.call.name, "gate")
      /\ f.call.at \notin Calls(prog, f.call.name)
  BY <1>2, MNextCall
<1>4. Measures(prog, paths, <<g>> \o Tail(stack), segments)
  BY <1>1, <1>2, <1>3, MeasuresOn
<1>5. Enforces(prog, paths, <<g>> \o Tail(stack), segments)
  <2>1. M!NextOp(prog, f.call).kind # "enforce_zero"
    OBVIOUS
  <2> QED
    BY <2>1, <1>1, EnforcesOn
<1> QED
  BY <1>4, <1>5 DEF MeasuredAt
-----------------------------------------------------------------------------
(* gate().                                                                 *)
LEMMA MGatesMeasures ==
  ASSUME prog \in Programs, MeasuredAt, M!Gates
  PROVE  MeasuredAt'
<1> DEFINE f == stack[1]
           i == f.current_segment
           wires3 == <<M!Unit("a", f.gate), M!Unit("b", f.gate), M!Unit("c", f.gate)>>
           call2 == [f.call EXCEPT !.at = @ + 1, !.env = @ \o wires3, !.extras = Append(@, f.gate)]
           g == [f EXCEPT !.gate = f.gate + 1, !.call = call2]
           e == [segments[i] EXCEPT !.num_gates = @ + 1]
<1>1. PICK paths : Measures(prog, paths, stack, segments) /\ Enforces(prog, paths, stack, segments)
  BY DEF MeasuredAt
<1>2. /\ Head(stack) = f /\ MFrameOk(f) /\ RecordOk(segments[i])
  BY <1>1, MTop
<1>3. ~M!AtEnd(prog, f.call) /\ M!NextOp(prog, f.call).kind = "gate"
  BY <1>2 DEF M!Gates, M!Top, M!AboutTo
<1>4. stack' = <<g>> \o Tail(stack)
  BY <1>2 DEF M!Gates, M!Top, M!SetTop, M!BindGate
<1>5. /\ segments' = [segments EXCEPT ![i] = e] /\ UNCHANGED prog
      /\ num_gates' = num_gates + 1
  BY <1>2 DEF M!Gates, M!CountGate, M!Top
<1>6. DOMAIN call2 = DOMAIN f.call /\ call2.name = f.call.name /\ call2.at = f.call.at + 1
  BY <1>2 DEF MFrameOk
<1> HIDE DEF call2
<1>7. /\ MFrameOk(g) /\ g.call.name = f.call.name /\ g.call.at = f.call.at + 1
      /\ g.current_segment = i
  BY <1>2, <1>6 DEF MFrameOk
<1>8. /\ RecordOk(e) /\ e.num_gates = segments[i].num_gates + 1
      /\ e.num_constraints = segments[i].num_constraints
  BY <1>2 DEF RecordOk
<1> HIDE DEF g, e
<1> DEFINE kind == "gate"
<1>9. /\ kind = M!NextOp(prog, f.call).kind /\ kind # "routine"
      /\ e.num_gates = IF kind = "gate" THEN segments[i].num_gates + 1 ELSE segments[i].num_gates
      /\ e.num_constraints = IF kind = "enforce_zero" THEN segments[i].num_constraints + 1
                             ELSE segments[i].num_constraints
      /\ num_gates' = IF kind = "gate" THEN num_gates + 1 ELSE num_gates
  BY <1>3, <1>5, <1>8
<1> HIDE DEF kind
<1> QED
  BY <1>3, <1>4, <1>5, <1>7, <1>8, <1>9, MGoesOn

(* enforce_zero().                                                         *)
LEMMA MEnforcesMeasures ==
  ASSUME prog \in Programs, MeasuredAt, M!EnforcesZero
  PROVE  MeasuredAt'
<1> DEFINE f == stack[1]
           i == f.current_segment
           sum == M!Combine(M!NextOp(prog, f.call).lc, f.call.env)
           call2 == [f.call EXCEPT !.at = @ + 1]
           g == [f EXCEPT !.result = Append(@, sum), !.call = call2]
           e == [segments[i] EXCEPT !.num_constraints = @ + 1]
<1>1. PICK paths : Measures(prog, paths, stack, segments) /\ Enforces(prog, paths, stack, segments)
  BY DEF MeasuredAt
<1>2. /\ Head(stack) = f /\ MFrameOk(f) /\ RecordOk(segments[i])
  BY <1>1, MTop
<1>3. ~M!AtEnd(prog, f.call) /\ M!NextOp(prog, f.call).kind = "enforce_zero"
  BY <1>2 DEF M!EnforcesZero, M!Top, M!AboutTo
<1>4. stack' = <<g>> \o Tail(stack)
  BY <1>2 DEF M!EnforcesZero, M!Top, M!SetTop, M!Advanced
<1>5. segments' = [segments EXCEPT ![i] = e] /\ UNCHANGED <<prog, num_gates>>
  BY <1>2 DEF M!EnforcesZero, M!Top
<1>6. DOMAIN call2 = DOMAIN f.call /\ call2.name = f.call.name /\ call2.at = f.call.at + 1
  BY <1>2 DEF MFrameOk
<1> HIDE DEF call2
<1>7. /\ MFrameOk(g) /\ g.call.name = f.call.name /\ g.call.at = f.call.at + 1
      /\ g.current_segment = i
  BY <1>2, <1>6 DEF MFrameOk
<1>8. /\ RecordOk(e) /\ e.num_gates = segments[i].num_gates
      /\ e.num_constraints = segments[i].num_constraints + 1
  BY <1>2 DEF RecordOk
<1> HIDE DEF g, e
<1> DEFINE kind == "enforce_zero"
<1>9. /\ kind = M!NextOp(prog, f.call).kind /\ kind # "routine"
      /\ e.num_gates = IF kind = "gate" THEN segments[i].num_gates + 1 ELSE segments[i].num_gates
      /\ e.num_constraints = IF kind = "enforce_zero" THEN segments[i].num_constraints + 1
                             ELSE segments[i].num_constraints
      /\ num_gates' = IF kind = "gate" THEN num_gates + 1 ELSE num_gates
  BY <1>3, <1>5, <1>8
<1> HIDE DEF kind
<1> QED
  BY <1>3, <1>4, <1>5, <1>7, <1>8, <1>9, MGoesOn

(* assign_extra() and add().                                               *)
LEMMA MBindsMeasures ==
  ASSUME prog \in Programs, MeasuredAt, M!AssignsExtra \/ M!Adds
  PROVE  MeasuredAt'
<1> DEFINE f == stack[1]
           extra == <<M!Unit("d", f.call.extras[M!NextOp(prog, f.call).gate])>>
           sum == <<M!Combine(M!NextOp(prog, f.call).lc, f.call.env)>>
           call1 == [f.call EXCEPT !.at = @ + 1]
           call2(wire) == [call1 EXCEPT !.env = @ \o wire]
           g(wire) == [f EXCEPT !.call = call2(wire)]
<1>1. PICK paths : Measures(prog, paths, stack, segments) /\ Enforces(prog, paths, stack, segments)
  BY DEF MeasuredAt
<1>2. /\ Head(stack) = f /\ MFrameOk(f)
  BY <1>1, MTop
<1>3. ~M!AtEnd(prog, f.call) /\ M!NextOp(prog, f.call).kind \in {"assign_extra", "add"}
  BY <1>2 DEF M!AssignsExtra, M!Adds, M!Top, M!AboutTo
<1>4. M!NextOp(prog, f.call).kind \notin {"routine", "gate", "enforce_zero"}
  BY <1>3
<1>5. UNCHANGED <<prog, segments, num_gates>>
  BY DEF M!AssignsExtra, M!Adds
<1>6. stack' = <<g(extra)>> \o Tail(stack) \/ stack' = <<g(sum)>> \o Tail(stack)
  BY <1>2 DEF M!AssignsExtra, M!Adds, M!Top, M!SetTop, M!Bind, M!Advanced
<1>7. PICK wire : stack' = <<g(wire)>> \o Tail(stack)
  <2> HIDE DEF g, extra, sum
  <2> QED
    BY <1>6
<1> DEFINE c == call2(wire)
           h == [f EXCEPT !.call = c]
<1>8. DOMAIN c = DOMAIN f.call /\ c.name = f.call.name /\ c.at = f.call.at + 1
  BY <1>2 DEF MFrameOk
<1>9. stack' = <<h>> \o Tail(stack)
  BY <1>7
<1> HIDE DEF c
<1>10. /\ MFrameOk(h) /\ h.call.name = f.call.name /\ h.call.at = f.call.at + 1
       /\ h.current_segment = f.current_segment
  BY <1>2, <1>8 DEF MFrameOk
<1> HIDE DEF h
<1>11. stack' = <<h>> \o Tail(stack)
  BY <1>9 DEF h
<1> QED
  BY <1>3, <1>4, <1>5, <1>10, <1>11, MPasses

(* routine(): entered.                                                     *)
LEMMA MEntersMeasures ==
  ASSUME prog \in Programs, MeasuredAt, M!EntersRoutine
  PROVE  MeasuredAt'
<1> DEFINE f == stack[1]
           op == M!NextOp(prog, f.call)
           w == Len(op.args)
           n == Len(segments)
           g == M!NewScope(op.name, n + 1, M!Tokens(1, w), 1 + w)
           call2 == [f.call EXCEPT !.at = @ + 1]
           h == [f EXCEPT !.call = call2]
           e == [num_gates |-> 0, num_constraints |-> 0, identity |-> M!RootIdentity]
           stk2 == (<<g>> \o <<h>>) \o Tail(stack)
<1>1. PICK paths : Measures(prog, paths, stack, segments) /\ Enforces(prog, paths, stack, segments)
  BY DEF MeasuredAt
<1>2. /\ Head(stack) = f /\ MFrameOk(f) /\ IsList(stack) /\ stack # <<>> /\ Records(segments)
      /\ f.call.name \in Routines /\ f.call.at \in Nat \ {0}
  BY <1>1, MTop
<1>3. ~M!AtEnd(prog, f.call) /\ op.kind = "routine"
  BY <1>2 DEF M!EntersRoutine, M!Top, M!AboutTo
<1>4. stack' = stk2
  BY <1>2 DEF M!EntersRoutine, M!Top, M!Advanced
<1>5. segments' = Append(segments, e) /\ UNCHANGED <<prog, num_gates>>
  BY DEF M!EntersRoutine, M!NewRecord
<1>6. DOMAIN call2 = DOMAIN f.call /\ call2.name = f.call.name /\ call2.at = f.call.at + 1
  BY <1>2 DEF MFrameOk
<1> HIDE DEF call2
<1>7. /\ MFrameOk(h) /\ h.call.name = f.call.name /\ h.call.at = f.call.at + 1
      /\ h.current_segment = f.current_segment
  BY <1>2, <1>6 DEF MFrameOk
<1>8. f.call.at \in Calls(prog, f.call.name) /\ op = prog[f.call.name].ops[f.call.at]
  BY <1>2, <1>3, MNextCall
<1>9. MFrameOk(g) /\ g.call.name = op.name /\ g.call.at = 1 /\ g.current_segment = n + 1
  <2> HIDE DEF op, w, n
  <2> QED
    BY DEF M!NewScope, M!NewCallFrame, MFrameOk
<1>10. RecordOk(e) /\ e.num_gates = 0 /\ e.num_constraints = 0
  BY DEF RecordOk
<1> HIDE DEF g, h, e
<1>11. Stacked(stk2, g, h, stack)
  BY <1>2, PushedOver
<1> HIDE DEF stk2, op, f
<1>12. g.call.name = prog[f.call.name].ops[f.call.at].name
  BY <1>8, <1>9
<1>13. \E more : Measures(prog, more, stk2, Append(segments, e)) /\ \A k \in 1 .. n : more[k] = paths[k]
  <2>1. prog \in Programs /\ Measures(prog, paths, stack, segments) /\ f = stack[1]
    BY <1>1 DEF f
  <2>2. f.call.at \in Calls(prog, f.call.name) /\ RecordOk(e) /\ e.num_gates = 0
    BY <1>8, <1>10
  <2>3. g.call.name \in Routines
    BY <1>2, <1>8, <1>12, CallNames
  <2>4. Going(f, h) /\ Starting(g, Len(segments) + 1) /\ MFrameOk(g) /\ MFrameOk(h)
    BY <1>7, <1>9, <2>3 DEF Going, Starting
  <2>5. \E more : /\ Measures(prog, more, stk2, Append(segments, e))
                  /\ \A k \in 1 .. Len(segments) : more[k] = paths[k]
    BY ONLY <2>1, <2>2, <2>4, <1>11, <1>12, MeasuresEnters, SMTT(30)
  <2> QED
    BY <2>5
<1>14. GateTotal(Append(segments, e)) = GateTotal(segments)
  BY <1>2, <1>10, TotalsAppend
<1>15. PICK more : Measures(prog, more, stk2, Append(segments, e)) /\ \A k \in 1 .. n : more[k] = paths[k]
  BY <1>13
<1>16. Enforces(prog, more, stk2, Append(segments, e))
  <2>1. /\ prog \in Programs /\ Measures(prog, paths, stack, segments) /\ f = stack[1]
        /\ Enforces(prog, paths, stack, segments) /\ ~M!AtEnd(prog, f.call)
        /\ n = Len(segments) /\ g.call.at = 1 /\ g.current_segment = n + 1
    BY <1>1, <1>3, <1>9 DEF f
  <2>2. M!NextOp(prog, f.call).kind = "routine"
    BY <1>3 DEF op
  <2>3. g.call.name \in Routines
    BY <1>2, <1>8, <1>12, CallNames
  <2>4. /\ Len(Append(segments, e)) = n + 1 /\ Append(segments, e)[n + 1] = e
        /\ \A k \in 1 .. n : Append(segments, e)[k] = segments[k]
    BY <1>2, <1>10, RecordsMore
  <2> HIDE DEF n
  <2> DEFINE recs2 == Append(segments, e)
  <2>5. /\ Len(recs2) = n + 1 /\ recs2[n + 1].num_constraints = 0
        /\ \A k \in 1 .. n : more[k] = paths[k] /\ recs2[k] = segments[k]
    BY <2>4, <1>10, <1>15
  <2> HIDE DEF recs2
  <2>6. Going(stack[1], h) /\ Starting(g, Len(segments) + 1)
    BY <1>7, <2>1, <2>3 DEF Going, Starting
  <2>7. OneMore(recs2, more, segments, paths)
    BY <2>1, <2>5 DEF OneMore
  <2>8. ~M!AtEnd(prog, stack[1].call) /\ M!NextOp(prog, stack[1].call).kind = "routine"
    BY <2>1, <2>2
  <2>9. Enforces(prog, more, stk2, recs2)
    BY ONLY <2>1, <2>6, <2>7, <2>8, <1>11, EnforcesEnters
  <2> QED
    BY <2>9 DEF recs2
<1> QED
  BY <1>4, <1>5, <1>14, <1>15, <1>16 DEF MeasuredAt

(* routine(): left.                                                        *)
LEMMA MLeavesMeasures ==
  ASSUME prog \in Programs, MeasuredAt, M!LeavesRoutine
  PROVE  MeasuredAt'
<1> DEFINE f == stack[1]
           i == f.current_segment
           b == stack[2]
           n == Len(M!OutputWires(prog, f.call))
           env == b.call.env \o M!Tokens(b.remap, n)
           call2 == [b.call EXCEPT !.env = env]
           g == [b EXCEPT !.remap = @ + n, !.call = call2]
           e == [segments[i] EXCEPT !.identity = M!Identity(f, segments[i])]
           stk2 == <<g>> \o SubSeq(stack, 3, Len(stack))
           recs2 == [segments EXCEPT ![i] = e]
<1>1. PICK paths : Measures(prog, paths, stack, segments) /\ Enforces(prog, paths, stack, segments)
  BY DEF MeasuredAt
<1>2. /\ IsList(stack) /\ Head(stack) = f /\ MFrameOk(f) /\ Records(segments)
      /\ i \in 1 .. Len(segments) /\ RecordOk(segments[i]) /\ Len(stack) \in Nat
      /\ f.call.name \in Routines /\ f.call.at \in Nat \ {0}
  BY <1>1, MTop
<1>3. M!AtEnd(prog, f.call) /\ Len(stack) > 1
  BY <1>2 DEF M!LeavesRoutine, M!Top
<1>4. MFrameOk(b)
  <2>1. 2 \in 1 .. Len(stack)
    BY <1>2, <1>3
  <2> QED
    BY <1>1, <2>1 DEF Measures, MFrames
<1>5. stack' = stk2
  <2>1. stack' = <<[b EXCEPT !.remap = b.remap + n, !.call.env = env]>> \o SubSeq(stack, 3, Len(stack))
    BY <1>2 DEF M!LeavesRoutine, M!Top
  <2>2. [b EXCEPT !.remap = b.remap + n, !.call.env = env] = g
    <3> HIDE DEF env, n
    <3> QED
      BY <1>4 DEF MFrameOk
  <2> HIDE DEF g, b, n, env
  <2> QED
    BY <2>1, <2>2
<1>6. segments' = recs2 /\ UNCHANGED <<prog, num_gates>>
  BY <1>2 DEF M!LeavesRoutine, M!Top
<1>7. DOMAIN call2 = DOMAIN b.call /\ call2.name = b.call.name /\ call2.at = b.call.at
  <2> HIDE DEF env
  <2> QED
    BY <1>4 DEF MFrameOk
<1> HIDE DEF call2, n
<1>8. /\ MFrameOk(g) /\ g.call.name = b.call.name /\ g.call.at = b.call.at
      /\ g.current_segment = b.current_segment
  BY <1>4, <1>7 DEF MFrameOk
<1>9. /\ RecordOk(e) /\ e.num_gates = segments[i].num_gates
      /\ e.num_constraints = segments[i].num_constraints
  BY <1>2 DEF RecordOk
<1> HIDE DEF g, e
<1>10. Unstacked(stk2, g, stack)
  BY <1>2, <1>3, PoppedOver
<1>11. /\ Records(recs2) /\ Len(recs2) = Len(segments)
       /\ \A k \in 1 .. Len(segments) : recs2[k] = IF k = i THEN e ELSE segments[k]
  BY <1>2, <1>9, RecordsChange
<1>12. GateTotal(recs2) = GateTotal(segments)
  <2>1. /\ e.num_gates = segments[i].num_gates + 1
             => GateTotal([segments EXCEPT ![i] = e]) = GateTotal(segments) + 1
        /\ e.num_gates = segments[i].num_gates
             => GateTotal([segments EXCEPT ![i] = e]) = GateTotal(segments)
        /\ e.num_constraints = segments[i].num_constraints + 1
             => ConstraintTotal([segments EXCEPT ![i] = e]) = ConstraintTotal(segments) + 1
        /\ e.num_constraints = segments[i].num_constraints
             => ConstraintTotal([segments EXCEPT ![i] = e]) = ConstraintTotal(segments)
    BY <1>2, <1>9, TotalsChange
  <2> QED
    BY <2>1, <1>9
<1> HIDE DEF stk2, recs2
<1>13. \A k \in 1 .. Len(segments) : /\ recs2[k].num_gates = segments[k].num_gates
                                     /\ recs2[k].num_constraints = segments[k].num_constraints
  BY <1>9, <1>11
<1>14. f.call.at > Len(prog[f.call.name].ops)
  BY <1>2, <1>3, MNextCall
<1>15. Measures(prog, paths, stk2, recs2)
  <2>1. /\ prog \in Programs /\ Measures(prog, paths, stack, segments) /\ f = stack[1]
        /\ Len(stack) > 1 /\ MFrameOk(g) /\ g.call.name = stack[2].call.name
        /\ g.call.at = stack[2].call.at /\ g.current_segment = stack[2].current_segment
        /\ Records(recs2) /\ Len(recs2) = Len(segments)
    BY <1>1, <1>3, <1>8, <1>11
  <2> HIDE DEF f
  <2>2. f.call.at > Len(prog[f.call.name].ops)
    BY <1>14 DEF f
  <2> QED
    BY ONLY <2>1, <2>2, <1>10, <1>13, MeasuresLeaves
<1>16. Enforces(prog, paths, stk2, recs2)
  <2>1. /\ prog \in Programs /\ Measures(prog, paths, stack, segments) /\ f = stack[1]
        /\ Enforces(prog, paths, stack, segments) /\ M!AtEnd(prog, f.call)
        /\ Len(stack) > 1 /\ g.call.name = stack[2].call.name
        /\ g.call.at = stack[2].call.at /\ g.current_segment = stack[2].current_segment
        /\ Len(recs2) = Len(segments)
    BY <1>1, <1>3, <1>8, <1>11
  <2> QED
    BY ONLY <2>1, <1>10, <1>13, EnforcesLeaves
<1> QED
  BY <1>5, <1>6, <1>12, <1>15, <1>16 DEF MeasuredAt

(* The SYSTEM gate.                                                        *)
LEMMA MStartsMeasures ==
  ASSUME prog \in Programs, stack = <<M!NewScope(Main, 1, <<>>, 1)>>, segments = <<M!NewRecord>>,
         num_gates = 0, M!AllocatesSystemGate
  PROVE  MeasuredAt'
<1> DEFINE f == M!NewScope(Main, 1, <<>>, 1)
           r == M!NewRecord
           g == [f EXCEPT !.gate = @ + 1]
           e == [r EXCEPT !.num_gates = @ + 1]
<1>1. MFrameOk(f) /\ f.call.name = Main /\ f.call.at = 1 /\ f.current_segment = 1
  BY DEF M!NewScope, M!NewCallFrame, MFrameOk
<1>2. RecordOk(r) /\ r.num_gates = 0 /\ r.num_constraints = 0
  BY DEF M!NewRecord, RecordOk
<1>3. stack = <<f>> /\ segments = <<r>>
  OBVIOUS
<1> HIDE DEF f, r
<1>4. Head(<<f>>) = f /\ Tail(<<f>>) = <<>> /\ <<r>>[1] = r
  OBVIOUS
<1>5. /\ MFrameOk(g) /\ g.call.name = Main /\ g.call.at = 1 /\ g.current_segment = 1
  BY <1>1 DEF MFrameOk
<1>6. RecordOk(e) /\ e.num_gates = 1 /\ e.num_constraints = 0
  BY <1>2 DEF RecordOk
<1>7. stack' = <<g>> \o <<>> /\ segments' = [<<r>> EXCEPT ![1] = e] /\ UNCHANGED prog /\ num_gates' = 1
  <2>1. M!Top = f
    BY <1>3, <1>4 DEF M!Top
  <2>2. /\ stack' = <<[M!Top EXCEPT !.gate = @ + 1]>> \o Tail(stack) /\ UNCHANGED prog
        /\ num_gates' = num_gates + 1
    BY DEF M!AllocatesSystemGate, M!SetTop, M!CountGate
  <2>3. segments' = [segments EXCEPT ![M!Top.current_segment] =
                       [segments[M!Top.current_segment] EXCEPT !.num_gates = @ + 1]]
    BY DEF M!AllocatesSystemGate, M!CountGate
  <2>4. stack' = <<[f EXCEPT !.gate = @ + 1]>> \o <<>>
    BY <2>1, <2>2, <1>3, <1>4
  <2>5. segments' = [<<r>> EXCEPT ![1] = [r EXCEPT !.num_gates = @ + 1]]
    <3>1. segments' = [segments EXCEPT ![1] = [segments[1] EXCEPT !.num_gates = @ + 1]]
      BY <2>1, <2>3, <1>1
    <3> QED
      BY ONLY <3>1, <1>3, <1>4
  <2> QED
    BY <2>2, <2>4, <2>5
<1> HIDE DEF g, e
<1>8. stack' = <<g>> /\ segments' = <<e>>
  BY <1>7
<1>9. Measures(prog, << <<>> >>, <<g>>, <<e>>)
  BY <1>5, <1>6, MeasuresFirst
<1>10. GateTotal(<<e>>) = 1
  <2>1. Records(<<r>>) /\ Len(<<r>>) = 1 /\ GateTotal(<<r>>) = 0
    BY <1>2, OneRecord
  <2>2. GateTotal([<<r>> EXCEPT ![1] = e]) = GateTotal(<<r>>) + 1
    <3>1. 1 \in 1 .. Len(<<r>>) /\ e.num_gates = <<r>>[1].num_gates + 1
      BY <2>1, <1>2, <1>4, <1>6
    <3> QED
      BY <2>1, <3>1, <1>6, TotalsChange
  <2>3. [<<r>> EXCEPT ![1] = e] = <<e>>
    BY <1>7, <1>8
  <2> QED
    BY <2>1, <2>2, <2>3
<1>11. Enforces(prog, << <<>> >>, <<g>>, <<e>>)
  <2>1. Len(<<g>>) = 1 /\ <<g>>[1] = g /\ Len(<<e>>) = 1 /\ <<e>>[1] = e
    BY Single
  <2>2. Zeros(prog, Main, 1) = 0
    <3> DEFINE c == [name |-> Main, at |-> 1]
    <3>1. c.name = Main /\ c.at = 1 /\ Main \in Routines
      BY CircuitAssumption
    <3> HIDE DEF c
    <3> QED
      BY <3>1, ZerosAre
  <2>3. ScopeEnforces(prog, <<e>>, g)
    BY <2>1, <2>2, <1>5, <1>6 DEF ScopeEnforces
  <2>4. \A k \in 1 .. 1 : k = 1
    OBVIOUS
  <2> QED
    BY <2>1, <2>3, <2>4, <1>5 DEF Enforces
<1> QED
  BY <1>7, <1>8, <1>9, <1>10, <1>11 DEF MeasuredAt
-----------------------------------------------------------------------------
(* The invariant of metrics.                                               *)
MetricsInv ==
  /\ mpc \in {"system", "body", "done"}
  /\ mpc = "system" => /\ stack = <<M!NewScope(Main, 1, <<>>, 1)>>
                       /\ segments = <<M!NewRecord>> /\ num_gates = 0
  /\ mpc # "system" => MeasuredAt
  /\ mpc = "done" => /\ Len(stack) = 1
                     /\ stack[1].call.at > Len(prog[stack[1].call.name].ops)
                     /\ M!AtEnd(prog, stack[1].call)

(* The steps of metrics keep it.                                           *)
LEMMA MetricsKeep ==
  ASSUME prog \in Programs, MetricsInv, M!Next
  PROVE  MetricsInv' /\ UNCHANGED prog
<1>1. CASE M!AllocatesSystemGate
  <2>1. mpc' = "body" /\ UNCHANGED prog /\ mpc = "system"
    BY <1>1 DEF M!AllocatesSystemGate
  <2>2. MeasuredAt'
    BY <1>1, <2>1, MStartsMeasures DEF MetricsInv
  <2> QED
    BY <2>1, <2>2 DEF MetricsInv
<1>2. CASE M!Gates \/ M!AssignsExtra \/ M!Adds \/ M!EnforcesZero \/ M!EntersRoutine \/ M!LeavesRoutine
  <2>1. mpc' = "body" /\ UNCHANGED prog /\ mpc = "body"
    BY <1>2 DEF M!Gates, M!AssignsExtra, M!Adds, M!EnforcesZero, M!EntersRoutine, M!LeavesRoutine
  <2>2. MeasuredAt
    BY <2>1 DEF MetricsInv
  <2>3. MeasuredAt'
    BY <1>2, <2>2, MGatesMeasures, MBindsMeasures, MEnforcesMeasures, MEntersMeasures, MLeavesMeasures
  <2> QED
    BY <2>1, <2>3 DEF MetricsInv
<1>3. CASE M!Finishes
  <2>1. mpc' = "done" /\ UNCHANGED <<prog, stack, segments, num_gates>> /\ mpc = "body"
    BY <1>3 DEF M!Finishes
  <2>2. MeasuredAt
    BY <2>1 DEF MetricsInv
  <2>3. PICK paths : Measures(prog, paths, stack, segments)
    BY <2>2 DEF MeasuredAt
  <2>4. /\ Head(stack) = stack[1] /\ stack[1].call.name \in Routines /\ stack[1].call.at \in Nat \ {0}
    BY <2>3, MTop
  <2>5. M!AtEnd(prog, stack[1].call) /\ Len(stack) = 1
    BY <1>3, <2>4 DEF M!Finishes, M!Top
  <2>6. stack[1].call.at > Len(prog[stack[1].call.name].ops)
    BY <2>4, <2>5, MNextCall
  <2>7. MeasuredAt'
    BY <2>1, <2>2 DEF MeasuredAt
  <2> QED
    BY <2>1, <2>5, <2>6, <2>7 DEF MetricsInv
<1> QED
  BY <1>1, <1>2, <1>3 DEF M!Next

(* The start.                                                              *)
LEMMA MetricsStart == M!Init => prog \in Programs /\ MetricsInv /\ mpc = "system"
<1> SUFFICES ASSUME M!Init PROVE prog \in Programs /\ MetricsInv /\ mpc = "system"
  OBVIOUS
<1>1. /\ prog \in Programs /\ mpc = "system" /\ num_gates = 0
      /\ stack = <<M!NewScope(Main, 1, <<>>, 1)>> /\ segments = <<M!NewRecord>>
  BY DEF M!Init, M!Main, Main
<1> QED
  BY <1>1 DEF MetricsInv
-----------------------------------------------------------------------------
(* Both passes.  There is one way to put a set of paths in depth-first     *)
(* order: the first place where two ways differ would put two paths before *)
(* each other.                                                             *)
Increasing(s, n) ==
  /\ \A i \in 1 .. n : s[i] \in Seq(Nat)
  /\ \A i, j \in 1 .. n : i < j => PathLess(s[i], s[j])

(* Up to where both go.                                                    *)
LEMMA SameOrder ==
  ASSUME NEW s, NEW n \in Nat, Increasing(s, n), NEW t, NEW m \in Nat, Increasing(t, m),
         \A i \in 1 .. n : \E j \in 1 .. m : s[i] = t[j],
         \A j \in 1 .. m : \E i \in 1 .. n : t[j] = s[i]
  PROVE  n = m /\ \A i \in 1 .. n : s[i] = t[i]
<1> DEFINE D == { i \in Nat : i \in 1 .. n /\ i \in 1 .. m /\ s[i] # t[i] }
<1>1. ASSUME D # {} PROVE FALSE
  <2>1. PICK i \in D : \A j \in D : i <= j
    BY <1>1, NatMin
  <2>2. i \in Nat /\ i \in 1 .. n /\ i \in 1 .. m /\ s[i] # t[i]
    BY <2>1
  <2>3. \A j \in 1 .. n : j < i => j \in 1 .. m /\ s[j] = t[j]
    <3> TAKE j \in 1 .. n
    <3> HAVE j < i
    <3>1. j \in 1 .. m /\ j \in Nat
      BY <2>2
    <3>2. j \notin D
      BY <3>1, <2>1, <2>2
    <3> QED
      BY <3>1, <3>2
  <2> HIDE DEF D
  <2>4. PICK k \in 1 .. m : s[i] = t[k]
    BY <2>2
  <2>5. PICK l \in 1 .. n : t[i] = s[l]
    BY <2>2
  <2>6. ~(k < i) /\ k # i
    <3>1. k # i
      BY <2>2, <2>4
    <3>2. ASSUME k < i PROVE FALSE
      <4>1. k \in 1 .. n /\ s[k] = t[k]
        BY <3>2, <2>2, <2>3
      <4>2. PathLess(s[k], s[i])
        BY <4>1, <3>2, <2>2 DEF Increasing
      <4>3. s[k] = s[i]
        BY <4>1, <2>4
      <4>4. s[i] \in Seq(Nat)
        BY <2>2 DEF Increasing
      <4> QED
        BY <4>2, <4>3, <4>4, LessOneWay
    <3> QED
      BY <3>1, <3>2
  <2>7. ~(l < i) /\ l # i
    <3>1. l # i
      BY <2>2, <2>5
    <3>2. ASSUME l < i PROVE FALSE
      <4>1. l \in 1 .. m /\ s[l] = t[l]
        BY <3>2, <2>3
      <4>2. PathLess(t[l], t[i])
        BY <4>1, <3>2, <2>2 DEF Increasing
      <4>3. t[l] = t[i]
        BY <4>1, <2>5
      <4>4. t[i] \in Seq(Nat)
        BY <2>2 DEF Increasing
      <4> QED
        BY <4>2, <4>3, <4>4, LessOneWay
    <3> QED
      BY <3>1, <3>2
  <2>8. i < k /\ i < l
    BY <2>2, <2>6, <2>7
  <2>9. PathLess(t[i], t[k]) /\ PathLess(s[i], s[l])
    BY <2>2, <2>8 DEF Increasing
  <2>10. PathLess(t[i], s[i]) /\ PathLess(s[i], t[i])
    BY <2>4, <2>5, <2>9
  <2>11. s[i] \in Seq(Nat) /\ t[i] \in Seq(Nat)
    BY <2>2 DEF Increasing
  <2> QED
    BY <2>10, <2>11, LessOneWay
<1>2. \A i \in 1 .. n : i \in 1 .. m => s[i] = t[i]
  BY <1>1
<1> HIDE DEF D
<1>3. ~(n < m)
  <2> SUFFICES ASSUME n < m PROVE FALSE
    OBVIOUS
  <2>1. n + 1 \in 1 .. m
    OBVIOUS
  <2>2. PICK i \in 1 .. n : t[n + 1] = s[i]
    BY <2>1
  <2>3. i \in 1 .. m /\ i < n + 1 /\ s[i] = t[i]
    BY <1>2
  <2>4. PathLess(t[i], t[n + 1]) /\ t[i] = t[n + 1] /\ t[i] \in Seq(Nat)
    BY <2>1, <2>2, <2>3 DEF Increasing
  <2> QED
    BY <2>4, LessOneWay
<1>4. ~(m < n)
  <2> SUFFICES ASSUME m < n PROVE FALSE
    OBVIOUS
  <2>1. m + 1 \in 1 .. n
    OBVIOUS
  <2>2. PICK i \in 1 .. m : s[m + 1] = t[i]
    BY <2>1
  <2>3. i \in 1 .. n /\ i < m + 1 /\ s[i] = t[i]
    BY <1>2
  <2>4. PathLess(s[i], s[m + 1]) /\ s[i] = s[m + 1] /\ s[i] \in Seq(Nat)
    BY <2>1, <2>2, <2>3 DEF Increasing
  <2> QED
    BY <2>4, LessOneWay
<1>5. n = m
  BY <1>3, <1>4
<1> QED
  BY <1>2, <1>5

(* A finished measurement has the paths of every body that runs, each with *)
(* the gates of its body.                                                  *)
LEMMA AllMeasured ==
  ASSUME NEW p \in Programs, NEW paths, NEW stk, NEW recs, Measures(p, paths, stk, recs),
         Len(stk) = 1, stk[1].call.at > Len(p[stk[1].call.name].ops)
  PROVE  /\ Range(paths) = CalledPaths(p)
         /\ \A i \in 1 .. Len(recs) : Ran(p, paths[i], recs[i].num_gates, CalledPaths(p))
<1> DEFINE f == stk[1]
           P == Range(paths)
<1>1. /\ ScopeMeasures(p, paths, recs, f) /\ Listed(paths, Len(recs))
      /\ Len(recs) \in Nat \ {0}
  BY MTop
<1>2. \A i \in 1 .. Len(recs) : (\A k \in 1 .. Len(stk) : stk[k].current_segment # i)
        => Ran(p, paths[i], recs[i].num_gates, P)
  BY DEF Measures
<1>3. ASSUME NEW i \in 1 .. Len(recs) PROVE Ran(p, paths[i], recs[i].num_gates, P)
  <2>1. CASE i = f.current_segment
    <3> DEFINE n == f.call.name
               at == f.call.at
               q == paths[i]
               g == recs[i].num_gates
    <3>1. Stands(p, q, n, at, g, P)
      BY <2>1, <1>1 DEF ScopeMeasures
    <3>2. at > Len(p[n].ops)
      OBVIOUS
    <3> HIDE DEF n, at, q, g, P
    <3>3. Ran(p, q, g, P)
      BY <3>1, <3>2, StandsEnd
    <3> QED
      BY <3>3 DEF q, g
  <2>2. CASE i # f.current_segment
    <3>1. \A k \in 1 .. Len(stk) : stk[k].current_segment # i
      BY <2>2
    <3> QED
      BY <3>1, <1>2
  <2> QED
    BY <2>1, <2>2
<1>4. /\ DOMAIN paths = 1 .. Len(recs) /\ paths[1] = <<>> /\ 1 \in 1 .. Len(recs)
  <2>1. paths \in Seq(Path) /\ Len(paths) = Len(recs) /\ paths[1] = <<>>
    BY <1>1 DEF Listed
  <2> QED
    BY <2>1, <1>1
<1>5. <<>> \in P /\ \A q \in P : \E g : Ran(p, q, g, P)
  <2>1. <<>> \in P
    BY <1>4 DEF Range
  <2>2. ASSUME NEW q \in P PROVE \E g : Ran(p, q, g, P)
    <3>1. PICK i \in 1 .. Len(recs) : q = paths[i]
      BY <1>4 DEF Range
    <3> HIDE DEF P
    <3> QED
      BY <3>1, <1>3
  <2> QED
    BY <2>1, <2>2
<1> HIDE DEF P
<1>6. P = CalledPaths(p)
  BY <1>5, AllRan
<1> QED
  BY <1>3, <1>6 DEF P

(* The trace of a circuit and its measurement have the same segments, with *)
(* the same gates.                                                         *)
LEMMA SameSegments ==
  ASSUME NEW p \in Programs, NEW list, Traced(p, list),
         NEW paths, NEW stk, NEW recs, Measures(p, paths, stk, recs),
         Len(stk) = 1, stk[1].call.at > Len(p[stk[1].call.name].ops)
  PROVE  /\ Len(list) = Len(recs) /\ DOMAIN list = 1 .. Len(recs)
         /\ \A i \in 1 .. Len(recs) : Len(list[i].gates) = recs[i].num_gates
<1> DEFINE s == [i \in 1 .. Len(list) |-> list[i].dfs_path]
           n == Len(list)
           m == Len(recs)
           P == CalledPaths(p)
<1>1. /\ Range(paths) = P
      /\ \A i \in 1 .. m : Ran(p, paths[i], recs[i].num_gates, P)
  BY AllMeasured
<1>2. list \in Seq(Segment) /\ InOrder(list) /\ { list[i].dfs_path : i \in DOMAIN list } = P
      /\ \A i \in DOMAIN list : Ran(p, list[i].dfs_path, Len(list[i].gates), P)
  BY DEF Traced
<1>3. n \in Nat /\ DOMAIN list = 1 .. n /\ \A i \in 1 .. n : list[i].dfs_path \in Seq(Nat)
  BY <1>2, PathsOf
<1>4. paths \in Seq(Path) /\ m \in Nat /\ Len(paths) = m /\ DOMAIN paths = 1 .. m
      /\ \A i, j \in 1 .. m : i < j => PathLess(paths[i], paths[j])
  <2>1. Listed(paths, m) /\ m \in Nat
    BY MTop
  <2> QED
    BY <2>1 DEF Listed
<1>5. \A i \in 1 .. n : s[i] = list[i].dfs_path
  OBVIOUS
<1> HIDE DEF s, n, m, P
<1>6. Increasing(s, n)
  BY <1>2, <1>3, <1>5 DEF Increasing, InOrder
<1>7. Increasing(paths, m)
  BY <1>4 DEF Increasing, Path
<1>8. \A i \in 1 .. n : \E j \in 1 .. m : s[i] = paths[j]
  <2> TAKE i \in 1 .. n
  <2>1. s[i] \in P
    BY <1>2, <1>3, <1>5
  <2> QED
    BY <2>1, <1>1, <1>4 DEF Range
<1>9. \A j \in 1 .. m : \E i \in 1 .. n : paths[j] = s[i]
  <2> TAKE j \in 1 .. m
  <2>1. paths[j] \in P
    BY <1>1, <1>4 DEF Range
  <2>2. PICK i \in DOMAIN list : paths[j] = list[i].dfs_path
    BY <2>1, <1>2
  <2> QED
    BY <2>2, <1>3, <1>5
<1>10. n = m /\ \A i \in 1 .. n : s[i] = paths[i]
  <2>1. n \in Nat /\ m \in Nat
    BY <1>3, <1>4
  <2> QED
    BY ONLY <2>1, <1>6, <1>7, <1>8, <1>9, SameOrder
<1>11. ASSUME NEW i \in 1 .. m PROVE Len(list[i].gates) = recs[i].num_gates
  <2> DEFINE q == paths[i]
             g == Len(list[i].gates)
             h == recs[i].num_gates
  <2>1. Ran(p, q, h, P)
    BY <1>1
  <2>2. Ran(p, q, g, P)
    BY <1>2, <1>3, <1>5, <1>10
  <2> HIDE DEF q, g, h
  <2>3. g = h
    BY <2>1, <2>2, RanSame
  <2> QED
    BY <2>3 DEF g, h
<1> QED
  BY <1>3, <1>10, <1>11 DEF n, m
-----------------------------------------------------------------------------
(* The trace has the segments of the records, of their sizes.              *)
Matches(list, recs) ==
  /\ Records(recs)
  /\ Len(list) = Len(recs) /\ DOMAIN list = 1 .. Len(recs)
  /\ \A i \in 1 .. Len(recs) : Len(list[i].gates) = recs[i].num_gates

(* Where segments that match their records start and end.                  *)
LEMMA EndsAre ==
  ASSUME Matches(result.segments, segments),
         NEW n, n = Len(segments), NEW size, size = [k \in DOMAIN segments |-> segments[k].num_gates],
         NEW sums, sums = SumsTo(n, size)
  PROVE  /\ n \in Nat \ {0} /\ \A k \in 1 .. n : size[k] \in Nat
         /\ DOMAIN Plan = 1 .. n /\ Len(Plan) = n
         /\ \A i \in 1 .. n : /\ Plan[i].gate_start = sums[i - 1]
                              /\ Plan[i].num_gates = size[i]
                              /\ Len(result.segments[i].gates) = size[i]
                              /\ EndOf(i) = sums[i] /\ sums[i] = sums[i - 1] + size[i]
         /\ sums[0] = 0 /\ \A i \in 0 .. n : sums[i] \in Nat
         /\ GateTotal(segments) = sums[n]
<1>1. Records(segments) /\ Len(result.segments) = n /\ DOMAIN result.segments = 1 .. n
      /\ \A i \in 1 .. n : Len(result.segments[i].gates) = segments[i].num_gates
  BY DEF Matches
<1>2. n \in Nat \ {0} /\ DOMAIN segments = 1 .. n /\ \A k \in 1 .. n : size[k] \in Nat
  BY <1>1, SizesAre
<1>3. \A k \in 1 .. n : size[k] = segments[k].num_gates
  BY <1>2
<1>4. M!GateSums(segments) = sums /\ GateTotal(segments) = sums[n]
  BY DEF GateTotal, M!GateSums, M!PrefixSums, SumsTo
<1>5. /\ sums[0] = 0 /\ \A k \in 1 .. n : sums[k] = sums[k - 1] + size[k]
      /\ \A k \in 0 .. n : sums[k] \in Nat
  <2>1. n \in Nat /\ \A k \in 1 .. n : size[k] \in Nat
    BY <1>2
  <2> QED
    BY ONLY <2>1, sums = SumsTo(n, size), SumsAre
<1>6. Plan = [i \in 1 .. n |->
                [gate_start |-> sums[i - 1], constraint_start |-> M!ConstraintSums(segments)[i - 1],
                 num_gates |-> segments[i].num_gates, num_constraints |-> segments[i].num_constraints]]
  BY <1>2, <1>4 DEF Plan, M!FloorPlan
<1>7. /\ DOMAIN Plan = 1 .. n
      /\ \A i \in 1 .. n : Plan[i].gate_start = sums[i - 1] /\ Plan[i].num_gates = size[i]
  BY <1>3, <1>6
<1>8. Len(Plan) = n
  <2>1. Plan \in [1 .. n -> Range(Plan)]
    <3>1. Plan = [i \in 1 .. n |-> Plan[i]]
      BY <1>6
    <3> QED
      BY <1>7, <3>1 DEF Range
  <2>2. Plan \in Seq(Range(Plan))
    BY <2>1, <1>2
  <2> QED
    BY <2>2, <1>2, <1>7
<1>9. \A i \in 1 .. n : EndOf(i) = sums[i]
  <2> TAKE i \in 1 .. n
  <2>1. Plan[i].gate_start = sums[i - 1] /\ Len(result.segments[i].gates) = size[i]
    BY <1>1, <1>3, <1>7
  <2>2. sums[i] = sums[i - 1] + size[i]
    BY <1>5
  <2> QED
    BY <2>1, <2>2 DEF EndOf
<1> QED
  BY <1>1, <1>2, <1>3, <1>4, <1>5, <1>7, <1>8, <1>9

(* A trace that matches its records passes the asserts, and its gates are  *)
(* as many as were counted.                                                *)
LEMMA Fits ==
  ASSUME Matches(result.segments, segments)
  PROVE  AssertsHold /\ SizesMatch /\ TotalGates = GateTotal(segments)
         /\ GateTotal(segments) \in Nat
<1> DEFINE n == Len(segments)
           size == [k \in DOMAIN segments |-> segments[k].num_gates]
           sums == SumsTo(n, size)
           ends == { EndOf(i) : i \in DOMAIN result.segments }
<1> HIDE DEF n, size, sums
<1>1. /\ n \in Nat \ {0} /\ \A k \in 1 .. n : size[k] \in Nat
      /\ DOMAIN Plan = 1 .. n /\ Len(Plan) = n
      /\ \A i \in 1 .. n : /\ Plan[i].gate_start = sums[i - 1]
                           /\ Plan[i].num_gates = size[i]
                           /\ Len(result.segments[i].gates) = size[i]
                           /\ EndOf(i) = sums[i] /\ sums[i] = sums[i - 1] + size[i]
      /\ sums[0] = 0 /\ \A i \in 0 .. n : sums[i] \in Nat
      /\ GateTotal(segments) = sums[n]
  BY EndsAre DEF n, size, sums
<1>2. Len(result.segments) = n /\ DOMAIN result.segments = 1 .. n
  BY DEF Matches, n
<1>3. AssertsHold
  <2>1. 1 \in 1 .. n /\ 1 - 1 = 0
    BY <1>1
  <2>2. Plan[1].gate_start = sums[1 - 1]
    BY <2>1, <1>1
  <2>3. Plan[1].gate_start = 0
    BY <2>1, <2>2, <1>1
  <2> QED
    BY <2>3, <1>1, <1>2 DEF AssertsHold
<1>4. SizesMatch
  BY <1>1 DEF SizesMatch
<1>5. \A k \in 1 .. n : sums[k] <= sums[n]
  <2> TAKE k \in 1 .. n
  <2>1. /\ SumsTo(n, size)[k - 1] \in Nat
        /\ SumsTo(n, size)[k - 1] + size[k] <= SumsTo(n, size)[n]
        /\ k # 1 => SumsTo(n, size)[k - 1] >= size[1]
    <3>1. n \in Nat /\ \A j \in 1 .. n : size[j] \in Nat
      BY <1>1
    <3> QED
      BY ONLY <3>1, k \in 1 .. n, SumsBound
  <2>2. sums[k - 1] + size[k] <= sums[n]
    BY <2>1 DEF sums
  <2>3. sums[k] = sums[k - 1] + size[k]
    BY <1>1
  <2> QED
    BY <2>2, <2>3
<1>6. sums[n] \in ends /\ \A e \in ends : e \in Nat /\ e <= sums[n]
  <2>1. n \in 1 .. n /\ \A i \in 1 .. n : i \in 0 .. n
    BY <1>1
  <2>2. \A e \in ends : \E i \in 1 .. n : e = sums[i]
    BY <1>1, <1>2
  <2>3. EndOf(n) \in ends /\ EndOf(n) = sums[n]
    BY <2>1, <1>1, <1>2
  <2> HIDE DEF ends
  <2> QED
    BY <2>1, <2>2, <2>3, <1>1, <1>5
<1>7. TotalGates = CHOOSE m \in ends : \A e \in ends : e <= m
  BY DEF TotalGates
<1> HIDE DEF ends
<1>8. TotalGates \in ends /\ \A e \in ends : e <= TotalGates
  BY <1>6, <1>7
<1>9. sums[n] \in Nat
  BY <1>6
<1>10. TotalGates = sums[n]
  BY <1>6, <1>8, <1>9
<1> QED
  BY <1>1, <1>3, <1>4, <1>9, <1>10
-----------------------------------------------------------------------------
(* The composition.                                                        *)
AInv ==
  /\ TraceInv /\ MetricsInv
  /\ phase = "measure" => pc # "done"
  /\ phase # "measure" => mpc = "done"
  /\ phase \in {"evaluate", "assembled"} => M!BoundError(N, num_gates, num_constraints) = Ok
  /\ AcceptedCircuitsAssemble

(* When the evaluation of an accepted circuit is over, its trace is that   *)
(* of the records and within the bounds.                                   *)
LEMMA TraceFits ==
  ASSUME AInv, phase = "evaluate", pc = "done", result.err = Ok
  PROVE  AssertsHold /\ ~(TotalGates > N) /\ SizesMatch
<1>1. prog \in Programs
  BY DEF AInv, TraceInv, IInv, TypeOK
<1>2. Traced(prog, result.segments)
  BY EvalTraced DEF AInv
<1>3. PICK paths : Measures(prog, paths, stack, segments)
  BY DEF AInv, MetricsInv, MeasuredAt
<1>4. Len(stack) = 1 /\ stack[1].call.at > Len(prog[stack[1].call.name].ops)
      /\ num_gates = GateTotal(segments)
  BY DEF AInv, MetricsInv, MeasuredAt
<1>5. Records(segments)
  BY <1>3 DEF Measures
<1>6. Matches(result.segments, segments)
  BY <1>1, <1>2, <1>3, <1>4, <1>5, SameSegments DEF Matches
<1>7. AssertsHold /\ SizesMatch /\ TotalGates = GateTotal(segments) /\ GateTotal(segments) \in Nat
  BY <1>6, Fits
<1>8. ~(num_gates > N)
  BY DEF AInv, M!BoundError, M!Ok, Ok
<1> QED
  BY <1>4, <1>7, <1>8

(* The evaluation does not change the circuit.                             *)
LEMMA SameProgram == Next => UNCHANGED prog
<1>1. ASSUME NEW t \in DOMAIN tasks, TaskStep(t) PROVE UNCHANGED prog
  BY <1>1 DEF TaskStep, Gates, AssignsExtra, AddsOrEnforces, Executes, Spawns, Fails, Returns, Ends, Step
<1>2. LeaveRayonScope \/ Receive \/ Finish \/ Returned => UNCHANGED prog
  BY DEF LeaveRayonScope, Receive, Finish, Returned, vars
<1> QED
  BY <1>1, <1>2 DEF Next

(* What a step that leaves both passes as they are keeps.                  *)
LEMMA PassesStay ==
  ASSUME TraceInv, MetricsInv, UNCHANGED <<vars, metricsVars>>
  PROVE  TraceInv' /\ MetricsInv'
<1>1. TraceInv'
  BY TraceInvKept
<1>2. MetricsInv'
  BY DEF MetricsInv, MeasuredAt, vars, metricsVars
<1> QED
  BY <1>1, <1>2

(* Every step of the composition keeps its invariant.                      *)
LEMMA AInvKept == AInv /\ [ANext]_allVars => AInv'
<1> SUFFICES ASSUME AInv, [ANext]_allVars PROVE AInv'
  OBVIOUS
<1>1. prog \in Programs
  BY DEF AInv, TraceInv, IInv, TypeOK
<1>2. CASE Measure
  <2>1. /\ phase = "measure" /\ M!Next /\ UNCHANGED vars /\ phase' = "measure"
        /\ UNCHANGED <<pc, error, result>>
    BY <1>2 DEF Measure, assemblyVars, vars
  <2>2. TraceInv'
    BY <2>1, TraceInvKept DEF AInv
  <2>3. MetricsInv'
    BY <2>1, <1>1, MetricsKeep DEF AInv
  <2> QED
    BY <2>1, <2>2, <2>3 DEF AInv, AcceptedCircuitsAssemble
<1>3. CASE Register
  <2>1. /\ phase = "measure" /\ mpc = "done" /\ UNCHANGED <<vars, metricsVars>>
        /\ UNCHANGED <<pc, mpc, num_gates, num_constraints>>
        /\ \/ phase' = "evaluate" /\ M!BoundError(N, num_gates, num_constraints) = Ok
           \/ phase' = "refused"
    BY <1>3 DEF Register, vars, metricsVars
  <2>2. pc # "done"
    BY <2>1 DEF AInv
  <2>3. TraceInv' /\ MetricsInv'
    BY <2>1, PassesStay DEF AInv
  <2> QED
    BY <2>1, <2>2, <2>3 DEF AInv, AcceptedCircuitsAssemble
<1>4. CASE Evaluate
  <2>1. /\ phase = "evaluate" /\ Next /\ UNCHANGED metricsVars /\ phase' = "evaluate"
        /\ UNCHANGED <<mpc, num_gates, num_constraints>>
    BY <1>4 DEF Evaluate, assemblyVars, metricsVars
  <2>2. TraceInv'
    BY <2>1, TraceInvKept DEF AInv
  <2>3. UNCHANGED prog
    BY <2>1, SameProgram
  <2>4. MetricsInv'
    BY <2>1, <2>3 DEF AInv, MetricsInv, MeasuredAt, metricsVars
  <2> QED
    BY <2>1, <2>2, <2>4 DEF AInv, AcceptedCircuitsAssemble
<1>5. CASE TraceFails
  <2>1. /\ phase = "evaluate" /\ UNCHANGED <<vars, metricsVars>> /\ phase' = "refused"
        /\ UNCHANGED <<pc, result, mpc>> /\ error' = result.err
    BY <1>5 DEF TraceFails, vars, metricsVars
  <2>2. TraceInv' /\ MetricsInv'
    BY <2>1, PassesStay DEF AInv
  <2> QED
    BY <2>1, <2>2 DEF AInv, AcceptedCircuitsAssemble
<1>6. CASE Assemble
  <2>1. phase = "evaluate" /\ pc = "done" /\ result.err = Ok
    BY <1>6 DEF Assemble
  <2>2. AssertsHold /\ ~(TotalGates > N) /\ SizesMatch
    BY <2>1, TraceFits
  <2>3. phase' = "assembled"
    BY <1>6, <2>2 DEF Assemble
  <2>4. UNCHANGED <<vars, metricsVars>> /\ UNCHANGED <<mpc, num_gates, num_constraints>>
    BY <1>6 DEF Assemble, metricsVars
  <2>5. TraceInv' /\ MetricsInv'
    BY <2>4, PassesStay DEF AInv
  <2> QED
    BY <2>1, <2>3, <2>4, <2>5 DEF AInv, AcceptedCircuitsAssemble
<1>7. CASE UNCHANGED allVars
  <2>1. /\ UNCHANGED <<vars, metricsVars>>
        /\ UNCHANGED <<phase, error, pc, result, mpc, num_gates, num_constraints>>
    BY <1>7 DEF allVars, assemblyVars, vars, metricsVars
  <2>2. TraceInv' /\ MetricsInv'
    BY <2>1, PassesStay DEF AInv
  <2> QED
    BY <2>1, <2>2 DEF AInv, AcceptedCircuitsAssemble
<1> QED
  BY <1>2, <1>3, <1>4, <1>5, <1>6, <1>7 DEF ANext, Stopped

(* It holds at the start.                                                  *)
LEMMA AInvStarts == AInit => AInv
<1> SUFFICES ASSUME AInit PROVE AInv
  OBVIOUS
<1>1. Init /\ M!Init /\ phase = "measure"
  BY DEF AInit
<1>2. TraceInv
  BY <1>1, TraceInvStarts
<1>3. MetricsInv /\ mpc = "system"
  BY <1>1, MetricsStart
<1>4. pc = "scope"
  BY <1>1 DEF Init
<1> QED
  BY <1>1, <1>2, <1>3, <1>4 DEF AInv, AcceptedCircuitsAssemble

(* Whatever the circuit and the schedule of its evaluation, the trace of a *)
(* circuit that was accepted fits the floor plan of its measurement: no    *)
(* assert of Trace::assemble fails, nor its bound check.                   *)
THEOREM Assembles == AllSpec => []AcceptedCircuitsAssemble
<1>1. AInit => AInv
  BY AInvStarts
<1>2. AInv /\ [ANext]_allVars => AInv'
  BY AInvKept
<1>3. AInv => AcceptedCircuitsAssemble
  BY DEF AInv
<1> QED
  BY <1>1, <1>2, <1>3, PTL DEF AllSpec
-----------------------------------------------------------------------------
(* A finished measurement has a record for every call.  The circuit itself  *)
(* is not called: its path would go on below any path.                     *)
LEMMA NotCalledAgain ==
  ASSUME NEW p \in Programs, NEW n \in Nat, NEW paths,
         \A x \in CalledPaths(p) : \E i \in 1 .. n : paths[i] = x,
         \A i \in 1 .. n : paths[i] \in CalledPaths(p),
         NEW q, CalledAs(p, q, Main)
  PROVE  q = <<>>
<1> SUFFICES ASSUME q # <<>> PROVE FALSE
  OBVIOUS
<1>1. q \in Seq(Nat) /\ Len(q) \in Nat \ {0}
  BY EmptySeq DEF CalledAs, Path
<1>2. ASSUME NEW x, NEW y, CalledAs(p, x, y) PROVE CalledAs(p, q \o x, y)
  <2> DEFINE C == { c \in Path \X Routines : CalledAs(p, q \o c[1], c[2]) }
  <2>1. \A r \in Path, m \in Routines : <<r, m>> \in C <=> CalledAs(p, q \o r, m)
    OBVIOUS
  <2>2. C \in SUBSET (Path \X Routines)
    OBVIOUS
  <2> HIDE DEF C
  <2>3. <<(<<>>), Main>> \in C
    <3>1. <<>> \in Path /\ Main \in Routines /\ q \o <<>> = q
      BY <1>1, CircuitAssumption DEF Path
    <3> QED
      BY <3>1, <2>1
  <2>4. ASSUME NEW r \in Path, NEW m \in Routines, <<r, m>> \in C, NEW i \in Calls(p, m)
        PROVE  <<Append(r, CallsMade(p, m, i)), p[m].ops[i].name>> \in C
    <3>1. CalledAs(p, Append(q \o r, CallsMade(p, m, i)), p[m].ops[i].name)
      BY <2>1, <2>4, CalledOn
    <3>2. CallsMade(p, m, i) \in Nat /\ p[m].ops[i].name \in Routines
      <4>1. i \in Nat
        BY CallNames
      <4> QED
        BY <4>1, CallNames, MadeIs DEF CallsMade
    <3>3. r \in Seq(Nat) /\ Append(r, CallsMade(p, m, i)) \in Path
      BY <3>2 DEF Path
    <3>4. Append(q \o r, CallsMade(p, m, i)) = q \o Append(r, CallsMade(p, m, i))
      <4> DEFINE k == CallsMade(p, m, i)
      <4> HIDE DEF k
      <4>1. k \in Nat /\ <<k>> \in Seq(Nat) /\ q \o r \in Seq(Nat)
        BY <3>2, <3>3, <1>1 DEF k
      <4>2. Append(q \o r, k) = (q \o r) \o <<k>> /\ Append(r, k) = r \o <<k>>
        BY <4>1, <3>3, AppendIsConcat
      <4>3. (q \o r) \o <<k>> = q \o (r \o <<k>>)
        BY <4>1, <3>3, <1>1, ConcatAssociative
      <4> QED
        BY <4>2, <4>3 DEF k
    <3> QED
      BY <3>1, <3>2, <3>3, <3>4, <2>1
  <2>5. <<x, y>> \in C
    BY <1>2, <2>2, <2>3, <2>4, CalledIn
  <2> QED
    BY <2>1, <2>5, <1>2 DEF CalledAs
<1>3. \A i \in 1 .. n : paths[i] \in Seq(Nat) /\ Len(paths[i]) \in Nat
  <2> TAKE i \in 1 .. n
  <2>1. paths[i] \in Path
    BY DEF CalledPaths
  <2> QED
    BY <2>1 DEF Path
<1>4. \E b \in Nat : \A i \in 1 .. n : Len(paths[i]) < b
  <2> DEFINE U == { m \in Nat : m <= n => \E b \in Nat : \A i \in 1 .. m : Len(paths[i]) < b }
  <2>1. 0 \in U
    OBVIOUS
  <2>2. ASSUME NEW m \in Nat, m \in U PROVE m + 1 \in U
    <3> SUFFICES ASSUME m + 1 <= n
                 PROVE  \E b \in Nat : \A i \in 1 .. m + 1 : Len(paths[i]) < b
      OBVIOUS
    <3>1. PICK b \in Nat : \A i \in 1 .. m : Len(paths[i]) < b
      BY <2>2
    <3>2. m + 1 \in 1 .. n /\ Len(paths[m + 1]) \in Nat
      BY <1>3
    <3> DEFINE l == Len(paths[m + 1])
    <3>3. \A i \in 1 .. m + 1 : i \in 1 .. m \/ i = m + 1
      OBVIOUS
    <3>4. \A i \in 1 .. m : Len(paths[i]) \in Nat
      BY <1>3
    <3>5. b + l + 1 \in Nat /\ l < b + l + 1
      BY <3>2
    <3> HIDE DEF l
    <3>6. \A i \in 1 .. m + 1 : Len(paths[i]) < b + l + 1
      BY <3>1, <3>2, <3>3, <3>4, <3>5 DEF l
    <3> QED
      BY <3>5, <3>6
  <2> HIDE DEF U
  <2>3. \A m \in Nat : m \in U
    BY <2>1, <2>2, NatSet
  <2>4. n \in U
    BY <2>3
  <2> QED
    BY <2>4 DEF U
<1> DEFINE S == { b \in Nat : \A i \in 1 .. n : Len(paths[i]) < b }
<1>5. PICK b \in S : \A c \in S : b <= c
  BY <1>4, NatMin
<1>6. b \in Nat /\ \A i \in 1 .. n : Len(paths[i]) < b
  BY <1>5
<1>7. PICK k \in 1 .. n : paths[k] = <<>>
  <2>1. <<>> \in CalledPaths(p)
    BY CalledStarts DEF CalledPaths, CalledAs
  <2> QED
    BY <2>1
<1>8. b - 1 \in Nat
  BY <1>3, <1>6, <1>7
<1>9. b - 1 \notin S
  <2>1. ~(b <= b - 1)
    BY <1>6
  <2> HIDE DEF S
  <2> QED
    BY <2>1, <1>5
<1>10. PICK i \in 1 .. n : ~(Len(paths[i]) < b - 1)
  BY <1>8, <1>9
<1> HIDE DEF S
<1>11. PICK y \in Routines : CalledAs(p, paths[i], y)
  BY DEF CalledPaths
<1>12. CalledAs(p, q \o paths[i], y)
  BY <1>2, <1>11
<1>13. PICK j \in 1 .. n : paths[j] = q \o paths[i]
  BY <1>12 DEF CalledPaths, CalledAs
<1>14. Len(q \o paths[i]) = Len(q) + Len(paths[i])
  BY <1>1, <1>3
<1> QED
  BY <1>1, <1>3, <1>6, <1>10, <1>13, <1>14

(* How many things a list without repetitions lists.                       *)
LEMMA ListedCount ==
  ASSUME NEW m \in Nat, NEW S, NEW g, \A k \in 1 .. m : g[k] \in S,
         \A x \in S : \E k \in 1 .. m : g[k] = x,
         \A j, k \in 1 .. m : g[j] = g[k] => j = k
  PROVE  Cardinality(S) = m
<1> DEFINE f == [k \in 1 .. m |-> g[k]]
<1>1. f \in [1 .. m -> S] /\ \A k \in 1 .. m : f[k] = g[k]
  OBVIOUS
<1> HIDE DEF f
<1>2. f \in Bijection(1 .. m, S)
  BY <1>1 DEF Bijection, Injection, Surjection, IsInjective
<1>3. IsFiniteSet(1 .. m) /\ Cardinality(1 .. m) = m
  BY FS_Interval, 1 \in Int, m \in Int
<1> QED
  BY <1>2, <1>3, FS_Bijection DEF ExistsBijection

(* The copies of these definitions that Metrics has are the same.          *)
LEMMA MTree ==
  ASSUME NEW p
  PROVE  /\ M!CallTree(p) = CallTree(p)
         /\ \A q : M!OrderOf(p, q) = OrderOf(p, q)
         /\ \A n, kind : M!Kind(p, n, kind) = Kind(p, n, kind)
<1> DEFINE Solves(h) == h = [d \in 0 .. Cardinality(Routines) |->
                               IF d = 0 THEN {<<(<<>>), Main>>}
                               ELSE UNION { CallsFrom(p, c) : c \in h[d - 1] }]
           Alike(h) == h = [d \in 0 .. Cardinality(Routines) |->
                             IF d = 0 THEN {<<(<<>>), Main>>}
                             ELSE UNION { M!CallsFrom(p, c) : c \in h[d - 1] }]
<1>1. \A n, kind : M!Kind(p, n, kind) = Kind(p, n, kind)
  BY DEF M!Kind, Kind
<1>2. \A c : M!CallsFrom(p, c) = CallsFrom(p, c)
  BY DEF M!CallsFrom, CallsFrom, M!Calls, Calls, M!CallsMade, CallsMade, M!Made, Made, M!Kind, Kind,
         M!Cardinality, Cardinality
<1>3. \A h : Solves(h) <=> Alike(h)
  BY <1>2
<1>4. CallLevels(p) = CHOOSE h : Solves(h)
  BY DEF CallLevels
<1>5. M!CallLevels(p) = CHOOSE h : Alike(h)
  BY DEF M!CallLevels, M!Main, Main, M!Cardinality, Cardinality
<1> HIDE DEF Solves, Alike
<1>6. M!CallLevels(p) = CallLevels(p)
  BY <1>3, <1>4, <1>5
<1>7. M!CallTree(p) = CallTree(p)
  BY <1>6 DEF M!CallTree, CallTree, M!Cardinality, Cardinality
<1>8. \A q : M!OrderOf(p, q) = OrderOf(p, q)
  BY <1>7 DEF M!OrderOf, OrderOf, M!PathLess, PathLess, M!Cardinality, Cardinality
<1> QED
  BY <1>1, <1>7, <1>8

(* A finished measurement has, at the place of every call in depth-first    *)
(* order, the record of that call.                                         *)
LEMMA RecordsAre ==
  ASSUME NEW p \in Programs, NEW paths, NEW stk, NEW recs,
         Measures(p, paths, stk, recs), Enforces(p, paths, stk, recs),
         Len(stk) = 1, M!AtEnd(p, stk[1].call), stk[1].call.at > Len(p[stk[1].call.name].ops)
  PROVE  /\ Len(recs) = Cardinality(CallTree(p))
         /\ \A c \in CallTree(p) :
              /\ recs[OrderOf(p, c[1])].num_gates
                   = Cardinality(Kind(p, c[2], "gate")) + (IF c[1] = <<>> THEN 1 ELSE 0)
              /\ recs[OrderOf(p, c[1])].num_constraints
                   = Cardinality(Kind(p, c[2], "enforce_zero"))
                     + (IF c[1] = <<>> THEN Len(p[Main].outs) + 1 ELSE 0)
<1> DEFINE n == Len(recs)
           T == CallTree(p)
           body(i) == CHOOSE m \in Routines : CalledAs(p, paths[i], m)
           g == [i \in 1 .. n |-> <<paths[i], body(i)>>]
<1>1. /\ Range(paths) = CalledPaths(p)
      /\ \A i \in 1 .. n : Ran(p, paths[i], recs[i].num_gates, CalledPaths(p))
  BY AllMeasured
<1>2. /\ n \in Nat \ {0} /\ Listed(paths, n)
      /\ stk[1].call.name \in Routines /\ stk[1].call.at \in Nat \ {0}
      /\ ScopeMeasures(p, paths, recs, stk[1])
  BY MTop
<1>3. /\ paths \in Seq(Path) /\ DOMAIN paths = 1 .. n
      /\ \A i \in 1 .. n : paths[i] \in Path /\ paths[i] \in Seq(Nat)
      /\ \A i, j \in 1 .. n : i < j => PathLess(paths[i], paths[j])
  BY <1>2 DEF Listed, Path
<1>4. /\ T \subseteq Path \X Routines
      /\ \A q \in Path, m \in Routines : <<q, m>> \in T <=> CalledAs(p, q, m)
  BY TreeIs
<1>5. /\ \A x \in CalledPaths(p) : \E i \in 1 .. n : paths[i] = x
      /\ \A i \in 1 .. n : paths[i] \in CalledPaths(p)
  BY <1>1, <1>3 DEF Range
<1>6. \A i \in 1 .. n : CalledAs(p, paths[i], body(i)) /\ body(i) \in Routines
  BY <1>5 DEF CalledPaths
<1> HIDE DEF body, T, n
<1>7. \A i \in 1 .. n : g[i] = <<paths[i], body(i)>> /\ g[i] \in T /\ g[i][1] = paths[i]
  BY <1>3, <1>4, <1>6
<1> HIDE DEF g
<1>8. \A c \in T : \E i \in 1 .. n : g[i] = c
  <2> TAKE c \in T
  <2>1. PICK q \in Path, m \in Routines : c = <<q, m>> /\ CalledAs(p, q, m)
    BY <1>4
  <2>2. q \in CalledPaths(p)
    BY <2>1 DEF CalledPaths
  <2>3. PICK i \in 1 .. n : paths[i] = q
    BY <2>2, <1>5
  <2>4. body(i) = m
    BY <2>1, <2>3, <1>6, CalledOnce
  <2> QED
    BY <2>1, <2>3, <2>4, <1>7
<1>9. \A i, j \in 1 .. n : g[i] = g[j] => i = j
  <2> TAKE i, j \in 1 .. n
  <2> HAVE g[i] = g[j]
  <2>1. paths[i] = paths[j]
    BY <1>7
  <2>2. ~PathLess(paths[i], paths[j]) /\ ~PathLess(paths[j], paths[i])
    BY <2>1, <1>3, LessOneWay
  <2>3. ~(i < j) /\ ~(j < i)
    BY <2>2, <1>3
  <2> QED
    BY <2>3, <1>2
<1>10. Cardinality(T) = n
  <2>1. n \in Nat
    BY <1>2
  <2>2. \A k \in 1 .. n : g[k] \in T
    BY <1>7
  <2>3. ASSUME NEW c \in T PROVE \E k \in 1 .. n : g[k] = c
    BY <1>8
  <2>4. \A j, k \in 1 .. n : g[j] = g[k] => j = k
    BY <1>9
  <2> HIDE DEF T
  <2> QED
    BY ONLY <2>1, <2>2, <2>3, <2>4, ListedCount
<1>11. ASSUME NEW i \in 1 .. n PROVE OrderOf(p, paths[i]) = i
  <2> DEFINE L == { c \in T : PathLess(c[1], paths[i]) }
  <2>1. i - 1 \in Nat /\ \A k \in 1 .. i - 1 : k \in 1 .. n /\ k < i
    BY <1>2
  <2>2. \A k \in 1 .. i - 1 : g[k] \in L
    BY <2>1, <1>3, <1>7
  <2>3. ASSUME NEW c \in L PROVE \E k \in 1 .. i - 1 : g[k] = c
    <3>1. PICK k \in 1 .. n : g[k] = c
      BY <1>8
    <3>2. PathLess(paths[k], paths[i])
      BY <3>1, <1>7
    <3>3. ~(i < k) /\ i # k
      BY <3>2, <1>3, LessOneWay
    <3>4. k \in 1 .. i - 1
      BY <3>3, <1>2
    <3> QED
      BY <3>1, <3>4
  <2>4. \A j, k \in 1 .. i - 1 : g[j] = g[k] => j = k
    BY <2>1, <1>9
  <2> HIDE DEF L
  <2>5. Cardinality(L) = i - 1
    BY <2>1, <2>2, <2>3, <2>4, ListedCount
  <2>6. OrderOf(p, paths[i]) = 1 + Cardinality(L)
    BY DEF OrderOf, L, T
  <2> QED
    BY <2>1, <2>5, <2>6
<1>12. ASSUME NEW i \in 1 .. n, NEW m \in Routines, CalledAs(p, paths[i], m)
       PROVE  /\ recs[i].num_gates = Cardinality(Kind(p, m, "gate")) + Base(paths[i])
              /\ recs[i].num_constraints = AllZeros(p, m)
  <2>1. PICK b \in Routines : Stands(p, paths[i], b, Len(p[b].ops) + 1, recs[i].num_gates, CalledPaths(p))
    BY <1>1 DEF Ran, n
  <2>2. b = m
    BY <2>1, <1>12, CalledOnce DEF Stands
  <2>3. GatesMade(p, m, Len(p[m].ops) + 1) = Cardinality(Kind(p, m, "gate"))
    <3>1. Len(p[m].ops) \in Nat
      BY Bodies
    <3>2. Kind(p, m, "gate") \intersect 1 .. (Len(p[m].ops) + 1) - 1 = Kind(p, m, "gate")
      BY <3>1 DEF Kind
    <3> QED
      BY <3>2 DEF GatesMade, Made
  <2>4. recs[i].num_gates = Cardinality(Kind(p, m, "gate")) + Base(paths[i])
    BY <2>1, <2>2, <2>3 DEF Stands
  <2>5. recs[i].num_constraints = AllZeros(p, m)
    <3>1. CASE stk[1].current_segment = i
      <4> DEFINE call == stk[1].call
      <4>1. CalledAs(p, paths[i], call.name) /\ 1 \in 1 .. Len(stk)
        BY <3>1, <1>2 DEF ScopeMeasures, Stands
      <4>2. call.name = m
        BY <4>1, <1>12, CalledOnce
      <4>3. recs[i].num_constraints = Zeros(p, call.name, call.at)
        BY <3>1, <4>1 DEF Enforces, ScopeEnforces
      <4>4. Zeros(p, call.name, call.at) = AllZeros(p, call.name)
        BY <1>2, ZerosAre
      <4> QED
        BY <4>2, <4>3, <4>4
    <3>2. CASE stk[1].current_segment # i
      <4>1. \A k \in 1 .. Len(stk) : stk[k].current_segment # i
        BY <3>2
      <4>2. PICK a \in Routines : CalledAs(p, paths[i], a) /\ recs[i].num_constraints = AllZeros(p, a)
        BY <4>1 DEF Enforces, n
      <4>3. a = m
        BY <4>2, <1>12, CalledOnce
      <4> QED
        BY <4>2, <4>3
    <3> QED
      BY <3>1, <3>2
  <2> QED
    BY <2>4, <2>5
<1>13. ASSUME NEW c \in T
       PROVE  /\ recs[OrderOf(p, c[1])].num_gates
                   = Cardinality(Kind(p, c[2], "gate")) + (IF c[1] = <<>> THEN 1 ELSE 0)
              /\ recs[OrderOf(p, c[1])].num_constraints
                   = Cardinality(Kind(p, c[2], "enforce_zero"))
                     + (IF c[1] = <<>> THEN Len(p[Main].outs) + 1 ELSE 0)
  <2>1. PICK q \in Path, m \in Routines : c = <<q, m>> /\ CalledAs(p, q, m)
    BY <1>4
  <2>2. c[1] = q /\ c[2] = m
    BY <2>1
  <2>3. PICK i \in 1 .. n : paths[i] = q
    <3>1. q \in CalledPaths(p)
      BY <2>1 DEF CalledPaths
    <3> QED
      BY <3>1, <1>5
  <2>4. OrderOf(p, q) = i
    BY <2>3, <1>11
  <2>5. /\ recs[i].num_gates = Cardinality(Kind(p, m, "gate")) + Base(q)
        /\ recs[i].num_constraints = AllZeros(p, m)
    BY <2>1, <2>3, <1>12
  <2>6. m = Main <=> q = <<>>
    <3>1. q = <<>> => m = Main
      BY <2>1, CalledStarts, CalledOnce
    <3>2. m = Main => q = <<>>
      BY <2>1, <1>2, <1>5, NotCalledAgain
    <3> QED
      BY <3>1, <3>2
  <2> QED
    BY <2>2, <2>4, <2>5, <2>6 DEF Base, AllZeros, Added
<1> QED
  BY <1>10, <1>13 DEF T, n

(* Metrics, by itself, records every call of the circuit once, in the      *)
(* depth-first order the trace has its segments in, with as many gates and *)
(* constraints as the body makes itself, and for the circuit those that    *)
(* orchestrate() adds (metrics.rs:122-158, raw.rs:164-187).                *)
THEOREM MetricsRecords == M!Spec => []M!RecordsDepthFirst
<1> DEFINE Inv == prog \in Programs /\ MetricsInv
<1>1. M!Init => Inv
  BY MetricsStart
<1>2. Inv /\ [M!Next \/ M!Measured]_(M!vars) => Inv'
  <2> SUFFICES ASSUME Inv, [M!Next \/ M!Measured]_(M!vars) PROVE Inv'
    OBVIOUS
  <2>1. CASE M!Next
    BY <2>1, MetricsKeep
  <2>2. CASE UNCHANGED M!vars
    BY <2>2 DEF M!vars, MetricsInv, MeasuredAt
  <2> QED
    BY <2>1, <2>2 DEF M!Measured
<1>3. Inv => M!RecordsDepthFirst
  <2> SUFFICES ASSUME Inv, mpc = "done" PROVE M!RecordsDepthFirst
    BY DEF M!RecordsDepthFirst
  <2>1. PICK paths : Measures(prog, paths, stack, segments) /\ Enforces(prog, paths, stack, segments)
    BY DEF MetricsInv, MeasuredAt
  <2>2. /\ Len(stack) = 1 /\ M!AtEnd(prog, stack[1].call)
        /\ stack[1].call.at > Len(prog[stack[1].call.name].ops)
    BY DEF MetricsInv
  <2>3. /\ Len(segments) = Cardinality(CallTree(prog))
        /\ \A c \in CallTree(prog) :
             /\ segments[OrderOf(prog, c[1])].num_gates
                  = Cardinality(Kind(prog, c[2], "gate")) + (IF c[1] = <<>> THEN 1 ELSE 0)
             /\ segments[OrderOf(prog, c[1])].num_constraints
                  = Cardinality(Kind(prog, c[2], "enforce_zero"))
                    + (IF c[1] = <<>> THEN Len(prog[Main].outs) + 1 ELSE 0)
    BY <2>1, <2>2, RecordsAre
  <2> QED
    BY <2>3, MTree DEF M!RecordsDepthFirst, M!Main, Main, M!Cardinality, Cardinality
<1> QED
  BY <1>1, <1>2, <1>3, PTL DEF M!Spec
-----------------------------------------------------------------------------
(* The starts of segments rise.                                            *)
LEMMA StartsRise ==
  ASSUME NEW n \in Nat, NEW size, \A k \in 1 .. n : size[k] \in Nat,
         NEW sums, \A k \in 0 .. n : sums[k] \in Nat,
         \A k \in 1 .. n : sums[k] = sums[k - 1] + size[k],
         NEW i \in 0 .. n, NEW j \in 0 .. n, i <= j
  PROVE  sums[i] <= sums[j]
<1> DEFINE U == { k \in Int : k \in i .. n /\ sums[i] <= sums[k] }
<1>1. i \in U
  OBVIOUS
<1>2. ASSUME NEW k \in i + 1 .. n, k - 1 \in U PROVE k \in U
  <2>1. k \in 1 .. n /\ k - 1 \in 0 .. n /\ k \in 0 .. n
    OBVIOUS
  <2>2. sums[k] = sums[k - 1] + size[k] /\ size[k] \in Nat /\ sums[k - 1] \in Nat /\ sums[i] \in Nat
    BY <2>1
  <2>3. sums[i] <= sums[k - 1]
    BY <1>2
  <2> QED
    BY <2>1, <2>2, <2>3
<1> HIDE DEF U
<1>3. \A k \in i .. n : k \in U
  BY <1>1, <1>2, Interval
<1>4. j \in U
  BY <1>3
<1> QED
  BY <1>4 DEF U

(* The gates of every segment go to their own places, which leave no gap.  *)
LEMMA Scatters ==
  ASSUME Matches(result.segments, segments), result.segments \in Seq(Segment),
         NEW start, start = SumsTo(Len(result.segments),
                                   [i \in DOMAIN result.segments |-> Len(result.segments[i].gates)])
  PROVE  /\ TotalGates = start[Len(result.segments)] /\ TotalGates \in Nat
         /\ \A i \in DOMAIN result.segments : \A k \in DOMAIN result.segments[i].gates :
              /\ start[i - 1] + k \in 1 .. TotalGates
              /\ Scattered[start[i - 1] + k] = result.segments[i].gates[k]
<1> DEFINE list == result.segments
           n == Len(segments)
           size == [k \in DOMAIN segments |-> segments[k].num_gates]
<1>1. /\ n \in Nat \ {0} /\ Len(list) = n /\ DOMAIN list = 1 .. n /\ DOMAIN segments = 1 .. n
      /\ \A k \in 1 .. n : Len(list[k].gates) = segments[k].num_gates
  BY SizesAre DEF Matches
<1>2. start = SumsTo(n, size)
  <2>1. size = [k \in 1 .. n |-> segments[k].num_gates]
    BY <1>1
  <2>2. [i \in DOMAIN list |-> Len(list[i].gates)] = [k \in 1 .. n |-> segments[k].num_gates]
    BY <1>1
  <2> HIDE DEF size, n, list
  <2> QED
    BY <2>1, <2>2, <1>1 DEF list
<1> HIDE DEF n, size, list
<1>3. /\ \A k \in 1 .. n : size[k] \in Nat
      /\ DOMAIN Plan = 1 .. n
      /\ \A i \in 1 .. n : /\ Plan[i].gate_start = start[i - 1]
                           /\ Len(list[i].gates) = size[i]
                           /\ EndOf(i) = start[i] /\ start[i] = start[i - 1] + size[i]
      /\ start[0] = 0 /\ \A i \in 0 .. n : start[i] \in Nat
      /\ GateTotal(segments) = start[n]
  <2> DEFINE sums == SumsTo(n, size)
  <2> HIDE DEF sums
  <2>1. /\ \A k \in 1 .. n : size[k] \in Nat
        /\ DOMAIN Plan = 1 .. n
        /\ \A i \in 1 .. n : /\ Plan[i].gate_start = sums[i - 1]
                             /\ Len(result.segments[i].gates) = size[i]
                             /\ EndOf(i) = sums[i] /\ sums[i] = sums[i - 1] + size[i]
        /\ sums[0] = 0 /\ \A i \in 0 .. n : sums[i] \in Nat
        /\ GateTotal(segments) = sums[n]
    BY ONLY Matches(result.segments, segments), EndsAre DEF n, size, sums
  <2>2. start = sums
    BY <1>2 DEF sums
  <2> QED
    BY <2>1, <2>2 DEF list
<1>4. \A i, j \in 0 .. n : i <= j => start[i] <= start[j]
  <2>1. /\ n \in Nat /\ \A k \in 1 .. n : size[k] \in Nat
        /\ \A k \in 0 .. n : start[k] \in Nat
        /\ \A k \in 1 .. n : start[k] = start[k - 1] + size[k]
    BY <1>1, <1>3
  <2> TAKE i, j \in 0 .. n
  <2> HAVE i <= j
  <2> QED
    BY ONLY <2>1, i \in 0 .. n, j \in 0 .. n, i <= j, StartsRise
<1>5. TotalGates = start[n] /\ TotalGates \in Nat
  BY <1>3, Fits
<1>6. ASSUME NEW i \in 1 .. n, NEW j \in 1 .. n, NEW g \in Nat,
             start[i - 1] < g, g <= start[i], start[j - 1] < g, g <= start[j]
      PROVE  i = j
  <2>1. \A k \in 0 .. n : start[k] \in Nat
    BY <1>3
  <2>2. i - 1 \in 0 .. n /\ j - 1 \in 0 .. n /\ i \in 0 .. n /\ j \in 0 .. n
    BY <1>1
  <2>3. ~(i <= j - 1)
    <3> SUFFICES ASSUME i <= j - 1 PROVE FALSE
      OBVIOUS
    <3>1. start[i] <= start[j - 1]
      BY <2>2, <1>4
    <3> QED
      BY <3>1, <2>1, <2>2, <1>6
  <2>4. ~(j <= i - 1)
    <3> SUFFICES ASSUME j <= i - 1 PROVE FALSE
      OBVIOUS
    <3>1. start[j] <= start[i - 1]
      BY <2>2, <1>4
    <3> QED
      BY <3>1, <2>1, <2>2, <1>6
  <2> QED
    BY <2>3, <2>4, <1>1
<1>7. ASSUME NEW i \in DOMAIN list, NEW k \in DOMAIN list[i].gates
      PROVE  /\ start[i - 1] + k \in 1 .. TotalGates
             /\ Scattered[start[i - 1] + k] = list[i].gates[k]
  <2> DEFINE g == start[i - 1] + k
             covers == { j \in DOMAIN Plan : Plan[j].gate_start < g /\ g <= EndOf(j) }
             last == CHOOSE l \in covers : \A m \in covers : m <= l
  <2>1. i \in 1 .. n /\ i - 1 \in 0 .. n /\ i \in 0 .. n /\ n \in 0 .. n
    BY <1>1
  <2>2. start[i - 1] \in Nat /\ start[i] \in Nat /\ start[i] = start[i - 1] + size[i] /\ size[i] \in Nat
    BY <2>1, <1>3
  <2>3. k \in 1 .. size[i]
    <3>1. list[i] \in Segment
      BY <2>1, <1>1 DEF list
    <3>2. list[i].gates \in Seq(TraceGate)
      BY <3>1 DEF Segment
    <3>3. DOMAIN list[i].gates = 1 .. Len(list[i].gates)
      BY <3>2
    <3> QED
      BY <3>3, <2>1, <1>3
  <2>4. start[i] <= start[n]
    BY <2>1, <1>4
  <2>5. g \in Nat /\ start[i - 1] < g /\ g <= start[i] /\ g \in 1 .. TotalGates
    BY <2>2, <2>3, <2>4, <1>5
  <2>6. g - start[i - 1] = k
    BY <2>2, <2>3
  <2>7. Scattered[g] = IF covers = {} THEN Placeholder ELSE list[last].gates[g - Plan[last].gate_start]
    BY <2>5 DEF Scattered, list
  <2> HIDE DEF g, last
  <2>8. covers = {i}
    <3>1. i \in covers
      BY <2>1, <2>5, <1>3
    <3>2. ASSUME NEW j \in covers PROVE j = i
      <4>1. j \in 1 .. n /\ start[j - 1] < g /\ g <= start[j]
        BY <1>3
      <4> QED
        BY <4>1, <2>1, <2>5, <1>6
    <3> QED
      BY <3>1, <3>2
  <2>9. last = i
    <3> HIDE DEF covers
    <3>1. \A m \in {i} : m <= i
      BY <2>1
    <3>2. last \in covers
      BY <2>8, <3>1 DEF last
    <3> QED
      BY <3>2, <2>8
  <2>10. Scattered[g] = list[i].gates[k]
    BY <2>1, <2>6, <2>7, <2>8, <2>9, <1>3
  <2> QED
    BY <2>5, <2>10 DEF g
<1> QED
  BY <1>1, <1>5, <1>7 DEF list

(* The invariant of the assembly with what is in the segments.             *)
PInv == AInv /\ TraceGoes /\ PolynomialDepthFirst

(* What is assembled is the depth-first list, gate by gate.                *)
LEMMA AssembledIs ==
  ASSUME PInv, Assemble
  PROVE  PolynomialDepthFirst'
<1> DEFINE list == result.segments
           start == M!PrefixSums(Len(list), [i \in DOMAIN list |-> Len(list[i].gates)])
           n == Len(list)
           first == [abc |-> Alpha, d |-> 1]
<1>1. phase = "evaluate" /\ pc = "done" /\ result.err = Ok
  BY DEF Assemble
<1>2. AssertsHold /\ ~(TotalGates > N) /\ SizesMatch
  BY <1>1, TraceFits DEF PInv
<1>3. view' = [Scattered EXCEPT ![1] = first] /\ UNCHANGED <<prog, result>>
  BY <1>1, <1>2 DEF Assemble, vars
<1>4. Matches(result.segments, segments) /\ result.segments \in Seq(Segment)
  <2>1. prog \in Programs /\ Traced(prog, result.segments)
    BY <1>1, EvalTraced DEF PInv, AInv, TraceInv, IInv, TypeOK
  <2>2. PICK paths : Measures(prog, paths, stack, segments)
    BY <1>1 DEF PInv, AInv, MetricsInv, MeasuredAt
  <2>3. Len(stack) = 1 /\ stack[1].call.at > Len(prog[stack[1].call.name].ops)
    BY <1>1 DEF PInv, AInv, MetricsInv
  <2>4. Records(segments)
    BY <2>2 DEF Measures
  <2> QED
    BY <2>1, <2>2, <2>3, <2>4, SameSegments DEF Matches, Traced
<1>5. Abstract!DepthFirst(prog, list)
  BY <1>1, EvalDepthFirst DEF PInv, AInv
<1>6. start = SumsTo(n, [i \in DOMAIN list |-> Len(list[i].gates)])
  BY DEF M!PrefixSums, SumsTo
<1> HIDE DEF start
<1>7. /\ TotalGates = start[n] /\ TotalGates \in Nat
      /\ \A i \in DOMAIN list : \A k \in DOMAIN list[i].gates :
           /\ start[i - 1] + k \in 1 .. TotalGates
           /\ Scattered[start[i - 1] + k] = list[i].gates[k]
  BY ONLY <1>4, <1>6, Scatters
<1> HIDE DEF list, n, first
<1>8. DOMAIN Scattered = 1 .. TotalGates
  BY DEF Scattered
<1>9. Len(view') = start[n]
  <2>1. view' \in [1 .. TotalGates -> Range(view')]
    <3>1. view' = [g \in 1 .. TotalGates |-> view'[g]]
      BY <1>3, <1>8
    <3> QED
      BY <3>1 DEF Range
  <2>2. view' \in Seq(Range(view'))
    BY <2>1, <1>7
  <2> QED
    BY <2>1, <2>2, <1>7
<1>10. ASSUME NEW i \in DOMAIN list, NEW k \in DOMAIN list[i].gates
       PROVE  view'[start[i - 1] + k] = IF start[i - 1] + k = 1 THEN first ELSE list[i].gates[k]
  <2>1. start[i - 1] + k \in DOMAIN Scattered /\ Scattered[start[i - 1] + k] = list[i].gates[k]
    BY <1>7, <1>8
  <2> QED
    BY <2>1, <1>3
<1>11. /\ Abstract!DepthFirst(prog, list)' /\ list' = list /\ start' = start
  <2>1. list' = list
    BY <1>3 DEF list
  <2> QED
    BY <2>1, <1>3, <1>5 DEF start, list
<1> QED
  BY <1>9, <1>10, <1>11, ZenonT(40) DEF PolynomialDepthFirst, list, n, first, start

(* Every step of the composition keeps it.                                 *)
LEMMA PInvKept == PInv /\ [ANext]_allVars => PInv'
<1> SUFFICES ASSUME PInv, [ANext]_allVars PROVE PInv'
  OBVIOUS
<1>1. AInv'
  BY AInvKept DEF PInv
<1>2. TraceGoes'
  <2>1. [Next]_vars
    BY DEF ANext, Measure, Register, Evaluate, TraceFails, Assemble, Stopped, allVars
  <2> QED
    BY <2>1, TraceGoesKept DEF PInv, AInv, TraceInv
<1>3. PolynomialDepthFirst'
  <2>1. CASE Assemble
    BY <2>1, AssembledIs
  <2>2. CASE UNCHANGED allVars
    <3>1. UNCHANGED <<prog, result, view, phase>>
      BY <2>2 DEF allVars, vars, assemblyVars
    <3> DEFINE list == result.segments
               start == M!PrefixSums(Len(list), [i \in DOMAIN list |-> Len(list[i].gates)])
    <3>2. list' = list
      BY <3>1
    <3>3. start' = start /\ Abstract!DepthFirst(prog, list)' <=> Abstract!DepthFirst(prog, list)
      BY <3>1, <3>2
    <3>4. PolynomialDepthFirst
      BY DEF PInv
    <3> QED
      BY <3>1, <3>2, <3>3, <3>4 DEF PolynomialDepthFirst
  <2>3. CASE Measure \/ Register \/ Evaluate \/ TraceFails
    <3>1. phase' # "assembled"
      BY <2>3 DEF Measure, Register, Evaluate, TraceFails, assemblyVars
    <3> QED
      BY <3>1 DEF PolynomialDepthFirst
  <2> QED
    BY <2>1, <2>2, <2>3 DEF ANext, Stopped
<1> QED
  BY <1>1, <1>2, <1>3 DEF PInv

(* Gate i of the polynomial of an accepted circuit is gate i of the        *)
(* depth-first run, whatever the schedule that computed it: the segments   *)
(* fill the polynomial without overlap or gap, and nothing but gate 0 is   *)
(* overwritten (trace.rs:79-144).                                          *)
THEOREM PolynomialAssembled == AllSpec => []PolynomialDepthFirst
<1>1. AInit => PInv
  <2> SUFFICES ASSUME AInit PROVE PInv
    OBVIOUS
  <2>1. Init /\ phase = "measure"
    BY DEF AInit
  <2> QED
    BY <2>1, AInvStarts, TraceGoesStart DEF PInv, PolynomialDepthFirst
<1>2. PInv /\ [ANext]_allVars => PInv'
  BY PInvKept
<1>3. PInv => PolynomialDepthFirst
  BY DEF PInv
<1> QED
  BY <1>1, <1>2, <1>3, PTL DEF AllSpec
=============================================================================
