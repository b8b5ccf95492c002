--------------------------- MODULE StagingProofs ----------------------------
(***************************************************************************)
(* Proofs about module Staging: what prover and circuit lay out for the    *)
(* same stage is the same, and no allocator gives a wire out twice.        *)
(***************************************************************************)
EXTENDS Staging, DataTheorems

(* Where the m-th wire goes that Standard hands out, from an empty pool    *)
(* and with `base` gates there already; and the gates it makes of the      *)
(* first k of the values it is given.                                      *)
WireOf(base, m) == <<base + ((m - 1) \div 2), IF m % 2 = 1 THEN "a" ELSE "d">>
GateOf(v, k, j) == [a |-> v[2 * j - 1], b |-> 0, c |-> 0,
                    d |-> IF 2 * j <= k THEN v[2 * j] ELSE 0]
Filling(v, k)   == [j \in 1 .. (k + 1) \div 2 |-> GateOf(v, k, j)]
Filled(g, v, k) ==
  [state |-> [gates |-> g \o Filling(v, k),
              pool  |-> IF k % 2 = 1 THEN <<Len(g) + k \div 2>> ELSE <<>>,
              wire  |-> IF k = 0 THEN ONE ELSE WireOf(Len(g), k)],
   wires |-> [m \in 1 .. k |-> WireOf(Len(g), m)]]

GateSet == [a : Nat, b : Nat, c : Nat, d : Nat]

(* Halves of a number and of the next one.                                 *)
LEMMA Halves ==
  ASSUME NEW k \in Nat
  PROVE  \/ \E h \in Nat : /\ k = 2 * h /\ k \div 2 = h /\ (k + 1) \div 2 = h /\ k % 2 = 0
                           /\ (k + 2) \div 2 = h + 1 /\ (k + 1) % 2 = 1
         \/ \E h \in Nat : /\ k = 2 * h + 1 /\ k \div 2 = h /\ (k + 1) \div 2 = h + 1 /\ k % 2 = 1
                           /\ (k + 2) \div 2 = h + 1 /\ (k + 1) % 2 = 0
<1>1. k \div 2 \in Nat /\ k % 2 \in {0, 1} /\ k = 2 * (k \div 2) + (k % 2)
  OBVIOUS
<1> DEFINE h == k \div 2
<1>2. CASE k % 2 = 0
  <2>1. k = 2 * h /\ h \in Nat
    BY <1>1, <1>2
  <2> HIDE DEF h
  <2>2. k \div 2 = h /\ (k + 1) \div 2 = h /\ k % 2 = 0 /\ (k + 2) \div 2 = h + 1 /\ (k + 1) % 2 = 1
    BY <2>1
  <2> QED
    BY <2>1, <2>2
<1>3. CASE k % 2 = 1
  <2>1. k = 2 * h + 1 /\ h \in Nat
    BY <1>1, <1>3
  <2> HIDE DEF h
  <2>2. k \div 2 = h /\ (k + 1) \div 2 = h + 1 /\ k % 2 = 1 /\ (k + 2) \div 2 = h + 1 /\ (k + 1) % 2 = 0
    BY <2>1
  <2> QED
    BY <2>1, <2>2
<1> QED
  BY <1>1, <1>2, <1>3

(* An element appended to the second of two lists joined.                  *)
LEMMA AppendedToJoined ==
  ASSUME NEW s, NEW t, NEW e, IsList(s), IsList(t)
  PROVE  Append(s \o t, e) = s \o Append(t, e)
<1> DEFINE R == Range(s) \cup Range(t) \cup {e}
<1>1. s \in Seq(R) /\ t \in Seq(R) /\ e \in R
  BY SeqMonotonic DEF IsList
<1> HIDE DEF R
<1>2. Append(s \o t, e) = (s \o t) \o <<e>> /\ Append(t, e) = t \o <<e>>
  BY <1>1, AppendIsConcat, ConcatProperties
<1>3. (s \o t) \o <<e>> = s \o (t \o <<e>>)
  BY <1>1, ConcatAssociative
<1> QED
  BY <1>2, <1>3

(* A fresh gate: the pool is empty.                                        *)
LEMMA FreshGate ==
  ASSUME NEW g, IsList(g), NEW v, NEW h \in Nat
  PROVE  g \o Filling(v, 2 * h + 1) = Append(g \o Filling(v, 2 * h), Gate(v[2 * h + 1], 0, 0))
<1> DEFINE old == Filling(v, 2 * h)
           new == Filling(v, 2 * h + 1)
           G   == Gate(v[2 * h + 1], 0, 0)
<1>1. old = [j \in 1 .. h |-> GateOf(v, 2 * h, j)] /\ new = [j \in 1 .. h + 1 |-> GateOf(v, 2 * h + 1, j)]
  <2>1. (2 * h + 1) \div 2 = h /\ (2 * h + 1 + 1) \div 2 = h + 1
    OBVIOUS
  <2> QED
    BY <2>1 DEF Filling
<1>2. \A j \in 1 .. h : GateOf(v, 2 * h, j) = GateOf(v, 2 * h + 1, j)
  <2> SUFFICES ASSUME NEW j \in 1 .. h PROVE GateOf(v, 2 * h, j) = GateOf(v, 2 * h + 1, j)
    OBVIOUS
  <2>1. 2 * j <= 2 * h /\ 2 * j <= 2 * h + 1
    OBVIOUS
  <2> QED
    BY <2>1 DEF GateOf
<1>3. GateOf(v, 2 * h + 1, h + 1) = G
  <2>1. ~(2 * (h + 1) <= 2 * h + 1) /\ 2 * (h + 1) - 1 = 2 * h + 1
    OBVIOUS
  <2> QED
    BY <2>1 DEF GateOf, Gate
<1> HIDE DEF old, new, G
<1>4. /\ DOMAIN old = 1 .. h /\ old = [j \in 1 .. h |-> old[j]]
      /\ DOMAIN new = 1 .. h + 1 /\ new = [j \in 1 .. h + 1 |-> new[j]]
  BY <1>1
<1>5. /\ \A j \in 1 .. h : old[j] = new[j]
      /\ new[h + 1] = G
  BY <1>1, <1>2, <1>3
<1>6. IsList(old) /\ Len(old) = h /\ IsList(new) /\ Len(new) = h + 1
  BY <1>4, TabledList
<1>7. new = Append(old, G)
  <2>1. old \in Seq(Range(old) \cup {G})
    BY <1>6, SeqMonotonic DEF IsList
  <2>2. /\ Append(old, G) \in Seq(Range(old) \cup {G}) /\ Len(Append(old, G)) = h + 1
        /\ Append(old, G)[h + 1] = G
        /\ \A j \in 1 .. h : Append(old, G)[j] = old[j]
    BY <2>1, <1>6, AppendProperties
  <2>3. \A j \in 1 .. h + 1 : new[j] = Append(old, G)[j]
    BY <2>2, <1>5
  <2> QED
    BY <1>6, <2>2, <2>3, ListOf, SameLists
<1>8. Append(g \o old, G) = g \o Append(old, G)
  BY <1>6, AppendedToJoined
<1> QED
  BY <1>7, <1>8 DEF old, new, G

(* The extra of the last gate: the pool has it.                            *)
LEMMA ExtraGiven ==
  ASSUME NEW g, IsList(g), NEW v, NEW h \in Nat
  PROVE  g \o Filling(v, 2 * h + 2) = AssignExtra(g \o Filling(v, 2 * h + 1), Len(g) + h, v[2 * h + 2])
<1> DEFINE old == Filling(v, 2 * h + 1)
           new == Filling(v, 2 * h + 2)
           x   == v[2 * h + 2]
           all == g \o old
           at  == Len(g) + h + 1
<1>1. /\ old = [j \in 1 .. h + 1 |-> GateOf(v, 2 * h + 1, j)]
      /\ new = [j \in 1 .. h + 1 |-> GateOf(v, 2 * h + 2, j)]
  <2>1. (2 * h + 1 + 1) \div 2 = h + 1 /\ (2 * h + 2 + 1) \div 2 = h + 1
    OBVIOUS
  <2> QED
    BY <2>1 DEF Filling
<1>2. \A j \in 1 .. h : GateOf(v, 2 * h + 2, j) = GateOf(v, 2 * h + 1, j)
  <2> SUFFICES ASSUME NEW j \in 1 .. h PROVE GateOf(v, 2 * h + 2, j) = GateOf(v, 2 * h + 1, j)
    OBVIOUS
  <2>1. 2 * j <= 2 * h + 2 /\ 2 * j <= 2 * h + 1
    OBVIOUS
  <2> QED
    BY <2>1 DEF GateOf
<1>3. [GateOf(v, 2 * h + 1, h + 1) EXCEPT !.d = x] = GateOf(v, 2 * h + 2, h + 1)
  <2>1. 2 * (h + 1) <= 2 * h + 2 /\ 2 * (h + 1) = 2 * h + 2
    OBVIOUS
  <2> QED
    BY <2>1 DEF GateOf
<1> HIDE DEF old, new, x
<1>4. /\ DOMAIN old = 1 .. h + 1 /\ old = [j \in 1 .. h + 1 |-> old[j]]
      /\ DOMAIN new = 1 .. h + 1 /\ new = [j \in 1 .. h + 1 |-> new[j]]
  BY <1>1
<1>5. /\ \A j \in 1 .. h : old[j] = new[j]
      /\ new[h + 1] = [old[h + 1] EXCEPT !.d = x]
  <2>1. \A j \in 1 .. h : old[j] = new[j]
    BY <1>1, <1>2
  <2>2. new[h + 1] = GateOf(v, 2 * h + 2, h + 1)
    BY <1>1
  <2>3. old[h + 1] = GateOf(v, 2 * h + 1, h + 1)
    BY <1>1
  <2> QED
    BY <2>1, <2>2, <2>3, <1>3
<1>6. IsList(old) /\ Len(old) = h + 1 /\ IsList(new) /\ Len(new) = h + 1
  BY <1>4, TabledList
<1>7. /\ IsList(all) /\ Len(all) = Len(g) + (h + 1) /\ DOMAIN all = 1 .. Len(g) + (h + 1)
      /\ \A k \in 1 .. Len(g) : all[k] = g[k]
      /\ \A k \in 1 .. h + 1 : all[Len(g) + k] = old[k]
  BY <1>6, Joined
<1>8. /\ IsList(g \o new) /\ Len(g \o new) = Len(g) + (h + 1)
      /\ \A k \in 1 .. Len(g) : (g \o new)[k] = g[k]
      /\ \A k \in 1 .. h + 1 : (g \o new)[Len(g) + k] = new[k]
  BY <1>6, Joined
<1>9. Len(g) \in Nat
  BY ListIs
<1> DEFINE set == [all EXCEPT ![at].d = x]
<1> HIDE DEF all
<1>10. /\ DOMAIN set = 1 .. Len(g) + (h + 1) /\ set = [k \in 1 .. Len(g) + (h + 1) |-> set[k]]
       /\ \A k \in 1 .. Len(g) + (h + 1) : k # at => set[k] = all[k]
       /\ set[at] = [all[at] EXCEPT !.d = x]
  <2>1. at \in 1 .. Len(g) + (h + 1)
    BY <1>9
  <2>2. set = [k \in 1 .. Len(g) + (h + 1) |-> IF k = at THEN [all[at] EXCEPT !.d = x] ELSE all[k]]
    BY ONLY <1>7, <2>1
  <2> HIDE DEF set, at
  <2> QED
    BY ONLY <2>1, <2>2
<1>11. IsList(set) /\ Len(set) = Len(g) + (h + 1)
  BY <1>9, <1>10, TabledList
<1> HIDE DEF set
<1>12. ASSUME NEW k \in 1 .. Len(g) + (h + 1) PROVE (g \o new)[k] = set[k]
  <2>1. CASE k \in 1 .. Len(g)
    BY <2>1, <1>7, <1>8, <1>9, <1>10
  <2>2. CASE k > Len(g)
    <3>1. k - Len(g) \in 1 .. h + 1 /\ k = Len(g) + (k - Len(g))
      BY <2>2, <1>9
    <3>2. (g \o new)[k] = new[k - Len(g)] /\ all[k] = old[k - Len(g)]
      BY <3>1, <1>7, <1>8
    <3>3. CASE k = at
      <4>1. k - Len(g) = h + 1
        BY <3>3, <1>9
      <4> QED
        BY <4>1, <3>2, <3>3, <1>5, <1>10
    <3>4. CASE k # at
      <4>1. k - Len(g) \in 1 .. h
        BY <3>4, <3>1, <1>9
      <4> QED
        BY <4>1, <3>2, <3>4, <1>5, <1>10
    <3> QED
      BY <3>3, <3>4
  <2>3. k \in 1 .. Len(g) \/ k > Len(g)
    BY <1>9
  <2> QED
    BY <2>1, <2>2, <2>3
<1>13. g \o new = set
  BY <1>8, <1>11, <1>12, SameLists
<1> QED
  BY <1>13, <1>9 DEF set, all, new, old, x, AssignExtra

(* The place of the next wire, in a fresh gate or an extra.                *)
LEMMA NextWire ==
  ASSUME NEW b \in Nat, NEW h \in Nat
  PROVE  WireOf(b, 2 * h + 1) = <<b + h, "a">> /\ WireOf(b, 2 * h + 2) = <<b + h, "d">>
<1>1. /\ (2 * h + 1 - 1) \div 2 = h /\ (2 * h + 1) % 2 = 1
      /\ (2 * h + 2 - 1) \div 2 = h /\ (2 * h + 2) % 2 = 0
  OBVIOUS
<1> QED
  BY <1>1 DEF WireOf

(* One allocation more.                                                    *)
LEMMA FilledStep ==
  ASSUME NEW g, IsList(g), NEW v, NEW k \in Nat,
         NEW next, next = AllocStandard(Filled(g, v, k).state, v[k + 1])
  PROVE  Filled(g, v, k + 1) = [state |-> next, wires |-> Append(Filled(g, v, k).wires, next.wire)]
<1>1. Len(g) \in Nat
  BY ListIs
<1> DEFINE W(n) == [m \in 1 .. n |-> WireOf(Len(g), m)]
<1>2. W(k + 1) = Append(W(k), WireOf(Len(g), k + 1))
  <2> DEFINE w == W(k)
             u == W(k + 1)
             e == WireOf(Len(g), k + 1)
  <2>1. /\ DOMAIN w = 1 .. k /\ w = [m \in 1 .. k |-> w[m]]
        /\ DOMAIN u = 1 .. k + 1 /\ u = [m \in 1 .. k + 1 |-> u[m]]
        /\ \A m \in 1 .. k : w[m] = u[m]
        /\ u[k + 1] = e
    OBVIOUS
  <2> HIDE DEF w, u, e
  <2>2. IsList(w) /\ Len(w) = k /\ IsList(u) /\ Len(u) = k + 1
    BY <2>1, TabledList
  <2>3. w \in Seq(Range(w) \cup {e})
    BY <2>2, SeqMonotonic DEF IsList
  <2>4. /\ Append(w, e) \in Seq(Range(w) \cup {e}) /\ Len(Append(w, e)) = k + 1
        /\ Append(w, e)[k + 1] = e
        /\ \A m \in 1 .. k : Append(w, e)[m] = w[m]
    BY <2>3, <2>2, AppendProperties
  <2>5. ASSUME NEW m \in 1 .. k + 1 PROVE u[m] = Append(w, e)[m]
    <3>1. m \in 1 .. k \/ m = k + 1
      OBVIOUS
    <3> QED
      BY <3>1, <2>1, <2>4
  <2>6. u = Append(w, e)
    BY <2>2, <2>4, <2>5, ListOf, SameLists
  <2> QED
    BY <2>6 DEF u, w, e
<1> HIDE DEF W
<1>3. Filled(g, v, k).wires = W(k) /\ Filled(g, v, k + 1).wires = W(k + 1)
  BY DEF Filled, W
<1>4. next = Filled(g, v, k + 1).state
  <2>1. CASE \E h \in Nat : k = 2 * h
    <3>1. PICK h \in Nat : k = 2 * h
      BY <2>1
    <3>2. k % 2 # 1 /\ (k + 1) % 2 = 1 /\ (k + 1) \div 2 = h /\ k + 1 # 0 /\ k + 1 = 2 * h + 1
      BY <3>1
    <3>3. Filled(g, v, k).state.pool = <<>> /\ Filled(g, v, k).state.gates = g \o Filling(v, 2 * h)
      BY <3>2, <3>1 DEF Filled
    <3>4. Filled(g, v, k + 1).state = [gates |-> g \o Filling(v, 2 * h + 1), pool |-> <<Len(g) + h>>,
                                       wire |-> WireOf(Len(g), 2 * h + 1)]
      BY <3>2 DEF Filled
    <3>5. Len(g \o Filling(v, 2 * h)) = Len(g) + h
      <4>1. (2 * h + 1) \div 2 = h
        OBVIOUS
      <4>2. Filling(v, 2 * h) = [j \in 1 .. h |-> GateOf(v, 2 * h, j)]
        BY <4>1 DEF Filling
      <4> DEFINE old == Filling(v, 2 * h)
      <4>3. DOMAIN old = 1 .. h /\ old = [j \in 1 .. h |-> old[j]]
        BY <4>2
      <4> HIDE DEF old
      <4>4. IsList(old) /\ Len(old) = h
        BY <4>3, TabledList
      <4> QED
        BY <4>4, Joined DEF old
    <3>6. next = [gates |-> Append(g \o Filling(v, 2 * h), Gate(v[2 * h + 1], 0, 0)), pool |-> <<Len(g) + h>>,
                  wire |-> <<Len(g) + h, "a">>]
      BY <3>2, <3>3, <3>5 DEF AllocStandard
    <3> QED
      BY <3>4, <3>6, <1>1, FreshGate, NextWire
  <2>2. CASE \E h \in Nat : k = 2 * h + 1
    <3>1. PICK h \in Nat : k = 2 * h + 1
      BY <2>2
    <3>2. k % 2 = 1 /\ (k + 1) % 2 # 1 /\ k \div 2 = h /\ k + 1 # 0 /\ k + 1 = 2 * h + 2
      BY <3>1
    <3>3. Filled(g, v, k).state.pool = <<Len(g) + h>> /\ Filled(g, v, k).state.gates = g \o Filling(v, 2 * h + 1)
      BY <3>2, <3>1 DEF Filled
    <3>4. Filled(g, v, k + 1).state = [gates |-> g \o Filling(v, 2 * h + 2), pool |-> <<>>,
                                       wire |-> WireOf(Len(g), 2 * h + 2)]
      BY <3>2 DEF Filled
    <3> DEFINE t == Len(g) + h
    <3>5. Newest(<<t>>) = t /\ Others(<<t>>) = <<>> /\ <<t>> # <<>>
      BY DEF Newest, Others
    <3>6. next = [gates |-> AssignExtra(g \o Filling(v, 2 * h + 1), t, v[2 * h + 2]), pool |-> <<>>,
                  wire |-> <<t, "d">>]
      BY <3>2, <3>3, <3>5 DEF AllocStandard
    <3> QED
      BY <3>4, <3>6, <1>1, ExtraGiven, NextWire
  <2> QED
    BY <2>1, <2>2, Halves
<1> QED
  <2>1. Filled(g, v, k + 1) = [state |-> Filled(g, v, k + 1).state, wires |-> Filled(g, v, k + 1).wires]
    BY DEF Filled
  <2>2. next.wire = WireOf(Len(g), k + 1)
    BY <1>4 DEF Filled
  <2> QED
    BY <2>1, <2>2, <1>2, <1>3, <1>4

(* Standard from an empty pool: two values to a gate.                      *)
LEMMA AllocatesInTurn ==
  ASSUME NEW g, IsList(g), NEW v, Len(v) \in Nat
  PROVE  AllocAll(NewAllocator(g), v) = Filled(g, v, Len(v))
<1> DEFINE Empty == [state |-> NewAllocator(g), wires |-> <<>>]
           L    == Len(v)
           step(acc, k) == LET next == AllocStandard(acc.state, v[k])
                           IN  [state |-> next, wires |-> Append(acc.wires, next.wire)]
           F1   == [k \in 0 .. L |-> Filled(g, v, k)]
           Rec(f) == f = [k \in 0 .. L |-> IF k = 0 THEN Empty ELSE step(f[k - 1], k)]
           after == CHOOSE f : Rec(f)
<1>1. AllocAll(NewAllocator(g), v) = after[L]
  BY DEF AllocAll
<1>2. Filled(g, v, 0) = Empty
  <2>1. (0 + 1) \div 2 = 0 /\ 0 % 2 # 1
    OBVIOUS
  <2>2. Filling(v, 0) = <<>>
    BY <2>1 DEF Filling
  <2>3. g \o <<>> = g
    <3>1. g \in Seq(Range(g))
      BY DEF IsList
    <3> QED
      BY <3>1, ConcatEmptySeq
  <2>4. [m \in 1 .. 0 |-> WireOf(Len(g), m)] = <<>>
    OBVIOUS
  <2> QED
    BY <2>1, <2>2, <2>3, <2>4 DEF Filled, NewAllocator
<1>3. \A k \in 1 .. L : Filled(g, v, k) = step(Filled(g, v, k - 1), k)
  <2> SUFFICES ASSUME NEW k \in 1 .. L PROVE Filled(g, v, k) = step(Filled(g, v, k - 1), k)
    OBVIOUS
  <2> DEFINE j    == k - 1
             next == AllocStandard(Filled(g, v, j).state, v[j + 1])
  <2>1. j \in Nat /\ j + 1 = k
    OBVIOUS
  <2>2. step(Filled(g, v, j), k) = [state |-> next, wires |-> Append(Filled(g, v, j).wires, next.wire)]
    BY <2>1
  <2>3. next = AllocStandard(Filled(g, v, j).state, v[j + 1])
    OBVIOUS
  <2> HIDE DEF j, next, step
  <2>4. Filled(g, v, j + 1) = [state |-> next, wires |-> Append(Filled(g, v, j).wires, next.wire)]
    BY <2>1, <2>3, FilledStep
  <2>5. Filled(g, v, k) = step(Filled(g, v, j), k)
    BY <2>1, <2>2, <2>4
  <2> QED
    BY <2>5 DEF j
<1> HIDE DEF Empty, step, L
<1>4. Rec(F1)
  <2>1. L \in Nat
    BY DEF L
  <2>2. ASSUME NEW k \in 0 .. L PROVE F1[k] = IF k = 0 THEN Empty ELSE step(F1[k - 1], k)
    <3>1. F1[k] = Filled(g, v, k)
      OBVIOUS
    <3>2. CASE k = 0
      BY <3>1, <3>2, <1>2
    <3>3. CASE k # 0
      <4>1. k \in 1 .. L /\ k - 1 \in 0 .. L
        BY <3>3, <2>1
      <4> QED
        BY <4>1, <3>1, <3>3, <1>3
    <3> QED
      BY <3>2, <3>3
  <2>3. F1 = [k \in 0 .. L |-> F1[k]]
    OBVIOUS
  <2> HIDE DEF F1
  <2> QED
    BY <2>2, <2>3
<1>5. Rec(after)
  BY <1>4
<1> HIDE DEF after
<1>6. \A k \in 0 .. L : after[k] = Filled(g, v, k)
  <2> DEFINE U == {k \in 0 .. L : after[k] = Filled(g, v, k)}
  <2>1. L \in Nat
    BY DEF L
  <2>2. 0 \in U
    BY <1>2, <1>5, <2>1
  <2>3. ASSUME NEW k \in 0 + 1 .. L, k - 1 \in U PROVE k \in U
    <3>1. k \in 0 .. L /\ k # 0 /\ k \in 1 .. L
      OBVIOUS
    <3>2. after[k] = step(after[k - 1], k)
      BY <1>5, <3>1
    <3> QED
      BY <3>1, <3>2, <2>3, <1>3
  <2> HIDE DEF U
  <2>4. \A k \in 0 .. L : k \in U
    BY <2>1, <2>2, <2>3, Interval
  <2> QED
    BY <2>4 DEF U
<1> QED
  BY <1>1, <1>6 DEF L
-----------------------------------------------------------------------------
(* Where the stages of a chain begin.                                      *)
Skips(f, chain, n) == /\ f[1] = 1
                      /\ \A k \in 1 + 1 .. n : f[k] = f[k - 1] + NumGates(chain[k - 1])
                      /\ \A k \in 1 .. n : f[k] \in Nat \ {0}

(* The recursion of skip_gates has such a solution.                        *)
LEMMA SkipsExist ==
  ASSUME NEW chain, NEW n \in Nat \ {0}, \A k \in 1 .. n - 1 : NumGates(chain[k]) \in Nat
  PROVE  \E f : Skips(f, chain, n) /\ SkipGates(chain, n) = f[n]
<1> DEFINE Solves(g) == g = [k \in 1 .. n |-> IF k = 1 THEN 1 ELSE g[k - 1] + NumGates(chain[k - 1])]
           skip == CHOOSE g : Solves(g)
           size(k) == NumGates(chain[k - 1])
           Step == [c \in (Nat \ {0}) \X (1 + 1 .. n) |-> c[1] + size(c[2])]
<1>1. SkipGates(chain, n) = skip[n]
  BY DEF SkipGates
<1>2. ASSUME NEW k \in 1 + 1 .. n PROVE size(k) \in Nat
  <2>1. k - 1 \in 1 .. n - 1
    OBVIOUS
  <2> QED
    BY <2>1
<1>3. ASSUME NEW k \in 1 .. n, k # 1 PROVE k \in 1 + 1 .. n /\ k - 1 \in 1 .. n
  BY <1>3
<1> HIDE DEF size
<1>4. Step \in [(Nat \ {0}) \X (1 + 1 .. n) -> Nat \ {0}]
  BY <1>2
<1>5. ASSUME NEW v \in Nat \ {0}, NEW k \in 1 + 1 .. n PROVE Step[<<v, k>>] = v + size(k)
  OBVIOUS
<1> HIDE DEF Step
<1>6. PICK f : Follows(f, 1, n, Nat \ {0}, 1, Step)
  BY <1>4, Iterates, 1 \in Int, n \in Int, 1 <= n, 1 \in Nat \ {0}
<1>7. f \in [1 .. n -> Nat \ {0}] /\ f[1] = 1 /\ \A k \in 1 + 1 .. n : f[k] = Step[<<f[k - 1], k>>]
  BY <1>6 DEF Follows
<1>8. \A k \in 1 + 1 .. n : f[k] = f[k - 1] + size(k)
  <2> SUFFICES ASSUME NEW k \in 1 + 1 .. n PROVE f[k] = f[k - 1] + size(k)
    OBVIOUS
  <2>1. k - 1 \in 1 .. n
    OBVIOUS
  <2>2. f[k - 1] \in Nat \ {0}
    BY <2>1, <1>7
  <2> QED
    BY <2>2, <1>5, <1>7
<1>9. \A k \in 1 .. n : f[k] = IF k = 1 THEN 1 ELSE f[k - 1] + size(k)
  BY <1>3, <1>7, <1>8
<1>10. Solves(f)
  <2>1. f = [k \in 1 .. n |-> f[k]]
    BY <1>7
  <2> QED
    BY <2>1, <1>9 DEF size
<1>11. Solves(skip)
  BY <1>10
<1>12. \A k \in 1 .. n : skip[k] = IF k = 1 THEN 1 ELSE skip[k - 1] + size(k)
  BY <1>11, Zenon DEF size
<1> HIDE DEF skip, Solves
<1>13. skip[1] = 1 /\ \A k \in 1 + 1 .. n : skip[k] = skip[k - 1] + size(k)
  BY <1>12
<1>14. \A k \in 1 .. n : skip[k] \in Nat \ {0}
  <2>1. ASSUME NEW k \in 1 + 1 .. n, skip[k - 1] \in Nat \ {0} PROVE skip[k] \in Nat \ {0}
    <3>1. size(k) \in Nat
      BY <1>2
    <3> QED
      BY <3>1, <2>1, <1>13
  <2>2. skip[1] \in Nat \ {0} /\ 1 <= n
    BY <1>13
  <2> QED
    BY <2>1, <2>2, Stays, 1 \in Int, n \in Int
<1>15. Skips(skip, chain, n)
  BY <1>13, <1>14 DEF Skips, size
<1> QED
  BY <1>1, <1>15

(* It depends on the stages before it only.                                *)
LEMMA SkipsAgree ==
  ASSUME NEW c, NEW d, NEW m \in Nat \ {0}, NEW n \in Nat \ {0}, m <= n,
         \A k \in 1 .. m - 1 : c[k] = d[k],
         NEW f, NEW g, Skips(f, c, m), Skips(g, d, n)
  PROVE  f[m] = g[m]
<1> DEFINE U == { k \in 1 .. m : f[k] = g[k] }
<1>1. 1 \in U
  BY DEF Skips
<1>2. ASSUME NEW k \in 1 + 1 .. m, k - 1 \in U PROVE k \in U
  <2>1. k \in 1 + 1 .. n /\ k - 1 \in 1 .. m - 1 /\ k \in 1 .. m
    OBVIOUS
  <2>2. f[k] = f[k - 1] + NumGates(c[k - 1]) /\ g[k] = g[k - 1] + NumGates(d[k - 1])
    BY <2>1 DEF Skips
  <2> QED
    BY <1>2, <2>1, <2>2
<1> HIDE DEF U
<1>3. \A k \in 1 .. m : k \in U
  BY <1>1, <1>2, Interval, 1 \in Int, m \in Int
<1> QED
  BY <1>3 DEF U

(* The chains a circuit is made of.                                        *)
StageOk(s)  == s.values \in Nat /\ s.wires \in Nat /\ s.wires <= s.values
Chain(c)    == IsList(c) /\ \A k \in 1 .. Len(c) : StageOk(c[k])

(* The gates of a stage hold its values two by two.                        *)
LEMMA StageGatesAre ==
  ASSUME NEW s, StageOk(s)
  PROVE  /\ NumGates(s) \in Nat /\ s.values <= 2 * NumGates(s)
         /\ (s.values + 1) \div 2 = NumGates(s)
         /\ PaddedWiresOf(s) = 2 * NumGates(s)
         /\ \A m \in 1 .. s.wires : (m - 1) \div 2 \in 0 .. NumGates(s) - 1
<1>1. s.values \in Nat /\ s.wires \in Nat /\ s.wires <= s.values
  BY DEF StageOk
<1> DEFINE v == s.values
           w == s.wires
           n == NumGates(s)
<1>2. n = (v + 1) \div 2
  BY DEF NumGates
<1>3. PaddedWiresOf(s) = IF w \div 2 < n THEN 2 * n ELSE w
  BY DEF PaddedWiresOf
<1> HIDE DEF v, w, n
<1>4. v \in Nat /\ w \in Nat /\ w <= v
  BY <1>1 DEF v, w
<1>5. n \in Nat /\ v <= 2 * n
  BY <1>2, <1>4
<1>6. PaddedWiresOf(s) = 2 * n
  BY <1>2, <1>3, <1>4
<1>7. \A m \in 1 .. w : (m - 1) \div 2 \in 0 .. n - 1
  BY <1>2, <1>4
<1> QED
  BY <1>2, <1>5, <1>6, <1>7 DEF v, w, n

(* A stage begins where the one before it ends.                            *)
LEMMA SkipGatesIs ==
  ASSUME NEW c, Chain(c)
  PROVE  /\ SkipGates(c, 1) = 1
         /\ \A i \in 1 .. Len(c) + 1 : SkipGates(c, i) \in Nat \ {0}
         /\ \A i \in 1 .. Len(c) : SkipGates(c, i + 1) = SkipGates(c, i) + NumGates(c[i])
<1>1. Len(c) \in Nat
  BY ListIs DEF Chain
<1>2. \A k \in 1 .. Len(c) : NumGates(c[k]) \in Nat
  BY StageGatesAre DEF Chain
<1>3. ASSUME NEW i \in 1 .. Len(c) + 1 PROVE \E f : Skips(f, c, i) /\ SkipGates(c, i) = f[i]
  <2>1. i \in Nat \ {0} /\ \A k \in 1 .. i - 1 : NumGates(c[k]) \in Nat
    BY <1>1, <1>2
  <2> QED
    BY <2>1, SkipsExist
<1>4. \A i \in 1 .. Len(c) + 1 : SkipGates(c, i) \in Nat \ {0}
  <2> SUFFICES ASSUME NEW i \in 1 .. Len(c) + 1 PROVE SkipGates(c, i) \in Nat \ {0}
    OBVIOUS
  <2>1. i \in 1 .. i
    BY <1>1
  <2> QED
    BY <1>3, <2>1 DEF Skips
<1>5. SkipGates(c, 1) = 1
  <2>1. 1 \in 1 .. Len(c) + 1
    BY <1>1
  <2> QED
    BY <1>3, <2>1 DEF Skips
<1>6. ASSUME NEW i \in 1 .. Len(c) PROVE SkipGates(c, i + 1) = SkipGates(c, i) + NumGates(c[i])
  <2>1. i \in 1 .. Len(c) + 1 /\ i + 1 \in 1 .. Len(c) + 1 /\ i \in Nat \ {0} /\ i + 1 \in Nat \ {0}
      /\ i <= i + 1 /\ \A k \in 1 .. i - 1 : c[k] = c[k]
    BY <1>1
  <2>2. PICK f : Skips(f, c, i) /\ SkipGates(c, i) = f[i]
    BY <1>3, <2>1
  <2>3. PICK g : Skips(g, c, i + 1) /\ SkipGates(c, i + 1) = g[i + 1]
    BY <1>3, <2>1
  <2>4. f[i] = g[i]
    <3>1. PICK n \in Nat \ {0} : n = i + 1
      BY <2>1
    <3>2. PICK m \in Nat \ {0} : m = i
      BY <2>1
    <3>3. Skips(f, c, m) /\ Skips(g, c, n) /\ m <= n
      BY <2>2, <2>3, <3>1, <3>2
    <3>4. f[m] = g[m]
      BY ONLY <3>3, SkipsAgree
    <3> QED
      BY <3>2, <3>4
  <2>5. i + 1 \in 1 + 1 .. i + 1 /\ (i + 1) - 1 = i
    BY <2>1
  <2>6. g[i + 1] = g[i] + NumGates(c[i])
    BY <2>3, <2>5 DEF Skips
  <2> QED
    BY <2>2, <2>3, <2>4, <2>6
<1> QED
  BY <1>4, <1>5, <1>6

(* Chains that agree before a stage.                                       *)
LEMMA SkipGatesSame ==
  ASSUME NEW c, NEW d, Chain(c), Chain(d), NEW i \in 1 .. Len(c) + 1, i <= Len(d) + 1,
         \A k \in 1 .. i - 1 : c[k] = d[k]
  PROVE  SkipGates(c, i) = SkipGates(d, i)
<1>1. Len(c) \in Nat /\ Len(d) \in Nat
  BY ListIs DEF Chain
<1>2. i \in Nat \ {0} /\ i <= i
  BY <1>1
<1>3. /\ \A k \in 1 .. Len(c) : NumGates(c[k]) \in Nat
      /\ \A k \in 1 .. Len(d) : NumGates(d[k]) \in Nat
  BY StageGatesAre DEF Chain
<1>4. /\ \A k \in 1 .. i - 1 : NumGates(c[k]) \in Nat
      /\ \A k \in 1 .. i - 1 : NumGates(d[k]) \in Nat
  BY <1>1, <1>3
<1>5. PICK f : Skips(f, c, i) /\ SkipGates(c, i) = f[i]
  BY <1>2, <1>4, SkipsExist
<1>6. PICK g : Skips(g, d, i) /\ SkipGates(d, i) = g[i]
  BY <1>2, <1>4, SkipsExist
<1>7. f[i] = g[i]
  BY <1>2, <1>5, <1>6, SkipsAgree
<1> QED
  BY <1>5, <1>6, <1>7

(* A later stage begins beyond the gates of an earlier one.                *)
LEMMA SkipGrows ==
  ASSUME NEW c, Chain(c), NEW i \in 1 .. Len(c), NEW j \in i + 1 .. Len(c) + 1
  PROVE  SkipGates(c, i) + NumGates(c[i]) <= SkipGates(c, j)
<1>1. Len(c) \in Nat
  BY ListIs DEF Chain
<1>2. /\ \A k \in 1 .. Len(c) + 1 : SkipGates(c, k) \in Nat \ {0}
      /\ \A k \in 1 .. Len(c) : SkipGates(c, k + 1) = SkipGates(c, k) + NumGates(c[k])
  BY SkipGatesIs
<1>3. \A k \in 1 .. Len(c) : NumGates(c[k]) \in Nat
  BY StageGatesAre DEF Chain
<1> DEFINE e == SkipGates(c, i) + NumGates(c[i])
           U == { k \in i + 1 .. Len(c) + 1 : e <= SkipGates(c, k) }
<1>4. e \in Nat /\ SkipGates(c, i + 1) = e
  <2>1. i \in 1 .. Len(c) + 1
    BY <1>1
  <2> QED
    BY <2>1, <1>2, <1>3
<1> HIDE DEF e
<1>5. i + 1 \in U
  BY <1>1, <1>4
<1>6. ASSUME NEW k \in i + 1 + 1 .. Len(c) + 1, k - 1 \in U PROVE k \in U
  <2>1. k - 1 \in 1 .. Len(c) /\ k - 1 \in 1 .. Len(c) + 1 /\ k \in i + 1 .. Len(c) + 1 /\ (k - 1) + 1 = k
    BY <1>1
  <2>2. SkipGates(c, k) = SkipGates(c, k - 1) + NumGates(c[k - 1])
    BY <2>1, <1>2
  <2>3. SkipGates(c, k - 1) \in Nat /\ NumGates(c[k - 1]) \in Nat /\ e <= SkipGates(c, k - 1)
    BY <2>1, <1>2, <1>3, <1>6
  <2>4. e <= SkipGates(c, k)
    BY <2>2, <2>3, <1>4
  <2> QED
    BY <2>1, <2>4
<1> HIDE DEF U
<1>7. \A k \in i + 1 .. Len(c) + 1 : k \in U
  BY <1>5, <1>6, Interval, i + 1 \in Int, Len(c) + 1 \in Int, <1>1
<1> QED
  BY <1>7 DEF U, e
-----------------------------------------------------------------------------
(* What rx_configured allocates for a stage: alpha and its 0, zeros for    *)
(* the gates before the stage, the witness, zeros to the stage's size.     *)
Laid(skip, alpha, data, size) ==
  <<alpha, 0>> \o Zeroes(2 * (skip - 1)) \o data \o Zeroes(size - Len(data))

LaidOut(v, skip, alpha, data, size) ==
  /\ Len(v) = 2 * skip + size
  /\ v[1] = alpha
  /\ \A k \in 2 .. 2 * skip : v[k] = 0
  /\ \A k \in 1 .. Len(data) : v[2 * skip + k] = data[k]
  /\ \A k \in Len(data) + 1 .. size : v[2 * skip + k] = 0

(* Its elements.                                                           *)
LEMMA LaidIs ==
  ASSUME NEW skip \in Nat \ {0}, NEW alpha, NEW data, IsList(data),
         NEW size \in Nat, Len(data) <= size, NEW v, v = Laid(skip, alpha, data, size)
  PROVE  LaidOut(v, skip, alpha, data, size)
<1> DEFINE A == <<alpha, 0>>
           B == Zeroes(2 * (skip - 1))
           D == Zeroes(size - Len(data))
           n == 2 * (skip - 1)
           r == size - Len(data)
<1>1. Len(data) \in Nat /\ n \in Nat /\ r \in Nat
  BY ListIs
<1>2. IsList(A) /\ Len(A) = 2 /\ A[1] = alpha /\ A[2] = 0
  <2>1. A \in Seq({alpha, 0})
    OBVIOUS
  <2> QED
    BY <2>1, ListOf
<1>3. /\ DOMAIN B = 1 .. n /\ B = [k \in 1 .. n |-> B[k]] /\ \A k \in 1 .. n : B[k] = 0
      /\ DOMAIN D = 1 .. r /\ D = [k \in 1 .. r |-> D[k]] /\ \A k \in 1 .. r : D[k] = 0
  BY DEF Zeroes
<1>4. Laid(skip, alpha, data, size) = ((A \o B) \o data) \o D
  BY DEF Laid
<1> HIDE DEF A, B, D
<1>5. IsList(B) /\ Len(B) = n /\ IsList(D) /\ Len(D) = r
  BY <1>1, <1>3, TabledList
<1> DEFINE AB == A \o B
           E  == AB \o data
           L  == E \o D
<1>6. /\ IsList(AB) /\ Len(AB) = 2 + n
      /\ \A k \in 1 .. 2 : AB[k] = A[k]
      /\ \A k \in 1 .. n : AB[2 + k] = B[k]
  <2>1. /\ IsList(A \o B) /\ Len(A \o B) = Len(A) + Len(B)
        /\ DOMAIN (A \o B) = 1 .. Len(A) + Len(B)
        /\ \A k \in 1 .. Len(A) : (A \o B)[k] = A[k]
        /\ \A k \in 1 .. Len(B) : (A \o B)[Len(A) + k] = B[k]
    <3>1. IsList(A) /\ IsList(B)
      BY <1>2, <1>5
    <3> QED
      BY ONLY <3>1, Joined
  <2> QED
    BY <2>1, <1>2, <1>5
<1> HIDE DEF AB
<1>7. 2 + n = 2 * skip
  OBVIOUS
<1>8. /\ IsList(E) /\ Len(E) = 2 * skip + Len(data)
      /\ \A k \in 1 .. 2 * skip : E[k] = AB[k]
      /\ \A k \in 1 .. Len(data) : E[2 * skip + k] = data[k]
  <2>1. /\ IsList(AB \o data) /\ Len(AB \o data) = Len(AB) + Len(data)
        /\ DOMAIN (AB \o data) = 1 .. Len(AB) + Len(data)
        /\ \A k \in 1 .. Len(AB) : (AB \o data)[k] = AB[k]
        /\ \A k \in 1 .. Len(data) : (AB \o data)[Len(AB) + k] = data[k]
    <3>1. IsList(AB) /\ IsList(data)
      BY <1>6
    <3> QED
      BY ONLY <3>1, Joined
  <2> QED
    BY <2>1, <1>6, <1>7
<1> HIDE DEF E
<1>9. /\ Len(L) = 2 * skip + Len(data) + r
      /\ \A k \in 1 .. 2 * skip + Len(data) : L[k] = E[k]
      /\ \A k \in 1 .. r : L[2 * skip + Len(data) + k] = D[k]
  <2>1. /\ IsList(E \o D) /\ Len(E \o D) = Len(E) + Len(D)
        /\ DOMAIN (E \o D) = 1 .. Len(E) + Len(D)
        /\ \A k \in 1 .. Len(E) : (E \o D)[k] = E[k]
        /\ \A k \in 1 .. Len(D) : (E \o D)[Len(E) + k] = D[k]
    <3>1. IsList(E) /\ IsList(D)
      BY <1>5, <1>8
    <3> QED
      BY ONLY <3>1, Joined
  <2> QED
    BY <2>1, <1>5, <1>8
<1> HIDE DEF L
<1>10. v = L
  BY <1>4 DEF L, E, AB
<1>11. Len(L) = 2 * skip + size
  BY <1>1, <1>9
<1>12. L[1] = alpha
  <2>1. 1 \in 1 .. 2 * skip + Len(data) /\ 1 \in 1 .. 2 * skip /\ 1 \in 1 .. 2
    BY <1>1
  <2> QED
    BY <2>1, <1>2, <1>6, <1>8, <1>9
<1>13. ASSUME NEW k \in 2 .. 2 * skip PROVE L[k] = 0
  <2>1. k \in 1 .. 2 * skip + Len(data) /\ k \in 1 .. 2 * skip
    BY <1>1
  <2>2. L[k] = AB[k]
    BY <2>1, <1>8, <1>9
  <2>3. CASE k = 2
    <3>1. 2 \in 1 .. 2
      OBVIOUS
    <3> QED
      BY <3>1, <2>2, <2>3, <1>2, <1>6
  <2>4. CASE k # 2
    <3>1. k - 2 \in 1 .. n /\ 2 + (k - 2) = k
      BY <2>4
    <3> QED
      BY <3>1, <2>2, <1>3, <1>6
  <2> QED
    BY <2>3, <2>4
<1>14. ASSUME NEW k \in 1 .. Len(data) PROVE L[2 * skip + k] = data[k]
  <2>1. 2 * skip + k \in 1 .. 2 * skip + Len(data)
    BY <1>1
  <2> QED
    BY <2>1, <1>8, <1>9
<1>15. ASSUME NEW k \in Len(data) + 1 .. size PROVE L[2 * skip + k] = 0
  <2>1. k - Len(data) \in 1 .. r /\ 2 * skip + Len(data) + (k - Len(data)) = 2 * skip + k
    BY <1>1
  <2> QED
    BY <2>1, <1>3, <1>9
<1> QED
  BY <1>10, <1>11, <1>12, <1>13, <1>14, <1>15 DEF LaidOut

(* The slots of the gates Standard makes of v.                             *)
LEMMA SlotsFilled ==
  ASSUME NEW v, NEW n \in Nat, NEW j \in 1 .. (n + 1) \div 2
  PROVE  /\ SlotOf(Filling(v, n)[j], "a") = v[2 * j - 1]
         /\ SlotOf(Filling(v, n)[j], "b") = 0
         /\ SlotOf(Filling(v, n)[j], "c") = 0
         /\ SlotOf(Filling(v, n)[j], "d") = IF 2 * j <= n THEN v[2 * j] ELSE 0
<1>1. Filling(v, n)[j] = GateOf(v, n, j)
  BY DEF Filling
<1>2. /\ GateOf(v, n, j).a = v[2 * j - 1] /\ GateOf(v, n, j).b = 0 /\ GateOf(v, n, j).c = 0
      /\ GateOf(v, n, j).d = IF 2 * j <= n THEN v[2 * j] ELSE 0
  BY DEF GateOf
<1> QED
  BY <1>1, <1>2 DEF SlotOf

(* The value at a wire of a stage's polynomial.                            *)
ValueAt(g, wire) == IF wire[1] < Len(g) THEN SlotOf(g[wire[1] + 1], wire[2]) ELSE 0

(* The polynomial holds alpha, the data from gate `skip` on and no more.   *)
Prepared(g, skip, alpha, data) ==
  /\ ValueAt(g, <<0, "a">>) = alpha
  /\ \A m \in 1 .. Len(data) : ValueAt(g, WireOf(skip, m)) = data[m]
  /\ \A q \in Nat, slot \in Slots :
       (<<q, slot>> # <<0, "a">> /\ \A m \in 1 .. Len(data) : <<q, slot>> # WireOf(skip, m))
         => ValueAt(g, <<q, slot>>) = 0

(* rx_configured puts alpha and the witness where the circuit, that has    *)
(* the stage's wires from gate `skip` on, looks for them.                  *)
LEMMA StageHolds ==
  ASSUME NEW skip \in Nat \ {0}, NEW alpha, NEW data, IsList(data), NEW size \in Nat,
         Len(data) <= size, NEW g, g = AllocAll(NewAllocator(<<>>), Laid(skip, alpha, data, size)).state.gates
  PROVE  Prepared(g, skip, alpha, data)
<1> DEFINE v == Laid(skip, alpha, data, size)
           n == 2 * skip + size
           k == (n + 1) \div 2
<1>1. /\ Len(v) = 2 * skip + size
      /\ v[1] = alpha
      /\ \A i \in 2 .. 2 * skip : v[i] = 0
      /\ \A i \in 1 .. Len(data) : v[2 * skip + i] = data[i]
      /\ \A i \in Len(data) + 1 .. size : v[2 * skip + i] = 0
  <2>1. /\ skip \in Nat \ {0} /\ IsList(data) /\ size \in Nat /\ Len(data) <= size
        /\ v = Laid(skip, alpha, data, size)
    OBVIOUS
  <2> HIDE DEF v
  <2>2. LaidOut(v, skip, alpha, data, size)
    BY <2>1, LaidIs
  <2> QED
    BY <2>2 DEF LaidOut
<1>2. n \in Nat /\ k \in Nat /\ Len(data) \in Nat
  BY ListIs
<1>3. g = Filling(v, n)
  <2>1. IsList(<<>>)
    <3>1. <<>> \in Seq({})
      OBVIOUS
    <3> QED
      BY <3>1, ListOf
  <2>2. AllocAll(NewAllocator(<<>>), v) = Filled(<<>>, v, n)
    BY <2>1, <1>1, <1>2, AllocatesInTurn
  <2>3. Filled(<<>>, v, n).state.gates = <<>> \o Filling(v, n)
    BY DEF Filled
  <2> DEFINE t == Filling(v, n)
  <2>4. DOMAIN t = 1 .. k /\ t = [j \in 1 .. k |-> t[j]]
    BY DEF Filling
  <2> HIDE DEF t, v, n, k
  <2>5. IsList(t)
    BY <2>4, <1>2, TabledList
  <2>6. <<>> \o t = t
    <3>1. t \in Seq(Range(t))
      BY <2>5 DEF IsList
    <3> QED
      BY <3>1, ConcatEmptySeq
  <2> QED
    BY <2>2, <2>3, <2>6 DEF t, v
<1>4. Len(g) = k
  <2>1. DOMAIN g = 1 .. k /\ g = [j \in 1 .. k |-> g[j]]
    BY <1>3 DEF Filling
  <2> QED
    BY <2>1, <1>2, TabledList
<1> HIDE DEF v
<1>5. ASSUME NEW q \in Nat, q < k
      PROVE  /\ SlotOf(g[q + 1], "a") = v[2 * q + 1]
             /\ SlotOf(g[q + 1], "b") = 0
             /\ SlotOf(g[q + 1], "c") = 0
             /\ SlotOf(g[q + 1], "d") = IF 2 * q + 2 <= n THEN v[2 * q + 2] ELSE 0
  <2>1. q + 1 \in 1 .. (n + 1) \div 2 /\ 2 * (q + 1) - 1 = 2 * q + 1 /\ 2 * (q + 1) = 2 * q + 2
    BY <1>2, <1>5
  <2> QED
    BY <1>2, <1>3, <2>1, SlotsFilled
<1>6. ASSUME NEW q \in Nat, q < k PROVE 2 * q + 1 <= n
  BY <1>2, <1>6
<1>7. ASSUME NEW q \in Nat, 2 * q + 1 <= n PROVE q < k
  BY <1>2, <1>7
<1> HIDE DEF k
<1>8. ValueAt(g, <<0, "a">>) = alpha
  <2>1. 2 * 0 + 1 = 1 /\ 1 <= n
    OBVIOUS
  <2>2. 0 < k
    BY <2>1, <1>7
  <2>3. SlotOf(g[0 + 1], "a") = v[1]
    BY <2>1, <2>2, <1>5
  <2> QED
    BY <2>2, <2>3, <1>1, <1>4 DEF ValueAt
<1>9. ASSUME NEW m \in 1 .. Len(data) PROVE ValueAt(g, WireOf(skip, m)) = data[m]
  <2>1. m \in Nat /\ m <= size /\ m # 0
    BY <1>2
  <2>2. CASE \E h \in Nat : m = 2 * h + 1
    <3>1. PICK h \in Nat : m = 2 * h + 1
      BY <2>2
    <3>2. WireOf(skip, m) = <<skip + h, "a">>
      BY <3>1, NextWire
    <3>3. skip + h < k
      BY <3>1, <2>1, <1>7, 2 * (skip + h) + 1 <= n
    <3>4. 2 * (skip + h) + 1 = 2 * skip + m
      BY <3>1
    <3>5. SlotOf(g[skip + h + 1], "a") = v[2 * skip + m]
      BY <3>3, <3>4, <1>5
    <3> QED
      BY <3>2, <3>3, <3>5, <1>1, <1>4 DEF ValueAt
  <2>3. CASE \E h \in Nat : m = 2 * h + 2
    <3>1. PICK h \in Nat : m = 2 * h + 2
      BY <2>3
    <3>2. WireOf(skip, m) = <<skip + h, "d">>
      BY <3>1, NextWire
    <3>3. skip + h < k
      BY <3>1, <2>1, <1>7, 2 * (skip + h) + 1 <= n
    <3>4. 2 * (skip + h) + 2 = 2 * skip + m /\ 2 * skip + m <= n
      BY <3>1, <2>1
    <3>5. SlotOf(g[skip + h + 1], "d") = v[2 * skip + m]
      BY <3>3, <3>4, <1>5
    <3> QED
      BY <3>2, <3>3, <3>5, <1>1, <1>4 DEF ValueAt
  <2>4. (\E h \in Nat : m = 2 * h + 1) \/ (\E h \in Nat : m = 2 * h + 2)
    <3>1. m - 1 \in Nat
      BY <2>1
    <3>2. (\E h \in Nat : m - 1 = 2 * h) \/ (\E h \in Nat : m - 1 = 2 * h + 1)
      BY <3>1, Halves
    <3> QED
      BY <3>2, <2>1
  <2> QED
    BY <2>2, <2>3, <2>4
<1>10. ASSUME NEW q \in Nat, NEW slot \in Slots, <<q, slot>> # <<0, "a">>,
              \A m \in 1 .. Len(data) : <<q, slot>> # WireOf(skip, m)
       PROVE  ValueAt(g, <<q, slot>>) = 0
  <2>1. CASE ~(q < k)
    BY <2>1, <1>4 DEF ValueAt
  <2>2. CASE q < k /\ slot \in {"b", "c"}
    BY <2>2, <1>4, <1>5 DEF ValueAt
  <2>3. CASE q < k /\ slot = "a"
    <3>1. ValueAt(g, <<q, slot>>) = v[2 * q + 1] /\ 2 * q + 1 <= n /\ q # 0
      BY <2>3, <1>4, <1>5, <1>6, <1>10 DEF ValueAt
    <3>2. CASE 2 * q + 1 <= 2 * skip
      <4>1. 2 * q + 1 \in 2 .. 2 * skip
        BY <3>1, <3>2
      <4> QED
        BY <4>1, <3>1, <1>1
    <3>3. CASE 2 * q + 1 > 2 * skip
      <4> DEFINE h == q - skip
      <4>1. h \in Nat /\ q = skip + h
        BY <3>3
      <4> HIDE DEF h
      <4>2. WireOf(skip, 2 * h + 1) = <<q, slot>>
        BY <4>1, <2>3, NextWire
      <4>3. 2 * h + 1 > Len(data)
        <5>1. ~(2 * h + 1 \in 1 .. Len(data))
          BY <4>2, <1>10
        <5> QED
          BY <5>1, <4>1, <1>2
      <4>4. 2 * h + 1 \in Len(data) + 1 .. size /\ 2 * skip + (2 * h + 1) = 2 * q + 1
        BY <4>1, <4>3, <3>1, <1>2
      <4> QED
        BY <4>4, <3>1, <1>1
    <3> QED
      BY <3>2, <3>3
  <2>4. CASE q < k /\ slot = "d"
    <3>1. ValueAt(g, <<q, slot>>) = IF 2 * q + 2 <= n THEN v[2 * q + 2] ELSE 0
      BY <2>4, <1>4, <1>5 DEF ValueAt
    <3>2. CASE 2 * q + 2 > n
      BY <3>1, <3>2, <1>2
    <3>3. CASE 2 * q + 2 <= 2 * skip
      <4>1. 2 * q + 2 \in 2 .. 2 * skip /\ 2 * q + 2 <= n
        BY <3>3
      <4> QED
        BY <4>1, <3>1, <1>1
    <3>4. CASE 2 * q + 2 > 2 * skip /\ 2 * q + 2 <= n
      <4> DEFINE h == q - skip
      <4>1. h \in Nat /\ q = skip + h
        BY <3>4
      <4> HIDE DEF h
      <4>2. WireOf(skip, 2 * h + 2) = <<q, slot>>
        BY <4>1, <2>4, NextWire
      <4>3. 2 * h + 2 > Len(data)
        <5>1. ~(2 * h + 2 \in 1 .. Len(data))
          BY <4>2, <1>10
        <5> QED
          BY <5>1, <4>1, <1>2
      <4>4. 2 * h + 2 \in Len(data) + 1 .. size /\ 2 * skip + (2 * h + 2) = 2 * q + 2
        BY <4>1, <4>3, <3>4, <1>2
      <4> QED
        BY <4>4, <3>1, <3>4, <1>1
    <3> QED
      BY <3>2, <3>3, <3>4, <1>2
  <2> QED
    BY <2>1, <2>2, <2>3, <2>4 DEF Slots
<1> QED
  BY <1>8, <1>9, <1>10 DEF Prepared
-----------------------------------------------------------------------------
(* What stays true of the gates, of the allocator's pool and of the wires  *)
(* the body was given.                                                     *)
GateOk(gate) == gate \in GateSet /\ Satisfied(gate)
GatesOk(g)   == IsList(g) /\ \A k \in 1 .. Len(g) : GateOk(g[k])
PoolOk(g, p, r) ==
  /\ IsList(p)
  /\ \A k \in 1 .. Len(p) : p[k] \in r .. Len(g) - 1 /\ g[p[k] + 1].c = 0
  /\ \A k, l \in 1 .. Len(p) : p[k] = p[l] => k = l
HandedOk(g, h, r) ==
  /\ IsList(h)
  /\ \A k \in 1 .. Len(h) : h[k][1] \in r .. Len(g) - 1
  /\ \A k, l \in 1 .. Len(h) : h[k] = h[l] => k = l
Unassigned(p, h) == \A k \in 1 .. Len(h), l \in 1 .. Len(p) : h[k] # <<p[l], "d">>
BodyOk(g, p, h, r) == PoolOk(g, p, r) /\ HandedOk(g, h, r) /\ Unassigned(p, h)

GuardsOk(c, d) ==
  /\ IsList(d) /\ Len(d) = Len(c)
  /\ \A i \in 1 .. Len(c) : d[i] = [m \in 1 .. c[i].wires |-> WireOf(SkipGates(c, i), m)]
Reserved == SkipGates(stages, Len(stages) + 1)
SInv ==
  /\ Chain(stages) /\ GuardsOk(stages, guards) /\ GatesOk(gates)
  /\ Reserved <= Len(gates)
  /\ phase # "body" => handed = <<>> /\ pool = <<>> /\ Len(gates) = Reserved
  /\ BodyOk(gates, pool, handed, Reserved)

(* A gate more: pool and wires refer to the gates they did.                *)
LEMMA Grow ==
  ASSUME NEW g, NEW e, NEW p, NEW h, NEW r \in Nat, GatesOk(g), GateOk(e), BodyOk(g, p, h, r)
  PROVE  /\ GatesOk(Append(g, e)) /\ Len(Append(g, e)) = Len(g) + 1
         /\ Append(g, e)[Len(g) + 1] = e
         /\ BodyOk(Append(g, e), p, h, r)
<1> DEFINE u == Append(g, e)
           n == Len(g)
<1>1. n \in Nat /\ IsList(g) /\ \A k \in 1 .. n : GateOk(g[k])
  BY ListIs DEF GatesOk
<1>2. /\ IsList(u) /\ Len(u) = n + 1
      /\ \A k \in 1 .. n : u[k] = g[k]
      /\ u[n + 1] = e
  BY <1>1, Appended
<1> HIDE DEF u, n
<1>3. GatesOk(u)
  <2>1. ASSUME NEW k \in 1 .. n + 1 PROVE GateOk(u[k])
    <3>1. k \in 1 .. n \/ k = n + 1
      BY <1>1
    <3> QED
      BY <3>1, <1>1, <1>2
  <2> QED
    BY <2>1, <1>2 DEF GatesOk
<1>4. PoolOk(u, p, r)
  <2>1. /\ IsList(p)
        /\ \A k \in 1 .. Len(p) : p[k] \in r .. n - 1 /\ g[p[k] + 1].c = 0
        /\ \A k, l \in 1 .. Len(p) : p[k] = p[l] => k = l
    BY DEF BodyOk, PoolOk, n
  <2>2. ASSUME NEW k \in 1 .. Len(p) PROVE p[k] \in r .. (n + 1) - 1 /\ u[p[k] + 1].c = 0
    <3>1. p[k] \in r .. n - 1 /\ g[p[k] + 1].c = 0
      BY <2>1
    <3>2. p[k] + 1 \in 1 .. n /\ p[k] \in r .. (n + 1) - 1
      BY <3>1, <1>1
    <3> QED
      BY <3>1, <3>2, <1>2
  <2> QED
    BY <2>1, <2>2, <1>2 DEF PoolOk
<1>5. HandedOk(u, h, r)
  <2>1. /\ IsList(h)
        /\ \A k \in 1 .. Len(h) : h[k][1] \in r .. n - 1
        /\ \A k, l \in 1 .. Len(h) : h[k] = h[l] => k = l
    BY DEF BodyOk, HandedOk, n
  <2>2. ASSUME NEW k \in 1 .. Len(h) PROVE h[k][1] \in r .. (n + 1) - 1
    <3>1. h[k][1] \in r .. n - 1
      BY <2>1
    <3> QED
      BY <3>1, <1>1
  <2> QED
    BY <2>1, <2>2, <1>2 DEF HandedOk
<1> QED
  BY <1>2, <1>3, <1>4, <1>5 DEF BodyOk, u, n

(* Wires of one gate given out that were not yet.                          *)
LEMMA Given ==
  ASSUME NEW g, NEW p, NEW h, NEW r \in Nat, BodyOk(g, p, h, r), NEW w, IsList(w),
         NEW n \in r .. Len(g) - 1, \A k \in 1 .. Len(w) : w[k][1] = n,
         \A k, l \in 1 .. Len(w) : w[k] = w[l] => k = l,
         \A k \in 1 .. Len(w), l \in 1 .. Len(h) : w[k] # h[l],
         \A k \in 1 .. Len(w), l \in 1 .. Len(p) : w[k] # <<p[l], "d">>
  PROVE  BodyOk(g, p, h \o w, r)
<1> DEFINE u == h \o w
           m == Len(h)
<1>1. /\ IsList(h) /\ m \in Nat /\ Len(w) \in Nat
      /\ \A k \in 1 .. m : h[k][1] \in r .. Len(g) - 1
      /\ \A k, l \in 1 .. m : h[k] = h[l] => k = l
      /\ \A k \in 1 .. m, l \in 1 .. Len(p) : h[k] # <<p[l], "d">>
  BY ListIs DEF BodyOk, HandedOk, Unassigned
<1>2. /\ IsList(u) /\ Len(u) = m + Len(w)
      /\ \A k \in 1 .. m : u[k] = h[k]
      /\ \A k \in 1 .. Len(w) : u[m + k] = w[k]
  <2>1. IsList(h) /\ IsList(w)
    BY <1>1
  <2> QED
    BY ONLY <2>1, Joined
<1> HIDE DEF u, m
<1>3. ASSUME NEW k \in 1 .. Len(u)
      PROVE  \/ k \in 1 .. m /\ u[k] = h[k]
             \/ \E j \in 1 .. Len(w) : k = m + j /\ u[k] = w[j]
  <2>1. k \in 1 .. m \/ (k - m \in 1 .. Len(w) /\ k = m + (k - m))
    BY <1>1, <1>2
  <2> QED
    BY <2>1, <1>2
<1>4. ASSUME NEW k \in 1 .. Len(u) PROVE u[k][1] \in r .. Len(g) - 1
  BY <1>1, <1>3
<1>5. ASSUME NEW k \in 1 .. Len(u), NEW l \in 1 .. Len(u), u[k] = u[l] PROVE k = l
  <2>1. CASE k \in 1 .. m /\ l \in 1 .. m
    <3>1. u[k] = h[k] /\ u[l] = h[l]
      BY <2>1, <1>2
    <3> QED
      BY <3>1, <2>1, <1>1, <1>5
  <2>2. ASSUME NEW i \in 1 .. Len(w), NEW j \in 1 .. m, u[m + i] = u[j] PROVE FALSE
    <3>1. w[i] = h[j]
      BY <2>2, <1>2
    <3> QED
      BY <3>1 DEF m
  <2>3. CASE \E i, j \in 1 .. Len(w) : k = m + i /\ l = m + j
    <3>1. PICK i \in 1 .. Len(w), j \in 1 .. Len(w) : k = m + i /\ l = m + j
      BY <2>3
    <3>2. w[i] = w[j]
      BY <3>1, <1>2, <1>5
    <3> QED
      BY <3>1, <3>2
  <2> QED
    BY <1>3, <1>5, <2>1, <2>2, <2>3
<1>6. ASSUME NEW k \in 1 .. Len(u), NEW l \in 1 .. Len(p) PROVE u[k] # <<p[l], "d">>
  <2> DEFINE d == <<p[l], "d">>
  <2>1. /\ \A j \in 1 .. m : h[j] # d
        /\ \A j \in 1 .. Len(w) : w[j] # d
    BY <1>1
  <2> HIDE DEF d
  <2> QED
    BY <1>3, <2>1 DEF d
<1>7. HandedOk(g, u, r)
  BY <1>2, <1>4, <1>5 DEF HandedOk
<1>8. Unassigned(p, u)
  BY <1>6 DEF Unassigned
<1> QED
  BY <1>7, <1>8 DEF BodyOk, u

(* A token that enters the pool.                                           *)
LEMMA Pooled ==
  ASSUME NEW g, NEW p, NEW h, NEW r \in Nat, BodyOk(g, p, h, r), NEW t \in r .. Len(g) - 1,
         g[t + 1].c = 0, \A k \in 1 .. Len(p) : p[k] # t, \A k \in 1 .. Len(h) : h[k] # <<t, "d">>
  PROVE  BodyOk(g, Append(p, t), h, r)
<1> DEFINE u == Append(p, t)
           m == Len(p)
<1>1. /\ IsList(p) /\ m \in Nat
      /\ \A k \in 1 .. m : p[k] \in r .. Len(g) - 1 /\ g[p[k] + 1].c = 0
      /\ \A k, l \in 1 .. m : p[k] = p[l] => k = l
      /\ \A k \in 1 .. Len(h), l \in 1 .. m : h[k] # <<p[l], "d">>
  BY ListIs DEF BodyOk, PoolOk, Unassigned
<1>2. /\ IsList(u) /\ Len(u) = m + 1
      /\ \A k \in 1 .. m : u[k] = p[k]
      /\ u[m + 1] = t
  BY <1>1, Appended
<1> HIDE DEF u, m
<1>3. ASSUME NEW k \in 1 .. Len(u)
      PROVE  (k \in 1 .. m /\ u[k] = p[k]) \/ (k = m + 1 /\ u[k] = t)
  <2>1. k \in 1 .. m \/ k = m + 1
    BY <1>1, <1>2
  <2> QED
    BY <2>1, <1>2
<1>4. ASSUME NEW k \in 1 .. Len(u) PROVE u[k] \in r .. Len(g) - 1 /\ g[u[k] + 1].c = 0
  BY <1>1, <1>3
<1>5. ASSUME NEW k \in 1 .. Len(u), NEW l \in 1 .. Len(u), u[k] = u[l] PROVE k = l
  BY <1>1, <1>3, <1>5 DEF m
<1>6. ASSUME NEW k \in 1 .. Len(h), NEW l \in 1 .. Len(u) PROVE h[k] # <<u[l], "d">>
  BY <1>1, <1>3
<1>7. PoolOk(g, u, r)
  BY <1>2, <1>4, <1>5 DEF PoolOk
<1>8. Unassigned(u, h)
  BY <1>6 DEF Unassigned
<1> QED
  BY <1>7, <1>8 DEF BodyOk, u

(* The newest token leaves the pool.                                       *)
LEMMA Taken ==
  ASSUME NEW g, NEW p, NEW h, NEW r \in Nat, BodyOk(g, p, h, r), p # <<>>
  PROVE  /\ BodyOk(g, Others(p), h, r)
         /\ Newest(p) \in r .. Len(g) - 1 /\ g[Newest(p) + 1].c = 0
         /\ \A k \in 1 .. Len(Others(p)) : Others(p)[k] # Newest(p)
         /\ \A k \in 1 .. Len(h) : h[k] # <<Newest(p), "d">>
<1> DEFINE u == Others(p)
           t == Newest(p)
           m == Len(p)
<1>1. /\ IsList(p) /\ m \in Nat /\ m # 0
      /\ \A k \in 1 .. m : p[k] \in r .. Len(g) - 1 /\ g[p[k] + 1].c = 0
      /\ \A k, l \in 1 .. m : p[k] = p[l] => k = l
      /\ \A k \in 1 .. Len(h), l \in 1 .. m : h[k] # <<p[l], "d">>
  BY ListIs DEF BodyOk, PoolOk, Unassigned
<1>2. t = p[m]
  BY DEF Newest
<1>3. /\ IsList(u) /\ Len(u) = m - 1
      /\ \A k \in 1 .. m - 1 : u[k] = p[k]
  <2>1. u = [k \in 1 .. m - 1 |-> p[k]]
    <3>1. 1 .. ((m - 1) - 1) + 1 = 1 .. m - 1
      BY <1>1
    <3>2. u = [k \in 1 .. ((m - 1) - 1) + 1 |-> p[k + 1 - 1]]
      BY <1>1 DEF Others
    <3> QED
      BY <3>2, <1>1
  <2>2. m - 1 \in Nat /\ DOMAIN u = 1 .. m - 1 /\ u = [k \in 1 .. m - 1 |-> u[k]]
    BY <1>1, <2>1
  <2>3. IsList(u) /\ Len(u) = m - 1
    BY <2>2, TabledList
  <2> QED
    BY <2>1, <2>3
<1> HIDE DEF u, m, t
<1>4. m \in 1 .. m /\ \A k \in 1 .. Len(u) : k \in 1 .. m /\ k # m /\ u[k] = p[k]
  BY <1>1, <1>3
<1>5. PoolOk(g, u, r)
  <2>1. \A k \in 1 .. Len(u) : u[k] \in r .. Len(g) - 1 /\ g[u[k] + 1].c = 0
    BY <1>1, <1>4
  <2>2. \A k, l \in 1 .. Len(u) : u[k] = u[l] => k = l
    BY <1>1, <1>4
  <2> QED
    BY <1>3, <2>1, <2>2 DEF PoolOk
<1>6. Unassigned(u, h)
  BY <1>1, <1>4 DEF Unassigned
<1>7. \A k \in 1 .. Len(u) : u[k] # t
  BY <1>1, <1>2, <1>4
<1>8. t \in r .. Len(g) - 1 /\ g[t + 1].c = 0 /\ \A k \in 1 .. Len(h) : h[k] # <<t, "d">>
  BY <1>1, <1>2, <1>4
<1> QED
  BY <1>5, <1>6, <1>7, <1>8 DEF BodyOk, u, t

(* Products of the field, and the gates the calls make.                    *)
LEMMA FieldFacts ==
  /\ \A v, w \in Nat : Times(v, w) \in Nat /\ Minus(1, v) \in Int
  /\ \A v \in Nat : Times(v, 0) = 0 /\ Times(0, v) = 0
  /\ \A v \in {0, 1} : Minus(1, v) \in Nat /\ Times(v, Minus(1, v)) = 0
<1>1. P \in Nat /\ P >= 1
  BY FieldAssumption DEF IsPrime
<1>2. ASSUME NEW x \in Nat PROVE x % P \in Nat /\ 0 % P = 0
  <2>1. x % P \in 0 .. P - 1 /\ 0 % P = 0
    BY <1>1, Remainder
  <2> QED
    BY <2>1, <1>1
<1>3. P % P = 0
  <2>1. P % P \in 0 .. P - 1 /\ P = P * (P \div P) + (P % P) /\ P \div P \in Nat
    BY <1>1, Division
  <2> DEFINE q == P \div P
             m == P % P
             one == 1
             zero == 0
  <2>2. one \in Int /\ q \in Int /\ m \in 0 .. P - 1 /\ zero \in 0 .. P - 1 /\ P * q + m = P * one + zero
    BY <1>1, <2>1
  <2> HIDE DEF q, m, one, zero
  <2>3. m = zero
    BY <1>1, <2>2, UniqueRemainder
  <2> QED
    BY <2>3 DEF m, zero
<1>4. ASSUME NEW v \in Nat, NEW w \in Nat PROVE Times(v, w) \in Nat
  <2>1. v * w \in Nat
    OBVIOUS
  <2> QED
    BY <2>1, <1>2 DEF Times
<1>5. ASSUME NEW v \in Nat PROVE Times(v, 0) = 0 /\ Times(0, v) = 0
  <2>1. v * 0 = 0 /\ 0 * v = 0
    OBVIOUS
  <2> QED
    BY <2>1, <1>2 DEF Times
<1>6. ASSUME NEW v \in Nat PROVE Minus(1, v) \in Int
  <2>1. 1 + P - v \in Int
    BY <1>1
  <2> QED
    BY <2>1, <1>1 DEF Minus
<1>7. Minus(1, 0) \in Nat /\ Minus(1, 1) = 0
  <2>1. 1 + P - 0 \in Nat /\ 1 + P - 1 = P
    BY <1>1
  <2> QED
    BY <2>1, <1>2, <1>3 DEF Minus
<1>8. ASSUME NEW v \in {0, 1} PROVE Minus(1, v) \in Nat /\ Times(v, Minus(1, v)) = 0
  <2>1. CASE v = 0
    BY <2>1, <1>5, <1>7
  <2>2. CASE v = 1
    <3>1. Times(1, 0) = 0
      BY <1>5
    <3> QED
      BY <2>2, <3>1, <1>7
  <2> QED
    BY <2>1, <2>2
<1> QED
  BY <1>4, <1>5, <1>6, <1>8

(* A gate of three values in its first slots.                              *)
LEMMA GateIs ==
  ASSUME NEW v \in Nat, NEW w \in Nat, NEW x \in Nat
  PROVE  Gate(v, w, x) \in GateSet /\ Gate(v, w, x).c = x /\ (x = Times(v, w) => GateOk(Gate(v, w, x)))
<1> DEFINE e == Gate(v, w, x)
<1>1. e \in GateSet /\ e.a = v /\ e.b = w /\ e.c = x /\ e.d = 0
  BY DEF Gate, GateSet
<1> HIDE DEF e
<1>2. ASSUME x = Times(v, w) PROVE GateOk(e)
  <2>1. Times(x, 0) = 0
    BY FieldFacts
  <2> QED
    BY <1>1, <1>2, <2>1 DEF GateOk, Satisfied
<1> QED
  BY <1>1, <1>2 DEF e

(* The extra of a gate with c = 0 may be assigned anything.                *)
LEMMA Assigned ==
  ASSUME NEW g, NEW p, NEW h, NEW r \in Nat, GatesOk(g), BodyOk(g, p, h, r),
         NEW t \in r .. Len(g) - 1, g[t + 1].c = 0, NEW v \in Nat
  PROVE  /\ GatesOk(AssignExtra(g, t, v)) /\ Len(AssignExtra(g, t, v)) = Len(g)
         /\ BodyOk(AssignExtra(g, t, v), p, h, r)
<1> DEFINE u == AssignExtra(g, t, v)
           n == Len(g)
           at == t + 1
           e == [a |-> g[at].a, b |-> g[at].b, c |-> g[at].c, d |-> v]
<1>1. /\ n \in Nat /\ IsList(g) /\ DOMAIN g = 1 .. n /\ g = [k \in 1 .. n |-> g[k]]
      /\ \A k \in 1 .. n : GateOk(g[k])
  <2>1. IsList(g) /\ \A k \in 1 .. n : GateOk(g[k])
    BY DEF GatesOk
  <2>2. g \in [1 .. n -> Range(g)]
    BY <2>1, ListIs, LenProperties
  <2> QED
    BY <2>1, <2>2, ListIs
<1>2. at \in 1 .. n
  BY <1>1
<1>3. [g[at] EXCEPT !.d = v] = e
  <2>1. g[at] \in GateSet
    BY <1>1, <1>2 DEF GateOk
  <2> QED
    BY <2>1 DEF GateSet
<1>4. u = [k \in 1 .. n |-> IF k = at THEN e ELSE g[k]]
  <2>1. u = [k \in 1 .. n |-> IF k = at THEN [g[at] EXCEPT !.d = v] ELSE g[k]]
    BY <1>1, <1>2 DEF AssignExtra
  <2> QED
    BY <2>1, <1>3
<1>5. GateOk(e) /\ e.c = 0 /\ g[at].c = 0
  <2>1. GateOk(g[at]) /\ g[at].c = 0
    BY <1>1, <1>2
  <2>2. e \in GateSet /\ e.a = g[at].a /\ e.b = g[at].b /\ e.c = g[at].c /\ e.d = v
    BY <2>1 DEF GateOk, GateSet
  <2>3. Times(0, v) = 0
    BY FieldFacts
  <2> QED
    BY <2>1, <2>2, <2>3 DEF GateOk, Satisfied
<1> HIDE DEF u, n, e
<1>6. IsList(u) /\ Len(u) = n
  <2>1. DOMAIN u = 1 .. n /\ u = [k \in 1 .. n |-> u[k]]
    BY <1>4
  <2> QED
    BY <2>1, <1>1, TabledList
<1>7. GatesOk(u)
  BY <1>1, <1>4, <1>5, <1>6 DEF GatesOk
<1>8. ASSUME NEW k \in 1 .. n, g[k].c = 0 PROVE u[k].c = 0
  BY <1>4, <1>5, <1>8
<1>9. PoolOk(u, p, r)
  <2>1. /\ IsList(p)
        /\ \A k \in 1 .. Len(p) : p[k] \in r .. n - 1 /\ g[p[k] + 1].c = 0
        /\ \A k, l \in 1 .. Len(p) : p[k] = p[l] => k = l
    BY DEF BodyOk, PoolOk, n
  <2>2. ASSUME NEW k \in 1 .. Len(p) PROVE u[p[k] + 1].c = 0
    <3>1. p[k] \in r .. n - 1 /\ g[p[k] + 1].c = 0
      BY <2>1
    <3>2. p[k] + 1 \in 1 .. n
      BY <3>1, <1>1
    <3> QED
      BY <3>1, <3>2, <1>8
  <2> QED
    BY <2>1, <2>2, <1>6 DEF PoolOk
<1>10. HandedOk(u, h, r)
  BY <1>6 DEF BodyOk, HandedOk, n
<1> QED
  BY <1>6, <1>7, <1>9, <1>10 DEF BodyOk, u, n

(* One allocation of the body: a fresh gate, or the newest token's extra.  *)
LEMMA StandardStep ==
  ASSUME NEW g, NEW p, NEW h, NEW r \in Nat, r <= Len(g), GatesOk(g), BodyOk(g, p, h, r),
         NEW v \in Nat, NEW next, next = AllocStandard([gates |-> g, pool |-> p, wire |-> ONE], v)
  PROVE  /\ GatesOk(next.gates) /\ r <= Len(next.gates)
         /\ BodyOk(next.gates, next.pool, Append(h, next.wire), r)
<1> DEFINE n == Len(g)
<1>1. n \in Nat /\ IsList(h)
  BY ListIs DEF GatesOk, BodyOk, HandedOk
<1>2. CASE p # <<>>
  <2> DEFINE t == Newest(p)
             q == Others(p)
             u == AssignExtra(g, t, v)
             w == <<t, "d">>
  <2>1. next.gates = u /\ next.pool = q /\ next.wire = w
    BY <1>2 DEF AllocStandard
  <2>2. /\ BodyOk(g, q, h, r) /\ t \in r .. n - 1 /\ g[t + 1].c = 0
        /\ \A k \in 1 .. Len(q) : q[k] # t
        /\ \A k \in 1 .. Len(h) : h[k] # w
    BY <1>2, Taken
  <2> HIDE DEF t, q
  <2>3. GatesOk(u) /\ Len(u) = n /\ BodyOk(u, q, h, r)
    BY <2>2, Assigned
  <2> HIDE DEF u
  <2> DEFINE one == <<w>>
  <2>4. IsList(one) /\ Len(one) = 1 /\ one[1] = w /\ w[1] = t
    BY Single
  <2>5. \A k \in 1 .. Len(q) : w # <<q[k], "d">>
    BY <2>2
  <2> HIDE DEF one, w
  <2>6. BodyOk(u, q, h \o one, r)
    <3>1. /\ t \in r .. Len(u) - 1 /\ \A k \in 1 .. Len(one) : one[k][1] = t
          /\ \A k, l \in 1 .. Len(one) : one[k] = one[l] => k = l
          /\ \A k \in 1 .. Len(one), l \in 1 .. Len(h) : one[k] # h[l]
          /\ \A k \in 1 .. Len(one), l \in 1 .. Len(q) : one[k] # <<q[l], "d">>
      BY <2>2, <2>3, <2>4, <2>5
    <3> QED
      BY <3>1, <2>3, <2>4, Given
  <2>7. Append(h, w) = h \o one
    BY <1>1, AppendIsConcat DEF IsList, one
  <2> QED
    BY <2>1, <2>3, <2>6, <2>7, <1>1
<1>3. CASE p = <<>>
  <2> DEFINE e == Gate(v, 0, 0)
             u == Append(g, e)
             w == <<n, "a">>
  <2>1. next.gates = u /\ next.pool = <<n>> /\ next.wire = w
    BY <1>3 DEF AllocStandard
  <2>2. GateOk(e) /\ e.c = 0
    <3>1. Times(v, 0) = 0
      BY FieldFacts
    <3> QED
      BY <3>1, GateIs
  <2> HIDE DEF e
  <2>3. GatesOk(u) /\ Len(u) = n + 1 /\ u[n + 1] = e /\ BodyOk(u, p, h, r)
    BY <2>2, Grow
  <2>4. \A k \in 1 .. Len(h) : h[k][1] \in r .. n - 1
    BY DEF BodyOk, HandedOk
  <2> HIDE DEF u
  <2>5. \A k \in 1 .. Len(h) : h[k] # w /\ h[k] # <<n, "d">>
    BY <2>4, <1>1
  <2>6. BodyOk(u, Append(p, n), h, r)
    <3>1. n \in r .. Len(u) - 1 /\ u[n + 1].c = 0 /\ \A k \in 1 .. Len(p) : p[k] # n
      BY <1>1, <1>3, <2>2, <2>3
    <3> QED
      BY <3>1, <2>3, <2>5, Pooled
  <2> DEFINE q == <<n>>
             one == <<w>>
  <2>7. Append(p, n) = q /\ next.pool = q
    BY <1>3, <2>1
  <2>8. IsList(one) /\ Len(one) = 1 /\ one[1] = w /\ w[1] = n
    BY Single
  <2>9. \A k \in 1 .. Len(q) : w # <<q[k], "d">>
    BY <1>1
  <2> HIDE DEF q, one, w
  <2>10. BodyOk(u, q, h \o one, r)
    <3>1. /\ n \in r .. Len(u) - 1 /\ \A k \in 1 .. Len(one) : one[k][1] = n
          /\ \A k, l \in 1 .. Len(one) : one[k] = one[l] => k = l
          /\ \A k \in 1 .. Len(one), l \in 1 .. Len(h) : one[k] # h[l]
          /\ \A k \in 1 .. Len(one), l \in 1 .. Len(q) : one[k] # <<q[l], "d">>
      <4>1. n \in r .. Len(u) - 1 /\ \A k \in 1 .. Len(one) : one[k][1] = n
        BY <1>1, <2>3, <2>8
      <4>2. \A k, l \in 1 .. Len(one) : one[k] = one[l] => k = l
        BY <2>8
      <4>3. \A k \in 1 .. Len(one), l \in 1 .. Len(h) : one[k] # h[l]
        BY <2>5, <2>8
      <4>4. ASSUME NEW k \in 1 .. Len(one), NEW l \in 1 .. Len(q) PROVE one[k] # <<q[l], "d">>
        <5>1. one[k] = w
          BY <2>8
        <5>2. w # <<q[l], "d">>
          BY <2>9
        <5> QED
          BY ONLY <5>1, <5>2
      <4> QED
        BY <4>1, <4>2, <4>3, <4>4
    <3> QED
      BY <3>1, <2>6, <2>7, <2>8, Given
  <2>11. Append(h, w) = h \o one
    BY <1>1, AppendIsConcat DEF IsList, one
  <2>12. r <= Len(u)
    BY <2>3, <1>1
  <2> QED
    BY <2>1, <2>3, <2>7, <2>10, <2>11, <2>12
<1> QED
  BY <1>2, <1>3

(* A gate of an element's square or product: three wires at once.          *)
LEMMA MulStep ==
  ASSUME NEW g, NEW p, NEW h, NEW r \in Nat, r <= Len(g), GatesOk(g), BodyOk(g, p, h, r),
         NEW e, GateOk(e), NEW n, n = Len(g)
  PROVE  /\ GatesOk(Append(g, e)) /\ r <= Len(Append(g, e))
         /\ BodyOk(Append(g, e), p, h \o << <<n, "a">>, <<n, "b">>, <<n, "c">> >>, r)
<1> DEFINE u == Append(g, e)
           w == << <<n, "a">>, <<n, "b">>, <<n, "c">> >>
<1>1. n \in Nat
  BY ListIs DEF GatesOk
<1>2. GatesOk(u) /\ Len(u) = n + 1 /\ BodyOk(u, p, h, r)
  BY Grow
<1>3. /\ \A k \in 1 .. Len(h) : h[k][1] \in r .. n - 1
      /\ \A k \in 1 .. Len(p) : p[k] \in r .. n - 1
  BY DEF BodyOk, HandedOk, PoolOk
<1>4. IsList(w) /\ Len(w) = 3
  <2>1. w \in Seq({<<n, "a">>, <<n, "b">>, <<n, "c">>})
    OBVIOUS
  <2> QED
    BY <2>1, ListOf
<1>5. w[1] = <<n, "a">> /\ w[2] = <<n, "b">> /\ w[3] = <<n, "c">>
  OBVIOUS
<1> HIDE DEF u, w
<1>6. \A k \in 1 .. Len(w) : w[k][1] = n /\ w[k][2] # "d"
  <2> SUFFICES ASSUME NEW k \in 1 .. Len(w) PROVE w[k][1] = n /\ w[k][2] # "d"
    OBVIOUS
  <2>1. k = 1 \/ k = 2 \/ k = 3
    BY <1>4
  <2> QED
    BY <2>1, <1>5
<1>7. \A k, l \in 1 .. Len(w) : w[k] = w[l] => k = l
  <2> SUFFICES ASSUME NEW k \in 1 .. Len(w), NEW l \in 1 .. Len(w), w[k] = w[l] PROVE k = l
    OBVIOUS
  <2>1. (k = 1 \/ k = 2 \/ k = 3) /\ (l = 1 \/ l = 2 \/ l = 3)
    BY <1>4
  <2> QED
    BY <2>1, <1>5
<1>8. ASSUME NEW k \in 1 .. Len(w), NEW l \in 1 .. Len(h) PROVE w[k] # h[l]
  <2>1. w[k][1] = n /\ h[l][1] \in r .. n - 1
    BY <1>3, <1>6
  <2> QED
    BY <2>1, <1>1
<1>9. ASSUME NEW k \in 1 .. Len(w), NEW l \in 1 .. Len(p) PROVE w[k] # <<p[l], "d">>
  <2>1. w[k][2] # "d" /\ <<p[l], "d">>[2] = "d"
    BY <1>6
  <2> QED
    BY <2>1
<1>10. n \in r .. Len(u) - 1 /\ r <= Len(u)
  BY <1>1, <1>2
<1>11. BodyOk(u, p, h \o w, r)
  BY <1>2, <1>4, <1>6, <1>7, <1>8, <1>9, <1>10, Given
<1> QED
  BY <1>2, <1>10, <1>11 DEF u, w

(* A boolean's gate: one wire, and its extra into the pool.                *)
LEMMA BooleanStep ==
  ASSUME NEW g, NEW p, NEW h, NEW r \in Nat, r <= Len(g), GatesOk(g), BodyOk(g, p, h, r),
         NEW e, GateOk(e), e.c = 0, NEW n, n = Len(g)
  PROVE  /\ GatesOk(Append(g, e)) /\ r <= Len(Append(g, e))
         /\ BodyOk(Append(g, e), Append(p, n), Append(h, <<n, "a">>), r)
<1> DEFINE u == Append(g, e)
           q == Append(p, n)
           a == <<n, "a">>
           d == <<n, "d">>
           w == <<a>>
<1>1. n \in Nat /\ IsList(h)
  BY ListIs DEF GatesOk, BodyOk, HandedOk
<1>2. GatesOk(u) /\ Len(u) = n + 1 /\ u[n + 1] = e /\ BodyOk(u, p, h, r)
  BY Grow
<1>3. /\ \A k \in 1 .. Len(h) : h[k][1] \in r .. n - 1
      /\ \A k \in 1 .. Len(p) : p[k] \in r .. n - 1
  BY DEF BodyOk, HandedOk, PoolOk
<1>4. IsList(w) /\ Len(w) = 1 /\ w[1] = a /\ a[1] = n /\ d[1] = n /\ a[2] = "a"
  BY Single
<1>5. Append(h, a) = h \o w
  BY <1>1, AppendIsConcat DEF IsList
<1> HIDE DEF u, q, w, a
<1>6. BodyOk(u, q, h, r)
  <2>1. \A k \in 1 .. Len(p) : p[k] # n
    BY <1>1, <1>3
  <2>2. \A k \in 1 .. Len(h) : h[k] # d
    BY <1>1, <1>3, <1>4
  <2>3. n \in r .. Len(u) - 1 /\ u[n + 1].c = 0
    BY <1>1, <1>2
  <2> QED
    BY <1>2, <2>1, <2>2, <2>3, Pooled DEF q
<1>7. BodyOk(u, q, h \o w, r)
  <2>1. n \in r .. Len(u) - 1 /\ \A k \in 1 .. Len(w) : w[k][1] = n
    BY <1>1, <1>2, <1>4
  <2>2. \A k, l \in 1 .. Len(w) : w[k] = w[l] => k = l
    BY <1>4
  <2>3. ASSUME NEW k \in 1 .. Len(w), NEW l \in 1 .. Len(h) PROVE w[k] # h[l]
    <3>1. w[k] = a /\ h[l][1] \in r .. n - 1
      BY <1>3, <1>4
    <3> QED
      BY <3>1, <1>1, <1>4
  <2>4. ASSUME NEW k \in 1 .. Len(w), NEW l \in 1 .. Len(q) PROVE w[k] # <<q[l], "d">>
    <3>1. w[k] = a /\ <<q[l], "d">>[2] = "d"
      BY <1>4
    <3> QED
      BY <3>1, <1>4
  <2> QED
    BY <1>4, <1>6, <2>1, <2>2, <2>3, <2>4, Given
<1>8. r <= Len(u)
  BY <1>1, <1>2
<1> QED
  BY <1>2, <1>5, <1>7, <1>8 DEF u, q, a

(* Nothing pooled or handed out.                                           *)
LEMMA Unused ==
  ASSUME NEW g, NEW r \in Nat
  PROVE  BodyOk(g, <<>>, <<>>, r)
<1>1. IsList(<<>>) /\ Len(<<>>) = 0
  <2>1. <<>> \in Seq({})
    OBVIOUS
  <2> QED
    BY <2>1, ListOf
<1>2. \A k \in 1 .. 0 : FALSE
  OBVIOUS
<1> QED
  BY <1>1, <1>2 DEF BodyOk, PoolOk, HandedOk, Unassigned

(* The builder reserves a stage: its wires are those of gates of its own.  *)
LEMMA StageReserved ==
  ASSUME NEW c, NEW d, NEW g, Chain(c), GuardsOk(c, d), GatesOk(g), Len(g) = SkipGates(c, Len(c) + 1),
         NEW s, StageOk(s), NEW taken, taken = AllocAll(NewAllocator(g), Zeroes(PaddedWiresOf(s)))
  PROVE  /\ Chain(Append(c, s)) /\ GuardsOk(Append(c, s), Append(d, SubSeq(taken.wires, 1, s.wires)))
         /\ GatesOk(taken.state.gates)
         /\ Len(taken.state.gates) = SkipGates(Append(c, s), Len(Append(c, s)) + 1)
<1> DEFINE n == NumGates(s)
           z == Zeroes(2 * n)
           m == Len(c)
           b == Len(g)
           C == Append(c, s)
           f == Filling(z, 2 * n)
           w == SubSeq(taken.wires, 1, s.wires)
           D == Append(d, w)
<1>1. n \in Nat /\ PaddedWiresOf(s) = 2 * n /\ s.wires \in Nat /\ s.wires <= 2 * n
  <2>1. n \in Nat /\ PaddedWiresOf(s) = 2 * n /\ s.values <= 2 * n
    BY StageGatesAre
  <2> QED
    BY <2>1 DEF StageOk
<1>2. /\ IsList(c) /\ IsList(d) /\ IsList(g) /\ m \in Nat /\ b \in Nat /\ Len(d) = m
      /\ \A k \in 1 .. m : StageOk(c[k])
      /\ \A k \in 1 .. b : GateOk(g[k])
      /\ \A i \in 1 .. m : d[i] = [k \in 1 .. c[i].wires |-> WireOf(SkipGates(c, i), k)]
  BY ListIs DEF Chain, GuardsOk, GatesOk
<1> HIDE DEF n
<1>3. Len(z) = 2 * n /\ \A k \in 1 .. 2 * n : z[k] = 0
  <2>1. DOMAIN z = 1 .. 2 * n /\ z = [k \in 1 .. 2 * n |-> z[k]] /\ \A k \in 1 .. 2 * n : z[k] = 0
    BY DEF Zeroes
  <2>2. 2 * n \in Nat
    BY <1>1
  <2> HIDE DEF z
  <2> QED
    BY <2>1, <2>2, TabledList
<1> HIDE DEF z
<1>4. taken = Filled(g, z, 2 * n)
  <2>1. 2 * n \in Nat /\ taken = AllocAll(NewAllocator(g), z)
    BY <1>1 DEF z
  <2> QED
    BY <2>1, <1>2, <1>3, AllocatesInTurn
<1>5. taken.state.gates = g \o f /\ taken.wires = [k \in 1 .. 2 * n |-> WireOf(b, k)]
  BY <1>4 DEF Filled
<1>6. IsList(f) /\ Len(f) = n /\ \A j \in 1 .. n : GateOk(f[j])
  <2>1. (2 * n + 1) \div 2 = n
    BY <1>1
  <2>2. f = [j \in 1 .. n |-> GateOf(z, 2 * n, j)]
    BY <2>1 DEF Filling
  <2>3. DOMAIN f = 1 .. n /\ f = [j \in 1 .. n |-> f[j]]
    BY <2>2
  <2>4. ASSUME NEW j \in 1 .. n PROVE GateOk(f[j])
    <3>1. 2 * j - 1 \in 1 .. 2 * n /\ 2 * j \in 1 .. 2 * n /\ 2 * j <= 2 * n
      BY <1>1
    <3>2. GateOf(z, 2 * n, j) = [a |-> 0, b |-> 0, c |-> 0, d |-> 0]
      BY <3>1, <1>3 DEF GateOf
    <3>3. f[j] = Gate(0, 0, 0)
      BY <2>2, <3>2 DEF Gate
    <3>4. Times(0, 0) = 0
      BY FieldFacts
    <3> QED
      BY <3>3, <3>4, GateIs
  <2> HIDE DEF f
  <2>5. IsList(f) /\ Len(f) = n
    BY <1>1, <2>3, TabledList
  <2> QED
    BY <2>4, <2>5
<1> HIDE DEF f
<1>7. /\ IsList(g \o f) /\ Len(g \o f) = b + n
      /\ \A k \in 1 .. b : (g \o f)[k] = g[k]
      /\ \A k \in 1 .. n : (g \o f)[b + k] = f[k]
  <2>1. /\ IsList(g \o f) /\ Len(g \o f) = Len(g) + Len(f)
        /\ DOMAIN (g \o f) = 1 .. Len(g) + Len(f)
        /\ \A k \in 1 .. Len(g) : (g \o f)[k] = g[k]
        /\ \A k \in 1 .. Len(f) : (g \o f)[Len(g) + k] = f[k]
    <3>1. IsList(g) /\ IsList(f)
      BY <1>2, <1>6
    <3> QED
      BY ONLY <3>1, Joined
  <2> QED
    BY <2>1, <1>6
<1>8. GatesOk(g \o f)
  <2>1. ASSUME NEW k \in 1 .. b + n PROVE GateOk((g \o f)[k])
    <3>1. k \in 1 .. b \/ (k - b \in 1 .. n /\ k = b + (k - b))
      BY <1>1, <1>2
    <3> QED
      BY <3>1, <1>2, <1>6, <1>7
  <2> QED
    BY <2>1, <1>7 DEF GatesOk
<1>9. /\ IsList(C) /\ Len(C) = m + 1
      /\ \A k \in 1 .. m : C[k] = c[k]
      /\ C[m + 1] = s
  BY <1>2, Appended
<1> HIDE DEF C
<1>10. Chain(C)
  <2>1. ASSUME NEW k \in 1 .. m + 1 PROVE StageOk(C[k])
    <3>1. k \in 1 .. m \/ k = m + 1
      BY <1>2
    <3> QED
      BY <3>1, <1>2, <1>9
  <2> QED
    BY <2>1, <1>9 DEF Chain
<1>11. ASSUME NEW i \in 1 .. m + 1 PROVE SkipGates(C, i) = SkipGates(c, i)
  <2>1. i \in 1 .. Len(C) + 1 /\ i <= Len(c) + 1 /\ \A k \in 1 .. i - 1 : C[k] = c[k]
    BY <1>2, <1>9
  <2> QED
    BY <2>1, <1>10, SkipGatesSame
<1>12. Len(g \o f) = SkipGates(C, Len(C) + 1)
  <2>1. m + 1 \in 1 .. Len(C)
    BY <1>2, <1>9
  <2>2. SkipGates(C, m + 1 + 1) = SkipGates(C, m + 1) + NumGates(C[m + 1])
    BY <2>1, <1>10, SkipGatesIs
  <2>3. SkipGates(C, m + 1) = b
    BY <1>2, <1>11
  <2> QED
    BY <2>2, <2>3, <1>7, <1>9 DEF n
<1>13. w = [k \in 1 .. s.wires |-> WireOf(b, k)]
  <2> DEFINE v == s.wires
             t == taken.wires
  <2>1. v \in Nat /\ v <= 2 * n /\ \A k \in 1 .. 2 * n : t[k] = WireOf(b, k)
    BY <1>1, <1>5
  <2>2. w = [k \in 1 .. v |-> t[k]]
    <3>1. 1 .. (v - 1) + 1 = 1 .. v
      BY <2>1
    <3>2. w = [k \in 1 .. (v - 1) + 1 |-> t[k + 1 - 1]]
      BY <2>1
    <3> HIDE DEF w, v, t
    <3>3. \A k \in 1 .. v : k + 1 - 1 = k
      BY <2>1
    <3> QED
      BY <3>1, <3>2, <3>3
  <2>3. \A k \in 1 .. v : t[k] = WireOf(b, k)
    BY <2>1, <1>1
  <2> HIDE DEF w, t
  <2> QED
    BY <2>2, <2>3
<1> HIDE DEF w
<1>14. /\ IsList(D) /\ Len(D) = m + 1
       /\ \A k \in 1 .. m : D[k] = d[k]
       /\ D[m + 1] = w
  BY <1>2, Appended
<1> HIDE DEF D
<1>15. GuardsOk(C, D)
  <2>1. ASSUME NEW i \in 1 .. m + 1
        PROVE  D[i] = [k \in 1 .. C[i].wires |-> WireOf(SkipGates(C, i), k)]
    <3>1. CASE i \in 1 .. m
      <4>1. D[i] = [k \in 1 .. c[i].wires |-> WireOf(SkipGates(c, i), k)]
        BY <3>1, <1>2, <1>14
      <4>2. C[i] = c[i] /\ SkipGates(C, i) = SkipGates(c, i)
        BY <3>1, <1>9, <1>11
      <4> QED
        BY <4>1, <4>2
    <3>2. CASE i = m + 1
      <4>1. D[i] = [k \in 1 .. s.wires |-> WireOf(b, k)]
        BY <3>2, <1>13, <1>14
      <4>2. C[i] = s /\ SkipGates(C, i) = b
        BY <3>2, <1>9, <1>11
      <4> QED
        BY <4>1, <4>2
    <3> QED
      BY <3>1, <3>2, <1>2
  <2> QED
    BY <2>1, <1>9, <1>14 DEF GuardsOk
<1> QED
  BY <1>5, <1>8, <1>10, <1>12, <1>15 DEF C, D, w
-----------------------------------------------------------------------------
(* The initial state: the SYSTEM gate and no stage.                        *)
LEMMA InitSInv == Init => SInv
<1> SUFFICES ASSUME Init PROVE SInv
  OBVIOUS
<1> DEFINE e == Gate(0, 0, 0)
<1>1. /\ stages = <<>> /\ guards = <<>> /\ gates = <<e>> /\ handed = <<>> /\ pool = <<>>
  BY DEF Init
<1>2. IsList(<<>>) /\ Len(<<>>) = 0
  <2>1. <<>> \in Seq({})
    OBVIOUS
  <2> QED
    BY <2>1, ListOf
<1>3. Chain(stages) /\ Len(stages) = 0
  BY <1>1, <1>2 DEF Chain
<1>4. GuardsOk(stages, guards)
  BY <1>1, <1>2 DEF GuardsOk
<1>5. GateOk(e)
  <2>1. Times(0, 0) = 0
    BY FieldFacts
  <2> QED
    BY <2>1, GateIs
<1> HIDE DEF e
<1>6. GatesOk(gates) /\ Len(gates) = 1
  BY <1>1, <1>5, Single DEF GatesOk
<1>7. Reserved = 1
  BY <1>3, SkipGatesIs DEF Reserved
<1>8. BodyOk(gates, pool, handed, Reserved)
  BY <1>1, <1>7, Unused
<1> QED
  BY <1>1, <1>3, <1>4, <1>6, <1>7, <1>8 DEF SInv

(* What a call of the body leaves as it was.                               *)
LEMMA BodyStep ==
  ASSUME SInv, phase = "body", phase' = phase, stages' = stages, guards' = guards,
         GatesOk(gates)', Reserved <= Len(gates'), BodyOk(gates', pool', handed', Reserved)
  PROVE  SInv'
<1>1. Reserved' = Reserved
  BY DEF Reserved
<1>2. Chain(stages)' /\ GuardsOk(stages, guards)'
  BY DEF SInv, Chain, GuardsOk
<1> QED
  BY <1>1, <1>2 DEF SInv, Chain, GuardsOk, GatesOk, BodyOk

(* Every action keeps it.                                                  *)
LEMMA NextSInv == SInv /\ [Next]_vars => SInv'
<1> SUFFICES ASSUME SInv, [Next]_vars PROVE SInv'
  OBVIOUS
<1>1. Reserved \in Nat /\ Len(stages) \in Nat
  <2>1. Len(stages) \in Nat /\ Chain(stages)
    BY ListIs DEF SInv, Chain
  <2>2. Len(stages) + 1 \in 1 .. Len(stages) + 1
    BY <2>1
  <2> QED
    BY <2>1, <2>2, SkipGatesIs DEF Reserved
<1>2. CASE UNCHANGED vars
  BY <1>2 DEF SInv, vars, Chain, GuardsOk, GatesOk, BodyOk, Reserved
<1>3. ASSUME NEW stage \in StageTypes, AddStage(stage) PROVE SInv'
  <2> DEFINE taken == AllocAll(NewAllocator(gates), Zeroes(PaddedWiresOf(stage)))
  <2>1. /\ phase = "stages" /\ handed = <<>> /\ pool = <<>> /\ Len(gates) = Reserved
        /\ pool' = pool /\ handed' = handed
    BY <1>3 DEF SInv, AddStage
  <2>2. CASE stage.wires > stage.values
    <3>1. phase' = "refused" /\ UNCHANGED <<stages, guards, gates>>
      BY <1>3, <2>2 DEF AddStage
    <3> QED
      BY <2>1, <3>1 DEF SInv, Chain, GuardsOk, GatesOk, BodyOk, Reserved
  <2>3. CASE ~(stage.wires > stage.values)
    <3>1. /\ stages' = Append(stages, stage)
          /\ guards' = Append(guards, SubSeq(taken.wires, 1, stage.wires))
          /\ gates' = taken.state.gates
          /\ phase' = phase
      BY <1>3, <2>3 DEF AddStage
    <3>2. StageOk(stage)
      <4>1. stage \in [values : Nat, wires : Nat]
        BY StagingAssumption
      <4>2. stage.values \in Nat /\ stage.wires \in Nat
        BY <4>1
      <4> QED
        BY <2>3, <4>2 DEF StageOk
    <3>3. Chain(stages) /\ GuardsOk(stages, guards) /\ GatesOk(gates) /\ Len(gates) = SkipGates(stages, Len(stages) + 1)
      BY <2>1 DEF SInv, Reserved
    <3>4. taken = AllocAll(NewAllocator(gates), Zeroes(PaddedWiresOf(stage)))
      OBVIOUS
    <3> HIDE DEF taken
    <3>5. /\ Chain(stages') /\ GuardsOk(stages', guards') /\ GatesOk(gates')
          /\ Len(gates') = SkipGates(stages', Len(stages') + 1)
      BY <3>1, <3>2, <3>3, <3>4, StageReserved
    <3>6. Reserved' = Len(gates') /\ Len(gates') \in Nat
      BY <3>5, ListIs DEF Reserved, GatesOk
    <3>7. BodyOk(gates', pool', handed', Reserved')
      BY <2>1, <3>6, Unused
    <3> QED
      BY <2>1, <3>5, <3>6, <3>7 DEF SInv, Chain, GuardsOk, GatesOk, BodyOk
  <2> QED
    BY <2>2, <2>3
<1>4. ASSUME Finish PROVE SInv'
  BY <1>4 DEF Finish, SInv, Chain, GuardsOk, GatesOk, BodyOk, Reserved
<1>5. ASSUME NEW v \in {1, 2}, BodyAlloc(v) PROVE SInv'
  <2> DEFINE next == AllocStandard([gates |-> gates, pool |-> pool, wire |-> ONE], v)
  <2>1. /\ phase = "body" /\ UNCHANGED <<stages, guards, phase>>
        /\ gates' = next.gates /\ pool' = next.pool /\ handed' = Append(handed, next.wire)
    BY <1>5 DEF BodyAlloc, Call
  <2>2. v \in Nat /\ next = AllocStandard([gates |-> gates, pool |-> pool, wire |-> ONE], v)
    OBVIOUS
  <2> HIDE DEF next
  <2>3. /\ GatesOk(next.gates) /\ Reserved <= Len(next.gates)
        /\ BodyOk(next.gates, next.pool, Append(handed, next.wire), Reserved)
    BY <1>1, <2>2, StandardStep DEF SInv
  <2> QED
    BY <2>1, <2>3, BodyStep DEF GatesOk
<1>6. ASSUME NEW v \in {0, 1}, BooleanAlloc(v) PROVE SInv'
  <2> DEFINE e == Gate(v, Minus(1, v), 0)
             n == Len(gates)
  <2>1. /\ phase = "body" /\ UNCHANGED <<stages, guards, phase>>
        /\ gates' = Append(gates, e) /\ pool' = Append(pool, n) /\ handed' = Append(handed, <<n, "a">>)
    BY <1>6 DEF BooleanAlloc, Call, Donate
  <2>2. GateOk(e) /\ e.c = 0
    <3>1. Minus(1, v) \in Nat /\ Times(v, Minus(1, v)) = 0
      BY FieldFacts
    <3>2. v \in Nat
      OBVIOUS
    <3> QED
      BY <3>1, <3>2, GateIs
  <2> HIDE DEF e
  <2>3. /\ GatesOk(Append(gates, e)) /\ Reserved <= Len(Append(gates, e))
        /\ BodyOk(Append(gates, e), Append(pool, n), Append(handed, <<n, "a">>), Reserved)
    BY <1>1, <2>2, BooleanStep DEF SInv
  <2> QED
    BY <2>1, <2>3, BodyStep DEF GatesOk
<1>7. ASSUME Mul(2, 3) PROVE SInv'
  <2> DEFINE e == Gate(2, 3, Times(2, 3))
             n == Len(gates)
  <2>1. /\ phase = "body" /\ UNCHANGED <<stages, guards, phase>>
        /\ gates' = Append(gates, e) /\ pool' = pool
        /\ handed' = handed \o << <<n, "a">>, <<n, "b">>, <<n, "c">> >>
    BY <1>7 DEF Mul, Call
  <2>2. GateOk(e)
    <3>1. Times(2, 3) \in Nat
      BY FieldFacts
    <3> QED
      BY <3>1, GateIs
  <2> HIDE DEF e
  <2>3. /\ GatesOk(Append(gates, e)) /\ Reserved <= Len(Append(gates, e))
        /\ BodyOk(Append(gates, e), pool, handed \o << <<n, "a">>, <<n, "b">>, <<n, "c">> >>, Reserved)
    BY <1>1, <2>2, MulStep DEF SInv
  <2> QED
    BY <2>1, <2>3, BodyStep DEF GatesOk
<1>8. ASSUME UNCHANGED <<stages, guards, gates, pool, handed, phase>> PROVE SInv'
  BY <1>8 DEF SInv, Chain, GuardsOk, GatesOk, BodyOk, Reserved
<1>9. ASSUME Constant(2) PROVE SInv'
  BY <1>8, <1>9 DEF Constant
<1>10. ASSUME NEW lc, Add(lc) \/ EnforceZero(lc) PROVE SInv'
  BY <1>8, <1>10 DEF Add, EnforceZero
<1> QED
  BY <1>2, <1>3, <1>4, <1>5, <1>6, <1>7, <1>9, <1>10 DEF Next

(* Wires of Standard's are told apart by their number.                     *)
LEMMA WiresDiffer ==
  ASSUME NEW b \in Nat, NEW k \in Nat \ {0}, NEW l \in Nat \ {0}, WireOf(b, k) = WireOf(b, l)
  PROVE  k = l
<1>1. (k - 1) \div 2 = (l - 1) \div 2 /\ (k % 2 = 1 <=> l % 2 = 1)
  <2>1. /\ WireOf(b, k)[1] = b + ((k - 1) \div 2) /\ WireOf(b, l)[1] = b + ((l - 1) \div 2)
        /\ WireOf(b, k)[2] = (IF k % 2 = 1 THEN "a" ELSE "d")
        /\ WireOf(b, l)[2] = (IF l % 2 = 1 THEN "a" ELSE "d")
    BY DEF WireOf
  <2>2. (k - 1) \div 2 \in Nat /\ (l - 1) \div 2 \in Nat
    OBVIOUS
  <2>3. b + ((k - 1) \div 2) = b + ((l - 1) \div 2)
    BY <2>1
  <2> QED
    BY <2>1, <2>2, <2>3
<1> QED
  BY <1>1

(* The wires of two stages are apart, and no stage reaches the body.       *)
LEMMA StagesApart ==
  ASSUME NEW c, NEW d, Chain(c), GuardsOk(c, d)
  PROVE  /\ \A i \in 1 .. Len(c) : \A k \in 1 .. c[i].wires :
              /\ d[i][k] = WireOf(SkipGates(c, i), k)
              /\ d[i][k][1] \in SkipGates(c, i) .. SkipGates(c, i) + NumGates(c[i]) - 1
              /\ d[i][k][1] < SkipGates(c, Len(c) + 1)
         /\ \A i, j \in 1 .. Len(c) : \A k \in 1 .. c[i].wires, l \in 1 .. c[j].wires :
              d[i][k] = d[j][l] => i = j /\ k = l
<1>1. Len(c) \in Nat
  BY ListIs DEF Chain
<1>2. ASSUME NEW i \in 1 .. Len(c)
      PROVE  /\ SkipGates(c, i) \in Nat \ {0} /\ c[i].wires \in Nat /\ NumGates(c[i]) \in Nat
             /\ SkipGates(c, i) + NumGates(c[i]) <= SkipGates(c, Len(c) + 1)
             /\ SkipGates(c, Len(c) + 1) \in Nat
             /\ \A k \in 1 .. c[i].wires : (k - 1) \div 2 \in 0 .. NumGates(c[i]) - 1
  <2>1. i \in 1 .. Len(c) + 1 /\ Len(c) + 1 \in i + 1 .. Len(c) + 1 /\ Len(c) + 1 \in 1 .. Len(c) + 1
    BY <1>1
  <2>2. StageOk(c[i])
    BY DEF Chain
  <2>3. SkipGates(c, i) \in Nat \ {0} /\ SkipGates(c, Len(c) + 1) \in Nat
    BY <2>1, SkipGatesIs
  <2>4. NumGates(c[i]) \in Nat /\ \A k \in 1 .. c[i].wires : (k - 1) \div 2 \in 0 .. NumGates(c[i]) - 1
    BY <2>2, StageGatesAre
  <2>5. SkipGates(c, i) + NumGates(c[i]) <= SkipGates(c, Len(c) + 1)
    BY <2>1, SkipGrows
  <2> QED
    BY <2>2, <2>3, <2>4, <2>5 DEF StageOk
<1>3. ASSUME NEW i \in 1 .. Len(c), NEW k \in 1 .. c[i].wires
      PROVE  /\ d[i][k] = WireOf(SkipGates(c, i), k)
             /\ d[i][k][1] \in SkipGates(c, i) .. SkipGates(c, i) + NumGates(c[i]) - 1
             /\ d[i][k][1] < SkipGates(c, Len(c) + 1)
  <2>1. d[i][k] = WireOf(SkipGates(c, i), k)
    BY DEF GuardsOk
  <2>2. d[i][k][1] = SkipGates(c, i) + ((k - 1) \div 2)
    BY <2>1 DEF WireOf
  <2>3. (k - 1) \div 2 \in 0 .. NumGates(c[i]) - 1
    BY <1>2
  <2> QED
    BY <2>1, <2>2, <2>3, <1>2
<1>4. ASSUME NEW i \in 1 .. Len(c), NEW j \in 1 .. Len(c), i < j,
             NEW k \in 1 .. c[i].wires, NEW l \in 1 .. c[j].wires, d[i][k] = d[j][l]
      PROVE  FALSE
  <2>1. j \in i + 1 .. Len(c) + 1
    BY <1>1, <1>4
  <2>2. SkipGates(c, i) + NumGates(c[i]) <= SkipGates(c, j)
    BY <2>1, SkipGrows
  <2>3. /\ d[i][k][1] \in SkipGates(c, i) .. SkipGates(c, i) + NumGates(c[i]) - 1
        /\ d[j][l][1] \in SkipGates(c, j) .. SkipGates(c, j) + NumGates(c[j]) - 1
    BY <1>3
  <2>4. SkipGates(c, i) \in Nat /\ NumGates(c[i]) \in Nat /\ SkipGates(c, j) \in Nat /\ NumGates(c[j]) \in Nat
    BY <1>2
  <2>5. ASSUME NEW x, NEW S1 \in Nat, NEW N1 \in Nat, NEW S2 \in Nat, NEW N2 \in Nat,
               x \in S1 .. S1 + N1 - 1, x \in S2 .. S2 + N2 - 1, S1 + N1 <= S2
        PROVE  FALSE
    BY <2>5
  <2>6. d[i][k][1] = d[j][l][1]
    BY <1>4
  <2> QED
    BY ONLY <2>2, <2>3, <2>4, <2>5, <2>6
<1>5. ASSUME NEW i \in 1 .. Len(c), NEW j \in 1 .. Len(c),
             NEW k \in 1 .. c[i].wires, NEW l \in 1 .. c[j].wires, d[i][k] = d[j][l]
      PROVE  i = j /\ k = l
  <2>1. i = j
    <3>1. i < j \/ j < i \/ i = j
      OBVIOUS
    <3> QED
      BY <3>1, <1>4, <1>5
  <2>2. WireOf(SkipGates(c, i), k) = WireOf(SkipGates(c, i), l)
    BY <2>1, <1>3, <1>5
  <2>3. k \in Nat \ {0} /\ l \in Nat \ {0} /\ SkipGates(c, i) \in Nat
    BY <2>1, <1>2
  <2> QED
    BY <2>1, <2>2, <2>3, WiresDiffer
<1> QED
  BY <1>3, <1>5

(* What the invariant says of the property's parts.                        *)
LEMMA SInvHolds ==
  ASSUME SInv, NEW i \in DOMAIN stages, NEW data \in Witnesses, Len(data) = stages[i].wires
  PROVE  HoldsValues(i, data)
<1> DEFINE skip == SkipGates(stages, i)
           size == stages[i].values
           g    == StageGates(stages, i, Alpha, data)
           n    == stages[i].wires
           given == { guards[i][k] : k \in DOMAIN guards[i] }
<1>1. /\ Chain(stages) /\ GuardsOk(stages, guards) /\ Len(stages) \in Nat /\ i \in 1 .. Len(stages)
      /\ DOMAIN guards = 1 .. Len(stages)
  BY ListIs DEF SInv, Chain, GuardsOk
<1>2. skip \in Nat \ {0}
  <2>1. i \in 1 .. Len(stages) + 1
    BY <1>1
  <2> QED
    BY <1>1, <2>1, SkipGatesIs
<1>3. size \in Nat /\ n \in Nat /\ n <= size
  BY <1>1 DEF Chain, StageOk
<1>4. guards[i] = [m \in 1 .. n |-> WireOf(skip, m)]
  BY <1>1 DEF GuardsOk
<1>5. IsList(data)
  <2>1. data \in Seq(F)
    BY StagingAssumption
  <2> QED
    BY <2>1, ListOf
<1>6. g = AllocAll(NewAllocator(<<>>), Laid(skip, Alpha, data, size)).state.gates
  BY DEF StageGates, Laid
<1>7. HoldsValues(i, data) <=>
        /\ ValueAt(g, <<0, "a">>) = Alpha
        /\ \A k \in DOMAIN guards[i] : ValueAt(g, guards[i][k]) = data[k]
        /\ \A wire \in ((0 .. Len(gates) + 1) \X Slots) \ given :
             wire # <<0, "a">> => ValueAt(g, wire) = 0
  BY DEF HoldsValues, ValueAt
<1> HIDE DEF g, skip, size, n
<1>8. /\ ValueAt(g, <<0, "a">>) = Alpha
      /\ \A m \in 1 .. n : ValueAt(g, WireOf(skip, m)) = data[m]
      /\ \A q \in Nat, slot \in Slots :
           (<<q, slot>> # <<0, "a">> /\ \A m \in 1 .. n : <<q, slot>> # WireOf(skip, m))
             => ValueAt(g, <<q, slot>>) = 0
  <2>1. Len(data) = n
    BY DEF n
  <2>2. /\ skip \in Nat \ {0} /\ IsList(data) /\ size \in Nat /\ Len(data) <= size
        /\ g = AllocAll(NewAllocator(<<>>), Laid(skip, Alpha, data, size)).state.gates
    BY <1>2, <1>3, <1>5, <1>6, <2>1
  <2>3. Prepared(g, skip, Alpha, data)
    BY ONLY <2>2, StageHolds
  <2> QED
    BY ONLY <2>1, <2>3 DEF Prepared
<1>9. \A k \in DOMAIN guards[i] : ValueAt(g, guards[i][k]) = data[k]
  BY <1>4, <1>8
<1>10. ASSUME NEW wire \in ((0 .. Len(gates) + 1) \X Slots) \ given, wire # <<0, "a">>
       PROVE  ValueAt(g, wire) = 0
  <2>1. PICK q \in 0 .. Len(gates) + 1, slot \in Slots : wire = <<q, slot>>
    BY <1>10
  <2>2. q \in Nat
    <3>1. Len(gates) \in Nat
      BY ListIs DEF SInv, GatesOk
    <3> QED
      BY <3>1
  <2>3. \A m \in 1 .. n : wire # WireOf(skip, m)
    BY <1>4, <1>10
  <2> QED
    BY <1>8, <1>10, <2>1, <2>2, <2>3
<1> QED
  BY <1>7, <1>8, <1>9, <1>10

(* The invariant implies the property.                                     *)
LEMMA SInvKeeps == SInv => StagesKeepTheirWires
<1> SUFFICES ASSUME SInv PROVE StagesKeepTheirWires
  OBVIOUS
<1>1. /\ Chain(stages) /\ GuardsOk(stages, guards) /\ GatesOk(gates) /\ BodyOk(gates, pool, handed, Reserved)
  BY DEF SInv
<1>2. \A i \in DOMAIN stages, data \in Witnesses : Len(data) = stages[i].wires => HoldsValues(i, data)
  BY SInvHolds
<1>3. \A k \in DOMAIN gates : Satisfied(gates[k])
  BY <1>1, ListIs DEF GatesOk, GateOk
<1>4. /\ DOMAIN guards = 1 .. Len(stages)
      /\ \A i \in 1 .. Len(stages) : DOMAIN guards[i] = 1 .. stages[i].wires
  BY <1>1, ListIs DEF GuardsOk
<1>5. /\ \A i \in 1 .. Len(stages) : \A k \in 1 .. stages[i].wires : guards[i][k][1] < Reserved
      /\ \A i, j \in 1 .. Len(stages) : \A k \in 1 .. stages[i].wires, l \in 1 .. stages[j].wires :
           guards[i][k] = guards[j][l] => i = j /\ k = l
  BY <1>1, StagesApart DEF Reserved
<1>6. /\ \A k, l \in DOMAIN handed : handed[k] = handed[l] => k = l
      /\ \A k \in DOMAIN handed : handed[k][1] >= Reserved
  <2>1. /\ DOMAIN handed = 1 .. Len(handed)
        /\ \A k \in 1 .. Len(handed) : handed[k][1] \in Reserved .. Len(gates) - 1
        /\ \A k, l \in 1 .. Len(handed) : handed[k] = handed[l] => k = l
    BY <1>1, ListIs DEF BodyOk, HandedOk
  <2>2. Reserved \in Nat /\ Len(gates) \in Nat
    <3>1. Len(stages) \in Nat /\ Len(gates) \in Nat
      BY <1>1, ListIs DEF Chain, GatesOk
    <3>2. Len(stages) + 1 \in 1 .. Len(stages) + 1
      BY <3>1
    <3> QED
      BY <1>1, <3>1, <3>2, SkipGatesIs DEF Reserved
  <2> QED
    BY <2>1, <2>2
<1>7. NoWireTwice
  <2>1. ASSUME NEW i \in DOMAIN guards, NEW j \in DOMAIN guards,
               NEW k \in DOMAIN guards[i], NEW l \in DOMAIN guards[j], guards[i][k] = guards[j][l]
        PROVE  i = j /\ k = l
    <3>1. /\ i \in 1 .. Len(stages) /\ j \in 1 .. Len(stages)
          /\ k \in 1 .. stages[i].wires /\ l \in 1 .. stages[j].wires
      BY <1>4
    <3> QED
      BY <3>1, <2>1, <1>5
  <2>2. \A i \in DOMAIN guards : \A k \in DOMAIN guards[i] : guards[i][k][1] < Reserved
    BY <1>4, <1>5
  <2> QED
    BY <1>6, <2>1, <2>2 DEF NoWireTwice, Reserved
<1> QED
  BY <1>2, <1>3, <1>7 DEF StagesKeepTheirWires

(* For every field, every stages a circuit is made of and every body, a    *)
(* stage's polynomial holds the gadget's values at the wires the circuit   *)
(* got as the stage's and alpha in the SYSTEM gate, and is zero elsewhere; *)
(* no wire is given out twice, not by an allocator that takes donations    *)
(* either, and none of the body's is a stage's; every gate is satisfied    *)
(* (rx_configured, configure_stage, Standard::alloc, Standard::donate).    *)
THEOREM StagesKept == Spec => []StagesKeepTheirWires
<1>1. Init => SInv
  BY InitSInv
<1>2. SInv /\ [Next]_vars => SInv'
  BY NextSInv
<1>3. SInv => StagesKeepTheirWires
  BY SInvKeeps
<1> QED
  BY <1>1, <1>2, <1>3, PTL DEF Spec
=============================================================================
