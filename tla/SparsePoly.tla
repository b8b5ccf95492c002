----------------------------- MODULE SparsePoly -----------------------------
(***************************************************************************)
(* Block-compressed sparse polynomials (polynomials/sparse/mod.rs), the    *)
(* views they are built from (view.rs), and the gate polynomial t(X, Z)    *)
(* (polynomials/mod.rs, txz.rs).  A polynomial is a sequence of blocks     *)
(* <<start, values>>; degrees count from 0.                                *)
(***************************************************************************)
EXTENDS Polys
LOCAL INSTANCE SequencesExt

CONSTANT GAP_TOLERANCE    \* 4 in the code
ASSUME GapAssumption == GAP_TOLERANCE \in Nat

StartOf(block) == block[1]
EndOf(block)   == block[1] + Len(block[2])

(* Polynomial::assert_invariants.                                          *)
InvariantsHold(blocks) ==
  /\ \A i \in DOMAIN blocks : blocks[i][2] # <<>> /\ EndOf(blocks[i]) <= NumCoeffs
  /\ \A i \in 2 .. Len(blocks) : StartOf(blocks[i]) >= EndOf(blocks[i - 1])

ZeroRun(k) == [i \in 1 .. k |-> 0]

(* One coefficient of the run splitter: st.start is -1 outside a run, and  *)
(* zeros are held back until a nonzero coefficient follows.                *)
RunStep(st, degree, coeff) ==
  CASE st.start = -1 /\ coeff = 0 -> st
    [] st.start = -1 /\ coeff # 0 -> [st EXCEPT !.start = degree, !.run = <<coeff>>]
    [] st.start # -1 /\ coeff # 0 ->
         [st EXCEPT !.run = @ \o ZeroRun(st.zeros) \o <<coeff>>, !.zeros = 0]
    [] st.start # -1 /\ coeff = 0 ->
         IF st.zeros + 1 > GAP_TOLERANCE
           THEN [out |-> Append(st.out, <<st.start, st.run>>), start |-> -1, run |-> <<>>,
                 zeros |-> 0]
           ELSE [st EXCEPT !.zeros = @ + 1]

ExtendRuns(out, base, data) ==
  LET scan[i \in 0 .. Len(data)] ==
        IF i = 0 THEN [out |-> out, start |-> -1, run |-> <<>>, zeros |-> 0]
                 ELSE RunStep(scan[i - 1], base + i - 1, data[i])
      last == scan[Len(data)]
  IN  IF last.start = -1 THEN last.out ELSE Append(last.out, <<last.start, last.run>>)

FromCoeffs(coeffs) == ExtendRuns(<<>>, 0, coeffs)
DenseBlock(coeffs) == << <<0, coeffs>> >>           \* Polynomial::random

(* The coefficient a block list stores at a degree.                        *)
StoredAt(blocks, degree) ==
  LET at == { i \in DOMAIN blocks : StartOf(blocks[i]) <= degree /\ degree < EndOf(blocks[i]) }
  IN  IF at = {} THEN 0
      ELSE LET b == blocks[CHOOSE i \in at : TRUE] IN b[2][degree - b[1] + 1]

FirstOf(set) == CHOOSE i \in set : \A j \in set : i <= j
LastOf(set)  == CHOOSE i \in set : \A j \in set : i >= j

(* CoeffIter: it reads a coefficient from the front or from the back; the  *)
(* two block cursors only ever move towards each other.                    *)
NewIter(blocks) == [front |-> 0, back |-> NumCoeffs, fblock |-> 1, bblock |-> Len(blocks)]

IterNext(blocks, it) ==
  LET ahead == { i \in it.fblock .. Len(blocks) : EndOf(blocks[i]) > it.front }
      fb    == FirstOf(ahead \union {Len(blocks) + 1})
      val   == IF fb <= Len(blocks) /\ it.front >= StartOf(blocks[fb])
                 THEN blocks[fb][2][it.front - StartOf(blocks[fb]) + 1] ELSE 0
  IN  [it |-> [it EXCEPT !.front = @ + 1, !.fblock = fb], val |-> val]

(* Mutant of BlockBehind: the first degree of a block is not in it.        *)
BlockBehindStrict(blocks, bblock, back) ==
  LastOf({0} \union { i \in 1 .. bblock : StartOf(blocks[i]) < back })
(* The last block up to bblock that starts no later than back, or 0.       *)
BlockBehind(blocks, bblock, back) ==
  LastOf({0} \union { i \in 1 .. bblock : StartOf(blocks[i]) <= back })

IterNextBack(blocks, it) ==
  LET back == it.back - 1
      bb   == BlockBehind(blocks, it.bblock, back)
      val  == IF bb > 0 /\ back < EndOf(blocks[bb])
                THEN blocks[bb][2][back - StartOf(blocks[bb]) + 1] ELSE 0
  IN  [it |-> [it EXCEPT !.back = back, !.bblock = bb], val |-> val]

(* Every coefficient, front to back.                                       *)
IterCoeffs(blocks) ==
  LET read[k \in 0 .. NumCoeffs] ==
        IF k = 0 THEN [it |-> NewIter(blocks), out |-> <<>>]
        ELSE LET prev == read[k - 1]
                 r    == IterNext(blocks, prev.it)
             IN  [it |-> r.it, out |-> Append(prev.out, r.val)]
  IN  read[NumCoeffs].out
-----------------------------------------------------------------------------
Apply(op, a, b) == IF op = "add" THEN Plus(a, b) ELSE Minus(a, b)

(* The blocks of both sides from li and ri on that overlap or touch        *)
(* [.., end): the cluster grows until neither side extends it.             *)
Cluster(lhs, rhs, li, ri, start) ==
  LET grow[k \in 0 .. Len(lhs) + Len(rhs)] ==
        IF k = 0 THEN [li |-> li, ri |-> ri, end |-> start]
        ELSE LET c == grow[k - 1]
                 l == c.li <= Len(lhs) /\ lhs[c.li][1] <= c.end
                 r == c.ri <= Len(rhs) /\ rhs[c.ri][1] <= c.end
                 higher(e) == IF e > c.end THEN e ELSE c.end
             IN  CASE l -> [c EXCEPT !.li = @ + 1, !.end = higher(EndOf(lhs[c.li]))]
                   [] ~l /\ r -> [c EXCEPT !.ri = @ + 1, !.end = higher(EndOf(rhs[c.ri]))]
                   [] ~l /\ ~r -> c
  IN  grow[Len(lhs) + Len(rhs)]

(* One cluster merged and compressed again; a cluster of the left side     *)
(* alone passes through, and a dense full-length one is kept as it is.     *)
MergeCluster(lhs, rhs, op, li, ri, out) ==
  LET start == CASE li > Len(lhs) -> rhs[ri][1]
                 [] ri > Len(rhs) -> lhs[li][1]
                 [] OTHER -> IF lhs[li][1] <= rhs[ri][1] THEN lhs[li][1] ELSE rhs[ri][1]
      c     == Cluster(lhs, rhs, li, ri, start)
      left  == SubSeq(lhs, li, c.li - 1)
      right == SubSeq(rhs, ri, c.ri - 1)
      data  == [i \in 1 .. c.end - start |->
                  Apply(op, StoredAt(left, start + i - 1), StoredAt(right, start + i - 1))]
  IN  [li |-> c.li, ri |-> c.ri,
       out |-> CASE right = <<>> -> out \o left
                 [] right # <<>> /\ start = 0 /\ Len(data) = NumCoeffs ->
                      Append(out, <<0, data>>)
                 [] OTHER -> ExtendRuns(out, start, data)]

CombineAssign(lhs, rhs, op) ==
  LET onto_zero[k \in 0 .. Len(rhs)] ==
        IF k = 0 THEN <<>>
        ELSE ExtendRuns(onto_zero[k - 1], rhs[k][1],
                        [i \in DOMAIN rhs[k][2] |-> Apply(op, 0, rhs[k][2][i])])
      merge[k \in 0 .. Len(lhs) + Len(rhs)] ==
        IF k = 0 THEN [li |-> 1, ri |-> 1, out |-> <<>>]
        ELSE IF merge[k - 1].li > Len(lhs) /\ merge[k - 1].ri > Len(rhs) THEN merge[k - 1]
        ELSE MergeCluster(lhs, rhs, op, merge[k - 1].li, merge[k - 1].ri, merge[k - 1].out)
  IN  CASE rhs = <<>> -> lhs
        [] rhs # <<>> /\ lhs = <<>> -> onto_zero[Len(rhs)]
        [] OTHER -> merge[Len(lhs) + Len(rhs)].out

Mapped(blocks, by) ==                                         \* apply_all
  [b \in DOMAIN blocks |-> <<blocks[b][1], [i \in DOMAIN blocks[b][2] |->
                                              Times(blocks[b][2][i], by)]>>]
Scale(blocks, by) == IF by = 0 THEN <<>> ELSE Mapped(blocks, by)
Negate(blocks)    == Mapped(blocks, P - 1)

(* Horner over polynomials: the first one gets the highest power.          *)
FoldPolys(polys, scale_factor) ==
  FoldLeft(LAMBDA acc, p : CombineAssign(Scale(acc, scale_factor), p, "add"), <<>>, polys)

(* Horner block by block, from the last; the gaps are powers of z.         *)
EvalSparse(blocks, z) ==
  LET below[b \in 1 .. Len(blocks) + 1] ==       \* the value down to block b's start
        IF b = Len(blocks) + 1 THEN 0
        ELSE LET next == IF b = Len(blocks) THEN NumCoeffs ELSE StartOf(blocks[b + 1])
             IN  FoldRight(LAMBDA c, acc : Plus(Times(acc, z), c), blocks[b][2],
                           Times(below[b + 1], Power(z, next - EndOf(blocks[b]))))
  IN  IF blocks = <<>> THEN 0 ELSE Times(below[1], Power(z, StartOf(blocks[1])))

(* p(zX): a running power that jumps over the gaps.                        *)
Dilate(blocks, z) ==
  LET at[b \in 1 .. Len(blocks)] ==              \* the power of z at block b's start
        IF b = 1 THEN Power(z, StartOf(blocks[1]))
        ELSE Times(Times(at[b - 1], Power(z, Len(blocks[b - 1][2]))),
                   Power(z, StartOf(blocks[b]) - EndOf(blocks[b - 1])))
  IN  [b \in DOMAIN blocks |->
         <<blocks[b][1], [i \in DOMAIN blocks[b][2] |->
                            Times(blocks[b][2][i], Times(at[b], Power(z, i - 1)))]>>]

(* Mutant of Passed: on a tie only the left block is passed.               *)
PassedLeftFirst(a_end, rev_hi) ==
  [left |-> a_end <= rev_hi, right |-> rev_hi < a_end /\ rev_hi + 1 < a_end]

(* Which of the two current blocks revdot has done with.                   *)
Passed(a_end, rev_hi) == [left |-> a_end <= rev_hi, right |-> rev_hi <= a_end]

(* Two pointers, up p's blocks and down q's.                               *)
Revdot(p, q) ==
  LET step[k \in 0 .. Len(p) + Len(q)] ==
        IF k = 0 THEN [i |-> 1, j |-> Len(q), acc |-> 0]
        ELSE LET s == step[k - 1]
             IN  IF s.i > Len(p) \/ s.j < 1 THEN s
                 ELSE LET rev_lo == NumCoeffs - EndOf(q[s.j])
                          rev_hi == NumCoeffs - StartOf(q[s.j])
                          over == { d \in StartOf(p[s.i]) .. EndOf(p[s.i]) - 1 :
                                      rev_lo <= d /\ d < rev_hi }
                          dots == [k1 \in 1 .. NumCoeffs |->
                                     IF k1 - 1 \in over
                                       THEN Times(p[s.i][2][k1 - p[s.i][1]],
                                                  q[s.j][2][NumCoeffs - k1 - q[s.j][1] + 1])
                                       ELSE 0]
                          done == Passed(EndOf(p[s.i]), rev_hi)
                      IN  [i |-> IF done.left THEN s.i + 1 ELSE s.i,
                           j |-> IF done.right THEN s.j - 1 ELSE s.j,
                           acc |-> FoldLeft(Plus, s.acc, dots)]
  IN  step[Len(p) + Len(q)].acc

(* The coefficients and the generators they go with, block by block.       *)
Commit(blocks, g) ==
  Msm(FlattenSeq([b \in DOMAIN blocks |-> blocks[b][2]]),
      FlattenSeq([b \in DOMAIN blocks |-> SubSeq(g, blocks[b][1] + 1, EndOf(blocks[b]))]))
-----------------------------------------------------------------------------
(* Views: four wire buffers by gate, mapped to degrees.                    *)
TraceBlocks(a, b, c, d) ==
  SelectSeq(<< <<0, c>>, <<2 * N - Len(a), Reverse(a)>>, <<2 * N, b>>,
               <<4 * N - Len(d), Reverse(d)>> >>, LAMBDA block : block[2] # <<>>)
WiringBlocks(a, b, c, d) == TraceBlocks(b, a, d, c)

Build(raw) == FoldLeft(LAMBDA out, block : ExtendRuns(out, block[1], block[2]), <<>>, raw)
BuildTrace(v)  == Build(TraceBlocks(v.a, v.b, v.c, v.d))
BuildWiring(v) == Build(WiringBlocks(v.a, v.b, v.c, v.d))
-----------------------------------------------------------------------------
(* t(X, z), t(x, Z) and t(x, z).                                           *)
None4 == [a |-> <<>>, b |-> <<>>, c |-> <<>>, d |-> <<>>]

Tz(z) ==
  LET zpow == Power(z, 2 * N)
      term(i) == Minus(0, Plus(Times(zpow, Power(Reciprocal(z), i + 1)), Times(zpow, Power(z, i))))
  IN  BuildWiring(IF z = 0 THEN None4
                  ELSE [None4 EXCEPT !.c = [i \in 1 .. N |-> term(i - 1)]])

Tx(x) ==
  LET xi == [i \in 1 .. N |-> Minus(0, Power(x, 4 * N - i))]
  IN  BuildWiring(IF x = 0 THEN None4 ELSE [None4 EXCEPT !.a = xi, !.b = xi])

Log2N == Log2Ceil(N)

(* Evaluate::execute, with the inverses as witnesses: n terms by doubling. *)
TxzExecute(x, z) ==
  LET l0  == Times(Times(Power(x, 4 * N), Reciprocal(x)), Power(z, 2 * N))
      loop[k \in 0 .. Log2N] ==
        IF k = 0 THEN [l |-> l0, r |-> l0, up |-> Times(Reciprocal(x), z),
                       down |-> Times(Reciprocal(x), Reciprocal(z))]
        ELSE LET s == loop[k - 1]
             IN  [l |-> Plus(s.l, Times(s.l, s.up)), r |-> Plus(s.r, Times(s.r, s.down)),
                  up |-> Times(s.up, s.up), down |-> Times(s.down, s.down)]
      end == loop[Log2N]
  IN  Minus(0, Plus(end.l, Times(end.r, Reciprocal(z))))

(* Mutant of TxzPredict: both sums take the step of the first.             *)
TxzPredictOneSided(x, z) ==
  LET l0 == Times(Power(x, 4 * N - 1), Power(z, 2 * N))
      l  == Times(l0, GeoSum(Times(Reciprocal(x), z), N))
  IN  Minus(0, Plus(l, Times(l, Reciprocal(z))))

(* Evaluate::predict, the value a driver with a witness jumps to.          *)
TxzPredict(x, z) ==
  LET l0 == Times(Power(x, 4 * N - 1), Power(z, 2 * N))
      l  == Times(l0, GeoSum(Times(Reciprocal(x), z), N))
      r  == Times(l0, GeoSum(Times(Reciprocal(x), Reciprocal(z)), N))
  IN  Minus(0, Plus(l, Times(r, Reciprocal(z))))

Txz(x, z) == IF x = 0 \/ z = 0 THEN 0 ELSE TxzPredict(x, z)
-----------------------------------------------------------------------------
(***************************************************************************)
(* Stage masks (staging/mask.rs): wiring polynomials that force every wire *)
(* to zero but those of the SYSTEM gate and of one stage's gates.  The     *)
(* part all masks share, the global mask, is left to the registry.         *)
(***************************************************************************)
(* S_global(x, y), in xy alone.                                            *)
GlobalMask(x, y) ==
  LET xy == Times(x, y)
      xy_2n == Power(xy, 2 * N)
  IN  IF x = 0 \/ y = 0 THEN 0
      ELSE Minus(GeoSum(xy, 4 * N),
                 Times(Plus(xy_2n, 1), Plus(Times(xy_2n, Reciprocal(xy)), 1)))

(* S_global(p, Y): the four buffers filled in the order of the degrees,    *)
(* the SYSTEM gate's slots cleared.                                        *)
GlobalProject(p) ==
  LET slot(j, degree) == IF j = 0 THEN 0 ELSE Power(p, degree)
  IN  IF p = 0 THEN <<>>
      ELSE BuildWiring([d |-> [k \in 1 .. N |-> slot(k - 1, k - 1)],
                        b |-> [k \in 1 .. N |-> slot(k - 1, 2 * N - k)],
                        a |-> [k \in 1 .. N |-> slot(k - 1, 2 * N + k - 1)],
                        c |-> [k \in 1 .. N |-> slot(k - 1, 4 * N - k)]])

Mask(skip_gates, num_gates) == [mask |-> TRUE, skip_gates |-> skip_gates, num_gates |-> num_gates]
TooManyGates == [error |-> "GateBoundExceeded"]

(* StageMask::new and new_final, for skip_gates >= 1.                      *)
NewMask(skip_gates, num_gates) ==
  IF skip_gates + num_gates > N THEN TooManyGates ELSE Mask(skip_gates, num_gates)
NewFinalMask(skip_gates) ==
  IF skip_gates > N THEN TooManyGates ELSE Mask(skip_gates, N - skip_gates)

(* Mutant of NotchWires: the stage starts one gate too early.              *)
NotchWiresEarly(m) == m.skip_gates .. m.skip_gates + m.num_gates
(* The buffer places, from 1, of the gates the mask leaves alone.          *)
NotchWires(m) == m.skip_gates + 1 .. m.skip_gates + m.num_gates

(* -notch(p, Y), over the wires of the stage's gates.                      *)
NotchProject(m, p) ==
  LET slots == 1 .. m.skip_gates + m.num_gates
      at(k, degree) == IF k \in NotchWires(m) THEN Minus(0, Power(p, degree)) ELSE 0
  IN  IF m.num_gates = 0 \/ p = 0 THEN <<>>
      ELSE BuildWiring([d |-> [k \in slots |-> at(k, k - 1)],
                        a |-> [k \in slots |-> at(k, 2 * N + k - 1)],
                        b |-> [k \in slots |-> at(k, 2 * N - k)],
                        c |-> [k \in slots |-> at(k, 4 * N - k)]])

(* -notch(x, y), in closed form.                                           *)
NotchXY(m, x, y) ==
  LET xy   == Times(x, y)
      skip == Power(xy, m.skip_gates)
      tail == Power(xy, 2 * N - m.skip_gates - m.num_gates)
  IN  IF x = 0 \/ y = 0 THEN 0
      ELSE Minus(0, Times(Times(Plus(1, Power(xy, 2 * N)), Plus(skip, tail)),
                          GeoSum(xy, m.num_gates)))

MaskCounts == [gates |-> N, constraints |-> 4 * N - 1]      \* constraint_counts
=============================================================================
