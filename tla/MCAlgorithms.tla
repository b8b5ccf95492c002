---------------------------- MODULE MCAlgorithms ----------------------------
(***************************************************************************)
(* The algorithms below the circuits, over the field of 17 elements:       *)
(* sequences of operations on a sparse polynomial beside the dense vector  *)
(* it stands for, reads from both ends of its iterator in any order, and   *)
(* calls of the transforms, utilities and number types on chosen inputs,   *)
(* each compared with its textbook definition.                             *)
(***************************************************************************)
EXTENDS SparsePoly, Coefficients
LOCAL INSTANCE SequencesExt

CONSTANTS MaxOps,         \* operations on one polynomial
          Supports        \* the initial supports, as bit sets
VARIABLES poly,           \* the block list
          dense,          \* ghost: its coefficients, densely
          ops,            \* operations applied since it was built
          iter,           \* an iterator over it, or <<>>
          read,           \* ghost: the last read, <<degree, value>>, or <<>>
          call            \* the arguments of a call of a pure function

vars == <<poly, dense, ops, iter, read, call>>

D == 1 .. NumCoeffs
Support(bits) == [i \in D |-> IF (bits \div 2 ^ (i - 1)) % 2 = 1 THEN i ELSE 0]
NoCoeffs == [i \in D |-> 0]
Gates(a, b, c, d) == [a |-> a, b |-> b, c |-> c, d |-> d]

(* Operands: empty, dense, dense with zeros, gapped, the negation of one.  *)
Operands == { <<>>, DenseBlock([i \in D |-> i]), DenseBlock([i \in D |-> (i * i) % 5]),
              FromCoeffs(<<1, 0, 0, 4, 0, 0, 0, 8>>),
              Negate(FromCoeffs(<<0, 2, 3, 0, 0, 6, 7, 0>>)), BuildTrace(Gates(<<1>>, <<1, 2>>, <<>>, <<3>>)) }
Flatten(blocks) == [i \in D |-> StoredAt(blocks, i - 1)]

Idle == iter = <<>> /\ call = <<>>
Init ==
  \E bits \in Supports :
    /\ dense = Support(bits) /\ poly = FromCoeffs(dense)
    /\ ops = 0 /\ iter = <<>> /\ read = <<>> /\ call = <<>>

Becomes(p, d) ==
  /\ Idle /\ ops < MaxOps /\ ops' = ops + 1
  /\ poly' = p /\ dense' = d /\ UNCHANGED <<iter, read, call>>

Combine == \E q \in Operands, op \in {"add", "sub"} :
  Becomes(CombineAssign(poly, q, op), [i \in D |-> Apply(op, dense[i], Flatten(q)[i])])
Rescale == \E by \in {0, 3} : Becomes(Scale(poly, by), [i \in D |-> Times(dense[i], by)])
Negated == Becomes(Negate(poly), [i \in D |-> Minus(0, dense[i])])
Dilated == \E z \in {0, 5} : Becomes(Dilate(poly, z), [i \in D |-> Times(dense[i], Power(z, i - 1))])
Fold == \E q \in Operands, by \in {0, 2} :
  ops = 0 /\
  Becomes(FoldPolys(<<q, poly, q>>, by),
          [i \in D |-> LET c == Flatten(q)[i]
                       IN  Plus(Plus(Times(Times(by, by), c), Times(by, dense[i])), c)])

(* A second buffer as the a wires (trace) or b wires (wiring) of a view.   *)
Viewed == \E k \in 0 .. N, l \in 0 .. N, trace \in BOOLEAN :
  ops = 0 /\
  LET w    == [i \in 1 .. k |-> dense[i]]
      v    == [i \in 1 .. l |-> dense[NumCoeffs + 1 - i]]
      view == IF trace THEN Gates(w, v, <<>>, v) ELSE Gates(v, w, v, <<>>)
      at(buffer, i) == IF i \in DOMAIN buffer THEN buffer[i] ELSE 0
      up   == IF trace THEN <<view.c, view.a, view.b, view.d>> ELSE <<view.d, view.b, view.a, view.c>>
  IN  Becomes(IF trace THEN BuildTrace(view) ELSE BuildWiring(view),
              [i \in D |-> CASE i <= N -> at(up[1], i)
                             [] i > N /\ i <= 2 * N -> at(up[2], 2 * N + 1 - i)
                             [] i > 2 * N /\ i <= 3 * N -> at(up[3], i - 2 * N)
                             [] i > 3 * N -> at(up[4], 4 * N + 1 - i)])

Iterate == Idle /\ ops < MaxOps /\ iter' = NewIter(poly) /\ UNCHANGED <<poly, dense, ops, read, call>>
ReadFront ==
  /\ iter # <<>> /\ iter.front < iter.back
  /\ LET r == IterNext(poly, iter) IN iter' = r.it /\ read' = <<iter.front, r.val>>
  /\ UNCHANGED <<poly, dense, ops, call>>
ReadBack ==
  /\ iter # <<>> /\ iter.front < iter.back
  /\ LET r == IterNextBack(poly, iter) IN iter' = r.it /\ read' = <<iter.back - 1, r.val>>
  /\ UNCHANGED <<poly, dense, ops, call>>
Exhausted ==
  /\ iter # <<>> /\ iter.front = iter.back /\ iter' = <<>> /\ read' = <<>>
  /\ UNCHANGED <<poly, dense, ops, call>>
-----------------------------------------------------------------------------
Values == {0, 1, 2, 7, P - 1}
Ramp(n) == [i \in 1 .. n |-> (3 * i * i + i) % P]
AllCoeffs == { c \in Coeff : c.kind \in Special \/ c.v \in {0, 1, 2, 7} }
Words == { Normalized(UendoOr(FromU64(v), [Zeros EXCEPT ![Limbs - 1] = w])) :
             v \in 0 .. 2 ^ LimbBits - 1, w \in 0 .. TopMask }

Calls ==
  [fn : {"fft"}, k : 1 .. S, threads : {1, 2, 4, 64}, unit : {0}]
    \union [fn : {"fft"}, k : 1 .. 3, threads : {1, 64}, unit : 1 .. 8]
    \union [fn : {"ell"}, k : 1 .. 3, x : F]
    \union [fn : {"factor"}, n : 1 .. 6, b : F]
    \union [fn : {"geosum"}, r : F, m : 0 .. 9]
    \union [fn : {"polymul"}, n : 0 .. 4, m : 0 .. 4]
    \union [fn : {"decomp"}, n : 1 .. 5]
    \union [fn : {"roots"}, roots : UNION { [1 .. n -> {0, 1, 5}] : n \in 0 .. 3 }]
    \union [fn : {"msm"}, n : {1, 2, 3, 5, 33}, shift : {0, 1, 9}]
    \union [fn : {"coeff"}, a : AllCoeffs, b : AllCoeffs]
    \union [fn : {"uendo"}, u : Words, k : 0 .. UendoBits + 1]
    \union [fn : {"txz"}, x : F, z : F]

Call == /\ Idle /\ ops = 0 /\ poly = <<>>
        /\ \E c \in Calls : call' = c
        /\ UNCHANGED <<poly, dense, ops, iter, read>>
Return == /\ call # <<>> /\ call' = <<>> /\ UNCHANGED <<poly, dense, ops, iter, read>>

Next == \/ Combine \/ Rescale \/ Negated \/ Dilated \/ Fold \/ Viewed
        \/ Iterate \/ ReadFront \/ ReadBack \/ Exhausted \/ Call \/ Return
Spec == Init /\ [][Next]_vars
-----------------------------------------------------------------------------
Total(f, n) == LET sum[i \in 0 .. n] == IF i = 0 THEN 0 ELSE Plus(sum[i - 1], f[i]) IN sum[n]
Product(f, n) == LET prod[i \in 0 .. n] == IF i = 0 THEN 1 ELSE Times(prod[i - 1], f[i]) IN prod[n]
PolyValue(a, x) == Total([i \in DOMAIN a |-> Times(a[i], Power(x, i - 1))], Len(a))
Convolved(a, b) == [k \in 1 .. Len(a) + Len(b) - 1 |->
  Total([i \in 1 .. Len(a) |-> IF k + 1 - i \in DOMAIN b THEN Times(a[i], b[k + 1 - i]) ELSE 0], Len(a))]
Dft(a, omega) == [i \in DOMAIN a |-> PolyValue(a, Power(omega, i - 1))]
Basis(d, i, x) == Product([j \in 1 .. d.n |->
  IF j = i THEN 1 ELSE Times(Minus(x, Power(d.omega, j - 1)),
                             Reciprocal(Minus(Power(d.omega, i - 1), Power(d.omega, j - 1))))], d.n)

(* However it was built and whatever was done to it, a sparse polynomial   *)
(* keeps its block invariants, and its coefficients, evaluations, reversed *)
(* inner products and commitments are those of the dense vector it stands  *)
(* for (sparse/mod.rs).                                                    *)
SparseIsDense == Idle =>
  /\ InvariantsHold(poly) /\ IterCoeffs(poly) = dense
  /\ \A z \in {0, 1, 3} : EvalSparse(poly, z) = PolyValue(dense, z)
  /\ Commit(poly, Ramp(NumCoeffs)) = Dot(dense, Ramp(NumCoeffs))
  /\ \A q \in Operands :
       /\ Revdot(poly, q) = Dot(dense, Reverse(Flatten(q)))
       /\ Revdot(q, poly) = Revdot(poly, q)

(* Reading from the front and from the back, in any order, meets every     *)
(* coefficient exactly where it belongs (CoeffIter).                       *)
ReadsMeet == read # <<>> => read[2] = dense[read[1] + 1]

(* The transforms, the Lagrange basis, the polynomial utilities and        *)
(* multiscalar multiplication compute what their textbook definitions      *)
(* say, however many threads run them (domain.rs, fft.rs, util.rs).  The   *)
(* quotient of a constant is empty: factor does not panic on it.           *)
UtilitiesCorrect ==
  LET fn == IF call = <<>> THEN "" ELSE call.fn IN
  /\ fn = "fft" =>
       LET d == NewDomain[call.k]
           a == IF call.unit = 0 THEN Ramp(d.n) ELSE [i \in 1 .. d.n |-> IF i = call.unit THEN 1 ELSE 0]
       IN  /\ FftOn(call.threads, a, d.omega, d.log2_n) = Dft(a, d.omega)
           /\ Ifft(d, Fft(d, a)) = a
  /\ fn = "ell" =>
       LET d == NewDomain[call.k] IN
         IF Belongs(d, call.x) THEN Ell(d, call.x, d.n) = <<>>
         ELSE Ell(d, call.x, d.n - 1) = [i \in 1 .. d.n - 1 |-> Basis(d, i, call.x)]
  /\ fn = "factor" =>
       /\ Len(Factor(Ramp(call.n), call.b)) = call.n - 1
       /\ \A x \in F : Minus(EvalPoly(Ramp(call.n), x), EvalPoly(Ramp(call.n), call.b)) =
                         Times(Minus(x, call.b), PolyValue(Factor(Ramp(call.n), call.b), x))
  /\ fn = "geosum" => GeoSum(call.r, call.m) = PolyValue([i \in 1 .. call.m |-> 1], call.r)
  /\ fn = "polymul" =>
       PolyMul(Ramp(call.n), Ramp(call.m)) =
         IF call.n = 0 \/ call.m = 0 THEN <<>> ELSE Convolved(Ramp(call.n), Ramp(call.m))
  /\ fn = "decomp" =>
       LET r == DecompProductPoly(Ramp(call.n), Reverse(Ramp(call.n)))
       IN  Reverse(r.p) \o r.q = Convolved(Ramp(call.n), Reverse(Ramp(call.n)))
  /\ fn = "roots" => \A x \in F :
       PolyValue(PolyWithRoots(call.roots), x) =
         Product([i \in DOMAIN call.roots |-> Minus(x, call.roots[i])], Len(call.roots))
  /\ fn = "msm" =>
       LET coeffs == [i \in 1 .. call.n |-> (5 * i + call.shift) % P]
       IN  Msm(coeffs, Ramp(call.n)) = Dot(coeffs, Ramp(call.n))

UendoValue(u) == LET sum[i \in 0 .. Limbs] == IF i = 0 THEN 0 ELSE sum[i - 1] + (u[i - 1] * 2 ^ (LimbBits * (i - 1)))
                 IN  sum[Limbs]

(* Special coefficients never change a value, whichever arm of the sum or  *)
(* product they take; limb shifts are shifts of the whole integer, with    *)
(* the bits beyond its width lost (coeff.rs, uendo.rs).                    *)
NumbersCorrect ==
  LET fn == IF call = <<>> THEN "" ELSE call.fn IN
  /\ fn = "coeff" =>
       /\ CoeffValue(CoeffMul(call.a, call.b)) = Times(CoeffValue(call.a), CoeffValue(call.b))
       /\ CoeffValue(CoeffAdd(call.a, call.b)) = Plus(CoeffValue(call.a), CoeffValue(call.b))
       /\ CoeffIsZero(call.a) <=> CoeffValue(call.a) = 0
  /\ fn = "uendo" =>
       /\ UendoValue(ShiftLeft(call.u, call.k)) = (UendoValue(call.u) * 2 ^ call.k) % 2 ^ UendoBits
       /\ UendoValue(ShiftRight(call.u, call.k)) = UendoValue(call.u) \div 2 ^ call.k
       /\ UendoAnd(call.u, ShiftLeft(ShiftRight(call.u, 1), 1)) = ShiftLeft(ShiftRight(call.u, 1), 1)

TDefinition(x, z) ==
  IF x = 0 \/ z = 0 THEN 0
  ELSE Minus(0, Total([i \in 1 .. N |->
         Times(Power(x, 4 * N - i), Plus(Power(z, 2 * N - i), Power(z, 2 * N + i - 1)))], N))

(* The gate polynomial is one polynomial: restricted in either variable or *)
(* evaluated in or out of a circuit it takes the values its definition     *)
(* gives it, at zero too (polynomials/mod.rs, txz.rs).                     *)
GatePolynomialAgrees ==
  (call # <<>> /\ call.fn = "txz") =>
    LET x == call.x  z == call.z  t == TDefinition(call.x, call.z)
    IN  /\ EvalSparse(Tz(z), x) = t /\ EvalSparse(Tx(x), z) = t /\ Txz(x, z) = t
        /\ (x # 0 /\ z # 0) => TxzExecute(x, z) = t
=============================================================================
