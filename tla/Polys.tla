------------------------------- MODULE Polys --------------------------------
(***************************************************************************)
(* The tools of ragu_arithmetic: radix-2 evaluation domains and their      *)
(* Fourier transforms (domain.rs, fft.rs), over a small field whose        *)
(* multiplicative group has a subgroup of order 2^S, the utilities over    *)
(* dense coefficient vectors, ascending in degree (util.rs), and           *)
(* multiscalar multiplication.  Vectors are sequences, indexed from 1.     *)
(***************************************************************************)
EXTENDS PrimeField
LOCAL INSTANCE SequencesExt

CONSTANTS S,      \* PrimeField::S, the field's 2-adicity
          ROOT    \* PrimeField::ROOT_OF_UNITY

ASSUME DomainAssumption == /\ S \in Nat \ {0} /\ ROOT \in F
                           /\ Power(ROOT, 2 ^ S) = 1 /\ Power(ROOT, 2 ^ (S - 1)) # 1

Minus(a, b) == (a + P - b) % P

DefaultDomain ==
  [log2_n |-> S, n |-> 2 ^ S, omega |-> ROOT, omega_inv |-> Reciprocal(ROOT),
   n_inv |-> Power(Reciprocal(2), S)]

Halve(d) ==
  [log2_n |-> d.log2_n - 1, n |-> 2 ^ (d.log2_n - 1), omega |-> Times(d.omega, d.omega),
   omega_inv |-> Times(d.omega_inv, d.omega_inv), n_inv |-> Plus(d.n_inv, d.n_inv)]

(* Domain::new(k), for k <= S.                                             *)
NewDomain[k \in 0 .. S] == IF k = S THEN DefaultDomain ELSE Halve(NewDomain[k + 1])

Belongs(d, x) == Power(x, d.n) = 1        \* Domain::contains

(* The lowest l bits of m, reversed; the bits above are dropped.           *)
BitReverse(m, l) ==
  LET rev[i \in 0 .. l] ==
        IF i = 0 THEN 0 ELSE 2 * rev[i - 1] + ((m \div 2 ^ (i - 1)) % 2)
  IN  rev[l]

Permuted(a, log_n) == [k \in DOMAIN a |-> a[BitReverse(k - 1, log_n) + 1]]
Twiddles(omega, n) == [i \in 0 .. n \div 2 - 1 |-> Power(omega, i)]

(* One layer over every chunk of a: pairs half a chunk apart.              *)
Butterflies(a, chunk, twiddle_chunk, twiddles) ==
  [p \in DOMAIN a |->
     LET q  == (p - 1) % chunk
         i  == q % (chunk \div 2)
         lo == p - q + i
         t  == Times(a[lo + chunk \div 2], twiddles[i * twiddle_chunk])
     IN  IF q < chunk \div 2 THEN Plus(a[lo], t) ELSE Minus(a[lo], t)]

(* The layers one after another, when there are threads to spare.          *)
Iterative(a, log_n, tw) ==
  LET layer[j \in 0 .. log_n] ==
        IF j = 0 THEN a
        ELSE Butterflies(layer[j - 1], 2 ^ j, 2 ^ (log_n - j), tw)
  IN  layer[log_n]

(* Both halves first (in parallel), each with every other twiddle.         *)
RecursiveButterfly(a, n, tw) ==
  LET half[m \in 1 .. n, first \in 1 .. n] ==
        IF m = 2
          THEN Butterflies(SubSeq(a, first, first + 1), 2, 1, tw)
          ELSE Butterflies(half[m \div 2, first] \o half[m \div 2, first + m \div 2],
                           m, n \div m, tw)
  IN  half[n, 1]

Log2Floor(k) == CHOOSE pow \in 0 .. k : 2 ^ pow <= k /\ k < 2 ^ (pow + 1)

(* fft on a machine with so many threads: Len(a) = 2^log_n.                *)
FftOn(threads, a, omega, log_n) ==
  LET b  == Permuted(a, log_n)
      tw == Twiddles(omega, Len(a))
  IN  IF log_n <= Log2Floor(threads) THEN Iterative(b, log_n, tw)
                                     ELSE RecursiveButterfly(b, Len(a), tw)

CONSTANT Threads    \* multicore::current_num_threads()
ASSUME ThreadsAssumption == Threads \in Nat \ {0}

Fft(d, a) == FftOn(Threads, a, d.omega, d.log2_n)
Ifft(d, a) ==
  LET b == FftOn(Threads, a, d.omega_inv, d.log2_n)
  IN  [i \in DOMAIN b |-> Times(b[i], d.n_inv)]

(* The first so many Lagrange basis polynomials at x; <<>> stands for      *)
(* None, when x is in the domain.                                          *)
Ell(d, x, amount) ==
  LET xn == Power(x, d.n)
  IN  IF xn = 1 THEN <<>>
      ELSE [i \in 1 .. amount |->
              Times(Times(Times(Minus(xn, 1), d.n_inv), Power(d.omega, i - 1)),
                    Reciprocal(Minus(x, Power(d.omega, i - 1))))]
-----------------------------------------------------------------------------
(* eval: Horner's rule from the last coefficient.                          *)
EvalPoly(coeffs, x) ==
  FoldRight(LAMBDA c, acc : Plus(Times(acc, x), c), coeffs, 0)

(* dot, of vectors of one length.                                          *)
Dot(a, b) == FoldLong(LAMBDA acc, t : Plus(acc, t), 0, [i \in DOMAIN a |-> Times(a[i], b[i])])

(* a / (X - b); a remainder is dropped.  The code panics on no             *)
(* coefficients; of a constant, where its documentation promises a panic,  *)
(* the quotient is empty.                                                  *)
Factor(a, b) ==
  LET q[k \in 1 .. Len(a)] ==
        IF k = Len(a) THEN 0 ELSE Plus(a[k + 1], Times(b, q[k + 1]))
  IN  SubSeq(q, 1, Len(a) - 1)

(* 1 + r + ... + r^(m-1), by doubling blocks over the bits of m.           *)
GeoSum(r, m) ==
  LET loop[k \in 0 .. m] ==          \* k bits of m consumed
        IF k = 0 THEN [block |-> 1, sum |-> 0, step |-> 1, r |-> r]
        ELSE LET s   == loop[k - 1]
                 odd == (m \div 2 ^ (k - 1)) % 2 = 1
             IN  [block |-> Plus(s.block, Times(s.r, s.block)),
                  sum   |-> IF odd THEN Plus(s.sum, Times(s.step, s.block)) ELSE s.sum,
                  step  |-> IF odd THEN Times(s.step, s.r) ELSE s.step,
                  r     |-> Times(s.r, s.r)]
      bits == CHOOSE k \in 0 .. m : m < 2 ^ k /\ (k = 0 \/ m >= 2 ^ (k - 1))
  IN  loop[bits].sum

Padded(a, n) == [i \in 1 .. n |-> IF i <= Len(a) THEN a[i] ELSE 0]
Log2Ceil(m)  == CHOOSE k \in 0 .. m : m <= 2 ^ k /\ (k = 0 \/ m > 2 ^ (k - 1))

(* Through the smallest domain that holds the product.                     *)
PolyMul(a, b) ==
  IF a = <<>> \/ b = <<>> THEN <<>>
  ELSE LET result_len == Len(a) + Len(b) - 1
           d  == NewDomain[Log2Ceil(result_len)]
           lo == Fft(d, Padded(a, d.n))
           hi == Fft(d, Padded(b, d.n))
       IN  SubSeq(Ifft(d, [i \in 1 .. d.n |-> Times(lo[i], hi[i])]), 1, result_len)

(* p and q with a(X) b(X) = X^(n-1) p(1/X) + X^n q(X).                     *)
DecompProductPoly(a, b) ==
  LET n == Len(a)
      c == PolyMul(a, b)
  IN  [p |-> Reverse(SubSeq(c, 1, n)), q |-> SubSeq(c, n + 1, Len(c))]

(* One round of poly_with_roots: neighbours multiplied, an odd one kept.   *)
PairUp(polys) ==
  [i \in 1 .. (Len(polys) + 1) \div 2 |->
     IF 2 * i > Len(polys) THEN polys[Len(polys)]
                           ELSE PolyMul(polys[2 * i - 1], polys[2 * i])]

PolyWithRoots(roots) ==
  LET round[k \in 0 .. Len(roots)] ==
        IF k = 0 THEN [i \in DOMAIN roots |-> <<Minus(0, roots[i]), 1>>]
                 ELSE PairUp(round[k - 1])
  IN  IF roots = <<>> THEN <<1>> ELSE round[Len(roots)][1]
-----------------------------------------------------------------------------
(* Multiscalar multiplication by windows of c bits, with one bucket per    *)
(* digit.  The group is the integers modulo P, written additively.         *)
LnThresholds == <<4, 4, 32, 55, 149, 404>>     \* the first few

BucketLookup(n) ==
  CHOOSE cur \in DOMAIN LnThresholds :
    n < LnThresholds[cur] /\ \A i \in 1 .. cur - 1 : n >= LnThresholds[i]

DigitAt(segment, c, coeff) == (coeff \div 2 ^ (segment * c)) % 2 ^ c     \* get_at

(* Summation by parts over the buckets, the highest digit first.           *)
WindowSum(segment, c, coeffs, bases) ==
  LET bucket(digit) ==
        FoldLeft(Plus, 0, [i \in DOMAIN coeffs |->
                             IF DigitAt(segment, c, coeffs[i]) = digit THEN bases[i] ELSE 0])
      run[digit \in 1 .. 2 ^ c] ==          \* <<running_sum, sum>> down to digit
        IF digit = 2 ^ c THEN <<0, 0>>
        ELSE LET higher == run[digit + 1]
                 r      == Plus(higher[1], bucket(digit))
             IN  <<r, Plus(higher[2], r)>>
  IN  run[1][2]

(* Mutant of CombineWindows: the least significant window comes first.     *)
CombineReversed(sums, c) ==
  FoldLeft(LAMBDA acc, s : Plus(Times(Power(2, c), acc), s), 0, sums)

(* From the most significant window, doubling c times between windows.     *)
CombineWindows(sums, c) ==
  FoldRight(LAMBDA s, acc : Plus(Times(Power(2, c), acc), s), sums, 0)

Msm(coeffs, bases) ==
  LET c        == BucketLookup(Len(coeffs))
      num_bits == Log2Ceil(P)
      segments == (num_bits + c - 1) \div c
  IN  CombineWindows([s \in 1 .. segments |-> WindowSum(s - 1, c, coeffs, bases)], c)
=============================================================================
