-------------------------- MODULE TranscriptProofs --------------------------
(***************************************************************************)
(* Proofs about the transcript (Transcript.tla), for every field, Poseidon *)
(* instance, tag and number of operations: a transcript handed over from   *)
(* circuit to circuit draws the prover's challenges, and it implements the *)
(* duplex construction.                                                    *)
(***************************************************************************)
EXTENDS Transcript, SequenceTheorems, DataTheorems

State == [1 .. T -> F]

(* The prime field is closed under its operations, and -1, which the model *)
(* answers with where the code fails, is outside it.                       *)
LEMMA FieldArithmetic ==
  /\ P \in Nat /\ P >= 2
  /\ 0 \in F
  /\ \A a, b \in F : Plus(a, b) \in F /\ Times(a, b) \in F
  /\ F \subseteq Nat
  /\ -1 \notin F
<1>1. P \in Nat /\ P >= 2
  BY FieldAssumption DEF IsPrime
<1>2. \A c \in Int : c % P \in 0 .. P - 1
  BY <1>1
<1>3. \A a, b \in Int : a + b \in Int /\ a * b \in Int
  OBVIOUS
<1>4. \A a, b \in F : Plus(a, b) \in F /\ Times(a, b) \in F
  BY <1>2, <1>3 DEF Plus, Times, F
<1>5. QED
  BY <1>1, <1>4 DEF F

(* One value of the table power makes, from the table itself.              *)
PowerStep(a, power, k) ==
  IF k = 0 THEN 1
  ELSE Times(Squared(power[k \div 2]), IF k % 2 = 1 THEN a ELSE 1)
PowerTable(a, e, power) ==
  power \in [0 .. e -> F] /\ \A k \in 0 .. e : power[k] = PowerStep(a, power, k)

(* A step of the table power makes stays in the field.                     *)
LEMMA PowerStepType ==
  ASSUME NEW a \in F, NEW k \in Nat, NEW power,
         k # 0 => power[k \div 2] \in F
  PROVE  PowerStep(a, power, k) \in F
<1>1. CASE k = 0
  BY <1>1, FieldArithmetic DEF PowerStep, F
<1>2. CASE k # 0
  <2> DEFINE h == power[k \div 2]
             q == h * h
             b == IF k % 2 = 1 THEN a ELSE 1
             r == (q % P) * b
  <2>1. PowerStep(a, power, k) = r % P
    BY <1>2 DEF PowerStep, Times, Squared
  <2>2. h \in Int /\ b \in Int
    <3> HIDE DEF q, r
    <3>1. power[k \div 2] \in F /\ F \subseteq Int /\ a \in Int
      BY <1>2, FieldArithmetic DEF F
    <3>2. b \in Int
      BY <3>1
    <3>3. QED
      BY <3>1, <3>2
  <2>3. q % P \in Int
    <3>1. q \in Int
      BY <2>2
    <3> HIDE DEF q
    <3>2. QED
      BY <3>1, FieldArithmetic
  <2>4. r \in Int
    BY <2>2, <2>3
  <2> HIDE DEF r
  <2>5. QED
    BY <2>1, <2>4, FieldArithmetic DEF F
<1>3. QED
  BY <1>1, <1>2

(* The recursion that defines power has a solution.                        *)
LEMMA PowerTableExists ==
  ASSUME NEW a \in F, NEW e \in Nat
  PROVE  \E power : PowerTable(a, e, power)
<1> DEFINE U == {n \in 0 .. e : \E power : PowerTable(a, n, power)}
<1>1. 0 \in U
  <2> DEFINE p == [k \in 0 .. 0 |-> 1]
  <2>1. PowerTable(a, 0, p)
    BY FieldArithmetic DEF PowerTable, PowerStep, F
  <2> HIDE DEF p
  <2>2. QED
    BY <2>1
<1>2. ASSUME NEW n \in 0 + 1 .. e, n - 1 \in U PROVE n \in U
  <2>1. PICK p : PowerTable(a, n - 1, p)
    BY <1>2
  <2> HIDE DEF U
  <2> DEFINE q == [k \in 0 .. n |-> IF k = n THEN PowerStep(a, p, n) ELSE p[k]]
  <2>2. n \div 2 \in 0 .. n - 1 /\ \A k \in 1 .. n : k \div 2 \in 0 .. n - 1
    OBVIOUS
  <2>3. PowerStep(a, p, n) \in F
    BY <2>1, <2>2, PowerStepType DEF PowerTable
  <2>4. q \in [0 .. n -> F]
    BY <2>1, <2>3 DEF PowerTable
  <2>5. ASSUME NEW k \in 0 .. n PROVE q[k] = PowerStep(a, q, k)
    <3>1. k # 0 => q[k \div 2] = p[k \div 2]
      BY <2>2
    <3>2. PowerStep(a, q, k) = PowerStep(a, p, k)
      BY <3>1 DEF PowerStep
    <3>3. q[k] = PowerStep(a, p, k)
      BY <2>1 DEF PowerTable
    <3>4. QED
      BY <3>2, <3>3
  <2> HIDE DEF q
  <2>6. PowerTable(a, n, q)
    BY <2>4, <2>5 DEF PowerTable
  <2>7. QED
    BY <2>6 DEF U
<1> HIDE DEF U
<1>3. \A n \in 0 .. e : n \in U
  BY <1>1, <1>2, Interval
<1>4. QED
  BY <1>3 DEF U

(* Powers of elements are elements.                                        *)
LEMMA PowerType == ASSUME NEW a \in F, NEW e \in Nat PROVE Power(a, e) \in F
<1> DEFINE Solves(power) == power = [k \in 0 .. e |-> PowerStep(a, power, k)]
           table == CHOOSE power : Solves(power)
<1>1. Power(a, e) = table[e]
  BY DEF Power, PowerStep
<1>2. PICK p : PowerTable(a, e, p)
  BY PowerTableExists
<1>3. Solves(p)
  BY <1>2 DEF PowerTable
<1>4. table = [k \in 0 .. e |-> PowerStep(a, table, k)]
  BY <1>3
<1> HIDE DEF table
<1> DEFINE U == {n \in 0 .. e : \A k \in 0 .. n : table[k] \in F}
<1>5. 0 \in U
  BY <1>4, PowerStepType
<1>6. ASSUME NEW n \in 0 + 1 .. e, n - 1 \in U PROVE n \in U
  <2>1. n \div 2 \in 0 .. n - 1
    OBVIOUS
  <2>2. table[n \div 2] \in F
    BY <1>6, <2>1
  <2>3. PowerStep(a, table, n) \in F
    BY <2>2, PowerStepType
  <2>4. table[n] = PowerStep(a, table, n)
    BY <1>4
  <2>5. QED
    BY <1>6, <2>3, <2>4
<1> HIDE DEF U
<1>7. \A n \in 0 .. e : n \in U
  BY <1>5, <1>6, Interval
<1>8. QED
  BY <1>1, <1>7 DEF U
-----------------------------------------------------------------------------
(* The permutation maps states to states.                                  *)

(* What the Poseidon parameters are assumed to be, in the form used below. *)
LEMMA Constants ==
  /\ T \in Nat /\ T >= 2 /\ RATE \in Nat /\ 1 <= RATE /\ RATE < T
  /\ NumRounds \in Nat
  /\ \A i \in 1 .. T : MdsMatrix[i] \in State
  /\ \A r \in 1 .. NumRounds : RoundConstants[r] \in State
BY PoseidonAssumption DEF State, NumRounds

(* multiadd of two states is an element.                                   *)
LEMMA MultiaddType ==
  ASSUME NEW values \in State, NEW coeffs \in State
  PROVE  Multiadd(values, coeffs) \in F
<1> DEFINE Solves(sum) ==
             sum = [i \in 0 .. T |-> IF i = 0 THEN 0
                                     ELSE Plus(sum[i - 1], Times(coeffs[i], values[i]))]
           total == CHOOSE sum : Solves(sum)
           Step == [p \in F \X (0 + 1 .. T) |-> Plus(p[1], Times(coeffs[p[2]], values[p[2]]))]
<1>1. Multiadd(values, coeffs) = total[T]
  BY DEF Multiadd
<1>2. \A i \in 1 .. T : Times(coeffs[i], values[i]) \in F
  BY FieldArithmetic DEF State
<1>3. \A acc \in F, i \in 1 .. T : Plus(acc, Times(coeffs[i], values[i])) \in F
  BY <1>2, FieldArithmetic
<1>4. Step \in [F \X (0 + 1 .. T) -> F]
  BY <1>3
<1>5. \A acc \in F, i \in 1 .. T : Step[<<acc, i>>] = Plus(acc, Times(coeffs[i], values[i]))
  OBVIOUS
<1> HIDE DEF Step
<1>6. PICK f : Follows(f, 0, T, F, 0, Step)
  <2>1. 0 \in F /\ T \in Int /\ 0 \in Int /\ 0 <= T
    BY Constants, FieldArithmetic
  <2>2. QED
    BY <1>4, <2>1, Iterates
<1>7. Solves(f)
  <2>1. f \in [0 .. T -> F] /\ f[0] = 0
    BY <1>6 DEF Follows
  <2>2. ASSUME NEW i \in 1 .. T
        PROVE  f[i] = Plus(f[i - 1], Times(coeffs[i], values[i]))
    <3>1. i - 1 \in 0 .. T /\ i \in 0 + 1 .. T
      BY Constants
    <3>2. f[i - 1] \in F /\ f[i] = Step[<<f[i - 1], i>>]
      BY <1>6, <2>1, <3>1 DEF Follows
    <3>3. QED
      BY <1>5, <3>2
  <2>3. QED
    BY <2>1, <2>2
<1>8. Solves(total)
  BY <1>7
<1> HIDE DEF total
<1>9. total[0] \in F /\ \A i \in 1 .. T : total[i - 1] \in F => total[i] \in F
  <2>1. total[0] = 0 /\ \A i \in 1 .. T : total[i] = Plus(total[i - 1], Times(coeffs[i], values[i]))
    BY <1>8, Constants
  <2>2. QED
    BY <1>3, <2>1, FieldArithmetic
<1>10. \A i \in 0 .. T : total[i] \in F
  <2>1. \A i \in 0 + 1 .. T : total[i - 1] \in F => total[i] \in F
    BY <1>9
  <2>2. 0 \in Int /\ T \in Int /\ 0 <= T
    BY Constants
  <2>3. QED
    BY <1>9, <2>1, <2>2, Stays
<1>11. T \in 0 .. T
  BY Constants
<1>12. QED
  BY <1>1, <1>10, <1>11

(* The MDS layer maps states to states.                                    *)
LEMMA MdsType == ASSUME NEW state \in State PROVE Mds(state) \in State
<1> DEFINE Solves(scratch) ==
             scratch = [i \in 0 .. T |-> IF i = 0 THEN <<>>
                          ELSE Append(scratch[i - 1], Multiadd(state, MdsMatrix[i]))]
           rows == CHOOSE scratch : Solves(scratch)
           Step == [p \in Seq(F) \X (0 + 1 .. T) |-> Append(p[1], Multiadd(state, MdsMatrix[p[2]]))]
<1>1. Mds(state) = rows[T]
  BY DEF Mds
<1>2. \A i \in 1 .. T : Multiadd(state, MdsMatrix[i]) \in F
  BY MultiaddType, Constants
<1>3. \A s \in Seq(F), i \in 1 .. T :
        /\ Append(s, Multiadd(state, MdsMatrix[i])) \in Seq(F)
        /\ Len(Append(s, Multiadd(state, MdsMatrix[i]))) = Len(s) + 1
  BY <1>2, AppendProperties
<1>4. Step \in [Seq(F) \X (0 + 1 .. T) -> Seq(F)]
  BY <1>3
<1>5. \A s \in Seq(F), i \in 1 .. T : Step[<<s, i>>] = Append(s, Multiadd(state, MdsMatrix[i]))
  OBVIOUS
<1> HIDE DEF Step
<1>6. PICK f : Follows(f, 0, T, Seq(F), <<>>, Step)
  <2>1. <<>> \in Seq(F) /\ T \in Int /\ 0 \in Int /\ 0 <= T
    BY Constants
  <2>2. QED
    BY <1>4, <2>1, Iterates
<1>7. Solves(f)
  <2>1. f \in [0 .. T -> Seq(F)] /\ f[0] = <<>>
    BY <1>6 DEF Follows
  <2>2. ASSUME NEW i \in 1 .. T
        PROVE  f[i] = Append(f[i - 1], Multiadd(state, MdsMatrix[i]))
    <3>1. i - 1 \in 0 .. T /\ i \in 0 + 1 .. T
      BY Constants
    <3>2. f[i - 1] \in Seq(F) /\ f[i] = Step[<<f[i - 1], i>>]
      BY <1>6, <2>1, <3>1 DEF Follows
    <3>3. QED
      BY <1>5, <3>2
  <2>3. QED
    BY <2>1, <2>2
<1>8. Solves(rows)
  BY <1>7
<1> HIDE DEF rows
<1>9. rows[0] = <<>>
  <2>1. 0 \in 0 .. T
    BY Constants
  <2>2. QED
    BY <1>8, <2>1, Zenon
<1>10. ASSUME NEW i \in 1 .. T
       PROVE  rows[i] = Append(rows[i - 1], Multiadd(state, MdsMatrix[i]))
  <2>1. i \in 0 .. T /\ i # 0
    OBVIOUS
  <2>2. QED
    BY <1>8, <2>1, Zenon
<1> DEFINE U == {i \in 0 .. T : rows[i] \in Seq(F) /\ Len(rows[i]) = i}
<1>11. 0 \in U /\ \A i \in 0 + 1 .. T : i - 1 \in U => i \in U
  <2>1. 0 \in U
    <3>1. 0 \in 0 .. T /\ rows[0] \in Seq(F) /\ Len(rows[0]) = 0
      BY <1>9, Constants, EmptySeq
    <3>2. QED
      BY <3>1
  <2>2. ASSUME NEW i \in 0 + 1 .. T, i - 1 \in U PROVE i \in U
    <3>1. rows[i - 1] \in Seq(F) /\ Len(rows[i - 1]) = i - 1
      BY <2>2
    <3>2. rows[i] \in Seq(F) /\ Len(rows[i]) = i
      <4>1. i \in 1 .. T
        OBVIOUS
      <4>2. rows[i] = Append(rows[i - 1], Multiadd(state, MdsMatrix[i]))
        BY <1>10, <4>1
      <4>3. rows[i] \in Seq(F) /\ Len(rows[i]) = Len(rows[i - 1]) + 1
        BY <1>3, <3>1, <4>1, <4>2
      <4>4. QED
        BY <3>1, <4>3
    <3>3. QED
      BY <3>2
  <2>3. QED
    BY <2>1, <2>2
<1> HIDE DEF U
<1>12. \A i \in 0 .. T : i \in U
  BY <1>11, Interval, Constants
<1>13. rows[T] \in Seq(F) /\ Len(rows[T]) = T
  BY <1>12, Constants DEF U
<1>14. QED
  BY <1>1, <1>13, LenProperties DEF State

(* One round of the permutation maps states to states.                     *)
LEMMA RoundType ==
  ASSUME NEW state \in State, NEW r \in 1 .. NumRounds
  PROVE  Mds(Sbox(AddRoundConstants(state, RoundConstants[r]), Elems(r))) \in State
<1>1. AddRoundConstants(state, RoundConstants[r]) \in State
  <2>1. \A i \in 1 .. T : Plus(state[i], RoundConstants[r][i]) \in F
    BY Constants, FieldArithmetic DEF State
  <2>2. QED
    BY <2>1 DEF AddRoundConstants, State
<1>2. ASSUME NEW s \in State, NEW elems PROVE Sbox(s, elems) \in State
  <2>1. \A i \in 1 .. T : s[i] \in F /\ Power(s[i], 5) \in F
    BY PowerType DEF State
  <2>2. QED
    BY <2>1 DEF Sbox, State
<1>3. QED
  BY <1>1, <1>2, MdsType

(* The permutation maps states to states.                                  *)
LEMMA PermutationType == ASSUME NEW state \in State PROVE Permutation(state) \in State
<1> DEFINE Round(s, r) == Mds(Sbox(AddRoundConstants(s, RoundConstants[r]), Elems(r)))
           Solves(round) ==
             round = [r \in 0 .. NumRounds |-> IF r = 0 THEN state
                        ELSE CHOOSE next \in { Round(s, r) : s \in {round[r - 1]} } : TRUE]
           rounds == CHOOSE round : Solves(round)
           Step == [p \in State \X (0 + 1 .. NumRounds) |-> Round(p[1], p[2])]
<1>1. Permutation(state) = rounds[NumRounds]
  BY DEF Permutation
<1> HIDE DEF Round
<1>2. \A s, r : (CHOOSE next \in { Round(t, r) : t \in {s} } : TRUE) = Round(s, r)
  OBVIOUS
<1>3. \A s \in State, r \in 1 .. NumRounds : Round(s, r) \in State
  BY RoundType DEF Round
<1>4. Step \in [State \X (0 + 1 .. NumRounds) -> State]
  BY <1>3
<1>5. \A s \in State, r \in 1 .. NumRounds : Step[<<s, r>>] = Round(s, r)
  OBVIOUS
<1> HIDE DEF Step
<1>6. PICK f : Follows(f, 0, NumRounds, State, state, Step)
  <2>1. NumRounds \in Int /\ 0 \in Int /\ 0 <= NumRounds
    BY Constants
  <2>2. QED
    BY <1>4, <2>1, Iterates
<1>7. Solves(f)
  <2>1. f \in [0 .. NumRounds -> State] /\ f[0] = state
    BY <1>6 DEF Follows
  <2>2. ASSUME NEW r \in 1 .. NumRounds PROVE f[r] = Round(f[r - 1], r)
    <3>1. r - 1 \in 0 .. NumRounds /\ r \in 0 + 1 .. NumRounds
      BY Constants
    <3>2. f[r - 1] \in State /\ f[r] = Step[<<f[r - 1], r>>]
      BY <1>6, <2>1, <3>1 DEF Follows
    <3>3. QED
      BY <1>5, <3>2
  <2>3. QED
    BY <1>2, <2>1, <2>2
<1>8. Solves(rounds)
  BY <1>7
<1> HIDE DEF rounds
<1>9. rounds[0] = state /\ \A r \in 1 .. NumRounds : rounds[r] = Round(rounds[r - 1], r)
  BY <1>2, <1>8, Constants
<1>10. \A r \in 0 .. NumRounds : rounds[r] \in State
  <2>1. rounds[0] \in State
    BY <1>9
  <2>2. \A r \in 0 + 1 .. NumRounds : rounds[r - 1] \in State => rounds[r] \in State
    BY <1>3, <1>9
  <2>3. 0 \in Int /\ NumRounds \in Int /\ 0 <= NumRounds
    BY Constants
  <2>4. QED
    BY <2>1, <2>2, <2>3, Stays
<1>11. NumRounds \in 0 .. NumRounds
  BY Constants
<1>12. QED
  BY <1>1, <1>10, <1>11
-----------------------------------------------------------------------------
(* The sponge: absorbing with elements pending, or squeezing with the last *)
(* k elements of the rate not drawn yet.                                   *)

RateLeft(state, k)  == [i \in 1 .. k |-> state[RATE + 1 - i]]
Squeezing(state, k) == Squeeze(RateLeft(state, k), state)
Pending  == { values \in Seq(F) : values # <<>> /\ Len(values) <= RATE }
Usable(s) ==
  \E state \in State : \/ \E values \in Pending : s = Absorb(values, state)
                       \/ \E k \in 0 .. RATE : s = Squeezing(state, k)

(* Popping takes the last value held.                                      *)
LEMMA PopLast ==
  ASSUME NEW values, NEW state
  PROVE  Pop(Squeeze(values, state)) =
           Answer(Squeeze(SubSeq(values, 1, Len(values) - 1), state), values[Len(values)])
BY SMTT(30) DEF Pop, Squeeze, Answer

(* The element drawn from a squeezing sponge is the next one of the rate.  *)
LEMMA PopRate ==
  ASSUME NEW state, NEW k \in 1 .. RATE
  PROVE  Pop(Squeezing(state, k)) = Answer(Squeezing(state, k - 1), state[RATE + 1 - k])
<1> DEFINE v == RateLeft(state, k)
<1>1. v \in Seq(Range(v)) /\ Len(v) = k /\ v[k] = state[RATE + 1 - k]
  <2>1. v = [i \in 1 .. k |-> state[RATE + 1 - i]]
    BY DEF RateLeft
  <2>2. DOMAIN v = 1 .. k /\ v \in [1 .. k -> Range(v)]
    BY <2>1 DEF Range
  <2>3. k \in Nat /\ k \in 1 .. k
    BY Constants
  <2>4. v[k] = state[RATE + 1 - k]
    BY <2>1, <2>3
  <2> HIDE DEF v
  <2>5. v \in Seq(Range(v)) /\ Len(v) = k
    BY <2>2, <2>3
  <2>6. QED
    BY <2>4, <2>5
<1>2. SubSeq(v, 1, k - 1) = RateLeft(state, k - 1)
  BY <1>1 DEF RateLeft
<1>3. Squeezing(state, k) = Squeeze(v, state)
  BY DEF Squeezing
<1>4. Squeezing(state, k - 1) = Squeeze(RateLeft(state, k - 1), state)
  BY DEF Squeezing
<1> HIDE DEF v
<1>5. QED
  BY <1>1, <1>2, <1>3, <1>4, PopLast

(* The parts of a sponge in either mode.                                   *)
LEMMA ModesDiffer ==
  ASSUME NEW state, NEW k, NEW values
  PROVE  /\ Squeezing(state, k).mode = "squeeze" /\ Squeezing(state, k).state = state
         /\ Squeezing(state, k).values = RateLeft(state, k)
         /\ Absorb(values, state).mode = "absorb" /\ Absorb(values, state).state = state
         /\ Absorb(values, state).values = values
         /\ "squeeze" # "absorb"
BY DEF Squeezing, Squeeze, Absorb

(* A sponge that enters squeezing has its whole rate to draw.              *)
LEMMA EnterFull == ASSUME NEW state PROVE Enter(state) = Squeezing(state, RATE)
BY DEF Enter, GetRate, Squeezing, RateLeft

(* No element of the rate is left exactly when all were drawn.             *)
LEMMA NothingLeft ==
  ASSUME NEW state, NEW k \in 0 .. RATE
  PROVE  RateLeft(state, k) = <<>> <=> k = 0
<1>1. DOMAIN RateLeft(state, k) = 1 .. k
  BY DEF RateLeft
<1>2. CASE k = 0
  BY <1>2 DEF RateLeft
<1>3. CASE k # 0
  BY <1>1, <1>3
<1>4. QED
  BY <1>2, <1>3

(* Squeezing a squeezing sponge draws the next element, after a            *)
(* permutation when none is left.                                          *)
LEMMA SqueezeAgain ==
  ASSUME NEW state, NEW k \in 0 .. RATE
  PROVE  SpongeSqueeze(Squeezing(state, k)) =
           IF k = 0 THEN Answer(Squeezing(Permutation(state), RATE - 1), Permutation(state)[1])
                    ELSE Answer(Squeezing(state, k - 1), state[RATE + 1 - k])
<1> DEFINE s == Squeezing(state, k)
<1>1. s.mode = "squeeze" /\ s.values = RateLeft(state, k) /\ s.state = state
  BY ModesDiffer
<1> HIDE DEF s
<1>2. CASE k = 0
  <2>1. s.values = <<>>
    BY <1>1, <1>2, NothingLeft
  <2>2. SpongeSqueeze(s) = Pop(Permute(s))
    BY <1>1, <2>1, Zenon DEF SpongeSqueeze
  <2>3. Permute(s) = Squeezing(Permutation(state), RATE)
    BY <1>1, EnterFull DEF Permute, Enter
  <2>4. RATE \in 1 .. RATE /\ RATE + 1 - RATE = 1
    BY Constants
  <2>5. Pop(Permute(s)) = Answer(Squeezing(Permutation(state), RATE - 1), Permutation(state)[1])
    BY <2>3, <2>4, PopRate
  <2>6. QED
    BY <1>2, <2>2, <2>5 DEF s
<1>3. CASE k # 0
  <2>1. s.values # <<>>
    BY <1>1, <1>3, NothingLeft
  <2>2. SpongeSqueeze(s) = Pop(s)
    BY <1>1, <2>1, Zenon DEF SpongeSqueeze
  <2>3. k \in 1 .. RATE
    BY <1>3
  <2>4. QED
    BY <1>3, <2>2, <2>3, PopRate DEF s
<1>4. QED
  BY <1>2, <1>3

(* Squeezing an absorbing sponge absorbs what is pending, permutes and     *)
(* draws the first element.                                                *)
LEMMA SqueezeFirst ==
  ASSUME NEW state, NEW values, values # <<>>
  PROVE  SpongeSqueeze(Absorb(values, state)) =
           LET q == Permutation(AbsorbInto(state, values))
           IN  Answer(Squeezing(q, RATE - 1), q[1])
<1> DEFINE s == Absorb(values, state)
           q == Permutation(AbsorbInto(state, values))
<1>1. s.mode = "absorb" /\ s.mode # "squeeze" /\ s.values # <<>>
  BY ModesDiffer
<1>2. Permute(s).state = q
  BY <1>1, ModesDiffer DEF Permute
<1> HIDE DEF s
<1>3. SpongeSqueeze(s) = Pop(Enter(Permute(s).state))
  BY <1>1, Zenon DEF SpongeSqueeze
<1>4. RATE \in 1 .. RATE /\ RATE + 1 - RATE = 1
  BY Constants
<1>5. QED
  BY <1>2, <1>3, <1>4, EnterFull, PopRate DEF s

(* Absorbing starts a buffer when the sponge was squeezing or the buffer   *)
(* is full (then it is absorbed and permuted first), and extends it        *)
(* otherwise.                                                              *)
LEMMA AbsorbMore ==
  ASSUME NEW state, NEW v, NEW k, NEW values
  PROVE  /\ SpongeAbsorb(Squeezing(state, k), v) = Absorb(<<v>>, state)
         /\ SpongeAbsorb(Absorb(values, state), v) =
              IF Len(values) = RATE
                THEN Absorb(<<v>>, Permutation(AbsorbInto(state, values)))
                ELSE Absorb(Append(values, v), state)
<1>1. SpongeAbsorb(Squeezing(state, k), v) = Absorb(<<v>>, state)
  BY ModesDiffer DEF SpongeAbsorb
<1> DEFINE s == Absorb(values, state)
<1>2. s.mode = "absorb" /\ s.mode # "squeeze" /\ s.values = values /\ s.state = state
  BY ModesDiffer
<1>3. [s EXCEPT !.values = Append(s.values, v)] = Absorb(Append(values, v), state)
  BY DEF Absorb
<1>4. Permute(s) = Absorb(<<>>, Permutation(AbsorbInto(state, values)))
  BY <1>2, Zenon DEF Permute
<1>5. [Permute(s) EXCEPT !.values = <<v>>] = Absorb(<<v>>, Permutation(AbsorbInto(state, values)))
  BY <1>4 DEF Absorb
<1> HIDE DEF s
<1>6. CASE Len(values) = RATE
  BY <1>1, <1>2, <1>5, <1>6 DEF SpongeAbsorb, s
<1>7. CASE Len(values) # RATE
  BY <1>1, <1>2, <1>3, <1>7 DEF SpongeAbsorb, s
<1>8. QED
  BY <1>6, <1>7

(* Absorbing what is pending and permuting gives a state.                  *)
LEMMA AbsorbIntoType ==
  ASSUME NEW state \in State, NEW values \in Pending
  PROVE  Permutation(AbsorbInto(state, values)) \in State
<1>1. \A i \in 1 .. T : state[i] \in F /\ (i <= Len(values) => values[i] \in F)
  BY DEF State, Pending
<1>2. AbsorbInto(state, values) \in State
  BY <1>1, FieldArithmetic DEF AbsorbInto, State
<1>3. QED
  BY <1>2, PermutationType

(* Absorbing leaves a usable sponge with something pending.                *)
LEMMA AbsorbUsable ==
  ASSUME NEW s, Usable(s), NEW v \in F
  PROVE  Usable(SpongeAbsorb(s, v)) /\ SpongeAbsorb(s, v).mode = "absorb"
<1>1. <<v>> \in Pending
  BY Constants DEF Pending
<1>2. PICK state \in State : \/ \E values \in Pending : s = Absorb(values, state)
                             \/ \E k \in 0 .. RATE : s = Squeezing(state, k)
  BY DEF Usable
<1>3. CASE \E k \in 0 .. RATE : s = Squeezing(state, k)
  <2>1. SpongeAbsorb(s, v) = Absorb(<<v>>, state)
    BY <1>3, AbsorbMore
  <2>2. QED
    BY <1>1, <2>1, ModesDiffer DEF Usable
<1>4. ASSUME NEW values \in Pending, s = Absorb(values, state)
      PROVE  Usable(SpongeAbsorb(s, v)) /\ SpongeAbsorb(s, v).mode = "absorb"
  <2>1. CASE Len(values) = RATE
    <3> DEFINE q == Permutation(AbsorbInto(state, values))
    <3>1. SpongeAbsorb(s, v) = Absorb(<<v>>, q)
      BY <1>4, <2>1, AbsorbMore
    <3>2. q \in State
      BY AbsorbIntoType
    <3> HIDE DEF q
    <3>3. QED
      BY <1>1, <3>1, <3>2, ModesDiffer DEF Usable
  <2>2. CASE Len(values) # RATE
    <3>1. SpongeAbsorb(s, v) = Absorb(Append(values, v), state)
      BY <1>4, <2>2, AbsorbMore
    <3>2. Append(values, v) \in Seq(F) /\ Len(Append(values, v)) = Len(values) + 1
      BY AppendProperties DEF Pending
    <3>3. Append(values, v) \in Pending
      BY <2>2, <3>2, Constants DEF Pending
    <3>4. QED
      BY <3>1, <3>3, ModesDiffer DEF Usable
  <2>3. QED
    BY <2>1, <2>2
<1>5. QED
  BY <1>2, <1>3, <1>4

(* Squeezing a usable sponge gives an element and a squeezing sponge.      *)
LEMMA SqueezeUsable ==
  ASSUME NEW s, Usable(s)
  PROVE  /\ SpongeSqueeze(s).value \in F
         /\ Usable(SpongeSqueeze(s).sponge)
         /\ SpongeSqueeze(s).sponge.mode = "squeeze"
<1>1. PICK state \in State : \/ \E values \in Pending : s = Absorb(values, state)
                             \/ \E k \in 0 .. RATE : s = Squeezing(state, k)
  BY DEF Usable
<1>2. \A q \in State, k \in 0 .. RATE, i \in 1 .. T : \A x :
        x = Answer(Squeezing(q, k), q[i]) =>
          x.value \in F /\ Usable(x.sponge) /\ x.sponge.mode = "squeeze"
  BY ModesDiffer DEF Answer, Usable, State
<1>3. ASSUME NEW k \in 0 .. RATE, s = Squeezing(state, k)
      PROVE  \E q \in State, j \in 0 .. RATE, i \in 1 .. T :
               SpongeSqueeze(s) = Answer(Squeezing(q, j), q[i])
  <2>1. CASE k = 0
    BY <1>3, <2>1, SqueezeAgain, PermutationType, Constants
  <2>2. CASE k # 0
    <3>1. k - 1 \in 0 .. RATE /\ RATE + 1 - k \in 1 .. T
      BY <2>2, Constants
    <3>2. SpongeSqueeze(s) = Answer(Squeezing(state, k - 1), state[RATE + 1 - k])
      BY <1>3, <2>2, SqueezeAgain
    <3>3. QED
      BY <3>1, <3>2
  <2>3. QED
    BY <2>1, <2>2
<1>4. ASSUME NEW values \in Pending, s = Absorb(values, state)
      PROVE  \E q \in State, j \in 0 .. RATE, i \in 1 .. T :
               SpongeSqueeze(s) = Answer(Squeezing(q, j), q[i])
  <2>1. values # <<>> /\ Permutation(AbsorbInto(state, values)) \in State
    BY AbsorbIntoType DEF Pending
  <2>2. RATE - 1 \in 0 .. RATE /\ 1 \in 1 .. T
    BY Constants
  <2>3. QED
    BY <1>4, <2>1, <2>2, SqueezeFirst
<1>5. QED
  BY <1>1, <1>2, <1>3, <1>4
-----------------------------------------------------------------------------
(* A transcript's tag leaves a usable sponge with something pending.       *)

(* The state a sponge starts from.                                         *)
LEMMA ZeroState == [i \in 1 .. T |-> 0] \in State
BY FieldArithmetic DEF State

(* The first element is absorbed into the empty buffer.                    *)
LEMMA AbsorbFirst ==
  ASSUME NEW v \in F
  PROVE  SpongeAbsorb(NewSponge, v) = Absorb(<<v>>, [i \in 1 .. T |-> 0])
<1>1. Len(<<>>) # RATE /\ Append(<<>>, v) = <<v>>
  BY Constants
<1>2. QED
  BY <1>1, AbsorbMore DEF NewSponge

(* absorbed, the recursion Tagged is defined by.                           *)
TagTable(tag, absorbed) ==
  /\ absorbed[0] = NewSponge
  /\ \A i \in 1 .. Len(tag) : absorbed[i] = SpongeAbsorb(absorbed[i - 1], tag[i])

(* The recursion that defines Tagged has a solution, and it is that of     *)
(* Tagged.                                                                 *)
LEMMA TagTableExists ==
  ASSUME NEW tag \in Seq(F)
  PROVE  \E absorbed : TagTable(tag, absorbed) /\ Tagged(tag) = absorbed[Len(tag)]
<1> DEFINE S == { s \in [mode : {"absorb", "squeeze"}, values : Seq(F), state : State] :
                    s = NewSponge \/ Usable(s) }
           L == Len(tag)
           Solves(absorbed) ==
             absorbed = [i \in 0 .. L |-> IF i = 0 THEN NewSponge
                                          ELSE SpongeAbsorb(absorbed[i - 1], tag[i])]
           table == CHOOSE absorbed : Solves(absorbed)
           Step == [p \in S \X (0 + 1 .. L) |-> SpongeAbsorb(p[1], tag[p[2]])]
<1>1. Tagged(tag) = table[L]
  BY DEF Tagged
<1>2. L \in Nat /\ \A i \in 1 .. L : tag[i] \in F
  OBVIOUS
<1>3. NewSponge \in S
  BY ZeroState, EmptySeq DEF NewSponge, Absorb
<1>4. ASSUME NEW s, Usable(s) PROVE s \in S
  <2>1. PICK state \in State : \/ \E values \in Pending : s = Absorb(values, state)
                               \/ \E k \in 0 .. RATE : s = Squeezing(state, k)
    BY <1>4 DEF Usable
  <2>2. \A k \in 0 .. RATE : RateLeft(state, k) \in Seq(F)
    <3>1. \A k \in 0 .. RATE : RateLeft(state, k) \in [1 .. k -> F]
      BY Constants DEF RateLeft, State
    <3>2. QED
      BY <3>1
  <2>3. s \in [mode : {"absorb", "squeeze"}, values : Seq(F), state : State]
    BY <2>1, <2>2 DEF Absorb, Squeezing, Squeeze, Pending
  <2>4. QED
    BY <1>4, <2>3
<1>5. ASSUME NEW s \in S, NEW i \in 1 .. L PROVE SpongeAbsorb(s, tag[i]) \in S
  <2>1. CASE s = NewSponge
    <3>1. SpongeAbsorb(s, tag[i]) = Absorb(<<tag[i]>>, [j \in 1 .. T |-> 0])
      BY <1>2, <2>1, AbsorbFirst
    <3>2. <<tag[i]>> \in Pending
      BY <1>2, Constants DEF Pending
    <3>3. QED
      BY <1>4, <3>1, <3>2, ZeroState DEF Usable
  <2>2. CASE Usable(s)
    BY <1>2, <1>4, <2>2, AbsorbUsable
  <2>3. QED
    BY <2>1, <2>2
<1> HIDE DEF S
<1>6. Step \in [S \X (0 + 1 .. L) -> S]
  BY <1>5
<1>7. \A s \in S, i \in 1 .. L : Step[<<s, i>>] = SpongeAbsorb(s, tag[i])
  OBVIOUS
<1> HIDE DEF Step
<1>8. PICK f : Follows(f, 0, L, S, NewSponge, Step)
  <2>1. L \in Int /\ 0 \in Int /\ 0 <= L
    BY <1>2
  <2>2. QED
    BY <1>3, <1>6, <2>1, Iterates
<1>9. Solves(f)
  <2>1. f \in [0 .. L -> S] /\ f[0] = NewSponge
    BY <1>8 DEF Follows
  <2>2. ASSUME NEW i \in 1 .. L PROVE f[i] = SpongeAbsorb(f[i - 1], tag[i])
    <3>1. i - 1 \in 0 .. L /\ i \in 0 + 1 .. L
      BY <1>2
    <3>2. f[i - 1] \in S /\ f[i] = Step[<<f[i - 1], i>>]
      BY <1>8, <2>1, <3>1 DEF Follows
    <3>3. QED
      BY <1>7, <3>2
  <2>3. QED
    BY <2>1, <2>2
<1>10. Solves(table)
  BY <1>9
<1> HIDE DEF table
<1>11. TagTable(tag, table)
  <2>1. table[0] = NewSponge
    <3>1. 0 \in 0 .. L
      BY <1>2
    <3>2. QED
      BY <1>10, <3>1, Zenon
  <2>2. ASSUME NEW i \in 1 .. L PROVE table[i] = SpongeAbsorb(table[i - 1], tag[i])
    <3>1. i \in 0 .. L /\ i # 0
      BY <1>2
    <3>2. QED
      BY <1>10, <3>1, Zenon
  <2>3. QED
    BY <2>1, <2>2 DEF TagTable
<1>12. QED
  BY <1>1, <1>11

(* A transcript that wrote its tag has elements pending.                   *)
LEMMA TaggedUsable ==
  ASSUME NEW tag \in Seq(F), tag # <<>>
  PROVE  Usable(Tagged(tag)) /\ Tagged(tag).mode = "absorb"
<1> DEFINE L == Len(tag)
<1>1. PICK absorbed : TagTable(tag, absorbed) /\ Tagged(tag) = absorbed[L]
  BY TagTableExists
<1>2. L \in Nat /\ L >= 1 /\ \A i \in 1 .. L : tag[i] \in F
  OBVIOUS
<1> HIDE DEF L
<1> DEFINE Good == { i \in 1 .. L : Usable(absorbed[i]) /\ absorbed[i].mode = "absorb" }
<1>3. 1 \in Good
  <2>1. absorbed[1] = Absorb(<<tag[1]>>, [i \in 1 .. T |-> 0])
    <3>1. 1 \in 1 .. L /\ 1 - 1 = 0
      BY <1>2
    <3>2. absorbed[1] = SpongeAbsorb(NewSponge, tag[1]) /\ tag[1] \in F
      BY <1>1, <1>2, <3>1 DEF TagTable, L
    <3>3. QED
      BY <3>2, AbsorbFirst
  <2>2. <<tag[1]>> \in Pending
    BY <1>2, Constants DEF Pending
  <2>3. QED
    BY <1>2, <2>1, <2>2, ZeroState, ModesDiffer DEF Usable
<1>4. ASSUME NEW i \in 1 + 1 .. L, i - 1 \in Good PROVE i \in Good
  <2>1. i \in 1 .. L
    BY <1>2
  <2>2. absorbed[i] = SpongeAbsorb(absorbed[i - 1], tag[i])
    BY <1>1, <2>1 DEF TagTable, L
  <2>3. QED
    BY <1>2, <1>4, <2>1, <2>2, AbsorbUsable
<1> HIDE DEF Good
<1>5. \A i \in 1 .. L : i \in Good
  BY <1>2, <1>3, <1>4, Interval
<1>6. QED
  BY <1>1, <1>2, <1>5 DEF Good
-----------------------------------------------------------------------------
(* What links the circuits' sponge to the prover's.  A saved or resumed    *)
(* transcript is a permutation ahead of the prover, which has yet to make  *)
(* it, until the first challenge after the resumption.                     *)
HandOver ==
  /\ Usable(prover) /\ squeezed \in BOOLEAN
  /\ kind \in {"transcript", "saved", "resumed", "failed"}
  /\ kind = "transcript" => sponge = prover
  /\ kind = "saved" => prover.mode = "absorb" /\ sponge.state = Permute(prover).state
  /\ kind = "resumed" /\ squeezed => sponge = prover
  /\ kind = "resumed" /\ ~squeezed =>
       prover.mode = "absorb" /\ sponge = Enter(Permute(prover).state)
  /\ kind = "failed" => sponge.mode = "squeeze"
  /\ out \in Seq(F) /\ outProver = out

(* HandOver holds when the transcript was made and the tag written.        *)
LEMMA HandOverInit == Init => HandOver
<1> SUFFICES ASSUME NEW tag \in Tags,
                    sponge = Tagged(tag), prover = sponge, kind = "transcript",
                    squeezed = FALSE, out = <<>>, outProver = <<>>
             PROVE  HandOver
  BY DEF Init
<1>1. tag \in Seq(F) /\ tag # <<>>
  BY TranscriptAssumption
<1>2. Usable(prover)
  BY <1>1, TaggedUsable
<1>3. out \in Seq(F) /\ kind \notin {"saved", "resumed", "failed"}
  OBVIOUS
<1>4. QED
  BY <1>2, <1>3 DEF HandOver

(* A pending element and the state a save makes of it: entering squeeze    *)
(* mode there is what the first challenge does.                            *)
LEMMA SaveThenSqueeze ==
  ASSUME NEW s, Usable(s), s.mode = "absorb"
  PROVE  /\ s.values # <<>> /\ SaveState(s) = Answer(s, Permute(s).state)
         /\ Permute(s).state \in State
         /\ SpongeSqueeze(Enter(Permute(s).state)) = SpongeSqueeze(s)
<1>1. PICK state \in State, values \in Pending : s = Absorb(values, state)
  BY ModesDiffer DEF Usable
<1> DEFINE q == Permutation(AbsorbInto(state, values))
<1>2. values # <<>> /\ s.values = values /\ s.state = state /\ s.mode # "squeeze"
  BY <1>1, ModesDiffer DEF Pending
<1>3. Permute(s).state = q /\ q \in State
  BY <1>2, AbsorbIntoType, ModesDiffer DEF Permute
<1>4. SaveState(s) = Answer(s, Permute(s).state)
  BY <1>2 DEF SaveState
<1>5. SpongeSqueeze(s) = Answer(Squeezing(q, RATE - 1), q[1])
  BY <1>1, <1>2, SqueezeFirst
<1>6. SpongeSqueeze(Squeezing(q, RATE)) = Answer(Squeezing(q, RATE - 1), q[1])
  <2>1. RATE \in 0 .. RATE /\ RATE # 0 /\ RATE + 1 - RATE = 1
    BY Constants
  <2>2. QED
    BY <2>1, SqueezeAgain
<1>7. QED
  BY <1>2, <1>3, <1>4, <1>5, <1>6, EnterFull

(* Every operation of the circuits and of the prover keeps HandOver.       *)
LEMMA HandOverStep == HandOver /\ [Next]_vars => HandOver'
<1> SUFFICES ASSUME HandOver, [Next]_vars PROVE HandOver'
  OBVIOUS
<1>1. ASSUME NEW v \in Messages, Write(v) PROVE HandOver'
  <2>1. v \in F
    BY TranscriptAssumption
  <2>2. Usable(SpongeAbsorb(prover, v))
    BY <2>1, AbsorbUsable DEF HandOver
  <2>3. QED
    BY <1>1, <2>2 DEF HandOver, Write
<1>2. CASE Challenge
  <2> DEFINE a == SpongeSqueeze(sponge)
             b == SpongeSqueeze(prover)
  <2>1. /\ kind \in {"transcript", "resumed"} /\ kind' = kind
        /\ sponge' = a.sponge /\ out' = Append(out, a.value)
        /\ prover' = b.sponge /\ outProver' = Append(outProver, b.value)
        /\ squeezed' = (kind = "resumed" \/ squeezed)
    BY <1>2 DEF Challenge
  <2>2. a = b
    <3>1. CASE sponge = prover
      BY <3>1
    <3>2. CASE sponge # prover
      <4>1. prover.mode = "absorb" /\ sponge = Enter(Permute(prover).state) /\ Usable(prover)
        BY <2>1, <3>2 DEF HandOver
      <4>2. QED
        BY <4>1, SaveThenSqueeze
    <3>3. QED
      BY <3>1, <3>2
  <2>3. b.value \in F /\ Usable(b.sponge)
    BY SqueezeUsable DEF HandOver
  <2>4. squeezed' \in BOOLEAN /\ (kind' = "resumed" => squeezed')
    BY <2>1 DEF HandOver
  <2> HIDE DEF a, b
  <2>5. out' \in Seq(F) /\ outProver' = out'
    BY <2>1, <2>2, <2>3, AppendProperties DEF HandOver
  <2>6. sponge' = prover' /\ Usable(prover')
    BY <2>1, <2>2, <2>3
  <2>7. QED
    BY <2>1, <2>4, <2>5, <2>6 DEF HandOver
<1>3. CASE Save
  <2>1. kind = "transcript" /\ sponge = prover /\ Usable(prover)
    BY <1>3 DEF HandOver, Save
  <2>2. CASE sponge.mode = "absorb"
    <3>1. SaveState(sponge).value = Permute(prover).state /\ Permute(prover).state \in State
      BY <2>1, <2>2, SaveThenSqueeze DEF Answer
    <3>2. Permute(prover).state # <<>>
      <4>1. DOMAIN Permute(prover).state = 1 .. T
        BY <3>1 DEF State
      <4>2. QED
        BY <4>1, Constants
    <3>3. kind' = "saved" /\ sponge' = [sponge EXCEPT !.state = Permute(prover).state, !.values = <<>>]
      BY <1>3, <3>1, <3>2 DEF Save
    <3>4. sponge'.state = Permute(prover).state
      <4>1. \E values, state : sponge = Absorb(values, state)
        BY <2>1, <2>2, ModesDiffer DEF Usable
      <4>2. QED
        BY <3>3, <4>1 DEF Absorb
    <3>5. QED
      BY <1>3, <2>1, <2>2, <3>3, <3>4 DEF HandOver, Save
  <2>3. CASE sponge.mode # "absorb"
    <3>1. sponge.mode = "squeeze"
      BY <2>1, <2>3, ModesDiffer DEF Usable
    <3>2. SaveState(sponge).value = <<>>
      BY <3>1 DEF SaveState, Answer
    <3>3. QED
      BY <1>3, <3>1, <3>2 DEF HandOver, Save
  <2>4. QED
    BY <2>2, <2>3
<1>4. CASE ResumeFromState
  BY <1>4 DEF HandOver, ResumeFromState, Resume
<1>5. CASE IntoTranscript
  <2>1. CASE squeezed
    BY <1>5, <2>1 DEF HandOver, IntoTranscript
  <2>2. CASE ~squeezed
    <3>1. sponge.mode = "squeeze"
      BY <1>5, <2>2, ModesDiffer, EnterFull DEF HandOver, IntoTranscript
    <3>2. QED
      BY <1>5, <2>2, <3>1 DEF HandOver, IntoTranscript
  <2>3. QED
    BY <2>1, <2>2
<1>6. CASE UNCHANGED vars
  BY <1>6 DEF HandOver, vars
<1>7. QED
  BY <1>1, <1>2, <1>3, <1>4, <1>5, <1>6 DEF Next

(* The circuits a transcript passes through draw the prover's challenges,  *)
(* all of them elements, and only a squeezing transcript is refused.       *)
THEOREM Continues == Spec => []ContinuesAcrossCircuits
<1>1. HandOver => ContinuesAcrossCircuits
  BY FieldArithmetic DEF HandOver, ContinuesAcrossCircuits
<1>2. QED
  BY <1>1, HandOverInit, HandOverStep, PTL DEF Spec
-----------------------------------------------------------------------------
(* The duplex construction: where a run of events starts.                  *)

Event == {"write", "challenge"} \X F
IsStart(events, n, i) ==
  /\ i \in 1 .. n
  /\ \A k \in i .. n : events[k][1] = events[n][1]
  /\ i = 1 \/ events[i - 1][1] # events[n][1]

(* A run of events has one start.                                          *)
LEMMA StartUnique ==
  ASSUME NEW events, NEW n \in Nat, NEW i, NEW j, IsStart(events, n, i), IsStart(events, n, j)
  PROVE  i = j
<1>1. ASSUME NEW k, NEW l, IsStart(events, n, k), IsStart(events, n, l), k < l PROVE FALSE
  <2>1. k \in 1 .. n /\ l \in 1 .. n /\ l - 1 \in k .. n
    BY <1>1 DEF IsStart
  <2>2. QED
    BY <1>1, <2>1 DEF IsStart
<1>2. i \in Int /\ j \in Int
  BY DEF IsStart
<1>3. QED
  BY <1>1, <1>2

(* RunStart finds the start of a run.                                      *)
LEMMA StartIs ==
  ASSUME NEW events, NEW n \in Nat, NEW i, IsStart(events, n, i)
  PROVE  Ideal!RunStart(events, n) = i
<1>1. Ideal!RunStart(events, n) = CHOOSE j \in 1 .. n : IsStart(events, n, j)
  BY DEF Ideal!RunStart, IsStart
<1>2. i \in 1 .. n
  BY DEF IsStart
<1>3. IsStart(events, n, Ideal!RunStart(events, n))
  BY <1>1, <1>2
<1>4. QED
  BY <1>3, StartUnique
(* The next event continues the run, or starts one.                        *)
LEMMA StartNext ==
  ASSUME NEW events, NEW n \in Nat, n >= 1
  PROVE  /\ IsStart(events, 1, 1)
         /\ \A i : IsStart(events, n, i) /\ events[n + 1][1] = events[n][1]
                     => IsStart(events, n + 1, i)
         /\ events[n + 1][1] # events[n][1] => IsStart(events, n + 1, n + 1)
<1>1. IsStart(events, 1, 1)
  BY DEF IsStart
<1>2. ASSUME NEW i, IsStart(events, n, i), events[n + 1][1] = events[n][1]
      PROVE  IsStart(events, n + 1, i)
  <2>1. i \in 1 .. n + 1 /\ \A k \in i .. n + 1 : k \in i .. n \/ k = n + 1
    BY <1>2 DEF IsStart
  <2>2. QED
    BY <1>2, <2>1 DEF IsStart
<1>3. ASSUME events[n + 1][1] # events[n][1] PROVE IsStart(events, n + 1, n + 1)
  <2>1. n + 1 \in 1 .. n + 1 /\ n + 1 - 1 = n /\ \A k \in n + 1 .. n + 1 : k = n + 1
    OBVIOUS
  <2>2. QED
    BY <1>3, <2>1 DEF IsStart
<1>4. QED
  BY <1>1, <1>2, <1>3

(* Every event is in a run.                                                *)
LEMMA StartExists ==
  ASSUME NEW events, NEW n \in Nat, n >= 1
  PROVE  IsStart(events, n, Ideal!RunStart(events, n))
<1> DEFINE U == { k \in 1 .. n : \E i : IsStart(events, k, i) }
<1>1. 1 \in U
  <2>1. IsStart(events, 1, 1)
    BY DEF IsStart
  <2>2. QED
    BY <2>1
<1>2. ASSUME NEW k \in 1 + 1 .. n, k - 1 \in U PROVE k \in U
  <2>1. PICK i : IsStart(events, k - 1, i)
    BY <1>2
  <2>2. k - 1 \in Nat /\ k - 1 >= 1 /\ (k - 1) + 1 = k
    OBVIOUS
  <2>3. \E j : IsStart(events, k, j)
    <3>1. CASE events[k][1] = events[k - 1][1]
      BY <2>1, <2>2, <3>1, StartNext
    <3>2. CASE events[k][1] # events[k - 1][1]
      <4> DEFINE h == k - 1
      <4>1. h \in Nat /\ h >= 1 /\ h + 1 = k /\ events[h + 1][1] # events[h][1]
        BY <2>2, <3>2
      <4> HIDE DEF h
      <4>2. IsStart(events, h + 1, h + 1)
        BY <4>1, StartNext
      <4>3. QED
        BY <4>1, <4>2
    <3>3. QED
      BY <3>1, <3>2
  <2>4. QED
    BY <2>3
<1> HIDE DEF U
<1>3. \A k \in 1 .. n : k \in U
  BY <1>1, <1>2, Interval
<1>4. PICK i : IsStart(events, n, i)
  BY <1>3 DEF U
<1>5. QED
  BY <1>4, StartIs

(* The first event is the first of its block.                              *)
LEMMA PlaceFirst == ASSUME NEW events PROVE Ideal!Place(events, 1) = 0
<1>1. IsStart(events, 1, 1)
  BY DEF IsStart
<1>2. Ideal!RunStart(events, 1) = 1
  BY <1>1, StartIs
<1>3. 0 % RATE = 0
  BY Constants, Remainder
<1>4. QED
  BY <1>2, <1>3 DEF Ideal!Place

(* Places count up within a block and a run, and start again after them.   *)
LEMMA PlaceNext ==
  ASSUME NEW events, NEW n \in Nat, n >= 1
  PROVE  /\ Ideal!Place(events, n) \in 0 .. RATE - 1 /\ Ideal!Place(events, n) < n
         /\ events[n + 1][1] = events[n][1] =>
              Ideal!Place(events, n + 1) =
                IF Ideal!Place(events, n) = RATE - 1 THEN 0 ELSE Ideal!Place(events, n) + 1
         /\ events[n + 1][1] # events[n][1] => Ideal!Place(events, n + 1) = 0
<1> DEFINE i == Ideal!RunStart(events, n)
<1>1. IsStart(events, n, i)
  BY StartExists
<1> HIDE DEF i
<1>2. i \in 1 .. n /\ n - i \in Nat /\ n + 1 \in Nat /\ RATE \in Nat /\ RATE >= 1
  BY <1>1, Constants DEF IsStart
<1>3. Ideal!Place(events, n) = (n - i) % RATE
  BY DEF Ideal!Place, i
<1>4. ASSUME events[n + 1][1] = events[n][1]
      PROVE  Ideal!Place(events, n + 1) = ((n - i) + 1) % RATE
  <2>1. Ideal!RunStart(events, n + 1) = i
    BY <1>1, <1>2, <1>4, StartNext, StartIs
  <2>2. (n + 1) - i = (n - i) + 1
    BY <1>2
  <2>3. QED
    BY <2>1, <2>2 DEF Ideal!Place
<1>5. ASSUME events[n + 1][1] # events[n][1] PROVE Ideal!Place(events, n + 1) = 0
  <2>1. Ideal!RunStart(events, n + 1) = n + 1
    BY <1>2, <1>5, StartNext, StartIs
  <2>2. (n + 1) - (n + 1) = 0
    OBVIOUS
  <2>3. QED
    BY <1>2, <2>1, <2>2, Remainder DEF Ideal!Place
<1>6. (n - i) % RATE \in 0 .. RATE - 1 /\ (n - i) % RATE <= n - i
  BY <1>2, Remainder
<1>7. ((n - i) + 1) % RATE = IF (n - i) % RATE = RATE - 1 THEN 0 ELSE ((n - i) % RATE) + 1
  BY <1>2, Remainder
<1>8. (n - i) % RATE < n
  BY <1>2, <1>6
<1>9. QED
  BY <1>3, <1>4, <1>5, <1>6, <1>7, <1>8
-----------------------------------------------------------------------------
(* The duplex construction: what an event meets.                           *)

(* An event is a write or a challenge, with an element.                    *)
LEMMA EventTypes ==
  ASSUME NEW events \in Seq(Event), NEW n \in 1 .. Len(events)
  PROVE  /\ events[n][1] \in {"write", "challenge"} /\ events[n][2] \in F
         /\ "write" # "challenge"
<1>1. events[n] \in Event
  OBVIOUS
<1>2. QED
  BY <1>1 DEF Event

(* The block that ends with event n has elements only.                     *)
LEMMA BlockType ==
  ASSUME NEW events \in Seq(Event), NEW n \in 1 .. Len(events)
  PROVE  \A k \in 0 .. Ideal!Place(events, n) :
           /\ n - Ideal!Place(events, n) + k \in 1 .. n
           /\ events[n - Ideal!Place(events, n) + k][2] \in F
<1> DEFINE p == Ideal!Place(events, n)
<1>1. n \in Nat /\ n >= 1
  OBVIOUS
<1>2. p \in 0 .. RATE - 1 /\ p < n
  BY <1>1, PlaceNext
<1> HIDE DEF p
<1>3. ASSUME NEW k \in 0 .. p PROVE n - p + k \in 1 .. n /\ events[n - p + k][2] \in F
  <2>1. n - p + k \in 1 .. n /\ n - p + k \in 1 .. Len(events)
    BY <1>1, <1>2
  <2>2. QED
    BY <2>1, EventTypes
<1>4. QED
  BY <1>3 DEF p

(* Flushing a block gives a state.                                         *)
LEMMA FlushedType ==
  ASSUME NEW events \in Seq(Event), NEW n \in 1 .. Len(events), NEW before \in State
  PROVE  Ideal!Flushed(events, n, before) \in State
<1> DEFINE p == Ideal!Place(events, n)
           block == Ideal!Block(events, n)
           mixed == [i \in 1 .. T |-> IF i - 1 \in DOMAIN block THEN (before[i] + block[i - 1]) % P
                                                               ELSE before[i]]
<1>1. p \in 0 .. RATE - 1
  BY PlaceNext
<1>2. DOMAIN block = 0 .. p /\ \A k \in 0 .. p : block[k] \in F
  BY BlockType DEF Ideal!Block
<1>3. \A a, b \in F : (a + b) % P \in F
  BY FieldArithmetic DEF Plus
<1> HIDE DEF block, p
<1>4. mixed \in State
  BY <1>2, <1>3 DEF State
<1>5. Ideal!Mixed(before, block) = Permutation(mixed)
  BY DEF Ideal!Mixed
<1>6. QED
  BY <1>4, <1>5, PermutationType DEF Ideal!Flushed, block

(* What an event meets is a state when what the event before it met is.    *)
LEMMA AfterType ==
  ASSUME NEW events \in Seq(Event), NEW n \in 2 .. Len(events), NEW before \in State
  PROVE  Ideal!After(events, n, before) \in State
<1>1. n - 1 \in 1 .. Len(events)
  OBVIOUS
<1>2. Ideal!Flushed(events, n - 1, before) \in State
  BY <1>1, FlushedType
<1>3. QED
  BY <1>2 DEF Ideal!After

(* The recursion Met is defined by.                                        *)
Zero == [i \in 1 .. T |-> 0]
MetTable(events, met) ==
  /\ met[1] = Zero
  /\ \A n \in 2 .. Len(events) : met[n] = Ideal!After(events, n, met[n - 1])

(* The recursion that defines Met has a solution, of states, and it is     *)
(* that of Met.                                                            *)
LEMMA MetTableExists ==
  ASSUME NEW events \in Seq(Event), events # <<>>
  PROVE  \E met : /\ MetTable(events, met) /\ Ideal!Met(events) = met[Len(events)]
                  /\ \A n \in 1 .. Len(events) : met[n] \in State
<1> DEFINE L == Len(events)
           Solves(met) ==
             met = [n \in 1 .. L |-> IF n = 1 THEN Zero ELSE Ideal!After(events, n, met[n - 1])]
           table == CHOOSE met : Solves(met)
           Step == [p \in State \X (1 + 1 .. L) |-> Ideal!After(events, p[2], p[1])]
<1>1. Ideal!Met(events) = table[L]
  BY DEF Ideal!Met, Zero
<1>2. L \in Nat /\ L >= 1 /\ 1 + 1 = 2
  OBVIOUS
<1>3. Zero \in State
  BY ZeroState DEF Zero
<1>4. \A s \in State, n \in 2 .. L : Ideal!After(events, n, s) \in State
  BY AfterType
<1> HIDE DEF L
<1>5. Step \in [State \X (1 + 1 .. L) -> State]
  BY <1>2, <1>4
<1>6. \A s \in State, n \in 2 .. L : Step[<<s, n>>] = Ideal!After(events, n, s)
  BY <1>2
<1> HIDE DEF Step
<1>7. PICK f : Follows(f, 1, L, State, Zero, Step)
  <2>1. L \in Int /\ 1 \in Int /\ 1 <= L
    BY <1>2
  <2>2. QED
    BY <1>3, <1>5, <2>1, Iterates
<1>8. Solves(f)
  <2>1. f \in [1 .. L -> State] /\ f[1] = Zero
    BY <1>7 DEF Follows
  <2>2. ASSUME NEW n \in 2 .. L PROVE f[n] = Ideal!After(events, n, f[n - 1])
    <3>1. n - 1 \in 1 .. L /\ n \in 1 + 1 .. L
      BY <1>2
    <3>2. f[n - 1] \in State /\ f[n] = Step[<<f[n - 1], n>>]
      BY <1>7, <2>1, <3>1 DEF Follows
    <3>3. QED
      BY <1>6, <3>2
  <2>3. ASSUME NEW n \in 1 .. L
        PROVE  f[n] = IF n = 1 THEN Zero ELSE Ideal!After(events, n, f[n - 1])
    BY <2>1, <2>2
  <2>4. QED
    BY <2>1, <2>3
<1>9. Solves(table)
  BY <1>8
<1> HIDE DEF table
<1>10. table[1] = Zero
  <2>1. 1 \in 1 .. L
    BY <1>2
  <2>2. QED
    BY <1>9, <2>1, Zenon
<1>11. ASSUME NEW n \in 2 .. L PROVE table[n] = Ideal!After(events, n, table[n - 1])
  <2>1. n \in 1 .. L /\ n # 1
    BY <1>2
  <2>2. QED
    BY <1>9, <2>1, Zenon
<1>12. \A n \in 1 .. L : table[n] \in State
  <2>1. table[1] \in State
    BY <1>3, <1>10
  <2>2. \A n \in 1 + 1 .. L : table[n - 1] \in State => table[n] \in State
    BY <1>2, <1>4, <1>11
  <2>3. L \in Int /\ 1 \in Int /\ 1 <= L
    BY <1>2
  <2>4. QED
    BY <2>1, <2>2, <2>3, Stays
<1>13. QED
  BY <1>1, <1>10, <1>11, <1>12 DEF MetTable, L
(* One more event changes nothing before it.                               *)
LEMMA Prefix ==
  ASSUME NEW events \in Seq(Event), NEW e \in Event, NEW n \in 1 .. Len(events)
  PROVE  LET longer == Append(events, e)
         IN  /\ longer \in Seq(Event) /\ Len(longer) = Len(events) + 1
             /\ longer[n] = events[n] /\ longer[Len(events) + 1] = e
             /\ Ideal!Place(longer, n) = Ideal!Place(events, n)
             /\ Ideal!Block(longer, n) = Ideal!Block(events, n)
<1> DEFINE longer == Append(events, e)
           L == Len(events)
           i == Ideal!RunStart(events, n)
<1>1. longer \in Seq(Event) /\ Len(longer) = L + 1 /\ longer[L + 1] = e
      /\ \A k \in 1 .. L : longer[k] = events[k]
  BY AppendProperties
<1>2. n \in Nat /\ n >= 1 /\ L \in Nat /\ n <= L
  OBVIOUS
<1> HIDE DEF longer, L, i
<1>3. IsStart(events, n, i)
  BY <1>2, StartExists DEF i
<1>4. i \in 1 .. n /\ \A k \in i .. n : longer[k] = events[k]
  BY <1>1, <1>2, <1>3 DEF IsStart
<1>5. i # 1 => longer[i - 1] = events[i - 1]
  BY <1>1, <1>2, <1>4
<1>6. IsStart(longer, n, i)
  BY <1>3, <1>4, <1>5 DEF IsStart
<1>7. Ideal!RunStart(longer, n) = i
  BY <1>2, <1>6, StartIs
<1>8. Ideal!Place(longer, n) = Ideal!Place(events, n)
  BY <1>7 DEF Ideal!Place, i
<1>9. Ideal!Block(longer, n) = Ideal!Block(events, n)
  <2> DEFINE p == Ideal!Place(events, n)
  <2>1. \A k \in 0 .. p : n - p + k \in 1 .. n
    BY BlockType DEF L
  <2>2. \A k \in 0 .. p : longer[n - p + k] = events[n - p + k]
    BY <1>1, <1>2, <2>1
  <2> HIDE DEF p
  <2>3. [k \in 0 .. p |-> longer[n - p + k][2]] = [k \in 0 .. p |-> events[n - p + k][2]]
    BY <2>2
  <2>4. QED
    BY <1>8, <2>3 DEF Ideal!Block, p
<1>10. longer[n] = events[n]
  BY <1>1, <1>2
<1>11. QED
  BY <1>1, <1>8, <1>9, <1>10 DEF longer, L

(* What one more event meets, from what the last event met.                *)
LEMMA MetNext ==
  ASSUME NEW events \in Seq(Event), events # <<>>, NEW e \in Event
  PROVE  /\ Ideal!Met(events) \in State
         /\ Ideal!Met(Append(events, e)) =
              Ideal!After(Append(events, e), Len(events) + 1, Ideal!Met(events))
<1> DEFINE longer == Append(events, e)
           L == Len(events)
<1>1. L \in Nat /\ L >= 1 /\ longer \in Seq(Event) /\ Len(longer) = L + 1 /\ longer # <<>>
  BY AppendProperties
<1>2. PICK met : /\ MetTable(events, met) /\ Ideal!Met(events) = met[L]
                 /\ \A n \in 1 .. L : met[n] \in State
  BY MetTableExists
<1>3. PICK lmet : /\ MetTable(longer, lmet) /\ Ideal!Met(longer) = lmet[L + 1]
  BY <1>1, MetTableExists
<1>4. ASSUME NEW n \in 2 .. L, NEW b PROVE Ideal!After(longer, n, b) = Ideal!After(events, n, b)
  <2>1. n \in 1 .. L /\ n - 1 \in 1 .. L
    BY <1>1
  <2>2. /\ longer[n] = events[n] /\ longer[n - 1] = events[n - 1]
        /\ Ideal!Place(longer, n) = Ideal!Place(events, n)
        /\ Ideal!Block(longer, n - 1) = Ideal!Block(events, n - 1)
    BY <2>1, Prefix
  <2>3. Ideal!Flushed(longer, n - 1, b) = Ideal!Flushed(events, n - 1, b)
    BY <2>2 DEF Ideal!Flushed
  <2>4. QED
    BY <2>2, <2>3 DEF Ideal!After
<1> HIDE DEF longer, L
<1> DEFINE U == { n \in 1 .. L : lmet[n] = met[n] }
<1>5. 1 \in U
  BY <1>1, <1>2, <1>3 DEF MetTable
<1>6. ASSUME NEW n \in 1 + 1 .. L, n - 1 \in U PROVE n \in U
  <2>1. n \in 2 .. L /\ n \in 2 .. L + 1 /\ n \in 1 .. L
    BY <1>1
  <2>2. met[n] = Ideal!After(events, n, met[n - 1])
    BY <1>2, <2>1 DEF MetTable, L
  <2>3. lmet[n] = Ideal!After(longer, n, lmet[n - 1])
    BY <1>1, <1>3, <2>1 DEF MetTable
  <2>4. QED
    BY <1>4, <1>6, <2>1, <2>2, <2>3
<1> HIDE DEF U
<1>7. L \in U
  <2>1. \A n \in 1 .. L : n \in U
    <3>1. 1 \in Int /\ L \in Int
      BY <1>1
    <3>2. QED
      BY <1>5, <1>6, <3>1, Interval
  <2>2. QED
    BY <1>1, <2>1
<1>8. lmet[L + 1] = Ideal!After(longer, L + 1, lmet[L])
  <2>1. L + 1 \in 2 .. L + 1 /\ (L + 1) - 1 = L
    BY <1>1
  <2>2. QED
    BY <1>1, <1>3, <2>1 DEF MetTable
<1>9. L \in 1 .. L
  BY <1>1
<1>10. QED
  BY <1>2, <1>3, <1>7, <1>8, <1>9 DEF U, longer, L
-----------------------------------------------------------------------------
(* The prover's sponge follows the log: after a write its buffer is the    *)
(* block that ends there, after a challenge the rate not drawn yet.        *)
Holds(values, events) ==
  LET n == Len(events)
  IN  /\ values \in Pending /\ Len(values) = Ideal!Place(events, n) + 1
      /\ \A k \in 0 .. Ideal!Place(events, n) : values[k + 1] = Ideal!Block(events, n)[k]
Tracks(s, events) ==
  LET n == Len(events)
  IN  /\ events \in Seq(Event) /\ events # <<>>
      /\ events[n][1] = "write" =>
           \E values : Holds(values, events) /\ s = Absorb(values, Ideal!Met(events))
      /\ events[n][1] = "challenge" =>
           s = Squeezing(Ideal!Met(events), RATE - 1 - Ideal!Place(events, n))

(* Mixing a block into the state is absorbing its elements.                *)
LEMMA MixedIs ==
  ASSUME NEW events \in Seq(Event), events # <<>>, NEW values, Holds(values, events), NEW m
  PROVE  Ideal!Mixed(m, Ideal!Block(events, Len(events))) = Permutation(AbsorbInto(m, values))
<1> DEFINE p == Ideal!Place(events, Len(events))
           block == Ideal!Block(events, Len(events))
<1>1. p \in Nat
  BY PlaceNext
<1>2. DOMAIN block = 0 .. p
  BY DEF Ideal!Block
<1>3. Len(values) = p + 1 /\ \A k \in 0 .. p : values[k + 1] = block[k]
  BY DEF Holds
<1> HIDE DEF p, block
<1>4. ASSUME NEW i \in 1 .. T
      PROVE  /\ i - 1 \in DOMAIN block <=> i <= Len(values)
             /\ i <= Len(values) => block[i - 1] = values[i]
  <2>1. i \in Nat /\ i >= 1
    BY Constants
  <2>2. i <= Len(values) => i - 1 \in 0 .. p /\ (i - 1) + 1 = i
    BY <1>1, <1>3, <2>1
  <2>3. QED
    BY <1>1, <1>2, <1>3, <2>1, <2>2
<1>5. [i \in 1 .. T |-> IF i - 1 \in DOMAIN block THEN (m[i] + block[i - 1]) % P ELSE m[i]]
      = [i \in 1 .. T |-> IF i <= Len(values) THEN (m[i] + values[i]) % P ELSE m[i]]
  BY <1>4
<1>6. QED
  BY <1>5 DEF Ideal!Mixed, AbsorbInto, Plus, block

(* A sponge that tracks a log tracks it after one more write.              *)
LEMMA TracksWrite ==
  ASSUME NEW s, NEW events, Tracks(s, events), NEW v \in F
  PROVE  Tracks(SpongeAbsorb(s, v), Append(events, <<"write", v>>))
<1> DEFINE e == <<"write", v>>
           longer == Append(events, e)
           n == Len(events)
           m == Ideal!Met(events)
           p == Ideal!Place(events, n)
<1>1. events \in Seq(Event) /\ events # <<>> /\ n \in Nat /\ n >= 1 /\ n \in 1 .. n /\ e \in Event
  BY DEF Tracks, Event
<1>2. /\ longer \in Seq(Event) /\ Len(longer) = n + 1 /\ longer[n + 1] = e
      /\ \A k \in 1 .. n : longer[k] = events[k]
      /\ Ideal!Place(longer, n) = p /\ Ideal!Block(longer, n) = Ideal!Block(events, n)
  BY <1>1, Prefix
<1>3. m \in State /\ Ideal!Met(longer) = Ideal!After(longer, n + 1, m)
  BY <1>1, MetNext
<1>4. e[1] = "write" /\ e[2] = v /\ "write" # "challenge" /\ (n + 1) - 1 = n
  BY <1>1
<1>5. longer # <<>> /\ p \in 0 .. RATE - 1 /\ p < n /\ events[n][1] \in {"write", "challenge"}
  BY <1>1, <1>2, PlaceNext, EventTypes
<1> HIDE DEF e, longer, n, m, p
<1>6. longer[n + 1][1] = "write" /\ longer[n + 1][2] = v
  BY <1>2, <1>4
<1>7. ASSUME Ideal!Place(longer, n + 1) = 0 PROVE Holds(<<v>>, longer)
  <2>1. Ideal!Block(longer, n + 1)[0] = v
    BY <1>1, <1>6, <1>7 DEF Ideal!Block
  <2>2. <<v>> \in Pending
    BY Constants DEF Pending
  <2>3. \A k \in 0 .. 0 : k = 0
    OBVIOUS
  <2>4. <<v>>[0 + 1] = v /\ Len(<<v>>) = 0 + 1
    OBVIOUS
  <2>5. QED
    BY <1>2, <1>7, <2>1, <2>2, <2>3, <2>4 DEF Holds
<1>8. CASE events[n][1] = "challenge"
  <2>1. Ideal!Place(longer, n + 1) = 0
    BY <1>1, <1>2, <1>4, <1>6, <1>8, PlaceNext
  <2>2. Ideal!Met(longer) = m
    BY <1>2, <1>1, <1>3, <1>4, <1>6, <1>8 DEF Ideal!After
  <2>3. SpongeAbsorb(s, v) = Absorb(<<v>>, m)
    BY <1>8, AbsorbMore DEF Tracks, n, m
  <2>4. QED
    BY <1>2, <1>4, <1>5, <1>6, <1>7, <2>1, <2>2, <2>3 DEF Tracks, longer, e
<1>9. CASE events[n][1] = "write"
  <2>1. PICK values : Holds(values, events) /\ s = Absorb(values, m)
    BY <1>9 DEF Tracks, n, m
  <2>2. /\ values \in Pending /\ Len(values) = p + 1
        /\ \A k \in 0 .. p : values[k + 1] = Ideal!Block(events, n)[k]
    BY <2>1 DEF Holds, p, n
  <2>3. Ideal!Place(longer, n + 1) = IF p = RATE - 1 THEN 0 ELSE p + 1
    BY <1>1, <1>2, <1>6, <1>9, PlaceNext
  <2>4. CASE p = RATE - 1
    <3>1. Ideal!Met(longer) = Ideal!Flushed(longer, n, m)
      <4>1. Ideal!Place(longer, n + 1) = 0 /\ longer[n][1] = "write"
        BY <1>1, <1>2, <1>9, <2>3, <2>4
      <4>2. Ideal!After(longer, n + 1, m) = Ideal!Flushed(longer, n, m)
        BY <1>4, <4>1 DEF Ideal!After
      <4>3. QED
        BY <1>3, <4>2
    <3>2. Ideal!Flushed(longer, n, m) = Permutation(AbsorbInto(m, values))
      BY <1>1, <1>2, <1>9, <2>1, MixedIs DEF Ideal!Flushed, n
    <3>3. Len(values) = RATE
      BY <2>2, <2>4, Constants
    <3>4. SpongeAbsorb(s, v) = Absorb(<<v>>, Permutation(AbsorbInto(m, values)))
      BY <2>1, <3>3, AbsorbMore
    <3>5. QED
      BY <1>2, <1>4, <1>5, <1>6, <1>7, <2>3, <2>4, <3>1, <3>2, <3>4 DEF Tracks, longer, e
  <2>5. CASE p # RATE - 1
    <3>1. Ideal!Place(longer, n + 1) = p + 1 /\ p + 1 # 0
      BY <1>5, <2>3, <2>5
    <3>2. Ideal!Met(longer) = m
      BY <1>3, <3>1 DEF Ideal!After
    <3>3. Len(values) # RATE /\ Len(values) + 1 <= RATE
      BY <1>5, <2>2, <2>5, Constants
    <3>4. SpongeAbsorb(s, v) = Absorb(Append(values, v), m)
      BY <2>1, <3>3, AbsorbMore
    <3>5. /\ Append(values, v) \in Seq(F) /\ Len(Append(values, v)) = Len(values) + 1
          /\ Append(values, v)[Len(values) + 1] = v
          /\ \A k \in 1 .. Len(values) : Append(values, v)[k] = values[k]
      BY <2>2, AppendProperties DEF Pending
    <3>6. Append(values, v) \in Pending
      BY <3>3, <3>5, <2>2 DEF Pending
    <3>7. ASSUME NEW k \in 0 .. p + 1
          PROVE  Append(values, v)[k + 1] = Ideal!Block(longer, n + 1)[k]
      <4>1. Ideal!Block(longer, n + 1)[k] = longer[(n + 1) - (p + 1) + k][2]
        BY <3>1 DEF Ideal!Block
      <4>2. CASE k = p + 1
        <5>1. (n + 1) - (p + 1) + k = n + 1 /\ k + 1 = Len(values) + 1
          BY <1>1, <1>5, <2>2, <4>2
        <5>2. QED
          BY <1>6, <3>5, <4>1, <5>1
      <4>3. CASE k # p + 1
        <5>1. k \in 0 .. p /\ (n + 1) - (p + 1) + k = n - p + k /\ k + 1 \in 1 .. Len(values)
          BY <1>1, <1>5, <2>2, <4>3
        <5>2. n - p + k \in 1 .. n
          BY <1>1, <1>5, <5>1
        <5>3. Ideal!Block(events, n)[k] = events[n - p + k][2]
          BY <5>1 DEF Ideal!Block, p
        <5>4. QED
          BY <1>2, <2>2, <3>5, <4>1, <5>1, <5>2, <5>3
      <4>4. QED
        BY <4>2, <4>3
    <3>8. Holds(Append(values, v), longer)
      BY <1>2, <2>2, <3>1, <3>5, <3>6, <3>7 DEF Holds
    <3>9. QED
      BY <1>2, <1>4, <1>5, <1>6, <3>2, <3>4, <3>8 DEF Tracks, longer, e
  <2>6. QED
    BY <2>4, <2>5
<1>10. QED
  BY <1>5, <1>8, <1>9
(* A sponge that tracks a log draws the ideal challenge and tracks the log *)
(* with it.                                                                *)
LEMMA TracksChallenge ==
  ASSUME NEW s, NEW events, Tracks(s, events)
  PROVE  LET longer == Append(events, <<"challenge", 0>>)
         IN  /\ Tracks(SpongeSqueeze(s).sponge, longer)
             /\ SpongeSqueeze(s).value = Ideal!IdealChallenge(longer)
<1> DEFINE e == <<"challenge", 0>>
           longer == Append(events, e)
           n == Len(events)
           m == Ideal!Met(events)
           p == Ideal!Place(events, n)
           q == Ideal!Place(longer, n + 1)
           next == Ideal!Met(longer)
<1>1. events \in Seq(Event) /\ events # <<>> /\ n \in Nat /\ n >= 1 /\ n \in 1 .. n /\ e \in Event
  BY FieldArithmetic DEF Tracks, Event
<1>2. /\ longer \in Seq(Event) /\ Len(longer) = n + 1 /\ longer[n + 1] = e /\ longer # <<>>
      /\ \A k \in 1 .. n : longer[k] = events[k]
      /\ Ideal!Place(longer, n) = p /\ Ideal!Block(longer, n) = Ideal!Block(events, n)
  BY <1>1, Prefix
<1>3. m \in State /\ next = Ideal!After(longer, n + 1, m)
  BY <1>1, MetNext
<1>4. e[1] = "challenge" /\ "write" # "challenge" /\ (n + 1) - 1 = n
  BY <1>1
<1>5. p \in 0 .. RATE - 1 /\ events[n][1] \in {"write", "challenge"}
  BY <1>1, PlaceNext, EventTypes
<1> HIDE DEF e, longer, n, m, p, q, next
<1>6. longer[n + 1][1] = "challenge"
  BY <1>2, <1>4
(* It is enough that the sponge meets what the construction meets.         *)
<1>7. ASSUME SpongeSqueeze(s) = Answer(Squeezing(next, RATE - 1 - q), next[q + 1])
      PROVE  /\ Tracks(SpongeSqueeze(s).sponge, longer)
             /\ SpongeSqueeze(s).value = Ideal!IdealChallenge(longer)
  <2>1. Tracks(SpongeSqueeze(s).sponge, longer)
    BY <1>2, <1>4, <1>6, <1>7 DEF Tracks, Answer, next, q
  <2>2. SpongeSqueeze(s).value = Ideal!IdealChallenge(longer)
    BY <1>2, <1>7 DEF Answer, Ideal!IdealChallenge, next, q
  <2>3. QED
    BY <2>1, <2>2
<1>8. q = 0 => next = Ideal!Flushed(longer, n, m)
  BY <1>1, <1>3, <1>4, <1>6 DEF Ideal!After, q
<1>9. CASE events[n][1] = "write"
  <2>1. q = 0
    BY <1>1, <1>2, <1>4, <1>6, <1>9, PlaceNext DEF q
  <2>2. PICK values : Holds(values, events) /\ s = Absorb(values, m)
    BY <1>9 DEF Tracks, n, m
  <2>3. values # <<>>
    BY <2>2 DEF Holds, Pending
  <2>4. next = Permutation(AbsorbInto(m, values))
    BY <1>1, <1>2, <1>8, <1>9, <2>1, <2>2, MixedIs DEF Ideal!Flushed, n
  <2>5. SpongeSqueeze(s) = Answer(Squeezing(next, RATE - 1), next[1])
    BY <2>2, <2>3, <2>4, SqueezeFirst
  <2>6. RATE - 1 - q = RATE - 1 /\ q + 1 = 1
    BY <2>1, Constants
  <2>7. QED
    BY <1>7, <2>5, <2>6 DEF longer, e
<1>10. CASE events[n][1] = "challenge"
  <2>1. q = IF p = RATE - 1 THEN 0 ELSE p + 1
    BY <1>1, <1>2, <1>6, <1>10, PlaceNext DEF q
  <2>2. s = Squeezing(m, RATE - 1 - p) /\ RATE - 1 - p \in 0 .. RATE
    BY <1>5, <1>10, Constants DEF Tracks, n, m, p
  <2>3. CASE p = RATE - 1
    <3>1. next = Permutation(m)
      BY <1>2, <1>1, <1>4, <1>8, <1>10, <2>1, <2>3 DEF Ideal!Flushed
    <3>2. RATE - 1 - p = 0 /\ RATE - 1 - q = RATE - 1 /\ q + 1 = 1
      BY <2>1, <2>3, Constants
    <3>3. SpongeSqueeze(s) = Answer(Squeezing(next, RATE - 1), next[1])
      BY <2>2, <3>1, <3>2, SqueezeAgain
    <3>4. QED
      BY <1>7, <3>2, <3>3 DEF longer, e
  <2>4. CASE p # RATE - 1
    <3>1. q = p + 1 /\ q # 0
      BY <1>5, <2>1, <2>4
    <3>2. next = m
      BY <1>3, <3>1 DEF Ideal!After, q
    <3>3. /\ RATE - 1 - p # 0 /\ RATE - 1 - q = (RATE - 1 - p) - 1
          /\ q + 1 = RATE + 1 - (RATE - 1 - p)
      BY <1>5, <2>4, <3>1, Constants
    <3>4. SpongeSqueeze(s) = Answer(Squeezing(next, RATE - 1 - q), next[q + 1])
      BY <2>2, <3>2, <3>3, SqueezeAgain
    <3>5. QED
      BY <1>7, <3>4 DEF longer, e
  <2>5. QED
    BY <2>3, <2>4
<1>11. QED
  BY <1>5, <1>9, <1>10 DEF longer, e

(* The tag is the first run of writes.                                     *)
Logged(tag, n) == [i \in 1 .. n |-> <<"write", tag[i]>>]

(* The sponge that wrote the tag tracks the log of its elements.           *)
LEMMA TracksTag ==
  ASSUME NEW tag \in Seq(F), tag # <<>>
  PROVE  Tracks(Tagged(tag), Logged(tag, Len(tag)))
<1> DEFINE L == Len(tag)
<1>1. PICK absorbed : TagTable(tag, absorbed) /\ Tagged(tag) = absorbed[L]
  BY TagTableExists
<1>2. L \in Nat /\ L >= 1 /\ \A i \in 1 .. L : tag[i] \in F
  OBVIOUS
<1>3. \A i \in 1 .. L : absorbed[i] = SpongeAbsorb(absorbed[i - 1], tag[i])
  BY <1>1 DEF TagTable
<1> HIDE DEF L
<1>4. \A n \in 1 .. L : Logged(tag, n) \in Seq(Event)
  <2>1. \A n \in 1 .. L : Logged(tag, n) \in [1 .. n -> Event]
    BY <1>2 DEF Logged, Event
  <2>2. QED
    BY <1>2, <2>1
<1> DEFINE U == { n \in 1 .. L : Tracks(absorbed[n], Logged(tag, n)) }
<1>5. 1 \in U
  <2> DEFINE v == tag[1]
             events == Logged(tag, 1)
  <2>1. v \in F /\ events \in Seq(Event) /\ 1 \in 1 .. L
    BY <1>2, <1>4
  <2>2. events[1] = <<"write", v>> /\ Len(events) = 1 /\ events # <<>>
    BY DEF Logged
  <2>3. absorbed[1] = Absorb(<<v>>, Zero)
    <3>1. absorbed[1] = SpongeAbsorb(NewSponge, v)
      BY <1>1, <1>3, <2>1 DEF TagTable
    <3>2. QED
      BY <2>1, <3>1, AbsorbFirst DEF Zero
  <2> HIDE DEF events, v
  <2>4. Ideal!Met(events) = Zero
    BY <2>1, <2>2, MetTableExists DEF MetTable
  <2>5. Ideal!Place(events, 1) = 0
    BY PlaceFirst
  <2>6. Holds(<<v>>, events)
    <3>1. Ideal!Block(events, 1)[0] = v
      BY <2>2, <2>5 DEF Ideal!Block
    <3>2. <<v>> \in Pending
      BY <2>1, Constants DEF Pending
    <3>3. (\A k \in 0 .. 0 : k = 0) /\ <<v>>[0 + 1] = v /\ Len(<<v>>) = 0 + 1
      OBVIOUS
    <3>4. QED
      BY <2>2, <2>5, <3>1, <3>2, <3>3 DEF Holds
  <2>7. Tracks(absorbed[1], events)
    BY <2>1, <2>2, <2>3, <2>4, <2>6 DEF Tracks
  <2>8. QED
    BY <2>1, <2>7 DEF events
<1>6. ASSUME NEW n \in 1 + 1 .. L, n - 1 \in U PROVE n \in U
  <2>1. n \in 1 .. L /\ n - 1 \in 1 .. L
    BY <1>2
  <2>2. Logged(tag, n) = Append(Logged(tag, n - 1), <<"write", tag[n]>>)
    <3>1. /\ Append(Logged(tag, n - 1), <<"write", tag[n]>>) \in Seq(Event)
          /\ Len(Append(Logged(tag, n - 1), <<"write", tag[n]>>)) = n
          /\ \A i \in 1 .. n : Append(Logged(tag, n - 1), <<"write", tag[n]>>)[i] = <<"write", tag[i]>>
      <4>1. Logged(tag, n - 1) \in Seq(Event) /\ <<"write", tag[n]>> \in Event
        BY <1>2, <1>4, <2>1 DEF Event
      <4>2. Len(Logged(tag, n - 1)) = n - 1
        BY <1>2, <4>1 DEF Logged
      <4>3. \A i \in 1 .. n - 1 : Logged(tag, n - 1)[i] = <<"write", tag[i]>>
        BY DEF Logged
      <4>4. QED
        BY <4>1, <4>2, <4>3, AppendProperties
    <3>2. Logged(tag, n) \in Seq(Event) /\ Len(Logged(tag, n)) = n
      BY <1>2, <1>4, <2>1 DEF Logged
    <3>3. \A i \in 1 .. n : Logged(tag, n)[i] = <<"write", tag[i]>>
      BY DEF Logged
    <3>4. QED
      BY <3>1, <3>2, <3>3, SeqEqual
  <2>3. Tracks(SpongeAbsorb(absorbed[n - 1], tag[n]), Logged(tag, n))
    BY <1>2, <1>6, <2>1, <2>2, TracksWrite
  <2>4. QED
    BY <1>3, <2>1, <2>3
<1> HIDE DEF U
<1>7. \A n \in 1 .. L : n \in U
  BY <1>2, <1>5, <1>6, Interval
<1>8. QED
  BY <1>1, <1>2, <1>7 DEF U, L

(* Every step of the circuits is a write or a challenge of the duplex      *)
(* construction, or leaves its log and its challenges alone (a save, a     *)
(* resumption, or the return to a transcript).                             *)
THEOREM Implementation == Spec => ImplementsDuplex
<1>1. Init => Ideal!Init /\ Tracks(prover, log)
  <2> SUFFICES ASSUME NEW tag \in Tags, prover = Tagged(tag), out = <<>>,
                      log = [i \in DOMAIN tag |-> <<"write", tag[i]>>]
               PROVE  Ideal!Init /\ Tracks(prover, log)
    BY DEF Init
  <2>1. tag \in Seq(F) /\ tag # <<>> /\ DOMAIN tag = 1 .. Len(tag)
    BY TranscriptAssumption
  <2>2. log = Logged(tag, Len(tag))
    BY <2>1 DEF Logged
  <2>3. log # <<>> /\ \A i \in DOMAIN log : log[i][1] = "write"
    BY <2>1
  <2>4. QED
    BY <2>1, <2>2, <2>3, TracksTag DEF Ideal!Init
<1>2. HandOver /\ Tracks(prover, log) /\ [Next]_vars
        => [Ideal!Next]_<<log, out>> /\ Tracks(prover, log)'
  <2> SUFFICES ASSUME HandOver, Tracks(prover, log), [Next]_vars
               PROVE  [Ideal!Next]_<<log, out>> /\ Tracks(prover', log')
    OBVIOUS
  <2>1. ASSUME NEW v \in Messages, Write(v)
        PROVE  [Ideal!Next]_<<log, out>> /\ Tracks(prover', log')
    <3>1. Tracks(SpongeAbsorb(prover, v), Append(log, <<"write", v>>))
      BY TracksWrite, TranscriptAssumption
    <3>2. QED
      BY <2>1, <3>1 DEF Write, Ideal!Next
  <2>2. CASE Challenge
    <3>1. SpongeSqueeze(sponge).value = SpongeSqueeze(prover).value
      <4>1. outProver = out /\ outProver' = out'
        BY <2>2, HandOverStep DEF HandOver
      <4>2. out \in Seq(F) /\ SpongeSqueeze(prover).value \in F
        BY SqueezeUsable DEF HandOver
      <4>3. /\ out' = Append(out, SpongeSqueeze(sponge).value)
            /\ out' = Append(out, SpongeSqueeze(prover).value)
        BY <2>2, <4>1 DEF Challenge
      <4> DEFINE a == SpongeSqueeze(sponge).value
                 b == SpongeSqueeze(prover).value
      <4>4. Append(out, a) = Append(out, b)
        BY <4>3
      <4> HIDE DEF a, b
      <4>5. out \in Seq(F \cup {a, b})
        BY <4>2
      <4>6. Append(out, a)[Len(out) + 1] = a /\ Append(out, b)[Len(out) + 1] = b
        BY <4>5, AppendProperties
      <4>7. a = b
        BY <4>4, <4>6
      <4>8. QED
        BY <4>7 DEF a, b
    <3>2. /\ log' = Append(log, <<"challenge", 0>>)
          /\ prover' = SpongeSqueeze(prover).sponge
          /\ out' = Append(out, SpongeSqueeze(prover).value)
      BY <2>2, <3>1 DEF Challenge
    <3>3. Tracks(prover', log') /\ out' = Append(out, Ideal!IdealChallenge(log'))
      BY <3>2, TracksChallenge
    <3>4. QED
      BY <3>2, <3>3 DEF Ideal!Next
  <2>3. CASE Save
    BY <2>3 DEF Save
  <2>4. CASE ResumeFromState
    BY <2>4 DEF ResumeFromState
  <2>5. CASE IntoTranscript
    BY <2>5 DEF IntoTranscript
  <2>6. CASE UNCHANGED vars
    BY <2>6 DEF vars
  <2>7. QED
    BY <2>1, <2>2, <2>3, <2>4, <2>5, <2>6 DEF Next
<1>3. QED
  BY <1>1, <1>2, HandOverInit, HandOverStep, PTL DEF Spec, ImplementsDuplex, Ideal!Spec
=============================================================================
