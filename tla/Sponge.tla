------------------------------- MODULE Sponge -------------------------------
(***************************************************************************)
(* The Poseidon permutation and the sponge over it (poseidon.rs).  A       *)
(* sponge is [mode, values, state]: the pending elements of its mode and   *)
(* the permutation's state.  An operation answers [sponge, value]; the     *)
(* value of an error is no element (-1), and no state (<<>>).              *)
(***************************************************************************)
EXTENDS PrimeField

CONSTANTS T, RATE,                     \* the state's size and its rate
          FULL_ROUNDS, PARTIAL_ROUNDS,
          RoundConstants,              \* one tuple of T elements per round
          MdsMatrix                    \* T rows of T elements

ASSUME PoseidonAssumption ==
  /\ T \in Nat /\ RATE \in 1 .. T - 1 /\ FULL_ROUNDS \in Nat /\ FULL_ROUNDS % 2 = 0
  /\ PARTIAL_ROUNDS \in Nat
  /\ RoundConstants \in Seq([1 .. T -> F]) /\ Len(RoundConstants) = FULL_ROUNDS + PARTIAL_ROUNDS
  /\ MdsMatrix \in [1 .. T -> [1 .. T -> F]]
-----------------------------------------------------------------------------
AddRoundConstants(state, constants) == [i \in 1 .. T |-> Plus(state[i], constants[i])]
Sbox(state, elems) == [i \in 1 .. T |-> IF i <= elems THEN Power(state[i], 5) ELSE state[i]]
Multiadd(values, coeffs) ==
  LET sum[i \in 0 .. T] == IF i = 0 THEN 0 ELSE Plus(sum[i - 1], Times(coeffs[i], values[i]))
  IN  sum[T]
Mds(state) ==
  LET scratch[i \in 0 .. T] ==
        IF i = 0 THEN <<>> ELSE Append(scratch[i - 1], Multiadd(state, MdsMatrix[i]))
  IN  scratch[T]

(* The rounds of the S-box: half of the full ones, the partial ones, which *)
(* touch only the first element, and the other full ones.                  *)
Elems(r) == IF FULL_ROUNDS \div 2 < r /\ r <= (FULL_ROUNDS \div 2) + PARTIAL_ROUNDS THEN 1 ELSE T
NumRounds == FULL_ROUNDS + PARTIAL_ROUNDS
Permutation(state) ==
  LET round[r \in 0 .. NumRounds] ==
        IF r = 0 THEN state          \* a round's result is evaluated at once
        ELSE CHOOSE next \in { Mds(Sbox(AddRoundConstants(s, RoundConstants[r]), Elems(r)))
                               : s \in {round[r - 1]} } : TRUE
  IN  round[NumRounds]
-----------------------------------------------------------------------------
Answer(sponge, value) == [sponge |-> sponge, value |-> value]
Absorb(values, state)  == [mode |-> "absorb", values |-> values, state |-> state]
Squeeze(values, state) == [mode |-> "squeeze", values |-> values, state |-> state]

NewSponge == Absorb(<<>>, [i \in 1 .. T |-> 0])

GetRate(state) == [i \in 1 .. RATE |-> state[RATE + 1 - i]]   \* the last is squeezed first

AbsorbInto(state, values) ==
  [i \in 1 .. T |-> IF i <= Len(values) THEN Plus(state[i], values[i]) ELSE state[i]]

Permute(s) ==
  IF s.mode = "squeeze"
    THEN LET state == Permutation(s.state) IN Squeeze(GetRate(state), state)
    ELSE Absorb(<<>>, Permutation(AbsorbInto(s.state, s.values)))

(* Mutant of Enter: values left from the last squeeze come out first.      *)
EnterInOrder(state) == Squeeze(SubSeq(state, 1, RATE), state)
(* Squeeze mode at a state, as squeeze and resume enter it.                *)
Enter(state) == Squeeze(GetRate(state), state)

Pop(s) == Answer([s EXCEPT !.values = SubSeq(@, 1, Len(@) - 1)], s.values[Len(s.values)])
SpongeSqueeze(s) ==
  CASE s.mode = "squeeze" /\ s.values # <<>> -> Pop(s)
    [] s.mode = "squeeze" /\ s.values = <<>> -> Pop(Permute(s))
    [] s.mode = "absorb"  /\ s.values # <<>> -> Pop(Enter(Permute(s).state))
    [] OTHER -> Answer(s, -1)

(* Mutant of SpongeAbsorb: a full buffer is absorbed one element late.     *)
SpongeAbsorbLate(s, v) ==
  IF s.mode = "squeeze" THEN Absorb(<<v>>, s.state)
  ELSE IF Len(s.values) > RATE THEN [Permute(s) EXCEPT !.values = <<v>>]
  ELSE [s EXCEPT !.values = Append(@, v)]
SpongeAbsorb(s, v) ==
  IF s.mode = "squeeze" THEN Absorb(<<v>>, s.state)
  ELSE IF Len(s.values) = RATE THEN [Permute(s) EXCEPT !.values = <<v>>]
  ELSE [s EXCEPT !.values = Append(@, v)]

(* Mutant of SaveState: the pending values stay out of the saved state.    *)
SaveWithoutPending(s) ==
  IF s.mode = "squeeze" \/ s.values = <<>> THEN Answer(s, <<>>)
                                           ELSE Answer(s, Permutation(s.state))
(* AlreadyInSqueezeMode and NothingAbsorbed are the errors.                *)
SaveState(s) ==
  IF s.mode = "squeeze" \/ s.values = <<>> THEN Answer(s, <<>>)
                                           ELSE Answer(s, Permute(s).state)
Resume(state) == Enter(state)
-----------------------------------------------------------------------------
(* Transcript::new: the tag's length and its 16-byte chunks.               *)
Tagged(tag) ==
  LET absorbed[i \in 0 .. Len(tag)] ==
        IF i = 0 THEN NewSponge ELSE SpongeAbsorb(absorbed[i - 1], tag[i])
  IN  absorbed[Len(tag)]
=============================================================================
