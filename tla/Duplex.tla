------------------------------- MODULE Duplex -------------------------------
(***************************************************************************)
(* The duplex construction a transcript promises, without buffers, modes   *)
(* or saved states: every challenge is a function of the log of elements   *)
(* written and challenges drawn before it.                                 *)
(***************************************************************************)
EXTENDS Integers, Sequences

CONSTANTS T, RATE, P, Messages,
          Permutation(_)

VARIABLES log, out

(* A run of writes is cut into blocks of RATE, added to the state and      *)
(* permuted when the next block or a challenge comes; a run of challenges  *)
(* is permuted after every RATE of them.                                   *)
RunStart(events, n) ==
  CHOOSE i \in 1 .. n : /\ \A k \in i .. n : events[k][1] = events[n][1]
                        /\ i = 1 \/ events[i - 1][1] # events[n][1]
Place(events, n) == (n - RunStart(events, n)) % RATE   \* of event n in its block

Block(events, n) ==          \* the written elements of the block that ends with n
  [k \in 0 .. Place(events, n) |-> events[n - Place(events, n) + k][2]]
Mixed(state, block) ==
  Permutation([i \in 1 .. T |->
    IF i - 1 \in DOMAIN block THEN (state[i] + block[i - 1]) % P ELSE state[i]])

(* What event n meets, given what the event before it met: a full block or *)
(* the end of a run of writes flushes, a write after a challenge does not. *)
Flushed(events, n, before) ==
  IF events[n][1] = "write" THEN Mixed(before, Block(events, n)) ELSE Permutation(before)
After(events, n, before) ==
  IF Place(events, n) = 0 /\ (events[n - 1][1] = "challenge" => events[n][1] = "challenge")
    THEN Flushed(events, n - 1, before) ELSE before

Met(events) ==
  LET met[n \in 1 .. Len(events)] ==
        IF n = 1 THEN [i \in 1 .. T |-> 0] ELSE After(events, n, met[n - 1])
  IN  met[Len(events)]

IdealChallenge(events) == Met(events)[Place(events, Len(events)) + 1]

Init == out = <<>> /\ log # <<>> /\ \A i \in DOMAIN log : log[i][1] = "write"
Next == \/ /\ \E v \in Messages : log' = Append(log, <<"write", v>>)
           /\ UNCHANGED out
        \/ /\ log' = Append(log, <<"challenge", 0>>)
           /\ out' = Append(out, IdealChallenge(log'))
Spec == Init /\ [][Next]_<<log, out>>
=============================================================================
