---------------------------- MODULE MCPrograms ------------------------------
(***************************************************************************)
(* Small circuits for TLC.  "main" calls "mid", "mid" calls "leaf"; every  *)
(* combination of predictions, of the order of calls and gates, and of a   *)
(* failing or an empty leaf occurs.                                        *)
(***************************************************************************)
EXTENDS Integers, Sequences

MCRoutines == {"main", "mid", "leaf"}
MCErrors   == {"e_leaf", "e_mid", "e_main"}

C == INSTANCE Circuit WITH Programs <- {}, Routines <- MCRoutines, Errors <- MCErrors

Circuit3(main, mid, leaf) ==
  [r \in MCRoutines |-> C!Code(CASE r = "main" -> main
                                 [] r = "mid"  -> mid
                                 [] r = "leaf" -> leaf)]

CallOf(name) == { C!Call(name, <<>>, how) : how \in {"Known", "Unknown"} }
Zero         == C!EnforceZero(<<>>)

Leaves == { <<>>, <<C!Gate(1), C!Extra(1, 2)>>, <<C!Gate(1), C!FailingGate("e_leaf")>> }

(* Two calls of leaf, a gate before or between or after them.              *)
Mids == { <<C!Gate(3), x, C!Gate(4), C!Extra(1, 5)>> : x \in CallOf("leaf") }
        \union { <<x, Zero, y>> : x, y \in CallOf("leaf") }
        \union { <<x, C!FailingGate("e_mid"), y>> : x, y \in CallOf("leaf") }

Mains == { <<C!Gate(6), x, C!Gate(7), C!Extra(1, 8), C!Extra(2, 9)>> : x \in CallOf("mid") }
         \union { <<x, y, C!Gate(6)>> : x \in CallOf("mid"), y \in CallOf("leaf") }
         \union { <<x, C!FailingCall("leaf", "e_main")>> : x \in CallOf("mid") }

SmallPrograms == { Circuit3(main, mid, leaf) : main \in Mains, mid \in Mids, leaf \in Leaves }

-----------------------------------------------------------------------------
(* Circuits with wires, for the wiring drivers.  "mid" hands wires to two  *)
(* leaves and uses what they return; "twin" is "leaf" written another way, *)
(* "other" differs from it in a coefficient, "late" by a leading constraint *)
(* that is identically zero.                                               *)
WiredRoutines == {"main", "mid", "leaf", "twin", "other", "late"}

D == INSTANCE Circuit WITH Programs <- {}, Routines <- WiredRoutines, Errors <- MCErrors

Lin(w1, c1, w2, c2) == << <<w1, c1>>, <<w2, c2>> >>
Known(r, w)         == D!Call(r, <<w>>, "Known")
Unknown(r, w)       == D!Call(r, <<w>>, "Unknown")
Routine(ops, out)   == [ops |-> ops, outs |-> <<out>>]

(* Environment: 1 = ONE, 2 = the input wire.                               *)
Leaf  == Routine(<<D!EnforceZero(Lin(2, 1, 1, 3))>>, 2)
Twin  == Routine(<<D!Add(Lin(2, 2, 1, 3)), D!EnforceZero(Lin(3, 1, 2, -1))>>, 3)
Other == Routine(<<D!EnforceZero(Lin(2, 2, 1, 3))>>, 2)
Late  == Routine(<<D!EnforceZero(<<>>), D!EnforceZero(Lin(2, 1, 1, 3))>>, 2)

(* 3 = first call's output; 4, 5, 6 = the gate; 7 = its d wire; 8 = second. *)
Mid(f, g) == Routine(<<Known(f, 2), D!Gate(1), D!Extra(1, 4),
                       D!EnforceZero(Lin(3, 1, 7, -2)), Unknown(g, 4),
                       D!EnforceZero(Lin(8, 1, 6, 1))>>, 8)

WiredCircuit(main, f, g) ==
  [r \in WiredRoutines |-> CASE r = "main"  -> main
                             [] r = "mid"   -> Mid(f, g)
                             [] r = "leaf"  -> Leaf
                             [] r = "twin"  -> Twin
                             [] r = "other" -> Other
                             [] r = "late"  -> Late]

(* 2, 3, 4 = the first gate; 5, 6 = outputs of the first two calls.        *)
WiredMains ==
  { Routine(<<D!Gate(1), Known("mid", 3), Unknown(r, 5), D!EnforceZero(Lin(6, 1, 4, 5))>>, 5)
      : r \in {"leaf", "twin"} }
  \union
  { Routine(<<D!Gate(1), D!Extra(1, 2), Unknown("mid", 5), Unknown("mid", 6)>>, 7) }

WiredPrograms ==
  { WiredCircuit(main, f, g) :
      main \in WiredMains, f \in {"leaf", "other"}, g \in {"twin", "late"} }

(* Circuits at the limits of a rank with n = 4: five gates; sixteen        *)
(* constraints (ONE included); and fifteen, the most that fit.             *)
BigMain(gates, zeros) ==
  [ops  |-> [i \in 1 .. gates |-> D!Gate(1)]
            \o <<Unknown("leaf", 1)>>
            \o [i \in 1 .. zeros |-> D!EnforceZero(Lin(2, 1, 1, 1))], outs |-> <<>>]
LimitPrograms ==
  { WiredCircuit(BigMain(g, z), "leaf", "leaf") : g \in {3, 4}, z \in {13, 14} }

(* A circuit of sums of sums, one of which it hands to a routine.          *)
ChainMain ==
  Routine(<<D!Gate(1), D!Add(Lin(2, 1, 3, 2)), D!Add(Lin(5, 3, 4, 1)),
            D!EnforceZero(Lin(6, 1, 5, 3)), D!Add(Lin(6, 2, 5, -1)), Unknown("twin", 7),
            D!EnforceZero(Lin(8, 1, 7, 2)), D!Add(Lin(8, 1, 1, 4)),
            D!EnforceZero(Lin(9, 1, 2, 1))>>, 9)

(* Fingerprint classes: twin is leaf.                                      *)
Shape == [r \in WiredRoutines |-> IF r = "twin" THEN "leaf" ELSE r]
-----------------------------------------------------------------------------
(* One wide circuit: two deferred mids that defer two leaves each.         *)
WidePrograms ==
  { Circuit3(<<C!Call("mid", <<>>, "Known"), C!Gate(6), C!Call("mid", <<>>, "Known")>>,
             <<C!Call("leaf", <<>>, "Known"), C!Call("leaf", <<>>, how)>>,
             <<C!Gate(1), C!Extra(1, 2)>>) : how \in {"Known", "Unknown"} }

TracePrograms == SmallPrograms \union WidePrograms
=============================================================================
