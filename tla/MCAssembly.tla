----------------------------- MODULE MCAssembly -----------------------------
(* Model checking of Assembly: measuring, evaluating, assembling.          *)
EXTENDS Assembly, MCPrograms

(* With n = 5, gates come to 5 or 6; of the two circuits without gates the *)
(* first has 19 constraints (ONE included), the most that leave the last   *)
(* coefficient to the registry key, the second has 20.                     *)
AssemblyPrograms ==
  { Circuit3(main, mid, leaf) : main \in Mains, mid \in Mids,
      leaf \in { <<>>, <<C!Gate(1), C!Extra(1, 2)>> } }
  \union { Circuit3([i \in 1 .. zeros |-> Zero], <<>>, <<>>) : zeros \in {18, 19} }
=============================================================================
