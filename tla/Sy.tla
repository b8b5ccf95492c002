--------------------------------- MODULE Sy ---------------------------------
(***************************************************************************)
(* wiring::sy::eval: the polynomial s(X, y).  Values flow backwards, from  *)
(* constraints to wires: a wire made by add() is virtual, collects what    *)
(* the constraints that use it are worth, and passes it on to its terms    *)
(* when its last reference is gone.  Slots of dead virtual wires are used  *)
(* again.                                                                  *)
(*                                                                         *)
(* When a Rust binding is dropped is up to the circuit code and the        *)
(* compiler: any time after its last use (`Drops`).  VirtualTable::free    *)
(* is recursive; `work` is its call stack, and each of its calls a step.   *)
(***************************************************************************)
EXTENDS Synthesis, PrimeField

VARIABLES
  prog, plan, y,     \* the circuit, its floor plan and the point
  stack,             \* call frames with their SyScope, innermost first
  current_routine,   \* segments entered after the root
  pc,                \* "idle", "run", "done", or why it stopped
  wires,             \* VirtualTable::wires
  free,              \* VirtualTable::free
  work,              \* what free() has still to do
  view               \* the coefficients of the a, b, c, d wires

input  == <<prog, plan, y>>
driver == <<stack, current_routine, pc>>
table  == <<wires, free, work, view>>
vars   == <<input, driver, table>>

(* WireIndex: <<"a", i>> .. <<"d", i>> of gate i, <<"v", i>> for slot i    *)
(* (from 1) of the table.                                                  *)
ONE          == <<"d", 0>>
IsVirtual(w) == w[1] = "v"

(* Mutant of NewScope: the first power of y is one too high.               *)
NewScopeOneHigher(name, inputs, seg) ==
  [call |-> NewCallFrame(name, ONE, inputs), held |-> 1 .. 1 + Len(inputs), seg |-> seg,
   gates |-> plan[seg].gate_start, constraints |-> plan[seg].constraint_start,
   current_y |-> Power(y, plan[seg].constraint_start + plan[seg].num_constraints)]

(* A call frame holds the Wire handles at the places `held` of its         *)
(* environment; the others have been dropped or moved.                     *)
NewScope(name, inputs, seg) ==
  [call |-> NewCallFrame(name, ONE, inputs), held |-> 1 .. 1 + Len(inputs), seg |-> seg,
   gates |-> plan[seg].gate_start, constraints |-> plan[seg].constraint_start,
   current_y |-> IF plan[seg].num_constraints = 0 THEN 0
                 ELSE Power(y, plan[seg].constraint_start + plan[seg].num_constraints - 1)]

(* The frame binds one more wire, or several.                              *)
Hold(f, new) ==
  [f EXCEPT !.call = Bind(@, new),
            !.held = @ \union (Len(f.call.env) + 1 .. Len(f.call.env) + Len(new))]

Top   == stack[1]
Go(f) == stack' = [stack EXCEPT ![1] = f] /\ UNCHANGED pc

(* The places of its environment a frame's remaining calls, and its return *)
(* if it is a routine's, still read.                                       *)
Needed(p, f) ==
  LET ops  == OpsOf(p, f.call.name)
      outs == p[f.call.name].outs
  IN  (UNION { Reads(ops[i]) : i \in f.call.at .. Len(ops) })
      \union (IF f.call.name = Main THEN {} ELSE { outs[k] : k \in DOMAIN outs })

HandlesTo(f, i) == { k \in f.held : f.call.env[k] = <<"v", i>> }
HeldVirtual(f)  == { k \in f.held : IsVirtual(f.call.env[k]) }
-----------------------------------------------------------------------------
Init == /\ stack = <<>> /\ current_routine = 0 /\ pc = "idle"
        /\ wires = <<>> /\ free = <<>> /\ work = <<>> /\ view = <<>>

TotalGates == LET last == plan[Len(plan)] IN last.gate_start + last.num_gates

(* At y = 0 only the ONE wire's coefficient is left; otherwise the view is *)
(* allocated and orchestrate() takes the SYSTEM gate.                      *)
StartsAtZero == /\ pc = "idle"
                /\ y = 0
                /\ pc' = "done"
                /\ view' = [w \in {ONE} |-> 1]
                /\ UNCHANGED <<input, stack, current_routine, wires, free, work>>

Starts == /\ pc = "idle"
          /\ y # 0
          /\ pc' = IF plan[1].num_constraints > 0 THEN "run" ELSE "panicked"
          /\ view' = [w \in {"a", "b", "c", "d"} \X (0 .. TotalGates - 1) |-> 0]
          /\ stack' = <<[NewScope(Main, <<>>, 1) EXCEPT !.gates = @ + 1]>>
          /\ UNCHANGED <<input, current_routine, wires, free, work>>

(* The circuit code runs while free() is not under way.                    *)
Calling(kind) == pc = "run" /\ work = <<>> /\ AboutTo(prog, Top.call, kind)
NextCall      == NextOp(prog, Top.call)

Gates ==
  /\ Calling("gate")
  /\ IF NoRoomForGate(N, Top) THEN pc' = "GateBoundExceeded" /\ UNCHANGED stack
     ELSE LET i == Top.gates
              f == Hold(Top, << <<"a", i>>, <<"b", i>>, <<"c", i>> >>)
          IN  Go([f EXCEPT !.gates = @ + 1, !.call.extras = Append(@, i)])
  /\ UNCHANGED <<input, current_routine, table>>

AssignsExtra ==
  /\ Calling("assign_extra")
  /\ Go(Hold(Top, << <<"d", Top.call.extras[NextCall.gate]>> >>))
  /\ UNCHANGED <<input, current_routine, table>>

(* Mutant of Referred: references are not counted.                         *)
Unreferred(tab, ws) == tab

(* Virtual wires referred to by a sequence of wires, and the table after   *)
(* each of those references was counted.                                   *)
RefsTo(i, ws) == Cardinality({ k \in DOMAIN ws : ws[k] = <<"v", i>> })
Referred(tab, ws) == [i \in DOMAIN tab |-> [tab[i] EXCEPT !.refcount = @ + RefsTo(i, ws)]]

(* add(): a slot, from the free list if it has one, then the terms.        *)
Clean(wire) == wire.refcount = 0 /\ wire.value = 0 /\ wire.terms = <<>>

Adds ==
  /\ Calling("add")
  /\ LET lc    == NextCall.lc
         ws    == [k \in DOMAIN lc |-> Top.call.env[lc[k][1]]]
         terms == [k \in DOMAIN lc |-> [wire |-> ws[k], coeff |-> lc[k][2] % P]]
         slot  == IF free = <<>> THEN Len(wires) + 1 ELSE free[Len(free)]
         new   == [refcount |-> 1, terms |-> terms, value |-> 0]
     IN  IF free # <<>> /\ ~Clean(wires[slot])
           THEN pc' = "panicked" /\ UNCHANGED <<stack, wires, free>>
           ELSE /\ wires' = IF free = <<>> THEN Append(Referred(wires, ws), new)
                            ELSE [Referred(wires, ws) EXCEPT ![slot] = new]
                /\ free' = IF free = <<>> THEN free ELSE SubSeq(free, 1, Len(free) - 1)
                /\ Go(Hold(Top, << <<"v", slot>> >>))
  /\ UNCHANGED <<input, current_routine, work, view>>

(* enforce_zero(): current_y * coeff for every term, at once.              *)
Worth(lc, w) ==
  LET worth[k \in 0 .. Len(lc)] ==
        IF k = 0 THEN 0
        ELSE IF Top.call.env[lc[k][1]] = w
          THEN Plus(worth[k - 1], Times(lc[k][2], Top.current_y))
        ELSE worth[k - 1]
  IN  worth[Len(lc)]

EnforcesZero ==
  /\ Calling("enforce_zero")
  /\ IF NoRoomForConstraint(N, Top)
       THEN pc' = "ConstraintBoundExceeded" /\ UNCHANGED <<stack, wires, view>>
       ELSE LET lc == NextCall.lc
            IN  /\ wires' = [i \in DOMAIN wires |->
                               [wires[i] EXCEPT !.value = Plus(@, Worth(lc, <<"v", i>>))]]
                /\ view'  = [w \in DOMAIN view |-> Plus(view[w], Worth(lc, w))]
                /\ Go([Top EXCEPT !.constraints = @ + 1,
                                  !.current_y = Times(@, Reciprocal(y)),
                                  !.call = Advanced(@)])
  /\ UNCHANGED <<input, current_routine, free, work>>

(* The callee gets the input wires: clones, or handles the caller will not *)
(* read again and moves.                                                   *)
EntersRoutine ==
  /\ Calling("routine")
  /\ current_routine' = current_routine + 1
  /\ LET seg    == current_routine + 2    \* floor_plan[current_routine], from 1
         inputs == InputWires(Top.call, NextCall)
         caller == [Top EXCEPT !.call = Advanced(@)]
     IN  IF seg \notin DOMAIN plan THEN pc' = "panicked" /\ UNCHANGED <<stack, wires>>
         ELSE \E moved \in SUBSET
                   ((Reads(NextCall) \intersect HeldVirtual(caller)) \ Needed(prog, caller)) :
                /\ stack' = <<NewScope(NextCall.name, inputs, seg),
                              [caller EXCEPT !.held = @ \ moved]>> \o Tail(stack)
                /\ wires' = [i \in DOMAIN wires |->
                               [Referred(wires, inputs)[i] EXCEPT !.refcount =
                                  @ - Cardinality(HandlesTo(Top, i) \intersect moved)]]
                /\ UNCHANGED pc
  /\ UNCHANGED <<input, free, work, view>>

(* The routine returns: it has dropped all it does not return, and hands   *)
(* the caller a handle per output (a clone where it returns a wire twice). *)
LeavesRoutine ==
  /\ pc = "run" /\ work = <<>>
  /\ AtEnd(prog, Top.call)
  /\ Len(stack) > 1
  /\ HeldVirtual(Top) \subseteq Needed(prog, Top)
  /\ LET outs   == OutputWires(prog, Top.call)
         size   == Len(stack[2].call.env)
         caller == [stack[2] EXCEPT !.call.env = @ \o outs,
                                    !.held = @ \union (size + 1 .. size + Len(outs))]
     IN  IF ~Filled(plan, Top) THEN pc' = "panicked" /\ UNCHANGED <<stack, wires>>
         ELSE /\ stack' = <<caller>> \o Tail(Tail(stack))
              /\ wires' = [i \in DOMAIN wires |->
                             [wires[i] EXCEPT !.refcount =
                                @ + RefsTo(i, outs) - Cardinality(HandlesTo(Top, i))]]
              /\ UNCHANGED pc
  /\ UNCHANGED <<input, current_routine, free, work, view>>

Finishes ==
  /\ pc = "run" /\ work = <<>>
  /\ AtEnd(prog, Top.call)
  /\ Len(stack) = 1
  /\ HeldVirtual(Top) = {}
  /\ stack' = <<>>
  /\ pc' = IF /\ current_routine + 1 = Len(plan)
              /\ Filled(plan, Top)
              /\ Len(free) = Len(wires)
             THEN "done" ELSE "panicked"
  /\ UNCHANGED <<input, current_routine, table>>
-----------------------------------------------------------------------------
(* Dropping handles.  An item [wire, value] of `work` is the body of the   *)
(* loop in free(): add the value to the wire, then free the wire; an item  *)
(* [retire] is what follows the loop.                                      *)
Give(w, v) == [kind |-> "give", wire |-> w, value |-> v]
Retire(i)  == [kind |-> "retire", wire |-> <<"v", i>>, value |-> 0]

(* A handle to a virtual wire that is not read any more goes.              *)
Drops ==
  /\ pc = "run" /\ work = <<>>
  /\ \E k \in HeldVirtual(Top) \ Needed(prog, Top) :
       /\ Go([Top EXCEPT !.held = @ \ {k}])
       /\ work' = <<Give(Top.call.env[k], 0)>>
  /\ UNCHANGED <<input, current_routine, wires, free, view>>

(* An allocated wire: the value reaches the view.                          *)
WritesView ==
  /\ work # <<>>
  /\ LET w == Head(work).wire
     IN  /\ ~IsVirtual(w)
         /\ view' = [view EXCEPT ![w] = Plus(@, Head(work).value)]
  /\ work' = Tail(work)
  /\ UNCHANGED <<input, driver, wires, free>>

(* A virtual wire: one reference fewer; with the last one it is resolved.  *)
FreesVirtual ==
  /\ work # <<>>
  /\ Head(work).kind = "give"
  /\ IsVirtual(Head(work).wire)
  /\ LET i     == Head(work).wire[2]
         wire  == wires[i]
         value == Plus(wire.value, Head(work).value)
         gifts == [k \in DOMAIN wire.terms |->
                     Give(wire.terms[k].wire, Times(value, wire.terms[k].coeff))]
     IN  IF wire.refcount = 0 THEN pc' = "panicked" /\ UNCHANGED <<wires, work>>
         ELSE IF wire.refcount > 1
           THEN /\ wires' = [wires EXCEPT ![i] = [wire EXCEPT !.refcount = @ - 1, !.value = value]]
                /\ work' = Tail(work)
                /\ UNCHANGED pc
         ELSE /\ wires' = [wires EXCEPT ![i] = [refcount |-> 0, terms |-> <<>>, value |-> value]]
              /\ work' = gifts \o <<Retire(i)>> \o Tail(work)
              /\ UNCHANGED pc
  /\ UNCHANGED <<input, stack, current_routine, free, view>>

(* Mutant of Retires: the slot keeps its value.                            *)
RetiresUncleared ==
  /\ work # <<>>
  /\ Head(work).kind = "retire"
  /\ free' = Append(free, Head(work).wire[2])
  /\ work' = Tail(work)
  /\ UNCHANGED <<input, driver, wires, view>>

Retires ==
  /\ work # <<>>
  /\ Head(work).kind = "retire"
  /\ LET i == Head(work).wire[2]
     IN  /\ wires' = [wires EXCEPT ![i].value = 0]
         /\ free' = Append(free, i)
  /\ work' = Tail(work)
  /\ UNCHANGED <<input, driver, view>>

Next == \/ StartsAtZero \/ Starts \/ Gates \/ AssignsExtra \/ Adds \/ EnforcesZero
        \/ EntersRoutine \/ LeavesRoutine \/ Finishes
        \/ Drops \/ WritesView \/ FreesVirtual \/ Retires
-----------------------------------------------------------------------------
(* A virtual wire's refcount is the number of Wire handles to it, of terms *)
(* of virtual wires that name it and of terms free() has drained but not   *)
(* freed yet (sy.rs:137-140): with less a wire would be resolved before    *)
(* its last constraint, with more it would leak.                           *)
References(i) ==
  LET handles == UNION { {f} \X HandlesTo(stack[f], i) : f \in DOMAIN stack }
      named   == UNION { {j} \X { k \in DOMAIN wires[j].terms :
                                   wires[j].terms[k].wire = <<"v", i>> } : j \in DOMAIN wires }
      drained == { k \in DOMAIN work : work[k].kind = "give" /\ work[k].wire = <<"v", i>> }
  IN  Cardinality(handles) + Cardinality(named) + Cardinality(drained)

RefcountsExact == \A i \in DOMAIN wires : wires[i].refcount = References(i)

(* The free list names every dead slot once, no slot in use or being       *)
(* resolved, and only slots the next add() may take (sy.rs:330-345).       *)
FreeListSound ==
  /\ \A j, k \in DOMAIN free : free[j] = free[k] => j = k
  /\ \A i \in DOMAIN wires :
       LET dead     == \E k \in DOMAIN free : free[k] = i
           retiring == \E k \in DOMAIN work : work[k] = Retire(i)
       IN  /\ dead => Clean(wires[i]) /\ ~retiring
           /\ wires[i].refcount = 0 => dead \/ retiring
=============================================================================
