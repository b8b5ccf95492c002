----------------------------- MODULE Evaluator -----------------------------
(***************************************************************************)
(* The trace driver (ragu_circuits/src/trace.rs, `Evaluator`) as a value   *)
(* and the steps a program makes it take.  The multicore evaluation (module*)
(* Trace) runs many of them concurrently, the single-threaded one (module  *)
(* TraceInline) nests them.                                                *)
(*                                                                         *)
(* An evaluator is a record                                                *)
(*   segments : the AnnotatedSegments it has produced so far;              *)
(*   stack    : the routine scopes it is in, innermost first.  A frame is  *)
(*              the Rust call frame of a body (`name`, `at`, the Extra     *)
(*              tokens `extras` it holds) with that scope's TraceScope:    *)
(*              current_segment, routine_counter and dfs_prefix;           *)
(*   err      : the error that unwound it, Ok if none.                     *)
(***************************************************************************)
EXTENDS Circuit

TraceGate    == [abc : Nat, d : Nat]
Segment      == [dfs_path : Path, gates : Seq(TraceGate)]
Frame        == [name : Routines, at : Nat \ {0}, extras : Seq(Nat \ {0}),
                 current_segment : Nat \ {0}, routine_counter : Nat,
                 dfs_prefix : Path]
EvaluatorSet == [segments : Seq(Segment), stack : Seq(Frame),
                 err : Errors \union {Ok}]

(* AnnotatedSegment::new: the root segment starts with the placeholder of  *)
(* the ONE gate, every other segment is empty.                             *)
Placeholder == [abc |-> 0, d |-> 0]
NewSegment(prefix) ==
  [dfs_path |-> prefix, gates |-> IF prefix = <<>> THEN <<Placeholder>> ELSE <<>>]

(* The scope a body starts in.                                             *)
NewFrame(name, seg, prefix) ==
  [name |-> name, at |-> 1, extras |-> <<>>, current_segment |-> seg,
   routine_counter |-> 0, dfs_prefix |-> prefix]

(* Evaluator::new, about to run the body `name`.                           *)
NewEvaluator(name, prefix) ==
  [segments |-> <<NewSegment(prefix)>>, stack |-> <<NewFrame(name, 1, prefix)>>,
   err |-> Ok]

Top(ev)      == ev.stack[1]
Running(ev)  == ev.stack # <<>>
AtEnd(p, ev) == Top(ev).at > Len(p[Top(ev).name].ops)
NextOp(p, ev) == p[Top(ev).name].ops[Top(ev).at]

(* The innermost body is about to make driver call `kind`.                 *)
AboutTo(p, ev, kind) == Running(ev) /\ ~AtEnd(p, ev) /\ NextOp(p, ev).kind = kind

SetTop(ev, f) == [ev EXCEPT !.stack[1] = f]
Advanced(f)   == [f EXCEPT !.at = @ + 1]

(* Mutant of PushGate: the token is the place before the push.             *)
PushGateZeroBased(ev, op) ==
  LET f   == Top(ev)
      seg == ev.segments[f.current_segment]
      new == [seg EXCEPT !.gates = Append(@, [abc |-> op.val, d |-> 0])]
  IN  SetTop([ev EXCEPT !.segments[f.current_segment] = new],
             Advanced([f EXCEPT !.extras = Append(@, Len(seg.gates))]))

(* gate(): push the values on the current segment; the Extra token is the  *)
(* gate's place IN THAT SEGMENT.                                           *)
PushGate(ev, op) ==
  LET f   == Top(ev)
      seg == ev.segments[f.current_segment]
      new == [seg EXCEPT !.gates = Append(@, [abc |-> op.val, d |-> 0])]
  IN  SetTop([ev EXCEPT !.segments[f.current_segment] = new],
             Advanced([f EXCEPT !.extras = Append(@, Len(seg.gates) + 1)]))

(* assign_extra(): overwrite d at the token's place of the current segment. *)
SetExtra(ev, op) ==
  LET f == Top(ev)
  IN  SetTop([ev EXCEPT !.segments[f.current_segment]
                        .gates[f.extras[op.gate]].d = op.val], Advanced(f))

(* add() and enforce_zero() do nothing in this driver.                     *)
Ignore(ev) == SetTop(ev, Advanced(Top(ev)))

(* Mutant of Counted: the call does not take its index.                    *)
Uncounted(f) == Advanced(f)

(* The prefix of the segment the next routine call gets, and the caller's  *)
(* frame after that call took its index.                                   *)
ChildPrefix(ev) == Append(Top(ev).dfs_prefix, Top(ev).routine_counter)
Counted(f)      == Advanced([f EXCEPT !.routine_counter = @ + 1])

(* routine() predicted Unknown: a new segment, and the scope replaced by   *)
(* the routine's while it executes (DriverScope::with_scope).              *)
EnterRoutine(ev, op) ==
  LET prefix == ChildPrefix(ev)
      inner  == NewFrame(op.name, Len(ev.segments) + 1, prefix)
      caller == [ev.stack EXCEPT ![1] = Counted(Top(ev))]
  IN  [ev EXCEPT !.segments = Append(@, NewSegment(prefix)),
                 !.stack = <<inner>> \o caller]

(* routine() predicted Known: this evaluator only takes the index.         *)
DeferRoutine(ev) == SetTop(ev, Counted(Top(ev)))

(* Mutant of LeaveScope: the caller stays on the routine's segment.        *)
LeaveScopeOnSegment(ev) ==
  LET seg == Top(ev).current_segment
  IN  [ev EXCEPT !.stack = IF Len(@) = 1 THEN Tail(@)
                           ELSE [Tail(@) EXCEPT ![1].current_segment = seg]]

(* The body returns: with_scope restores the caller's scope.               *)
LeaveScope(ev) == [ev EXCEPT !.stack = Tail(@)]

(* A closure or predict() fails and `?` unwinds every scope.               *)
Unwind(ev, e) == [ev EXCEPT !.stack = <<>>, !.err = e]

(* finish(): the segments in DFS order.  sort_unstable leaves the order of *)
(* equal paths open: such segments come in arrival order or in reverse.    *)
Arranged(segments, Earlier(_, _)) ==
  LET places   == DOMAIN segments
      path(i)  == segments[i].dfs_path
      place(i) == 1 + Cardinality({ j \in places : \/ PathLess(path(j), path(i))
                                                   \/ path(j) = path(i) /\ Earlier(j, i) })
  IN  [k \in places |-> segments[CHOOSE i \in places : place(i) = k]]

(* Mutant of Sorted: segments stay in arrival order.                       *)
Unsorted(segments) == {segments}

Sorted(segments) ==
  { Arranged(segments, LAMBDA i, j : i < j), Arranged(segments, LAMBDA i, j : i > j) }

(* Segments in strict depth-first order.                                   *)
InOrder(list) == \A i, j \in DOMAIN list :
                   i < j => PathLess(list[i].dfs_path, list[j].dfs_path)

(* The token of an assign_extra() is one a gate() of the same body gave.   *)
ASSUME TokensAssumption ==
  \A p \in Programs, n \in Routines : \A i \in Kind(p, n, "assign_extra") :
    p[n].ops[i].gate <= GatesMade(p, n, i)
=============================================================================
