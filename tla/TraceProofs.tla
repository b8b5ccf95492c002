---------------------------- MODULE TraceProofs ----------------------------
(***************************************************************************)
(* Proofs about module Trace, for every set of circuits and every schedule *)
(* of any number of tasks: the paths of the segments, that eval accounts   *)
(* for every task, that the tasks' segments are those of the circuit's     *)
(* calls, that their errors are those a depth-first run can raise, and so  *)
(* that the multicore evaluation implements TraceEval.  At the end the     *)
(* same of the build without tasks, module TraceInline.                    *)
(***************************************************************************)
EXTENDS Trace, DataTheorems

(* The part of the invariant that concerns one evaluator: its type, and    *)
(* what ScopesOwnSegments says of it; the segments of its suspended scopes *)
(* are older than the one of the scope that suspended them.                *)
OwnsSegment(ev, i) ==
  LET f == ev.stack[i]
  IN  /\ f.current_segment \in DOMAIN ev.segments
      /\ ev.segments[f.current_segment].dfs_path = f.dfs_prefix
      /\ \A k \in DOMAIN f.extras :
           f.extras[k] \in DOMAIN ev.segments[f.current_segment].gates

WellFormed(ev) ==
  /\ ev \in EvaluatorSet
  /\ \A i \in DOMAIN ev.stack : OwnsSegment(ev, i)
  /\ \A i, j \in DOMAIN ev.stack :
       i < j => ev.stack[j].current_segment < ev.stack[i].current_segment

(* A step that adds no segment and no routine index: it keeps the paths of *)
(* the segments, and every scope left is one that was there.               *)
Quiet(ev, new) ==
  /\ DOMAIN new.segments = DOMAIN ev.segments
  /\ \A s \in DOMAIN ev.segments : new.segments[s].dfs_path = ev.segments[s].dfs_path
  /\ \A i \in DOMAIN new.stack : \E j \in DOMAIN ev.stack :
       /\ new.stack[i].dfs_prefix = ev.stack[j].dfs_prefix
       /\ new.stack[i].routine_counter = ev.stack[j].routine_counter

-----------------------------------------------------------------------------
(* Facts about sequences and frames the steps below rest on.               *)

(* EXCEPT keeps a sequence a sequence, also when the place is outside it.  *)
LEMMA ExceptAnywhere ==
  ASSUME NEW S, NEW seq \in Seq(S), NEW i, NEW e, i \in DOMAIN seq => e \in S
  PROVE  /\ [seq EXCEPT ![i] = e] \in Seq(S)
         /\ DOMAIN [seq EXCEPT ![i] = e] = DOMAIN seq
<1>1. seq \in [1 .. Len(seq) -> S] /\ DOMAIN seq = 1 .. Len(seq) /\ Len(seq) \in Nat
  BY LenProperties
<1>2. CASE i \in DOMAIN seq
  BY <1>1, <1>2, ExceptSeq
<1>3. CASE i \notin DOMAIN seq
  <2>1. [seq EXCEPT ![i] = e] = seq
    BY <1>1, <1>3
  <2> QED
    BY <2>1
<1> QED
  BY <1>2, <1>3

(* Moving a frame to its next operation changes nothing else of it.        *)
LEMMA AdvancedFrame ==
  ASSUME NEW g \in Frame
  PROVE  /\ Advanced(g) \in Frame
         /\ Advanced(g).current_segment = g.current_segment
         /\ Advanced(g).dfs_prefix = g.dfs_prefix
         /\ Advanced(g).routine_counter = g.routine_counter
         /\ Advanced(g).extras = g.extras
BY DEF Advanced, Frame

(* Counting a routine call changes only the counter.                       *)
LEMMA CountedFrame ==
  ASSUME NEW g \in Frame
  PROVE  /\ Counted(g) \in Frame
         /\ Counted(g).current_segment = g.current_segment
         /\ Counted(g).dfs_prefix = g.dfs_prefix
         /\ Counted(g).routine_counter = g.routine_counter + 1
         /\ Counted(g).extras = g.extras
<1> DEFINE h == [g EXCEPT !.routine_counter = @ + 1]
<1>1. /\ h \in Frame
      /\ h.current_segment = g.current_segment
      /\ h.dfs_prefix = g.dfs_prefix
      /\ h.routine_counter = g.routine_counter + 1
      /\ h.extras = g.extras
  BY DEF Frame
<1>2. Counted(g) = Advanced(h)
  BY DEF Counted
<1> HIDE DEF h
<1> QED
  BY <1>1, <1>2, AdvancedFrame

-----------------------------------------------------------------------------
(* The steps of one evaluator keep it well formed.                         *)

(* What the next driver call of a running evaluator can be.                *)
LEMMA NextOpType ==
  ASSUME NEW p \in Programs, NEW ev \in EvaluatorSet, Running(ev), ~AtEnd(p, ev)
  PROVE  NextOp(p, ev) \in Op
<1>1. ev.stack[1] \in Frame
  BY DEF EvaluatorSet, Running
<1>2. p \in [Routines -> Body]
  BY CircuitAssumption
<1>3. p[Top(ev).name].ops \in Seq(Op)
  BY <1>1, <1>2 DEF Top, Frame, Body
<1>4. Top(ev).at \in 1 .. Len(p[Top(ev).name].ops)
  BY <1>1, <1>3 DEF Top, Frame, AtEnd
<1> QED
  BY <1>3, <1>4 DEF NextOp

(* A new segment is well formed and carries its path.                      *)
LEMMA NewSegmentType ==
  ASSUME NEW prefix \in Path
  PROVE  /\ NewSegment(prefix) \in Segment
         /\ NewSegment(prefix).dfs_path = prefix
<1>1. Placeholder \in TraceGate
  BY DEF Placeholder, TraceGate
<1>2. <<Placeholder>> \in Seq(TraceGate) /\ <<>> \in Seq(TraceGate)
  BY <1>1
<1> QED
  BY <1>2 DEF NewSegment, Segment

(* An evaluator starts well formed, with the one segment it was spawned    *)
(* for.                                                                    *)
LEMMA NewEvaluatorWellFormed ==
  ASSUME NEW name \in Routines, NEW prefix \in Path
  PROVE  WellFormed(NewEvaluator(name, prefix))
<1>1. NewSegment(prefix) \in Segment /\ NewSegment(prefix).dfs_path = prefix
  BY NewSegmentType
<1>2. NewFrame(name, 1, prefix) \in Frame
  BY DEF NewFrame, Frame, Path
<1>3. NewEvaluator(name, prefix) \in EvaluatorSet
  BY <1>1, <1>2 DEF NewEvaluator, EvaluatorSet
<1> QED
  BY <1>1, <1>3 DEF WellFormed, OwnsSegment, NewEvaluator, NewFrame

(* Replacing the innermost frame by one of the same scope.                 *)
LEMMA SetTopWellFormed ==
  ASSUME NEW ev, WellFormed(ev), Running(ev), NEW f \in Frame,
         f.current_segment = Top(ev).current_segment,
         f.dfs_prefix = Top(ev).dfs_prefix,
         f.extras = Top(ev).extras
  PROVE  WellFormed(SetTop(ev, f))
<1>1. ev \in EvaluatorSet /\ ev.stack \in Seq(Frame) /\ 1 \in 1 .. Len(ev.stack)
  BY DEF WellFormed, EvaluatorSet, Running
<1> DEFINE new == SetTop(ev, f)
<1>2. /\ new.stack \in Seq(Frame)
      /\ DOMAIN new.stack = DOMAIN ev.stack
      /\ new.stack[1] = f
      /\ \A i \in DOMAIN ev.stack : i # 1 => new.stack[i] = ev.stack[i]
      /\ new.segments = ev.segments
      /\ new.err = ev.err
  BY <1>1, ExceptSeq DEF SetTop, EvaluatorSet
<1>3. new \in EvaluatorSet
  BY <1>1, <1>2 DEF SetTop, EvaluatorSet
<1>4. \A i \in DOMAIN new.stack : OwnsSegment(new, i)
  BY <1>1, <1>2 DEF WellFormed, OwnsSegment, Top
<1>5. \A i \in DOMAIN new.stack :
        new.stack[i].current_segment = ev.stack[i].current_segment
  BY <1>2 DEF Top
<1>6. \A i, j \in DOMAIN new.stack :
        i < j => new.stack[j].current_segment < new.stack[i].current_segment
  BY <1>2, <1>5 DEF WellFormed
<1> QED
  BY <1>3, <1>4, <1>6 DEF WellFormed

(* Operations the evaluator does not record keep it well formed.           *)
LEMMA IgnoreStep ==
  ASSUME NEW ev, WellFormed(ev), Running(ev)
  PROVE  WellFormed(Ignore(ev)) /\ Quiet(ev, Ignore(ev))
<1> DEFINE f == Advanced(Top(ev))
<1>1. ev \in EvaluatorSet /\ Top(ev) \in Frame /\ 1 \in DOMAIN ev.stack
  BY DEF WellFormed, EvaluatorSet, Running, Top
<1>2. /\ f \in Frame
      /\ f.current_segment = Top(ev).current_segment
      /\ f.dfs_prefix = Top(ev).dfs_prefix
      /\ f.extras = Top(ev).extras
      /\ f.routine_counter = Top(ev).routine_counter
  BY <1>1 DEF Advanced, Frame
<1>3. WellFormed(Ignore(ev))
  BY <1>2, SetTopWellFormed DEF Ignore
<1>4. \A i \in DOMAIN ev.stack :
        /\ SetTop(ev, f).stack[i].dfs_prefix = ev.stack[i].dfs_prefix
        /\ SetTop(ev, f).stack[i].routine_counter = ev.stack[i].routine_counter
  BY <1>1, <1>2 DEF SetTop, Top, EvaluatorSet
<1>5. Quiet(ev, Ignore(ev))
  BY <1>1, <1>4 DEF Quiet, Ignore, SetTop, EvaluatorSet
<1> QED
  BY <1>3, <1>5

(* Handing a routine to another task keeps the evaluator well formed.      *)
LEMMA DeferStep ==
  ASSUME NEW ev, WellFormed(ev), Running(ev)
  PROVE  WellFormed(DeferRoutine(ev))
<1> DEFINE f == Counted(Top(ev))
<1>1. Top(ev) \in Frame
  BY DEF WellFormed, EvaluatorSet, Running, Top
<1>2. /\ f \in Frame
      /\ f.current_segment = Top(ev).current_segment
      /\ f.dfs_prefix = Top(ev).dfs_prefix
      /\ f.extras = Top(ev).extras
  BY <1>1, CountedFrame
<1> QED
  BY <1>2, SetTopWellFormed DEF DeferRoutine

(* Changing the gates of the innermost scope's segment, not their number   *)
(* downwards, and the innermost frame within its scope.                    *)
LEMMA WriteGates ==
  ASSUME NEW ev, WellFormed(ev), Running(ev),
         NEW gates \in Seq(TraceGate), NEW f \in Frame,
         f.current_segment = Top(ev).current_segment,
         f.dfs_prefix = Top(ev).dfs_prefix,
         f.routine_counter = Top(ev).routine_counter,
         DOMAIN ev.segments[Top(ev).current_segment].gates \subseteq DOMAIN gates,
         \A k \in DOMAIN f.extras : f.extras[k] \in DOMAIN gates,
         NEW new,
         new = [ev EXCEPT !.segments[Top(ev).current_segment].gates = gates, !.stack[1] = f]
  PROVE  WellFormed(new) /\ Quiet(ev, new)
<1> DEFINE c == Top(ev).current_segment
<1>1. /\ ev \in EvaluatorSet /\ ev.stack \in Seq(Frame) /\ 1 \in 1 .. Len(ev.stack)
      /\ ev.segments \in Seq(Segment)
      /\ DOMAIN ev.stack = 1 .. Len(ev.stack)
  BY DEF WellFormed, EvaluatorSet, Running
<1>2. c \in DOMAIN ev.segments
  BY <1>1 DEF WellFormed, OwnsSegment, Top
<1>3. /\ ev.segments[c] \in Segment
      /\ [ev.segments[c] EXCEPT !.gates = gates] \in Segment
  <2>1. ev.segments[c] \in Segment
    BY <1>1, <1>2
  <2> QED
    BY <2>1 DEF Segment
<1>4. /\ new.segments \in Seq(Segment)
      /\ DOMAIN new.segments = DOMAIN ev.segments
      /\ \A s \in DOMAIN ev.segments :
           /\ new.segments[s].dfs_path = ev.segments[s].dfs_path
           /\ s # c => new.segments[s].gates = ev.segments[s].gates
      /\ new.segments[c].gates = gates
  <2>1. new.segments = [ev.segments EXCEPT ![c] = [ev.segments[c] EXCEPT !.gates = gates]]
    BY <1>1, <1>2 DEF EvaluatorSet
  <2> QED
    BY <2>1, <1>1, <1>2, <1>3, ExceptSeq DEF Segment
<1>5. /\ new.stack \in Seq(Frame)
      /\ DOMAIN new.stack = DOMAIN ev.stack
      /\ new.stack[1] = f
      /\ \A i \in DOMAIN ev.stack : i # 1 => new.stack[i] = ev.stack[i]
  <2>1. new.stack = [ev.stack EXCEPT ![1] = f]
    BY <1>1 DEF EvaluatorSet
  <2> QED
    BY <2>1, <1>1, ExceptSeq
<1>6. new \in EvaluatorSet
  BY <1>1, <1>4, <1>5 DEF EvaluatorSet
<1>7. \A i \in DOMAIN new.stack :
        /\ new.stack[i].current_segment = ev.stack[i].current_segment
        /\ new.stack[i].dfs_prefix = ev.stack[i].dfs_prefix
        /\ new.stack[i].routine_counter = ev.stack[i].routine_counter
  BY <1>5 DEF Top
<1>8. ASSUME NEW i \in DOMAIN new.stack
      PROVE  OwnsSegment(new, i)
  <2>1. OwnsSegment(ev, i)
    BY <1>5 DEF WellFormed
  <2>2. CASE i = 1
    <3>1. new.stack[1] = f /\ f.current_segment = c /\ c \in DOMAIN new.segments
      BY <1>2, <1>4, <1>5 DEF Top
    <3>2. new.segments[c].dfs_path = f.dfs_prefix
      BY <2>1, <2>2, <1>2, <1>4 DEF OwnsSegment, Top
    <3>3. \A k \in DOMAIN f.extras : f.extras[k] \in DOMAIN new.segments[c].gates
      BY <1>4
    <3> QED
      BY ONLY <2>2, <3>1, <3>2, <3>3 DEF OwnsSegment
  <2>3. CASE i # 1
    <3>1. ev.stack[i] \in Frame /\ ev.stack[1] \in Frame /\ 1 < i
      BY <2>3, <1>1, <1>5
    <3>2. ev.stack[i].current_segment < ev.stack[1].current_segment
      BY <3>1, <1>1, <1>5 DEF WellFormed
    <3>3. ev.stack[i].current_segment # c
      BY <3>1, <3>2 DEF Top, Frame
    <3> QED
      BY <2>1, <2>3, <3>3, <1>4, <1>5 DEF OwnsSegment
  <2> QED
    BY <2>2, <2>3
<1>9. \A i, j \in DOMAIN new.stack :
        i < j => new.stack[j].current_segment < new.stack[i].current_segment
  BY <1>5, <1>7 DEF WellFormed
<1>10. Quiet(ev, new)
  BY <1>4, <1>5, <1>7 DEF Quiet
<1> QED
  BY <1>6, <1>8, <1>9, <1>10 DEF WellFormed

(* Recording a gate keeps the evaluator well formed.                       *)
LEMMA PushGateStep ==
  ASSUME NEW ev, WellFormed(ev), Running(ev), NEW op \in GateOp
  PROVE  WellFormed(PushGate(ev, op)) /\ Quiet(ev, PushGate(ev, op))
<1> DEFINE c     == Top(ev).current_segment
           old   == ev.segments[c].gates
           gate  == [abc |-> op.val, d |-> 0]
           gates == Append(old, gate)
           token == Len(old) + 1
           g     == [Top(ev) EXCEPT !.extras = Append(@, token)]
           f     == Advanced(g)
<1>1. /\ ev \in EvaluatorSet /\ Top(ev) \in Frame
      /\ c \in DOMAIN ev.segments
      /\ ev.segments[c] \in Segment
      /\ \A k \in DOMAIN Top(ev).extras : Top(ev).extras[k] \in DOMAIN old
  BY DEF WellFormed, EvaluatorSet, Running, Top, OwnsSegment
<1>2. old \in Seq(TraceGate) /\ gate \in TraceGate
  BY <1>1 DEF Segment, TraceGate, GateOp
<1>3. /\ gates \in Seq(TraceGate)
      /\ DOMAIN old = 1 .. Len(old)
      /\ DOMAIN gates = 1 .. Len(old) + 1
  BY <1>2, AppendProperties
<1>4. Top(ev).extras \in Seq(Nat \ {0}) /\ token \in Nat \ {0}
  BY <1>1, <1>2 DEF Frame
<1>5. /\ g.extras \in Seq(Nat \ {0})
      /\ \A k \in DOMAIN g.extras : g.extras[k] \in DOMAIN gates
  <2>1. g.extras = Append(Top(ev).extras, token)
    BY <1>1 DEF Frame
  <2>2. g.extras \in Seq(Nat \ {0})
    BY <2>1, <1>4
  <2>3. \A k \in DOMAIN g.extras : g.extras[k] = token \/
          (k \in DOMAIN Top(ev).extras /\ g.extras[k] = Top(ev).extras[k])
    BY <2>1, <1>4, AppendProperties
  <2> HIDE DEF g, gates, old, token
  <2>4. token \in DOMAIN gates /\ DOMAIN old \subseteq DOMAIN gates
    BY <1>2, <1>3 DEF token
  <2> QED
    BY <2>2, <2>3, <2>4, <1>1
<1>6. /\ f \in Frame
      /\ f.current_segment = c
      /\ f.dfs_prefix = Top(ev).dfs_prefix
      /\ f.routine_counter = Top(ev).routine_counter
      /\ f.extras = g.extras
  <2>1. /\ g \in Frame
        /\ g.current_segment = c
        /\ g.dfs_prefix = Top(ev).dfs_prefix
        /\ g.routine_counter = Top(ev).routine_counter
    BY <1>1, <1>5 DEF Frame
  <2> HIDE DEF g
  <2> QED
    BY <2>1, AdvancedFrame
<1>7. PushGate(ev, op) = [ev EXCEPT !.segments[c].gates = gates, !.stack[1] = f]
  BY <1>1 DEF PushGate, SetTop, EvaluatorSet, Segment
<1>8. DOMAIN ev.segments[Top(ev).current_segment].gates \subseteq DOMAIN gates
  BY <1>2, <1>3
<1> HIDE DEF c, old, gates, f, g
<1>9. WellFormed([ev EXCEPT !.segments[c].gates = gates, !.stack[1] = f])
      /\ Quiet(ev, [ev EXCEPT !.segments[c].gates = gates, !.stack[1] = f])
  BY <1>3, <1>5, <1>6, <1>8, WriteGates DEF c
<1> QED
  BY <1>7, <1>9

(* Assigning an extra wire keeps the evaluator well formed.                *)
LEMMA SetExtraStep ==
  ASSUME NEW ev, WellFormed(ev), Running(ev), NEW op \in AssignExtraOp
  PROVE  WellFormed(SetExtra(ev, op)) /\ Quiet(ev, SetExtra(ev, op))
<1> DEFINE c     == Top(ev).current_segment
           old   == ev.segments[c].gates
           token == Top(ev).extras[op.gate]
           gates == [old EXCEPT ![token].d = op.val]
           f     == Advanced(Top(ev))
<1>1. /\ ev \in EvaluatorSet /\ Top(ev) \in Frame
      /\ c \in DOMAIN ev.segments
      /\ ev.segments[c] \in Segment
      /\ \A k \in DOMAIN Top(ev).extras : Top(ev).extras[k] \in DOMAIN old
  BY DEF WellFormed, EvaluatorSet, Running, Top, OwnsSegment
<1>2. old \in Seq(TraceGate) /\ op.val \in Nat
  BY <1>1 DEF Segment, AssignExtraOp
<1>3. gates \in Seq(TraceGate) /\ DOMAIN gates = DOMAIN old
  <2> DEFINE e == [old[token] EXCEPT !.d = op.val]
  <2>1. token \in DOMAIN old => e \in TraceGate
    <3>1. token \in DOMAIN old => old[token] \in TraceGate
      BY <1>2
    <3> QED
      BY <3>1, <1>2 DEF TraceGate
  <2>2. gates = [old EXCEPT ![token] = e]
    OBVIOUS
  <2> HIDE DEF e, old, gates, token
  <2> QED
    BY <2>1, <2>2, <1>2, ExceptAnywhere
<1>4. /\ f \in Frame
      /\ f.current_segment = c
      /\ f.dfs_prefix = Top(ev).dfs_prefix
      /\ f.routine_counter = Top(ev).routine_counter
      /\ f.extras = Top(ev).extras
  BY <1>1, AdvancedFrame
<1>5. SetExtra(ev, op) = [ev EXCEPT !.segments[c].gates = gates, !.stack[1] = f]
  BY <1>1 DEF SetExtra, SetTop, EvaluatorSet, Segment
<1>6. /\ DOMAIN ev.segments[Top(ev).current_segment].gates \subseteq DOMAIN gates
      /\ \A k \in DOMAIN f.extras : f.extras[k] \in DOMAIN gates
  BY <1>1, <1>3, <1>4
<1> HIDE DEF c, old, gates, f
<1>7. WellFormed([ev EXCEPT !.segments[c].gates = gates, !.stack[1] = f])
      /\ Quiet(ev, [ev EXCEPT !.segments[c].gates = gates, !.stack[1] = f])
  BY <1>3, <1>4, <1>6, WriteGates DEF c
<1> QED
  BY <1>5, <1>7

(* Returning from a routine's scope keeps the evaluator well formed.       *)
LEMMA LeaveScopeStep ==
  ASSUME NEW ev, WellFormed(ev), Running(ev)
  PROVE  WellFormed(LeaveScope(ev)) /\ Quiet(ev, LeaveScope(ev))
<1> DEFINE new == LeaveScope(ev)
<1>1. ev \in EvaluatorSet /\ ev.stack \in Seq(Frame) /\ ev.stack # <<>>
  BY DEF WellFormed, EvaluatorSet, Running
<1>2. /\ new.stack = Tail(ev.stack)
      /\ new.segments = ev.segments
      /\ new \in EvaluatorSet
  <2>1. Tail(ev.stack) \in Seq(Frame)
    BY <1>1, HeadTailProperties
  <2> QED
    BY <1>1, <2>1 DEF LeaveScope, EvaluatorSet
<1>3. /\ DOMAIN new.stack = 1 .. Len(ev.stack) - 1
      /\ DOMAIN ev.stack = 1 .. Len(ev.stack)
      /\ Len(ev.stack) \in Nat
      /\ \A i \in DOMAIN new.stack : i + 1 \in DOMAIN ev.stack /\ new.stack[i] = ev.stack[i + 1]
  BY <1>1, <1>2, HeadTailProperties
<1>4. \A i \in DOMAIN new.stack : OwnsSegment(new, i)
  BY <1>2, <1>3 DEF WellFormed, OwnsSegment
<1>5. \A i, j \in DOMAIN new.stack :
        i < j => new.stack[j].current_segment < new.stack[i].current_segment
  BY <1>3 DEF WellFormed
<1>6. Quiet(ev, new)
  BY <1>2, <1>3 DEF Quiet
<1> QED
  BY <1>2, <1>4, <1>5, <1>6 DEF WellFormed

(* Failing keeps the segments recorded so far.                             *)
LEMMA UnwindStep ==
  ASSUME NEW ev, WellFormed(ev), NEW e \in Errors \union {Ok}
  PROVE  WellFormed(Unwind(ev, e)) /\ Quiet(ev, Unwind(ev, e))
<1>1. Unwind(ev, e) \in EvaluatorSet
  <2>1. ev \in EvaluatorSet /\ <<>> \in Seq(Frame)
    BY DEF WellFormed
  <2> QED
    BY <2>1 DEF EvaluatorSet, Unwind
<1>2. Unwind(ev, e).segments = ev.segments /\ DOMAIN Unwind(ev, e).stack = {}
  BY DEF WellFormed, EvaluatorSet, Unwind
<1> QED
  BY <1>1, <1>2 DEF WellFormed, Quiet

(* A child's path is its caller's, one longer.                             *)
LEMMA ChildPrefixType ==
  ASSUME NEW ev, WellFormed(ev), Running(ev)
  PROVE  /\ Top(ev) \in Frame
         /\ ChildPrefix(ev) \in Path
         /\ Len(ChildPrefix(ev)) = Len(Top(ev).dfs_prefix) + 1
         /\ \A k \in 1 .. Len(Top(ev).dfs_prefix) :
              ChildPrefix(ev)[k] = Top(ev).dfs_prefix[k]
         /\ ChildPrefix(ev)[Len(Top(ev).dfs_prefix) + 1] = Top(ev).routine_counter
<1>1. Top(ev) \in Frame
  BY DEF WellFormed, EvaluatorSet, Running, Top
<1>2. Top(ev).dfs_prefix \in Seq(Nat) /\ Top(ev).routine_counter \in Nat
  BY <1>1 DEF Frame, Path
<1> QED
  BY <1>1, <1>2, AppendProperties DEF ChildPrefix, Path

(* Executing an Unknown routine adds the segment of the child's path and a *)
(* scope of that path on top of the caller's, which took one index.        *)
LEMMA EnterRoutineStep ==
  ASSUME NEW ev, WellFormed(ev), Running(ev), NEW op \in RoutineOp
  PROVE  LET new == EnterRoutine(ev, op)
             n   == Len(ev.segments)
         IN  /\ WellFormed(new)
             /\ DOMAIN ev.segments = 1 .. n /\ DOMAIN new.segments = 1 .. n + 1
             /\ \A s \in 1 .. n : new.segments[s] = ev.segments[s]
             /\ new.segments[n + 1].dfs_path = ChildPrefix(ev)
             /\ DOMAIN new.stack = 1 .. Len(ev.stack) + 1
             /\ new.stack[1].dfs_prefix = ChildPrefix(ev)
             /\ new.stack[1].routine_counter = 0
             /\ new.stack[2].dfs_prefix = Top(ev).dfs_prefix
             /\ new.stack[2].routine_counter = Top(ev).routine_counter + 1
             /\ \A i \in 2 .. Len(ev.stack) : new.stack[i + 1] = ev.stack[i]
<1> DEFINE new    == EnterRoutine(ev, op)
           n      == Len(ev.segments)
           prefix == ChildPrefix(ev)
           inner  == NewFrame(op.name, n + 1, prefix)
           caller == Counted(Top(ev))
           outer  == [ev.stack EXCEPT ![1] = caller]
<1>1. /\ ev \in EvaluatorSet
      /\ ev.segments \in Seq(Segment) /\ n \in Nat /\ DOMAIN ev.segments = 1 .. n
      /\ ev.stack \in Seq(Frame) /\ DOMAIN ev.stack = 1 .. Len(ev.stack)
      /\ Len(ev.stack) \in Nat /\ 1 \in DOMAIN ev.stack
  BY DEF WellFormed, EvaluatorSet, Running
<1>2. prefix \in Path /\ Top(ev) \in Frame
  BY ChildPrefixType
<1>3. NewSegment(prefix) \in Segment /\ NewSegment(prefix).dfs_path = prefix
  BY <1>2, NewSegmentType
<1>4. /\ inner \in Frame
      /\ inner.current_segment = n + 1
      /\ inner.dfs_prefix = prefix
      /\ inner.routine_counter = 0
      /\ inner.extras = <<>>
  BY <1>1, <1>2 DEF NewFrame, Frame, RoutineOp
<1>5. /\ caller \in Frame
      /\ caller.current_segment = Top(ev).current_segment
      /\ caller.dfs_prefix = Top(ev).dfs_prefix
      /\ caller.routine_counter = Top(ev).routine_counter + 1
      /\ caller.extras = Top(ev).extras
  BY <1>2, CountedFrame
<1>6. /\ outer \in Seq(Frame) /\ Len(outer) = Len(ev.stack)
      /\ outer[1] = caller
      /\ \A i \in 2 .. Len(ev.stack) : outer[i] = ev.stack[i]
  BY <1>1, <1>5, ExceptSeq
<1>7. new = [ev EXCEPT !.segments = Append(ev.segments, NewSegment(prefix)),
                       !.stack = <<inner>> \o outer]
  BY DEF EnterRoutine
<1> HIDE DEF new, n, prefix, inner, caller, outer
<1>8. /\ new.segments = Append(ev.segments, NewSegment(prefix))
      /\ new.stack = <<inner>> \o outer
      /\ new.err = ev.err
      /\ new = [segments |-> new.segments, stack |-> new.stack, err |-> new.err]
  BY <1>1, <1>7 DEF EvaluatorSet
<1>9. /\ new.segments \in Seq(Segment)
      /\ DOMAIN new.segments = 1 .. n + 1
      /\ \A s \in 1 .. n : new.segments[s] = ev.segments[s]
      /\ new.segments[n + 1].dfs_path = prefix
  BY <1>1, <1>3, <1>8, AppendProperties DEF n
<1>10. /\ new.stack \in Seq(Frame)
       /\ DOMAIN new.stack = 1 .. Len(ev.stack) + 1
       /\ new.stack[1] = inner
       /\ new.stack[2] = caller
       /\ \A i \in 2 .. Len(ev.stack) : new.stack[i + 1] = ev.stack[i]
  <2>1. <<inner>> \in Seq(Frame) /\ Len(<<inner>>) = 1
    BY <1>4
  <2>2. /\ new.stack \in Seq(Frame)
        /\ Len(new.stack) = Len(ev.stack) + 1
        /\ \A i \in 1 .. Len(ev.stack) + 1 :
             new.stack[i] = IF i <= 1 THEN <<inner>>[i] ELSE outer[i - 1]
    BY <2>1, <1>1, <1>6, <1>8, ConcatProperties
  <2>3. DOMAIN new.stack = 1 .. Len(ev.stack) + 1
    BY <2>2, LenProperties
  <2>4. new.stack[1] = inner
    BY <2>2, <1>1
  <2>5. new.stack[2] = caller
    BY <2>2, <1>1, <1>6
  <2>6. \A i \in 2 .. Len(ev.stack) : new.stack[i + 1] = ev.stack[i]
    <3>1. \A i \in 2 .. Len(ev.stack) : i + 1 \in 1 .. Len(ev.stack) + 1 /\ ~(i + 1 <= 1)
      BY <1>1
    <3>2. \A i \in 2 .. Len(ev.stack) : new.stack[i + 1] = outer[i]
      BY <3>1, <2>2, <1>1
    <3> QED
      BY <3>2, <1>6
  <2> QED
    BY <2>2, <2>3, <2>4, <2>5, <2>6
<1>11. new \in EvaluatorSet
  BY <1>1, <1>8, <1>9, <1>10 DEF EvaluatorSet
<1>12. \A i \in 2 .. Len(ev.stack) + 1 :
         /\ i - 1 \in DOMAIN ev.stack
         /\ new.stack[i].current_segment = ev.stack[i - 1].current_segment
         /\ new.stack[i].dfs_prefix = ev.stack[i - 1].dfs_prefix
         /\ new.stack[i].extras = ev.stack[i - 1].extras
  <2> TAKE i \in 2 .. Len(ev.stack) + 1
  <2>1. CASE i = 2
    BY <2>1, <1>1, <1>5, <1>10 DEF Top
  <2>2. CASE i # 2
    <3>1. i - 1 \in 2 .. Len(ev.stack) /\ (i - 1) + 1 = i
      BY <2>2, <1>1
    <3>2. new.stack[(i - 1) + 1] = ev.stack[i - 1]
      BY <3>1, <1>10
    <3> QED
      BY <3>1, <3>2, <1>1
  <2> QED
    BY <2>1, <2>2
<1>13. ASSUME NEW i \in DOMAIN new.stack
       PROVE  OwnsSegment(new, i)
  <2>1. CASE i = 1
    BY <2>1, <1>1, <1>4, <1>9, <1>10 DEF OwnsSegment
  <2>2. CASE i # 1
    <3>1. i \in 2 .. Len(ev.stack) + 1
      BY <2>2, <1>1, <1>10
    <3>2. OwnsSegment(ev, i - 1)
      BY <3>1, <1>12 DEF WellFormed
    <3>3. ev.stack[i - 1].current_segment \in 1 .. n
      BY <3>2, <1>1 DEF OwnsSegment
    <3>4. /\ new.stack[i].current_segment = ev.stack[i - 1].current_segment
          /\ new.stack[i].dfs_prefix = ev.stack[i - 1].dfs_prefix
          /\ new.stack[i].extras = ev.stack[i - 1].extras
          /\ new.segments[new.stack[i].current_segment]
               = ev.segments[ev.stack[i - 1].current_segment]
      BY <3>1, <3>3, <1>9, <1>12
    <3>5. new.stack[i].current_segment \in DOMAIN new.segments
      BY <3>3, <3>4, <1>1, <1>9
    <3> QED
      BY <3>2, <3>4, <3>5 DEF OwnsSegment
  <2> QED
    BY <2>1, <2>2
<1>14. ASSUME NEW i \in DOMAIN new.stack, NEW j \in DOMAIN new.stack, i < j
       PROVE  new.stack[j].current_segment < new.stack[i].current_segment
  <2>1. j \in 2 .. Len(ev.stack) + 1
    BY <1>1, <1>10, <1>14
  <2>2. CASE i = 1
    <3>1. ev.stack[j - 1].current_segment \in 1 .. n
      BY <2>1, <1>1, <1>12 DEF WellFormed, OwnsSegment
    <3> QED
      BY <2>1, <2>2, <3>1, <1>1, <1>4, <1>10, <1>12, SMTT(30)
  <2>3. CASE i # 1
    <3>1. i \in 2 .. Len(ev.stack) + 1 /\ i - 1 < j - 1
      BY <2>3, <1>1, <1>10, <1>14
    <3> QED
      BY <2>1, <3>1, <1>12 DEF WellFormed
  <2> QED
    BY <2>2, <2>3
<1>15. WellFormed(new)
  BY <1>11, <1>13, <1>14 DEF WellFormed
<1> QED
  BY <1>1, <1>4, <1>5, <1>9, <1>10, <1>15 DEF new, n, prefix

-----------------------------------------------------------------------------
(* The inductive invariant.  Path q runs through p; every scope's counter  *)
(* is ahead of all the indices its paths have used, in whichever task the  *)
(* segments of those paths are; hence the next child path is free.         *)
Below(p, q) == Len(p) < Len(q) /\ \A k \in 1 .. Len(p) : q[k] = p[k]

TasksWellFormed ==
  \A t \in DOMAIN tasks :
    /\ WellFormed(tasks[t])
    /\ 1 \in DOMAIN tasks[t].segments
    /\ tasks[t].segments[1].dfs_path = t

PathOf(u, s) == tasks[u].segments[s].dfs_path

CountersAhead ==
  \A t, u \in DOMAIN tasks :
    \A i \in DOMAIN tasks[t].stack, s \in DOMAIN tasks[u].segments :
      LET f == tasks[t].stack[i]
      IN  Below(f.dfs_prefix, PathOf(u, s))
            => PathOf(u, s)[Len(f.dfs_prefix) + 1] < f.routine_counter

Numbering == TasksWellFormed /\ PathsUnique /\ CountersAhead

IInv == TypeOK /\ Numbering

(* What the invariant says of the types of one task.                       *)
LEMMA TaskFacts ==
  ASSUME Numbering, NEW t \in DOMAIN tasks
  PROVE  /\ WellFormed(tasks[t])
         /\ tasks[t] \in EvaluatorSet
         /\ tasks[t].stack \in Seq(Frame)
         /\ DOMAIN tasks[t].stack = 1 .. Len(tasks[t].stack)
         /\ Len(tasks[t].stack) \in Nat
         /\ Running(tasks[t]) => 1 \in DOMAIN tasks[t].stack
         /\ \A i \in DOMAIN tasks[t].stack :
              /\ tasks[t].stack[i].current_segment \in Nat
              /\ tasks[t].stack[i].routine_counter \in Nat
              /\ tasks[t].stack[i].dfs_prefix \in Seq(Nat)
              /\ OwnsSegment(tasks[t], i)
         /\ \A s \in DOMAIN tasks[t].segments : PathOf(t, s) \in Seq(Nat)
<1>1. WellFormed(tasks[t]) /\ tasks[t] \in EvaluatorSet
  BY DEF Numbering, TasksWellFormed, WellFormed
<1>2. /\ tasks[t].stack \in Seq(Frame)
      /\ DOMAIN tasks[t].stack = 1 .. Len(tasks[t].stack)
      /\ Len(tasks[t].stack) \in Nat
      /\ Running(tasks[t]) => 1 \in DOMAIN tasks[t].stack
  BY <1>1 DEF EvaluatorSet, Running
<1>3. ASSUME NEW i \in DOMAIN tasks[t].stack
      PROVE  /\ tasks[t].stack[i].current_segment \in Nat
             /\ tasks[t].stack[i].routine_counter \in Nat
             /\ tasks[t].stack[i].dfs_prefix \in Seq(Nat)
             /\ OwnsSegment(tasks[t], i)
  <2>1. tasks[t].stack[i] \in Frame
    BY <1>2
  <2> QED
    BY <2>1, <1>1 DEF Frame, Path, WellFormed
<1>4. ASSUME NEW s \in DOMAIN tasks[t].segments
      PROVE  PathOf(t, s) \in Seq(Nat)
  <2>1. tasks[t].segments[s] \in Segment
    BY <1>1 DEF EvaluatorSet
  <2> QED
    BY <2>1 DEF Segment, Path, PathOf
<1> QED
  BY <1>1, <1>2, <1>3, <1>4

(* Two scopes under way never have the same path.                          *)
LEMMA ScopesDistinct ==
  ASSUME Numbering, NEW t \in DOMAIN tasks, NEW u \in DOMAIN tasks,
         NEW i \in DOMAIN tasks[t].stack, NEW j \in DOMAIN tasks[u].stack,
         tasks[t].stack[i].dfs_prefix = tasks[u].stack[j].dfs_prefix
  PROVE  t = u /\ i = j
<1>1. OwnsSegment(tasks[t], i) /\ OwnsSegment(tasks[u], j)
  BY DEF Numbering, TasksWellFormed, WellFormed
<1>2. /\ t = u
      /\ tasks[t].stack[i].current_segment = tasks[u].stack[j].current_segment
  BY <1>1 DEF Numbering, PathsUnique, OwnsSegment
<1>3. \A k, l \in DOMAIN tasks[t].stack : k < l =>
        tasks[t].stack[l].current_segment < tasks[t].stack[k].current_segment
  BY TaskFacts DEF WellFormed
<1>4. /\ i \in Nat /\ j \in Nat
      /\ tasks[t].stack[i].current_segment \in Nat
  BY <1>2, TaskFacts
<1> QED
  BY <1>2, <1>3, <1>4

(* The path of the next routine call of a task is carried by no segment,   *)
(* and no segment's path runs through it.                                  *)
LEMMA ChildFresh ==
  ASSUME Numbering, NEW t \in DOMAIN tasks, Running(tasks[t]),
         NEW u \in DOMAIN tasks, NEW s \in DOMAIN tasks[u].segments
  PROVE  /\ PathOf(u, s) # ChildPrefix(tasks[t])
         /\ ~Below(ChildPrefix(tasks[t]), PathOf(u, s))
<1> DEFINE q == Top(tasks[t]).dfs_prefix
           k == Top(tasks[t]).routine_counter
           c == ChildPrefix(tasks[t])
           p == PathOf(u, s)
<1>1. /\ Len(c) = Len(q) + 1
      /\ \A m \in 1 .. Len(q) : c[m] = q[m]
      /\ c[Len(q) + 1] = k
      /\ q \in Seq(Nat) /\ Len(q) \in Nat /\ k \in Nat
  BY TaskFacts, ChildPrefixType DEF Top
<1>2. 1 \in DOMAIN tasks[t].stack
  BY TaskFacts
<1>3. Below(q, p) => p[Len(q) + 1] < k
  BY <1>2 DEF Numbering, CountersAhead, Top
<1>4. p \in Seq(Nat) /\ Len(p) \in Nat
  BY TaskFacts
<1> HIDE DEF q, k, c, p
<1>5. ASSUME p = c \/ Below(c, p)
      PROVE  FALSE
  <2>1. Below(q, p) /\ p[Len(q) + 1] = k
    BY <1>1, <1>4, <1>5 DEF Below
  <2> QED
    BY <2>1, <1>1, <1>3
<1> QED
  BY <1>5 DEF c, p

(* Every other scope that path runs through has counted it already.        *)
LEMMA ChildCounted ==
  ASSUME Numbering, NEW t \in DOMAIN tasks, Running(tasks[t]),
         NEW u \in DOMAIN tasks, NEW i \in DOMAIN tasks[u].stack,
         u # t \/ i # 1,
         Below(tasks[u].stack[i].dfs_prefix, ChildPrefix(tasks[t]))
  PROVE  ChildPrefix(tasks[t])[Len(tasks[u].stack[i].dfs_prefix) + 1]
           < tasks[u].stack[i].routine_counter
<1> DEFINE q == Top(tasks[t]).dfs_prefix
           c == ChildPrefix(tasks[t])
           g == tasks[u].stack[i].dfs_prefix
<1>1. /\ Len(c) = Len(q) + 1
      /\ \A m \in 1 .. Len(q) : c[m] = q[m]
      /\ q \in Seq(Nat) /\ Len(q) \in Nat
  BY TaskFacts, ChildPrefixType DEF Top
<1>2. 1 \in DOMAIN tasks[t].stack /\ OwnsSegment(tasks[t], 1)
  BY TaskFacts
<1>3. g \in Seq(Nat) /\ Len(g) \in Nat
  BY TaskFacts
<1>4. g # q
  BY <1>2, ScopesDistinct DEF Top
<1>5. PICK s \in DOMAIN tasks[t].segments : PathOf(t, s) = q
  BY <1>2 DEF OwnsSegment, PathOf, Top
<1>6. Below(g, q) => q[Len(g) + 1] < tasks[u].stack[i].routine_counter
  BY <1>5 DEF Numbering, CountersAhead
<1>7. Below(g, c)
  OBVIOUS
<1> HIDE DEF q, c, g
<1>8. Len(g) # Len(q)
  <2>1. Len(g) = Len(q) => \A m \in 1 .. Len(g) : g[m] = q[m]
    BY <1>1, <1>3, <1>7 DEF Below
  <2> QED
    BY <2>1, <1>1, <1>3, <1>4, SeqEqual
<1>9. Below(g, q) /\ c[Len(g) + 1] = q[Len(g) + 1]
  <2>1. Len(g) < Len(q)
    BY <1>1, <1>3, <1>7, <1>8 DEF Below
  <2>2. \A m \in 1 .. Len(g) : m \in 1 .. Len(q) /\ c[m] = g[m] /\ c[m] = q[m]
    BY <2>1, <1>1, <1>3, <1>7 DEF Below
  <2>3. Below(g, q)
    BY <2>1, <2>2 DEF Below
  <2>4. Len(g) + 1 \in 1 .. Len(q)
    BY <2>1, <1>1, <1>3
  <2> QED
    BY <2>3, <2>4, <1>1
<1> QED
  BY <1>6, <1>9 DEF c, g

-----------------------------------------------------------------------------
(* How the steps of one task keep the numbering of all.                    *)

(* A step that adds no segment and counts no call keeps the numbering.     *)
LEMMA QuietStep ==
  ASSUME Numbering, NEW t \in DOMAIN tasks,
         NEW new, WellFormed(new), Quiet(tasks[t], new),
         tasks' = [tasks EXCEPT ![t] = new]
  PROVE  Numbering'
<1>1. /\ DOMAIN tasks' = DOMAIN tasks
      /\ tasks'[t] = new
      /\ \A u \in DOMAIN tasks : u # t => tasks'[u] = tasks[u]
  OBVIOUS
<1>2. \A u \in DOMAIN tasks :
        /\ DOMAIN tasks'[u].segments = DOMAIN tasks[u].segments
        /\ \A s \in DOMAIN tasks[u].segments :
             tasks'[u].segments[s].dfs_path = tasks[u].segments[s].dfs_path
  BY <1>1 DEF Quiet
<1>3. \A u \in DOMAIN tasks : \A i \in DOMAIN tasks'[u].stack :
        \E j \in DOMAIN tasks[u].stack :
          /\ tasks'[u].stack[i].dfs_prefix = tasks[u].stack[j].dfs_prefix
          /\ tasks'[u].stack[i].routine_counter = tasks[u].stack[j].routine_counter
  BY <1>1 DEF Quiet
<1>4. TasksWellFormed'
  BY <1>1, <1>2 DEF TasksWellFormed, Numbering
<1>5. PathsUnique'
  BY <1>1, <1>2 DEF PathsUnique, Numbering
<1>6. CountersAhead'
  <2>1. ASSUME NEW v \in DOMAIN tasks, NEW u \in DOMAIN tasks,
               NEW i \in DOMAIN tasks'[v].stack, NEW s \in DOMAIN tasks[u].segments
        PROVE  LET f == tasks'[v].stack[i]
                   p == tasks'[u].segments[s].dfs_path
               IN  Below(f.dfs_prefix, p) => p[Len(f.dfs_prefix) + 1] < f.routine_counter
    <3>1. PICK j \in DOMAIN tasks[v].stack :
            /\ tasks'[v].stack[i].dfs_prefix = tasks[v].stack[j].dfs_prefix
            /\ tasks'[v].stack[i].routine_counter = tasks[v].stack[j].routine_counter
      BY <1>3
    <3>2. tasks'[u].segments[s].dfs_path = PathOf(u, s)
      BY <1>2 DEF PathOf
    <3>3. Below(tasks[v].stack[j].dfs_prefix, PathOf(u, s))
            => PathOf(u, s)[Len(tasks[v].stack[j].dfs_prefix) + 1]
                 < tasks[v].stack[j].routine_counter
      BY DEF Numbering, CountersAhead
    <3> QED
      BY <3>1, <3>2, <3>3
  <2> QED
    <3>1. /\ DOMAIN tasks' = DOMAIN tasks
          /\ \A u \in DOMAIN tasks : DOMAIN tasks'[u].segments = DOMAIN tasks[u].segments
      BY <1>1, <1>2
    <3> QED
      BY ONLY <2>1, <3>1 DEF CountersAhead, PathOf
<1> QED
  BY <1>4, <1>5, <1>6 DEF Numbering

AddsSegment(t, w, m) ==
  \A u \in DOMAIN tasks' : \A s \in DOMAIN tasks'[u].segments :
    \/ /\ u \in DOMAIN tasks /\ s \in DOMAIN tasks[u].segments
       /\ tasks'[u].segments[s].dfs_path = PathOf(u, s)
    \/ /\ u = w /\ s = m
       /\ tasks'[u].segments[s].dfs_path = ChildPrefix(tasks[t])

AddsScope(t) ==
  \A v \in DOMAIN tasks' : \A i \in DOMAIN tasks'[v].stack :
    \/ tasks'[v].stack[i].dfs_prefix = ChildPrefix(tasks[t])
    \/ /\ tasks'[v].stack[i].dfs_prefix = Top(tasks[t]).dfs_prefix
       /\ tasks'[v].stack[i].routine_counter = Top(tasks[t]).routine_counter + 1
    \/ \E x \in DOMAIN tasks : \E j \in DOMAIN tasks[x].stack :
         /\ x # t \/ j # 1
         /\ tasks'[v].stack[i].dfs_prefix = tasks[x].stack[j].dfs_prefix
         /\ tasks'[v].stack[i].routine_counter = tasks[x].stack[j].routine_counter

(* A routine call of task t adds one segment, <<w, m>>, with the child's   *)
(* path c, at most one scope with that path, and its caller counts the     *)
(* call; whether t executes it or a new task does makes no difference.     *)
LEMMA CallStep ==
  ASSUME Numbering, NEW t \in DOMAIN tasks, Running(tasks[t]), NEW w, NEW m,
         AddsSegment(t, w, m), AddsScope(t)
  PROVE  PathsUnique' /\ CountersAhead'
<1> DEFINE c == ChildPrefix(tasks[t])
           q == Top(tasks[t]).dfs_prefix
           k == Top(tasks[t]).routine_counter
<1>1. /\ c \in Seq(Nat) /\ Len(c) = Len(q) + 1
      /\ c[Len(q) + 1] = k
      /\ q \in Seq(Nat) /\ Len(q) \in Nat /\ k \in Nat
  BY TaskFacts, ChildPrefixType DEF Top, Path
<1>2. PathsUnique'
  <2>1. ASSUME NEW u \in DOMAIN tasks', NEW v \in DOMAIN tasks',
               NEW i \in DOMAIN tasks'[u].segments, NEW j \in DOMAIN tasks'[v].segments,
               tasks'[u].segments[i].dfs_path = tasks'[v].segments[j].dfs_path
        PROVE  u = v /\ i = j
    <3> DEFINE Old(x, s) == /\ x \in DOMAIN tasks /\ s \in DOMAIN tasks[x].segments
                            /\ tasks'[x].segments[s].dfs_path = PathOf(x, s)
               New(x, s) == /\ x = w /\ s = m
                            /\ tasks'[x].segments[s].dfs_path = c
    <3>1. (Old(u, i) \/ New(u, i)) /\ (Old(v, j) \/ New(v, j))
      BY DEF AddsSegment
    <3>2. CASE Old(u, i) /\ Old(v, j)
      <4>1. tasks[u].segments[i].dfs_path = tasks[v].segments[j].dfs_path
        BY <2>1, <3>2 DEF PathOf
      <4>2. /\ u \in DOMAIN tasks /\ i \in DOMAIN tasks[u].segments
            /\ v \in DOMAIN tasks /\ j \in DOMAIN tasks[v].segments
        BY <3>2
      <4> HIDE DEF Old, New
      <4> QED
        BY <4>1, <4>2 DEF Numbering, PathsUnique
    <3>3. CASE Old(u, i) /\ New(v, j)
      BY <2>1, <3>3, ChildFresh
    <3>4. CASE New(u, i) /\ Old(v, j)
      BY <2>1, <3>4, ChildFresh
    <3>5. CASE New(u, i) /\ New(v, j)
      BY <3>5
    <3> HIDE DEF Old, New
    <3> QED
      BY <3>1, <3>2, <3>3, <3>4, <3>5
  <2> QED
    BY <2>1 DEF PathsUnique
<1>3. CountersAhead'
  <2>1. ASSUME NEW v \in DOMAIN tasks', NEW u \in DOMAIN tasks',
               NEW i \in DOMAIN tasks'[v].stack, NEW s \in DOMAIN tasks'[u].segments,
               Below(tasks'[v].stack[i].dfs_prefix, tasks'[u].segments[s].dfs_path)
        PROVE  tasks'[u].segments[s].dfs_path[Len(tasks'[v].stack[i].dfs_prefix) + 1]
                 < tasks'[v].stack[i].routine_counter
    <3> DEFINE f == tasks'[v].stack[i]
               p == tasks'[u].segments[s].dfs_path
    <3>1. \/ p = c
          \/ u \in DOMAIN tasks /\ s \in DOMAIN tasks[u].segments /\ p = PathOf(u, s)
      BY DEF AddsSegment
    <3>2. ~Below(c, c)
      BY <1>1 DEF Below
    <3>3. CASE f.dfs_prefix = c
      BY <2>1, <3>1, <3>2, <3>3, ChildFresh
    <3>4. CASE f.dfs_prefix = q /\ f.routine_counter = k + 1
      <4>1. CASE p = c
        BY <3>4, <4>1, <1>1
      <4>2. CASE u \in DOMAIN tasks /\ s \in DOMAIN tasks[u].segments /\ p = PathOf(u, s)
        <5>1. 1 \in DOMAIN tasks[t].stack
          BY TaskFacts
        <5>2. Below(q, p) => p[Len(q) + 1] < k
          BY <4>2, <5>1 DEF Numbering, CountersAhead, Top
        <5>3. Below(q, p)
          BY <2>1, <3>4
        <5>4. p[Len(q) + 1] \in Nat
          BY <4>2, <5>3, <1>1, TaskFacts DEF Below
        <5> HIDE DEF p, q, k, f
        <5> QED
          BY <3>4, <5>2, <5>3, <5>4, <1>1 DEF p, f
      <4> QED
        BY <3>1, <4>1, <4>2
    <3>5. CASE \E x \in DOMAIN tasks : \E j \in DOMAIN tasks[x].stack :
                 /\ x # t \/ j # 1
                 /\ f.dfs_prefix = tasks[x].stack[j].dfs_prefix
                 /\ f.routine_counter = tasks[x].stack[j].routine_counter
      <4>0. PICK x \in DOMAIN tasks : \E j \in DOMAIN tasks[x].stack :
                 /\ x # t \/ j # 1
                 /\ f.dfs_prefix = tasks[x].stack[j].dfs_prefix
                 /\ f.routine_counter = tasks[x].stack[j].routine_counter
        BY <3>5
      <4>1. PICK j \in DOMAIN tasks[x].stack :
                 /\ x # t \/ j # 1
                 /\ f.dfs_prefix = tasks[x].stack[j].dfs_prefix
                 /\ f.routine_counter = tasks[x].stack[j].routine_counter
        BY <4>0
      <4>2. CASE p = c
        BY <2>1, <4>1, <4>2, ChildCounted
      <4>3. CASE u \in DOMAIN tasks /\ s \in DOMAIN tasks[u].segments /\ p = PathOf(u, s)
        BY <2>1, <4>1, <4>3 DEF Numbering, CountersAhead
      <4> QED
        BY <3>1, <4>2, <4>3
    <3> QED
      BY <3>3, <3>4, <3>5 DEF AddsScope
  <2> QED
    BY <2>1 DEF CountersAhead, PathOf
<1> QED
  BY <1>2, <1>3

(* A routine executed in place keeps the numbering.                        *)
LEMMA ExecutesStep ==
  ASSUME Numbering, NEW t \in DOMAIN tasks, Running(tasks[t]), NEW op \in RoutineOp,
         tasks' = [tasks EXCEPT ![t] = EnterRoutine(tasks[t], op)]
  PROVE  Numbering'
<1> DEFINE ev  == tasks[t]
           new == EnterRoutine(ev, op)
           n   == Len(ev.segments)
<1>1. /\ DOMAIN tasks' = DOMAIN tasks
      /\ tasks'[t] = new
      /\ \A u \in DOMAIN tasks : u # t => tasks'[u] = tasks[u]
  OBVIOUS
<1>2. /\ WellFormed(ev) /\ DOMAIN ev.stack = 1 .. Len(ev.stack) /\ Len(ev.stack) \in Nat
      /\ 1 \in DOMAIN ev.segments /\ ev.segments[1].dfs_path = t /\ n \in Nat
  BY TaskFacts DEF Numbering, TasksWellFormed, EvaluatorSet
<1>3. /\ WellFormed(new)
      /\ DOMAIN ev.segments = 1 .. n /\ DOMAIN new.segments = 1 .. n + 1
      /\ \A s \in 1 .. n : new.segments[s] = ev.segments[s]
      /\ new.segments[n + 1].dfs_path = ChildPrefix(ev)
      /\ DOMAIN new.stack = 1 .. Len(ev.stack) + 1
      /\ new.stack[1].dfs_prefix = ChildPrefix(ev)
      /\ new.stack[2].dfs_prefix = Top(ev).dfs_prefix
      /\ new.stack[2].routine_counter = Top(ev).routine_counter + 1
      /\ \A i \in 2 .. Len(ev.stack) : new.stack[i + 1] = ev.stack[i]
  BY <1>2, EnterRoutineStep
<1> HIDE DEF new
<1>4. AddsSegment(t, t, n + 1)
  <2> USE DEF AddsSegment
  <2> TAKE u \in DOMAIN tasks'
  <2> TAKE s \in DOMAIN tasks'[u].segments
  <2>1. CASE u # t
    BY <2>1, <1>1 DEF PathOf
  <2>2. CASE u = t /\ s = n + 1
    BY <2>2, <1>1, <1>3
  <2>3. CASE u = t /\ s # n + 1
    <3>1. s \in 1 .. n
      BY <2>3, <1>1, <1>2, <1>3
    <3> QED
      BY <2>3, <3>1, <1>1, <1>3 DEF PathOf
  <2> QED
    BY <2>1, <2>2, <2>3
<1>5. AddsScope(t)
  <2> USE DEF AddsScope
  <2> TAKE v \in DOMAIN tasks'
  <2> TAKE i \in DOMAIN tasks'[v].stack
  <2>1. CASE v # t
    BY <2>1, <1>1
  <2>2. CASE v = t /\ i \in {1, 2}
    BY <2>2, <1>1, <1>3
  <2>3. CASE v = t /\ i \notin {1, 2}
    <3>1. i - 1 \in 2 .. Len(ev.stack) /\ (i - 1) + 1 = i
      BY <2>3, <1>1, <1>2, <1>3
    <3>2. new.stack[i] = ev.stack[i - 1] /\ i - 1 \in DOMAIN ev.stack /\ i - 1 # 1
      BY <3>1, <1>2, <1>3
    <3> QED
      BY <2>3, <3>2, <1>1
  <2> QED
    BY <2>1, <2>2, <2>3
<1>6. PathsUnique' /\ CountersAhead'
  BY <1>4, <1>5, CallStep
<1>7. TasksWellFormed'
  BY <1>1, <1>2, <1>3 DEF TasksWellFormed, Numbering
<1> QED
  BY <1>6, <1>7 DEF Numbering

(* A routine handed to a new task keeps the numbering.                     *)
LEMMA SpawnsStep ==
  ASSUME Numbering, NEW t \in DOMAIN tasks, Running(tasks[t]), NEW name \in Routines,
         NEW c, c = ChildPrefix(tasks[t]),
         tasks' = [u \in DOMAIN tasks \union {c} |->
                     IF u = c THEN NewEvaluator(name, c)
                     ELSE IF u = t THEN DeferRoutine(tasks[t])
                     ELSE tasks[u]]
  PROVE  Numbering' /\ c \in Path /\ c \notin DOMAIN tasks
<1> DEFINE ev  == tasks[t]
           new == DeferRoutine(ev)
           kid == NewEvaluator(name, c)
<1>1. c \in Path /\ Top(ev) \in Frame
  BY TaskFacts, ChildPrefixType
<1>2. c \notin DOMAIN tasks
  <2>1. ASSUME c \in DOMAIN tasks
        PROVE  FALSE
    <3>1. 1 \in DOMAIN tasks[c].segments /\ PathOf(c, 1) = c
      BY <2>1 DEF Numbering, TasksWellFormed, PathOf
    <3> QED
      BY <2>1, <3>1, ChildFresh
  <2> QED
    BY <2>1
<1>3. /\ DOMAIN tasks' = DOMAIN tasks \union {c}
      /\ tasks'[c] = kid
      /\ tasks'[t] = new
      /\ \A u \in DOMAIN tasks : u # t => tasks'[u] = tasks[u]
  BY <1>2
<1>4. /\ WellFormed(kid)
      /\ DOMAIN kid.segments = {1} /\ kid.segments[1].dfs_path = c
      /\ DOMAIN kid.stack = {1} /\ kid.stack[1].dfs_prefix = c
  BY <1>1, NewEvaluatorWellFormed, NewSegmentType DEF NewEvaluator, NewFrame
<1>5. /\ WellFormed(new)
      /\ new.segments = ev.segments
      /\ DOMAIN new.stack = DOMAIN ev.stack
      /\ new.stack[1].dfs_prefix = Top(ev).dfs_prefix
      /\ new.stack[1].routine_counter = Top(ev).routine_counter + 1
      /\ \A i \in DOMAIN ev.stack : i # 1 => new.stack[i] = ev.stack[i]
  <2>1. WellFormed(ev) /\ ev \in EvaluatorSet /\ 1 \in DOMAIN ev.stack
    BY TaskFacts
  <2>2. WellFormed(new)
    BY <2>1, DeferStep
  <2>3. new.segments = ev.segments /\ new.stack = [ev.stack EXCEPT ![1] = Counted(Top(ev))]
    BY <2>1 DEF DeferRoutine, SetTop, EvaluatorSet
  <2> QED
    BY <2>1, <2>2, <2>3, <1>1, CountedFrame
<1> HIDE DEF new, kid
<1>6. AddsSegment(t, c, 1)
  <2> USE DEF AddsSegment
  <2> TAKE u \in DOMAIN tasks'
  <2> TAKE s \in DOMAIN tasks'[u].segments
  <2>1. CASE u = c
    BY <2>1, <1>3, <1>4
  <2>2. CASE u = t
    BY <2>2, <1>3, <1>5 DEF PathOf
  <2>3. CASE u # c /\ u # t
    BY <2>3, <1>3 DEF PathOf
  <2> QED
    BY <2>1, <2>2, <2>3
<1>7. AddsScope(t)
  <2> USE DEF AddsScope
  <2> TAKE v \in DOMAIN tasks'
  <2> TAKE i \in DOMAIN tasks'[v].stack
  <2>1. CASE v = c
    BY <2>1, <1>3, <1>4
  <2>2. CASE v = t /\ i = 1
    BY <2>2, <1>3, <1>5
  <2>3. CASE v = t /\ i # 1
    BY <2>3, <1>3, <1>5
  <2>4. CASE v # c /\ v # t
    BY <2>4, <1>3
  <2> QED
    BY <2>1, <2>2, <2>3, <2>4
<1>8. PathsUnique' /\ CountersAhead'
  BY <1>6, <1>7, CallStep
<1>9. TasksWellFormed'
  BY <1>3, <1>4, <1>5 DEF TasksWellFormed, Numbering
<1> QED
  BY <1>1, <1>2, <1>8, <1>9 DEF Numbering

-----------------------------------------------------------------------------
(* The invariant is inductive.                                             *)

(* The invariant holds when trace::eval starts.                            *)
LEMMA Initially ==
  ASSUME Init
  PROVE  IInv
<1> DEFINE ev == NewEvaluator(Main, Root)
<1>1. Main \in Routines /\ Root \in Path
  BY CircuitAssumption DEF Root, Path
<1>2. WellFormed(ev) /\ ev \in EvaluatorSet
  BY <1>1, NewEvaluatorWellFormed DEF WellFormed
<1>3. /\ DOMAIN ev.segments = {1} /\ ev.segments[1].dfs_path = Root
      /\ DOMAIN ev.stack = {1} /\ ev.stack[1].dfs_prefix = Root
  BY <1>1, NewSegmentType DEF NewEvaluator, NewFrame
<1>4. DOMAIN tasks = {Root} /\ tasks[Root] = ev
  BY DEF Init
<1> HIDE DEF ev
<1>5. TypeOK
  BY <1>1, <1>2, <1>4 DEF Init, TypeOK, Nothing
<1>6. ~Below(Root, Root)
  BY DEF Below, Root
<1>7. Numbering
  BY <1>2, <1>3, <1>4, <1>6
    DEF Numbering, TasksWellFormed, PathsUnique, CountersAhead, PathOf
<1> QED
  BY <1>5, <1>7 DEF IInv

(* The steps that only advance one evaluator within its scopes.            *)
LEMMA StepKeepsIInv ==
  ASSUME IInv, NEW t \in DOMAIN tasks, NEW new, WellFormed(new),
         new \in EvaluatorSet, Numbering', Step(t, new)
  PROVE  IInv'
<1>1. /\ DOMAIN tasks' = DOMAIN tasks
      /\ \A u \in DOMAIN tasks : tasks'[u] \in EvaluatorSet
  BY DEF Step, IInv, TypeOK
<1>2. TypeOK'
  BY <1>1 DEF Step, IInv, TypeOK
<1> QED
  BY <1>2 DEF IInv

(* So does every step of a task.                                           *)
LEMMA TaskStepKeepsIInv ==
  ASSUME IInv, NEW t \in DOMAIN tasks, TaskStep(t)
  PROVE  IInv'
<1> DEFINE ev == tasks[t]
           op == NextOp(prog, tasks[t])
<1>1. Numbering /\ TypeOK /\ WellFormed(ev) /\ ev \in EvaluatorSet
  BY TaskFacts DEF IInv
<1>2. Running(ev) /\ ~AtEnd(prog, ev) => op \in Op
  BY <1>1, NextOpType DEF TypeOK
<1>3. ASSUME NEW new, WellFormed(new), Quiet(ev, new), Step(t, new)
      PROVE  IInv'
  <2>1. Numbering'
    BY <1>1, <1>3, QuietStep DEF Step
  <2> QED
    BY <1>3, <2>1, StepKeepsIInv DEF WellFormed
<1>4. CASE Gates(t)
  <2>1. Running(ev) /\ op \in GateOp /\ Step(t, PushGate(ev, op))
    BY <1>2, <1>4 DEF Gates, AboutTo, Op, GateOp, AssignExtraOp, LinearOp, RoutineOp
  <2> QED
    BY <1>1, <1>3, <2>1, PushGateStep
<1>5. CASE AssignsExtra(t)
  <2>1. Running(ev) /\ op \in AssignExtraOp /\ Step(t, SetExtra(ev, op))
    BY <1>2, <1>5 DEF AssignsExtra, AboutTo, Op, GateOp, AssignExtraOp, LinearOp, RoutineOp
  <2> QED
    BY <1>1, <1>3, <2>1, SetExtraStep
<1>6. CASE AddsOrEnforces(t)
  <2>1. Running(ev) /\ Step(t, Ignore(ev))
    BY <1>6 DEF AddsOrEnforces, AboutTo
  <2> QED
    BY <1>1, <1>3, <2>1, IgnoreStep
<1>7. CASE Executes(t)
  <2>1. Running(ev) /\ op \in RoutineOp /\ Step(t, EnterRoutine(ev, op))
    BY <1>2, <1>7 DEF Executes, AboutTo, Op, GateOp, AssignExtraOp, LinearOp, RoutineOp
  <2>2. Numbering'
    BY <1>1, <2>1, ExecutesStep DEF Step
  <2>3. WellFormed(EnterRoutine(ev, op))
    BY <1>1, <2>1, EnterRoutineStep
  <2> QED
    BY <2>1, <2>2, <2>3, StepKeepsIInv DEF WellFormed
<1>8. CASE Spawns(t)
  <2> DEFINE c == ChildPrefix(ev)
  <2>1. /\ Running(ev) /\ op \in RoutineOp
        /\ tasks' = [u \in DOMAIN tasks \union {c} |->
                       IF u = c THEN NewEvaluator(op.name, c)
                       ELSE IF u = t THEN DeferRoutine(tasks[t])
                       ELSE tasks[u]]
        /\ UNCHANGED <<prog, ended, channel, collected, pc, result>>
    BY <1>2, <1>8 DEF Spawns, AboutTo, Op, GateOp, AssignExtraOp, LinearOp, RoutineOp
  <2>2. op.name \in Routines
    BY <2>1 DEF RoutineOp
  <2>3. Numbering' /\ c \in Path
    BY <1>1, <2>1, <2>2, SpawnsStep
  <2>4. DOMAIN tasks' = DOMAIN tasks \union {c}
    BY <2>1
  <2>5. \A u \in DOMAIN tasks' : tasks'[u] \in EvaluatorSet
    BY <2>3 DEF Numbering, TasksWellFormed, WellFormed
  <2> HIDE DEF c, op, ev
  <2>6. TypeOK'
    BY <1>1, <2>1, <2>3, <2>4, <2>5 DEF TypeOK
  <2> QED
    BY <2>3, <2>6 DEF IInv
<1>9. CASE Fails(t)
  <2>1. Running(ev) /\ op \in Op /\ Step(t, Unwind(ev, op.err))
    BY <1>2, <1>9 DEF Fails
  <2>2. op.err \in Errors \union {Ok}
    BY <2>1, <1>9 DEF Fails, Op, GateOp, AssignExtraOp, LinearOp, RoutineOp
  <2> QED
    BY <1>1, <1>3, <2>1, <2>2, UnwindStep
<1>10. CASE Returns(t)
  <2>1. Running(ev) /\ Step(t, LeaveScope(ev))
    BY <1>10 DEF Returns
  <2> QED
    BY <1>1, <1>3, <2>1, LeaveScopeStep
<1>11. CASE Ends(t)
  <2>1. Outcome(ev) \in Batch
    BY <1>1 DEF Outcome, Batch, EvaluatorSet
  <2>2. channel' \in Seq(Batch)
    BY <1>1, <1>11, <2>1 DEF Ends, TypeOK
  <2>3. TypeOK'
    BY <1>1, <1>11, <2>2 DEF Ends, TypeOK
  <2>4. Numbering'
    BY <1>1, <1>11
      DEF Ends, Numbering, TasksWellFormed, PathsUnique, CountersAhead, PathOf
  <2> QED
    BY <2>3, <2>4 DEF IInv
<1> QED
  BY <1>4, <1>5, <1>6, <1>7, <1>8, <1>9, <1>10, <1>11 DEF TaskStep

(* Every step keeps the invariant.                                         *)
LEMMA Inductive == IInv /\ [Next]_vars => IInv'
<1> SUFFICES ASSUME IInv, [Next]_vars
             PROVE  IInv'
  OBVIOUS
<1>1. ASSUME UNCHANGED tasks
      PROVE  Numbering'
  BY <1>1 DEF IInv, Numbering, TasksWellFormed, PathsUnique, CountersAhead, PathOf
<1>2. CASE \E t \in DOMAIN tasks : TaskStep(t)
  BY <1>2, TaskStepKeepsIInv
<1>3. CASE LeaveRayonScope
  <2>1. tasks[Root] \in EvaluatorSet /\ Root \in DOMAIN tasks
    BY DEF IInv, TypeOK
  <2>2. Outcome(tasks[Root]).err \in Errors \union {Ok} /\ tasks[Root].segments \in Seq(Segment)
    BY <2>1 DEF Outcome, EvaluatorSet
  <2>3. TypeOK'
    BY <1>3, <2>2 DEF IInv, TypeOK, LeaveRayonScope
  <2> QED
    BY <1>1, <1>3, <2>3 DEF IInv, LeaveRayonScope
<1>4. CASE Receive
  <2>1. channel \in Seq(Batch) /\ channel # <<>> /\ collected \in Seq(Segment)
    BY <1>4 DEF IInv, TypeOK, Receive
  <2>2. Tail(channel) \in Seq(Batch) /\ Head(channel) \in Batch
    BY <2>1, HeadTailProperties
  <2>3. /\ Head(channel).err \in Errors \union {Ok}
        /\ collected \o Head(channel).segments \in Seq(Segment)
    BY <2>1, <2>2, ConcatProperties DEF Batch
  <2>4. TypeOK'
    BY <1>4, <2>2, <2>3 DEF IInv, TypeOK, Receive
  <2> QED
    BY <1>1, <1>4, <2>4 DEF IInv, Receive
<1>5. CASE Finish
  <2>1. TypeOK'
    BY <1>5 DEF IInv, TypeOK, Finish
  <2> QED
    BY <1>1, <1>5, <2>1 DEF IInv, Finish
<1>6. CASE Returned \/ UNCHANGED vars
  <2>1. UNCHANGED vars
    BY <1>6 DEF Returned
  <2>2. TypeOK'
    BY <2>1 DEF IInv, TypeOK, vars
  <2> QED
    BY <1>1, <2>1, <2>2 DEF IInv, vars
<1> QED
  BY <1>2, <1>3, <1>4, <1>5, <1>6 DEF Next

(* So it always holds.                                                     *)
LEMMA Invariance == Spec => []IInv
<1>1. Init => IInv
  BY Initially
<1>2. IInv /\ [Next]_vars => IInv'
  BY Inductive
<1> QED
  BY <1>1, <1>2, PTL DEF Spec

-----------------------------------------------------------------------------
(* Type correctness: every task is an evaluator named by a DFS path, every *)
(* batch on the channel is a list of segments or an error (trace.rs).      *)
THEOREM TypeCorrect == Spec => []TypeOK
<1>1. IInv => TypeOK
  BY DEF IInv
<1> QED
  BY <1>1, Invariance, PTL

(* However many routines are predicted and however their tasks interleave, *)
(* no two segments get the same DFS path (trace.rs:270-346).               *)
THEOREM UniquePaths == Spec => []PathsUnique
<1>1. IInv => PathsUnique
  BY DEF IInv, Numbering
<1> QED
  BY <1>1, Invariance, PTL

(* gate() and assign_extra() always write to the segment of the scope they *)
(* are called in, at tokens of that segment (trace.rs:226-249, 329-343).   *)
THEOREM ScopesCorrect == Spec => []ScopesOwnSegments
<1>1. IInv => ScopesOwnSegments
  BY DEF IInv, Numbering, TasksWellFormed, WellFormed, OwnsSegment, ScopesOwnSegments
<1> QED
  BY <1>1, Invariance, PTL
-----------------------------------------------------------------------------
(* The order of paths.  Where the first of two falls behind: they agree up *)
(* to k, and there the first ends or has the lesser index.                 *)
FallsBehind(p, q, k) ==
  /\ k \in Nat /\ 1 <= k /\ k <= Len(q) /\ k <= Len(p) + 1
  /\ \A j \in 1 .. k - 1 : p[j] = q[j]
  /\ k <= Len(p) => p[k] < q[k]

(* One path comes before another where it falls behind.                    *)
LEMMA LessWhere ==
  ASSUME NEW p \in Seq(Nat), NEW q \in Seq(Nat)
  PROVE  PathLess(p, q) <=> \E k : FallsBehind(p, q, k)
<1>1. /\ Len(p) \in Nat /\ DOMAIN p = 1 .. Len(p) /\ \A j \in 1 .. Len(p) : p[j] \in Nat
      /\ Len(q) \in Nat /\ DOMAIN q = 1 .. Len(q) /\ \A j \in 1 .. Len(q) : q[j] \in Nat
  OBVIOUS
<1>2. ASSUME Len(p) < Len(q), SubSeq(q, 1, Len(p)) = p
      PROVE  FallsBehind(p, q, Len(p) + 1)
  <2>1. \A j \in 1 .. Len(p) : SubSeq(q, 1, Len(p))[j] = q[j]
    BY <1>1, <1>2
  <2> QED
    BY <1>1, <1>2, <2>1 DEF FallsBehind
<1>3. ASSUME NEW k \in DOMAIN p \intersect DOMAIN q, p[k] < q[k], \A j \in 1 .. k - 1 : p[j] = q[j]
      PROVE  FallsBehind(p, q, k)
  BY <1>1, <1>3 DEF FallsBehind
<1>4. ASSUME NEW k, FallsBehind(p, q, k)
      PROVE  PathLess(p, q)
  <2>1. CASE k <= Len(p)
    BY <1>1, <1>4, <2>1, SMTT(30) DEF FallsBehind, PathLess
  <2>2. CASE k = Len(p) + 1
    <3>1. Len(p) < Len(q) /\ \A j \in 1 .. Len(p) : p[j] = q[j]
      BY <1>1, <1>4, <2>2 DEF FallsBehind
    <3>2. /\ SubSeq(q, 1, Len(p)) \in Seq(Nat) /\ Len(SubSeq(q, 1, Len(p))) = Len(p)
          /\ \A j \in 1 .. Len(p) : SubSeq(q, 1, Len(p))[j] = q[j]
      BY <1>1, <3>1
    <3>3. SubSeq(q, 1, Len(p)) = p
      BY <1>1, <3>1, <3>2, SeqEqual
    <3> QED
      BY <3>1, <3>3 DEF PathLess
  <2> QED
    BY <1>1, <1>4, <2>1, <2>2 DEF FallsBehind
<1> QED
  BY <1>2, <1>3, <1>4 DEF PathLess

(* Of two paths only one comes before the other.                           *)
LEMMA LessOneWay ==
  ASSUME NEW p \in Seq(Nat), NEW q \in Seq(Nat), PathLess(p, q)
  PROVE  ~PathLess(q, p)
<1> SUFFICES ASSUME PathLess(q, p) PROVE FALSE
  OBVIOUS
<1>1. PICK k : FallsBehind(p, q, k)
  BY LessWhere
<1>2. PICK l : FallsBehind(q, p, l)
  BY LessWhere
<1>3. /\ Len(p) \in Nat /\ \A j \in 1 .. Len(p) : p[j] \in Nat
      /\ Len(q) \in Nat /\ \A j \in 1 .. Len(q) : q[j] \in Nat
  OBVIOUS
<1>4. k \in Nat /\ l \in Nat /\ k \in 1 .. Len(q) /\ l \in 1 .. Len(p)
  BY <1>1, <1>2, <1>3 DEF FallsBehind
<1>5. ~(k < l)
  <2> SUFFICES ASSUME k < l PROVE FALSE
    OBVIOUS
  <2>1. k \in 1 .. l - 1 /\ k <= Len(p)
    BY <1>3, <1>4, <1>1 DEF FallsBehind
  <2>2. q[k] = p[k] /\ p[k] < q[k] /\ p[k] \in Nat
    BY <2>1, <1>1, <1>2, <1>3, <1>4 DEF FallsBehind
  <2> QED
    BY <2>2
<1>6. ~(l < k)
  <2> SUFFICES ASSUME l < k PROVE FALSE
    OBVIOUS
  <2>1. l \in 1 .. k - 1 /\ l <= Len(q)
    BY <1>3, <1>4, <1>1 DEF FallsBehind
  <2>2. q[l] = p[l] /\ q[l] < p[l] /\ p[l] \in Nat
    BY <2>1, <1>1, <1>2, <1>3, <1>4 DEF FallsBehind
  <2> QED
    BY <2>2
<1>7. k = l
  BY <1>4, <1>5, <1>6
<1>8. p[k] < q[k] /\ q[k] < p[k] /\ p[k] \in Nat /\ q[k] \in Nat
  BY <1>1, <1>2, <1>3, <1>4, <1>7 DEF FallsBehind
<1> QED
  BY <1>8

(* A path comes before what those after it come before.                    *)
LEMMA LessThrough ==
  ASSUME NEW p \in Seq(Nat), NEW q \in Seq(Nat), NEW r \in Seq(Nat), PathLess(p, q), PathLess(q, r)
  PROVE  PathLess(p, r)
<1>1. PICK k : FallsBehind(p, q, k)
  BY LessWhere
<1>2. PICK l : FallsBehind(q, r, l)
  BY LessWhere
<1>3. /\ Len(p) \in Nat /\ \A j \in 1 .. Len(p) : p[j] \in Nat
      /\ Len(q) \in Nat /\ \A j \in 1 .. Len(q) : q[j] \in Nat
      /\ Len(r) \in Nat /\ \A j \in 1 .. Len(r) : r[j] \in Nat
  OBVIOUS
<1>4. /\ k \in Nat /\ l \in Nat /\ k \in 1 .. Len(q) /\ l \in 1 .. Len(r)
      /\ k <= Len(p) + 1 /\ l <= Len(q) + 1
      /\ \A j \in 1 .. k - 1 : p[j] = q[j]
      /\ \A j \in 1 .. l - 1 : q[j] = r[j]
      /\ k <= Len(p) => p[k] < q[k]
      /\ l <= Len(q) => q[l] < r[l]
  BY <1>1, <1>2, <1>3 DEF FallsBehind
<1>5. CASE k < l
  <2>1. k \in 1 .. l - 1 /\ k <= Len(r) /\ \A j \in 1 .. k - 1 : j \in 1 .. l - 1
    BY <1>3, <1>4, <1>5
  <2>2. q[k] = r[k] /\ \A j \in 1 .. k - 1 : p[j] = r[j]
    BY <1>4, <2>1
  <2>3. FallsBehind(p, r, k)
    BY <1>4, <2>1, <2>2 DEF FallsBehind
  <2> QED
    BY <2>3, LessWhere
<1>6. CASE l < k
  <2>0. k <= Len(q) /\ k <= Len(p) + 1 /\ 1 <= l /\ k \in Nat /\ l \in Nat
        /\ Len(p) \in Nat /\ Len(q) \in Nat
    BY <1>3, <1>4
  <2>1. l \in 1 .. k - 1 /\ l <= Len(p) /\ l <= Len(q) /\ \A j \in 1 .. l - 1 : j \in 1 .. k - 1
    BY ONLY <2>0, <1>6
  <2>2. p[l] = q[l] /\ q[l] < r[l] /\ \A j \in 1 .. l - 1 : p[j] = r[j]
    BY <1>4, <2>1
  <2>3. p[l] < r[l]
    BY <2>2
  <2>4. FallsBehind(p, r, l)
    BY <1>3, <1>4, <2>1, <2>2, <2>3 DEF FallsBehind
  <2> QED
    BY <2>4, LessWhere
<1>7. CASE k = l
  <2>1. k \in 1 .. Len(q) /\ k \in 1 .. Len(r) /\ q[k] < r[k]
    BY <1>3, <1>4, <1>7
  <2>2. k <= Len(p) => p[k] < r[k]
    <3> SUFFICES ASSUME k <= Len(p) PROVE p[k] < r[k]
      OBVIOUS
    <3>1. k \in 1 .. Len(p)
      BY <1>3, <1>4
    <3>2. p[k] \in Nat /\ q[k] \in Nat /\ r[k] \in Nat
      BY <1>3, <2>1, <3>1
    <3>3. p[k] < q[k]
      BY ONLY <1>4, k <= Len(p)
    <3> QED
      BY ONLY <2>1, <3>2, <3>3
  <2>3. \A j \in 1 .. k - 1 : p[j] = r[j]
    BY <1>4, <1>7
  <2>4. FallsBehind(p, r, k)
    BY <1>3, <1>4, <2>1, <2>2, <2>3 DEF FallsBehind
  <2> QED
    BY <2>4, LessWhere
<1> QED
  BY <1>4, <1>5, <1>6, <1>7

(* Of two paths that differ one comes before the other.                    *)
LEMMA LessEitherWay ==
  ASSUME NEW p \in Seq(Nat), NEW q \in Seq(Nat), p # q
  PROVE  PathLess(p, q) \/ PathLess(q, p)
<1> DEFINE D == { k \in 1 .. Len(p) : k <= Len(q) /\ p[k] # q[k] }
<1>1. /\ Len(p) \in Nat /\ \A j \in 1 .. Len(p) : p[j] \in Nat
      /\ Len(q) \in Nat /\ \A j \in 1 .. Len(q) : q[j] \in Nat
  OBVIOUS
<1>2. CASE D = {}
  <2>1. \A k \in Nat : 1 <= k /\ k <= Len(p) /\ k <= Len(q) => p[k] = q[k]
    BY <1>1, <1>2
  <2>2. Len(p) # Len(q)
    <3> SUFFICES ASSUME Len(p) = Len(q) PROVE FALSE
      OBVIOUS
    <3>1. \A k \in 1 .. Len(p) : p[k] = q[k]
      BY <1>1, <2>1
    <3> QED
      BY <3>1, SeqEqual
  <2>3. Len(p) < Len(q) => FallsBehind(p, q, Len(p) + 1)
    BY <1>1, <2>1 DEF FallsBehind
  <2>4. Len(q) < Len(p) => FallsBehind(q, p, Len(q) + 1)
    BY <1>1, <2>1 DEF FallsBehind
  <2> QED
    BY <1>1, <2>2, <2>3, <2>4, LessWhere
<1>3. CASE D # {}
  <2>1. D \subseteq Nat
    BY <1>1
  <2>2. PICK k \in D : \A l \in D : k <= l
    BY <1>3, <2>1, NatMin
  <2>3. k \in Nat /\ 1 <= k /\ k <= Len(p) /\ k <= Len(q) /\ p[k] # q[k]
    BY <1>1, <2>2
  <2>4. \A j \in 1 .. k - 1 : p[j] = q[j]
    <3> SUFFICES ASSUME NEW j \in 1 .. k - 1, p[j] # q[j] PROVE FALSE
      OBVIOUS
    <3>1. j \in 1 .. Len(p) /\ j <= Len(q) /\ j < k
      BY <1>1, <2>3
    <3>2. j \in D
      BY <3>1
    <3> HIDE DEF D
    <3> QED
      BY <3>1, <3>2, <2>2, <2>3
  <2>5. p[k] \in Nat /\ q[k] \in Nat
    BY <1>1, <2>3
  <2>6. p[k] < q[k] => FallsBehind(p, q, k)
    BY <1>1, <2>3, <2>4 DEF FallsBehind
  <2>7. q[k] < p[k] => FallsBehind(q, p, k)
    BY <1>1, <2>3, <2>4 DEF FallsBehind
  <2>8. p[k] < q[k] \/ q[k] < p[k]
    BY <2>3, <2>5
  <2> QED
    BY <2>6, <2>7, <2>8, LessWhere
<1> QED
  BY <1>2, <1>3
-----------------------------------------------------------------------------
(* finish().  Segments of different paths, and how many come before one.   *)
Apart(list) ==
  \A i, j \in DOMAIN list : list[i].dfs_path = list[j].dfs_path => i = j
Ahead(list, i) == { j \in DOMAIN list : PathLess(list[j].dfs_path, list[i].dfs_path) }
Rank(list, i)  == 1 + Cardinality(Ahead(list, i))

(* The path of a segment in a list.                                        *)
LEMMA PathsOf ==
  ASSUME NEW list \in Seq(Segment)
  PROVE  /\ Len(list) \in Nat /\ DOMAIN list = 1 .. Len(list)
         /\ \A i \in DOMAIN list : list[i].dfs_path \in Seq(Nat)
<1>1. Len(list) \in Nat /\ DOMAIN list = 1 .. Len(list)
  OBVIOUS
<1>2. ASSUME NEW i \in DOMAIN list PROVE list[i].dfs_path \in Seq(Nat)
  <2>1. list[i] \in Segment
    OBVIOUS
  <2> QED
    BY <2>1 DEF Segment, Path
<1> QED
  BY <1>1, <1>2

(* The first of two segments has fewer before it.                          *)
LEMMA RankLess ==
  ASSUME NEW list \in Seq(Segment), NEW i \in DOMAIN list, NEW j \in DOMAIN list,
         PathLess(list[i].dfs_path, list[j].dfs_path)
  PROVE  Rank(list, i) < Rank(list, j)
<1> DEFINE A == Ahead(list, i)
           B == Ahead(list, j)
<1>1. /\ Len(list) \in Nat /\ DOMAIN list = 1 .. Len(list)
      /\ \A k \in DOMAIN list : list[k].dfs_path \in Seq(Nat)
  BY PathsOf
<1>2. A \subseteq 1 .. Len(list) /\ B \subseteq 1 .. Len(list)
  BY <1>1 DEF Ahead
<1>3. A \subseteq B
  BY <1>1, LessThrough DEF Ahead
<1>4. i \in B
  BY DEF Ahead
<1>5. i \notin A
  BY <1>1, LessOneWay DEF Ahead
<1> HIDE DEF A, B
<1>6. IsFiniteSet(A) /\ IsFiniteSet(B) /\ Cardinality(A) \in Nat /\ Cardinality(B) \in Nat
  BY <1>1, <1>2, Few
<1>7. Cardinality(A) <= Cardinality(B) /\ Cardinality(A) # Cardinality(B)
  BY <1>3, <1>4, <1>5, <1>6, FS_Subset
<1> QED
  BY <1>6, <1>7 DEF Rank, A, B

(* Every place of the sorted list is one segment's.                        *)
LEMMA RankTaken ==
  ASSUME NEW list \in Seq(Segment), Apart(list)
  PROVE  /\ \A i \in DOMAIN list : Rank(list, i) \in DOMAIN list
         /\ \A i, j \in DOMAIN list : Rank(list, i) = Rank(list, j) => i = j
         /\ \A k \in DOMAIN list : \E i \in DOMAIN list : Rank(list, i) = k
<1> DEFINE n == Len(list)
           D == 1 .. n
           f == [i \in D |-> Rank(list, i)]
<1>1. /\ n \in Nat /\ DOMAIN list = D
      /\ \A k \in D : list[k].dfs_path \in Seq(Nat)
  BY PathsOf
<1>2. ASSUME NEW i \in D PROVE Rank(list, i) \in D
  <2> DEFINE A == Ahead(list, i)
  <2>1. A \subseteq D \ {i}
    BY <1>1, LessOneWay DEF Ahead
  <2> HIDE DEF A
  <2>2. IsFiniteSet(D) /\ Cardinality(D) = n
    BY <1>1, FS_Interval, FS_CardinalityType
  <2> HIDE DEF D
  <2>3. IsFiniteSet(D \ {i}) /\ Cardinality(D \ {i}) = n - 1
    BY <2>2, FS_RemoveElement
  <2>4. Cardinality(A) <= n - 1 /\ Cardinality(A) \in Nat
    BY <2>1, <2>3, FS_Subset, FS_CardinalityType
  <2> QED
    BY <1>1, <2>4 DEF Rank, A, D
<1>3. ASSUME NEW i \in D, NEW j \in D, Rank(list, i) = Rank(list, j) PROVE i = j
  <2> SUFFICES ASSUME i # j PROVE FALSE
    OBVIOUS
  <2>1. list[i].dfs_path # list[j].dfs_path
    BY <1>1 DEF Apart
  <2>2. \/ PathLess(list[i].dfs_path, list[j].dfs_path)
        \/ PathLess(list[j].dfs_path, list[i].dfs_path)
    BY <1>1, <2>1, LessEitherWay
  <2>3. Rank(list, i) < Rank(list, j) \/ Rank(list, j) < Rank(list, i)
    BY <1>1, <2>2, RankLess
  <2>4. Rank(list, i) \in Nat
    BY <1>1, <1>2
  <2> QED
    BY <1>3, <2>3, <2>4
<1>4. f \in [D -> D] /\ \A i \in D : f[i] = Rank(list, i)
  BY <1>2
<1>5. IsFiniteSet(D)
  BY <1>1, FS_Interval
<1> HIDE DEF f, D
<1>6. f \in Injection(D, D)
  BY <1>3, <1>4 DEF Injection, IsInjective
<1>7. f \in Surjection(D, D)
  BY <1>5, <1>6, FS_Injection
<1>8. \A k \in D : \E i \in D : f[i] = k
  BY <1>7 DEF Surjection
<1> QED
  BY <1>1, <1>2, <1>3, <1>4, <1>8

(* The list by rank.                                                       *)
Ranked(list) == [k \in DOMAIN list |-> list[CHOOSE i \in DOMAIN list : Rank(list, i) = k]]

(* However sort_unstable leaves the order of equal paths, it has one       *)
(* result if there are none.                                               *)
LEMMA SortedIs ==
  ASSUME NEW list \in Seq(Segment), Apart(list), NEW u \in Sorted(list)
  PROVE  u = Ranked(list)
<1>1. /\ DOMAIN list = 1 .. Len(list) /\ Len(list) \in Nat
      /\ \A i \in DOMAIN list : list[i].dfs_path \in Seq(Nat)
  BY PathsOf
<1>2. \A i \in DOMAIN list :
        /\ { j \in DOMAIN list : \/ PathLess(list[j].dfs_path, list[i].dfs_path)
                                 \/ list[j].dfs_path = list[i].dfs_path /\ j < i } = Ahead(list, i)
        /\ { j \in DOMAIN list : \/ PathLess(list[j].dfs_path, list[i].dfs_path)
                                 \/ list[j].dfs_path = list[i].dfs_path /\ j > i } = Ahead(list, i)
  BY <1>1 DEF Apart, Ahead
<1>3. CASE u = Arranged(list, LAMBDA i, j : i < j)
  <2> DEFINE D == DOMAIN list
             place(i) == 1 + Cardinality({ j \in D : \/ PathLess(list[j].dfs_path, list[i].dfs_path)
                                                     \/ list[j].dfs_path = list[i].dfs_path /\ j < i })
             c(k) == CHOOSE i \in D : place(i) = k
             d(k) == CHOOSE i \in D : Rank(list, i) = k
  <2>1. u = [k \in D |-> list[c(k)]]
    BY <1>3 DEF Arranged
  <2>2. \A i \in D : place(i) = Rank(list, i)
    BY <1>2 DEF Rank
  <2> HIDE DEF place
  <2>3. ASSUME NEW k \in D PROVE c(k) = d(k)
    <3>1. \E i \in D : Rank(list, i) = k
      BY RankTaken
    <3>2. c(k) \in D /\ place(c(k)) = k
      BY <2>2, <3>1
    <3>3. d(k) \in D /\ Rank(list, d(k)) = k
      BY <3>1
    <3> HIDE DEF c, d
    <3> QED
      BY <2>2, <3>2, <3>3, RankTaken
  <2>4. Ranked(list) = [k \in D |-> list[d(k)]]
    BY DEF Ranked
  <2> HIDE DEF c, d, D
  <2> QED
    BY <2>1, <2>3, <2>4
<1>4. CASE u = Arranged(list, LAMBDA i, j : i > j)
  <2> DEFINE D == DOMAIN list
             place(i) == 1 + Cardinality({ j \in D : \/ PathLess(list[j].dfs_path, list[i].dfs_path)
                                                     \/ list[j].dfs_path = list[i].dfs_path /\ j > i })
             c(k) == CHOOSE i \in D : place(i) = k
             d(k) == CHOOSE i \in D : Rank(list, i) = k
  <2>1. u = [k \in D |-> list[c(k)]]
    BY <1>4 DEF Arranged
  <2>2. \A i \in D : place(i) = Rank(list, i)
    BY <1>2 DEF Rank
  <2> HIDE DEF place
  <2>3. ASSUME NEW k \in D PROVE c(k) = d(k)
    <3>1. \E i \in D : Rank(list, i) = k
      BY RankTaken
    <3>2. c(k) \in D /\ place(c(k)) = k
      BY <2>2, <3>1
    <3>3. d(k) \in D /\ Rank(list, d(k)) = k
      BY <3>1
    <3> HIDE DEF c, d
    <3> QED
      BY <2>2, <3>2, <3>3, RankTaken
  <2>4. Ranked(list) = [k \in D |-> list[d(k)]]
    BY DEF Ranked
  <2> HIDE DEF c, d, D
  <2> QED
    BY <2>1, <2>3, <2>4
<1> QED
  BY <1>3, <1>4 DEF Sorted

(* The sorted list has the same segments, in depth-first order.            *)
LEMMA Sorts ==
  ASSUME NEW list \in Seq(Segment), Apart(list), NEW u \in Sorted(list)
  PROVE  SegmentsOf(u) = SegmentsOf(list) /\ InOrder(u)
<1> DEFINE at(k) == CHOOSE i \in DOMAIN list : Rank(list, i) = k
<1>1. u = Ranked(list)
  BY SortedIs
<1>2. /\ DOMAIN list = 1 .. Len(list) /\ Len(list) \in Nat
      /\ \A i \in DOMAIN list : list[i].dfs_path \in Seq(Nat)
  BY PathsOf
<1>3. ASSUME NEW k \in DOMAIN list PROVE at(k) \in DOMAIN list /\ Rank(list, at(k)) = k
  BY RankTaken
<1>4. ASSUME NEW i \in DOMAIN list PROVE Rank(list, i) \in DOMAIN list /\ at(Rank(list, i)) = i
  BY RankTaken
<1>5. DOMAIN u = DOMAIN list /\ \A k \in DOMAIN list : u[k] = list[at(k)]
  BY <1>1 DEF Ranked
<1> HIDE DEF at
<1>6. SegmentsOf(u) \subseteq SegmentsOf(list)
  BY <1>3, <1>5 DEF SegmentsOf
<1>7. SegmentsOf(list) \subseteq SegmentsOf(u)
  <2> SUFFICES ASSUME NEW i \in DOMAIN list PROVE list[i] \in SegmentsOf(u)
    BY DEF SegmentsOf
  <2>1. u[Rank(list, i)] = list[i] /\ Rank(list, i) \in DOMAIN u
    BY <1>4, <1>5
  <2> QED
    BY <2>1 DEF SegmentsOf
<1>8. ASSUME NEW k \in DOMAIN u, NEW l \in DOMAIN u, k < l
      PROVE  PathLess(u[k].dfs_path, u[l].dfs_path)
  <2>1. k \in Nat /\ l \in Nat /\ k \in DOMAIN list /\ l \in DOMAIN list
    BY <1>2, <1>5
  <2>2. /\ at(k) \in DOMAIN list /\ Rank(list, at(k)) = k
        /\ at(l) \in DOMAIN list /\ Rank(list, at(l)) = l
    BY <1>3, <2>1
  <2>3. list[at(k)].dfs_path # list[at(l)].dfs_path
    <3>1. at(k) # at(l)
      BY <1>8, <2>1, <2>2
    <3> QED
      BY <2>2, <3>1 DEF Apart
  <2>4. ~PathLess(list[at(l)].dfs_path, list[at(k)].dfs_path)
    <3> SUFFICES ASSUME PathLess(list[at(l)].dfs_path, list[at(k)].dfs_path) PROVE FALSE
      OBVIOUS
    <3>1. Rank(list, at(l)) < Rank(list, at(k))
      BY <2>2, RankLess
    <3> QED
      BY <1>8, <2>1, <2>2, <3>1
  <2>5. PathLess(list[at(k)].dfs_path, list[at(l)].dfs_path)
    BY <1>2, <2>2, <2>3, <2>4, LessEitherWay
  <2> QED
    BY <1>5, <2>1, <2>5
<1> QED
  BY <1>6, <1>7, <1>8 DEF InOrder
-----------------------------------------------------------------------------
(* Where the segments are.  The batches of the tasks in got are read; batch *)
(* k of the channel is what task from[k] ended with; and what was collected *)
(* is of the root and of got, all of them without an error.                *)
Delivered(got, from) ==
  /\ got \subseteq ended \ {Root}
  /\ \A k \in 1 .. Len(channel) :
       /\ from[k] \in (ended \ {Root}) \ got
       /\ channel[k] = Outcome(tasks[from[k]])
  /\ \A k, l \in 1 .. Len(channel) : from[k] = from[l] => k = l
  /\ \A t \in (ended \ {Root}) \ got : \E k \in 1 .. Len(channel) : from[k] = t
  /\ pc = "scope" => got = {}
  /\ pc = "collect" =>
       /\ \A t \in got \union {Root} : tasks[t].err = Ok
       /\ SegmentsOf(collected) = SegmentsBy(got \union {Root})
       /\ Apart(collected)

DeliveryInv ==
  /\ \A t \in ended : ~Running(tasks[t])
  /\ pc # "scope" => ended = DOMAIN tasks
  /\ pc # "done" => \E got, from : Delivered(got, from)
  /\ EvalAccounts

(* Nothing is sent before a task ends.                                     *)
LEMMA DeliveryStarts == Init => DeliveryInv
<1> SUFFICES ASSUME Init PROVE DeliveryInv
  OBVIOUS
<1>1. ended = {} /\ channel = <<>> /\ pc = "scope"
  BY DEF Init
<1>2. Len(channel) = 0 /\ 1 .. Len(channel) = {}
  BY <1>1
<1>3. Delivered({}, <<>>)
  BY <1>1, <1>2 DEF Delivered
<1> QED
  BY <1>1, <1>3 DEF DeliveryInv, EvalAccounts

(* A task that has ended stays as it is, and only a task's end sends.      *)
LEMMA EndedStay ==
  ASSUME IInv, \A u \in ended : ~Running(tasks[u]), NEW t \in DOMAIN tasks, TaskStep(t)
  PROVE  /\ t \notin ended
         /\ \A u \in ended : u \in DOMAIN tasks' /\ tasks'[u] = tasks[u]
         /\ UNCHANGED <<pc, result, collected>>
         /\ Ends(t) \/ UNCHANGED <<ended, channel>>
<1>1. ended \subseteq DOMAIN tasks /\ Numbering
  BY DEF IInv, TypeOK
<1>2. ASSUME NEW ev, Step(t, ev), t \notin ended
      PROVE  /\ \A u \in ended : u \in DOMAIN tasks' /\ tasks'[u] = tasks[u]
             /\ UNCHANGED <<pc, result, collected, ended, channel>>
  BY <1>1, <1>2 DEF Step
<1>3. CASE Gates(t)
  BY <1>2, <1>3 DEF Gates, AboutTo
<1>4. CASE AssignsExtra(t)
  BY <1>2, <1>4 DEF AssignsExtra, AboutTo
<1>5. CASE AddsOrEnforces(t)
  BY <1>2, <1>5 DEF AddsOrEnforces, AboutTo
<1>6. CASE Executes(t)
  BY <1>2, <1>6 DEF Executes, AboutTo
<1>7. CASE Spawns(t)
  <2> DEFINE c == ChildPrefix(tasks[t])
  <2>1. /\ Running(tasks[t])
        /\ tasks' = [u \in DOMAIN tasks \union {c} |->
                       IF u = c THEN NewEvaluator(NextOp(prog, tasks[t]).name, c)
                       ELSE IF u = t THEN DeferRoutine(tasks[t])
                       ELSE tasks[u]]
        /\ UNCHANGED <<prog, ended, channel, collected, pc, result>>
    BY <1>7 DEF Spawns, AboutTo
  <2>2. t \notin ended
    BY <2>1
  <2>3. ASSUME NEW u \in DOMAIN tasks PROVE u # c
    <3>1. 1 \in DOMAIN tasks[u].segments /\ PathOf(u, 1) = u
      BY <1>1 DEF Numbering, TasksWellFormed, PathOf
    <3> QED
      BY <1>1, <2>1, <3>1, ChildFresh
  <2> HIDE DEF c
  <2> QED
    BY <1>1, <2>1, <2>2, <2>3
<1>8. CASE Fails(t)
  BY <1>2, <1>8 DEF Fails
<1>9. CASE Returns(t)
  BY <1>2, <1>9 DEF Returns
<1>10. CASE Ends(t)
  BY <1>1, <1>10 DEF Ends
<1> QED
  BY <1>3, <1>4, <1>5, <1>6, <1>7, <1>8, <1>9, <1>10 DEF TaskStep

(* What ended tasks leave alone stays delivered.                           *)
LEMMA StaysDelivered ==
  ASSUME NEW got, NEW from, Delivered(got, from),
         UNCHANGED <<ended, channel, collected, pc>>,
         \A u \in ended : tasks'[u] = tasks[u],
         pc = "collect" => Root \in ended
  PROVE  Delivered(got, from)'
<1>1. got \subseteq ended \ {Root}
  BY DEF Delivered
<1>2. \A k \in 1 .. Len(channel) : from[k] \in ended /\ tasks'[from[k]] = tasks[from[k]]
  BY DEF Delivered
<1>3. pc = "collect" => /\ \A t \in got \union {Root} : tasks'[t] = tasks[t]
                        /\ SegmentsBy(got \union {Root})' = SegmentsBy(got \union {Root})
  BY <1>1 DEF SegmentsBy
<1>4. pc = "collect" =>
       /\ \A t \in got \union {Root} : tasks'[t].err = Ok
       /\ SegmentsOf(collected)' = SegmentsBy(got \union {Root})'
       /\ Apart(collected)'
  <2> SUFFICES ASSUME pc = "collect"
               PROVE  /\ \A t \in got \union {Root} : tasks'[t].err = Ok
                      /\ SegmentsOf(collected)' = SegmentsBy(got \union {Root})'
                      /\ Apart(collected)'
    OBVIOUS
  <2>1. /\ \A t \in got \union {Root} : tasks[t].err = Ok
        /\ SegmentsOf(collected) = SegmentsBy(got \union {Root})
        /\ Apart(collected)
    BY DEF Delivered
  <2>2. collected' = collected
    OBVIOUS
  <2>3. SegmentsOf(collected)' = SegmentsOf(collected)
    BY <2>2 DEF SegmentsOf
  <2>4. Apart(collected)'
    BY <2>1, <2>2 DEF Apart
  <2>5. \A t \in got \union {Root} : tasks'[t].err = Ok
    BY <1>3, <2>1
  <2> QED
    BY <1>3, <2>1, <2>3, <2>4, <2>5
<1>5. \A k \in 1 .. Len(channel) : channel[k] = Outcome(tasks'[from[k]])
  BY <1>2 DEF Delivered
<1> QED
  BY <1>4, <1>5 DEF Delivered

(* A task ends, and sends what it has if it is not the root.               *)
LEMMA EndsDelivers ==
  ASSUME IInv, DeliveryInv, NEW t \in DOMAIN tasks, Ends(t)
  PROVE  DeliveryInv'
<1>1. /\ ~Running(tasks[t]) /\ t \notin ended /\ ended' = ended \union {t}
      /\ channel' = IF t = Root THEN channel ELSE Append(channel, Outcome(tasks[t]))
      /\ UNCHANGED <<prog, tasks, collected, pc, result>>
  BY DEF Ends
<1>2. pc = "scope"
  BY <1>1 DEF DeliveryInv, IInv, TypeOK
<1>3. PICK got, from : Delivered(got, from)
  BY <1>2 DEF DeliveryInv
<1>4. \A u \in ended' : ~Running(tasks'[u])
  BY <1>1 DEF DeliveryInv
<1>5. channel \in Seq(Batch) /\ Len(channel) \in Nat /\ got = {}
  BY <1>2, <1>3 DEF IInv, TypeOK, Delivered
<1>6. \E g, f : Delivered(g, f)'
  <2>1. CASE t = Root
    <3>1. Delivered(got, from)'
      BY <1>1, <1>2, <1>3, <2>1 DEF Delivered
    <3> QED
      BY <3>1
  <2>2. CASE t # Root
    <3> DEFINE n == Len(channel) + 1
               f == [k \in 1 .. n |-> IF k = n THEN t ELSE from[k]]
    <3>1. Outcome(tasks[t]) \in Batch
      <4>1. tasks[t] \in EvaluatorSet
        BY DEF IInv, TypeOK
      <4> QED
        BY <4>1 DEF Outcome, Batch, EvaluatorSet
    <3>2. /\ Len(channel') = n /\ channel'[n] = Outcome(tasks[t])
          /\ \A k \in 1 .. Len(channel) : channel'[k] = channel[k]
      BY <1>1, <1>5, <2>2, <3>1, AppendProperties
    <3>3. f[n] = t /\ \A k \in 1 .. Len(channel) : f[k] = from[k]
      BY <1>5
    <3>4. 1 .. n = 1 .. Len(channel) \union {n} /\ n \notin 1 .. Len(channel)
      BY <1>5
    <3>5. \A k \in 1 .. Len(channel) : from[k] \in ended \ {Root} /\ channel[k] = Outcome(tasks[from[k]])
      BY <1>3 DEF Delivered
    <3> HIDE DEF f, n
    <3>6. \A k \in 1 .. n : /\ f[k] \in ended' \ {Root}
                            /\ channel'[k] = Outcome(tasks'[f[k]])
      BY <1>1, <2>2, <3>2, <3>3, <3>4, <3>5
    <3>7. \A k, l \in 1 .. n : f[k] = f[l] => k = l
      <4>1. \A k \in 1 .. Len(channel) : f[k] # t
        BY <1>1, <3>3, <3>5
      <4>2. \A k, l \in 1 .. Len(channel) : f[k] = f[l] => k = l
        BY <1>3, <3>3 DEF Delivered
      <4> QED
        BY <3>3, <3>4, <4>1, <4>2
    <3>8. \A u \in ended' \ {Root} : \E k \in 1 .. n : f[k] = u
      <4>1. \A u \in ended \ {Root} : \E k \in 1 .. Len(channel) : from[k] = u
        BY <1>3, <1>5 DEF Delivered
      <4> QED
        BY <1>1, <3>3, <3>4, <4>1
    <3>9. PICK h : h = f
      OBVIOUS
    <3>10. Delivered({}, h)'
      <4> DEFINE none == {}
      <4>1. /\ none \subseteq ended' \ {Root} /\ pc' = "scope" /\ Len(channel') = n
            /\ (ended' \ {Root}) \ none = ended' \ {Root} /\ none = {}
        BY <1>1, <1>2, <3>2
      <4> HIDE DEF none
      <4>2. /\ \A k \in 1 .. Len(channel') : /\ h[k] \in (ended' \ {Root}) \ none
                                             /\ channel'[k] = Outcome(tasks'[h[k]])
            /\ \A k, l \in 1 .. Len(channel') : h[k] = h[l] => k = l
            /\ \A u \in (ended' \ {Root}) \ none : \E k \in 1 .. Len(channel') : h[k] = u
        BY ONLY <3>6, <3>7, <3>8, <3>9, <4>1
      <4>3. Delivered(none, h)'
        BY <4>1, <4>2 DEF Delivered
      <4> QED
        BY <4>1, <4>3
    <3> QED
      BY <3>10
  <2> QED
    BY <2>1, <2>2
<1> QED
  BY <1>1, <1>2, <1>4, <1>6 DEF DeliveryInv, EvalAccounts

(* Any other step of a task.                                               *)
LEMMA TaskStepDelivers ==
  ASSUME IInv, DeliveryInv, NEW t \in DOMAIN tasks, TaskStep(t)
  PROVE  DeliveryInv'
<1>1. /\ t \notin ended
      /\ \A u \in ended : u \in DOMAIN tasks' /\ tasks'[u] = tasks[u]
      /\ UNCHANGED <<pc, result, collected>>
      /\ Ends(t) \/ UNCHANGED <<ended, channel>>
  BY EndedStay DEF DeliveryInv
<1>2. pc = "scope"
  BY <1>1 DEF DeliveryInv, IInv, TypeOK
<1>3. CASE UNCHANGED <<ended, channel>>
  <2>1. PICK got, from : Delivered(got, from)
    BY <1>2 DEF DeliveryInv
  <2>2. Delivered(got, from)'
    BY <1>1, <1>2, <1>3, <2>1, StaysDelivered
  <2>3. \A u \in ended' : ~Running(tasks'[u])
    BY <1>1, <1>3 DEF DeliveryInv
  <2> QED
    BY <1>1, <1>2, <2>2, <2>3 DEF DeliveryInv, EvalAccounts
<1> QED
  BY <1>1, <1>3, EndsDelivers

(* The scope is over: eval has the root's segments, or its error.          *)
LEMMA LeavesDelivers ==
  ASSUME IInv, DeliveryInv, LeaveRayonScope
  PROVE  DeliveryInv'
<1>1. /\ pc = "scope" /\ ended = DOMAIN tasks
      /\ UNCHANGED <<prog, tasks, ended, channel>>
  BY DEF LeaveRayonScope, AllEnded
<1>2. PICK got, from : Delivered(got, from)
  BY <1>1 DEF DeliveryInv
<1>3. \A u \in ended' : ~Running(tasks'[u])
  BY <1>1 DEF DeliveryInv
<1>4. Root \in DOMAIN tasks /\ tasks[Root] \in EvaluatorSet
  BY DEF IInv, TypeOK
<1>5. CASE tasks[Root].err = Ok
  <2>1. pc' = "collect" /\ collected' = tasks[Root].segments
    BY <1>5 DEF LeaveRayonScope
  <2>2. got = {} /\ got \union {Root} = {Root}
    BY <1>1, <1>2 DEF Delivered
  <2>3. SegmentsOf(collected') = SegmentsBy(got \union {Root})
    BY <2>1, <2>2 DEF SegmentsBy
  <2>4. SegmentsBy(got \union {Root})' = SegmentsBy(got \union {Root})
    BY <1>1 DEF SegmentsBy
  <2>5. Apart(collected')
    <3>1. \A i, j \in DOMAIN tasks[Root].segments :
            tasks[Root].segments[i].dfs_path = tasks[Root].segments[j].dfs_path => i = j
      BY <1>4 DEF IInv, Numbering, PathsUnique
    <3> QED
      BY <2>1, <3>1 DEF Apart
  <2>6. Delivered(got, from)'
    BY <1>1, <1>2, <1>5, <2>1, <2>2, <2>3, <2>4, <2>5 DEF Delivered
  <2> QED
    BY <1>1, <1>3, <2>1, <2>6 DEF DeliveryInv, EvalAccounts
<1>6. CASE tasks[Root].err # Ok
  <2>1. pc' = "done" /\ result' = Outcome(tasks[Root])
    BY <1>6 DEF LeaveRayonScope
  <2>2. result'.err = tasks[Root].err
    BY <1>6, <2>1 DEF Outcome
  <2> QED
    BY <1>1, <1>3, <1>4, <1>6, <2>1, <2>2 DEF DeliveryInv, EvalAccounts
<1> QED
  BY <1>5, <1>6

(* A batch is read: its task's segments are new, or its error is returned. *)
LEMMA ReceiveDelivers ==
  ASSUME IInv, DeliveryInv, Receive
  PROVE  DeliveryInv'
<1>1. /\ pc = "collect" /\ channel # <<>> /\ channel' = Tail(channel)
      /\ UNCHANGED <<prog, tasks, ended>> /\ ended = DOMAIN tasks
  BY DEF Receive, DeliveryInv
<1>2. PICK got, from : Delivered(got, from)
  BY <1>1 DEF DeliveryInv
<1>3. \A u \in ended' : ~Running(tasks'[u])
  BY <1>1 DEF DeliveryInv
<1> DEFINE n == Len(channel)
           t == from[1]
<1>4. /\ channel \in Seq(Batch) /\ n \in Nat /\ n >= 1 /\ Len(Tail(channel)) = n - 1
      /\ \A k \in 1 .. n - 1 : Tail(channel)[k] = channel[k + 1]
      /\ Head(channel) = channel[1]
  <2>1. channel \in Seq(Batch)
    BY DEF IInv, TypeOK
  <2> QED
    BY <1>1, <2>1
<1>5. /\ t \in (ended \ {Root}) \ got /\ Head(channel) = Outcome(tasks[t])
      /\ \A k, l \in 1 .. n : from[k] = from[l] => k = l
      /\ \A u \in got \union {Root} : tasks[u].err = Ok
      /\ SegmentsOf(collected) = SegmentsBy(got \union {Root})
      /\ Apart(collected) /\ got \subseteq ended \ {Root}
  <2>1. 1 \in 1 .. n
    BY <1>4
  <2> QED
    BY <1>1, <1>2, <1>4, <2>1 DEF Delivered
<1>6. /\ \A k \in 1 .. n : /\ from[k] \in (ended \ {Root}) \ got
                           /\ channel[k] = Outcome(tasks[from[k]])
      /\ \A u \in (ended \ {Root}) \ got : \E k \in 1 .. n : from[k] = u
  BY <1>2 DEF Delivered
<1>7. t \in DOMAIN tasks /\ tasks[t] \in EvaluatorSet /\ Root \in DOMAIN tasks
  BY <1>1, <1>5 DEF IInv, TypeOK
<1> HIDE DEF t, n
<1>8. CASE tasks[t].err # Ok
  <2>1. Head(channel).err = tasks[t].err
    BY <1>5, <1>8 DEF Outcome
  <2>2. pc' = "done" /\ result' = Head(channel)
    BY <1>8, <2>1 DEF Receive
  <2>3. tasks[Root].err = Ok
    BY <1>5
  <2> QED
    BY <1>1, <1>3, <1>7, <1>8, <2>1, <2>2, <2>3 DEF DeliveryInv, EvalAccounts
<1>9. CASE tasks[t].err = Ok
  <2> DEFINE g == got \union {t}
             f == [k \in 1 .. n - 1 |-> from[k + 1]]
             more == tasks[t].segments
  <2>1. Head(channel).err = Ok /\ Head(channel).segments = more
    BY <1>5, <1>9 DEF Outcome
  <2>2. collected' = collected \o more /\ pc' = pc
    BY <2>1 DEF Receive
  <2>3. collected \in Seq(Segment) /\ more \in Seq(Segment)
    BY <1>7 DEF IInv, TypeOK, EvaluatorSet
  <2>4. /\ Len(collected) \in Nat /\ Len(more) \in Nat
        /\ DOMAIN collected = 1 .. Len(collected) /\ DOMAIN more = 1 .. Len(more)
        /\ DOMAIN (collected \o more) = 1 .. Len(collected) + Len(more)
        /\ \A i \in 1 .. Len(collected) : (collected \o more)[i] = collected[i]
        /\ \A i \in 1 .. Len(more) : (collected \o more)[Len(collected) + i] = more[i]
    BY <2>3
  <2>5. \A i \in 1 .. Len(collected) + Len(more) :
          i \in 1 .. Len(collected) \/ \E j \in 1 .. Len(more) : i = Len(collected) + j
    <3> SUFFICES ASSUME NEW i \in 1 .. Len(collected) + Len(more), i \notin 1 .. Len(collected)
                 PROVE  \E j \in 1 .. Len(more) : i = Len(collected) + j
      OBVIOUS
    <3>1. i - Len(collected) \in 1 .. Len(more) /\ i = Len(collected) + (i - Len(collected))
      BY <2>4
    <3> QED
      BY <3>1
  <2> DEFINE both == collected \o more
  <2>6. SegmentsOf(both) = SegmentsOf(collected) \union SegmentsOf(more)
    <3> HIDE DEF both, more
    <3>1. SegmentsOf(both) \subseteq SegmentsOf(collected) \union SegmentsOf(more)
      <4> SUFFICES ASSUME NEW i \in DOMAIN both
                   PROVE  both[i] \in SegmentsOf(collected) \union SegmentsOf(more)
        BY DEF SegmentsOf
      <4> QED
        BY <2>4, <2>5 DEF SegmentsOf, both
    <3>2. SegmentsOf(collected) \subseteq SegmentsOf(both)
      <4> SUFFICES ASSUME NEW i \in DOMAIN collected PROVE collected[i] \in SegmentsOf(both)
        BY DEF SegmentsOf
      <4>1. i \in DOMAIN both /\ both[i] = collected[i]
        BY <2>4 DEF both
      <4> QED
        BY <4>1 DEF SegmentsOf
    <3>3. SegmentsOf(more) \subseteq SegmentsOf(both)
      <4> SUFFICES ASSUME NEW i \in DOMAIN more PROVE more[i] \in SegmentsOf(both)
        BY DEF SegmentsOf
      <4>1. Len(collected) + i \in DOMAIN both /\ both[Len(collected) + i] = more[i]
        BY <2>4 DEF both
      <4> QED
        BY <4>1 DEF SegmentsOf
    <3> QED
      BY <3>1, <3>2, <3>3
  <2>7. SegmentsOf(both) = SegmentsBy(g \union {Root})
    BY <1>5, <2>6 DEF SegmentsBy
  <2>8. \A i \in DOMAIN collected, j \in DOMAIN more : collected[i].dfs_path # more[j].dfs_path
    <3> SUFFICES ASSUME NEW i \in DOMAIN collected, NEW j \in DOMAIN more,
                        collected[i].dfs_path = more[j].dfs_path
                 PROVE  FALSE
      OBVIOUS
    <3>1. collected[i] \in SegmentsBy(got \union {Root})
      BY <1>5 DEF SegmentsOf
    <3>2. PICK u \in got \union {Root} : collected[i] \in SegmentsOf(tasks[u].segments)
      BY <3>1 DEF SegmentsBy
    <3>3. PICK l \in DOMAIN tasks[u].segments : collected[i] = tasks[u].segments[l]
      BY <3>2 DEF SegmentsOf
    <3>4. u \in DOMAIN tasks /\ u # t
      BY <1>1, <1>5, <1>7
    <3>5. PathsUnique
      BY DEF IInv, Numbering
    <3> QED
      BY <1>7, <3>3, <3>4, <3>5 DEF PathsUnique
  <2>9. \A i, j \in DOMAIN more : more[i].dfs_path = more[j].dfs_path => i = j
    <3>1. PathsUnique
      BY DEF IInv, Numbering
    <3> QED
      BY <1>7, <3>1 DEF PathsUnique
  <2>10. Apart(both)
    <3> SUFFICES ASSUME NEW i \in DOMAIN both, NEW j \in DOMAIN both,
                        both[i].dfs_path = both[j].dfs_path
                 PROVE  i = j
      BY DEF Apart
    <3> DEFINE m == Len(collected)
    <3> HIDE DEF more
    <3>1. \A a \in DOMAIN both :
            \/ a \in DOMAIN collected /\ both[a] = collected[a]
            \/ \E k \in DOMAIN more : a = m + k /\ both[a] = more[k]
      <4> SUFFICES ASSUME NEW a \in 1 .. Len(collected) + Len(more)
                   PROVE  \/ a \in DOMAIN collected /\ both[a] = collected[a]
                          \/ \E k \in DOMAIN more : a = m + k /\ both[a] = more[k]
        BY <2>4 DEF both
      <4>1. CASE a \in 1 .. Len(collected)
        BY <2>4, <4>1 DEF both
      <4>2. CASE \E k \in 1 .. Len(more) : a = Len(collected) + k
        BY <2>4, <4>2 DEF both
      <4> QED
        BY <2>5, <4>1, <4>2
    <3> HIDE DEF both, m
    <3>2. \A k, l \in DOMAIN collected : collected[k].dfs_path = collected[l].dfs_path => k = l
      BY <1>5 DEF Apart
    <3> QED
      BY <2>8, <2>9, <3>1, <3>2
  <2>11. /\ \A k \in 1 .. n - 1 : f[k] = from[k + 1] /\ k + 1 \in 1 .. n /\ k + 1 # 1
         /\ \A k, l \in 1 .. n - 1 : k + 1 = l + 1 => k = l
         /\ \A k \in 1 .. n : k # 1 => k - 1 \in 1 .. n - 1 /\ (k - 1) + 1 = k
         /\ 1 \in 1 .. n /\ Len(channel') = n - 1
         /\ \A k \in 1 .. n - 1 : channel'[k] = channel[k + 1]
    BY <1>1, <1>4
  <2> HIDE DEF f, more, both
  <2>12. \A k \in 1 .. n - 1 : /\ f[k] \in (ended' \ {Root}) \ g
                               /\ channel'[k] = Outcome(tasks'[f[k]])
    <3> SUFFICES ASSUME NEW k \in 1 .. n - 1
                 PROVE  f[k] \in (ended' \ {Root}) \ g /\ channel'[k] = Outcome(tasks'[f[k]])
      OBVIOUS
    <3>1. f[k] = from[k + 1] /\ k + 1 \in 1 .. n /\ from[k + 1] # t
      BY <1>5, <2>11 DEF t
    <3> QED
      BY <1>1, <1>6, <2>11, <3>1
  <2>13. \A k, l \in 1 .. n - 1 : f[k] = f[l] => k = l
    BY <1>5, <2>11
  <2>14. \A u \in (ended' \ {Root}) \ g : \E k \in 1 .. n - 1 : f[k] = u
    <3> SUFFICES ASSUME NEW u \in (ended \ {Root}) \ got, u # t
                 PROVE  \E k \in 1 .. n - 1 : f[k] = u
      BY <1>1
    <3>1. PICK k \in 1 .. n : from[k] = u
      BY <1>6
    <3>2. k # 1
      BY <3>1 DEF t
    <3>3. f[k - 1] = u /\ k - 1 \in 1 .. n - 1
      BY <2>11, <3>1, <3>2
    <3> QED
      BY <3>3
  <2>15. SegmentsBy(g \union {Root})' = SegmentsBy(g \union {Root})
    BY <1>1 DEF SegmentsBy
  <2>16. /\ SegmentsOf(collected)' = SegmentsBy(g \union {Root})'
         /\ Apart(collected)'
    BY <2>2, <2>7, <2>10, <2>15 DEF both
  <2>17. g \subseteq ended' \ {Root} /\ \A u \in g \union {Root} : tasks'[u].err = Ok
    BY <1>1, <1>5, <1>9
  <2> HIDE DEF g
  <2>18. PICK h, r : h = f /\ r = g
    OBVIOUS
  <2>19. /\ r \subseteq ended' \ {Root}
         /\ \A k \in 1 .. Len(channel') : /\ h[k] \in (ended' \ {Root}) \ r
                                          /\ channel'[k] = Outcome(tasks'[h[k]])
         /\ \A k, l \in 1 .. Len(channel') : h[k] = h[l] => k = l
         /\ \A u \in (ended' \ {Root}) \ r : \E k \in 1 .. Len(channel') : h[k] = u
    BY ONLY <2>11, <2>12, <2>13, <2>14, <2>17, <2>18
  <2>20. /\ pc' = "collect"
         /\ \A u \in r \union {Root} : tasks'[u].err = Ok
         /\ SegmentsOf(collected)' = SegmentsBy(r \union {Root})'
         /\ Apart(collected)'
    <3>1. SegmentsBy(r \union {Root})' = SegmentsBy(r \union {Root})
      BY <1>1 DEF SegmentsBy
    <3>2. SegmentsOf(collected)' = SegmentsBy(r \union {Root})
      BY <2>2, <2>7, <2>18 DEF both, SegmentsOf
    <3> QED
      BY <1>1, <1>5, <1>9, <2>2, <2>16, <2>17, <2>18, <3>1, <3>2
  <2>21. Delivered(r, h)'
    BY <2>19, <2>20 DEF Delivered
  <2> QED
    BY <1>1, <1>3, <2>2, <2>21 DEF DeliveryInv, EvalAccounts
<1> QED
  BY <1>8, <1>9

(* The channel is drained: every task's batch was read.                    *)
LEMMA FinishDelivers ==
  ASSUME IInv, DeliveryInv, Finish
  PROVE  DeliveryInv'
<1>1. /\ pc = "collect" /\ channel = <<>> /\ ended = DOMAIN tasks /\ pc' = "done"
      /\ UNCHANGED <<prog, tasks, ended, channel, collected>>
  BY DEF Finish, AllEnded
<1>2. PICK got, from : Delivered(got, from)
  BY <1>1 DEF DeliveryInv
<1>3. \A u \in ended' : ~Running(tasks'[u])
  BY <1>1 DEF DeliveryInv
<1>4. got \union {Root} = DOMAIN tasks
  <2>1. 1 .. Len(channel) = {}
    BY <1>1
  <2>2. Root \in DOMAIN tasks
    BY DEF IInv, TypeOK
  <2> QED
    BY <1>1, <1>2, <2>1, <2>2 DEF Delivered
<1>5. /\ \A u \in DOMAIN tasks : tasks[u].err = Ok
      /\ SegmentsOf(collected) = SegmentsBy(DOMAIN tasks)
      /\ Apart(collected)
  BY <1>1, <1>2, <1>4 DEF Delivered
<1>6. PICK s \in Sorted(collected) : result' = [err |-> Ok, segments |-> s]
  BY DEF Finish
<1>7. SegmentsOf(s) = SegmentsOf(collected) /\ InOrder(s)
  <2>1. collected \in Seq(Segment)
    BY DEF IInv, TypeOK
  <2> QED
    BY <1>5, <2>1, Sorts
<1>8. result'.err = Ok /\ result'.segments = s
  BY <1>6
<1>9. SegmentsBy(DOMAIN tasks)' = SegmentsBy(DOMAIN tasks)
  BY <1>1 DEF SegmentsBy
<1>10. Root \in DOMAIN tasks
  BY DEF IInv, TypeOK
<1>11. EvalAccounts'
  BY <1>1, <1>5, <1>7, <1>8, <1>9, <1>10 DEF EvalAccounts
<1> QED
  BY <1>1, <1>3, <1>11 DEF DeliveryInv

(* Every step keeps account of the segments.                               *)
LEMMA DeliveryKeeps == IInv /\ DeliveryInv /\ [Next]_vars => DeliveryInv'
<1> SUFFICES ASSUME IInv, DeliveryInv, [Next]_vars PROVE DeliveryInv'
  OBVIOUS
<1>1. CASE \E t \in DOMAIN tasks : TaskStep(t)
  BY <1>1, TaskStepDelivers
<1>2. CASE LeaveRayonScope
  BY <1>2, LeavesDelivers
<1>3. CASE Receive
  BY <1>3, ReceiveDelivers
<1>4. CASE Finish
  BY <1>4, FinishDelivers
<1>5. CASE Returned \/ UNCHANGED vars
  <2>1. UNCHANGED vars
    BY <1>5 DEF Returned
  <2>2. EvalAccounts'
    BY <2>1 DEF vars, DeliveryInv, EvalAccounts, SegmentsBy
  <2>3. pc # "done" => \E got, from : Delivered(got, from)'
    <3> SUFFICES ASSUME pc # "done" PROVE \E got, from : Delivered(got, from)'
      OBVIOUS
    <3>1. PICK got, from : Delivered(got, from)
      BY DEF DeliveryInv
    <3>2. pc = "collect" => Root \in ended
      BY DEF DeliveryInv, IInv, TypeOK
    <3>3. Delivered(got, from)'
      BY <2>1, <3>1, <3>2, StaysDelivered DEF vars
    <3> QED
      BY <3>3
  <2> QED
    BY <2>1, <2>2, <2>3 DEF vars, DeliveryInv
<1> QED
  BY <1>1, <1>2, <1>3, <1>4, <1>5 DEF Next

(* What eval returns accounts for every task, whatever the schedule: all   *)
(* have ended, the root's error comes first, and without an error the list *)
(* has every segment of every task once, in depth-first order              *)
(* (trace.rs:290-305, 351, 386-393).                                       *)
THEOREM Accounts == Spec => []EvalAccounts
<1>1. Spec => []DeliveryInv
  <2>1. Init => DeliveryInv
    BY DeliveryStarts
  <2>2. IInv /\ DeliveryInv /\ [Next]_vars => DeliveryInv'
    BY DeliveryKeeps
  <2> QED
    BY <2>1, <2>2, Invariance, PTL DEF Spec
<1>2. DeliveryInv => EvalAccounts
  BY DEF DeliveryInv
<1> QED
  BY <1>1, <1>2, PTL
-----------------------------------------------------------------------------
(* The body that runs on a path: the circuit on the empty one, and the     *)
(* routine a body calls on its path with the number of calls it made       *)
(* before.                                                                 *)
Closed(p, C) ==
  /\ <<(<<>>), Main>> \in C
  /\ \A c \in C : \A i \in Calls(p, c[2]) :
       <<Append(c[1], CallsMade(p, c[2], i)), p[c[2]].ops[i].name>> \in C
CalledAs(p, q, n) ==
  /\ q \in Path /\ n \in Routines
  /\ \A C \in SUBSET (Path \X Routines) : Closed(p, C) => <<q, n>> \in C
CalledPaths(p) == { q \in Path : \E n \in Routines : CalledAs(p, q, n) }

(* The body n of path q stands before its call at: it has made g gates, and *)
(* the paths of the routines it called are in P.                           *)
Base(q) == IF q = <<>> THEN 1 ELSE 0
Stands(p, q, n, at, g, P) ==
  /\ CalledAs(p, q, n)
  /\ at \in Nat \ {0}
  /\ g = GatesMade(p, n, at) + Base(q)
  /\ \A i \in Calls(p, n) : i < at => Append(q, CallsMade(p, n, i)) \in P
Ran(p, q, g, P) == \E n \in Routines : Stands(p, q, n, Len(p[n].ops) + 1, g, P)
-----------------------------------------------------------------------------
(* The bodies of a circuit.                                                *)
LEMMA Bodies ==
  ASSUME NEW p \in Programs, NEW n \in Routines
  PROVE  /\ p[n].ops \in Seq(Op) /\ Len(p[n].ops) \in Nat
         /\ \A i \in 1 .. Len(p[n].ops) : p[n].ops[i] \in Op
<1>1. p \in [Routines -> Body]
  BY CircuitAssumption
<1>2. p[n].ops \in Seq(Op)
  BY <1>1 DEF Body
<1> QED
  BY <1>2

(* A routine call names a routine.                                         *)
LEMMA CallNames ==
  ASSUME NEW p \in Programs, NEW n \in Routines, NEW i \in Calls(p, n)
  PROVE  i \in 1 .. Len(p[n].ops) /\ p[n].ops[i].name \in Routines
<1>1. i \in 1 .. Len(p[n].ops) /\ p[n].ops[i].kind = "routine"
  BY DEF Calls, Kind
<1>2. p[n].ops[i] \in Op
  BY <1>1, Bodies
<1> QED
  BY <1>1, <1>2 DEF Op, RoutineOp, GateOp, AssignExtraOp, LinearOp

(* How many calls of a kind come before a place: none before the first,    *)
(* one more after one of the kind, and no more after another or the last.  *)
LEMMA MadeIs ==
  ASSUME NEW p \in Programs, NEW n \in Routines, NEW kind
  PROVE  /\ Made(p, n, 1, kind) = 0
         /\ \A at \in Nat : Made(p, n, at, kind) \in Nat
         /\ \A at \in Kind(p, n, kind) :
              /\ at \in Nat \ {0}
              /\ Made(p, n, at + 1, kind) = Made(p, n, at, kind) + 1
         /\ \A at \in Nat : at \notin Kind(p, n, kind)
              => Made(p, n, at + 1, kind) = Made(p, n, at, kind)
         /\ \A at \in Nat : at > Len(p[n].ops)
              => Made(p, n, at, kind) = Made(p, n, Len(p[n].ops) + 1, kind)
         /\ \A i, at \in Nat : i <= at => Made(p, n, i, kind) <= Made(p, n, at, kind)
<1> DEFINE K == Kind(p, n, kind)
           B(at) == K \intersect 1 .. at - 1
           len == Len(p[n].ops)
<1> HIDE DEF K, len, B
<1>1. len \in Nat /\ K \subseteq 1 .. len /\ \A i \in K : i \in Nat /\ 1 <= i /\ i <= len
  BY Bodies DEF Kind, K, len
<1>2. \A at : Made(p, n, at, kind) = Cardinality(B(at))
  BY DEF Made, B, K
<1> USE DEF B
<1>3. \A at : IsFiniteSet(B(at)) /\ Cardinality(B(at)) \in Nat
  <2> TAKE at
  <2>1. B(at) \subseteq 1 .. len
    BY <1>1
  <2> HIDE DEF B
  <2> QED
    BY <2>1, <1>1, Few
<1>4. Cardinality(B(1)) = 0
  <2>1. B(1) = {}
    BY <1>1
  <2> QED
    BY <2>1, FS_EmptySet
<1>5. ASSUME NEW at \in K
      PROVE  at \in Nat \ {0} /\ Cardinality(B(at + 1)) = Cardinality(B(at)) + 1
  <2>1. at \in Nat \ {0}
    BY <1>1
  <2>2. B(at + 1) = B(at) \union {at} /\ at \notin B(at)
    BY <1>1
  <2> HIDE DEF B
  <2> QED
    BY <2>1, <2>2, <1>3, FS_AddElement
<1>6. ASSUME NEW at \in Nat, at \notin K
      PROVE  Cardinality(B(at + 1)) = Cardinality(B(at))
  <2>1. B(at + 1) = B(at)
    BY <1>1, <1>6
  <2> QED
    BY <2>1
<1>7. ASSUME NEW at \in Nat, at > len
      PROVE  Cardinality(B(at)) = Cardinality(B(len + 1))
  <2>1. B(at) = B(len + 1)
    BY <1>1, <1>7
  <2> QED
    BY <2>1
<1>8. ASSUME NEW i \in Nat, NEW at \in Nat, i <= at
      PROVE  Cardinality(B(i)) <= Cardinality(B(at))
  <2>1. B(i) \subseteq B(at)
    BY <1>1, <1>8
  <2> HIDE DEF B
  <2> QED
    BY <2>1, <1>3, FS_Subset
<1> HIDE DEF B
<1> QED
  BY <1>2, <1>3, <1>4, <1>5, <1>6, <1>7, <1>8 DEF K, len

(* Two calls of a kind with as many of it before them are the same call.   *)
LEMMA MadeApart ==
  ASSUME NEW p \in Programs, NEW n \in Routines, NEW kind,
         NEW i \in Kind(p, n, kind), NEW j \in Kind(p, n, kind),
         Made(p, n, i, kind) = Made(p, n, j, kind)
  PROVE  i = j
<1>1. ASSUME NEW k \in Kind(p, n, kind), NEW l \in Kind(p, n, kind), k < l
      PROVE  Made(p, n, k, kind) < Made(p, n, l, kind)
  <2>1. k \in Nat /\ l \in Nat /\ k + 1 \in Nat /\ k + 1 <= l
    BY <1>1, MadeIs
  <2>2. /\ Made(p, n, k + 1, kind) = Made(p, n, k, kind) + 1
        /\ Made(p, n, k + 1, kind) <= Made(p, n, l, kind)
        /\ Made(p, n, k, kind) \in Nat /\ Made(p, n, l, kind) \in Nat
    BY <2>1, MadeIs
  <2> QED
    BY <2>2
<1>2. i \in Nat /\ j \in Nat /\ Made(p, n, i, kind) \in Nat
  BY MadeIs
<1>3. ~(i < j) /\ ~(j < i)
  BY <1>1, <1>2
<1> QED
  BY <1>2, <1>3
-----------------------------------------------------------------------------
(* The circuit runs on the empty path.                                     *)
LEMMA CalledStarts ==
  ASSUME NEW p \in Programs
  PROVE  CalledAs(p, <<>>, Main)
<1>1. <<>> \in Path /\ Main \in Routines
  BY CircuitAssumption DEF Path
<1> QED
  BY <1>1 DEF CalledAs, Closed

(* A call runs on the path of its body and its number.                     *)
LEMMA CalledOn ==
  ASSUME NEW p \in Programs, NEW q, NEW n, CalledAs(p, q, n), NEW i \in Calls(p, n)
  PROVE  CalledAs(p, Append(q, CallsMade(p, n, i)), p[n].ops[i].name)
<1> DEFINE r == Append(q, CallsMade(p, n, i))
           m == p[n].ops[i].name
<1>1. q \in Path /\ n \in Routines
  BY DEF CalledAs
<1>2. m \in Routines /\ i \in Nat
  BY <1>1, CallNames
<1>3. CallsMade(p, n, i) \in Nat
  BY <1>1, <1>2, MadeIs DEF CallsMade
<1>4. r \in Path
  BY <1>1, <1>3 DEF Path
<1>5. ASSUME NEW C \in SUBSET (Path \X Routines), Closed(p, C)
      PROVE  <<r, m>> \in C
  <2>1. <<q, n>> \in C
    BY <1>5 DEF CalledAs
  <2>2. <<q, n>>[1] = q /\ <<q, n>>[2] = n
    OBVIOUS
  <2> QED
    BY <2>1, <2>2, <1>5 DEF Closed
<1> QED
  BY <1>2, <1>4, <1>5 DEF CalledAs

(* What a set closed under calls has.                                      *)
LEMMA CalledIn ==
  ASSUME NEW p \in Programs, NEW q, NEW n, CalledAs(p, q, n),
         NEW C \in SUBSET (Path \X Routines),
         <<(<<>>), Main>> \in C,
         \A r \in Path, m \in Routines : <<r, m>> \in C =>
           \A i \in Calls(p, m) : <<Append(r, CallsMade(p, m, i)), p[m].ops[i].name>> \in C
  PROVE  <<q, n>> \in C
<1>1. ASSUME NEW c \in C, NEW i \in Calls(p, c[2])
      PROVE  <<Append(c[1], CallsMade(p, c[2], i)), p[c[2]].ops[i].name>> \in C
  <2>1. PICK r \in Path, m \in Routines : c = <<r, m>>
    OBVIOUS
  <2>2. c[1] = r /\ c[2] = m /\ <<r, m>> \in C
    BY <2>1
  <2> QED
    BY <2>2, <1>1
<1>2. Closed(p, C)
  BY <1>1 DEF Closed
<1> QED
  BY <1>2 DEF CalledAs

(* Nothing else runs on a path.                                            *)
LEMMA CalledFrom ==
  ASSUME NEW p \in Programs, NEW q, NEW n, CalledAs(p, q, n)
  PROVE  \/ q = <<>> /\ n = Main
         \/ \E r, m : \E i \in Calls(p, m) :
              /\ CalledAs(p, r, m)
              /\ q = Append(r, CallsMade(p, m, i)) /\ n = p[m].ops[i].name
<1> DEFINE From(x, y) == \/ x = <<>> /\ y = Main
                         \/ \E r, m : \E i \in Calls(p, m) :
                              /\ CalledAs(p, r, m)
                              /\ x = Append(r, CallsMade(p, m, i)) /\ y = p[m].ops[i].name
           C == { c \in Path \X Routines : CalledAs(p, c[1], c[2]) /\ From(c[1], c[2]) }
<1>1. \A x \in Path, y \in Routines : <<x, y>> \in C <=> CalledAs(p, x, y) /\ From(x, y)
  OBVIOUS
<1>2. <<(<<>>), Main>> \in C
  BY <1>1, CalledStarts DEF CalledAs
<1>3. ASSUME NEW r \in Path, NEW m \in Routines, <<r, m>> \in C, NEW i \in Calls(p, m)
      PROVE  <<Append(r, CallsMade(p, m, i)), p[m].ops[i].name>> \in C
  <2>1. CalledAs(p, r, m)
    BY <1>1, <1>3
  <2>2. CalledAs(p, Append(r, CallsMade(p, m, i)), p[m].ops[i].name)
    BY <2>1, CalledOn
  <2>3. From(Append(r, CallsMade(p, m, i)), p[m].ops[i].name)
    BY <2>1
  <2> HIDE DEF From, C
  <2> QED
    BY <2>2, <2>3, <1>1 DEF CalledAs
<1>4. C \in SUBSET (Path \X Routines)
  OBVIOUS
<1> HIDE DEF C
<1>5. <<q, n>> \in C
  BY <1>2, <1>3, <1>4, CalledIn
<1>6. From(q, n)
  <2> HIDE DEF From
  <2> QED
    BY <1>1, <1>5 DEF CalledAs
<1> QED
  BY <1>6

(* The last of a path.                                                     *)
LEMMA SameEnd ==
  ASSUME NEW q \in Path, NEW r \in Path, NEW i \in Nat, NEW j \in Nat, Append(q, i) = Append(r, j)
  PROVE  q = r /\ i = j
<1>1. q \in Seq(Nat) /\ r \in Seq(Nat)
  BY DEF Path
<1>2. /\ Len(Append(q, i)) = Len(q) + 1 /\ Append(q, i)[Len(q) + 1] = i
      /\ \A k \in 1 .. Len(q) : Append(q, i)[k] = q[k]
      /\ Len(Append(r, j)) = Len(r) + 1 /\ Append(r, j)[Len(r) + 1] = j
      /\ \A k \in 1 .. Len(r) : Append(r, j)[k] = r[k]
      /\ Len(q) \in Nat /\ Len(r) \in Nat
  BY <1>1, AppendProperties
<1>3. Len(q) = Len(r)
  BY <1>2
<1>4. i = j /\ \A k \in 1 .. Len(q) : q[k] = r[k]
  BY <1>2, <1>3
<1> QED
  BY <1>1, <1>3, <1>4, SeqEqual

(* One body runs on a path.                                                *)
LEMMA CalledOnce ==
  ASSUME NEW p \in Programs, NEW q, NEW n, NEW m, CalledAs(p, q, n), CalledAs(p, q, m)
  PROVE  n = m
<1> DEFINE Alone(x, y) == \A z : CalledAs(p, x, z) => z = y
           C == { c \in Path \X Routines : CalledAs(p, c[1], c[2]) /\ Alone(c[1], c[2]) }
<1>1. \A x \in Path, y \in Routines : <<x, y>> \in C <=> CalledAs(p, x, y) /\ Alone(x, y)
  OBVIOUS
<1>2. \A x \in Path, k \in Nat : Append(x, k) # <<>>
  <2> TAKE x \in Path, k \in Nat
  <2>1. x \in Seq(Nat)
    BY DEF Path
  <2> QED
    BY <2>1
<1>3. ASSUME NEW x, NEW y, CalledAs(p, x, y), NEW i \in Calls(p, y)
      PROVE  x \in Path /\ y \in Routines /\ CallsMade(p, y, i) \in Nat
  <2>1. x \in Path /\ y \in Routines
    BY <1>3 DEF CalledAs
  <2>2. i \in Nat
    BY <2>1, CallNames
  <2> QED
    BY <2>1, <2>2, MadeIs DEF CallsMade
<1>4. <<(<<>>), Main>> \in C
  <2>1. CalledAs(p, <<>>, Main)
    BY CalledStarts
  <2>2. ASSUME NEW z, CalledAs(p, <<>>, z) PROVE z = Main
    BY <2>2, <1>2, <1>3, CalledFrom
  <2> QED
    BY <2>1, <2>2, <1>1 DEF CalledAs
<1>5. ASSUME NEW r \in Path, NEW y \in Routines, <<r, y>> \in C, NEW i \in Calls(p, y)
      PROVE  <<Append(r, CallsMade(p, y, i)), p[y].ops[i].name>> \in C
  <2> DEFINE x == Append(r, CallsMade(p, y, i))
             w == p[y].ops[i].name
  <2>1. CalledAs(p, r, y) /\ Alone(r, y)
    BY <1>1, <1>5
  <2>2. CalledAs(p, x, w)
    BY <2>1, CalledOn
  <2>3. ASSUME NEW z, CalledAs(p, x, z) PROVE z = w
    <3>1. x # <<>>
      BY <2>1, <1>2, <1>3
    <3> HIDE DEF x, C
    <3>2. PICK r2, y2 : \E j \in Calls(p, y2) :
            /\ CalledAs(p, r2, y2)
            /\ x = Append(r2, CallsMade(p, y2, j)) /\ z = p[y2].ops[j].name
      BY <2>3, <3>1, CalledFrom
    <3>3. PICK j \in Calls(p, y2) :
            /\ CalledAs(p, r2, y2)
            /\ x = Append(r2, CallsMade(p, y2, j)) /\ z = p[y2].ops[j].name
      BY <3>2
    <3>4. r2 = r /\ CallsMade(p, y2, j) = CallsMade(p, y, i)
      BY <3>3, <2>1, <1>3, SameEnd DEF x
    <3>5. y2 = y
      BY <3>3, <3>4, <2>1
    <3>6. j = i
      BY <3>3, <3>4, <3>5, MadeApart DEF CallsMade, Calls
    <3> QED
      BY <3>3, <3>5, <3>6
  <2> HIDE DEF x, w, C
  <2>4. Alone(x, w)
    BY <2>3
  <2> HIDE DEF Alone
  <2>5. <<x, w>> \in C
    BY <2>2, <2>4, <1>1 DEF CalledAs
  <2> QED
    BY <2>5 DEF x, w
<1>6. C \in SUBSET (Path \X Routines)
  OBVIOUS
<1> HIDE DEF C
<1>7. <<q, n>> \in C
  BY <1>4, <1>5, <1>6, CalledIn
<1>8. Alone(q, n)
  <2> HIDE DEF Alone
  <2> QED
    BY <1>1, <1>7 DEF CalledAs
<1> QED
  BY <1>8
-----------------------------------------------------------------------------
(* How a body stands as it goes on.  Before its first call it has done     *)
(* nothing.                                                                *)
LEMMA StandsFirst ==
  ASSUME NEW p \in Programs, NEW q, NEW n, CalledAs(p, q, n), NEW P
  PROVE  Stands(p, q, n, 1, Base(q), P) /\ CallsMade(p, n, 1) = 0
<1>1. n \in Routines
  BY DEF CalledAs
<1>2. GatesMade(p, n, 1) = 0 /\ CallsMade(p, n, 1) = 0
  BY <1>1, MadeIs DEF GatesMade, CallsMade
<1>3. \A i \in Calls(p, n) : ~(i < 1)
  BY <1>1, MadeIs DEF Calls
<1> QED
  BY <1>2, <1>3 DEF Stands, Base

(* After a call, counted if it is a gate, its path recorded if it is a     *)
(* routine's.                                                              *)
LEMMA StandsOn ==
  ASSUME NEW p \in Programs, NEW q, NEW n, NEW at, NEW g, NEW P, Stands(p, q, n, at, g, P),
         NEW R, P \subseteq R,
         at \in Calls(p, n) => Append(q, CallsMade(p, n, at)) \in R,
         NEW h, h = IF at \in Kind(p, n, "gate") THEN g + 1 ELSE g
  PROVE  /\ Stands(p, q, n, at + 1, h, R)
         /\ g \in Nat
         /\ CallsMade(p, n, at) \in Nat
         /\ CallsMade(p, n, at + 1)
              = IF at \in Calls(p, n) THEN CallsMade(p, n, at) + 1 ELSE CallsMade(p, n, at)
<1>1. n \in Routines /\ at \in Nat \ {0} /\ CalledAs(p, q, n) /\ g = GatesMade(p, n, at) + Base(q)
  BY DEF Stands, CalledAs
<1>2. GatesMade(p, n, at) \in Nat /\ CallsMade(p, n, at) \in Nat /\ Base(q) \in Nat
  BY <1>1, MadeIs DEF GatesMade, CallsMade, Base
<1>3. GatesMade(p, n, at + 1)
        = IF at \in Kind(p, n, "gate") THEN GatesMade(p, n, at) + 1 ELSE GatesMade(p, n, at)
  BY <1>1, MadeIs DEF GatesMade
<1>4. CallsMade(p, n, at + 1)
        = IF at \in Calls(p, n) THEN CallsMade(p, n, at) + 1 ELSE CallsMade(p, n, at)
  BY <1>1, MadeIs DEF CallsMade, Calls
<1>5. h = GatesMade(p, n, at + 1) + Base(q)
  BY <1>1, <1>2, <1>3
<1>6. ASSUME NEW i \in Calls(p, n), i < at + 1
      PROVE  Append(q, CallsMade(p, n, i)) \in R
  <2>1. i \in Nat
    BY <1>1, MadeIs DEF Calls
  <2>2. i = at \/ i < at
    BY <2>1, <1>1, <1>6
  <2> QED
    BY <2>2, <1>6 DEF Stands
<1>7. at + 1 \in Nat \ {0}
  BY <1>1
<1> QED
  BY <1>1, <1>2, <1>4, <1>5, <1>6, <1>7 DEF Stands

(* More paths do not disturb it.                                           *)
LEMMA StandsMore ==
  ASSUME NEW p, NEW q, NEW n, NEW at, NEW g, NEW P, Stands(p, q, n, at, g, P),
         NEW R, P \subseteq R
  PROVE  Stands(p, q, n, at, g, R)
BY DEF Stands

(* A segment that was run still was.                                       *)
LEMMA RanMore ==
  ASSUME NEW p, NEW q, NEW g, NEW P, Ran(p, q, g, P), NEW R, P \subseteq R
  PROVE  Ran(p, q, g, R)
BY StandsMore DEF Ran

(* Past its last call a body was run.                                      *)
LEMMA StandsEnd ==
  ASSUME NEW p \in Programs, NEW q, NEW n, NEW at, NEW g, NEW P, Stands(p, q, n, at, g, P),
         at > Len(p[n].ops)
  PROVE  Ran(p, q, g, P)
<1>1. n \in Routines /\ at \in Nat \ {0} /\ CalledAs(p, q, n) /\ g = GatesMade(p, n, at) + Base(q)
  BY DEF Stands, CalledAs
<1>2. GatesMade(p, n, at) = GatesMade(p, n, Len(p[n].ops) + 1)
  <2>1. \A a \in Nat : a > Len(p[n].ops)
          => Made(p, n, a, "gate") = Made(p, n, Len(p[n].ops) + 1, "gate")
    BY <1>1, MadeIs
  <2>2. at \in Nat /\ at > Len(p[n].ops)
    BY <1>1
  <2> QED
    BY ONLY <2>1, <2>2 DEF GatesMade
<1>3. Len(p[n].ops) + 1 \in Nat \ {0}
  BY <1>1, Bodies
<1>4. \A i \in Calls(p, n) : i < at
  <2> TAKE i \in Calls(p, n)
  <2>1. i \in 1 .. Len(p[n].ops) /\ Len(p[n].ops) \in Nat
    BY <1>1, CallNames, Bodies
  <2> QED
    BY <2>1, <1>1
<1>5. Stands(p, q, n, Len(p[n].ops) + 1, g, P)
  BY <1>1, <1>2, <1>3, <1>4 DEF Stands
<1> QED
  BY <1>1, <1>5 DEF Ran

(* However a segment was run, it has the same gates.                       *)
LEMMA RanSame ==
  ASSUME NEW p \in Programs, NEW q, NEW g, NEW P, Ran(p, q, g, P), NEW h, NEW R, Ran(p, q, h, R)
  PROVE  g = h
<1>1. PICK n \in Routines : Stands(p, q, n, Len(p[n].ops) + 1, g, P)
  BY DEF Ran
<1>2. PICK m \in Routines : Stands(p, q, m, Len(p[m].ops) + 1, h, R)
  BY DEF Ran
<1>3. n = m
  BY <1>1, <1>2, CalledOnce DEF Stands
<1> QED
  BY <1>1, <1>2, <1>3 DEF Stands

(* Paths that have all been run, among them the circuit's, are those of    *)
(* every body that runs.                                                   *)
LEMMA AllRan ==
  ASSUME NEW p \in Programs, NEW P, <<>> \in P,
         \A q \in P : \E g : Ran(p, q, g, P)
  PROVE  P = CalledPaths(p)
<1>1. ASSUME NEW q \in P PROVE q \in CalledPaths(p)
  <2>1. PICK g : Ran(p, q, g, P)
    OBVIOUS
  <2>2. PICK n \in Routines : Stands(p, q, n, Len(p[n].ops) + 1, g, P)
    BY <2>1 DEF Ran
  <2> QED
    BY <2>2 DEF Stands, CalledAs, CalledPaths
<1>2. ASSUME NEW q \in CalledPaths(p) PROVE q \in P
  <2> DEFINE C == { c \in Path \X Routines : CalledAs(p, c[1], c[2]) /\ c[1] \in P }
  <2>1. \A x \in Path, y \in Routines : <<x, y>> \in C <=> CalledAs(p, x, y) /\ x \in P
    OBVIOUS
  <2>2. C \in SUBSET (Path \X Routines)
    OBVIOUS
  <2> HIDE DEF C
  <2>3. <<(<<>>), Main>> \in C
    BY <2>1, CalledStarts DEF CalledAs
  <2>4. ASSUME NEW r \in Path, NEW m \in Routines, <<r, m>> \in C, NEW i \in Calls(p, m)
        PROVE  <<Append(r, CallsMade(p, m, i)), p[m].ops[i].name>> \in C
    <3>1. CalledAs(p, r, m) /\ r \in P
      BY <2>1, <2>4
    <3>2. CalledAs(p, Append(r, CallsMade(p, m, i)), p[m].ops[i].name)
      BY <3>1, CalledOn
    <3>3. Append(r, CallsMade(p, m, i)) \in P
      <4>1. PICK g : Ran(p, r, g, P)
        BY <3>1
      <4>2. PICK n \in Routines : Stands(p, r, n, Len(p[n].ops) + 1, g, P)
        BY <4>1 DEF Ran
      <4>3. n = m
        BY <3>1, <4>2, CalledOnce DEF Stands
      <4>4. i \in 1 .. Len(p[m].ops) /\ Len(p[m].ops) \in Nat
        BY CallNames, Bodies
      <4>5. i < Len(p[m].ops) + 1
        BY <4>4
      <4> QED
        BY <4>2, <4>3, <4>5 DEF Stands
    <3> QED
      BY <3>2, <3>3, <2>1 DEF CalledAs
  <2>5. PICK n \in Routines : CalledAs(p, q, n)
    BY DEF CalledPaths
  <2>6. <<q, n>> \in C
    BY <2>2, <2>3, <2>4, <2>5, CalledIn
  <2> QED
    BY <2>1, <2>5, <2>6 DEF CalledAs
<1> QED
  BY <1>1, <1>2
-----------------------------------------------------------------------------
(* The witness evaluation.  Every scope of an evaluator stands somewhere in *)
(* the body of its path, and its counter is the calls made there; the      *)
(* segments of no scope were run, unless an error unwound them.            *)
FrameStands(p, ev, i, P) ==
  LET f == ev.stack[i]
  IN  /\ Stands(p, f.dfs_prefix, f.name, f.at, Len(ev.segments[f.current_segment].gates), P)
      /\ f.routine_counter = CallsMade(p, f.name, f.at)
SegmentRan(p, ev, s, P) ==
  (\A i \in DOMAIN ev.stack : ev.stack[i].current_segment # s) /\ ev.err = Ok
    => Ran(p, ev.segments[s].dfs_path, Len(ev.segments[s].gates), P)
Runs(p, ev, P) ==
  /\ \A i \in DOMAIN ev.stack : FrameStands(p, ev, i, P)
  /\ \A s \in DOMAIN ev.segments : SegmentRan(p, ev, s, P)

AllPaths == UNION { { tasks[t].segments[s].dfs_path : s \in DOMAIN tasks[t].segments } :
                    t \in DOMAIN tasks }
TraceRuns == \A t \in DOMAIN tasks : Runs(prog, tasks[t], AllPaths)

(* More paths do not disturb an evaluator.                                 *)
LEMMA RunsMore ==
  ASSUME NEW p, NEW ev, NEW P, Runs(p, ev, P), NEW R, P \subseteq R
  PROVE  Runs(p, ev, R)
BY StandsMore, RanMore DEF Runs, FrameStands, SegmentRan

(* The next call of a scope.                                               *)
LEMMA NextCall ==
  ASSUME NEW p \in Programs, NEW ev, WellFormed(ev), Running(ev), ~AtEnd(p, ev)
  PROVE  /\ Top(ev).name \in Routines /\ Top(ev).at \in 1 .. Len(p[Top(ev).name].ops)
         /\ Top(ev).at \in Kind(p, Top(ev).name, "gate") <=> NextOp(p, ev).kind = "gate"
         /\ Top(ev).at \in Calls(p, Top(ev).name) <=> NextOp(p, ev).kind = "routine"
<1>1. ev \in EvaluatorSet /\ Top(ev) \in Frame
  BY DEF WellFormed, EvaluatorSet, Running, Top
<1>2. Top(ev).name \in Routines /\ Top(ev).at \in Nat \ {0}
  BY <1>1 DEF Frame
<1>3. Top(ev).at \in 1 .. Len(p[Top(ev).name].ops)
  BY <1>2, Bodies DEF AtEnd
<1> QED
  BY <1>2, <1>3 DEF Kind, Calls, NextOp

(* A step within a scope: the innermost one goes on by a call, its segment *)
(* gets a gate if that is what the call was.                               *)
GoesOn(p, ev, new) ==
  LET f == Top(ev)
      g == Top(new)
      c == f.current_segment
  IN  /\ DOMAIN new.segments = DOMAIN ev.segments
      /\ \A s \in DOMAIN ev.segments :
           /\ new.segments[s].dfs_path = ev.segments[s].dfs_path
           /\ s # c => new.segments[s].gates = ev.segments[s].gates
      /\ Len(new.segments[c].gates)
           = IF f.at \in Kind(p, f.name, "gate") THEN Len(ev.segments[c].gates) + 1
             ELSE Len(ev.segments[c].gates)
      /\ DOMAIN new.stack = DOMAIN ev.stack
      /\ \A i \in DOMAIN ev.stack : i # 1 => new.stack[i] = ev.stack[i]
      /\ g.name = f.name /\ g.at = f.at + 1
      /\ g.dfs_prefix = f.dfs_prefix /\ g.current_segment = c
      /\ g.routine_counter = IF f.at \in Calls(p, f.name) THEN f.routine_counter + 1
                             ELSE f.routine_counter
      /\ new.err = ev.err

(* The evaluator then stands as it should.                                 *)
LEMMA RunsOn ==
  ASSUME NEW p \in Programs, NEW ev, WellFormed(ev), Running(ev), NEW P, Runs(p, ev, P),
         NEW new, GoesOn(p, ev, new), NEW R, P \subseteq R,
         Top(ev).at \in Calls(p, Top(ev).name) => ChildPrefix(ev) \in R
  PROVE  Runs(p, new, R)
<1> DEFINE f == Top(ev)
           c == f.current_segment
<1> HIDE DEF f, c
<1>1. /\ ev \in EvaluatorSet /\ 1 \in DOMAIN ev.stack /\ DOMAIN ev.stack = 1 .. Len(ev.stack)
      /\ f = ev.stack[1] /\ Top(new) = new.stack[1]
      /\ c \in DOMAIN ev.segments
  BY DEF WellFormed, EvaluatorSet, Running, Top, OwnsSegment, f, c
<1>2. /\ Stands(p, f.dfs_prefix, f.name, f.at, Len(ev.segments[c].gates), P)
      /\ f.routine_counter = CallsMade(p, f.name, f.at)
  BY <1>1 DEF Runs, FrameStands, c
<1>3. f.at \in Calls(p, f.name) => Append(f.dfs_prefix, CallsMade(p, f.name, f.at)) \in R
  BY <1>2 DEF ChildPrefix, f
<1>4. /\ DOMAIN new.segments = DOMAIN ev.segments
      /\ \A s \in DOMAIN ev.segments :
           /\ new.segments[s].dfs_path = ev.segments[s].dfs_path
           /\ s # c => new.segments[s].gates = ev.segments[s].gates
      /\ Len(new.segments[c].gates)
           = IF f.at \in Kind(p, f.name, "gate") THEN Len(ev.segments[c].gates) + 1
             ELSE Len(ev.segments[c].gates)
      /\ DOMAIN new.stack = DOMAIN ev.stack
      /\ \A i \in DOMAIN ev.stack : i # 1 => new.stack[i] = ev.stack[i]
      /\ new.err = ev.err
  BY DEF GoesOn, f, c
<1>5. /\ new.stack[1].name = f.name /\ new.stack[1].at = f.at + 1
      /\ new.stack[1].dfs_prefix = f.dfs_prefix /\ new.stack[1].current_segment = c
      /\ new.stack[1].routine_counter = IF f.at \in Calls(p, f.name) THEN f.routine_counter + 1
                                        ELSE f.routine_counter
  BY <1>1 DEF GoesOn, f, c
<1>6. \A i \in DOMAIN ev.stack : i # 1 => ev.stack[i].current_segment # c
  <2> TAKE i \in DOMAIN ev.stack
  <2> HAVE i # 1
  <2>1. i \in Nat /\ 1 < i
    BY <1>1
  <2>2. ev.stack[i].current_segment < c
    BY <2>1, <1>1 DEF WellFormed, c
  <2>3. ev.stack \in Seq(Frame)
    BY <1>1 DEF EvaluatorSet
  <2>4. ev.stack[i] \in Frame /\ ev.stack[1] \in Frame
    BY <2>3, <1>1
  <2> QED
    BY <2>2, <2>4, <1>1 DEF Frame, c
<1>7. FrameStands(p, new, 1, R)
  <2> DEFINE q == f.dfs_prefix
             n == f.name
             at == f.at
             g == Len(ev.segments[c].gates)
             h == Len(new.segments[c].gates)
  <2>1. Stands(p, q, n, at, g, P) /\ f.routine_counter = CallsMade(p, n, at)
    BY <1>2
  <2>2. at \in Calls(p, n) => Append(q, CallsMade(p, n, at)) \in R
    BY <1>3
  <2>3. h = IF at \in Kind(p, n, "gate") THEN g + 1 ELSE g
    BY <1>4
  <2>4. /\ new.stack[1].name = n /\ new.stack[1].at = at + 1
        /\ new.stack[1].dfs_prefix = q /\ new.stack[1].current_segment = c
        /\ new.stack[1].routine_counter = IF at \in Calls(p, n) THEN f.routine_counter + 1
                                          ELSE f.routine_counter
    BY <1>5
  <2>5. p \in Programs /\ P \subseteq R
    OBVIOUS
  <2> HIDE DEF q, n, at, g, h
  <2>6. /\ Stands(p, q, n, at + 1, h, R)
        /\ g \in Nat
        /\ CallsMade(p, n, at) \in Nat
        /\ CallsMade(p, n, at + 1)
             = IF at \in Calls(p, n) THEN CallsMade(p, n, at) + 1 ELSE CallsMade(p, n, at)
    BY ONLY <2>1, <2>2, <2>3, <2>5, StandsOn
  <2> QED
    BY <2>1, <2>4, <2>6 DEF FrameStands, h
<1>8. ASSUME NEW i \in DOMAIN new.stack PROVE FrameStands(p, new, i, R)
  <2>1. CASE i = 1
    BY <2>1, <1>7
  <2>2. CASE i # 1
    <3>1. /\ new.stack[i] = ev.stack[i] /\ FrameStands(p, ev, i, P)
          /\ ev.stack[i].current_segment \in DOMAIN ev.segments
          /\ ev.stack[i].current_segment # c
      BY <2>2, <1>4, <1>6 DEF Runs, WellFormed, OwnsSegment
    <3>2. new.segments[ev.stack[i].current_segment].gates = ev.segments[ev.stack[i].current_segment].gates
      BY <3>1, <1>4
    <3> QED
      BY <3>1, <3>2, StandsMore DEF FrameStands
  <2> QED
    BY <2>1, <2>2
<1>9. ASSUME NEW s \in DOMAIN new.segments PROVE SegmentRan(p, new, s, R)
  <2> SUFFICES ASSUME \A i \in DOMAIN new.stack : new.stack[i].current_segment # s, new.err = Ok
               PROVE  Ran(p, new.segments[s].dfs_path, Len(new.segments[s].gates), R)
    BY DEF SegmentRan
  <2>1. \A i \in DOMAIN ev.stack : new.stack[i].current_segment = ev.stack[i].current_segment
    <3> TAKE i \in DOMAIN ev.stack
    <3>1. CASE i = 1
      BY <3>1, <1>1, <1>5 DEF c, f
    <3>2. CASE i # 1
      BY <3>2, <1>4
    <3> QED
      BY <3>1, <3>2
  <2>2. s # c /\ s \in DOMAIN ev.segments
    BY <1>1, <1>4, <1>5
  <2>3. SegmentRan(p, ev, s, P)
    BY <2>2 DEF Runs
  <2>4. Ran(p, ev.segments[s].dfs_path, Len(ev.segments[s].gates), P)
    BY <2>1, <2>3, <1>4 DEF SegmentRan
  <2> QED
    BY <2>2, <2>4, <1>4, RanMore
<1> QED
  BY <1>8, <1>9 DEF Runs

(* What becomes of an evaluator that writes to its segment.                *)
Wrote(ev, gates, f) ==
  [ev EXCEPT !.segments[Top(ev).current_segment].gates = gates, !.stack[1] = f]

(* Of an evaluator that writes to its segment the rest stays.              *)
LEMMA Written ==
  ASSUME NEW ev, WellFormed(ev), Running(ev), NEW gates \in Seq(TraceGate), NEW f \in Frame,
         NEW new,
         new = Wrote(ev, gates, f)
  PROVE  /\ DOMAIN new.segments = DOMAIN ev.segments
         /\ \A s \in DOMAIN ev.segments :
              /\ new.segments[s].dfs_path = ev.segments[s].dfs_path
              /\ s # Top(ev).current_segment => new.segments[s].gates = ev.segments[s].gates
         /\ new.segments[Top(ev).current_segment].gates = gates
         /\ DOMAIN new.stack = DOMAIN ev.stack
         /\ \A i \in DOMAIN ev.stack : i # 1 => new.stack[i] = ev.stack[i]
         /\ Top(new) = f
         /\ new.err = ev.err
<1> DEFINE c == Top(ev).current_segment
<1>1. /\ ev \in EvaluatorSet /\ ev.stack \in Seq(Frame) /\ 1 \in 1 .. Len(ev.stack)
      /\ ev.segments \in Seq(Segment)
      /\ DOMAIN ev.stack = 1 .. Len(ev.stack)
  BY DEF WellFormed, EvaluatorSet, Running
<1>2. c \in DOMAIN ev.segments
  BY <1>1 DEF WellFormed, OwnsSegment, Top
<1>3. ev.segments[c] \in Segment
  BY <1>1, <1>2
<1>4. new.segments = [ev.segments EXCEPT ![c] = [ev.segments[c] EXCEPT !.gates = gates]]
  BY <1>1, <1>2 DEF EvaluatorSet, Wrote
<1>5. new.stack = [ev.stack EXCEPT ![1] = f] /\ new.err = ev.err
  BY <1>1 DEF EvaluatorSet, Wrote
<1> HIDE DEF c
<1>6. /\ DOMAIN new.segments = DOMAIN ev.segments
      /\ \A s \in DOMAIN ev.segments :
           /\ new.segments[s].dfs_path = ev.segments[s].dfs_path
           /\ s # c => new.segments[s].gates = ev.segments[s].gates
      /\ new.segments[c].gates = gates
  <2> DEFINE e == [ev.segments[c] EXCEPT !.gates = gates]
  <2>1. e.gates = gates /\ e.dfs_path = ev.segments[c].dfs_path
    BY <1>3 DEF Segment
  <2> HIDE DEF e
  <2>2. new.segments = [ev.segments EXCEPT ![c] = e]
    BY <1>4 DEF e
  <2>3. c \in DOMAIN ev.segments
    BY <1>2 DEF c
  <2>4. /\ DOMAIN new.segments = DOMAIN ev.segments /\ new.segments[c] = e
        /\ \A s \in DOMAIN ev.segments : s # c => new.segments[s] = ev.segments[s]
    BY <2>2, <2>3
  <2> QED
    BY <2>1, <2>4
<1>7. /\ DOMAIN new.stack = DOMAIN ev.stack
      /\ \A i \in DOMAIN ev.stack : i # 1 => new.stack[i] = ev.stack[i]
      /\ new.stack[1] = f
  BY <1>1, <1>5
<1> QED
  BY <1>5, <1>6, <1>7 DEF Top, c

(* A scope's next frame.                                                   *)
LEMMA AdvancedIs ==
  ASSUME NEW g \in Frame
  PROVE  Advanced(g).name = g.name /\ Advanced(g).at = g.at + 1
BY DEF Advanced, Frame

(* gate() is a step within its scope.                                      *)
LEMMA PushGateGoesOn ==
  ASSUME NEW p \in Programs, NEW ev, WellFormed(ev), AboutTo(p, ev, "gate")
  PROVE  GoesOn(p, ev, PushGate(ev, NextOp(p, ev)))
<1> DEFINE op    == NextOp(p, ev)
           c     == Top(ev).current_segment
           old   == ev.segments[c].gates
           gate  == [abc |-> op.val, d |-> 0]
           gates == Append(old, gate)
           token == Len(old) + 1
           g     == [Top(ev) EXCEPT !.extras = Append(@, token)]
           f     == Advanced(g)
           new   == PushGate(ev, op)
<1>0. Running(ev) /\ ~AtEnd(p, ev) /\ op.kind = "gate"
  BY DEF AboutTo
<1>1. /\ ev \in EvaluatorSet /\ Top(ev) \in Frame
      /\ c \in DOMAIN ev.segments
      /\ ev.segments[c] \in Segment
  BY <1>0 DEF WellFormed, EvaluatorSet, Running, Top, OwnsSegment
<1>2. op \in GateOp
  <2>1. op \in Op
    BY <1>0, <1>1, NextOpType
  <2> QED
    BY <2>1, <1>0 DEF Op, GateOp, AssignExtraOp, LinearOp, RoutineOp
<1>3. old \in Seq(TraceGate) /\ gate \in TraceGate
  BY <1>1, <1>2 DEF Segment, TraceGate, GateOp
<1>4. gates \in Seq(TraceGate) /\ Len(gates) = Len(old) + 1
  BY <1>3, AppendProperties
<1>5. Append(Top(ev).extras, token) \in Seq(Nat \ {0})
  <2>1. Top(ev).extras \in Seq(Nat \ {0}) /\ token \in Nat \ {0}
    BY <1>1, <1>3 DEF Frame
  <2> QED
    BY <2>1
<1>6. /\ g \in Frame /\ g.current_segment = c /\ g.dfs_prefix = Top(ev).dfs_prefix
      /\ g.routine_counter = Top(ev).routine_counter
      /\ g.name = Top(ev).name /\ g.at = Top(ev).at
  BY <1>1, <1>5 DEF Frame
<1>8. Top(ev).at \in Kind(p, Top(ev).name, "gate") /\ Top(ev).at \notin Calls(p, Top(ev).name)
  BY <1>0, NextCall
<1> HIDE DEF g, gates, new, token, gate, op, f
<1>7. new = Wrote(ev, gates, f)
  BY <1>1 DEF PushGate, SetTop, EvaluatorSet, Segment, Wrote, new, gates, f, g, gate, token, op
<1>9. /\ f \in Frame /\ f.current_segment = c /\ f.dfs_prefix = Top(ev).dfs_prefix
      /\ f.routine_counter = Top(ev).routine_counter
      /\ f.name = Top(ev).name /\ f.at = Top(ev).at + 1
  BY <1>6, AdvancedFrame, AdvancedIs DEF f
<1>10. /\ DOMAIN new.segments = DOMAIN ev.segments
       /\ \A s \in DOMAIN ev.segments :
            /\ new.segments[s].dfs_path = ev.segments[s].dfs_path
            /\ s # c => new.segments[s].gates = ev.segments[s].gates
       /\ new.segments[c].gates = gates
       /\ DOMAIN new.stack = DOMAIN ev.stack
       /\ \A i \in DOMAIN ev.stack : i # 1 => new.stack[i] = ev.stack[i]
       /\ Top(new) = f
       /\ new.err = ev.err
  BY <1>0, <1>4, <1>7, <1>9, Written
<1>11. GoesOn(p, ev, new)
  BY <1>4, <1>8, <1>9, <1>10 DEF GoesOn
<1> QED
  BY <1>11 DEF new, op

(* assign_extra() is a step within its scope.                              *)
LEMMA SetExtraGoesOn ==
  ASSUME NEW p \in Programs, NEW ev, WellFormed(ev), AboutTo(p, ev, "assign_extra")
  PROVE  GoesOn(p, ev, SetExtra(ev, NextOp(p, ev)))
<1> DEFINE op    == NextOp(p, ev)
           c     == Top(ev).current_segment
           old   == ev.segments[c].gates
           token == Top(ev).extras[op.gate]
           gates == [old EXCEPT ![token].d = op.val]
           f     == Advanced(Top(ev))
           new   == SetExtra(ev, op)
<1>0. Running(ev) /\ ~AtEnd(p, ev) /\ op.kind = "assign_extra"
  BY DEF AboutTo
<1>1. /\ ev \in EvaluatorSet /\ Top(ev) \in Frame
      /\ c \in DOMAIN ev.segments
      /\ ev.segments[c] \in Segment
  BY <1>0 DEF WellFormed, EvaluatorSet, Running, Top, OwnsSegment
<1>2. op \in AssignExtraOp
  <2>1. op \in Op
    BY <1>0, <1>1, NextOpType
  <2> QED
    BY <2>1, <1>0 DEF Op, GateOp, AssignExtraOp, LinearOp, RoutineOp
<1>3. old \in Seq(TraceGate) /\ op.val \in Nat
  BY <1>1, <1>2 DEF Segment, AssignExtraOp
<1>4. gates \in Seq(TraceGate) /\ DOMAIN gates = DOMAIN old
  <2> DEFINE e == [old[token] EXCEPT !.d = op.val]
  <2>1. token \in DOMAIN old => e \in TraceGate
    <3>1. token \in DOMAIN old => old[token] \in TraceGate
      BY <1>3
    <3> QED
      BY <3>1, <1>3 DEF TraceGate
  <2>2. gates = [old EXCEPT ![token] = e]
    OBVIOUS
  <2> HIDE DEF e, old, gates, token
  <2> QED
    BY <2>1, <2>2, <1>3, ExceptAnywhere
<1>6. Top(ev).at \notin Kind(p, Top(ev).name, "gate") /\ Top(ev).at \notin Calls(p, Top(ev).name)
  BY <1>0, NextCall
<1> HIDE DEF gates, new, f, token
<1>5. new = Wrote(ev, gates, f)
  BY <1>1 DEF SetExtra, SetTop, EvaluatorSet, Segment, Wrote, new, gates, f, token
<1>7. /\ f \in Frame /\ f.current_segment = c /\ f.dfs_prefix = Top(ev).dfs_prefix
      /\ f.routine_counter = Top(ev).routine_counter
      /\ f.name = Top(ev).name /\ f.at = Top(ev).at + 1
  BY <1>1, AdvancedFrame, AdvancedIs DEF f
<1> HIDE DEF old, op
<1>8. Len(gates) = Len(old)
  BY <1>3, <1>4, LenProperties
<1>9. /\ DOMAIN new.segments = DOMAIN ev.segments
      /\ \A s \in DOMAIN ev.segments :
           /\ new.segments[s].dfs_path = ev.segments[s].dfs_path
           /\ s # c => new.segments[s].gates = ev.segments[s].gates
      /\ new.segments[c].gates = gates
      /\ DOMAIN new.stack = DOMAIN ev.stack
      /\ \A i \in DOMAIN ev.stack : i # 1 => new.stack[i] = ev.stack[i]
      /\ Top(new) = f
      /\ new.err = ev.err
  BY <1>0, <1>4, <1>5, <1>7, Written
<1>10. GoesOn(p, ev, new)
  BY <1>6, <1>7, <1>8, <1>9 DEF GoesOn, old
<1> QED
  BY <1>10 DEF new, op

(* A step that writes nothing is one within its scope, if its next frame   *)
(* is.                                                                     *)
LEMMA SetTopGoesOn ==
  ASSUME NEW p \in Programs, NEW ev, WellFormed(ev), Running(ev), NEW f,
         f.name = Top(ev).name, f.at = Top(ev).at + 1,
         f.dfs_prefix = Top(ev).dfs_prefix, f.current_segment = Top(ev).current_segment,
         f.routine_counter = IF Top(ev).at \in Calls(p, Top(ev).name) THEN Top(ev).routine_counter + 1
                             ELSE Top(ev).routine_counter,
         Top(ev).at \notin Kind(p, Top(ev).name, "gate")
  PROVE  GoesOn(p, ev, SetTop(ev, f))
<1> DEFINE new == SetTop(ev, f)
<1>1. /\ ev \in EvaluatorSet /\ ev.stack \in Seq(Frame) /\ 1 \in DOMAIN ev.stack
  BY DEF WellFormed, EvaluatorSet, Running
<1>2. new.stack = [ev.stack EXCEPT ![1] = f] /\ new.segments = ev.segments /\ new.err = ev.err
  BY <1>1 DEF SetTop, EvaluatorSet
<1> HIDE DEF new
<1>3. /\ DOMAIN new.stack = DOMAIN ev.stack /\ Top(new) = f
      /\ \A i \in DOMAIN ev.stack : i # 1 => new.stack[i] = ev.stack[i]
  BY <1>1, <1>2 DEF Top
<1>4. GoesOn(p, ev, new)
  BY <1>2, <1>3 DEF GoesOn
<1> QED
  BY <1>4 DEF new

(* add() and enforce_zero() are steps within their scope.                  *)
LEMMA IgnoreGoesOn ==
  ASSUME NEW p \in Programs, NEW ev, WellFormed(ev),
         AboutTo(p, ev, "add") \/ AboutTo(p, ev, "enforce_zero")
  PROVE  GoesOn(p, ev, Ignore(ev))
<1>1. /\ Running(ev) /\ ~AtEnd(p, ev)
      /\ NextOp(p, ev).kind = "add" \/ NextOp(p, ev).kind = "enforce_zero"
  BY DEF AboutTo
<1>2. Top(ev) \in Frame
  BY <1>1 DEF WellFormed, EvaluatorSet, Running, Top
<1>3. Top(ev).at \notin Kind(p, Top(ev).name, "gate") /\ Top(ev).at \notin Calls(p, Top(ev).name)
  BY <1>1, NextCall
<1> DEFINE f == Advanced(Top(ev))
<1>4. /\ f.current_segment = Top(ev).current_segment /\ f.dfs_prefix = Top(ev).dfs_prefix
      /\ f.routine_counter = Top(ev).routine_counter
      /\ f.name = Top(ev).name /\ f.at = Top(ev).at + 1
  BY <1>2, AdvancedFrame, AdvancedIs
<1> HIDE DEF f
<1>5. GoesOn(p, ev, SetTop(ev, f))
  BY <1>1, <1>3, <1>4, SetTopGoesOn
<1> QED
  BY <1>5 DEF Ignore, f

(* For the caller, routine() is a step within its scope.                   *)
LEMMA DeferGoesOn ==
  ASSUME NEW p \in Programs, NEW ev, WellFormed(ev), AboutTo(p, ev, "routine")
  PROVE  GoesOn(p, ev, DeferRoutine(ev))
<1>1. Running(ev) /\ ~AtEnd(p, ev) /\ NextOp(p, ev).kind = "routine"
  BY DEF AboutTo
<1>2. Top(ev) \in Frame
  BY <1>1 DEF WellFormed, EvaluatorSet, Running, Top
<1>3. Top(ev).at \notin Kind(p, Top(ev).name, "gate") /\ Top(ev).at \in Calls(p, Top(ev).name)
  BY <1>1, NextCall
<1> DEFINE f == Counted(Top(ev))
<1>4. /\ f.current_segment = Top(ev).current_segment /\ f.dfs_prefix = Top(ev).dfs_prefix
      /\ f.routine_counter = Top(ev).routine_counter + 1
      /\ f.name = Top(ev).name /\ f.at = Top(ev).at + 1
  BY <1>2, CountedFrame DEF Counted, Advanced, Frame
<1> HIDE DEF f
<1>5. GoesOn(p, ev, SetTop(ev, f))
  BY <1>1, <1>3, <1>4, SetTopGoesOn
<1> QED
  BY <1>5 DEF DeferRoutine, f

(* The path of the next call is that of the body it runs.                  *)
LEMMA ChildCalled ==
  ASSUME NEW p \in Programs, NEW ev, WellFormed(ev), AboutTo(p, ev, "routine"), NEW P, Runs(p, ev, P)
  PROVE  /\ CalledAs(p, ChildPrefix(ev), NextOp(p, ev).name)
         /\ ChildPrefix(ev) \in Path /\ ChildPrefix(ev) # <<>>
<1>1. Running(ev) /\ ~AtEnd(p, ev) /\ NextOp(p, ev).kind = "routine"
  BY DEF AboutTo
<1>2. 1 \in DOMAIN ev.stack
  BY <1>1 DEF WellFormed, EvaluatorSet, Running
<1>3. Top(ev).at \in Calls(p, Top(ev).name)
  BY <1>1, NextCall
<1>4. /\ CalledAs(p, Top(ev).dfs_prefix, Top(ev).name)
      /\ Top(ev).routine_counter = CallsMade(p, Top(ev).name, Top(ev).at)
  BY <1>2 DEF Runs, FrameStands, Stands, Top
<1>5. CalledAs(p, Append(Top(ev).dfs_prefix, CallsMade(p, Top(ev).name, Top(ev).at)),
               p[Top(ev).name].ops[Top(ev).at].name)
  BY <1>3, <1>4, CalledOn
<1>6. ChildPrefix(ev) \in Path /\ Len(ChildPrefix(ev)) = Len(Top(ev).dfs_prefix) + 1
      /\ Top(ev).dfs_prefix \in Path
  BY <1>1, <1>4, ChildPrefixType DEF CalledAs
<1>7. ChildPrefix(ev) # <<>>
  BY <1>6 DEF Path
<1> QED
  BY <1>4, <1>5, <1>6, <1>7 DEF ChildPrefix, NextOp

(* A new segment has only what it starts with.                             *)
LEMMA NewSegmentIs ==
  ASSUME NEW q
  PROVE  Len(NewSegment(q).gates) = Base(q) /\ NewSegment(q).dfs_path = q
BY DEF NewSegment, Base

(* An evaluator starts before the first call of its body.                  *)
LEMMA RunsNew ==
  ASSUME NEW p \in Programs, NEW q, NEW n, CalledAs(p, q, n), NEW P
  PROVE  Runs(p, NewEvaluator(n, q), P)
<1> DEFINE ev == NewEvaluator(n, q)
<1>1. /\ ev.stack[1] = NewFrame(n, 1, q) /\ DOMAIN ev.stack = {1}
      /\ ev.segments[1] = NewSegment(q) /\ DOMAIN ev.segments = {1}
  BY DEF NewEvaluator
<1>2. /\ ev.stack[1].name = n /\ ev.stack[1].at = 1 /\ ev.stack[1].current_segment = 1
      /\ ev.stack[1].routine_counter = 0 /\ ev.stack[1].dfs_prefix = q
  BY <1>1 DEF NewFrame
<1> HIDE DEF ev
<1>3. Stands(p, q, n, 1, Base(q), P) /\ CallsMade(p, n, 1) = 0
  BY StandsFirst
<1>4. Len(ev.segments[1].gates) = Base(q)
  BY <1>1, NewSegmentIs
<1>5. FrameStands(p, ev, 1, P)
  BY <1>2, <1>3, <1>4 DEF FrameStands
<1>6. Runs(p, ev, P)
  BY <1>1, <1>2, <1>5 DEF Runs, SegmentRan
<1> QED
  BY <1>6 DEF ev

(* An evaluator that enters a routine stands before its first call, in a   *)
(* segment of its own.                                                     *)
LEMMA RunsEnter ==
  ASSUME NEW p \in Programs, NEW ev, WellFormed(ev), AboutTo(p, ev, "routine"), NEW P, Runs(p, ev, P),
         NEW R, P \subseteq R, ChildPrefix(ev) \in R
  PROVE  Runs(p, EnterRoutine(ev, NextOp(p, ev)), R)
<1> DEFINE op  == NextOp(p, ev)
           mid == DeferRoutine(ev)
           new == EnterRoutine(ev, op)
           q   == ChildPrefix(ev)
           n   == Len(mid.segments)
           inner == NewFrame(op.name, n + 1, q)
<1> HIDE DEF op, mid, new, q, n, inner
<1>1. Running(ev) /\ ~AtEnd(p, ev)
  BY DEF AboutTo
<1>2. WellFormed(mid) /\ GoesOn(p, ev, mid)
  BY <1>1, DeferStep, DeferGoesOn DEF mid
<1>3. Runs(p, mid, R)
  BY <1>1, <1>2, RunsOn
<1>4. /\ mid \in EvaluatorSet /\ mid.stack \in Seq(Frame) /\ mid.segments \in Seq(Segment)
      /\ DOMAIN mid.segments = 1 .. n /\ n \in Nat
      /\ \A i \in DOMAIN mid.stack : mid.stack[i].current_segment \in 1 .. n
  BY <1>2 DEF WellFormed, EvaluatorSet, OwnsSegment, n
<1>5. /\ new.segments = Append(mid.segments, NewSegment(q))
      /\ new.stack = <<inner>> \o mid.stack
      /\ new.err = mid.err
  <2>1. ev \in EvaluatorSet
    BY DEF WellFormed
  <2>2. mid.segments = ev.segments /\ mid.stack = [ev.stack EXCEPT ![1] = Counted(Top(ev))] /\ mid.err = ev.err
    BY <2>1 DEF mid, DeferRoutine, SetTop, EvaluatorSet
  <2> QED
    BY <2>1, <2>2 DEF new, EnterRoutine, inner, q, n, EvaluatorSet
<1>6. CalledAs(p, q, op.name) /\ q # <<>> /\ q \in Path
  BY ChildCalled DEF q, op
<1>7. /\ DOMAIN new.segments = 1 .. n + 1 /\ new.segments[n + 1] = NewSegment(q)
      /\ \A s \in 1 .. n : new.segments[s] = mid.segments[s]
  <2>1. NewSegment(q) \in Segment
    BY <1>6, NewSegmentType
  <2> QED
    BY <2>1, <1>4, <1>5, AppendProperties DEF n
<1>8. /\ DOMAIN new.stack = 1 .. Len(mid.stack) + 1 /\ new.stack[1] = inner
      /\ Len(mid.stack) \in Nat /\ DOMAIN mid.stack = 1 .. Len(mid.stack)
      /\ \A k \in 1 .. Len(mid.stack) : new.stack[k + 1] = mid.stack[k]
  <2>1. IsList(mid.stack)
    BY <1>4, ListOf
  <2>2. Len(mid.stack) \in Nat /\ DOMAIN mid.stack = 1 .. Len(mid.stack)
    BY <2>1, ListIs
  <2>3. /\ IsList(<<inner>> \o mid.stack) /\ Len(<<inner>> \o mid.stack) = Len(mid.stack) + 1
        /\ DOMAIN (<<inner>> \o mid.stack) = 1 .. Len(mid.stack) + 1
        /\ (<<inner>> \o mid.stack)[1] = inner
        /\ \A k \in 1 .. Len(mid.stack) : (<<inner>> \o mid.stack)[k + 1] = mid.stack[k]
        /\ Tail(<<inner>> \o mid.stack) = mid.stack
    BY <2>1, Pushed
  <2> QED
    BY <2>2, <2>3, <1>5
<1>9. /\ inner.name = op.name /\ inner.at = 1 /\ inner.current_segment = n + 1
      /\ inner.routine_counter = 0 /\ inner.dfs_prefix = q
  BY DEF inner, NewFrame
<1>10. ASSUME NEW i \in DOMAIN new.stack, i # 1
       PROVE  i - 1 \in DOMAIN mid.stack /\ new.stack[i] = mid.stack[i - 1]
  <2>1. i - 1 \in 1 .. Len(mid.stack) /\ (i - 1) + 1 = i
    BY <1>8, <1>10
  <2>2. new.stack[(i - 1) + 1] = mid.stack[i - 1]
    BY <2>1, <1>8
  <2> QED
    BY <2>1, <2>2, <1>8
<1>11. ASSUME NEW i \in DOMAIN new.stack PROVE FrameStands(p, new, i, R)
  <2>1. CASE i = 1
    <3>1. Stands(p, q, op.name, 1, Base(q), R) /\ CallsMade(p, op.name, 1) = 0
      BY <1>6, StandsFirst
    <3>2. Len(new.segments[n + 1].gates) = Base(q)
      BY <1>7, NewSegmentIs
    <3> QED
      BY <2>1, <3>1, <3>2, <1>8, <1>9 DEF FrameStands
  <2>2. CASE i # 1
    <3>1. i - 1 \in DOMAIN mid.stack /\ new.stack[i] = mid.stack[i - 1]
      BY <2>2, <1>10
    <3>2. FrameStands(p, mid, i - 1, R) /\ mid.stack[i - 1].current_segment \in 1 .. n
      BY <3>1, <1>3, <1>4 DEF Runs
    <3> QED
      BY <3>1, <3>2, <1>7 DEF FrameStands
  <2> QED
    BY <2>1, <2>2
<1>12. ASSUME NEW s \in DOMAIN new.segments PROVE SegmentRan(p, new, s, R)
  <2> SUFFICES ASSUME \A i \in DOMAIN new.stack : new.stack[i].current_segment # s, new.err = Ok
               PROVE  Ran(p, new.segments[s].dfs_path, Len(new.segments[s].gates), R)
    BY DEF SegmentRan
  <2>1. s # n + 1
    BY <1>8, <1>9
  <2>2. s \in 1 .. n
    BY <2>1, <1>4, <1>7
  <2>3. \A k \in DOMAIN mid.stack : mid.stack[k].current_segment # s
    <3> TAKE k \in DOMAIN mid.stack
    <3>1. k + 1 \in DOMAIN new.stack /\ new.stack[k + 1] = mid.stack[k]
      BY <1>8
    <3> QED
      BY <3>1
  <2>4. SegmentRan(p, mid, s, R)
    BY <2>2, <1>3, <1>4 DEF Runs
  <2> QED
    BY <2>2, <2>3, <2>4, <1>5, <1>7 DEF SegmentRan
<1>13. Runs(p, new, R)
  BY <1>11, <1>12 DEF Runs
<1> QED
  BY <1>13 DEF new, op

(* An evaluator whose body returns has run its segment.                    *)
LEMMA RunsLeave ==
  ASSUME NEW p \in Programs, NEW ev, WellFormed(ev), Running(ev), AtEnd(p, ev), NEW P, Runs(p, ev, P)
  PROVE  Runs(p, LeaveScope(ev), P)
<1> DEFINE new == LeaveScope(ev)
<1>1. ev \in EvaluatorSet /\ ev.stack \in Seq(Frame) /\ ev.stack # <<>>
  BY DEF WellFormed, EvaluatorSet, Running
<1>2. /\ new.stack = Tail(ev.stack)
      /\ new.segments = ev.segments /\ new.err = ev.err
  BY <1>1 DEF LeaveScope, EvaluatorSet
<1> HIDE DEF new
<1>3. /\ DOMAIN new.stack = 1 .. Len(ev.stack) - 1
      /\ DOMAIN ev.stack = 1 .. Len(ev.stack)
      /\ Len(ev.stack) \in Nat \ {0}
      /\ \A i \in DOMAIN new.stack : i + 1 \in DOMAIN ev.stack /\ new.stack[i] = ev.stack[i + 1]
  <2>1. /\ Tail(ev.stack) \in Seq(Frame) /\ Len(Tail(ev.stack)) = Len(ev.stack) - 1
        /\ \A i \in 1 .. Len(Tail(ev.stack)) : Tail(ev.stack)[i] = ev.stack[i + 1]
    BY <1>1, HeadTailProperties
  <2>2. DOMAIN new.stack = 1 .. Len(ev.stack) - 1 /\ DOMAIN ev.stack = 1 .. Len(ev.stack)
        /\ Len(ev.stack) \in Nat \ {0}
    BY <2>1, <1>1, <1>2
  <2> QED
    BY <2>1, <2>2, <1>2
<1>4. \A i \in DOMAIN new.stack : FrameStands(p, new, i, P)
  BY <1>2, <1>3 DEF Runs, FrameStands
<1>5. ASSUME NEW s \in DOMAIN new.segments PROVE SegmentRan(p, new, s, P)
  <2> SUFFICES ASSUME \A i \in DOMAIN new.stack : new.stack[i].current_segment # s, new.err = Ok
               PROVE  Ran(p, new.segments[s].dfs_path, Len(new.segments[s].gates), P)
    BY DEF SegmentRan
  <2>1. SegmentRan(p, ev, s, P)
    BY <1>2 DEF Runs
  <2>2. CASE Top(ev).current_segment = s
    <3>1. 1 \in DOMAIN ev.stack
      BY <1>3
    <3>2. /\ Stands(p, Top(ev).dfs_prefix, Top(ev).name, Top(ev).at, Len(ev.segments[s].gates), P)
          /\ ev.segments[s].dfs_path = Top(ev).dfs_prefix
      BY <3>1, <2>2 DEF Runs, FrameStands, Top, WellFormed, OwnsSegment
    <3>3. Ran(p, Top(ev).dfs_prefix, Len(ev.segments[s].gates), P)
      BY <3>2, StandsEnd DEF AtEnd
    <3> QED
      BY <3>2, <3>3, <1>2
  <2>3. CASE Top(ev).current_segment # s
    <3>1. \A i \in DOMAIN ev.stack : ev.stack[i].current_segment # s
      <4> TAKE i \in DOMAIN ev.stack
      <4>1. CASE i = 1
        BY <4>1, <2>3 DEF Top
      <4>2. CASE i # 1
        <5>1. i - 1 \in DOMAIN new.stack /\ (i - 1) + 1 = i
          BY <4>2, <1>3
        <5>2. new.stack[i - 1] = ev.stack[(i - 1) + 1]
          BY <5>1, <1>3
        <5> QED
          BY <5>1, <5>2
      <4> QED
        BY <4>1, <4>2
    <3> QED
      BY <3>1, <2>1, <1>2 DEF SegmentRan
  <2> QED
    BY <2>2, <2>3
<1>6. Runs(p, new, P)
  BY <1>4, <1>5 DEF Runs
<1> QED
  BY <1>6 DEF new

(* An evaluator that fails is asked nothing more.                          *)
LEMMA RunsUnwind ==
  ASSUME NEW p, NEW ev, WellFormed(ev), NEW e, e # Ok, NEW P
  PROVE  Runs(p, Unwind(ev, e), P)
<1>1. Unwind(ev, e).err = e /\ DOMAIN Unwind(ev, e).stack = {}
  BY DEF WellFormed, EvaluatorSet, Unwind
<1> QED
  BY <1>1 DEF Runs, SegmentRan

(* A task's step loses no path.                                            *)
LEMMA PathsKept ==
  ASSUME NEW t \in DOMAIN tasks, t \in DOMAIN tasks', DOMAIN tasks \subseteq DOMAIN tasks',
         \A u \in DOMAIN tasks : u # t => tasks'[u] = tasks[u],
         \A s \in DOMAIN tasks[t].segments :
           s \in DOMAIN tasks'[t].segments
             /\ tasks'[t].segments[s].dfs_path = tasks[t].segments[s].dfs_path
  PROVE  AllPaths \subseteq AllPaths'
<1> SUFFICES ASSUME NEW q \in AllPaths PROVE q \in AllPaths'
  OBVIOUS
<1>0. PICK u \in DOMAIN tasks : \E s \in DOMAIN tasks[u].segments : q = tasks[u].segments[s].dfs_path
  BY DEF AllPaths
<1>1. PICK s \in DOMAIN tasks[u].segments : q = tasks[u].segments[s].dfs_path
  BY <1>0
<1>2. u \in DOMAIN tasks' /\ s \in DOMAIN tasks'[u].segments
        /\ q = tasks'[u].segments[s].dfs_path
  BY <1>1
<1> QED
  BY <1>2 DEF AllPaths

(* A step of one task.                                                     *)
LEMMA StepRuns ==
  ASSUME TraceRuns, NEW t \in DOMAIN tasks, NEW new, Step(t, new),
         \A s \in DOMAIN tasks[t].segments :
           s \in DOMAIN new.segments /\ new.segments[s].dfs_path = tasks[t].segments[s].dfs_path,
         AllPaths \subseteq AllPaths' => Runs(prog, new, AllPaths')
  PROVE  TraceRuns'
<1>1. /\ DOMAIN tasks' = DOMAIN tasks /\ tasks'[t] = new /\ prog' = prog
      /\ \A u \in DOMAIN tasks : u # t => tasks'[u] = tasks[u]
  BY DEF Step
<1>2. AllPaths \subseteq AllPaths'
  BY <1>1, PathsKept
<1>3. ASSUME NEW u \in DOMAIN tasks' PROVE Runs(prog, tasks'[u], AllPaths')
  <2>1. CASE u = t
    BY <2>1, <1>1, <1>2
  <2>2. CASE u # t
    <3>1. tasks'[u] = tasks[u] /\ Runs(prog, tasks[u], AllPaths)
      BY <2>2, <1>1 DEF TraceRuns
    <3> QED
      BY <3>1, <1>2, RunsMore
  <2> QED
    BY <2>1, <2>2
<1> QED
  BY <1>1, <1>3 DEF TraceRuns

(* A step within a scope.                                                  *)
LEMMA GoesOnRuns ==
  ASSUME prog \in Programs, TraceRuns, NEW t \in DOMAIN tasks, WellFormed(tasks[t]), Running(tasks[t]),
         NEW new, Step(t, new), GoesOn(prog, tasks[t], new),
         Top(tasks[t]).at \notin Calls(prog, Top(tasks[t]).name)
  PROVE  TraceRuns'
<1>1. Runs(prog, tasks[t], AllPaths)
  BY DEF TraceRuns
<1>2. AllPaths \subseteq AllPaths' => Runs(prog, new, AllPaths')
  BY <1>1, RunsOn
<1>3. \A s \in DOMAIN tasks[t].segments :
        s \in DOMAIN new.segments /\ new.segments[s].dfs_path = tasks[t].segments[s].dfs_path
  BY DEF GoesOn
<1> QED
  BY <1>2, <1>3, StepRuns

(* A routine executed in its caller's task.                                *)
LEMMA ExecutesRuns ==
  ASSUME prog \in Programs, TraceRuns, NEW t \in DOMAIN tasks, WellFormed(tasks[t]), Executes(t)
  PROVE  TraceRuns'
<1> DEFINE op  == NextOp(prog, tasks[t])
           new == EnterRoutine(tasks[t], op)
           n   == Len(tasks[t].segments)
<1>1. AboutTo(prog, tasks[t], "routine") /\ Step(t, new)
  BY DEF Executes
<1>2. Running(tasks[t]) /\ ~AtEnd(prog, tasks[t]) /\ op.kind = "routine"
  BY <1>1 DEF AboutTo
<1>3. op \in RoutineOp
  <2>1. op \in Op
    BY <1>2, NextOpType DEF WellFormed
  <2> QED
    BY <2>1, <1>2 DEF Op, GateOp, AssignExtraOp, LinearOp, RoutineOp
<1> HIDE DEF op
<1>4. /\ DOMAIN tasks[t].segments = 1 .. n /\ DOMAIN new.segments = 1 .. n + 1
      /\ \A s \in 1 .. n : new.segments[s] = tasks[t].segments[s]
      /\ new.segments[n + 1].dfs_path = ChildPrefix(tasks[t])
  BY <1>2, <1>3, EnterRoutineStep
<1>5. n \in Nat
  BY DEF WellFormed, EvaluatorSet
<1>6. \A s \in DOMAIN tasks[t].segments :
        s \in DOMAIN new.segments /\ new.segments[s].dfs_path = tasks[t].segments[s].dfs_path
  BY <1>4, <1>5
<1>7. ChildPrefix(tasks[t]) \in AllPaths'
  <2> HIDE DEF new, n
  <2>1. t \in DOMAIN tasks' /\ tasks'[t] = new
    BY <1>1 DEF Step
  <2>2. n + 1 \in DOMAIN new.segments
    BY <1>4, <1>5
  <2> QED
    BY <2>1, <2>2, <1>4 DEF AllPaths
<1>8. Runs(prog, tasks[t], AllPaths)
  BY DEF TraceRuns
<1>9. AllPaths \subseteq AllPaths' => Runs(prog, new, AllPaths')
  BY <1>1, <1>7, <1>8, RunsEnter DEF op
<1> HIDE DEF new
<1> QED
  BY <1>1, <1>6, <1>9, StepRuns

(* A routine given to a task of its own.                                   *)
LEMMA SpawnsRuns ==
  ASSUME prog \in Programs, Numbering, TraceRuns, NEW t \in DOMAIN tasks, WellFormed(tasks[t]), Spawns(t)
  PROVE  TraceRuns'
<1> DEFINE op    == NextOp(prog, tasks[t])
           child == ChildPrefix(tasks[t])
           new   == DeferRoutine(tasks[t])
           ev    == NewEvaluator(op.name, child)
<1>1. /\ AboutTo(prog, tasks[t], "routine") /\ prog' = prog
      /\ tasks' = [u \in DOMAIN tasks \union {child} |->
                     IF u = child THEN ev ELSE IF u = t THEN new ELSE tasks[u]]
  BY DEF Spawns
<1>2. Running(tasks[t]) /\ ~AtEnd(prog, tasks[t]) /\ Runs(prog, tasks[t], AllPaths)
  BY <1>1 DEF AboutTo, TraceRuns
<1>3. CalledAs(prog, child, op.name)
  BY <1>1, <1>2, ChildCalled
<1>4. GoesOn(prog, tasks[t], new)
  BY <1>1, DeferGoesOn
<1>5. child \notin DOMAIN tasks
  <2> SUFFICES ASSUME child \in DOMAIN tasks PROVE FALSE
    OBVIOUS
  <2>1. 1 \in DOMAIN tasks[child].segments /\ PathOf(child, 1) = child
    BY DEF Numbering, TasksWellFormed, PathOf
  <2> QED
    BY <2>1, <1>2, ChildFresh
<1>6. 1 \in DOMAIN ev.segments /\ ev.segments[1].dfs_path = child
  BY NewSegmentIs DEF NewEvaluator
<1> HIDE DEF op, child, new, ev
<1>7. /\ DOMAIN tasks' = DOMAIN tasks \union {child} /\ tasks'[t] = new /\ tasks'[child] = ev
      /\ \A u \in DOMAIN tasks : u # t => tasks'[u] = tasks[u]
  BY <1>1, <1>5
<1>8. AllPaths \subseteq AllPaths'
  <2>1. \A s \in DOMAIN tasks[t].segments :
          s \in DOMAIN tasks'[t].segments
            /\ tasks'[t].segments[s].dfs_path = tasks[t].segments[s].dfs_path
    BY <1>4, <1>7 DEF GoesOn
  <2> QED
    BY <2>1, <1>7, PathsKept
<1>9. child \in AllPaths'
  BY <1>6, <1>7 DEF AllPaths
<1>10. Runs(prog, new, AllPaths')
  BY <1>2, <1>4, <1>8, <1>9, RunsOn DEF child
<1>11. Runs(prog, ev, AllPaths')
  BY <1>3, RunsNew DEF ev
<1>12. ASSUME NEW u \in DOMAIN tasks' PROVE Runs(prog, tasks'[u], AllPaths')
  <2>1. CASE u = child
    BY <2>1, <1>7, <1>11
  <2>2. CASE u = t
    BY <2>2, <1>7, <1>10
  <2>3. CASE u # child /\ u # t
    <3>1. tasks'[u] = tasks[u] /\ Runs(prog, tasks[u], AllPaths)
      BY <2>3, <1>7 DEF TraceRuns
    <3> QED
      BY <3>1, <1>8, RunsMore
  <2> QED
    BY <2>1, <2>2, <2>3
<1> QED
  BY <1>1, <1>12 DEF TraceRuns

(* The steps of the tasks.                                                 *)
LEMMA TaskStepRuns ==
  ASSUME IInv, TraceRuns, NEW t \in DOMAIN tasks, TaskStep(t)
  PROVE  TraceRuns'
<1>1. prog \in Programs /\ Numbering /\ WellFormed(tasks[t])
  BY DEF IInv, TypeOK, Numbering, TasksWellFormed
<1>2. CASE Gates(t)
  <2>1. AboutTo(prog, tasks[t], "gate") /\ Step(t, PushGate(tasks[t], NextOp(prog, tasks[t])))
    BY <1>2 DEF Gates
  <2>2. Running(tasks[t]) /\ Top(tasks[t]).at \notin Calls(prog, Top(tasks[t]).name)
    BY <2>1, <1>1, NextCall DEF AboutTo
  <2> QED
    BY <2>1, <2>2, <1>1, PushGateGoesOn, GoesOnRuns
<1>3. CASE AssignsExtra(t)
  <2>1. AboutTo(prog, tasks[t], "assign_extra") /\ Step(t, SetExtra(tasks[t], NextOp(prog, tasks[t])))
    BY <1>3 DEF AssignsExtra
  <2>2. Running(tasks[t]) /\ Top(tasks[t]).at \notin Calls(prog, Top(tasks[t]).name)
    BY <2>1, <1>1, NextCall DEF AboutTo
  <2> QED
    BY <2>1, <2>2, <1>1, SetExtraGoesOn, GoesOnRuns
<1>4. CASE AddsOrEnforces(t)
  <2>1. /\ AboutTo(prog, tasks[t], "add") \/ AboutTo(prog, tasks[t], "enforce_zero")
        /\ Step(t, Ignore(tasks[t]))
    BY <1>4 DEF AddsOrEnforces
  <2>2. Running(tasks[t]) /\ Top(tasks[t]).at \notin Calls(prog, Top(tasks[t]).name)
    BY <2>1, <1>1, NextCall DEF AboutTo
  <2> QED
    BY <2>1, <2>2, <1>1, IgnoreGoesOn, GoesOnRuns
<1>5. CASE Executes(t)
  BY <1>5, <1>1, ExecutesRuns
<1>6. CASE Spawns(t)
  BY <1>6, <1>1, SpawnsRuns
<1>7. CASE Fails(t)
  <2> DEFINE e == NextOp(prog, tasks[t]).err
             new == Unwind(tasks[t], e)
  <2>1. e # Ok /\ Step(t, new)
    BY <1>7 DEF Fails
  <2>2. Runs(prog, new, AllPaths')
    BY <2>1, <1>1, RunsUnwind
  <2>3. new.segments = tasks[t].segments
    BY <1>1 DEF WellFormed, EvaluatorSet, Unwind
  <2> HIDE DEF new
  <2> QED
    BY <2>1, <2>2, <2>3, StepRuns
<1>8. CASE Returns(t)
  <2> DEFINE new == LeaveScope(tasks[t])
  <2>1. Running(tasks[t]) /\ AtEnd(prog, tasks[t]) /\ Step(t, new)
    BY <1>8 DEF Returns
  <2>2. Runs(prog, new, AllPaths)
    BY <2>1, <1>1, RunsLeave DEF TraceRuns
  <2>3. new.segments = tasks[t].segments
    BY <1>1 DEF WellFormed, EvaluatorSet, LeaveScope
  <2> HIDE DEF new
  <2>4. AllPaths \subseteq AllPaths' => Runs(prog, new, AllPaths')
    BY <2>2, RunsMore
  <2> QED
    BY <2>1, <2>3, <2>4, StepRuns
<1>9. CASE Ends(t)
  BY <1>9 DEF Ends, TraceRuns, AllPaths
<1> QED
  BY <1>2, <1>3, <1>4, <1>5, <1>6, <1>7, <1>8, <1>9 DEF TaskStep

(* The evaluation, however its tasks are scheduled.                        *)
LEMMA TraceRunsKept == IInv /\ TraceRuns /\ [Next]_vars => TraceRuns'
<1> SUFFICES ASSUME IInv, TraceRuns, [Next]_vars PROVE TraceRuns'
  OBVIOUS
<1>1. CASE \E t \in DOMAIN tasks : TaskStep(t)
  BY <1>1, TaskStepRuns
<1>2. CASE UNCHANGED <<prog, tasks>>
  BY <1>2 DEF TraceRuns, AllPaths
<1> QED
  BY <1>1, <1>2 DEF Next, vars, LeaveRayonScope, Receive, Finish, Returned

(* It starts with the circuit before its first call.                       *)
LEMMA TraceRunsStart == Init => TraceRuns
<1> SUFFICES ASSUME Init PROVE TraceRuns
  OBVIOUS
<1>1. prog \in Programs /\ tasks = [t \in {Root} |-> NewEvaluator(Main, Root)]
  BY DEF Init
<1>2. CalledAs(prog, Root, Main)
  BY <1>1, CalledStarts DEF Root
<1>3. Runs(prog, NewEvaluator(Main, Root), AllPaths)
  BY <1>1, <1>2, RunsNew
<1> QED
  BY <1>1, <1>3 DEF TraceRuns
-----------------------------------------------------------------------------
(* What the evaluation leaves: a list of segments in depth-first order, of *)
(* every body that runs, each with the gates of its body.                  *)
Traced(p, list) ==
  /\ list \in Seq(Segment)
  /\ InOrder(list)
  /\ { list[i].dfs_path : i \in DOMAIN list } = CalledPaths(p)
  /\ \A i \in DOMAIN list : Ran(p, list[i].dfs_path, Len(list[i].gates), CalledPaths(p))

ResultTyped == result.segments \in Seq(Segment)
TraceInv == IInv /\ DeliveryInv /\ TraceRuns /\ ResultTyped

(* A sorted list is a list of segments.                                    *)
LEMMA SortedType ==
  ASSUME NEW list \in Seq(Segment), Apart(list), NEW u \in Sorted(list)
  PROVE  u \in Seq(Segment)
<1> DEFINE at(k) == CHOOSE i \in DOMAIN list : Rank(list, i) = k
<1>1. u = Ranked(list)
  BY SortedIs
<1>2. DOMAIN list = 1 .. Len(list) /\ Len(list) \in Nat
  BY PathsOf
<1>3. ASSUME NEW k \in DOMAIN list PROVE list[at(k)] \in Segment
  <2>1. at(k) \in DOMAIN list
    BY RankTaken
  <2> HIDE DEF at
  <2> QED
    BY <2>1
<1>4. u = [k \in 1 .. Len(list) |-> list[at(k)]]
  BY <1>1, <1>2 DEF Ranked
<1> HIDE DEF at
<1>5. u \in [1 .. Len(list) -> Segment]
  BY <1>2, <1>3, <1>4
<1> QED
  BY <1>2, <1>5

(* What eval returns is a list of segments.                                *)
LEMMA ResultTypedKept == IInv /\ DeliveryInv /\ ResultTyped /\ [Next]_vars => ResultTyped'
<1> SUFFICES ASSUME IInv, DeliveryInv, ResultTyped, [Next]_vars PROVE ResultTyped'
  OBVIOUS
<1>1. <<>> \in Seq(Segment) /\ collected \in Seq(Segment) /\ channel \in Seq(Batch)
  BY DEF IInv, TypeOK
<1>2. CASE LeaveRayonScope
  <2>1. CASE tasks[Root].err = Ok
    BY <1>2, <2>1 DEF LeaveRayonScope, ResultTyped
  <2>2. CASE tasks[Root].err # Ok
    <3>1. result' = [err |-> tasks[Root].err, segments |-> <<>>]
      BY <1>2, <2>2 DEF LeaveRayonScope, Outcome
    <3> QED
      BY <3>1 DEF ResultTyped
  <2> QED
    BY <2>1, <2>2
<1>3. CASE Receive
  <2>1. Head(channel) \in Batch
    BY <1>1, <1>3 DEF Receive
  <2>2. result' = result \/ result' = Head(channel)
    BY <1>3 DEF Receive
  <2> QED
    BY <2>1, <2>2 DEF Batch, ResultTyped
<1>4. CASE Finish
  <2>1. Apart(collected)
    <3>1. PICK got, from : Delivered(got, from)
      BY <1>4 DEF DeliveryInv, Finish
    <3> QED
      BY <3>1, <1>4 DEF Delivered, Finish
  <2>2. PICK u \in Sorted(collected) : result' = [err |-> Ok, segments |-> u]
    BY <1>4 DEF Finish
  <2>3. u \in Seq(Segment)
    BY <2>1, <1>1, SortedType
  <2> QED
    BY <2>2, <2>3 DEF ResultTyped
<1>5. CASE UNCHANGED result
  BY <1>5 DEF ResultTyped
<1>6. ASSUME NEW t \in DOMAIN tasks, TaskStep(t) PROVE UNCHANGED result
  BY <1>6 DEF TaskStep, Gates, AssignsExtra, AddsOrEnforces, Executes, Spawns, Fails, Returns, Ends, Step
<1> QED
  BY <1>2, <1>3, <1>4, <1>5, <1>6 DEF Next, vars, Returned

(* The evaluation keeps all of this.                                       *)
LEMMA TraceInvKept == TraceInv /\ [Next]_vars => TraceInv'
BY Inductive, DeliveryKeeps, TraceRunsKept, ResultTypedKept DEF TraceInv

(* And starts with it.                                                     *)
LEMMA TraceInvStarts == Init => TraceInv
<1> SUFFICES ASSUME Init PROVE TraceInv
  OBVIOUS
<1>1. ResultTyped
  BY DEF Init, Nothing, ResultTyped
<1> QED
  BY <1>1, Initially, DeliveryStarts, TraceRunsStart DEF TraceInv

(* A successful evaluation has traced the circuit.                         *)
LEMMA EvalTraced ==
  ASSUME TraceInv, pc = "done", result.err = Ok
  PROVE  Traced(prog, result.segments)
<1> DEFINE list == result.segments
<1> HIDE DEF list
<1>1. prog \in Programs /\ Root \in DOMAIN tasks
  BY DEF TraceInv, IInv, TypeOK
<1>2. /\ ended = DOMAIN tasks /\ \A t \in DOMAIN tasks : tasks[t].err = Ok
      /\ SegmentsOf(list) = SegmentsBy(DOMAIN tasks)
      /\ InOrder(list)
  BY DEF TraceInv, DeliveryInv, EvalAccounts, list
<1>3. ASSUME NEW t \in DOMAIN tasks PROVE DOMAIN tasks[t].stack = {}
  <2>1. ~Running(tasks[t])
    BY <1>2 DEF TraceInv, DeliveryInv
  <2> QED
    BY <2>1 DEF Running
<1>4. ASSUME NEW t \in DOMAIN tasks, NEW s \in DOMAIN tasks[t].segments
      PROVE  Ran(prog, tasks[t].segments[s].dfs_path, Len(tasks[t].segments[s].gates), AllPaths)
  BY <1>2, <1>3 DEF TraceInv, TraceRuns, Runs, SegmentRan
<1>5. ASSUME NEW q \in AllPaths PROVE \E g : Ran(prog, q, g, AllPaths)
  <2>1. PICK t \in DOMAIN tasks : \E s \in DOMAIN tasks[t].segments : q = tasks[t].segments[s].dfs_path
    BY DEF AllPaths
  <2> QED
    BY <2>1, <1>4
<1>6. <<>> \in AllPaths
  <2>1. 1 \in DOMAIN tasks[Root].segments /\ tasks[Root].segments[1].dfs_path = <<>>
    BY <1>1 DEF TraceInv, IInv, Numbering, TasksWellFormed, Root
  <2> QED
    BY <2>1, <1>1 DEF AllPaths
<1>7. AllPaths = CalledPaths(prog)
  BY <1>1, <1>5, <1>6, AllRan
<1>8. \A seg : (\E i \in DOMAIN list : seg = list[i])
        <=> \E t \in DOMAIN tasks : \E s \in DOMAIN tasks[t].segments : seg = tasks[t].segments[s]
  <2> TAKE seg
  <2>1. seg \in SegmentsOf(list) <=> \E i \in DOMAIN list : seg = list[i]
    BY DEF SegmentsOf
  <2>2. \A t \in DOMAIN tasks :
          seg \in SegmentsOf(tasks[t].segments) <=> \E s \in DOMAIN tasks[t].segments : seg = tasks[t].segments[s]
    BY DEF SegmentsOf
  <2>3. seg \in SegmentsBy(DOMAIN tasks) <=> \E t \in DOMAIN tasks : seg \in SegmentsOf(tasks[t].segments)
    BY DEF SegmentsBy
  <2> QED
    BY <2>1, <2>2, <2>3, <1>2
<1>9. { list[i].dfs_path : i \in DOMAIN list } = CalledPaths(prog)
  <2>1. ASSUME NEW i \in DOMAIN list PROVE list[i].dfs_path \in AllPaths
    <3>1. PICK t \in DOMAIN tasks : \E s \in DOMAIN tasks[t].segments : list[i] = tasks[t].segments[s]
      BY <1>8
    <3> QED
      BY <3>1 DEF AllPaths
  <2>2. ASSUME NEW q \in AllPaths PROVE q \in { list[i].dfs_path : i \in DOMAIN list }
    <3>1. PICK t \in DOMAIN tasks : \E s \in DOMAIN tasks[t].segments : q = tasks[t].segments[s].dfs_path
      BY DEF AllPaths
    <3>2. PICK s \in DOMAIN tasks[t].segments : q = tasks[t].segments[s].dfs_path
      BY <3>1
    <3>3. PICK i \in DOMAIN list : tasks[t].segments[s] = list[i]
      BY <1>8
    <3> QED
      BY <3>2, <3>3
  <2> QED
    BY <2>1, <2>2, <1>7
<1>10. ASSUME NEW i \in DOMAIN list
       PROVE  Ran(prog, list[i].dfs_path, Len(list[i].gates), CalledPaths(prog))
  <2>1. PICK t \in DOMAIN tasks : \E s \in DOMAIN tasks[t].segments : list[i] = tasks[t].segments[s]
    BY <1>8
  <2> QED
    BY <2>1, <1>4, <1>7
<1>11. list \in Seq(Segment)
  BY DEF TraceInv, ResultTyped, list
<1> QED
  BY <1>2, <1>9, <1>10, <1>11 DEF Traced, list

-----------------------------------------------------------------------------
(* What a run can raise.  The abstract module reads the same bodies.       *)
LEMMA SameBodies ==
  /\ \A p, n, kind : Abstract!Kind(p, n, kind) = Kind(p, n, kind)
  /\ \A p, n, at, kind : Abstract!Made(p, n, at, kind) = Made(p, n, at, kind)
  /\ \A p, n : Abstract!Calls(p, n) = Calls(p, n)
  /\ \A p, n, at : Abstract!GatesMade(p, n, at) = GatesMade(p, n, at)
  /\ \A p, n, at : Abstract!CallsMade(p, n, at) = CallsMade(p, n, at)
<1>1. \A p, n, kind : Abstract!Kind(p, n, kind) = Kind(p, n, kind)
  BY DEF Abstract!Kind, Kind
<1>2. \A p, n, at, kind : Abstract!Made(p, n, at, kind) = Made(p, n, at, kind)
  <2> TAKE p, n, at, kind
  <2>1. Abstract!Kind(p, n, kind) = Kind(p, n, kind)
    BY <1>1
  <2>2. /\ Abstract!Made(p, n, at, kind) = Cardinality(Abstract!Kind(p, n, kind) \intersect 1 .. at - 1)
        /\ Made(p, n, at, kind) = Cardinality(Kind(p, n, kind) \intersect 1 .. at - 1)
    BY DEF Abstract!Made, Made, Abstract!Cardinality, Cardinality
  <2> HIDE DEF Kind, Abstract!Kind
  <2> QED
    BY <2>1, <2>2
<1> QED
  BY <1>1, <1>2 DEF Abstract!Calls, Calls, Abstract!GatesMade, GatesMade,
                    Abstract!CallsMade, CallsMade

(* The routines that raise are those one of whose calls does.              *)
LEMMA RaisingIs ==
  ASSUME NEW p, NEW in, NEW n \in Routines
  PROVE  n \in Abstract!Raising(p, in) <=>
           \E i \in DOMAIN p[n].ops :
             Abstract!CallRaises(p[n].ops[i], in, Abstract!Raising(p, in))
<1> DEFINE R == Abstract!Raising(p, in)
           Sets == Abstract!RaisingSets(p, in)
           Has(m, S) == \E i \in DOMAIN p[m].ops : Abstract!CallRaises(p[m].ops[i], in, S)
<1>1. \A S : S \in Sets <=> S \subseteq Routines /\ \A m \in Routines : Has(m, S) => m \in S
  BY DEF Abstract!RaisingSets
<1>2. \A m : m \in R <=> m \in Routines /\ \A S \in Sets : m \in S
  BY DEF Abstract!Raising
<1>3. \A S, T, m : S \subseteq T /\ Has(m, S) => Has(m, T)
  BY DEF Abstract!CallRaises
<1> HIDE DEF R, Sets, Has
<1>4. ASSUME NEW m \in Routines, Has(m, R) PROVE m \in R
  <2>1. ASSUME NEW S \in Sets PROVE m \in S
    <3>1. R \subseteq S
      BY <1>2, <2>1
    <3> QED
      BY <3>1, <1>1, <1>3, <1>4
  <2> QED
    BY <2>1, <1>2
<1>5. ASSUME n \in R, ~Has(n, R) PROVE FALSE
  <2> DEFINE T == R \ {n}
  <2>1. ASSUME NEW m \in Routines, Has(m, T) PROVE m \in T
    <3>1. Has(m, R)
      BY <2>1, <1>3
    <3> QED
      BY <3>1, <1>4, <1>5
  <2>2. T \subseteq Routines
    BY <1>2
  <2>3. T \in Sets
    BY <2>1, <2>2, <1>1
  <2> QED
    BY <2>3, <1>2, <1>5
<1> QED
  BY <1>4, <1>5 DEF R, Has

(* A body gets to its first call, and past one that raises nothing; one    *)
(* that gets past its last raises nothing.                                 *)
LEMMA Getting ==
  ASSUME NEW p \in Programs, NEW in, NEW n \in Routines
  PROVE  /\ Abstract!GetsTo(p, in, n, 1)
         /\ \A i \in Nat \ {0} :
              /\ Abstract!GetsTo(p, in, n, i)
              /\ ~Abstract!CallRaises(p[n].ops[i], in, Abstract!Raising(p, in))
              => Abstract!GetsTo(p, in, n, i + 1)
         /\ \A i \in Nat : Abstract!GetsTo(p, in, n, i) /\ i > Len(p[n].ops)
              => n \notin Abstract!Raising(p, in)
<1>1. DOMAIN p[n].ops = 1 .. Len(p[n].ops) /\ Len(p[n].ops) \in Nat
  BY Bodies
<1>2. Abstract!GetsTo(p, in, n, 1)
  BY DEF Abstract!GetsTo
<1>3. ASSUME NEW i \in Nat \ {0}, Abstract!GetsTo(p, in, n, i),
             ~Abstract!CallRaises(p[n].ops[i], in, Abstract!Raising(p, in))
      PROVE  Abstract!GetsTo(p, in, n, i + 1)
  <2>1. \A j \in 1 .. (i + 1) - 1 : j \in 1 .. i - 1 \/ j = i
    OBVIOUS
  <2> QED
    BY <2>1, <1>3 DEF Abstract!GetsTo
<1>4. ASSUME NEW i \in Nat, Abstract!GetsTo(p, in, n, i), i > Len(p[n].ops)
      PROVE  n \notin Abstract!Raising(p, in)
  <2>1. \A j \in DOMAIN p[n].ops : j \in 1 .. i - 1
    BY <1>1, <1>4
  <2>2. \A j \in DOMAIN p[n].ops :
          ~Abstract!CallRaises(p[n].ops[j], in, Abstract!Raising(p, in))
    BY <2>1, <1>4 DEF Abstract!GetsTo
  <2> QED
    BY <2>2, RaisingIs
<1> QED
  BY <1>2, <1>3, <1>4

(* A set of routines that has what its members call.                       *)
Enters(p, in, into, S) ==
  /\ S \subseteq Routines /\ Main \in S
  /\ \A n \in S : \A i \in Calls(p, n) :
       /\ Abstract!GetsTo(p, in, n, i)
       /\ p[n].ops[i].err = Ok
       /\ p[n].ops[i].predict \in into
       => p[n].ops[i].name \in S

(* The routines entered are the least such set.                            *)
LEMMA EnteredIs ==
  ASSUME NEW p \in Programs, NEW in, NEW into
  PROVE  /\ Enters(p, in, into, Abstract!Entered(p, in, into))
         /\ \A S : Enters(p, in, into, S) => Abstract!Entered(p, in, into) \subseteq S
<1> DEFINE E == Abstract!Entered(p, in, into)
           Sets == Abstract!EnteredSets(p, in, into)
<1>1. \A S : S \in Sets <=> Enters(p, in, into, S)
  BY SameBodies DEF Abstract!EnteredSets, Abstract!Main, Main, Abstract!Ok, Ok, Enters
<1>2. \A m : m \in E <=> m \in Routines /\ \A S \in Sets : m \in S
  BY DEF Abstract!Entered
<1> HIDE DEF E, Sets
<1>3. Main \in E
  BY <1>1, <1>2, CircuitAssumption DEF Enters
<1>4. ASSUME NEW n \in E, NEW i \in Calls(p, n), Abstract!GetsTo(p, in, n, i),
             p[n].ops[i].err = Ok, p[n].ops[i].predict \in into
      PROVE  p[n].ops[i].name \in E
  <2>1. n \in Routines /\ p[n].ops[i].name \in Routines
    BY <1>2, CallNames
  <2>2. ASSUME NEW S \in Sets PROVE p[n].ops[i].name \in S
    BY <1>1, <1>2, <1>4, <2>2 DEF Enters
  <2> QED
    BY <2>1, <2>2, <1>2
<1>5. E \subseteq Routines
  BY <1>2
<1>6. Enters(p, in, into, E)
  BY <1>3, <1>4, <1>5 DEF Enters
<1>7. \A S : Enters(p, in, into, S) => E \subseteq S
  BY <1>1, <1>2
<1> QED
  BY <1>6, <1>7 DEF E

(* A circuit that raises nothing has no error of its own control flow.     *)
LEMMA QuietCircuit ==
  ASSUME NEW p \in Programs, NEW in, Main \notin Abstract!Raising(p, in)
  PROVE  Abstract!ErrorsOf(p, in, in) = {}
<1> DEFINE S == Routines \ Abstract!Raising(p, in)
<1>1. ASSUME NEW n \in S, NEW i \in DOMAIN p[n].ops
      PROVE  ~Abstract!CallRaises(p[n].ops[i], in, Abstract!Raising(p, in))
  BY <1>1, RaisingIs
<1>2. ASSUME NEW n \in S, NEW i \in Calls(p, n), p[n].ops[i].predict \in in
      PROVE  p[n].ops[i].name \in S
  <2>1. /\ i \in DOMAIN p[n].ops /\ p[n].ops[i].kind = "routine"
        /\ p[n].ops[i].name \in Routines
    BY CallNames, Bodies DEF Calls, Kind
  <2> QED
    BY <2>1, <1>1, <1>2 DEF Abstract!CallRaises
<1>3. Enters(p, in, in, S)
  BY <1>2, CircuitAssumption DEF Enters
<1>4. Abstract!Entered(p, in, in) \subseteq S
  BY <1>3, EnteredIs
<1>5. ASSUME NEW n \in S PROVE Abstract!FaultsOf(p, in, n) = {}
  BY <1>1, <1>5 DEF Abstract!FaultsOf, Abstract!CallRaises
<1> HIDE DEF S
<1> QED
  BY <1>4, <1>5 DEF Abstract!ErrorsOf

(* Faults a run can meet in a set of bodies.                               *)
Faults(p, in, E, e) ==
  \E n \in E : \E i \in Abstract!FaultsOf(p, in, n) : e = p[n].ops[i].err

(* A frame is after a call of c that ran in it, and raised nothing if c    *)
(* does not.                                                               *)
Waits(p, in, f, c) ==
  /\ f.at - 1 \in Calls(p, f.name)
  /\ p[f.name].ops[f.at - 1].err = Ok
  /\ p[f.name].ops[f.at - 1].predict \in in
  /\ p[f.name].ops[f.at - 1].name = c
  /\ Abstract!GetsTo(p, in, f.name, f.at - 1)

(* An evaluator for the body b goes through bodies of E: each of its scopes *)
(* but the innermost waits for the next, the outermost is b's; when it is  *)
(* over, b raised nothing or it has an error of E's.                       *)
Goes(p, in, E, b, ev) ==
  /\ \A i \in DOMAIN ev.stack : ev.stack[i].name \in E
  /\ \A i \in DOMAIN ev.stack : i # 1 => Waits(p, in, ev.stack[i], ev.stack[i - 1].name)
  /\ Running(ev) => ev.stack[Len(ev.stack)].name = b
  /\ ~Running(ev) /\ ev.err = Ok => b \notin Abstract!Raising(p, in)
  /\ ev.err # Ok => Faults(p, in, E, ev.err)

(* Its innermost scope got where it is.                                    *)
Gets(p, in, ev) == Running(ev) => Abstract!GetsTo(p, in, Top(ev).name, Top(ev).at)

(* What an evaluator's stack is.                                           *)
LEMMA StackIs ==
  ASSUME NEW ev, WellFormed(ev)
  PROVE  /\ ev.stack \in Seq(Frame) /\ Len(ev.stack) \in Nat
         /\ DOMAIN ev.stack = 1 .. Len(ev.stack)
         /\ Running(ev) <=> 1 \in DOMAIN ev.stack
         /\ Running(ev) <=> Len(ev.stack) # 0
         /\ Running(ev) => /\ Top(ev) = ev.stack[1] /\ Top(ev) \in Frame
                           /\ Top(ev).name \in Routines /\ Top(ev).at \in Nat \ {0}
<1>1. ev.stack \in Seq(Frame)
  BY DEF WellFormed, EvaluatorSet
<1>2. /\ Len(ev.stack) \in Nat /\ DOMAIN ev.stack = 1 .. Len(ev.stack)
      /\ Running(ev) <=> Len(ev.stack) # 0
  BY <1>1, EmptySeq DEF Running
<1>3. Running(ev) <=> 1 \in DOMAIN ev.stack
  BY <1>2
<1>4. Running(ev) => Top(ev) = ev.stack[1] /\ Top(ev) \in Frame
  BY <1>1, <1>3 DEF Top
<1> QED
  BY <1>1, <1>2, <1>3, <1>4 DEF Frame

(* A step within a scope goes on through the same bodies.                  *)
LEMMA GoesNext ==
  ASSUME NEW p \in Programs, NEW in, NEW E, NEW b, NEW ev, WellFormed(ev), Running(ev),
         NEW new, WellFormed(new), GoesOn(p, ev, new), Goes(p, in, E, b, ev)
  PROVE  /\ Goes(p, in, E, b, new) /\ Running(new)
         /\ /\ ~Abstract!CallRaises(p[Top(ev).name].ops[Top(ev).at], in, Abstract!Raising(p, in))
            /\ Gets(p, in, ev)
            => Gets(p, in, new)
<1>1. /\ DOMAIN ev.stack = 1 .. Len(ev.stack) /\ Len(ev.stack) \in Nat
      /\ DOMAIN new.stack = 1 .. Len(new.stack) /\ Len(new.stack) \in Nat
      /\ Top(ev) = ev.stack[1] /\ 1 \in DOMAIN ev.stack
      /\ Top(ev).name \in Routines /\ Top(ev).at \in Nat \ {0}
  BY StackIs
<1>2. /\ DOMAIN new.stack = DOMAIN ev.stack
      /\ \A i \in DOMAIN ev.stack : i # 1 => new.stack[i] = ev.stack[i]
      /\ Top(new).name = Top(ev).name /\ Top(new).at = Top(ev).at + 1
      /\ new.err = ev.err
  BY DEF GoesOn
<1>3. Running(new) /\ Top(new) = new.stack[1] /\ Len(new.stack) = Len(ev.stack)
  BY <1>1, <1>2, StackIs
<1>4. \A i \in DOMAIN ev.stack : new.stack[i].name = ev.stack[i].name
  BY <1>1, <1>2, <1>3
<1>5. ASSUME NEW i \in DOMAIN new.stack, i # 1 PROVE Waits(p, in, new.stack[i], new.stack[i - 1].name)
  <2>1. i - 1 \in DOMAIN ev.stack /\ new.stack[i] = ev.stack[i]
    BY <1>1, <1>2, <1>5
  <2>2. Waits(p, in, ev.stack[i], ev.stack[i - 1].name)
    BY <1>2, <1>5 DEF Goes
  <2> QED
    BY <2>1, <2>2, <1>4
<1>6. new.stack[Len(new.stack)].name = b
  <2>1. Len(ev.stack) \in DOMAIN ev.stack
    BY <1>1
  <2> QED
    BY <2>1, <1>3, <1>4 DEF Goes
<1>7. Goes(p, in, E, b, new)
  BY <1>2, <1>3, <1>4, <1>5, <1>6 DEF Goes
<1>8. ASSUME ~Abstract!CallRaises(p[Top(ev).name].ops[Top(ev).at], in, Abstract!Raising(p, in)),
             Gets(p, in, ev)
      PROVE  Gets(p, in, new)
  <2>1. Abstract!GetsTo(p, in, Top(ev).name, Top(ev).at + 1)
    BY <1>1, <1>8, Getting DEF Gets
  <2> QED
    BY <2>1, <1>2 DEF Gets
<1> QED
  BY <1>3, <1>7, <1>8

(* What an evaluator is that entered a routine.                            *)
LEMMA EnterIs ==
  ASSUME NEW p \in Programs, NEW ev, WellFormed(ev), AboutTo(p, ev, "routine"),
         NEW op, op = NextOp(p, ev), NEW q, q = ChildPrefix(ev),
         NEW mid, mid = DeferRoutine(ev), NEW new, new = EnterRoutine(ev, op)
  PROVE  /\ WellFormed(mid) /\ WellFormed(new) /\ GoesOn(p, ev, mid) /\ new.err = mid.err
         /\ DOMAIN mid.segments = 1 .. Len(mid.segments) /\ Len(mid.segments) \in Nat
         /\ DOMAIN new.segments = 1 .. Len(mid.segments) + 1
         /\ new.segments[Len(mid.segments) + 1] = NewSegment(q)
         /\ \A s \in 1 .. Len(mid.segments) : new.segments[s] = mid.segments[s]
         /\ Len(new.stack) = Len(mid.stack) + 1
         /\ new.stack[1] = NewFrame(op.name, Len(mid.segments) + 1, q)
         /\ \A i \in DOMAIN new.stack : i # 1 =>
              i - 1 \in DOMAIN mid.stack /\ new.stack[i] = mid.stack[i - 1]
         /\ \A i \in DOMAIN mid.stack : i + 1 \in DOMAIN new.stack /\ new.stack[i + 1] = mid.stack[i]
<1> DEFINE n == Len(mid.segments)
           inner == NewFrame(op.name, n + 1, q)
<1> HIDE DEF n, inner
<1>1. Running(ev) /\ ~AtEnd(p, ev) /\ op.kind = "routine"
  BY DEF AboutTo
<1>2. WellFormed(mid) /\ GoesOn(p, ev, mid)
  BY <1>1, DeferStep, DeferGoesOn
<1>3. op \in RoutineOp
  <2>1. op \in Op
    BY <1>1, NextOpType DEF WellFormed
  <2> QED
    BY <2>1, <1>1 DEF Op, GateOp, AssignExtraOp, LinearOp, RoutineOp
<1>4. WellFormed(new)
  BY <1>1, <1>3, EnterRoutineStep
<1>5. /\ mid \in EvaluatorSet /\ mid.stack \in Seq(Frame) /\ mid.segments \in Seq(Segment)
      /\ DOMAIN mid.segments = 1 .. n /\ n \in Nat
  BY <1>2 DEF WellFormed, EvaluatorSet, n
<1>6. /\ new.segments = Append(mid.segments, NewSegment(q))
      /\ new.stack = <<inner>> \o mid.stack
      /\ new.err = mid.err
  <2>1. ev \in EvaluatorSet
    BY DEF WellFormed
  <2>2. mid.segments = ev.segments /\ mid.stack = [ev.stack EXCEPT ![1] = Counted(Top(ev))] /\ mid.err = ev.err
    BY <2>1 DEF DeferRoutine, SetTop, EvaluatorSet
  <2> QED
    BY <2>1, <2>2 DEF EnterRoutine, inner, n, EvaluatorSet
<1>7. /\ DOMAIN new.segments = 1 .. n + 1 /\ new.segments[n + 1] = NewSegment(q)
      /\ \A s \in 1 .. n : new.segments[s] = mid.segments[s]
  <2>1. NewSegment(q) \in Segment
    BY <1>1, ChildPrefixType, NewSegmentType
  <2> QED
    BY <2>1, <1>5, <1>6, AppendProperties DEF n
<1>8. /\ DOMAIN new.stack = 1 .. Len(mid.stack) + 1 /\ new.stack[1] = inner
      /\ Len(mid.stack) \in Nat /\ DOMAIN mid.stack = 1 .. Len(mid.stack)
      /\ Len(new.stack) = Len(mid.stack) + 1
      /\ \A k \in 1 .. Len(mid.stack) : new.stack[k + 1] = mid.stack[k]
  <2>1. IsList(mid.stack)
    BY <1>5, ListOf
  <2>2. Len(mid.stack) \in Nat /\ DOMAIN mid.stack = 1 .. Len(mid.stack)
    BY <2>1, ListIs
  <2>3. /\ IsList(<<inner>> \o mid.stack) /\ Len(<<inner>> \o mid.stack) = Len(mid.stack) + 1
        /\ DOMAIN (<<inner>> \o mid.stack) = 1 .. Len(mid.stack) + 1
        /\ (<<inner>> \o mid.stack)[1] = inner
        /\ \A k \in 1 .. Len(mid.stack) : (<<inner>> \o mid.stack)[k + 1] = mid.stack[k]
    BY <2>1, Pushed
  <2> QED
    BY <2>2, <2>3, <1>6
<1>9. ASSUME NEW i \in DOMAIN new.stack, i # 1
      PROVE  i - 1 \in DOMAIN mid.stack /\ new.stack[i] = mid.stack[i - 1]
  <2>1. i - 1 \in 1 .. Len(mid.stack) /\ (i - 1) + 1 = i
    BY <1>8, <1>9
  <2>2. new.stack[(i - 1) + 1] = mid.stack[i - 1]
    BY <2>1, <1>8
  <2> QED
    BY <2>1, <2>2, <1>8
<1>10. \A i \in DOMAIN mid.stack : i + 1 \in DOMAIN new.stack /\ new.stack[i + 1] = mid.stack[i]
  BY <1>8
<1> QED
  BY <1>2, <1>4, <1>5, <1>6, <1>7, <1>8, <1>9, <1>10 DEF n, inner

(* What an evaluator is that left a scope.                                 *)
LEMMA LeaveIs ==
  ASSUME NEW ev, WellFormed(ev), Running(ev), NEW new, new = LeaveScope(ev)
  PROVE  /\ WellFormed(new) /\ new.segments = ev.segments /\ new.err = ev.err
         /\ Len(new.stack) = Len(ev.stack) - 1
         /\ \A i \in DOMAIN new.stack : i + 1 \in DOMAIN ev.stack /\ new.stack[i] = ev.stack[i + 1]
         /\ \A i \in DOMAIN ev.stack : i # 1 =>
              i - 1 \in DOMAIN new.stack /\ ev.stack[i] = new.stack[i - 1]
<1>1. ev \in EvaluatorSet /\ ev.stack \in Seq(Frame) /\ ev.stack # <<>>
  BY DEF WellFormed, EvaluatorSet, Running
<1>2. /\ new.stack = Tail(ev.stack)
      /\ new.segments = ev.segments /\ new.err = ev.err
  BY <1>1 DEF LeaveScope, EvaluatorSet
<1>3. /\ DOMAIN new.stack = 1 .. Len(ev.stack) - 1
      /\ DOMAIN ev.stack = 1 .. Len(ev.stack)
      /\ Len(ev.stack) \in Nat \ {0} /\ Len(new.stack) = Len(ev.stack) - 1
      /\ \A i \in 1 .. Len(ev.stack) - 1 : new.stack[i] = ev.stack[i + 1]
  <2>1. /\ Tail(ev.stack) \in Seq(Frame) /\ Len(Tail(ev.stack)) = Len(ev.stack) - 1
        /\ \A i \in 1 .. Len(Tail(ev.stack)) : Tail(ev.stack)[i] = ev.stack[i + 1]
    BY <1>1, HeadTailProperties
  <2> QED
    BY <2>1, <1>1, <1>2
<1>4. ASSUME NEW i \in DOMAIN ev.stack, i # 1
      PROVE  i - 1 \in DOMAIN new.stack /\ ev.stack[i] = new.stack[i - 1]
  <2>1. i - 1 \in 1 .. Len(ev.stack) - 1 /\ (i - 1) + 1 = i
    BY <1>3, <1>4
  <2>2. new.stack[i - 1] = ev.stack[(i - 1) + 1]
    BY <2>1, <1>3
  <2> QED
    BY <2>1, <2>2, <1>3
<1>5. \A i \in DOMAIN new.stack : i + 1 \in DOMAIN ev.stack /\ new.stack[i] = ev.stack[i + 1]
  BY <1>3
<1>6. WellFormed(new)
  BY LeaveScopeStep
<1> QED
  BY <1>2, <1>3, <1>4, <1>5, <1>6

(* A call whose routine runs in its caller: the caller waits for it.       *)
LEMMA CallWaits ==
  ASSUME NEW p \in Programs, NEW in, NEW E, NEW b, NEW ev, WellFormed(ev), AboutTo(p, ev, "routine"),
         NextOp(p, ev).err = Ok, NextOp(p, ev).predict \in in,
         Goes(p, in, E, b, ev), Gets(p, in, ev)
  PROVE  LET mid == DeferRoutine(ev)
         IN  /\ WellFormed(mid) /\ Goes(p, in, E, b, mid) /\ Running(mid)
             /\ Waits(p, in, Top(mid), NextOp(p, ev).name)
<1> DEFINE mid == DeferRoutine(ev)
<1>1. Running(ev) /\ ~AtEnd(p, ev) /\ NextOp(p, ev).kind = "routine"
  BY DEF AboutTo
<1>2. WellFormed(mid) /\ GoesOn(p, ev, mid)
  BY <1>1, DeferStep, DeferGoesOn
<1> HIDE DEF mid
<1>3. Goes(p, in, E, b, mid) /\ Running(mid)
  BY <1>1, <1>2, GoesNext
<1>4. Top(mid).name = Top(ev).name /\ Top(mid).at = Top(ev).at + 1
  BY <1>2 DEF GoesOn
<1>5. Top(ev).at \in Nat \ {0} /\ Top(ev).at \in Calls(p, Top(ev).name)
  BY <1>1, StackIs, NextCall
<1>6. Top(mid).at - 1 = Top(ev).at
  BY <1>4, <1>5
<1>7. Waits(p, in, Top(mid), NextOp(p, ev).name)
  BY <1>1, <1>4, <1>5, <1>6 DEF Waits, NextOp, Gets
<1> QED
  BY <1>2, <1>3, <1>7 DEF mid

(* Entering a routine.                                                     *)
LEMMA GoesEnter ==
  ASSUME NEW p \in Programs, NEW in, NEW into, NEW E, Enters(p, in, into, E), NEW b,
         NEW ev, WellFormed(ev), AboutTo(p, ev, "routine"),
         NextOp(p, ev).err = Ok, NextOp(p, ev).predict \in in, NextOp(p, ev).predict \in into,
         Goes(p, in, E, b, ev), Gets(p, in, ev)
  PROVE  LET new == EnterRoutine(ev, NextOp(p, ev))
         IN  Goes(p, in, E, b, new) /\ Gets(p, in, new)
<1> DEFINE op  == NextOp(p, ev)
           mid == DeferRoutine(ev)
           new == EnterRoutine(ev, op)
<1>1. Running(ev) /\ ~AtEnd(p, ev) /\ op.kind = "routine"
  BY DEF AboutTo
<1>2. /\ WellFormed(mid) /\ Goes(p, in, E, b, mid) /\ Running(mid)
      /\ Waits(p, in, Top(mid), op.name)
  BY CallWaits
<1>3. PICK seg : new.stack[1] = NewFrame(op.name, seg, ChildPrefix(ev))
  BY EnterIs
<1>4. /\ WellFormed(new) /\ GoesOn(p, ev, mid) /\ new.err = mid.err
      /\ Len(new.stack) = Len(mid.stack) + 1
      /\ \A i \in DOMAIN new.stack : i # 1 =>
           i - 1 \in DOMAIN mid.stack /\ new.stack[i] = mid.stack[i - 1]
  BY EnterIs
<1> HIDE DEF op, mid, new
<1>5. new.stack[1].name = op.name /\ new.stack[1].at = 1
  BY <1>3 DEF NewFrame
<1>6. op.name \in E /\ op.name \in Routines
  <2>1. Top(ev).name \in E /\ Top(ev).at \in Calls(p, Top(ev).name) /\ Top(ev).name \in Routines
    BY <1>1, StackIs, NextCall DEF Goes, op
  <2>2. op.name \in Routines
    BY <2>1, CallNames DEF op, NextOp
  <2> QED
    BY <2>1, <2>2, <1>1 DEF Enters, op, NextOp, Gets
<1>7. /\ DOMAIN mid.stack = 1 .. Len(mid.stack) /\ Len(mid.stack) \in Nat
      /\ Len(mid.stack) # 0 /\ Top(mid) = mid.stack[1]
  BY <1>2, StackIs
<1>8. /\ DOMAIN new.stack = 1 .. Len(new.stack) /\ Running(new) /\ Top(new) = new.stack[1]
  <2>1. Len(new.stack) # 0
    BY <1>4, <1>7
  <2> QED
    BY <2>1, <1>4, StackIs
<1>9. ASSUME NEW i \in DOMAIN new.stack PROVE new.stack[i].name \in E
  BY <1>2, <1>4, <1>5, <1>6 DEF Goes
<1>10. ASSUME NEW i \in DOMAIN new.stack, i # 1 PROVE Waits(p, in, new.stack[i], new.stack[i - 1].name)
  <2>1. i - 1 \in DOMAIN mid.stack /\ new.stack[i] = mid.stack[i - 1]
    BY <1>4, <1>10
  <2>2. CASE i = 2
    BY <2>1, <2>2, <1>2, <1>5, <1>7
  <2>3. CASE i # 2
    <3>1. i - 1 # 1 /\ i - 1 \in DOMAIN new.stack
      BY <2>3, <1>4, <1>7, <1>8, <1>10
    <3>2. new.stack[i - 1] = mid.stack[(i - 1) - 1]
      BY <3>1, <1>4
    <3>3. Waits(p, in, mid.stack[i - 1], mid.stack[(i - 1) - 1].name)
      BY <2>1, <3>1, <1>2 DEF Goes
    <3> QED
      BY <2>1, <3>2, <3>3
  <2> QED
    BY <2>2, <2>3
<1>11. new.stack[Len(new.stack)].name = b
  <2>1. Len(new.stack) \in DOMAIN new.stack /\ Len(new.stack) # 1 /\ Len(new.stack) - 1 = Len(mid.stack)
    BY <1>4, <1>7, <1>8
  <2> QED
    BY <2>1, <1>2, <1>4 DEF Goes
<1>12. Goes(p, in, E, b, new)
  BY <1>2, <1>4, <1>8, <1>9, <1>10, <1>11 DEF Goes
<1>13. Gets(p, in, new)
  <2>1. Abstract!GetsTo(p, in, op.name, 1)
    BY <1>6, Getting
  <2> QED
    BY <2>1, <1>5, <1>8 DEF Gets
<1> QED
  BY <1>12, <1>13 DEF new, op

(* A caller whose routine raised nothing got past the call.                *)
LEMMA WaitedGets ==
  ASSUME NEW p \in Programs, NEW in, NEW f, f.name \in Routines, f.at \in Nat \ {0},
         NEW c, Waits(p, in, f, c), c \notin Abstract!Raising(p, in)
  PROVE  Abstract!GetsTo(p, in, f.name, f.at)
<1>1. f.at - 1 \in Nat \ {0} /\ (f.at - 1) + 1 = f.at
  <2>1. f.at - 1 \in 1 .. Len(p[f.name].ops)
    BY DEF Waits, Calls, Kind
  <2> QED
    BY <2>1
<1>2. ~Abstract!CallRaises(p[f.name].ops[f.at - 1], in, Abstract!Raising(p, in))
  BY DEF Waits, Abstract!CallRaises, Abstract!Faulty, Abstract!Ok, Ok
<1> QED
  BY <1>1, <1>2, Getting DEF Waits

(* Leaving a scope.                                                        *)
LEMMA GoesLeave ==
  ASSUME NEW p \in Programs, NEW in, NEW E, NEW b, NEW ev, WellFormed(ev), Running(ev), AtEnd(p, ev),
         Goes(p, in, E, b, ev), Gets(p, in, ev)
  PROVE  /\ Goes(p, in, E, b, LeaveScope(ev)) /\ Gets(p, in, LeaveScope(ev))
         /\ Top(ev).name \notin Abstract!Raising(p, in)
<1> DEFINE new == LeaveScope(ev)
<1>1. /\ WellFormed(new) /\ new.err = ev.err
      /\ Len(new.stack) = Len(ev.stack) - 1
      /\ \A i \in DOMAIN new.stack : i + 1 \in DOMAIN ev.stack /\ new.stack[i] = ev.stack[i + 1]
  BY LeaveIs
<1> HIDE DEF new
<1>2. /\ DOMAIN ev.stack = 1 .. Len(ev.stack) /\ Len(ev.stack) \in Nat \ {0}
      /\ Top(ev) = ev.stack[1] /\ Top(ev).name \in Routines /\ Top(ev).at \in Nat \ {0}
  BY StackIs
<1>3. /\ DOMAIN new.stack = 1 .. Len(new.stack) /\ Len(new.stack) \in Nat
      /\ Running(new) <=> Len(new.stack) # 0
      /\ Running(new) => /\ Top(new) = new.stack[1] /\ 1 \in DOMAIN new.stack
                         /\ Top(new).name \in Routines /\ Top(new).at \in Nat \ {0}
  BY <1>1, StackIs
<1>4. Top(ev).name \notin Abstract!Raising(p, in)
  BY <1>2, Getting DEF Gets, AtEnd
<1>5. \A i \in DOMAIN new.stack : new.stack[i].name \in E
  BY <1>1 DEF Goes
<1>6. ASSUME NEW i \in DOMAIN new.stack, i # 1 PROVE Waits(p, in, new.stack[i], new.stack[i - 1].name)
  <2>1. i - 1 \in DOMAIN new.stack /\ (i - 1) + 1 = i /\ (i + 1) - 1 = i /\ i + 1 # 1
    BY <1>3, <1>6
  <2>2. new.stack[i - 1] = ev.stack[(i - 1) + 1] /\ new.stack[i] = ev.stack[i + 1] /\ i + 1 \in DOMAIN ev.stack
    BY <2>1, <1>1
  <2>3. Waits(p, in, ev.stack[i + 1], ev.stack[(i + 1) - 1].name)
    BY <2>1, <2>2 DEF Goes
  <2> QED
    BY <2>1, <2>2, <2>3
<1>7. ASSUME Running(new) PROVE new.stack[Len(new.stack)].name = b
  <2>1. Len(new.stack) \in DOMAIN new.stack /\ Len(new.stack) + 1 = Len(ev.stack)
    BY <1>1, <1>2, <1>3, <1>7
  <2>2. new.stack[Len(new.stack)] = ev.stack[Len(ev.stack)]
    BY <2>1, <1>1
  <2> QED
    BY <2>2 DEF Goes
<1>8. ASSUME ~Running(new) PROVE b \notin Abstract!Raising(p, in)
  <2>1. Len(ev.stack) = 1
    BY <1>1, <1>2, <1>3, <1>8
  <2> QED
    BY <2>1, <1>2, <1>4 DEF Goes
<1>9. ASSUME Running(new) PROVE Abstract!GetsTo(p, in, Top(new).name, Top(new).at)
  <2>1. 1 \in DOMAIN new.stack /\ 2 \in DOMAIN ev.stack /\ Top(new) = ev.stack[2]
    <3>1. 1 \in DOMAIN new.stack /\ 1 + 1 = 2
      BY <1>3, <1>9
    <3> QED
      BY <3>1, <1>1, <1>3, <1>9
  <2>2. Waits(p, in, ev.stack[2], ev.stack[2 - 1].name) /\ 2 - 1 = 1
    BY <2>1 DEF Goes
  <2> QED
    BY <2>1, <2>2, <1>2, <1>3, <1>4, <1>9, WaitedGets
<1>10. Goes(p, in, E, b, new) /\ Gets(p, in, new)
  BY <1>1, <1>5, <1>6, <1>7, <1>8, <1>9 DEF Goes, Gets
<1> QED
  BY <1>4, <1>10 DEF new

(* Failing.                                                                *)
LEMMA GoesUnwind ==
  ASSUME NEW p \in Programs, NEW in, NEW E, NEW b, NEW ev, WellFormed(ev), Running(ev), ~AtEnd(p, ev),
         NextOp(p, ev).kind \in {"gate", "assign_extra", "routine"}, NextOp(p, ev).err # Ok,
         Goes(p, in, E, b, ev), Gets(p, in, ev)
  PROVE  /\ Faults(p, in, E, NextOp(p, ev).err)
         /\ Goes(p, in, E, b, Unwind(ev, NextOp(p, ev).err)) /\ Gets(p, in, Unwind(ev, NextOp(p, ev).err))
<1> DEFINE e   == NextOp(p, ev).err
           new == Unwind(ev, e)
<1>1. new.err = e /\ new.stack = <<>>
  BY DEF WellFormed, EvaluatorSet, Unwind
<1>2. /\ Top(ev) = ev.stack[1] /\ 1 \in DOMAIN ev.stack /\ Top(ev).name \in Routines
      /\ Top(ev).at \in 1 .. Len(p[Top(ev).name].ops)
  BY StackIs, NextCall
<1>3. Top(ev).at \in DOMAIN p[Top(ev).name].ops
  BY <1>2, Bodies
<1>4. Top(ev).at \in Abstract!FaultsOf(p, in, Top(ev).name)
  BY <1>3 DEF Gets, NextOp, Abstract!FaultsOf, Abstract!Faulty, Abstract!Ok, Ok
<1>5. Faults(p, in, E, e)
  BY <1>2, <1>4 DEF Goes, Faults, NextOp
<1> HIDE DEF new, e
<1>6. Goes(p, in, E, b, new) /\ Gets(p, in, new)
  <2>1. DOMAIN new.stack = {} /\ ~Running(new)
    BY <1>1 DEF Running
  <2> QED
    BY <2>1, <1>1, <1>5 DEF Goes, Gets, e
<1> QED
  BY <1>5, <1>6 DEF new, e

(* Starting.                                                               *)
LEMMA GoesNew ==
  ASSUME NEW p \in Programs, NEW in, NEW E, NEW n \in E, n \in Routines, NEW q
  PROVE  Goes(p, in, E, n, NewEvaluator(n, q)) /\ Gets(p, in, NewEvaluator(n, q))
<1> DEFINE ev == NewEvaluator(n, q)
<1>1. /\ ev.stack = <<NewFrame(n, 1, q)>> /\ ev.err = Ok
      /\ ev.stack[1].name = n /\ ev.stack[1].at = 1
      /\ DOMAIN ev.stack = {1} /\ Len(ev.stack) = 1
  BY DEF NewEvaluator, NewFrame
<1>2. Abstract!GetsTo(p, in, n, 1)
  BY Getting
<1> HIDE DEF ev
<1>3. Running(ev)
  BY <1>1 DEF Running
<1>4. Goes(p, in, E, n, ev) /\ Gets(p, in, ev)
  BY <1>1, <1>2, <1>3 DEF Goes, Gets, Top
<1> QED
  BY <1>4 DEF ev
-----------------------------------------------------------------------------
(* The tree of a circuit's calls.  Its levels solve their recursion.       *)
LEMMA LevelsAre ==
  ASSUME NEW p \in Programs
  PROVE  /\ Cardinality(Routines) \in Nat
         /\ CallLevels(p)[0] = {<<(<<>>), Main>>}
         /\ \A d \in 1 .. Cardinality(Routines) :
              CallLevels(p)[d] = UNION { CallsFrom(p, c) : c \in CallLevels(p)[d - 1] }
<1> DEFINE n == Cardinality(Routines)
           S == SUBSET (Path \X Routines)
           base == {<<(<<>>), Main>>}
           Solves(g) == g = [d \in 0 .. n |-> IF d = 0 THEN base
                                              ELSE UNION { CallsFrom(p, c) : c \in g[d - 1] }]
           levels == CHOOSE g : Solves(g)
           Deeper == [v \in S \X (0 + 1 .. n) |-> UNION { CallsFrom(p, c) : c \in v[1] }]
<1>1. CallLevels(p) = levels
  BY DEF CallLevels
<1>2. n \in Nat
  BY NestingAssumption, FS_CardinalityType
<1>3. base \in S
  <2>1. <<>> \in Path /\ Main \in Routines
    BY CircuitAssumption DEF Path
  <2> QED
    BY <2>1
<1>4. ASSUME NEW v \in S, NEW c \in v PROVE CallsFrom(p, c) \in S
  <2>1. c[1] \in Path /\ c[2] \in Routines
    OBVIOUS
  <2>2. ASSUME NEW i \in Calls(p, c[2])
        PROVE  <<Append(c[1], CallsMade(p, c[2], i)), p[c[2]].ops[i].name>> \in Path \X Routines
    <3>1. i \in Nat /\ p[c[2]].ops[i].name \in Routines
      BY <2>1, CallNames
    <3>2. CallsMade(p, c[2], i) \in Nat
      BY <2>1, <3>1, MadeIs DEF CallsMade
    <3>3. Append(c[1], CallsMade(p, c[2], i)) \in Path
      BY <2>1, <3>2 DEF Path
    <3> QED
      BY <3>1, <3>3
  <2> QED
    BY <2>2 DEF CallsFrom
<1> HIDE DEF S, base, n
<1>5. ASSUME NEW v \in S, NEW k \in 0 + 1 .. n
      PROVE  Deeper[<<v, k>>] = UNION { CallsFrom(p, c) : c \in v }
  OBVIOUS
<1>6. Deeper \in [S \X (0 + 1 .. n) -> S]
  <2>1. ASSUME NEW v \in S PROVE UNION { CallsFrom(p, c) : c \in v } \in S
    BY <1>4 DEF S
  <2> QED
    BY <2>1
<1> HIDE DEF Deeper
<1>7. PICK f : Follows(f, 0, n, S, base, Deeper)
  BY <1>2, <1>3, <1>6, Iterates, 0 \in Int, n \in Int, 0 <= n
<1>8. Solves(f)
  <2>1. f \in [0 .. n -> S] /\ f[0] = base
        /\ \A k \in 0 + 1 .. n : f[k] = Deeper[<<f[k - 1], k>>]
    BY <1>7 DEF Follows
  <2>2. ASSUME NEW k \in 0 .. n
        PROVE  f[k] = IF k = 0 THEN base ELSE UNION { CallsFrom(p, c) : c \in f[k - 1] }
    <3>1. CASE k = 0
      BY <2>1, <3>1
    <3>2. CASE k # 0
      <4>1. k \in 0 + 1 .. n /\ k - 1 \in 0 .. n
        BY <3>2, <1>2
      <4>2. f[k - 1] \in S
        BY <2>1, <4>1
      <4> QED
        BY <2>1, <3>2, <4>1, <4>2, <1>5
    <3> QED
      BY <3>1, <3>2
  <2> QED
    BY <2>1, <2>2
<1>9. Solves(levels)
  BY <1>8
<1>10. \A d \in 0 .. n : levels[d] = IF d = 0 THEN base
                                     ELSE UNION { CallsFrom(p, c) : c \in levels[d - 1] }
  BY <1>9, Zenon
<1> HIDE DEF levels
<1>11. levels[0] = base
  <2>1. 0 \in 0 .. n
    BY <1>2
  <2> QED
    BY <2>1, <1>10
<1>12. ASSUME NEW d \in 1 .. n
       PROVE  levels[d] = UNION { CallsFrom(p, c) : c \in levels[d - 1] }
  <2>1. d \in 0 .. n /\ d # 0
    BY <1>2
  <2> QED
    BY <2>1, <1>10
<1> QED
  BY <1>1, <1>2, <1>11, <1>12 DEF n, base

(* The calls of the tree are those of bodies that are called.              *)
LEMMA TreeIs ==
  ASSUME NEW p \in Programs
  PROVE  /\ CallTree(p) \subseteq Path \X Routines
         /\ \A q \in Path, n \in Routines : <<q, n>> \in CallTree(p) <=> CalledAs(p, q, n)
<1> DEFINE k == Cardinality(Routines)
           L == CallLevels(p)
           C == { c \in Path \X Routines : CalledAs(p, c[1], c[2]) }
<1>1. /\ k \in Nat /\ L[0] = {<<(<<>>), Main>>}
      /\ \A d \in 1 .. k : L[d] = UNION { CallsFrom(p, c) : c \in L[d - 1] }
      /\ L[k] = {}
  BY LevelsAre, NestingAssumption
<1>2. CallTree(p) = UNION { L[d] : d \in 0 .. k }
  BY DEF CallTree
<1>3. \A x \in Path, y \in Routines : <<x, y>> \in C <=> CalledAs(p, x, y)
  OBVIOUS
<1>4. C \subseteq Path \X Routines
  OBVIOUS
<1> HIDE DEF C, L, k
<1>5. \A d \in 0 .. k : L[d] \subseteq C
  <2> DEFINE U == { d \in Int : L[d] \subseteq C }
  <2>1. 0 \in U
    BY <1>1, <1>3, CalledStarts DEF CalledAs
  <2>2. ASSUME NEW d \in 0 + 1 .. k, d - 1 \in U PROVE d \in U
    <3>1. L[d] = UNION { CallsFrom(p, c) : c \in L[d - 1] } /\ L[d - 1] \subseteq C
      BY <2>2, <1>1
    <3>2. ASSUME NEW c \in C, NEW i \in Calls(p, c[2])
          PROVE  <<Append(c[1], CallsMade(p, c[2], i)), p[c[2]].ops[i].name>> \in C
      <4>1. PICK x \in Path, y \in Routines : c = <<x, y>>
        BY <1>4
      <4>2. c[1] = x /\ c[2] = y /\ CalledAs(p, x, y)
        BY <4>1, <1>3
      <4>3. CalledAs(p, Append(x, CallsMade(p, y, i)), p[y].ops[i].name)
        BY <4>2, <3>2, CalledOn
      <4> QED
        BY <4>2, <4>3, <1>3 DEF CalledAs
    <3>3. \A c \in C : CallsFrom(p, c) \subseteq C
      BY <3>2 DEF CallsFrom
    <3> QED
      BY <3>1, <3>3, <1>1
  <2> HIDE DEF U
  <2>3. \A d \in 0 .. k : d \in U
    BY <2>1, <2>2, <1>1, Interval, 0 \in Int, k \in Int
  <2> QED
    BY <2>3 DEF U
<1>6. CallTree(p) \subseteq C
  BY <1>2, <1>5
<1>7. ASSUME NEW x \in Path, NEW y \in Routines, <<x, y>> \in CallTree(p), NEW i \in Calls(p, y)
      PROVE  <<Append(x, CallsMade(p, y, i)), p[y].ops[i].name>> \in CallTree(p)
  <2>1. PICK d \in 0 .. k : <<x, y>> \in L[d]
    BY <1>2, <1>7
  <2>2. d # k
    BY <2>1, <1>1
  <2>3. d + 1 \in 1 .. k /\ (d + 1) - 1 = d
    BY <2>2, <1>1
  <2>4. <<Append(x, CallsMade(p, y, i)), p[y].ops[i].name>> \in CallsFrom(p, <<x, y>>)
    BY <1>7 DEF CallsFrom
  <2>5. L[d + 1] = UNION { CallsFrom(p, c) : c \in L[d] }
    BY <2>3, <1>1
  <2>6. <<Append(x, CallsMade(p, y, i)), p[y].ops[i].name>> \in L[d + 1]
    BY <2>1, <2>4, <2>5
  <2>7. d + 1 \in 0 .. k
    BY <2>3, <1>1
  <2> QED
    BY <2>6, <2>7, <1>2
<1>8. <<(<<>>), Main>> \in CallTree(p)
  <2>1. 0 \in 0 .. k
    BY <1>1
  <2> QED
    BY <2>1, <1>1, <1>2
<1>9. ASSUME NEW q, NEW n, CalledAs(p, q, n) PROVE <<q, n>> \in CallTree(p)
  <2>1. CallTree(p) \in SUBSET (Path \X Routines)
    BY <1>4, <1>6
  <2> QED
    BY <1>7, <1>8, <1>9, <2>1, CalledIn
<1> QED
  BY <1>3, <1>4, <1>6, <1>9

(* The abstract module sees the same tree.                                 *)
LEMMA SameTree ==
  ASSUME NEW p
  PROVE  Abstract!CallTree(p) = CallTree(p)
<1> DEFINE Solves(h) == h = [d \in 0 .. Cardinality(Routines) |->
                               IF d = 0 THEN {<<(<<>>), Main>>}
                               ELSE UNION { CallsFrom(p, c) : c \in h[d - 1] }]
           Fits(h) == h = [d \in 0 .. Cardinality(Routines) |->
                             IF d = 0 THEN {<<(<<>>), Main>>}
                             ELSE UNION { Abstract!CallsFrom(p, c) : c \in h[d - 1] }]
<1>1. \A c : Abstract!CallsFrom(p, c) = CallsFrom(p, c)
  BY SameBodies DEF Abstract!CallsFrom, CallsFrom
<1>2. \A h : Solves(h) <=> Fits(h)
  BY <1>1
<1>3. CallLevels(p) = CHOOSE h : Solves(h)
  BY DEF CallLevels
<1>4. Abstract!CallLevels(p) = CHOOSE h : Fits(h)
  BY DEF Abstract!CallLevels, Abstract!Main, Main, Abstract!Cardinality, Cardinality
<1> HIDE DEF Solves, Fits
<1>5. Abstract!CallLevels(p) = CallLevels(p)
  BY <1>2, <1>3, <1>4
<1>6. Abstract!CallTree(p) = UNION { Abstract!CallLevels(p)[d] : d \in 0 .. Cardinality(Routines) }
  BY DEF Abstract!CallTree, Abstract!Cardinality, Cardinality
<1> QED
  BY <1>5, <1>6 DEF CallTree
-----------------------------------------------------------------------------
(* What a segment holds.  Gate k of a body before its call at, and the     *)
(* gates of a segment there.                                               *)
ExtrasBefore(p, n, k, at) == { i \in Abstract!ExtraCalls(p, n, k) : i < at }
GateThere(p, n, k, at) ==
  [abc |-> p[n].ops[Abstract!GateCall(p, n, k)].val,
   d   |-> Abstract!LastValue(p, n, ExtrasBefore(p, n, k, at))]
Holds(p, q, n, at, gates) ==
  /\ Len(gates) = Base(q) + GatesMade(p, n, at)
  /\ q = <<>> => gates[1] = Placeholder
  /\ \A k \in 1 .. GatesMade(p, n, at) : gates[Base(q) + k] = GateThere(p, n, k, at)

(* An assign_extra() is on a gate made before it.                          *)
LEMMA ExtraIs ==
  ASSUME NEW p \in Programs, NEW n \in Routines, NEW i \in Kind(p, n, "assign_extra")
  PROVE  /\ i \in Nat \ {0} /\ p[n].ops[i].gate \in 1 .. GatesMade(p, n, i)
         /\ p[n].ops[i].val \in Nat
<1>1. i \in 1 .. Len(p[n].ops) /\ p[n].ops[i].kind = "assign_extra" /\ i \in Nat \ {0}
  BY Bodies DEF Kind
<1>2. p[n].ops[i] \in AssignExtraOp
  <2>1. p[n].ops[i] \in Op
    BY <1>1, Bodies
  <2> QED
    BY <2>1, <1>1 DEF Op, GateOp, AssignExtraOp, LinearOp, RoutineOp
<1>3. p[n].ops[i].gate \in Nat \ {0} /\ p[n].ops[i].val \in Nat
  BY <1>2 DEF AssignExtraOp
<1>4. p[n].ops[i].gate <= GatesMade(p, n, i) /\ GatesMade(p, n, i) \in Nat
  BY <1>1, TokensAssumption, MadeIs DEF GatesMade
<1> QED
  BY <1>1, <1>3, <1>4

(* What is known of the gates counted.                                     *)
LEMMA GatesCounted ==
  ASSUME NEW p \in Programs, NEW n \in Routines
  PROVE  /\ GatesMade(p, n, 1) = 0
         /\ \A at \in Nat : GatesMade(p, n, at) \in Nat
         /\ \A at \in Kind(p, n, "gate") :
              /\ at \in Nat \ {0}
              /\ GatesMade(p, n, at + 1) = GatesMade(p, n, at) + 1
         /\ \A at \in Nat : at \notin Kind(p, n, "gate")
              => GatesMade(p, n, at + 1) = GatesMade(p, n, at)
         /\ \A at \in Nat : at > Len(p[n].ops)
              => GatesMade(p, n, at) = Cardinality(Kind(p, n, "gate"))
         /\ \A i, at \in Nat : i <= at => GatesMade(p, n, i) <= GatesMade(p, n, at)
<1>1. ASSUME NEW at \in Nat, at > Len(p[n].ops)
      PROVE  GatesMade(p, n, at) = Cardinality(Kind(p, n, "gate"))
  <2>1. Kind(p, n, "gate") \intersect 1 .. at - 1 = Kind(p, n, "gate")
    BY <1>1, Bodies DEF Kind
  <2> QED
    BY <2>1 DEF GatesMade, Made
<1>2. /\ Made(p, n, 1, "gate") = 0
      /\ \A at \in Nat : Made(p, n, at, "gate") \in Nat
      /\ \A at \in Kind(p, n, "gate") :
           at \in Nat \ {0} /\ Made(p, n, at + 1, "gate") = Made(p, n, at, "gate") + 1
      /\ \A at \in Nat : at \notin Kind(p, n, "gate")
           => Made(p, n, at + 1, "gate") = Made(p, n, at, "gate")
      /\ \A i, at \in Nat : i <= at => Made(p, n, i, "gate") <= Made(p, n, at, "gate")
  BY MadeIs
<1>3. \A at : GatesMade(p, n, at) = Made(p, n, at, "gate")
  BY DEF GatesMade
<1> HIDE DEF Kind
<1> QED
  BY <1>1, <1>2, <1>3

(* A gate() call is the one it counts as.                                  *)
LEMMA GateCallIs ==
  ASSUME NEW p \in Programs, NEW n \in Routines, NEW at \in Kind(p, n, "gate")
  PROVE  Abstract!GateCall(p, n, GatesMade(p, n, at) + 1) = at
<1> DEFINE g == GatesMade(p, n, at)
           Is(i) == i \in Kind(p, n, "gate") /\ GatesMade(p, n, i) = g
<1>1. g \in Nat /\ (g + 1) - 1 = g
  BY GatesCounted
<1>2. Abstract!GateCall(p, n, g + 1) =
        CHOOSE i \in Kind(p, n, "gate") : GatesMade(p, n, i) = (g + 1) - 1
  BY SameBodies DEF Abstract!GateCall
<1>3. \A i \in Kind(p, n, "gate") : GatesMade(p, n, i) = g => i = at
  BY MadeApart DEF GatesMade
<1> HIDE DEF g
<1>4. \E i \in Kind(p, n, "gate") : GatesMade(p, n, i) = (g + 1) - 1
  BY <1>1 DEF g
<1>5. /\ Abstract!GateCall(p, n, g + 1) \in Kind(p, n, "gate")
      /\ GatesMade(p, n, Abstract!GateCall(p, n, g + 1)) = (g + 1) - 1
  BY <1>2, <1>4
<1> QED
  BY <1>1, <1>3, <1>5 DEF g

(* A new segment holds what its body has made.                             *)
LEMMA HoldsFirst ==
  ASSUME NEW p \in Programs, NEW q, NEW n \in Routines
  PROVE  Holds(p, q, n, 1, NewSegment(q).gates) /\ GatesMade(p, n, 1) = 0
<1>1. GatesMade(p, n, 1) = 0
  BY GatesCounted
<1>2. Len(NewSegment(q).gates) = Base(q) /\ Base(q) \in Nat
  BY NewSegmentIs DEF Base
<1>3. q = <<>> => NewSegment(q).gates[1] = Placeholder
  BY DEF NewSegment
<1> QED
  BY <1>1, <1>2, <1>3 DEF Holds

(* A gate() puts its gate after the others.                                *)
LEMMA HoldsGate ==
  ASSUME NEW p \in Programs, NEW q, NEW n \in Routines, NEW at \in Kind(p, n, "gate"),
         NEW gates \in Seq(TraceGate), Holds(p, q, n, at, gates)
  PROVE  Holds(p, q, n, at + 1, Append(gates, [abc |-> p[n].ops[at].val, d |-> 0]))
<1> DEFINE g == GatesMade(p, n, at)
           b == Base(q)
           e == [abc |-> p[n].ops[at].val, d |-> 0]
           new == Append(gates, e)
<1>1. at \in Nat \ {0} /\ g \in Nat /\ b \in {0, 1} /\ GatesMade(p, n, at + 1) = g + 1
      /\ (q = <<>> <=> b = 1)
  BY GatesCounted DEF Base
<1>2. /\ Len(gates) = b + g /\ (q = <<>> => gates[1] = Placeholder)
      /\ \A k \in 1 .. g : gates[b + k] = GateThere(p, n, k, at)
  BY DEF Holds
<1>3. at \notin Kind(p, n, "assign_extra")
  BY DEF Kind
<1>4. \A k : Abstract!ExtraCalls(p, n, k) = { i \in Kind(p, n, "assign_extra") : p[n].ops[i].gate = k }
  BY SameBodies DEF Abstract!ExtraCalls
<1>5. \A k : ExtrasBefore(p, n, k, at + 1) = ExtrasBefore(p, n, k, at)
  <2> TAKE k
  <2>1. \A i \in Abstract!ExtraCalls(p, n, k) : i \in Nat /\ i # at
    BY <1>3, <1>4, ExtraIs
  <2>2. \A i \in Abstract!ExtraCalls(p, n, k) : i < at + 1 <=> i < at
    BY <2>1, <1>1
  <2> QED
    BY <2>2 DEF ExtrasBefore
<1>6. ExtrasBefore(p, n, g + 1, at + 1) = {}
  <2> SUFFICES ASSUME NEW i \in ExtrasBefore(p, n, g + 1, at) PROVE FALSE
    BY <1>5
  <2>1. i \in Kind(p, n, "assign_extra") /\ p[n].ops[i].gate = g + 1 /\ i < at
    BY <1>4 DEF ExtrasBefore
  <2>2. g + 1 <= GatesMade(p, n, i) /\ i \in Nat
    BY <2>1, ExtraIs
  <2>3. GatesMade(p, n, i) <= g /\ GatesMade(p, n, i) \in Nat
    BY <2>1, <2>2, <1>1, GatesCounted
  <2> QED
    BY <2>2, <2>3, <1>1
<1>7. GateThere(p, n, g + 1, at + 1) = e
  BY <1>6, GateCallIs DEF GateThere, Abstract!LastValue
<1> HIDE DEF new, e
<1>8. /\ Len(new) = b + g + 1 /\ new[b + g + 1] = e
      /\ \A k \in 1 .. b + g : new[k] = gates[k]
  <2>1. IsList(gates)
    BY ListOf
  <2> QED
    BY <2>1, <1>2, Appended DEF new
<1>9. ASSUME NEW k \in 1 .. g + 1 PROVE new[b + k] = GateThere(p, n, k, at + 1)
  <2>1. CASE k = g + 1
    <3>1. b + k = b + g + 1
      BY <2>1, <1>1
    <3> QED
      BY <2>1, <3>1, <1>7, <1>8
  <2>2. CASE k # g + 1
    <3>1. k \in 1 .. g /\ b + k \in 1 .. b + g
      BY <2>2, <1>1
    <3> QED
      BY <3>1, <1>2, <1>5, <1>8 DEF GateThere
  <2> QED
    BY <2>1, <2>2
<1>10. q = <<>> => new[1] = Placeholder
  BY <1>1, <1>2, <1>8
<1>11. Len(new) = b + (g + 1)
  BY <1>1, <1>8
<1>12. Holds(p, q, n, at + 1, new)
  BY <1>1, <1>9, <1>10, <1>11 DEF Holds
<1> QED
  BY <1>12 DEF new, e

(* An assign_extra() overwrites the d of its gate.                         *)
LEMMA HoldsExtra ==
  ASSUME NEW p \in Programs, NEW q, NEW n \in Routines, NEW at \in Kind(p, n, "assign_extra"),
         NEW gates \in Seq(TraceGate), Holds(p, q, n, at, gates),
         NEW token, token = Base(q) + p[n].ops[at].gate
  PROVE  Holds(p, q, n, at + 1, [gates EXCEPT ![token].d = p[n].ops[at].val])
<1> DEFINE g == GatesMade(p, n, at)
           b == Base(q)
           h == p[n].ops[at].gate
           v == p[n].ops[at].val
           new == [gates EXCEPT ![token].d = v]
<1>1. at \in Nat \ {0} /\ g \in Nat /\ b \in {0, 1} /\ h \in 1 .. g /\ (q = <<>> <=> b = 1)
  BY ExtraIs, GatesCounted DEF Base
<1>2. at \notin Kind(p, n, "gate")
  BY DEF Kind
<1>3. GatesMade(p, n, at + 1) = g
  BY <1>1, <1>2, GatesCounted
<1>4. /\ Len(gates) = b + g /\ (q = <<>> => gates[1] = Placeholder)
      /\ \A k \in 1 .. g : gates[b + k] = GateThere(p, n, k, at)
  BY DEF Holds
<1>5. \A k : Abstract!ExtraCalls(p, n, k) = { i \in Kind(p, n, "assign_extra") : p[n].ops[i].gate = k }
  BY SameBodies DEF Abstract!ExtraCalls
<1>6. ASSUME NEW k, k # h PROVE ExtrasBefore(p, n, k, at + 1) = ExtrasBefore(p, n, k, at)
  <2>1. \A i \in Abstract!ExtraCalls(p, n, k) : i \in Nat /\ i # at
    BY <1>5, <1>6, ExtraIs
  <2>2. \A i \in Abstract!ExtraCalls(p, n, k) : i < at + 1 <=> i < at
    BY <2>1, <1>1
  <2> QED
    BY <2>2 DEF ExtrasBefore
<1>7. GateThere(p, n, h, at + 1) = [GateThere(p, n, h, at) EXCEPT !.d = v]
  <2> DEFINE is == ExtrasBefore(p, n, h, at + 1)
  <2>1. at \in Abstract!ExtraCalls(p, n, h)
    BY <1>5
  <2>6. \A i \in is : i \in Kind(p, n, "assign_extra") /\ i < at + 1
    BY <1>5 DEF ExtrasBefore
  <2>7. \A i \in is : i \in Nat
    BY <2>6, ExtraIs
  <2>8. at \in is
    BY <2>1, <1>1 DEF ExtrasBefore
  <2>2. at \in is /\ \A i \in is : i \in Nat /\ i <= at
    BY <2>6, <2>7, <2>8, <1>1
  <2>3. \A i \in is : (\A j \in is : j <= i) => i = at
    BY <2>2, <1>1
  <2> HIDE DEF is
  <2>4. (CHOOSE i \in is : \A j \in is : j <= i) = at
    BY <2>2, <2>3
  <2>5. Abstract!LastValue(p, n, is) = v
    BY <2>2, <2>4 DEF Abstract!LastValue
  <2> QED
    BY <2>5 DEF GateThere, is
<1>8. token \in 1 .. Len(gates) /\ token = b + h
  BY <1>1, <1>4
<1> HIDE DEF new, h, v, g, b
<1>9. /\ Len(new) = Len(gates)
      /\ new[token] = [gates[token] EXCEPT !.d = v]
      /\ \A k \in 1 .. Len(gates) : k # token => new[k] = gates[k]
  <2>1. new = [gates EXCEPT ![token] = [gates[token] EXCEPT !.d = v]]
    BY DEF new
  <2>2. gates[token] \in TraceGate /\ v \in Nat
    BY <1>8, ExtraIs DEF v
  <2>3. [gates[token] EXCEPT !.d = v] \in TraceGate
    BY <2>2 DEF TraceGate
  <2>4. DOMAIN gates = 1 .. Len(gates)
    OBVIOUS
  <2> QED
    BY <2>1, <2>3, <2>4, <1>8, ExceptSeq
<1>10. ASSUME NEW k \in 1 .. g PROVE new[b + k] = GateThere(p, n, k, at + 1)
  <2>1. b + k \in 1 .. Len(gates)
    BY <1>1, <1>4
  <2>2. CASE k = h
    BY <2>1, <2>2, <1>4, <1>7, <1>8, <1>9
  <2>3. CASE k # h
    <3>1. b + k # token
      BY <2>3, <1>1, <1>8
    <3>2. ExtrasBefore(p, n, k, at + 1) = ExtrasBefore(p, n, k, at)
      BY <2>3, <1>6
    <3> QED
      BY <2>1, <3>1, <3>2, <1>4, <1>9 DEF GateThere
  <2> QED
    BY <2>2, <2>3
<1>11. q = <<>> => new[1] = Placeholder
  BY <1>1, <1>4, <1>8, <1>9
<1>12. Holds(p, q, n, at + 1, new)
  BY <1>3, <1>4, <1>9, <1>10, <1>11 DEF Holds, g, b
<1> QED
  BY <1>12 DEF new, v

(* Any other call leaves the gates as they are.                            *)
LEMMA HoldsOther ==
  ASSUME NEW p \in Programs, NEW q, NEW n \in Routines, NEW at \in Nat \ {0},
         at \notin Kind(p, n, "gate"), at \notin Kind(p, n, "assign_extra"),
         NEW gates, Holds(p, q, n, at, gates)
  PROVE  Holds(p, q, n, at + 1, gates) /\ GatesMade(p, n, at + 1) = GatesMade(p, n, at)
<1>1. GatesMade(p, n, at + 1) = GatesMade(p, n, at)
  BY GatesCounted
<1>2. \A k : ExtrasBefore(p, n, k, at + 1) = ExtrasBefore(p, n, k, at)
  <2> TAKE k
  <2>1. Abstract!ExtraCalls(p, n, k) = { i \in Kind(p, n, "assign_extra") : p[n].ops[i].gate = k }
    BY SameBodies DEF Abstract!ExtraCalls
  <2>2. \A i \in Abstract!ExtraCalls(p, n, k) : i \in Nat /\ i # at
    BY <2>1, ExtraIs
  <2>3. \A i \in Abstract!ExtraCalls(p, n, k) : i < at + 1 <=> i < at
    BY <2>2
  <2> QED
    BY <2>3 DEF ExtrasBefore
<1> QED
  BY <1>1, <1>2 DEF Holds, GateThere

(* After the last call the segment has the gates of its body.              *)
LEMMA HoldsAll ==
  ASSUME NEW p \in Programs, NEW q, NEW n \in Routines, NEW at \in Nat \ {0},
         at > Len(p[n].ops), NEW gates \in Seq(TraceGate), Holds(p, q, n, at, gates)
  PROVE  gates = Abstract!GatesOf(p, <<q, n>>)
<1> DEFINE g == Cardinality(Kind(p, n, "gate"))
           own == Abstract!OwnGates(p, n)
           first == IF q = <<>> THEN <<Placeholder>> ELSE <<>>
<1>1. GatesMade(p, n, at) = g /\ g \in Nat
  BY GatesCounted
<1>2. /\ Len(gates) = Base(q) + g /\ (q = <<>> => gates[1] = Placeholder)
      /\ \A k \in 1 .. g : gates[Base(q) + k] = GateThere(p, n, k, at)
  BY <1>1 DEF Holds
<1>3. \A k : ExtrasBefore(p, n, k, at) = Abstract!ExtraCalls(p, n, k)
  <2> TAKE k
  <2>1. Abstract!ExtraCalls(p, n, k) = { i \in Kind(p, n, "assign_extra") : p[n].ops[i].gate = k }
    BY SameBodies DEF Abstract!ExtraCalls
  <2>2. \A i \in Abstract!ExtraCalls(p, n, k) : i < at
    BY <2>1, Bodies DEF Kind
  <2> QED
    BY <2>2 DEF ExtrasBefore
<1>4. Cardinality(Abstract!Kind(p, n, "gate")) = g
  BY SameBodies
<1>5. own = [k \in 1 .. g |-> GateThere(p, n, k, at)]
  <2>1. own = [k \in 1 .. g |->
                 [abc |-> p[n].ops[Abstract!GateCall(p, n, k)].val,
                  d |-> Abstract!LastValue(p, n, Abstract!ExtraCalls(p, n, k))]]
    BY <1>4 DEF Abstract!OwnGates, Abstract!Cardinality, Cardinality
  <2> QED
    BY <2>1, <1>3 DEF GateThere
<1> HIDE DEF own, g
<1>6. IsList(own) /\ Len(own) = g /\ \A k \in 1 .. g : own[k] = GateThere(p, n, k, at)
  <2>1. DOMAIN own = 1 .. g /\ \A k \in 1 .. g : own[k] = GateThere(p, n, k, at)
    BY <1>5
  <2>2. own = [k \in 1 .. g |-> own[k]]
    BY <1>5, <2>1
  <2> QED
    BY <2>1, <2>2, <1>1, TabledList
<1>7. Abstract!GatesOf(p, <<q, n>>) = first \o own
  BY DEF Abstract!GatesOf, Abstract!Placeholder, Placeholder, own
<1>8. IsList(first) /\ Len(first) = Base(q) /\ (q = <<>> => first[1] = Placeholder)
  <2>1. CASE q = <<>>
    BY <2>1, Single DEF Base
  <2>2. CASE q # <<>>
    <3>1. first = <<>> /\ Base(q) = 0
      BY <2>2 DEF Base
    <3>2. IsList(<<>>) /\ Len(<<>>) = 0
      BY DEF IsList
    <3> QED
      BY <2>2, <3>1, <3>2
  <2> QED
    BY <2>1, <2>2
<1> HIDE DEF first
<1>9. /\ IsList(first \o own) /\ Len(first \o own) = Base(q) + g
      /\ \A k \in 1 .. Base(q) : (first \o own)[k] = first[k]
      /\ \A k \in 1 .. g : (first \o own)[Base(q) + k] = own[k]
  BY <1>6, <1>8, JoinedTo
<1>10. ASSUME NEW k \in 1 .. Len(gates) PROVE gates[k] = (first \o own)[k]
  <2>1. Base(q) \in {0, 1} /\ (Base(q) = 1 <=> q = <<>>)
    BY DEF Base
  <2>2. CASE k \in 1 .. Base(q)
    <3>1. k = 1 /\ q = <<>>
      BY <2>1, <2>2
    <3> QED
      BY <2>2, <3>1, <1>2, <1>8, <1>9
  <2>3. CASE k \notin 1 .. Base(q)
    <3>1. k - Base(q) \in 1 .. g /\ k = Base(q) + (k - Base(q))
      BY <2>1, <2>3, <1>1, <1>2
    <3>2. gates[Base(q) + (k - Base(q))] = (first \o own)[Base(q) + (k - Base(q))]
      BY <3>1, <1>2, <1>6, <1>9
    <3> QED
      BY <3>1, <3>2
  <2> QED
    BY <2>2, <2>3
<1>11. IsList(gates)
  BY ListOf
<1>12. gates = first \o own
  BY <1>2, <1>9, <1>10, <1>11, SameLists
<1> QED
  BY <1>7, <1>12
-----------------------------------------------------------------------------
(* What the segments of an evaluator hold: those of its scopes the gates   *)
(* made there, whose tokens the scopes have, those of no scope the gates of *)
(* a body that raised nothing.                                             *)
Tokens(extras, m, b) == Len(extras) = m /\ \A k \in 1 .. m : extras[k] = b + k
FrameHolds(p, ev, i) ==
  LET f == ev.stack[i]
  IN  /\ Holds(p, f.dfs_prefix, f.name, f.at, ev.segments[f.current_segment].gates)
      /\ Tokens(f.extras, GatesMade(p, f.name, f.at), Base(f.dfs_prefix))
SegmentHolds(p, in, ev, s) ==
  (\A i \in DOMAIN ev.stack : ev.stack[i].current_segment # s) /\ ev.err = Ok
    => \A n : CalledAs(p, ev.segments[s].dfs_path, n) =>
         /\ n \notin Abstract!Raising(p, in)
         /\ ev.segments[s].gates = Abstract!GatesOf(p, <<ev.segments[s].dfs_path, n>>)
Content(p, in, ev) ==
  /\ \A i \in DOMAIN ev.stack : FrameHolds(p, ev, i)
  /\ \A s \in DOMAIN ev.segments : SegmentHolds(p, in, ev, s)

(* The innermost scope of a running evaluator.                             *)
LEMMA TopIs ==
  ASSUME NEW ev, WellFormed(ev), Running(ev)
  PROVE  /\ ev \in EvaluatorSet /\ Top(ev) = ev.stack[1] /\ 1 \in DOMAIN ev.stack
         /\ DOMAIN ev.stack = 1 .. Len(ev.stack) /\ Len(ev.stack) \in Nat
         /\ Top(ev) \in Frame /\ Top(ev).name \in Routines /\ Top(ev).at \in Nat \ {0}
         /\ Top(ev).extras \in Seq(Nat \ {0})
         /\ Top(ev).current_segment \in DOMAIN ev.segments
         /\ ev.segments[Top(ev).current_segment] \in Segment
         /\ ev.segments[Top(ev).current_segment].gates \in Seq(TraceGate)
         /\ ev.segments[Top(ev).current_segment].dfs_path = Top(ev).dfs_prefix
         /\ \A i \in DOMAIN ev.stack : i # 1 =>
              ev.stack[i].current_segment # Top(ev).current_segment
<1>1. /\ ev \in EvaluatorSet /\ Top(ev) = ev.stack[1] /\ 1 \in DOMAIN ev.stack
      /\ DOMAIN ev.stack = 1 .. Len(ev.stack) /\ Len(ev.stack) \in Nat
      /\ Top(ev) \in Frame /\ Top(ev).name \in Routines /\ Top(ev).at \in Nat \ {0}
  BY StackIs DEF WellFormed
<1>2. /\ Top(ev).current_segment \in DOMAIN ev.segments
      /\ ev.segments[Top(ev).current_segment].dfs_path = Top(ev).dfs_prefix
  BY <1>1 DEF WellFormed, OwnsSegment
<1>3. ev.segments[Top(ev).current_segment] \in Segment
  BY <1>1, <1>2 DEF EvaluatorSet
<1>4. Top(ev).extras \in Seq(Nat \ {0}) /\ ev.segments[Top(ev).current_segment].gates \in Seq(TraceGate)
  BY <1>1, <1>3 DEF Frame, Segment
<1>5. ASSUME NEW i \in DOMAIN ev.stack, i # 1 PROVE ev.stack[i].current_segment # Top(ev).current_segment
  <2>1. i \in Nat /\ 1 < i
    BY <1>1, <1>5
  <2>2. ev.stack[i].current_segment < ev.stack[1].current_segment
    BY <2>1, <1>1, <1>5 DEF WellFormed
  <2>3. ev.stack \in Seq(Frame)
    BY <1>1 DEF EvaluatorSet
  <2>4. ev.stack[i] \in Frame /\ ev.stack[1] \in Frame
    BY <2>3, <1>1, <1>5
  <2> QED
    BY <2>2, <2>4, <1>1 DEF Frame
<1> QED
  BY <1>1, <1>2, <1>3, <1>4, <1>5

(* A step within a scope disturbs no other.                                *)
LEMMA ContentOn ==
  ASSUME NEW p, NEW in, NEW ev, WellFormed(ev), Running(ev), Content(p, in, ev),
         NEW new, WellFormed(new), GoesOn(p, ev, new), FrameHolds(p, new, 1)
  PROVE  Content(p, in, new)
<1> DEFINE c == Top(ev).current_segment
<1>1. /\ 1 \in DOMAIN ev.stack /\ c \in DOMAIN ev.segments
      /\ Top(ev) = ev.stack[1] /\ Top(new) = new.stack[1]
      /\ \A i \in DOMAIN ev.stack : i # 1 => ev.stack[i].current_segment # c
  BY TopIs DEF Top
<1>2. /\ DOMAIN new.segments = DOMAIN ev.segments
      /\ \A s \in DOMAIN ev.segments :
           /\ new.segments[s].dfs_path = ev.segments[s].dfs_path
           /\ s # c => new.segments[s].gates = ev.segments[s].gates
      /\ DOMAIN new.stack = DOMAIN ev.stack
      /\ \A i \in DOMAIN ev.stack : i # 1 => new.stack[i] = ev.stack[i]
      /\ new.stack[1].current_segment = c
      /\ new.err = ev.err
  BY <1>1 DEF GoesOn
<1> HIDE DEF c
<1>3. ASSUME NEW i \in DOMAIN new.stack PROVE FrameHolds(p, new, i)
  <2>1. CASE i = 1
    BY <2>1
  <2>2. CASE i # 1
    <3>1. /\ new.stack[i] = ev.stack[i] /\ FrameHolds(p, ev, i)
          /\ ev.stack[i].current_segment \in DOMAIN ev.segments
          /\ ev.stack[i].current_segment # c
      BY <2>2, <1>1, <1>2 DEF Content, WellFormed, OwnsSegment
    <3>2. new.segments[ev.stack[i].current_segment].gates = ev.segments[ev.stack[i].current_segment].gates
      BY <3>1, <1>2
    <3> QED
      BY <3>1, <3>2 DEF FrameHolds
  <2> QED
    BY <2>1, <2>2
<1>4. ASSUME NEW s \in DOMAIN new.segments PROVE SegmentHolds(p, in, new, s)
  <2>1. CASE s = c
    BY <2>1, <1>1, <1>2 DEF SegmentHolds
  <2>2. CASE s # c
    <3>1. SegmentHolds(p, in, ev, s)
      BY <1>2 DEF Content
    <3>2. \A i \in DOMAIN ev.stack : ev.stack[i].current_segment = new.stack[i].current_segment
      BY <1>1, <1>2 DEF c
    <3> QED
      BY <2>2, <3>1, <3>2, <1>2 DEF SegmentHolds
  <2> QED
    BY <2>1, <2>2
<1> QED
  BY <1>3, <1>4 DEF Content

(* gate().                                                                 *)
LEMMA ContentGate ==
  ASSUME NEW p \in Programs, NEW in, NEW ev, WellFormed(ev), AboutTo(p, ev, "gate"), Content(p, in, ev)
  PROVE  Content(p, in, PushGate(ev, NextOp(p, ev))) /\ WellFormed(PushGate(ev, NextOp(p, ev)))
<1> DEFINE op    == NextOp(p, ev)
           c     == Top(ev).current_segment
           q     == Top(ev).dfs_prefix
           n     == Top(ev).name
           at    == Top(ev).at
           m     == GatesMade(p, n, at)
           old   == ev.segments[c].gates
           gate  == [abc |-> op.val, d |-> 0]
           gates == Append(old, gate)
           token == Len(old) + 1
           g     == [Top(ev) EXCEPT !.extras = Append(@, token)]
           f     == Advanced(g)
           new   == PushGate(ev, op)
<1>0. Running(ev) /\ ~AtEnd(p, ev) /\ op.kind = "gate"
  BY DEF AboutTo
<1>1. /\ ev \in EvaluatorSet /\ Top(ev) \in Frame /\ Top(ev) = ev.stack[1] /\ 1 \in DOMAIN ev.stack
      /\ n \in Routines /\ at \in Nat \ {0} /\ Top(ev).extras \in Seq(Nat \ {0})
      /\ c \in DOMAIN ev.segments /\ ev.segments[c] \in Segment /\ old \in Seq(TraceGate)
  BY <1>0, TopIs
<1>2. op \in GateOp
  <2>1. op \in Op
    BY <1>0, <1>1, NextOpType
  <2> QED
    BY <2>1, <1>0 DEF Op, GateOp, AssignExtraOp, LinearOp, RoutineOp
<1>3. gate \in TraceGate
  BY <1>2 DEF TraceGate, GateOp
<1>4. gates \in Seq(TraceGate)
  BY <1>1, <1>3, AppendProperties
<1>5. token \in Nat \ {0} /\ Append(Top(ev).extras, token) \in Seq(Nat \ {0})
  BY <1>1
<1>6. /\ g \in Frame /\ g.current_segment = c /\ g.dfs_prefix = q
      /\ g.name = n /\ g.at = at /\ g.extras = Append(Top(ev).extras, token)
  BY <1>1, <1>5 DEF Frame
<1>7. at \in Kind(p, n, "gate")
  BY <1>0, NextCall
<1>8. WellFormed(new) /\ GoesOn(p, ev, new)
  BY <1>0, <1>2, PushGateStep, PushGateGoesOn
<1>9. Holds(p, q, n, at, old) /\ Tokens(Top(ev).extras, m, Base(q))
  BY <1>1 DEF Content, FrameHolds
<1>10. Holds(p, q, n, at + 1, gates)
  BY <1>1, <1>7, <1>9, HoldsGate DEF NextOp
<1>11. m \in Nat /\ GatesMade(p, n, at + 1) = m + 1
  BY <1>1, <1>7, GatesCounted
<1>12. token = Base(q) + (m + 1)
  BY <1>9, <1>11 DEF Holds, Base
<1> HIDE DEF g, gates, new, token, gate, op, f, m, old
<1>13. new = Wrote(ev, gates, f)
  BY <1>1 DEF PushGate, SetTop, EvaluatorSet, Segment, Wrote, new, gates, f, g, gate, token, op, old
<1>14. /\ f \in Frame /\ f.current_segment = c /\ f.dfs_prefix = q
       /\ f.name = n /\ f.at = at + 1 /\ f.extras = Append(Top(ev).extras, token)
  BY <1>6, AdvancedFrame, AdvancedIs DEF f
<1>15. new.segments[c].gates = gates /\ Top(new) = f
  BY <1>0, <1>4, <1>13, <1>14, Written
<1>16. Tokens(f.extras, m + 1, Base(q))
  <2> DEFINE old_extras == Top(ev).extras
  <2>1. /\ Len(old_extras) = m /\ \A k \in 1 .. m : old_extras[k] = Base(q) + k
        /\ old_extras \in Seq(Nat \ {0})
    BY <1>1, <1>9 DEF Tokens
  <2>2. /\ Len(Append(old_extras, token)) = m + 1
        /\ \A k \in 1 .. m : Append(old_extras, token)[k] = old_extras[k]
        /\ Append(old_extras, token)[m + 1] = token
    BY <2>1, <1>5, AppendProperties
  <2> HIDE DEF old_extras
  <2>3. \A k \in 1 .. m + 1 : k \in 1 .. m \/ k = m + 1
    BY <1>11
  <2>4. f.extras = Append(old_extras, token)
    BY <1>14 DEF old_extras
  <2> QED
    BY <2>1, <2>2, <2>3, <2>4, <1>12 DEF Tokens
<1>17. FrameHolds(p, new, 1)
  BY <1>10, <1>11, <1>14, <1>15, <1>16 DEF FrameHolds, Top
<1>18. Content(p, in, new)
  BY <1>0, <1>8, <1>17, ContentOn
<1> QED
  BY <1>8, <1>18 DEF new, op

(* assign_extra().                                                         *)
LEMMA ContentExtra ==
  ASSUME NEW p \in Programs, NEW in, NEW ev, WellFormed(ev), AboutTo(p, ev, "assign_extra"),
         Content(p, in, ev)
  PROVE  Content(p, in, SetExtra(ev, NextOp(p, ev))) /\ WellFormed(SetExtra(ev, NextOp(p, ev)))
<1> DEFINE op    == NextOp(p, ev)
           c     == Top(ev).current_segment
           q     == Top(ev).dfs_prefix
           n     == Top(ev).name
           at    == Top(ev).at
           m     == GatesMade(p, n, at)
           old   == ev.segments[c].gates
           token == Top(ev).extras[op.gate]
           gates == [old EXCEPT ![token].d = op.val]
           f     == Advanced(Top(ev))
           new   == SetExtra(ev, op)
<1>0. Running(ev) /\ ~AtEnd(p, ev) /\ op.kind = "assign_extra"
  BY DEF AboutTo
<1>1. /\ ev \in EvaluatorSet /\ Top(ev) \in Frame /\ Top(ev) = ev.stack[1] /\ 1 \in DOMAIN ev.stack
      /\ n \in Routines /\ at \in Nat \ {0} /\ Top(ev).extras \in Seq(Nat \ {0})
      /\ c \in DOMAIN ev.segments /\ ev.segments[c] \in Segment /\ old \in Seq(TraceGate)
  BY <1>0, TopIs
<1>2. op \in AssignExtraOp
  <2>1. op \in Op
    BY <1>0, <1>1, NextOpType
  <2> QED
    BY <2>1, <1>0 DEF Op, GateOp, AssignExtraOp, LinearOp, RoutineOp
<1>3. at \in Kind(p, n, "assign_extra") /\ at \notin Kind(p, n, "gate")
  BY <1>0, NextCall DEF Kind, NextOp
<1>4. WellFormed(new) /\ GoesOn(p, ev, new)
  BY <1>0, <1>2, SetExtraStep, SetExtraGoesOn
<1>5. Holds(p, q, n, at, old) /\ Tokens(Top(ev).extras, m, Base(q))
  BY <1>1 DEF Content, FrameHolds
<1>6. op = p[n].ops[at] /\ op.gate \in 1 .. m
  BY <1>1, <1>3, ExtraIs DEF NextOp
<1>7. token = Base(q) + p[n].ops[at].gate
  BY <1>5, <1>6 DEF Tokens
<1>8. Holds(p, q, n, at + 1, gates)
  <2> HIDE DEF token, old
  <2>1. Holds(p, q, n, at + 1, [old EXCEPT ![token].d = p[n].ops[at].val])
    BY <1>1, <1>3, <1>5, <1>7, HoldsExtra
  <2> QED
    BY <2>1, <1>6
<1>9. GatesMade(p, n, at + 1) = m
  BY <1>1, <1>3, GatesCounted
<1>10. gates \in Seq(TraceGate)
  <2> DEFINE e == [old[token] EXCEPT !.d = op.val]
  <2>1. token \in DOMAIN old => e \in TraceGate
    <3>1. token \in DOMAIN old => old[token] \in TraceGate
      BY <1>1
    <3> QED
      BY <3>1, <1>2 DEF TraceGate, AssignExtraOp
  <2>2. gates = [old EXCEPT ![token] = e]
    OBVIOUS
  <2> HIDE DEF e, old, gates, token
  <2> QED
    BY <2>1, <2>2, <1>1, ExceptAnywhere
<1> HIDE DEF gates, new, f, token, old, op, m
<1>11. new = Wrote(ev, gates, f)
  BY <1>1 DEF SetExtra, SetTop, EvaluatorSet, Segment, Wrote, new, gates, f, token, old, op
<1>12. /\ f \in Frame /\ f.current_segment = c /\ f.dfs_prefix = q
       /\ f.name = n /\ f.at = at + 1 /\ f.extras = Top(ev).extras
  BY <1>1, AdvancedFrame, AdvancedIs DEF f
<1>13. new.segments[c].gates = gates /\ Top(new) = f
  BY <1>0, <1>10, <1>11, <1>12, Written
<1>14. FrameHolds(p, new, 1)
  BY <1>5, <1>8, <1>9, <1>12, <1>13 DEF FrameHolds, Top
<1>15. Content(p, in, new)
  BY <1>0, <1>4, <1>14, ContentOn
<1> QED
  BY <1>4, <1>15 DEF new, op

(* A call that writes nothing.                                             *)
LEMMA ContentSetTop ==
  ASSUME NEW p \in Programs, NEW in, NEW ev, WellFormed(ev), Running(ev), ~AtEnd(p, ev), Content(p, in, ev),
         NextOp(p, ev).kind \notin {"gate", "assign_extra"},
         NEW f, f.name = Top(ev).name, f.at = Top(ev).at + 1, f.dfs_prefix = Top(ev).dfs_prefix,
         f.current_segment = Top(ev).current_segment, f.extras = Top(ev).extras,
         NEW new, new = SetTop(ev, f), WellFormed(new), GoesOn(p, ev, new)
  PROVE  Content(p, in, new)
<1> DEFINE c  == Top(ev).current_segment
           q  == Top(ev).dfs_prefix
           n  == Top(ev).name
           at == Top(ev).at
<1>1. /\ ev \in EvaluatorSet /\ Top(ev) = ev.stack[1] /\ 1 \in DOMAIN ev.stack
      /\ n \in Routines /\ at \in Nat \ {0}
  BY TopIs
<1>2. at \notin Kind(p, n, "gate") /\ at \notin Kind(p, n, "assign_extra")
  BY DEF Kind, NextOp
<1>3. /\ Holds(p, q, n, at, ev.segments[c].gates)
      /\ Tokens(Top(ev).extras, GatesMade(p, n, at), Base(q))
  BY <1>1 DEF Content, FrameHolds
<1>4. /\ Holds(p, q, n, at + 1, ev.segments[c].gates)
      /\ GatesMade(p, n, at + 1) = GatesMade(p, n, at)
  BY <1>1, <1>2, <1>3, HoldsOther
<1>5. new.segments = ev.segments /\ new.stack[1] = f
  BY <1>1 DEF SetTop, EvaluatorSet
<1>6. FrameHolds(p, new, 1)
  BY <1>3, <1>4, <1>5 DEF FrameHolds
<1> QED
  BY <1>6, ContentOn

(* add() and enforce_zero().                                               *)
LEMMA ContentIgnore ==
  ASSUME NEW p \in Programs, NEW in, NEW ev, WellFormed(ev), Content(p, in, ev),
         AboutTo(p, ev, "add") \/ AboutTo(p, ev, "enforce_zero")
  PROVE  Content(p, in, Ignore(ev)) /\ WellFormed(Ignore(ev))
<1> DEFINE f == Advanced(Top(ev))
           new == Ignore(ev)
<1>1. /\ Running(ev) /\ ~AtEnd(p, ev) /\ NextOp(p, ev).kind \notin {"gate", "assign_extra"}
  BY DEF AboutTo
<1>2. WellFormed(new) /\ GoesOn(p, ev, new) /\ new = SetTop(ev, f)
  BY <1>1, IgnoreStep, IgnoreGoesOn DEF Ignore
<1>3. Top(ev) \in Frame
  BY <1>1, TopIs
<1>4. /\ f.current_segment = Top(ev).current_segment /\ f.dfs_prefix = Top(ev).dfs_prefix
      /\ f.name = Top(ev).name /\ f.at = Top(ev).at + 1 /\ f.extras = Top(ev).extras
  BY <1>3, AdvancedFrame, AdvancedIs
<1> HIDE DEF f, new
<1>5. Content(p, in, new)
  BY <1>1, <1>2, <1>4, ContentSetTop
<1> QED
  BY <1>2, <1>5 DEF new

(* routine(), for the caller.                                              *)
LEMMA ContentDefer ==
  ASSUME NEW p \in Programs, NEW in, NEW ev, WellFormed(ev), Content(p, in, ev), AboutTo(p, ev, "routine")
  PROVE  Content(p, in, DeferRoutine(ev)) /\ WellFormed(DeferRoutine(ev))
<1> DEFINE f == Counted(Top(ev))
           new == DeferRoutine(ev)
<1>1. /\ Running(ev) /\ ~AtEnd(p, ev) /\ NextOp(p, ev).kind \notin {"gate", "assign_extra"}
  BY DEF AboutTo
<1>2. WellFormed(new) /\ GoesOn(p, ev, new) /\ new = SetTop(ev, f)
  BY <1>1, DeferStep, DeferGoesOn DEF DeferRoutine
<1>3. Top(ev) \in Frame
  BY <1>1, TopIs
<1>4. /\ f.current_segment = Top(ev).current_segment /\ f.dfs_prefix = Top(ev).dfs_prefix
      /\ f.name = Top(ev).name /\ f.at = Top(ev).at + 1 /\ f.extras = Top(ev).extras
  BY <1>3, CountedFrame DEF Counted, Advanced, Frame
<1> HIDE DEF f, new
<1>5. Content(p, in, new)
  BY <1>1, <1>2, <1>4, ContentSetTop
<1> QED
  BY <1>2, <1>5 DEF new

(* Entering a routine.                                                     *)
LEMMA ContentEnter ==
  ASSUME NEW p \in Programs, NEW in, NEW ev, WellFormed(ev), Content(p, in, ev), AboutTo(p, ev, "routine")
  PROVE  Content(p, in, EnterRoutine(ev, NextOp(p, ev)))
<1> DEFINE op  == NextOp(p, ev)
           mid == DeferRoutine(ev)
           new == EnterRoutine(ev, op)
           q   == ChildPrefix(ev)
           n   == Len(mid.segments)
<1>1. Running(ev) /\ ~AtEnd(p, ev) /\ op.kind = "routine"
  BY DEF AboutTo
<1>2. /\ WellFormed(mid) /\ new.err = mid.err
      /\ DOMAIN mid.segments = 1 .. n /\ n \in Nat
      /\ DOMAIN new.segments = 1 .. n + 1
      /\ new.segments[n + 1] = NewSegment(q)
      /\ \A s \in 1 .. n : new.segments[s] = mid.segments[s]
      /\ new.stack[1] = NewFrame(op.name, n + 1, q)
      /\ \A i \in DOMAIN new.stack : i # 1 =>
           i - 1 \in DOMAIN mid.stack /\ new.stack[i] = mid.stack[i - 1]
      /\ \A i \in DOMAIN mid.stack : i + 1 \in DOMAIN new.stack /\ new.stack[i + 1] = mid.stack[i]
  BY EnterIs
<1>3. Content(p, in, mid)
  BY ContentDefer
<1>4. op.name \in Routines
  <2>1. Top(ev).name \in Routines /\ Top(ev).at \in Calls(p, Top(ev).name)
    BY <1>1, NextCall
  <2> QED
    BY <2>1, CallNames DEF NextOp
<1>5. WellFormed(new) /\ new.stack # <<>>
  BY EnterIs
<1> HIDE DEF op, mid, new, n
<1>6. /\ new.stack[1].name = op.name /\ new.stack[1].at = 1 /\ new.stack[1].extras = <<>>
      /\ new.stack[1].current_segment = n + 1 /\ new.stack[1].dfs_prefix = q
  BY <1>2 DEF NewFrame
<1>7. FrameHolds(p, new, 1)
  <2>1. Holds(p, q, op.name, 1, NewSegment(q).gates) /\ GatesMade(p, op.name, 1) = 0
    BY <1>4, HoldsFirst
  <2>2. Tokens(<<>>, 0, Base(q))
    BY DEF Tokens
  <2> QED
    BY <2>1, <2>2, <1>2, <1>6 DEF FrameHolds
<1>8. ASSUME NEW i \in DOMAIN new.stack PROVE FrameHolds(p, new, i)
  <2>1. CASE i = 1
    BY <2>1, <1>7
  <2>2. CASE i # 1
    <3>1. i - 1 \in DOMAIN mid.stack /\ new.stack[i] = mid.stack[i - 1]
      BY <2>2, <1>2
    <3>2. FrameHolds(p, mid, i - 1) /\ mid.stack[i - 1].current_segment \in 1 .. n
      BY <3>1, <1>2, <1>3 DEF Content, WellFormed, OwnsSegment
    <3> QED
      BY <3>1, <3>2, <1>2 DEF FrameHolds
  <2> QED
    BY <2>1, <2>2
<1>9. ASSUME NEW s \in DOMAIN new.segments PROVE SegmentHolds(p, in, new, s)
  <2>1. CASE s = n + 1
    <3>1. 1 \in DOMAIN new.stack
      BY <1>5, StackIs DEF Running
    <3> QED
      BY <2>1, <3>1, <1>6 DEF SegmentHolds
  <2>2. CASE s # n + 1
    <3>1. s \in 1 .. n
      BY <2>2, <1>2
    <3>2. SegmentHolds(p, in, mid, s) /\ new.segments[s] = mid.segments[s]
      BY <3>1, <1>2, <1>3 DEF Content
    <3>3. (\A i \in DOMAIN new.stack : new.stack[i].current_segment # s)
            => \A i \in DOMAIN mid.stack : mid.stack[i].current_segment # s
      <4> SUFFICES ASSUME \A i \in DOMAIN new.stack : new.stack[i].current_segment # s,
                          NEW i \in DOMAIN mid.stack
                   PROVE  mid.stack[i].current_segment # s
        OBVIOUS
      <4>1. i + 1 \in DOMAIN new.stack /\ new.stack[i + 1] = mid.stack[i]
        BY <1>2
      <4> QED
        BY <4>1
    <3> QED
      BY <3>2, <3>3, <1>2 DEF SegmentHolds
  <2> QED
    BY <2>1, <2>2
<1>10. Content(p, in, new)
  BY <1>8, <1>9 DEF Content
<1> QED
  BY <1>10 DEF new, op

(* Leaving a scope, whose body raised nothing: its segment is complete.    *)
LEMMA ContentLeave ==
  ASSUME NEW p \in Programs, NEW in, NEW ev, WellFormed(ev), Running(ev), AtEnd(p, ev),
         Content(p, in, ev), CalledAs(p, Top(ev).dfs_prefix, Top(ev).name),
         Top(ev).name \notin Abstract!Raising(p, in)
  PROVE  Content(p, in, LeaveScope(ev))
<1> DEFINE new == LeaveScope(ev)
           q   == Top(ev).dfs_prefix
           m   == Top(ev).name
           c   == Top(ev).current_segment
<1>1. /\ new.segments = ev.segments /\ new.err = ev.err
      /\ \A i \in DOMAIN new.stack : i + 1 \in DOMAIN ev.stack /\ new.stack[i] = ev.stack[i + 1]
      /\ \A i \in DOMAIN ev.stack : i # 1 =>
           i - 1 \in DOMAIN new.stack /\ ev.stack[i] = new.stack[i - 1]
  BY LeaveIs
<1>2. /\ Top(ev) = ev.stack[1] /\ 1 \in DOMAIN ev.stack /\ m \in Routines /\ Top(ev).at \in Nat \ {0}
      /\ c \in DOMAIN ev.segments /\ ev.segments[c].gates \in Seq(TraceGate)
      /\ ev.segments[c].dfs_path = q
  BY TopIs
<1> HIDE DEF new
<1>3. \A i \in DOMAIN new.stack : FrameHolds(p, new, i)
  BY <1>1 DEF Content, FrameHolds
<1>4. ev.segments[c].gates = Abstract!GatesOf(p, <<q, m>>)
  <2>1. Holds(p, q, m, Top(ev).at, ev.segments[c].gates)
    BY <1>2 DEF Content, FrameHolds
  <2>2. Top(ev).at > Len(p[m].ops)
    BY DEF AtEnd
  <2> QED
    BY <2>1, <2>2, <1>2, HoldsAll
<1>5. ASSUME NEW n, CalledAs(p, q, n) PROVE n = m
  BY <1>5, CalledOnce
<1>6. ASSUME NEW s \in DOMAIN new.segments PROVE SegmentHolds(p, in, new, s)
  <2>1. CASE s = c
    BY <2>1, <1>1, <1>2, <1>4, <1>5 DEF SegmentHolds
  <2>2. CASE s # c
    <3>1. SegmentHolds(p, in, ev, s)
      BY <1>1 DEF Content
    <3>2. (\A i \in DOMAIN new.stack : new.stack[i].current_segment # s)
            => \A i \in DOMAIN ev.stack : ev.stack[i].current_segment # s
      BY <2>2, <1>1, <1>2
    <3> QED
      BY <3>1, <3>2, <1>1 DEF SegmentHolds
  <2> QED
    BY <2>1, <2>2
<1>7. Content(p, in, new)
  BY <1>3, <1>6 DEF Content
<1> QED
  BY <1>7 DEF new

(* Failing.                                                                *)
LEMMA ContentUnwind ==
  ASSUME NEW p, NEW in, NEW ev, WellFormed(ev), NEW e, e # Ok
  PROVE  Content(p, in, Unwind(ev, e))
<1>1. Unwind(ev, e).err = e /\ DOMAIN Unwind(ev, e).stack = {}
  BY DEF WellFormed, EvaluatorSet, Unwind
<1> QED
  BY <1>1 DEF Content, SegmentHolds

(* Starting.                                                               *)
LEMMA ContentNew ==
  ASSUME NEW p \in Programs, NEW in, NEW n \in Routines, NEW q
  PROVE  Content(p, in, NewEvaluator(n, q))
<1> DEFINE ev == NewEvaluator(n, q)
<1>1. /\ ev.stack[1] = NewFrame(n, 1, q) /\ DOMAIN ev.stack = {1}
      /\ ev.segments[1] = NewSegment(q) /\ DOMAIN ev.segments = {1}
  BY DEF NewEvaluator
<1>2. /\ ev.stack[1].name = n /\ ev.stack[1].at = 1 /\ ev.stack[1].current_segment = 1
      /\ ev.stack[1].extras = <<>> /\ ev.stack[1].dfs_prefix = q
  BY <1>1 DEF NewFrame
<1> HIDE DEF ev
<1>3. Holds(p, q, n, 1, NewSegment(q).gates) /\ GatesMade(p, n, 1) = 0
  BY HoldsFirst
<1>4. Tokens(<<>>, 0, Base(q))
  BY DEF Tokens
<1>5. FrameHolds(p, ev, 1)
  BY <1>1, <1>2, <1>3, <1>4 DEF FrameHolds
<1>6. Content(p, in, ev)
  BY <1>1, <1>2, <1>5 DEF Content, SegmentHolds
<1> QED
  BY <1>6 DEF ev
-----------------------------------------------------------------------------
(* An evaluator got where it is through bodies its run enters.             *)
Sound(p, in, into, b, ev) ==
  Gets(p, in, ev) /\ Goes(p, in, Abstract!Entered(p, in, into), b, ev)

(* A call within a scope that does not fail.                               *)
Straight(p, ev, new) ==
  \/ AboutTo(p, ev, "gate") /\ NextOp(p, ev).err = Ok /\ new = PushGate(ev, NextOp(p, ev))
  \/ AboutTo(p, ev, "assign_extra") /\ NextOp(p, ev).err = Ok /\ new = SetExtra(ev, NextOp(p, ev))
  \/ (AboutTo(p, ev, "add") \/ AboutTo(p, ev, "enforce_zero")) /\ new = Ignore(ev)

(* Such a call.                                                            *)
LEMMA StraightIs ==
  ASSUME NEW p \in Programs, NEW in, NEW ev, WellFormed(ev), NEW new, Straight(p, ev, new)
  PROVE  /\ WellFormed(new) /\ GoesOn(p, ev, new) /\ Running(ev)
         /\ ~Abstract!CallRaises(p[Top(ev).name].ops[Top(ev).at], in, Abstract!Raising(p, in))
         /\ Content(p, in, ev) => Content(p, in, new)
<1>1. Running(ev) /\ ~AtEnd(p, ev) /\ NextOp(p, ev).kind # "routine"
  BY DEF Straight, AboutTo
<1>2. ~Abstract!Faulty(NextOp(p, ev))
  BY DEF Straight, AboutTo, Abstract!Faulty, Abstract!Ok, Ok
<1>3. ~Abstract!CallRaises(p[Top(ev).name].ops[Top(ev).at], in, Abstract!Raising(p, in))
  BY <1>1, <1>2 DEF Abstract!CallRaises, NextOp
<1>4. NextOp(p, ev) \in Op
  BY <1>1, NextOpType DEF WellFormed
<1>5. CASE AboutTo(p, ev, "gate") /\ new = PushGate(ev, NextOp(p, ev))
  <2>1. NextOp(p, ev) \in GateOp
    BY <1>4, <1>5 DEF AboutTo, Op, GateOp, AssignExtraOp, LinearOp, RoutineOp
  <2>2. WellFormed(new)
    BY <2>1, <1>1, <1>5, PushGateStep
  <2> QED
    BY <2>2, <1>1, <1>3, <1>5, PushGateGoesOn, ContentGate
<1>6. CASE AboutTo(p, ev, "assign_extra") /\ new = SetExtra(ev, NextOp(p, ev))
  <2>1. NextOp(p, ev) \in AssignExtraOp
    BY <1>4, <1>6 DEF AboutTo, Op, GateOp, AssignExtraOp, LinearOp, RoutineOp
  <2>2. WellFormed(new)
    BY <2>1, <1>1, <1>6, SetExtraStep
  <2> QED
    BY <2>2, <1>1, <1>3, <1>6, SetExtraGoesOn, ContentExtra
<1>7. CASE (AboutTo(p, ev, "add") \/ AboutTo(p, ev, "enforce_zero")) /\ new = Ignore(ev)
  <2>1. WellFormed(new)
    BY <1>1, <1>7, IgnoreStep
  <2> QED
    BY <2>1, <1>1, <1>3, <1>7, IgnoreGoesOn, ContentIgnore
<1> QED
  BY <1>5, <1>6, <1>7 DEF Straight

(* It stays within the bodies its run enters.                              *)
LEMMA StraightSound ==
  ASSUME NEW p \in Programs, NEW in, NEW into, NEW b, NEW ev, WellFormed(ev),
         NEW new, Straight(p, ev, new), Sound(p, in, into, b, ev)
  PROVE  Sound(p, in, into, b, new)
BY StraightIs, GoesNext DEF Sound

(* As does entering a routine that runs in its caller,                     *)
LEMMA EnterSound ==
  ASSUME NEW p \in Programs, NEW in, NEW into, NEW b, NEW ev, WellFormed(ev), AboutTo(p, ev, "routine"),
         NextOp(p, ev).err = Ok, NextOp(p, ev).predict \in in, NextOp(p, ev).predict \in into,
         Sound(p, in, into, b, ev)
  PROVE  Sound(p, in, into, b, EnterRoutine(ev, NextOp(p, ev)))
BY EnteredIs, GoesEnter DEF Sound

(* going past one that does not,                                           *)
LEMMA DeferSound ==
  ASSUME NEW p \in Programs, NEW in, NEW into, NEW b, NEW ev, WellFormed(ev), AboutTo(p, ev, "routine"),
         NextOp(p, ev).err = Ok, NextOp(p, ev).predict \notin in,
         Sound(p, in, into, b, ev)
  PROVE  Sound(p, in, into, b, DeferRoutine(ev))
<1>1. Running(ev) /\ ~AtEnd(p, ev)
  BY DEF AboutTo
<1>2. WellFormed(DeferRoutine(ev)) /\ GoesOn(p, ev, DeferRoutine(ev))
  BY <1>1, DeferStep, DeferGoesOn
<1>3. ~Abstract!CallRaises(p[Top(ev).name].ops[Top(ev).at], in, Abstract!Raising(p, in))
  BY DEF Abstract!CallRaises, Abstract!Faulty, Abstract!Ok, Ok, NextOp
<1> QED
  BY <1>1, <1>2, <1>3, GoesNext DEF Sound

(* which its run enters elsewhere,                                         *)
LEMMA SpawnSound ==
  ASSUME NEW p \in Programs, NEW in, NEW into, NEW b, NEW ev, WellFormed(ev), AboutTo(p, ev, "routine"),
         NextOp(p, ev).err = Ok, NextOp(p, ev).predict \in into, Sound(p, in, into, b, ev), NEW q
  PROVE  /\ NextOp(p, ev).name \in Routines
         /\ Sound(p, in, into, NextOp(p, ev).name, NewEvaluator(NextOp(p, ev).name, q))
<1> DEFINE E == Abstract!Entered(p, in, into)
           n == NextOp(p, ev).name
<1>1. Running(ev) /\ ~AtEnd(p, ev) /\ NextOp(p, ev).kind = "routine"
  BY DEF AboutTo
<1>2. /\ Top(ev).name \in Routines /\ Top(ev).at \in Calls(p, Top(ev).name)
      /\ Top(ev) = ev.stack[1] /\ 1 \in DOMAIN ev.stack
  BY <1>1, NextCall, StackIs
<1>3. n \in Routines
  BY <1>2, CallNames DEF NextOp
<1>4. Top(ev).name \in E /\ Abstract!GetsTo(p, in, Top(ev).name, Top(ev).at)
  BY <1>1, <1>2 DEF Sound, Goes, Gets
<1>5. Enters(p, in, into, E)
  BY EnteredIs
<1> HIDE DEF E
<1>6. n \in E
  BY <1>2, <1>4, <1>5 DEF Enters, NextOp
<1> QED
  BY <1>3, <1>6, GoesNew DEF Sound, E

(* leaving a scope,                                                        *)
LEMMA LeaveSound ==
  ASSUME NEW p \in Programs, NEW in, NEW into, NEW b, NEW ev, WellFormed(ev), Running(ev), AtEnd(p, ev),
         Sound(p, in, into, b, ev)
  PROVE  Sound(p, in, into, b, LeaveScope(ev)) /\ Top(ev).name \notin Abstract!Raising(p, in)
BY GoesLeave DEF Sound

(* and failing.                                                            *)
LEMMA UnwindSound ==
  ASSUME NEW p \in Programs, NEW in, NEW into, NEW b, NEW ev, WellFormed(ev), Running(ev), ~AtEnd(p, ev),
         NextOp(p, ev).kind \in {"gate", "assign_extra", "routine"}, NextOp(p, ev).err # Ok,
         Sound(p, in, into, b, ev)
  PROVE  Sound(p, in, into, b, Unwind(ev, NextOp(p, ev).err))
BY GoesUnwind DEF Sound

(* In the multicore build unpredicted routines run in their callers; every *)
(* task goes through bodies the circuit gets to, the root's through those  *)
(* of its own control flow.                                                *)
InCaller == {"Unknown"}
AnyWhere == {"Known", "Unknown"}
TraceGoes ==
  /\ \A t \in DOMAIN tasks :
       /\ Content(prog, InCaller, tasks[t])
       /\ \E b : Sound(prog, InCaller, AnyWhere, b, tasks[t])
  /\ Sound(prog, InCaller, InCaller, Main, tasks[Root])

(* A step of one task keeps that, if it does of the task.                  *)
LEMMA StepGoes ==
  ASSUME TraceGoes, Root \in DOMAIN tasks, NEW t \in DOMAIN tasks, NEW new, Step(t, new),
         Content(prog, InCaller, new),
         \A into \in {InCaller, AnyWhere} : \A b :
           Sound(prog, InCaller, into, b, tasks[t]) => Sound(prog, InCaller, into, b, new)
  PROVE  TraceGoes'
<1>1. /\ DOMAIN tasks' = DOMAIN tasks /\ tasks'[t] = new /\ prog' = prog
      /\ \A u \in DOMAIN tasks : u # t => tasks'[u] = tasks[u]
  BY DEF Step
<1>2. ASSUME NEW u \in DOMAIN tasks'
      PROVE  Content(prog, InCaller, tasks'[u]) /\ \E b : Sound(prog, InCaller, AnyWhere, b, tasks'[u])
  BY <1>1 DEF TraceGoes
<1>3. Sound(prog, InCaller, InCaller, Main, tasks'[Root])
  BY <1>1 DEF TraceGoes
<1> QED
  BY <1>1, <1>2, <1>3 DEF TraceGoes

(* A routine given to a task of its own.                                   *)
LEMMA SpawnsGoes ==
  ASSUME IInv, TraceGoes, NEW t \in DOMAIN tasks, Spawns(t)
  PROVE  TraceGoes'
<1> DEFINE op    == NextOp(prog, tasks[t])
           child == ChildPrefix(tasks[t])
           new   == DeferRoutine(tasks[t])
           ev    == NewEvaluator(op.name, child)
<1>1. /\ AboutTo(prog, tasks[t], "routine") /\ prog' = prog /\ op.err = Ok /\ op.predict = "Known"
      /\ tasks' = [u \in DOMAIN tasks \union {child} |->
                     IF u = child THEN ev ELSE IF u = t THEN new ELSE tasks[u]]
  BY DEF Spawns
<1>2. prog \in Programs /\ Numbering /\ WellFormed(tasks[t]) /\ Root \in DOMAIN tasks
  BY DEF IInv, TypeOK, Numbering, TasksWellFormed
<1>3. child \notin DOMAIN tasks
  <2> SUFFICES ASSUME child \in DOMAIN tasks PROVE FALSE
    OBVIOUS
  <2>1. 1 \in DOMAIN tasks[child].segments /\ PathOf(child, 1) = child
    BY <1>2 DEF Numbering, TasksWellFormed, PathOf
  <2>2. Running(tasks[t])
    BY <1>1 DEF AboutTo
  <2> QED
    BY <2>1, <2>2, <1>2, ChildFresh
<1>4. op.predict \in AnyWhere /\ op.predict \notin InCaller
  BY <1>1 DEF AnyWhere, InCaller
<1>5. PICK b : Sound(prog, InCaller, AnyWhere, b, tasks[t])
  BY DEF TraceGoes
<1>6. Content(prog, InCaller, new)
  BY <1>1, <1>2, ContentDefer DEF TraceGoes
<1>7. \A into, c : Sound(prog, InCaller, into, c, tasks[t]) => Sound(prog, InCaller, into, c, new)
  BY <1>1, <1>2, <1>4, DeferSound
<1>8. op.name \in Routines /\ Sound(prog, InCaller, AnyWhere, op.name, ev)
  BY <1>1, <1>2, <1>4, <1>5, SpawnSound
<1>9. Content(prog, InCaller, ev)
  BY <1>2, <1>8, ContentNew
<1> HIDE DEF op, child, new, ev
<1>10. /\ DOMAIN tasks' = DOMAIN tasks \union {child} /\ tasks'[t] = new /\ tasks'[child] = ev
       /\ \A u \in DOMAIN tasks : u # t => tasks'[u] = tasks[u]
  BY <1>1, <1>3
<1>11. ASSUME NEW u \in DOMAIN tasks'
       PROVE  Content(prog, InCaller, tasks'[u]) /\ \E c : Sound(prog, InCaller, AnyWhere, c, tasks'[u])
  <2>1. CASE u = child
    BY <2>1, <1>8, <1>9, <1>10
  <2>2. CASE u = t
    BY <2>2, <1>5, <1>6, <1>7, <1>10
  <2>3. CASE u # child /\ u # t
    BY <2>3, <1>10 DEF TraceGoes
  <2> QED
    BY <2>1, <2>2, <2>3
<1>12. Sound(prog, InCaller, InCaller, Main, tasks'[Root])
  BY <1>2, <1>7, <1>10 DEF TraceGoes
<1> QED
  BY <1>1, <1>11, <1>12 DEF TraceGoes

(* The steps of the tasks.                                                 *)
LEMMA TaskStepGoes ==
  ASSUME IInv, TraceRuns, TraceGoes, NEW t \in DOMAIN tasks, TaskStep(t)
  PROVE  TraceGoes'
<1> DEFINE ev == tasks[t]
           op == NextOp(prog, ev)
<1>1. prog \in Programs /\ WellFormed(ev) /\ Root \in DOMAIN tasks /\ Content(prog, InCaller, ev)
  BY DEF IInv, TypeOK, Numbering, TasksWellFormed, TraceGoes
<1>2. ASSUME NEW new, Straight(prog, ev, new), Step(t, new) PROVE TraceGoes'
  <2>1. Content(prog, InCaller, new)
    BY <1>1, <1>2, StraightIs
  <2>2. \A into, b : Sound(prog, InCaller, into, b, ev) => Sound(prog, InCaller, into, b, new)
    BY <1>1, <1>2, StraightSound
  <2> QED
    BY <2>1, <2>2, <1>1, <1>2, StepGoes
<1>3. CASE Gates(t) \/ AssignsExtra(t) \/ AddsOrEnforces(t)
  BY <1>2, <1>3 DEF Gates, AssignsExtra, AddsOrEnforces, Straight
<1>4. CASE Executes(t)
  <2> DEFINE new == EnterRoutine(ev, op)
  <2>1. AboutTo(prog, ev, "routine") /\ op.err = Ok /\ op.predict = "Unknown" /\ Step(t, new)
    BY <1>4 DEF Executes
  <2>2. Content(prog, InCaller, new)
    BY <2>1, <1>1, ContentEnter
  <2>3. op.predict \in InCaller /\ op.predict \in AnyWhere
    BY <2>1 DEF InCaller, AnyWhere
  <2>4. \A into \in {InCaller, AnyWhere} : \A b :
          Sound(prog, InCaller, into, b, ev) => Sound(prog, InCaller, into, b, new)
    BY <2>1, <2>3, <1>1, EnterSound
  <2> QED
    BY <2>1, <2>2, <2>4, <1>1, StepGoes
<1>5. CASE Spawns(t)
  BY <1>5, SpawnsGoes
<1>6. CASE Fails(t)
  <2> DEFINE new == Unwind(ev, op.err)
  <2>1. /\ Running(ev) /\ ~AtEnd(prog, ev) /\ op.kind \in {"gate", "assign_extra", "routine"}
        /\ op.err # Ok /\ Step(t, new)
    BY <1>6 DEF Fails
  <2>2. Content(prog, InCaller, new)
    BY <2>1, <1>1, ContentUnwind
  <2>3. \A into, b : Sound(prog, InCaller, into, b, ev) => Sound(prog, InCaller, into, b, new)
    BY <2>1, <1>1, UnwindSound
  <2> QED
    BY <2>1, <2>2, <2>3, <1>1, StepGoes
<1>7. CASE Returns(t)
  <2> DEFINE new == LeaveScope(ev)
  <2>1. Running(ev) /\ AtEnd(prog, ev) /\ Step(t, new)
    BY <1>7 DEF Returns
  <2>2. PICK b : Sound(prog, InCaller, AnyWhere, b, ev)
    BY DEF TraceGoes
  <2>3. Top(ev).name \notin Abstract!Raising(prog, InCaller)
    BY <2>1, <2>2, <1>1, LeaveSound
  <2>4. CalledAs(prog, Top(ev).dfs_prefix, Top(ev).name)
    <3>1. 1 \in DOMAIN ev.stack /\ Top(ev) = ev.stack[1]
      BY <2>1, <1>1, StackIs
    <3> QED
      BY <3>1 DEF TraceRuns, Runs, FrameStands, Stands
  <2>5. Content(prog, InCaller, new)
    BY <2>1, <2>3, <2>4, <1>1, ContentLeave
  <2>6. \A into, c : Sound(prog, InCaller, into, c, ev) => Sound(prog, InCaller, into, c, new)
    BY <2>1, <1>1, LeaveSound
  <2> QED
    BY <2>1, <2>5, <2>6, <1>1, StepGoes
<1>8. CASE Ends(t)
  BY <1>8 DEF Ends, TraceGoes
<1> QED
  BY <1>3, <1>4, <1>5, <1>6, <1>7, <1>8 DEF TaskStep

(* The evaluation, however its tasks are scheduled.                        *)
LEMMA TraceGoesKept == IInv /\ TraceRuns /\ TraceGoes /\ [Next]_vars => TraceGoes'
<1> SUFFICES ASSUME IInv, TraceRuns, TraceGoes, [Next]_vars PROVE TraceGoes'
  OBVIOUS
<1>1. CASE \E t \in DOMAIN tasks : TaskStep(t)
  BY <1>1, TaskStepGoes
<1>2. CASE UNCHANGED <<prog, tasks>>
  BY <1>2 DEF TraceGoes
<1> QED
  BY <1>1, <1>2 DEF Next, vars, LeaveRayonScope, Receive, Finish, Returned

(* It starts with the circuit.                                             *)
LEMMA TraceGoesStart == Init => TraceGoes
<1> SUFFICES ASSUME Init PROVE TraceGoes
  OBVIOUS
<1>1. prog \in Programs /\ tasks = [t \in {Root} |-> NewEvaluator(Main, Root)] /\ Main \in Routines
  BY CircuitAssumption DEF Init
<1>2. DOMAIN tasks = {Root} /\ tasks[Root] = NewEvaluator(Main, Root)
  BY <1>1
<1>3. \A into : Main \in Abstract!Entered(prog, InCaller, into)
  BY <1>1, EnteredIs DEF Enters
<1>4. \A into : Sound(prog, InCaller, into, Main, tasks[Root])
  BY <1>1, <1>2, <1>3, GoesNew DEF Sound
<1>5. Content(prog, InCaller, tasks[Root])
  BY <1>1, <1>2, ContentNew
<1> QED
  BY <1>2, <1>4, <1>5 DEF TraceGoes
-----------------------------------------------------------------------------
(* Until it returns eval has no result, and an error comes without         *)
(* segments.                                                               *)
Answers ==
  /\ pc # "done" => result = Nothing
  /\ result.err # Ok => result.segments = <<>>

(* This stays.                                                             *)
LEMMA AnswersKept == IInv /\ DeliveryInv /\ Answers /\ [Next]_vars => Answers'
<1> SUFFICES ASSUME IInv, DeliveryInv, Answers, [Next]_vars PROVE Answers'
  OBVIOUS
<1>1. Ok \notin Errors
  BY CircuitAssumption
<1>2. CASE LeaveRayonScope
  <2>1. pc = "scope" /\ result = Nothing
    BY <1>2 DEF LeaveRayonScope, Answers
  <2>2. CASE tasks[Root].err = Ok
    BY <1>2, <2>1, <2>2 DEF LeaveRayonScope, Answers
  <2>3. CASE tasks[Root].err # Ok
    <3>1. pc' = "done" /\ result' = [err |-> tasks[Root].err, segments |-> <<>>]
      BY <1>2, <2>3 DEF LeaveRayonScope, Outcome
    <3> QED
      BY <3>1 DEF Answers
  <2> QED
    BY <2>2, <2>3
<1>3. CASE Receive
  <2>1. pc = "collect" /\ channel # <<>> /\ channel \in Seq(Batch)
    BY <1>3 DEF Receive, IInv, TypeOK
  <2>2. PICK got, from : Delivered(got, from)
    BY <2>1 DEF DeliveryInv
  <2>3. 1 \in 1 .. Len(channel) /\ Head(channel) = channel[1]
    BY <2>1
  <2>4. Head(channel) = Outcome(tasks[from[1]])
    BY <2>2, <2>3 DEF Delivered
  <2>5. Head(channel).err # Ok => Head(channel).segments = <<>>
    BY <2>4 DEF Outcome
  <2>6. CASE Head(channel).err = Ok
    BY <1>3, <2>1, <2>6 DEF Receive, Answers
  <2>7. CASE Head(channel).err # Ok
    <3>1. pc' = "done" /\ result' = Head(channel)
      BY <1>3, <2>7 DEF Receive
    <3> QED
      BY <3>1, <2>5 DEF Answers
  <2> QED
    BY <2>6, <2>7
<1>4. CASE Finish
  <2>1. pc' = "done" /\ \E s \in Sorted(collected) : result' = [err |-> Ok, segments |-> s]
    BY <1>4 DEF Finish
  <2>2. result'.err = Ok
    BY <2>1
  <2> QED
    BY <2>1, <2>2 DEF Answers
<1>5. CASE UNCHANGED <<pc, result>>
  BY <1>5 DEF Answers
<1>6. ASSUME NEW t \in DOMAIN tasks, TaskStep(t) PROVE UNCHANGED <<pc, result>>
  BY <1>6 DEF TaskStep, Gates, AssignsExtra, AddsOrEnforces, Executes, Spawns, Fails, Returns, Ends, Step
<1> QED
  BY <1>2, <1>3, <1>4, <1>5, <1>6 DEF Next, vars, Returned

(* Which calls of a body raise nothing, of one that does not.              *)
LEMMA QuietBody ==
  ASSUME NEW p \in Programs, NEW in, NEW n \in Routines, n \notin Abstract!Raising(p, in)
  PROVE  Abstract!FaultsOf(p, in, n) = {}
<1>1. \A i \in DOMAIN p[n].ops : ~Abstract!CallRaises(p[n].ops[i], in, Abstract!Raising(p, in))
  BY RaisingIs
<1> QED
  BY <1>1 DEF Abstract!FaultsOf, Abstract!CallRaises

(* A circuit none of whose calls is of a body that raises has no error.    *)
LEMMA QuietCalls ==
  ASSUME NEW p \in Programs, NEW in, NEW into,
         \A q, n : CalledAs(p, q, n) => n \notin Abstract!Raising(p, in)
  PROVE  Abstract!ErrorsOf(p, in, into) = {}
<1> DEFINE S == { n \in Routines : \E q : CalledAs(p, q, n) }
<1>1. Main \in S
  BY CalledStarts, CircuitAssumption
<1>2. ASSUME NEW n \in S, NEW i \in Calls(p, n) PROVE p[n].ops[i].name \in S
  <2>1. PICK q : CalledAs(p, q, n)
    OBVIOUS
  <2>2. CalledAs(p, Append(q, CallsMade(p, n, i)), p[n].ops[i].name)
    BY <2>1, CalledOn
  <2> QED
    BY <2>2, CallNames
<1>3. Enters(p, in, into, S)
  BY <1>1, <1>2 DEF Enters
<1>4. Abstract!Entered(p, in, into) \subseteq S
  BY <1>3, EnteredIs
<1>5. \A n \in S : Abstract!FaultsOf(p, in, n) = {}
  BY QuietBody
<1> HIDE DEF S
<1> QED
  BY <1>4, <1>5 DEF Abstract!ErrorsOf

(* The fault of a body that is entered is an error.                        *)
LEMMA FaultIsError ==
  ASSUME NEW p, NEW in, NEW into, NEW e, Faults(p, in, Abstract!Entered(p, in, into), e)
  PROVE  e \in Abstract!ErrorsOf(p, in, into)
BY DEF Faults, Abstract!ErrorsOf

(* The depth-first list of a circuit's calls.                              *)
LEMMA TracedDepthFirst ==
  ASSUME NEW p \in Programs, NEW list, Traced(p, list),
         \A i \in DOMAIN list : \A n : CalledAs(p, list[i].dfs_path, n) =>
           list[i].gates = Abstract!GatesOf(p, <<list[i].dfs_path, n>>)
  PROVE  Abstract!DepthFirst(p, list)
<1>1. /\ CallTree(p) \subseteq Path \X Routines
      /\ \A q \in Path, n \in Routines : <<q, n>> \in CallTree(p) <=> CalledAs(p, q, n)
      /\ Abstract!CallTree(p) = CallTree(p)
  BY TreeIs, SameTree
<1>2. { c[1] : c \in CallTree(p) } = CalledPaths(p)
  <2>1. ASSUME NEW c \in CallTree(p) PROVE c[1] \in CalledPaths(p)
    <3>1. PICK q \in Path, n \in Routines : c = <<q, n>>
      BY <1>1
    <3> QED
      BY <3>1, <1>1 DEF CalledPaths
  <2>2. ASSUME NEW q \in CalledPaths(p) PROVE \E c \in CallTree(p) : c[1] = q
    <3>1. PICK n \in Routines : CalledAs(p, q, n) /\ q \in Path
      BY DEF CalledPaths
    <3>2. <<q, n>> \in CallTree(p) /\ <<q, n>>[1] = q
      BY <3>1, <1>1
    <3> QED
      BY <3>2
  <2> QED
    BY <2>1, <2>2
<1>3. Abstract!InOrder(list)
  BY DEF Traced, InOrder, Abstract!InOrder, PathLess, Abstract!PathLess
<1>4. ASSUME NEW i \in DOMAIN list, NEW c \in CallTree(p), list[i].dfs_path = c[1]
      PROVE  list[i].gates = Abstract!GatesOf(p, c)
  <2>1. PICK q \in Path, n \in Routines : c = <<q, n>>
    BY <1>1
  <2>2. CalledAs(p, q, n) /\ list[i].dfs_path = q
    BY <2>1, <1>1, <1>4
  <2> QED
    BY <2>1, <2>2
<1> QED
  BY <1>1, <1>2, <1>3, <1>4 DEF Traced, Abstract!DepthFirst

(* Without an error the result is that list, and the circuit raises none.  *)
LEMMA EvalDepthFirst ==
  ASSUME TraceInv, TraceGoes, pc = "done", result.err = Ok
  PROVE  /\ Abstract!DepthFirst(prog, result.segments)
         /\ Abstract!AnyError(prog) = {} /\ Abstract!RootError(prog) = {}
<1> DEFINE Any == Abstract!AnyError(prog)
           Own == Abstract!RootError(prog)
           list == result.segments
<1>1. prog \in Programs /\ Root \in DOMAIN tasks
  BY DEF TraceInv, IInv, TypeOK
<1>2. /\ \A t \in DOMAIN tasks : tasks[t].err = Ok
      /\ SegmentsOf(list) = SegmentsBy(DOMAIN tasks)
      /\ \A t \in DOMAIN tasks : ~Running(tasks[t])
  BY DEF TraceInv, DeliveryInv, EvalAccounts
<1>3. /\ Any = Abstract!ErrorsOf(prog, InCaller, AnyWhere)
      /\ Own = Abstract!ErrorsOf(prog, InCaller, InCaller)
  BY DEF Abstract!AnyError, Abstract!RootError, InCaller, AnyWhere
<1> HIDE DEF Any, Own, list
<1>4. Traced(prog, list)
  BY EvalTraced DEF list
<1>5. ASSUME NEW i \in DOMAIN list, NEW n, CalledAs(prog, list[i].dfs_path, n)
      PROVE  /\ n \notin Abstract!Raising(prog, InCaller)
             /\ list[i].gates = Abstract!GatesOf(prog, <<list[i].dfs_path, n>>)
  <2>1. list[i] \in SegmentsOf(list) /\ SegmentsOf(list) = SegmentsBy(DOMAIN tasks)
    BY <1>2 DEF SegmentsOf
  <2>2. PICK t \in DOMAIN tasks : list[i] \in SegmentsOf(tasks[t].segments)
    BY <2>1 DEF SegmentsBy
  <2>3. PICK s \in DOMAIN tasks[t].segments : list[i] = tasks[t].segments[s]
    BY <2>2 DEF SegmentsOf
  <2>4. SegmentHolds(prog, InCaller, tasks[t], s)
    BY DEF TraceGoes, Content
  <2>5. DOMAIN tasks[t].stack = {} /\ tasks[t].err = Ok
    BY <1>2 DEF Running
  <2> QED
    BY <1>5, <2>3, <2>4, <2>5 DEF SegmentHolds
<1>6. ASSUME NEW q, NEW n, CalledAs(prog, q, n) PROVE n \notin Abstract!Raising(prog, InCaller)
  <2>1. q \in CalledPaths(prog)
    BY <1>6 DEF CalledPaths, CalledAs
  <2>2. PICK i \in DOMAIN list : list[i].dfs_path = q
    BY <1>4, <2>1 DEF Traced
  <2> QED
    BY <1>5, <1>6, <2>2
<1>7. Any = {} /\ Own = {}
  BY <1>6, <1>1, <1>3, QuietCalls
<1>8. Abstract!DepthFirst(prog, list)
  BY <1>4, <1>5, <1>1, TracedDepthFirst
<1> QED
  BY <1>7, <1>8 DEF Any, Own, list

(* What eval returns is what it promises.                                  *)
LEMMA EvalPromises ==
  ASSUME TraceInv, TraceGoes, Answers, pc = "done"
  PROVE  /\ Abstract!Promised(prog, result)
         /\ Abstract!RootError(prog) # {} => result.err \in Abstract!RootError(prog)
<1> DEFINE Any == Abstract!AnyError(prog)
           Own == Abstract!RootError(prog)
<1>1. prog \in Programs /\ Root \in DOMAIN tasks
  BY DEF TraceInv, IInv, TypeOK
<1>2. /\ ended = DOMAIN tasks
      /\ tasks[Root].err # Ok => result.err = tasks[Root].err
      /\ result.err # Ok => \E t \in DOMAIN tasks : tasks[t].err = result.err
      /\ result.err = Ok => /\ \A t \in DOMAIN tasks : tasks[t].err = Ok
                            /\ SegmentsOf(result.segments) = SegmentsBy(DOMAIN tasks)
      /\ \A t \in DOMAIN tasks : ~Running(tasks[t])
  BY DEF TraceInv, DeliveryInv, EvalAccounts
<1>3. /\ Any = Abstract!ErrorsOf(prog, InCaller, AnyWhere)
      /\ Own = Abstract!ErrorsOf(prog, InCaller, InCaller)
  BY DEF Abstract!AnyError, Abstract!RootError, InCaller, AnyWhere
<1> HIDE DEF Any, Own
<1>4. ASSUME Own # {} PROVE result.err \in Own
  <2>1. Main \in Abstract!Raising(prog, InCaller)
    BY <1>1, <1>3, <1>4, QuietCircuit
  <2>2. Goes(prog, InCaller, Abstract!Entered(prog, InCaller, InCaller), Main, tasks[Root])
    BY DEF TraceGoes, Sound
  <2>3. tasks[Root].err # Ok
    BY <2>1, <2>2, <1>1, <1>2 DEF Goes
  <2>4. tasks[Root].err \in Own
    BY <2>2, <2>3, <1>3, FaultIsError DEF Goes
  <2> QED
    BY <2>3, <2>4, <1>2
<1>5. CASE result.err # Ok
  <2>1. PICK t \in DOMAIN tasks : tasks[t].err = result.err
    BY <1>2, <1>5
  <2>2. PICK b : Goes(prog, InCaller, Abstract!Entered(prog, InCaller, AnyWhere), b, tasks[t])
    BY DEF TraceGoes, Sound
  <2>3. result.err \in Any
    BY <2>1, <2>2, <1>3, <1>5, FaultIsError DEF Goes
  <2>4. result.segments = <<>>
    BY <1>5 DEF Answers
  <2> QED
    BY <2>3, <2>4, <1>4 DEF Abstract!Promised, Any, Own
<1>6. CASE result.err = Ok
  <2>1. Any = {} /\ Own = {} /\ Abstract!DepthFirst(prog, result.segments)
    BY <1>6, EvalDepthFirst DEF Any, Own
  <2> QED
    BY <2>1, <1>6 DEF Abstract!Promised, Abstract!Ok, Ok, Any, Own
<1> QED
  BY <1>5, <1>6

(* The inductive invariant of the evaluation.                              *)
ReturnInv == TraceInv /\ TraceGoes /\ Answers

(* The evaluation starts with it and keeps it.                             *)
LEMMA ReturnInvKept == (Init => ReturnInv) /\ (ReturnInv /\ [Next]_vars => ReturnInv')
<1>1. Init => Answers
  BY DEF Init, Nothing, Answers
<1>2. Init => ReturnInv
  BY <1>1, TraceInvStarts, TraceGoesStart DEF ReturnInv
<1>3. ReturnInv /\ [Next]_vars => ReturnInv'
  BY TraceInvKept, TraceGoesKept, AnswersKept DEF ReturnInv, TraceInv
<1> QED
  BY <1>2, <1>3

(* trace::eval implements its abstract specification: however the tasks    *)
(* are scheduled and their batches ordered, it returns once, and returns   *)
(* the depth-first list of segments with the gates of their bodies, or an  *)
(* error some body it gets to raises, the root's own before any other      *)
(* (trace.rs:290-305, 351, 368-414).                                       *)
THEOREM Refines == Spec => ReturnsDepthFirstTrace
<1> DEFINE Kept == /\ Abstract!Promised(prog, result)
                   /\ Abstract!RootError(prog) # {} => result.err \in Abstract!RootError(prog)
<1>0. ReturnInv /\ pc = "done" => Kept
  BY EvalPromises DEF ReturnInv
<1> HIDE DEF Kept
<1>3. ReturnInv' /\ (pc = "done")' => Kept'
  BY <1>0, PTL
<1>1. Init => Abstract!AInit
  BY DEF Init, Nothing, Abstract!AInit, Abstract!Ok, Ok
<1>2. ReturnInv /\ ReturnInv' /\ [Next]_vars => [Abstract!ReturnRootFirst]_Abstract!avars
  <2> SUFFICES ASSUME ReturnInv, ReturnInv', [Next]_vars
               PROVE  [Abstract!ReturnRootFirst]_Abstract!avars
    OBVIOUS
  <2>1. prog' = prog
    BY DEF Next, vars, LeaveRayonScope, Receive, Finish, Returned, TaskStep,
           Gates, AssignsExtra, AddsOrEnforces, Executes, Spawns, Fails, Returns, Ends, Step
  <2>2. CASE pc = "done"
    <3>1. pc' = pc /\ result' = result
      BY <2>2 DEF Next, vars, LeaveRayonScope, Receive, Finish, Returned, TaskStep,
             Gates, AssignsExtra, AddsOrEnforces, Executes, Spawns, Fails, Returns, Ends, Step
    <3> QED
      BY <2>1, <3>1 DEF Abstract!avars
  <2>3. CASE pc # "done" /\ pc' # "done"
    <3>1. result' = result
      BY <2>3 DEF ReturnInv, Answers
    <3> QED
      BY <2>1, <2>3, <3>1 DEF Abstract!avars
  <2>4. CASE pc # "done" /\ pc' = "done"
    <3>1. Kept'
      BY <2>4, <1>3
    <3> QED
      BY <2>1, <2>4, <3>1 DEF Kept, Abstract!ReturnRootFirst, Abstract!Return
  <2> QED
    BY <2>2, <2>3, <2>4
<1> QED
  BY <1>1, <1>2, ReturnInvKept, PTL DEF Spec, ReturnsDepthFirstTrace, Abstract!RootFirstSpec
-----------------------------------------------------------------------------
(* The single-threaded build, whose evaluators take the same steps.        *)
VARIABLE nest
Inline == INSTANCE TraceInline

(* What an evaluator is about to do there.                                 *)
LEMMA SameNext ==
  /\ \A ev : Inline!Top(ev) = Top(ev) /\ (Inline!Running(ev) <=> Running(ev))
  /\ \A p, ev : /\ Inline!AtEnd(p, ev) <=> AtEnd(p, ev)
                /\ Inline!NextOp(p, ev) = NextOp(p, ev)
                /\ \A kind : Inline!AboutTo(p, ev, kind) <=> AboutTo(p, ev, kind)
BY DEF Inline!Top, Top, Inline!Running, Running, Inline!AtEnd, AtEnd, Inline!NextOp, NextOp,
       Inline!AboutTo, AboutTo

(* And what it does.                                                       *)
LEMMA SameCalls ==
  /\ \A ev, op : /\ Inline!PushGate(ev, op) = PushGate(ev, op)
                 /\ Inline!SetExtra(ev, op) = SetExtra(ev, op)
                 /\ Inline!EnterRoutine(ev, op) = EnterRoutine(ev, op)
  /\ \A ev : /\ Inline!Ignore(ev) = Ignore(ev)
             /\ Inline!DeferRoutine(ev) = DeferRoutine(ev)
             /\ Inline!LeaveScope(ev) = LeaveScope(ev)
             /\ Inline!ChildPrefix(ev) = ChildPrefix(ev)
  /\ \A name, prefix : Inline!NewEvaluator(name, prefix) = NewEvaluator(name, prefix)
<1>1. /\ \A ev, f : Inline!SetTop(ev, f) = SetTop(ev, f)
      /\ \A f : Inline!Advanced(f) = Advanced(f) /\ Inline!Counted(f) = Counted(f)
      /\ \A ev : Inline!Top(ev) = Top(ev) /\ Inline!ChildPrefix(ev) = ChildPrefix(ev)
      /\ \A q : Inline!NewSegment(q) = NewSegment(q)
      /\ \A name, seg, q : Inline!NewFrame(name, seg, q) = NewFrame(name, seg, q)
  BY DEF Inline!SetTop, SetTop, Inline!Advanced, Advanced, Inline!Counted, Counted, Inline!Top, Top,
         Inline!ChildPrefix, ChildPrefix, Inline!NewSegment, NewSegment, Inline!Placeholder, Placeholder,
         Inline!NewFrame, NewFrame
<1> QED
  BY <1>1 DEF Inline!PushGate, PushGate, Inline!SetExtra, SetExtra, Inline!EnterRoutine, EnterRoutine,
              Inline!Ignore, Ignore, Inline!DeferRoutine, DeferRoutine, Inline!LeaveScope, LeaveScope,
              Inline!NewEvaluator, NewEvaluator, Inline!Ok, Ok

(* Both builds sort alike,                                                 *)
LEMMA SameSorted == \A list : Inline!Sorted(list) = Sorted(list)
BY DEF Inline!Sorted, Sorted, Inline!Arranged, Arranged, Inline!PathLess, PathLess,
       Inline!Cardinality, Cardinality

(* and promise alike.                                                      *)
LEMMA SameErrors ==
  \A p, in, into : Inline!Abstract!ErrorsOf(p, in, into) = Abstract!ErrorsOf(p, in, into)
<1>1. \A o, in, S : /\ Inline!Abstract!CallRaises(o, in, S) <=> Abstract!CallRaises(o, in, S)
                    /\ Inline!Abstract!Faulty(o) <=> Abstract!Faulty(o)
  BY DEF Inline!Abstract!CallRaises, Abstract!CallRaises, Inline!Abstract!Faulty, Abstract!Faulty,
         Inline!Abstract!Ok, Abstract!Ok
<1>2. \A p, in : Inline!Abstract!Raising(p, in) = Abstract!Raising(p, in)
  BY <1>1 DEF Inline!Abstract!RaisingSets, Abstract!RaisingSets, Inline!Abstract!Raising, Abstract!Raising
<1>3. \A p, in, n, i : Inline!Abstract!GetsTo(p, in, n, i) <=> Abstract!GetsTo(p, in, n, i)
  BY <1>1, <1>2 DEF Inline!Abstract!GetsTo, Abstract!GetsTo
<1>4. \A p, n : Inline!Abstract!Calls(p, n) = Abstract!Calls(p, n)
  BY DEF Inline!Abstract!Calls, Abstract!Calls, Inline!Abstract!Kind, Abstract!Kind
<1>5. \A p, in, into : Inline!Abstract!Entered(p, in, into) = Abstract!Entered(p, in, into)
  BY <1>3, <1>4 DEF Inline!Abstract!EnteredSets, Abstract!EnteredSets, Inline!Abstract!Entered, Abstract!Entered,
                    Inline!Abstract!Main, Abstract!Main, Inline!Abstract!Ok, Abstract!Ok
<1>6. \A p, in, n : Inline!Abstract!FaultsOf(p, in, n) = Abstract!FaultsOf(p, in, n)
  BY <1>1, <1>3 DEF Inline!Abstract!FaultsOf, Abstract!FaultsOf
<1> QED
  BY <1>5, <1>6 DEF Inline!Abstract!ErrorsOf, Abstract!ErrorsOf

(* The bodies of the circuit there,                                        *)
LEMMA SameBodiesInline ==
  /\ \A p, n, kind : Inline!Abstract!Kind(p, n, kind) = Abstract!Kind(p, n, kind)
  /\ \A p, n, at : Inline!Abstract!GatesMade(p, n, at) = Abstract!GatesMade(p, n, at)
  /\ \A p, n, at : Inline!Abstract!CallsMade(p, n, at) = Abstract!CallsMade(p, n, at)
<1>1. \A p, n, kind : Inline!Abstract!Kind(p, n, kind) = Abstract!Kind(p, n, kind)
  BY DEF Abstract!Kind, Inline!Abstract!Kind
<1>2. \A p, n, at, kind : Inline!Abstract!Made(p, n, at, kind) = Abstract!Made(p, n, at, kind)
  <2> TAKE p, n, at, kind
  <2>1. Inline!Abstract!Kind(p, n, kind) = Abstract!Kind(p, n, kind)
    BY <1>1
  <2>2. /\ Abstract!Made(p, n, at, kind) = Cardinality(Abstract!Kind(p, n, kind) \intersect 1 .. at - 1)
        /\ Inline!Abstract!Made(p, n, at, kind)
             = Cardinality(Inline!Abstract!Kind(p, n, kind) \intersect 1 .. at - 1)
    BY DEF Abstract!Made, Inline!Abstract!Made, Abstract!Cardinality, Inline!Abstract!Cardinality, Cardinality
  <2> HIDE DEF Inline!Abstract!Kind, Abstract!Kind
  <2> QED
    BY <2>1, <2>2
<1> QED
  BY <1>1, <1>2 DEF Abstract!GatesMade, Inline!Abstract!GatesMade, Abstract!CallsMade, Inline!Abstract!CallsMade

(* their calls,                                                            *)
LEMMA SameTreeInline ==
  ASSUME NEW p
  PROVE  Inline!Abstract!CallTree(p) = Abstract!CallTree(p)
<1> DEFINE Solves(h) == h = [d \in 0 .. Cardinality(Routines) |->
                               IF d = 0 THEN {<<(<<>>), Main>>}
                               ELSE UNION { Abstract!CallsFrom(p, c) : c \in h[d - 1] }]
           Fits(h) == h = [d \in 0 .. Cardinality(Routines) |->
                             IF d = 0 THEN {<<(<<>>), Main>>}
                             ELSE UNION { Inline!Abstract!CallsFrom(p, c) : c \in h[d - 1] }]
<1>1. \A c : Inline!Abstract!CallsFrom(p, c) = Abstract!CallsFrom(p, c)
  BY SameBodiesInline DEF Abstract!CallsFrom, Inline!Abstract!CallsFrom, Abstract!Calls, Inline!Abstract!Calls
<1>2. \A h : Solves(h) <=> Fits(h)
  BY <1>1
<1>3. Abstract!CallLevels(p) = CHOOSE h : Solves(h)
  BY DEF Abstract!CallLevels, Abstract!Main, Main, Abstract!Cardinality, Cardinality
<1>4. Inline!Abstract!CallLevels(p) = CHOOSE h : Fits(h)
  BY DEF Inline!Abstract!CallLevels, Inline!Abstract!Main, Main, Inline!Abstract!Cardinality, Cardinality
<1> HIDE DEF Solves, Fits
<1>5. Inline!Abstract!CallLevels(p) = Abstract!CallLevels(p)
  BY <1>2, <1>3, <1>4
<1>6. /\ Abstract!CallTree(p) = UNION { Abstract!CallLevels(p)[d] : d \in 0 .. Cardinality(Routines) }
      /\ Inline!Abstract!CallTree(p)
           = UNION { Inline!Abstract!CallLevels(p)[d] : d \in 0 .. Cardinality(Routines) }
  BY DEF Abstract!CallTree, Abstract!Cardinality, Inline!Abstract!CallTree, Inline!Abstract!Cardinality, Cardinality
<1> QED
  BY <1>5, <1>6

(* and what they make.                                                     *)
LEMMA SameDepthFirst ==
  \A p, list : Inline!Abstract!DepthFirst(p, list) <=> Abstract!DepthFirst(p, list)
<1>1. /\ \A p, n, k : Inline!Abstract!GateCall(p, n, k) = Abstract!GateCall(p, n, k)
      /\ \A p, n, k : Inline!Abstract!ExtraCalls(p, n, k) = Abstract!ExtraCalls(p, n, k)
      /\ \A p, n, is : Inline!Abstract!LastValue(p, n, is) = Abstract!LastValue(p, n, is)
  BY SameBodiesInline DEF Inline!Abstract!GateCall, Abstract!GateCall, Inline!Abstract!ExtraCalls,
     Abstract!ExtraCalls, Inline!Abstract!LastValue, Abstract!LastValue
<1>2. \A p, n : Inline!Abstract!OwnGates(p, n) = Abstract!OwnGates(p, n)
  BY <1>1, SameBodiesInline DEF Inline!Abstract!OwnGates, Abstract!OwnGates,
     Inline!Abstract!Cardinality, Abstract!Cardinality, Cardinality
<1>3. \A p, c : Inline!Abstract!GatesOf(p, c) = Abstract!GatesOf(p, c)
  BY <1>2 DEF Inline!Abstract!GatesOf, Abstract!GatesOf, Inline!Abstract!Placeholder, Abstract!Placeholder
<1>4. \A list : Inline!Abstract!InOrder(list) <=> Abstract!InOrder(list)
  BY DEF Inline!Abstract!InOrder, Abstract!InOrder, Inline!Abstract!PathLess, Abstract!PathLess
<1> QED
  BY <1>3, <1>4, SameTreeInline DEF Inline!Abstract!DepthFirst, Abstract!DepthFirst

(* So the promises are the same.                                           *)
LEMMA SamePromises ==
  \A p, r : /\ Inline!Abstract!Promised(p, r) <=> Abstract!Promised(p, r)
            /\ Inline!Abstract!FirstError(p) = Abstract!ErrorsOf(p, AnyWhere, AnyWhere)
BY SameErrors, SameDepthFirst DEF Inline!Abstract!Promised, Abstract!Promised, Inline!Abstract!AnyError,
   Abstract!AnyError, Inline!Abstract!FirstError, Inline!Abstract!Ok, Abstract!Ok, AnyWhere
-----------------------------------------------------------------------------
(* The paths of a list of segments; two such lists after one another.      *)
PathsIn(list) == { list[i].dfs_path : i \in DOMAIN list }

(* Put together, they stay apart and hold the paths of both.               *)
LEMMA ApartJoined ==
  ASSUME NEW s \in Seq(Segment), NEW t \in Seq(Segment), Apart(s), Apart(t),
         PathsIn(s) \intersect PathsIn(t) = {}
  PROVE  /\ s \o t \in Seq(Segment) /\ Apart(s \o t) /\ PathsIn(s \o t) = PathsIn(s) \cup PathsIn(t)
         /\ \A i \in DOMAIN (s \o t) : \/ \E j \in DOMAIN s : (s \o t)[i] = s[j]
                                       \/ \E j \in DOMAIN t : (s \o t)[i] = t[j]
<1> DEFINE u == s \o t
<1>1. /\ IsList(s) /\ IsList(t) /\ u \in Seq(Segment)
      /\ Len(s) \in Nat /\ DOMAIN s = 1 .. Len(s)
      /\ Len(t) \in Nat /\ DOMAIN t = 1 .. Len(t)
  BY ListOf
<1>2. /\ DOMAIN u = 1 .. Len(s) + Len(t)
      /\ \A k \in 1 .. Len(s) : u[k] = s[k]
      /\ \A k \in 1 .. Len(t) : u[Len(s) + k] = t[k]
  BY ONLY <1>1, Joined
<1> HIDE DEF u
<1>3. ASSUME NEW i \in DOMAIN u
      PROVE  \/ i \in 1 .. Len(s) /\ u[i] = s[i]
             \/ i - Len(s) \in 1 .. Len(t) /\ u[i] = t[i - Len(s)]
  <2>1. CASE i <= Len(s)
    BY <2>1, <1>1, <1>2, <1>3
  <2>2. CASE ~(i <= Len(s))
    <3>1. i - Len(s) \in 1 .. Len(t) /\ Len(s) + (i - Len(s)) = i
      BY <2>2, <1>1, <1>2, <1>3
    <3>2. u[Len(s) + (i - Len(s))] = t[i - Len(s)]
      BY <3>1, <1>2
    <3> QED
      BY <3>1, <3>2
  <2> QED
    BY <2>1, <2>2
<1>4. \A i \in DOMAIN u : \/ \E j \in DOMAIN s : u[i] = s[j]
                          \/ \E j \in DOMAIN t : u[i] = t[j]
  BY <1>1, <1>3
<1>5. \A j \in DOMAIN s : j \in DOMAIN u /\ u[j] = s[j]
  BY <1>1, <1>2
<1>6. \A j \in DOMAIN t : Len(s) + j \in DOMAIN u /\ u[Len(s) + j] = t[j]
  BY <1>1, <1>2
<1>7. PathsIn(u) = PathsIn(s) \cup PathsIn(t)
  <2>1. PathsIn(u) \subseteq PathsIn(s) \cup PathsIn(t)
    BY <1>4 DEF PathsIn
  <2>2. PathsIn(s) \subseteq PathsIn(u)
    BY <1>5 DEF PathsIn
  <2>3. PathsIn(t) \subseteq PathsIn(u)
    BY <1>6 DEF PathsIn
  <2> QED
    BY <2>1, <2>2, <2>3
<1>8. ASSUME NEW i \in DOMAIN u, NEW j \in DOMAIN u, u[i].dfs_path = u[j].dfs_path PROVE i = j
  <2>0. i \in Int /\ j \in Int
    BY <1>1, <1>2
  <2>1. CASE i \in 1 .. Len(s) /\ j \in 1 .. Len(s)
    BY <2>1, <1>1, <1>2, <1>8 DEF Apart
  <2>2. CASE i - Len(s) \in 1 .. Len(t) /\ j - Len(s) \in 1 .. Len(t) /\ u[i] = t[i - Len(s)] /\ u[j] = t[j - Len(s)]
    <3>1. i - Len(s) = j - Len(s)
      BY <2>2, <1>1, <1>8 DEF Apart
    <3> QED
      BY <3>1, <2>0, <1>1
  <2>3. ASSUME NEW k \in DOMAIN s, NEW l \in DOMAIN t PROVE s[k].dfs_path # t[l].dfs_path
    BY DEF PathsIn
  <2> QED
    BY <2>1, <2>2, <2>3, <1>1, <1>3, <1>8
<1>9. Apart(u)
  BY <1>8 DEF Apart
<1> QED
  BY <1>1, <1>4, <1>7, <1>9 DEF u

(* A scope on path q that made c calls leads the paths P: none goes through *)
(* a call of it that is yet to be made.                                    *)
Leads(q, c, P) == \A x \in P : Below(q, x) => x[Len(q) + 1] < c

(* Its next call takes a path that is free, and leads as well.             *)
LEMMA LeadsNew ==
  ASSUME NEW q \in Path, NEW c \in Nat, NEW P \in SUBSET Path, Leads(q, c, P)
  PROVE  LET child == Append(q, c)
         IN  /\ child \in Path /\ child \notin P
             /\ Leads(q, c + 1, P \cup {child}) /\ Leads(child, 0, P \cup {child})
<1> DEFINE child == Append(q, c)
<1>1. /\ q \in Seq(Nat) /\ Len(q) \in Nat /\ child \in Seq(Nat) /\ Len(child) = Len(q) + 1
      /\ \A m \in 1 .. Len(q) : child[m] = q[m]
      /\ child[Len(q) + 1] = c
  BY AppendProperties DEF Path
<1> HIDE DEF child
<1>2. Below(q, child)
  BY <1>1 DEF Below
<1>3. ASSUME NEW x \in P, Below(child, x) PROVE FALSE
  <2>1. Len(x) \in Nat
    BY DEF Path
  <2>2. Below(q, x) /\ x[Len(q) + 1] = c
    BY <2>1, <1>1, <1>3 DEF Below
  <2> QED
    BY <2>2 DEF Leads
<1>4. child \notin P
  BY <1>1, <1>2 DEF Leads
<1>5. Leads(q, c + 1, P \cup {child})
  <2>1. ASSUME NEW x \in P, Below(q, x) PROVE x[Len(q) + 1] < c + 1
    <3>1. x[Len(q) + 1] < c /\ x \in Seq(Nat) /\ Len(q) + 1 \in 1 .. Len(x)
      BY <2>1, <1>1 DEF Leads, Below, Path
    <3>2. x[Len(q) + 1] \in Nat
      BY <3>1
    <3> QED
      BY <3>1, <3>2
  <2> QED
    BY <2>1, <1>1 DEF Leads
<1>6. Leads(child, 0, P \cup {child})
  BY <1>1, <1>3 DEF Leads, Below
<1> QED
  BY <1>1, <1>4, <1>5, <1>6 DEF child, Path

(* Every other scope still leads.                                          *)
LEMMA LeadsOther ==
  ASSUME NEW q \in Path, NEW c \in Nat, NEW r \in Path, r # q, NEW d, NEW P, q \in P, Leads(r, d, P)
  PROVE  Leads(r, d, P \cup {Append(q, c)})
<1> DEFINE child == Append(q, c)
<1>1. /\ q \in Seq(Nat) /\ Len(q) \in Nat /\ r \in Seq(Nat) /\ Len(r) \in Nat
      /\ Len(child) = Len(q) + 1
      /\ \A m \in 1 .. Len(q) : child[m] = q[m]
  BY AppendProperties DEF Path
<1> HIDE DEF child
<1>2. ASSUME Below(r, child) PROVE child[Len(r) + 1] < d
  <2>1. Len(r) # Len(q)
    <3>1. Len(r) = Len(q) => \A m \in 1 .. Len(r) : r[m] = q[m]
      BY <1>1, <1>2 DEF Below
    <3> QED
      BY <3>1, <1>1, SeqEqual
  <2>2. Len(r) < Len(q)
    BY <2>1, <1>1, <1>2 DEF Below
  <2>3. \A m \in 1 .. Len(r) : q[m] = r[m]
    BY <2>2, <1>1, <1>2 DEF Below
  <2>4. q[Len(r) + 1] < d
    BY <2>2, <2>3 DEF Leads, Below
  <2>5. Len(r) + 1 \in 1 .. Len(q)
    BY <2>2, <1>1
  <2> QED
    BY <2>4, <2>5, <1>1
<1> QED
  BY <1>2 DEF Leads, child
-----------------------------------------------------------------------------
(* The nest of evaluators: each with the segments it keeps.  The paths of   *)
(* those of a level, and from a level of the nest outwards.                *)
Nested == [ev : EvaluatorSet, deferred : Seq(Segment)]
LevelPaths(l)     == PathsIn(l.ev.segments) \cup PathsIn(l.deferred)
PathsFrom(nst, k) == UNION { LevelPaths(nst[m]) : m \in k .. Len(nst) }

(* A segment is finished: its body ran, raised nothing and left its gates. *)
Finished(p, s, P) ==
  /\ Ran(p, s.dfs_path, Len(s.gates), P)
  /\ \A n : CalledAs(p, s.dfs_path, n) => /\ n \notin Abstract!Raising(p, AnyWhere)
                                          /\ s.gates = Abstract!GatesOf(p, <<s.dfs_path, n>>)

(* What holds of each level, P being the paths of all.                     *)
LeadIn(ev, P) ==
  \A i \in DOMAIN ev.stack : Leads(ev.stack[i].dfs_prefix, ev.stack[i].routine_counter, P)
EvaluatorSound(p, ev, P) ==
  /\ WellFormed(ev) /\ ev.err = Ok /\ Apart(ev.segments)
  /\ Runs(p, ev, P) /\ Content(p, AnyWhere, ev) /\ LeadIn(ev, P)
DeferredSound(p, list, P) == Apart(list) /\ \A i \in DOMAIN list : Finished(p, list[i], P)
LevelSound(p, l, P) ==
  /\ l \in Nested
  /\ EvaluatorSound(p, l.ev, P) /\ DeferredSound(p, l.deferred, P)
  /\ PathsIn(l.ev.segments) \intersect PathsIn(l.deferred) = {}

(* A level runs a body that the one around it waits for.                   *)
Body1(p, b, ev) == Goes(p, AnyWhere, Abstract!Entered(p, AnyWhere, AnyWhere), b, ev)
Linked(p, nst, k) ==
  \E b : /\ Body1(p, b, nst[k].ev)
         /\ k < Len(nst) => Running(nst[k + 1].ev) /\ Waits(p, AnyWhere, Top(nst[k + 1].ev), b)

(* And of all of them.                                                     *)
LevelsApart(nst) ==
  \A k, m \in 1 .. Len(nst) : k # m => LevelPaths(nst[k]) \intersect LevelPaths(nst[m]) = {}
NestInv(p, nst) ==
  /\ nst \in Seq(Nested) /\ Len(nst) # 0
  /\ \A k \in 1 .. Len(nst) : LevelSound(p, nst[k], PathsFrom(nst, 1)) /\ Linked(p, nst, k)
  /\ LevelsApart(nst)
  /\ Gets(p, AnyWhere, nst[1].ev)
  /\ <<>> \in PathsFrom(nst, 1)

(* What a nest is.                                                         *)
LEMMA NestIs ==
  ASSUME NEW nst \in Seq(Nested), Len(nst) # 0
  PROVE  /\ IsList(nst) /\ nst # <<>> /\ Len(nst) \in Nat \ {0}
         /\ \A k \in 1 .. Len(nst) : nst[k] \in Nested
         /\ Head(nst) = nst[1]
         /\ PathsFrom(nst, 1) = LevelPaths(nst[1]) \cup PathsFrom(nst, 2)
<1>1. IsList(nst)
  BY ListOf
<1>2. nst # <<>> /\ Len(nst) \in Nat \ {0} /\ Head(nst) = nst[1]
  BY <1>1, ListIs, Popped
<1>3. \A k \in 1 .. Len(nst) : nst[k] \in Nested
  OBVIOUS
<1>4. \A m \in Nat : m \in 1 .. Len(nst) <=> m = 1 \/ m \in 2 .. Len(nst)
  BY <1>2
<1>5. PathsFrom(nst, 1) = LevelPaths(nst[1]) \cup PathsFrom(nst, 2)
  BY <1>4 DEF PathsFrom
<1> QED
  BY <1>1, <1>2, <1>3, <1>5

(* A list of levels is a nest of them.                                     *)
LEMMA NestOf ==
  ASSUME NEW nst, IsList(nst), \A k \in 1 .. Len(nst) : nst[k] \in Nested
  PROVE  nst \in Seq(Nested)
<1>1. Len(nst) \in Nat /\ DOMAIN nst = 1 .. Len(nst) /\ nst \in Seq(Range(nst))
  BY ListIs
<1>2. nst \in [1 .. Len(nst) -> Nested]
  BY <1>1
<1> QED
  BY <1>1, <1>2

(* Its innermost level replaced,                                           *)
LEMMA NestReplaced ==
  ASSUME NEW nst \in Seq(Nested), Len(nst) # 0, NEW l \in Nested, NEW new, Retopped(new, l, nst)
  PROVE  /\ new \in Seq(Nested) /\ Len(new) = Len(nst) /\ new[1] = l
         /\ \A k \in 2 .. Len(nst) : new[k] = nst[k]
         /\ PathsFrom(new, 1) = LevelPaths(l) \cup PathsFrom(nst, 2)
<1>1. /\ Len(nst) \in Nat \ {0} /\ \A k \in 1 .. Len(nst) : nst[k] \in Nested
  BY NestIs
<1>2. /\ IsList(new) /\ Len(new) = Len(nst) /\ new[1] = l
      /\ \A k \in 2 .. Len(nst) : new[k] = nst[k]
  BY DEF Retopped
<1>3. \A k \in 1 .. Len(new) : new[k] \in Nested
  BY <1>1, <1>2
<1>4. new \in Seq(Nested)
  BY <1>2, <1>3, NestOf
<1>5. PathsFrom(new, 2) = PathsFrom(nst, 2)
  BY <1>2 DEF PathsFrom
<1>6. PathsFrom(new, 1) = LevelPaths(new[1]) \cup PathsFrom(new, 2)
  BY <1>1, <1>2, <1>4, NestIs
<1> QED
  BY <1>2, <1>4, <1>5, <1>6

(* and another put inside it.                                              *)
LEMMA NestPushed ==
  ASSUME NEW nst \in Seq(Nested), Len(nst) # 0, NEW l \in Nested, NEW m \in Nested,
         NEW new, Stacked(new, l, m, nst)
  PROVE  /\ new \in Seq(Nested) /\ Len(new) = Len(nst) + 1 /\ new[1] = l /\ new[2] = m
         /\ \A k \in 2 .. Len(nst) : k + 1 \in 3 .. Len(new) /\ new[k + 1] = nst[k]
         /\ \A k \in 3 .. Len(new) : k - 1 \in 2 .. Len(nst) /\ new[k] = nst[k - 1]
         /\ PathsFrom(new, 1) = LevelPaths(l) \cup LevelPaths(m) \cup PathsFrom(nst, 2)
<1>1. /\ Len(nst) \in Nat \ {0} /\ \A k \in 1 .. Len(nst) : nst[k] \in Nested
  BY NestIs
<1>2. /\ IsList(new) /\ Len(new) = Len(nst) + 1 /\ new[1] = l /\ new[2] = m
      /\ \A k \in 3 .. Len(nst) + 1 : new[k] = nst[k - 1]
  BY DEF Stacked
<1>3. \A k \in 3 .. Len(new) : k - 1 \in 2 .. Len(nst) /\ new[k] = nst[k - 1]
  BY <1>1, <1>2
<1>4. \A k \in 2 .. Len(nst) : k + 1 \in 3 .. Len(new) /\ new[k + 1] = nst[k]
  BY <1>1, <1>2
<1>5. \A k \in 1 .. Len(new) : k = 1 \/ k = 2 \/ k \in 3 .. Len(new)
  BY <1>1, <1>2
<1>6. \A k \in 1 .. Len(new) : new[k] \in Nested
  <2>1. \A k \in 2 .. Len(nst) : k \in 1 .. Len(nst)
    BY <1>1
  <2> QED
    BY <2>1, <1>1, <1>2, <1>3, <1>5
<1>7. new \in Seq(Nested)
  BY <1>2, <1>6, NestOf
<1>8. PathsFrom(new, 1) \subseteq LevelPaths(l) \cup LevelPaths(m) \cup PathsFrom(nst, 2)
  BY <1>2, <1>3, <1>5 DEF PathsFrom
<1>9. LevelPaths(l) \cup LevelPaths(m) \subseteq PathsFrom(new, 1)
  <2>1. 1 \in 1 .. Len(new) /\ 2 \in 1 .. Len(new)
    BY <1>1, <1>2
  <2> QED
    BY <2>1, <1>2 DEF PathsFrom
<1>10. PathsFrom(nst, 2) \subseteq PathsFrom(new, 1)
  <2>1. \A k \in 2 .. Len(nst) : k + 1 \in 1 .. Len(new)
    BY <1>1, <1>2
  <2> QED
    BY <2>1, <1>4 DEF PathsFrom
<1> QED
  BY <1>2, <1>3, <1>4, <1>7, <1>8, <1>9, <1>10

(* The innermost level gone, the next one replaced.                        *)
LEMMA NestPopped ==
  ASSUME NEW nst \in Seq(Nested), Len(nst) > 1, NEW l \in Nested, NEW new, Unstacked(new, l, nst)
  PROVE  /\ new \in Seq(Nested) /\ Len(new) = Len(nst) - 1 /\ new[1] = l
         /\ \A k \in 2 .. Len(new) : k + 1 \in 3 .. Len(nst) /\ new[k] = nst[k + 1]
         /\ PathsFrom(nst, 1) = LevelPaths(nst[1]) \cup LevelPaths(nst[2]) \cup PathsFrom(nst, 3)
         /\ PathsFrom(new, 1) = LevelPaths(l) \cup PathsFrom(nst, 3)
<1>0. Len(nst) \in Nat /\ Len(nst) # 0
  OBVIOUS
<1>1. /\ Len(nst) \in Nat \ {0} /\ \A k \in 1 .. Len(nst) : nst[k] \in Nested
  BY <1>0, NestIs
<1>2. /\ IsList(new) /\ Len(new) = Len(nst) - 1 /\ new[1] = l
      /\ \A k \in 2 .. Len(nst) - 1 : new[k] = nst[k + 1]
  BY DEF Unstacked
<1>3. \A k \in 2 .. Len(new) : k + 1 \in 3 .. Len(nst) /\ new[k] = nst[k + 1]
  BY <1>1, <1>2
<1>4. \A k \in 3 .. Len(nst) : k - 1 \in 2 .. Len(new) /\ new[k - 1] = nst[k]
  <2> TAKE k \in 3 .. Len(nst)
  <2>1. k - 1 \in 2 .. Len(nst) - 1 /\ (k - 1) + 1 = k
    BY <1>1
  <2> QED
    BY <2>1, <1>2
<1>5. \A k \in 1 .. Len(new) : k = 1 \/ k \in 2 .. Len(new)
  BY <1>1, <1>2
<1>6. \A k \in 1 .. Len(new) : new[k] \in Nested
  <2>1. \A k \in 3 .. Len(nst) : k \in 1 .. Len(nst)
    BY <1>1
  <2> QED
    BY <2>1, <1>1, <1>2, <1>3, <1>5
<1>7. new \in Seq(Nested) /\ Len(new) # 0
  BY <1>0, <1>2, <1>6, NestOf, SMTT(30)
<1>8. PathsFrom(new, 2) = PathsFrom(nst, 3)
  BY <1>3, <1>4 DEF PathsFrom
<1>9. PathsFrom(new, 1) = LevelPaths(l) \cup PathsFrom(nst, 3)
  BY <1>2, <1>7, <1>8, NestIs
<1>10. PathsFrom(nst, 2) = LevelPaths(nst[2]) \cup PathsFrom(nst, 3)
  <2>1. \A m \in Nat : m \in 2 .. Len(nst) <=> m = 2 \/ m \in 3 .. Len(nst)
    BY <1>1
  <2> QED
    BY <2>1 DEF PathsFrom
<1>11. PathsFrom(nst, 1) = LevelPaths(nst[1]) \cup PathsFrom(nst, 2)
  BY <1>0, NestIs
<1> QED
  BY <1>2, <1>3, <1>7, <1>9, <1>10, <1>11
-----------------------------------------------------------------------------
(* The scopes of an evaluator.                                             *)
LEMMA ScopesOf ==
  ASSUME NEW ev, WellFormed(ev)
  PROVE  /\ \A i \in DOMAIN ev.stack :
              /\ ev.stack[i].dfs_prefix \in Path /\ ev.stack[i].routine_counter \in Nat
              /\ ev.stack[i].dfs_prefix \in PathsIn(ev.segments)
         /\ Apart(ev.segments) => \A i \in DOMAIN ev.stack :
              i # 1 => ev.stack[i].dfs_prefix # ev.stack[1].dfs_prefix
<1>1. /\ ev.stack \in Seq(Frame) /\ DOMAIN ev.stack = 1 .. Len(ev.stack) /\ Len(ev.stack) \in Nat
      /\ \A i \in DOMAIN ev.stack : OwnsSegment(ev, i)
      /\ \A i, j \in DOMAIN ev.stack : i < j => ev.stack[j].current_segment < ev.stack[i].current_segment
  BY DEF WellFormed, EvaluatorSet
<1>2. \A i \in DOMAIN ev.stack : ev.stack[i] \in Frame
  BY <1>1
<1>3. \A i \in DOMAIN ev.stack :
        /\ ev.stack[i].dfs_prefix \in Path /\ ev.stack[i].routine_counter \in Nat
        /\ ev.stack[i].current_segment \in Nat
  BY <1>2 DEF Frame
<1>4. \A i \in DOMAIN ev.stack :
        /\ ev.stack[i].current_segment \in DOMAIN ev.segments
        /\ ev.segments[ev.stack[i].current_segment].dfs_path = ev.stack[i].dfs_prefix
  BY <1>1 DEF OwnsSegment
<1>5. ASSUME Apart(ev.segments), NEW i \in DOMAIN ev.stack, i # 1
      PROVE  ev.stack[i].dfs_prefix # ev.stack[1].dfs_prefix
  <2>1. 1 \in DOMAIN ev.stack /\ 1 < i
    BY <1>1, <1>5
  <2>2. ev.stack[i].current_segment # ev.stack[1].current_segment
    BY <2>1, <1>1, <1>3
  <2> QED
    BY <2>1, <2>2, <1>4, <1>5 DEF Apart
<1> QED
  BY <1>3, <1>4, <1>5 DEF PathsIn

(* The paths of a nest.                                                    *)
LEMMA NestPathsIn ==
  ASSUME NEW nst \in Seq(Nested), Len(nst) # 0
  PROVE  /\ PathsFrom(nst, 1) \in SUBSET Path
         /\ \A k \in 1 .. Len(nst) : /\ PathsIn(nst[k].ev.segments) \subseteq LevelPaths(nst[k])
                                     /\ PathsIn(nst[k].deferred) \subseteq LevelPaths(nst[k])
                                     /\ LevelPaths(nst[k]) \subseteq PathsFrom(nst, 1)
<1>1. ASSUME NEW list \in Seq(Segment) PROVE PathsIn(list) \subseteq Path
  BY PathsOf DEF PathsIn, Path
<1>2. \A k \in 1 .. Len(nst) : nst[k].ev.segments \in Seq(Segment) /\ nst[k].deferred \in Seq(Segment)
  BY NestIs DEF Nested, EvaluatorSet
<1>3. \A k \in 1 .. Len(nst) : LevelPaths(nst[k]) \subseteq Path
  BY <1>1, <1>2 DEF LevelPaths
<1> QED
  BY <1>3 DEF PathsFrom, LevelPaths

(* The path of the next call is free, and every scope leads it.            *)
LEMMA ChildLeads ==
  ASSUME NEW p, NEW nst, NestInv(p, nst), Running(nst[1].ev)
  PROVE  LET ev    == nst[1].ev
             child == ChildPrefix(ev)
             R     == PathsFrom(nst, 1) \cup {child}
         IN  /\ 1 \in DOMAIN ev.stack /\ Top(ev) = ev.stack[1]
             /\ child \in Path /\ child \notin PathsFrom(nst, 1)
             /\ Leads(child, 0, R)
             /\ Leads(Top(ev).dfs_prefix, Top(ev).routine_counter + 1, R)
             /\ \A i \in DOMAIN ev.stack : i # 1 => Leads(ev.stack[i].dfs_prefix, ev.stack[i].routine_counter, R)
             /\ \A k \in 2 .. Len(nst) : LeadIn(nst[k].ev, R)
<1> DEFINE ev    == nst[1].ev
           child == ChildPrefix(ev)
           P     == PathsFrom(nst, 1)
           q     == Top(ev).dfs_prefix
           c     == Top(ev).routine_counter
<1>1. /\ nst \in Seq(Nested) /\ Len(nst) \in Nat \ {0}
      /\ \A k \in 1 .. Len(nst) : LevelSound(p, nst[k], P)
      /\ LevelsApart(nst)
  BY NestIs DEF NestInv
<1>2. \A k \in 1 .. Len(nst) : WellFormed(nst[k].ev) /\ LeadIn(nst[k].ev, P) /\ Apart(nst[k].ev.segments)
  BY <1>1 DEF LevelSound, EvaluatorSound
<1>3. 1 \in 1 .. Len(nst) /\ \A k \in 2 .. Len(nst) : k \in 1 .. Len(nst) /\ k # 1
  BY <1>1
<1>4. 1 \in DOMAIN ev.stack /\ Top(ev) = ev.stack[1]
  BY <1>2, <1>3, StackIs
<1>5. /\ q \in Path /\ c \in Nat /\ q \in PathsIn(ev.segments) /\ Leads(q, c, P)
      /\ child = Append(q, c)
  BY <1>2, <1>3, <1>4, ScopesOf DEF LeadIn, ChildPrefix
<1>6. P \in SUBSET Path /\ q \in P /\ q \in LevelPaths(nst[1])
  BY <1>1, <1>3, <1>5, NestPathsIn
<1> HIDE DEF P, q, c, child
<1>7. /\ child \in Path /\ child \notin P
      /\ Leads(child, 0, P \cup {child}) /\ Leads(q, c + 1, P \cup {child})
  BY <1>5, <1>6, LeadsNew
<1>8. ASSUME NEW r \in Path, r # q, NEW d, Leads(r, d, P) PROVE Leads(r, d, P \cup {child})
  BY <1>5, <1>6, <1>8, LeadsOther
<1>9. ASSUME NEW i \in DOMAIN ev.stack, i # 1
      PROVE  Leads(ev.stack[i].dfs_prefix, ev.stack[i].routine_counter, P \cup {child})
  <2>1. /\ ev.stack[i].dfs_prefix \in Path /\ ev.stack[i].dfs_prefix # ev.stack[1].dfs_prefix
    BY <1>2, <1>3, <1>9, ScopesOf
  <2>2. Leads(ev.stack[i].dfs_prefix, ev.stack[i].routine_counter, P)
    BY <1>2, <1>3 DEF LeadIn
  <2> QED
    BY <2>1, <2>2, <1>4, <1>8 DEF q
<1>10. ASSUME NEW k \in 2 .. Len(nst), NEW i \in DOMAIN nst[k].ev.stack
       PROVE  Leads(nst[k].ev.stack[i].dfs_prefix, nst[k].ev.stack[i].routine_counter, P \cup {child})
  <2>1. /\ nst[k].ev.stack[i].dfs_prefix \in Path
        /\ nst[k].ev.stack[i].dfs_prefix \in PathsIn(nst[k].ev.segments)
    BY <1>2, <1>3, ScopesOf
  <2>2. nst[k].ev.stack[i].dfs_prefix \in LevelPaths(nst[k])
    BY <2>1 DEF LevelPaths
  <2>3. nst[k].ev.stack[i].dfs_prefix # q
    BY <2>2, <1>1, <1>3, <1>6 DEF LevelsApart
  <2>4. Leads(nst[k].ev.stack[i].dfs_prefix, nst[k].ev.stack[i].routine_counter, P)
    BY <1>2, <1>3 DEF LeadIn
  <2> QED
    BY <2>1, <2>3, <2>4, <1>8
<1>11. \A k \in 2 .. Len(nst) : LeadIn(nst[k].ev, P \cup {child})
  BY <1>10 DEF LeadIn
<1> QED
  BY <1>4, <1>7, <1>9, <1>11 DEF P, q, c, child, ev

(* More paths leave what is finished, and a level whose scopes lead them.  *)
LEMMA DeferredMore ==
  ASSUME NEW p, NEW list, NEW P, DeferredSound(p, list, P), NEW R, P \subseteq R
  PROVE  DeferredSound(p, list, R)
BY RanMore DEF DeferredSound, Finished

(* As a level.                                                             *)
LEMMA LevelMore ==
  ASSUME NEW p, NEW l, NEW P, LevelSound(p, l, P), NEW R, P \subseteq R, LeadIn(l.ev, R)
  PROVE  LevelSound(p, l, R)
BY DeferredMore, RunsMore DEF LevelSound, EvaluatorSound
-----------------------------------------------------------------------------
(* The innermost evaluator may go on as e, taking the paths X.             *)
MayGo(p, nst, e, X) ==
  /\ EvaluatorSound(p, e, PathsFrom(nst, 1) \cup X)
  /\ PathsIn(e.segments) = PathsIn(nst[1].ev.segments) \cup X
  /\ X \intersect PathsFrom(nst, 1) = {}
  /\ \A b : Body1(p, b, nst[1].ev) => Body1(p, b, e)
  /\ \A k \in 2 .. Len(nst) : LeadIn(nst[k].ev, PathsFrom(nst, 1) \cup X)

(* A level with another evaluator.                                         *)
LEMMA LevelWith ==
  ASSUME NEW l \in Nested, NEW e \in EvaluatorSet
  PROVE  [l EXCEPT !.ev = e] \in Nested /\ [l EXCEPT !.ev = e].ev = e
         /\ [l EXCEPT !.ev = e].deferred = l.deferred
BY DEF Nested

(* And with more deferred.                                                 *)
LEMMA LevelKeeping ==
  ASSUME NEW l \in Nested, NEW list \in Seq(Segment)
  PROVE  [l EXCEPT !.deferred = list] \in Nested /\ [l EXCEPT !.deferred = list].ev = l.ev
         /\ [l EXCEPT !.deferred = list].deferred = list
BY DEF Nested

(* What that means for its level and those around it.                      *)
LEMMA MayGoLevels ==
  ASSUME NEW p, NEW nst, NestInv(p, nst), NEW e, NEW X, MayGo(p, nst, e, X)
  PROVE  LET l == [nst[1] EXCEPT !.ev = e]
             R == PathsFrom(nst, 1) \cup X
         IN  /\ l \in Nested /\ l.ev = e
             /\ LevelPaths(l) = LevelPaths(nst[1]) \cup X
             /\ LevelSound(p, l, R)
             /\ \A k \in 2 .. Len(nst) :
                  LevelSound(p, nst[k], R) /\ LevelPaths(l) \intersect LevelPaths(nst[k]) = {}
<1> DEFINE l == [nst[1] EXCEPT !.ev = e]
           P == PathsFrom(nst, 1)
<1>1. /\ nst \in Seq(Nested) /\ Len(nst) \in Nat \ {0}
      /\ \A k \in 1 .. Len(nst) : nst[k] \in Nested /\ LevelSound(p, nst[k], P)
      /\ LevelsApart(nst)
  BY NestIs DEF NestInv
<1>2. 1 \in 1 .. Len(nst) /\ \A k \in 2 .. Len(nst) : k \in 1 .. Len(nst) /\ k # 1
  BY <1>1
<1>3. e \in EvaluatorSet
  BY DEF MayGo, EvaluatorSound, WellFormed
<1>4. l \in Nested /\ l.ev = e /\ l.deferred = nst[1].deferred
  BY <1>1, <1>2, <1>3, LevelWith
<1> HIDE DEF l, P
<1>5. LevelPaths(l) = LevelPaths(nst[1]) \cup X
  BY <1>4 DEF LevelPaths, MayGo
<1>6. \A k \in 1 .. Len(nst) : LevelPaths(nst[k]) \subseteq P
  BY <1>1, NestPathsIn DEF P
<1>7. LevelSound(p, l, P \cup X)
  <2>1. DeferredSound(p, l.deferred, P \cup X)
    <3>1. DeferredSound(p, nst[1].deferred, P) /\ P \subseteq P \cup X
      BY <1>1, <1>2 DEF LevelSound
    <3> QED
      BY <3>1, <1>4, DeferredMore
  <2>2. PathsIn(l.ev.segments) \intersect PathsIn(l.deferred) = {}
    <3>1. PathsIn(nst[1].ev.segments) \intersect PathsIn(nst[1].deferred) = {}
      BY <1>1, <1>2 DEF LevelSound
    <3>2. PathsIn(nst[1].deferred) \subseteq P
      BY <1>2, <1>6 DEF LevelPaths
    <3>3. PathsIn(e.segments) = PathsIn(nst[1].ev.segments) \cup X /\ X \intersect P = {}
      BY DEF MayGo, P
    <3> QED
      BY <3>1, <3>2, <3>3, <1>4
  <2> QED
    BY <2>1, <2>2, <1>4 DEF LevelSound, MayGo, P
<1>8. ASSUME NEW k \in 2 .. Len(nst)
      PROVE  LevelSound(p, nst[k], P \cup X) /\ LevelPaths(l) \intersect LevelPaths(nst[k]) = {}
  <2>1. LevelSound(p, nst[k], P) /\ LeadIn(nst[k].ev, P \cup X) /\ P \subseteq P \cup X
    BY <1>1, <1>2 DEF MayGo, P
  <2>2. LevelSound(p, nst[k], P \cup X)
    BY <2>1, LevelMore
  <2>3. LevelPaths(nst[1]) \intersect LevelPaths(nst[k]) = {}
    BY <1>1, <1>2 DEF LevelsApart
  <2>4. X \intersect LevelPaths(nst[k]) = {}
    BY <1>2, <1>6 DEF MayGo, P
  <2> QED
    BY <2>2, <2>3, <2>4, <1>5
<1> QED
  BY <1>4, <1>5, <1>7, <1>8 DEF l, P

(* The nest goes on with it.                                               *)
LEMMA NestGoes ==
  ASSUME NEW p, NEW nst, NestInv(p, nst), NEW e, NEW X, MayGo(p, nst, e, X), Gets(p, AnyWhere, e),
         NEW new, Retopped(new, [nst[1] EXCEPT !.ev = e], nst)
  PROVE  NestInv(p, new)
<1> DEFINE l == [nst[1] EXCEPT !.ev = e]
           R == PathsFrom(nst, 1) \cup X
<1>1. /\ l \in Nested /\ l.ev = e
      /\ LevelPaths(l) = LevelPaths(nst[1]) \cup X
      /\ LevelSound(p, l, R)
      /\ \A k \in 2 .. Len(nst) :
           LevelSound(p, nst[k], R) /\ LevelPaths(l) \intersect LevelPaths(nst[k]) = {}
  BY MayGoLevels
<1>2. nst \in Seq(Nested) /\ Len(nst) \in Nat \ {0} /\ Len(nst) # 0
  BY NestIs DEF NestInv
<1> HIDE DEF l
<1>3. /\ new \in Seq(Nested) /\ Len(new) = Len(nst) /\ new[1] = l
      /\ \A k \in 2 .. Len(nst) : new[k] = nst[k]
      /\ PathsFrom(new, 1) = LevelPaths(l) \cup PathsFrom(nst, 2)
  BY <1>1, <1>2, NestReplaced DEF l
<1>4. PathsFrom(new, 1) = R
  BY <1>1, <1>2, <1>3, NestIs
<1> HIDE DEF R
<1>5. \A k \in 1 .. Len(nst) : k = 1 \/ k \in 2 .. Len(nst)
  BY <1>2
<1>6. \A k \in 1 .. Len(new) : LevelSound(p, new[k], PathsFrom(new, 1))
  BY <1>1, <1>3, <1>4, <1>5
<1>7. ASSUME NEW k \in 1 .. Len(new) PROVE Linked(p, new, k)
  <2>1. PICK b : /\ Body1(p, b, nst[k].ev)
                 /\ k < Len(nst) => Running(nst[k + 1].ev) /\ Waits(p, AnyWhere, Top(nst[k + 1].ev), b)
    BY <1>3 DEF NestInv, Linked
  <2>2. Body1(p, b, new[k].ev)
    BY <2>1, <1>1, <1>3, <1>5 DEF MayGo
  <2>3. k < Len(new) => new[k + 1] = nst[k + 1]
    <3>1. k < Len(nst) => k + 1 \in 2 .. Len(nst)
      BY <1>2, <1>3
    <3> QED
      BY <3>1, <1>3
  <2> QED
    BY <2>1, <2>2, <2>3, <1>3 DEF Linked
<1>8. LevelsApart(new)
  <2>1. ASSUME NEW k \in 1 .. Len(nst), NEW m \in 1 .. Len(nst), k # m
        PROVE  LevelPaths(new[k]) \intersect LevelPaths(new[m]) = {}
    <3>1. k # 1 /\ m # 1 => LevelPaths(nst[k]) \intersect LevelPaths(nst[m]) = {}
      BY <2>1 DEF NestInv, LevelsApart
    <3> QED
      BY <3>1, <2>1, <1>1, <1>3, <1>5
  <2> QED
    BY <2>1, <1>3 DEF LevelsApart
<1>9. <<>> \in PathsFrom(new, 1) /\ Len(new) # 0 /\ Gets(p, AnyWhere, new[1].ev)
  BY <1>1, <1>2, <1>3, <1>4 DEF NestInv, R
<1> QED
  BY <1>3, <1>6, <1>7, <1>8, <1>9 DEF NestInv

(* A routine that is given an evaluator of its own: the caller waits for   *)
(* the body c, whose evaluator starts on the path q.                       *)
MayStart(p, nst, e, c, q, inner) ==
  /\ EvaluatorSound(p, e, PathsFrom(nst, 1) \cup {q})
  /\ PathsIn(e.segments) = PathsIn(nst[1].ev.segments)
  /\ q \notin PathsFrom(nst, 1)
  /\ \A b : Body1(p, b, nst[1].ev) => Body1(p, b, e)
  /\ \A k \in 2 .. Len(nst) : LeadIn(nst[k].ev, PathsFrom(nst, 1) \cup {q})
  /\ Running(e) /\ Waits(p, AnyWhere, Top(e), c)
  /\ EvaluatorSound(p, inner, PathsFrom(nst, 1) \cup {q})
  /\ PathsIn(inner.segments) = {q}
  /\ Body1(p, c, inner) /\ Gets(p, AnyWhere, inner)

(* The nest with that evaluator inside.                                    *)
LEMMA NestStarts ==
  ASSUME NEW p, NEW nst, NestInv(p, nst), NEW e, NEW c, NEW q, NEW inner,
         MayStart(p, nst, e, c, q, inner),
         NEW new, Stacked(new, [ev |-> inner, deferred |-> <<>>], [nst[1] EXCEPT !.ev = e], nst)
  PROVE  NestInv(p, new)
<1> DEFINE l == [ev |-> inner, deferred |-> <<>>]
           m == [nst[1] EXCEPT !.ev = e]
           P == PathsFrom(nst, 1)
           R == P \cup {q}
<1>1. /\ nst \in Seq(Nested) /\ Len(nst) \in Nat \ {0} /\ Len(nst) # 0
      /\ \A k \in 1 .. Len(nst) : nst[k] \in Nested /\ LevelSound(p, nst[k], P)
      /\ \A k \in 1 .. Len(nst) : LevelPaths(nst[k]) \subseteq P
      /\ LevelsApart(nst)
      /\ P = LevelPaths(nst[1]) \cup PathsFrom(nst, 2)
  BY NestIs, NestPathsIn DEF NestInv
<1>2. 1 \in 1 .. Len(nst) /\ \A k \in 2 .. Len(nst) : k \in 1 .. Len(nst) /\ k # 1
  BY <1>1
<1>3. e \in EvaluatorSet /\ inner \in EvaluatorSet
  BY DEF MayStart, EvaluatorSound, WellFormed
<1>4. m \in Nested /\ m.ev = e /\ m.deferred = nst[1].deferred
  BY <1>1, <1>2, <1>3, LevelWith
<1>5. l \in Nested /\ l.ev = inner /\ l.deferred = <<>>
  BY <1>3 DEF Nested
<1> HIDE DEF l, m, P
<1>6. LevelPaths(m) = LevelPaths(nst[1])
  BY <1>4 DEF LevelPaths, MayStart
<1>7. LevelPaths(l) = {q} /\ PathsIn(l.deferred) = {}
  BY <1>5 DEF LevelPaths, MayStart, PathsIn
<1>8. LevelSound(p, m, R)
  <2>1. DeferredSound(p, m.deferred, R)
    <3>1. DeferredSound(p, nst[1].deferred, P) /\ P \subseteq R
      BY <1>1, <1>2 DEF LevelSound
    <3> QED
      BY <3>1, <1>4, DeferredMore
  <2>2. PathsIn(m.ev.segments) \intersect PathsIn(m.deferred) = {}
    BY <1>1, <1>2, <1>4 DEF LevelSound, MayStart
  <2> QED
    BY <2>1, <2>2, <1>4 DEF LevelSound, MayStart, P
<1>9. LevelSound(p, l, R)
  <2>1. DeferredSound(p, l.deferred, R)
    BY <1>5 DEF DeferredSound, Apart
  <2> QED
    BY <2>1, <1>5, <1>7 DEF LevelSound, MayStart, P
<1>10. ASSUME NEW k \in 2 .. Len(nst) PROVE LevelSound(p, nst[k], R)
  <2>1. LevelSound(p, nst[k], P) /\ LeadIn(nst[k].ev, R) /\ P \subseteq R
    BY <1>1, <1>2 DEF MayStart, P
  <2> QED
    BY <2>1, LevelMore
<1>11. /\ new \in Seq(Nested) /\ Len(new) = Len(nst) + 1 /\ new[1] = l /\ new[2] = m
       /\ \A k \in 2 .. Len(nst) : k + 1 \in 3 .. Len(new) /\ new[k + 1] = nst[k]
       /\ \A k \in 3 .. Len(new) : k - 1 \in 2 .. Len(nst) /\ new[k] = nst[k - 1]
       /\ PathsFrom(new, 1) = LevelPaths(l) \cup LevelPaths(m) \cup PathsFrom(nst, 2)
  <2>1. Stacked(new, l, m, nst)
    BY DEF l, m
  <2> QED
    BY ONLY <2>1, <1>1, <1>4, <1>5, NestPushed
<1>12. PathsFrom(new, 1) = R
  BY <1>1, <1>6, <1>7, <1>11
<1> HIDE DEF R
<1>13. \A k \in 1 .. Len(new) : k = 1 \/ k = 2 \/ k \in 3 .. Len(new)
  BY <1>1, <1>11
<1>14. \A k \in 1 .. Len(new) : LevelSound(p, new[k], PathsFrom(new, 1))
  BY <1>8, <1>9, <1>10, <1>11, <1>12, <1>13
<1>15. ASSUME NEW k \in 1 .. Len(new) PROVE Linked(p, new, k)
  <2>1. CASE k = 1
    <3>1. Body1(p, c, new[1].ev) /\ Running(new[2].ev) /\ Waits(p, AnyWhere, Top(new[2].ev), c)
      BY <1>4, <1>5, <1>11 DEF MayStart
    <3> QED
      BY <2>1, <3>1 DEF Linked
  <2>2. CASE k = 2
    <3>1. PICK b : /\ Body1(p, b, nst[1].ev)
                   /\ 1 < Len(nst) => Running(nst[2].ev) /\ Waits(p, AnyWhere, Top(nst[2].ev), b)
      BY <1>2 DEF NestInv, Linked
    <3>2. Body1(p, b, new[2].ev)
      BY <3>1, <1>4, <1>11 DEF MayStart
    <3>3. 2 < Len(new) => 1 < Len(nst) /\ new[3] = nst[2]
      <4>1. 2 < Len(new) => 1 < Len(nst) /\ 2 \in 2 .. Len(nst)
        BY <1>1, <1>11
      <4>2. 2 \in 2 .. Len(nst) => new[2 + 1] = nst[2]
        BY <1>11
      <4> QED
        BY <4>1, <4>2
    <3> QED
      BY <2>2, <3>1, <3>2, <3>3 DEF Linked
  <2>3. CASE k \in 3 .. Len(new)
    <3>1. k - 1 \in 2 .. Len(nst) /\ new[k] = nst[k - 1] /\ (k - 1) + 1 = k
      BY <2>3, <1>1, <1>11
    <3>2. PICK b : /\ Body1(p, b, nst[k - 1].ev)
                   /\ k - 1 < Len(nst) => Running(nst[k].ev) /\ Waits(p, AnyWhere, Top(nst[k].ev), b)
      BY <3>1, <1>2 DEF NestInv, Linked
    <3>3. k < Len(new) => k - 1 < Len(nst) /\ new[k + 1] = nst[k]
      <4>1. k < Len(new) => k - 1 < Len(nst) /\ k \in 2 .. Len(nst)
        BY <2>3, <1>1, <1>11
      <4> QED
        BY <4>1, <1>11
    <3> QED
      BY <3>1, <3>2, <3>3 DEF Linked
  <2> QED
    BY <2>1, <2>2, <2>3, <1>13
<1>16. LevelsApart(new)
  <2>1. ASSUME NEW k \in 2 .. Len(nst) PROVE LevelPaths(nst[k]) \intersect (LevelPaths(l) \cup LevelPaths(m)) = {}
    <3>1. LevelPaths(nst[1]) \intersect LevelPaths(nst[k]) = {} /\ LevelPaths(nst[k]) \subseteq P
      BY <1>1, <1>2 DEF LevelsApart
    <3>2. q \notin P
      BY DEF MayStart, P
    <3> QED
      BY <3>1, <3>2, <1>6, <1>7
  <2>2. LevelPaths(l) \intersect LevelPaths(m) = {}
    BY <1>1, <1>2, <1>6, <1>7 DEF MayStart, P
  <2>3. ASSUME NEW k \in 3 .. Len(new), NEW j \in 3 .. Len(new), k # j
        PROVE  LevelPaths(new[k]) \intersect LevelPaths(new[j]) = {}
    <3>1. k - 1 \in 2 .. Len(nst) /\ j - 1 \in 2 .. Len(nst) /\ k - 1 # j - 1
      BY <2>3, <1>1, <1>11
    <3> QED
      BY <3>1, <1>1, <1>2, <1>11 DEF LevelsApart
  <2>4. \A k \in 3 .. Len(new) : LevelPaths(new[k]) \intersect (LevelPaths(l) \cup LevelPaths(m)) = {}
    BY <2>1, <1>11
  <2>5. ASSUME NEW k \in 1 .. Len(new), NEW j \in 1 .. Len(new), k # j
        PROVE  LevelPaths(new[k]) \intersect LevelPaths(new[j]) = {}
    <3>1. CASE k \in 3 .. Len(new) /\ j \in 3 .. Len(new)
      BY <3>1, <2>3, <2>5
    <3>2. CASE k \in 3 .. Len(new) /\ (j = 1 \/ j = 2)
      BY <3>2, <2>4, <1>11
    <3>3. CASE (k = 1 \/ k = 2) /\ j \in 3 .. Len(new)
      BY <3>3, <2>4, <1>11
    <3>4. CASE (k = 1 \/ k = 2) /\ (j = 1 \/ j = 2)
      BY <3>4, <2>2, <2>5, <1>11
    <3> QED
      BY <3>1, <3>2, <3>3, <3>4, <1>13
  <2> QED
    BY <2>5 DEF LevelsApart
<1>17. <<>> \in PathsFrom(new, 1) /\ Len(new) # 0 /\ Gets(p, AnyWhere, new[1].ev)
  BY <1>1, <1>5, <1>11, <1>12 DEF NestInv, MayStart, R, P
<1> QED
  BY <1>11, <1>14, <1>15, <1>16, <1>17 DEF NestInv

(* An evaluator that is over leaves finished segments.                     *)
LEMMA OverSound ==
  ASSUME NEW p, NEW ev, NEW P, EvaluatorSound(p, ev, P), ~Running(ev)
  PROVE  DeferredSound(p, ev.segments, P)
<1>1. DOMAIN ev.stack = {} /\ ev.err = Ok
  BY DEF Running, EvaluatorSound
<1>2. \A i \in DOMAIN ev.segments : SegmentRan(p, ev, i, P) /\ SegmentHolds(p, AnyWhere, ev, i)
  BY DEF EvaluatorSound, Runs, Content
<1> QED
  BY <1>1, <1>2 DEF SegmentRan, SegmentHolds, Finished, DeferredSound, EvaluatorSound

(* Finished segments after finished ones.                                  *)
LEMMA DeferredJoined ==
  ASSUME NEW p, NEW P, NEW s \in Seq(Segment), NEW t \in Seq(Segment),
         DeferredSound(p, s, P), DeferredSound(p, t, P), PathsIn(s) \intersect PathsIn(t) = {}
  PROVE  /\ s \o t \in Seq(Segment) /\ DeferredSound(p, s \o t, P)
         /\ PathsIn(s \o t) = PathsIn(s) \cup PathsIn(t)
<1> DEFINE u == s \o t
<1>1. /\ u \in Seq(Segment) /\ Apart(u) /\ PathsIn(u) = PathsIn(s) \cup PathsIn(t)
      /\ \A i \in DOMAIN u : \/ \E j \in DOMAIN s : u[i] = s[j]
                             \/ \E j \in DOMAIN t : u[i] = t[j]
  BY ApartJoined DEF DeferredSound
<1> HIDE DEF u
<1>2. \A i \in DOMAIN u : Finished(p, u[i], P)
  BY <1>1 DEF DeferredSound
<1> QED
  BY <1>1, <1>2 DEF DeferredSound, u

(* What the caller of a level that is over keeps.                          *)
Kept(nst) == (nst[2].deferred \o nst[1].ev.segments) \o nst[1].deferred

(* It is finished, and holds the paths of both.                            *)
LEMMA KeptSound ==
  ASSUME NEW p, NEW nst, NestInv(p, nst), Len(nst) > 1, ~Running(nst[1].ev)
  PROVE  LET l == [nst[2] EXCEPT !.deferred = Kept(nst)]
         IN  /\ l \in Nested /\ l.ev = nst[2].ev
             /\ LevelPaths(l) = LevelPaths(nst[1]) \cup LevelPaths(nst[2])
             /\ LevelSound(p, l, PathsFrom(nst, 1))
<1> DEFINE P == PathsFrom(nst, 1)
           a == nst[2].deferred
           s == nst[1].ev.segments
           t == nst[1].deferred
           l == [nst[2] EXCEPT !.deferred = Kept(nst)]
           A == LevelPaths(nst[1])
           B == LevelPaths(nst[2])
<1>1. /\ 1 \in 1 .. Len(nst) /\ 2 \in 1 .. Len(nst)
      /\ nst[1] \in Nested /\ nst[2] \in Nested
  BY NestIs DEF NestInv
<1>2. LevelSound(p, nst[1], P) /\ LevelSound(p, nst[2], P) /\ A \intersect B = {}
  <2>1. LevelSound(p, nst[1], P) /\ LevelSound(p, nst[2], P) /\ LevelsApart(nst)
    BY <1>1 DEF NestInv
  <2> HIDE DEF P
  <2>2. A \intersect B = {}
    BY <2>1, <1>1, SMTT(30) DEF LevelsApart
  <2> QED
    BY <2>1, <2>2
<1> HIDE DEF P
<1>3. a \in Seq(Segment) /\ s \in Seq(Segment) /\ t \in Seq(Segment)
  BY <1>1 DEF Nested, EvaluatorSet
<1>4. /\ DeferredSound(p, a, P) /\ DeferredSound(p, s, P) /\ DeferredSound(p, t, P)
      /\ PathsIn(s) \intersect PathsIn(t) = {}
  BY <1>2, OverSound DEF LevelSound
<1>5. A = PathsIn(s) \cup PathsIn(t) /\ B = PathsIn(nst[2].ev.segments) \cup PathsIn(a)
  BY DEF LevelPaths
<1> HIDE DEF a, s, t, A, B
<1>6. /\ a \o s \in Seq(Segment) /\ DeferredSound(p, a \o s, P)
      /\ PathsIn(a \o s) = PathsIn(a) \cup PathsIn(s)
  <2>1. PathsIn(a) \intersect PathsIn(s) = {}
    BY <1>2, <1>5
  <2> QED
    BY <2>1, <1>3, <1>4, DeferredJoined
<1>7. /\ (a \o s) \o t \in Seq(Segment) /\ DeferredSound(p, (a \o s) \o t, P)
      /\ PathsIn((a \o s) \o t) = (PathsIn(a) \cup PathsIn(s)) \cup PathsIn(t)
  <2> DEFINE u == a \o s
  <2>0. u \in Seq(Segment) /\ DeferredSound(p, u, P) /\ PathsIn(u) = PathsIn(a) \cup PathsIn(s)
    BY <1>6
  <2> HIDE DEF u
  <2>1. PathsIn(u) \intersect PathsIn(t) = {}
    BY <2>0, <1>2, <1>4, <1>5
  <2>2. /\ u \o t \in Seq(Segment) /\ DeferredSound(p, u \o t, P)
        /\ PathsIn(u \o t) = PathsIn(u) \cup PathsIn(t)
    BY <2>0, <2>1, <1>3, <1>4, DeferredJoined
  <2> QED
    BY <2>0, <2>2 DEF u
<1>8. Kept(nst) = (a \o s) \o t
  BY DEF Kept, a, s, t
<1>9. l \in Nested /\ l.ev = nst[2].ev /\ l.deferred = Kept(nst)
  BY <1>1, <1>7, <1>8, LevelKeeping
<1> HIDE DEF l
<1>10. LevelPaths(l) = A \cup B
  BY <1>5, <1>7, <1>8, <1>9 DEF LevelPaths
<1>11. PathsIn(l.ev.segments) \intersect PathsIn(l.deferred) = {}
  <2>1. PathsIn(nst[2].ev.segments) \intersect PathsIn(a) = {}
    BY <1>2 DEF LevelSound, a
  <2> QED
    BY <2>1, <1>2, <1>5, <1>7, <1>8, <1>9
<1>12. LevelSound(p, l, P)
  BY <1>2, <1>7, <1>8, <1>9, <1>11 DEF LevelSound
<1> QED
  BY <1>9, <1>10, <1>12 DEF l, A, B, P

(* The nest then: the caller got past the call.                            *)
LEMMA NestReturns ==
  ASSUME NEW p \in Programs, NEW nst, NestInv(p, nst), Len(nst) > 1, ~Running(nst[1].ev),
         NEW new, Unstacked(new, [nst[2] EXCEPT !.deferred = Kept(nst)], nst)
  PROVE  NestInv(p, new)
<1> DEFINE l == [nst[2] EXCEPT !.deferred = Kept(nst)]
           P == PathsFrom(nst, 1)
<1>1. /\ nst \in Seq(Nested) /\ Len(nst) \in Nat \ {0} /\ Len(nst) # 0
      /\ \A k \in 1 .. Len(nst) : nst[k] \in Nested /\ LevelSound(p, nst[k], P)
      /\ \A k \in 1 .. Len(nst) : LevelPaths(nst[k]) \subseteq P
      /\ LevelsApart(nst)
  BY NestIs, NestPathsIn DEF NestInv
<1>2. /\ 1 \in 1 .. Len(nst) /\ 2 \in 1 .. Len(nst)
      /\ \A k \in 3 .. Len(nst) : k \in 1 .. Len(nst) /\ k # 1 /\ k # 2
  BY <1>1
<1>3. /\ l \in Nested /\ l.ev = nst[2].ev
      /\ LevelPaths(l) = LevelPaths(nst[1]) \cup LevelPaths(nst[2])
      /\ LevelSound(p, l, P)
  BY KeptSound
<1>4. Unstacked(new, l, nst)
  OBVIOUS
<1> HIDE DEF l, P
<1>5. /\ new \in Seq(Nested) /\ Len(new) = Len(nst) - 1 /\ new[1] = l
      /\ \A k \in 2 .. Len(new) : k + 1 \in 3 .. Len(nst) /\ new[k] = nst[k + 1]
      /\ PathsFrom(nst, 1) = LevelPaths(nst[1]) \cup LevelPaths(nst[2]) \cup PathsFrom(nst, 3)
      /\ PathsFrom(new, 1) = LevelPaths(l) \cup PathsFrom(nst, 3)
  BY ONLY <1>1, <1>3, <1>4, Len(nst) > 1, NestPopped
<1>6. PathsFrom(new, 1) = P
  BY <1>3, <1>5 DEF P
<1>7. Len(new) \in Nat \ {0} /\ \A k \in 1 .. Len(new) : k = 1 \/ k \in 2 .. Len(new)
  BY <1>1, <1>5
<1>8. \A k \in 1 .. Len(new) : LevelSound(p, new[k], PathsFrom(new, 1))
  BY <1>1, <1>2, <1>3, <1>5, <1>6, <1>7
<1>9. ASSUME NEW k \in 1 .. Len(new) PROVE Linked(p, new, k)
  <2>1. k + 1 \in 1 .. Len(nst) /\ new[k].ev = nst[k + 1].ev
    <3>1. CASE k = 1
      BY <3>1, <1>2, <1>3, <1>5
    <3>2. CASE k \in 2 .. Len(new)
      BY <3>2, <1>2, <1>5
    <3> QED
      BY <3>1, <3>2, <1>7
  <2>2. PICK b : /\ Body1(p, b, nst[k + 1].ev)
                 /\ k + 1 < Len(nst) => /\ Running(nst[(k + 1) + 1].ev)
                                        /\ Waits(p, AnyWhere, Top(nst[(k + 1) + 1].ev), b)
    BY <2>1 DEF NestInv, Linked
  <2>3. k < Len(new) => k + 1 < Len(nst) /\ new[k + 1] = nst[(k + 1) + 1]
    <3>1. k < Len(new) => k + 1 < Len(nst) /\ k + 1 \in 2 .. Len(new)
      BY <1>1, <1>5, <1>7
    <3> QED
      BY <3>1, <1>5
  <2> QED
    BY <2>1, <2>2, <2>3 DEF Linked
<1>10. LevelsApart(new)
  <2>1. ASSUME NEW k \in 2 .. Len(new), NEW m \in 2 .. Len(new), k # m
        PROVE  LevelPaths(new[k]) \intersect LevelPaths(new[m]) = {}
    <3>1. k + 1 \in 1 .. Len(nst) /\ m + 1 \in 1 .. Len(nst) /\ k + 1 # m + 1
      BY <2>1, <1>2, <1>5, <1>7
    <3> QED
      BY <3>1, <2>1, <1>1, <1>5 DEF LevelsApart
  <2>2. ASSUME NEW k \in 2 .. Len(new) PROVE LevelPaths(new[k]) \intersect LevelPaths(l) = {}
    <3>1. k + 1 \in 1 .. Len(nst) /\ k + 1 # 1 /\ k + 1 # 2 /\ new[k] = nst[k + 1]
      BY <1>2, <1>5
    <3>2. /\ LevelPaths(nst[k + 1]) \intersect LevelPaths(nst[1]) = {}
          /\ LevelPaths(nst[k + 1]) \intersect LevelPaths(nst[2]) = {}
      BY <3>1, <1>1, <1>2 DEF LevelsApart
    <3> QED
      BY <3>1, <3>2, <1>3
  <2>3. ASSUME NEW k \in 1 .. Len(new), NEW m \in 1 .. Len(new), k # m
        PROVE  LevelPaths(new[k]) \intersect LevelPaths(new[m]) = {}
    BY <2>1, <2>2, <2>3, <1>5, <1>7
  <2> QED
    BY <2>3 DEF LevelsApart
<1>11. Gets(p, AnyWhere, new[1].ev)
  <2>1. PICK b : /\ Body1(p, b, nst[1].ev)
                 /\ Running(nst[2].ev) /\ Waits(p, AnyWhere, Top(nst[2].ev), b)
    <3>1. Linked(p, nst, 1) /\ 1 < Len(nst) /\ 1 + 1 = 2
      BY <1>1, <1>2 DEF NestInv
    <3> QED
      BY <3>1 DEF Linked
  <2>2. nst[1].ev.err = Ok /\ WellFormed(nst[2].ev)
    BY <1>1, <1>2 DEF LevelSound, EvaluatorSound
  <2>3. b \notin Abstract!Raising(p, AnyWhere)
    BY <2>1, <2>2 DEF Body1, Goes
  <2>4. Top(nst[2].ev).name \in Routines /\ Top(nst[2].ev).at \in Nat \ {0}
    BY <2>1, <2>2, StackIs
  <2>5. Abstract!GetsTo(p, AnyWhere, Top(nst[2].ev).name, Top(nst[2].ev).at)
    BY <2>1, <2>3, <2>4, WaitedGets
  <2> QED
    BY <2>5, <1>3, <1>5 DEF Gets
<1>12. <<>> \in PathsFrom(new, 1) /\ Len(new) # 0
  BY <1>6, <1>7 DEF NestInv, P
<1> QED
  BY <1>5, <1>8, <1>9, <1>10, <1>11, <1>12 DEF NestInv
-----------------------------------------------------------------------------
(* How the innermost evaluator of a nest may go on.  What is known of it:  *)
LEMMA Innermost ==
  ASSUME NEW p, NEW nst, NestInv(p, nst)
  PROVE  /\ EvaluatorSound(p, nst[1].ev, PathsFrom(nst, 1)) /\ WellFormed(nst[1].ev)
         /\ Gets(p, AnyWhere, nst[1].ev)
         /\ \E b : Body1(p, b, nst[1].ev)
         /\ \A k \in 2 .. Len(nst) : LeadIn(nst[k].ev, PathsFrom(nst, 1))
<1>1. \A k \in 1 .. Len(nst) : LevelSound(p, nst[k], PathsFrom(nst, 1)) /\ Linked(p, nst, k)
  BY DEF NestInv
<1>2. 1 \in 1 .. Len(nst) /\ \A k \in 2 .. Len(nst) : k \in 1 .. Len(nst)
  BY NestIs DEF NestInv
<1> QED
  BY <1>1, <1>2 DEF NestInv, Linked, LevelSound, EvaluatorSound

(* Segments on the same paths.                                             *)
LEMMA SamePaths ==
  ASSUME NEW list, NEW new, DOMAIN new = DOMAIN list,
         \A s \in DOMAIN list : new[s].dfs_path = list[s].dfs_path
  PROVE  PathsIn(new) = PathsIn(list) /\ (Apart(list) => Apart(new))
BY DEF PathsIn, Apart

(* Every prediction is of one of the two kinds.                            *)
LEMMA Predictions ==
  ASSUME NEW p \in Programs, NEW ev, WellFormed(ev), AboutTo(p, ev, "routine")
  PROVE  Running(ev) /\ ~AtEnd(p, ev) /\ NextOp(p, ev).kind = "routine" /\ NextOp(p, ev).predict \in AnyWhere
<1>1. Running(ev) /\ ~AtEnd(p, ev) /\ NextOp(p, ev).kind = "routine"
  BY DEF AboutTo
<1>2. NextOp(p, ev) \in Op
  BY <1>1, NextOpType DEF WellFormed
<1> QED
  BY <1>1, <1>2 DEF Op, GateOp, AssignExtraOp, LinearOp, RoutineOp, AnyWhere

(* By a call within its scope,                                             *)
LEMMA StraightMayGo ==
  ASSUME NEW p \in Programs, NEW nst, NestInv(p, nst), NEW e, Straight(p, nst[1].ev, e)
  PROVE  MayGo(p, nst, e, {}) /\ Gets(p, AnyWhere, e)
<1> DEFINE ev == nst[1].ev
           P  == PathsFrom(nst, 1)
<1>1. /\ EvaluatorSound(p, ev, P) /\ WellFormed(ev) /\ Gets(p, AnyWhere, ev)
      /\ \E b : Body1(p, b, ev)
      /\ \A k \in 2 .. Len(nst) : LeadIn(nst[k].ev, P)
  BY Innermost
<1>2. /\ WellFormed(e) /\ GoesOn(p, ev, e) /\ Running(ev)
      /\ ~Abstract!CallRaises(p[Top(ev).name].ops[Top(ev).at], AnyWhere, Abstract!Raising(p, AnyWhere))
      /\ Content(p, AnyWhere, ev) => Content(p, AnyWhere, e)
  BY <1>1, StraightIs
<1>3. ~AtEnd(p, ev) /\ NextOp(p, ev).kind # "routine"
  BY DEF Straight, AboutTo
<1> HIDE DEF ev, P
<1>4. Top(ev).at \notin Calls(p, Top(ev).name)
  BY <1>1, <1>2, <1>3, NextCall
<1>5. Runs(p, e, P)
  BY <1>1, <1>2, <1>4, RunsOn DEF EvaluatorSound
<1>6. PathsIn(e.segments) = PathsIn(ev.segments) /\ Apart(e.segments) /\ e.err = Ok
  BY <1>1, <1>2, SamePaths DEF EvaluatorSound, GoesOn
<1>7. LeadIn(e, P)
  <2>1. ASSUME NEW i \in DOMAIN e.stack PROVE Leads(e.stack[i].dfs_prefix, e.stack[i].routine_counter, P)
    <3>1. i \in DOMAIN ev.stack /\ Leads(ev.stack[i].dfs_prefix, ev.stack[i].routine_counter, P)
      BY <1>1, <1>2 DEF EvaluatorSound, LeadIn, GoesOn
    <3>2. /\ e.stack[i].dfs_prefix = ev.stack[i].dfs_prefix
          /\ e.stack[i].routine_counter = ev.stack[i].routine_counter
      BY <3>1, <1>2, <1>4 DEF GoesOn, Top
    <3> QED
      BY <3>1, <3>2
  <2> QED
    BY <2>1 DEF LeadIn
<1>8. \A b : Body1(p, b, ev) => Body1(p, b, e) /\ Gets(p, AnyWhere, e)
  BY <1>1, <1>2, GoesNext DEF Body1
<1>9. EvaluatorSound(p, e, P)
  BY <1>1, <1>2, <1>5, <1>6, <1>7 DEF EvaluatorSound
<1>10. P \cup {} = P
  OBVIOUS
<1> QED
  BY <1>1, <1>6, <1>8, <1>9, <1>10 DEF MayGo, ev, P

(* by leaving it,                                                          *)
LEMMA LeaveMayGo ==
  ASSUME NEW p \in Programs, NEW nst, NestInv(p, nst), Running(nst[1].ev), AtEnd(p, nst[1].ev)
  PROVE  MayGo(p, nst, LeaveScope(nst[1].ev), {}) /\ Gets(p, AnyWhere, LeaveScope(nst[1].ev))
<1> DEFINE ev == nst[1].ev
           e  == LeaveScope(ev)
           P  == PathsFrom(nst, 1)
<1>1. /\ EvaluatorSound(p, ev, P) /\ WellFormed(ev) /\ Gets(p, AnyWhere, ev)
      /\ \E b : Body1(p, b, ev)
      /\ \A k \in 2 .. Len(nst) : LeadIn(nst[k].ev, P)
      /\ Running(ev) /\ AtEnd(p, ev)
  BY Innermost
<1> HIDE DEF ev, P
<1>2. /\ WellFormed(e) /\ e.segments = ev.segments /\ e.err = ev.err
      /\ \A i \in DOMAIN e.stack : i + 1 \in DOMAIN ev.stack /\ e.stack[i] = ev.stack[i + 1]
  BY <1>1, LeaveIs
<1>3. Runs(p, e, P)
  BY <1>1, RunsLeave DEF EvaluatorSound
<1>4. \A b : Body1(p, b, ev) => /\ Body1(p, b, e) /\ Gets(p, AnyWhere, e)
                                /\ Top(ev).name \notin Abstract!Raising(p, AnyWhere)
  BY <1>1, GoesLeave DEF Body1
<1>5. CalledAs(p, Top(ev).dfs_prefix, Top(ev).name)
  <2>1. 1 \in DOMAIN ev.stack /\ Top(ev) = ev.stack[1]
    BY <1>1, StackIs
  <2> QED
    BY <2>1, <1>1 DEF EvaluatorSound, Runs, FrameStands, Stands
<1>6. Content(p, AnyWhere, e)
  BY <1>1, <1>4, <1>5, ContentLeave DEF EvaluatorSound
<1> HIDE DEF e
<1>7. LeadIn(e, P)
  BY <1>1, <1>2 DEF EvaluatorSound, LeadIn
<1>8. EvaluatorSound(p, e, P)
  BY <1>1, <1>2, <1>3, <1>6, <1>7 DEF EvaluatorSound
<1>9. P \cup {} = P /\ PathsIn(e.segments) = PathsIn(ev.segments)
  BY <1>2
<1> QED
  BY <1>1, <1>4, <1>8, <1>9 DEF MayGo, ev, e, P

(* by calling a routine: its own scope went past the call,                 *)
LEMMA CallerLeads ==
  ASSUME NEW p \in Programs, NEW nst, NestInv(p, nst), AboutTo(p, nst[1].ev, "routine")
  PROVE  LET ev  == nst[1].ev
             mid == DeferRoutine(ev)
         IN  /\ GoesOn(p, ev, mid)
             /\ PathsIn(mid.segments) = PathsIn(ev.segments)
             /\ EvaluatorSound(p, mid, PathsFrom(nst, 1) \cup {ChildPrefix(ev)})
<1> DEFINE ev  == nst[1].ev
           mid == DeferRoutine(ev)
           P   == PathsFrom(nst, 1)
           R   == P \cup {ChildPrefix(ev)}
<1>1. EvaluatorSound(p, ev, P) /\ WellFormed(ev)
  BY Innermost
<1>2. Running(ev) /\ ~AtEnd(p, ev) /\ NextOp(p, ev).kind = "routine"
  BY DEF AboutTo
<1>3. /\ 1 \in DOMAIN ev.stack /\ Top(ev) = ev.stack[1]
      /\ Leads(Top(ev).dfs_prefix, Top(ev).routine_counter + 1, R)
      /\ \A i \in DOMAIN ev.stack : i # 1 => Leads(ev.stack[i].dfs_prefix, ev.stack[i].routine_counter, R)
  BY <1>2, ChildLeads
<1>4. GoesOn(p, ev, mid) /\ AboutTo(p, ev, "routine")
  BY <1>1, DeferGoesOn
<1>5. WellFormed(mid) /\ Content(p, AnyWhere, mid)
  BY <1>1, <1>4, ContentDefer DEF EvaluatorSound
<1> HIDE DEF ev, mid, P
<1>6. Top(ev).at \in Calls(p, Top(ev).name)
  BY <1>1, <1>2, NextCall
<1>7. P \subseteq R /\ ChildPrefix(ev) \in R
  OBVIOUS
<1> HIDE DEF R
<1>8. Runs(p, mid, R)
  BY <1>1, <1>2, <1>4, <1>7, RunsOn DEF EvaluatorSound
<1>9. PathsIn(mid.segments) = PathsIn(ev.segments) /\ Apart(mid.segments) /\ mid.err = Ok
  BY <1>1, <1>4, SamePaths DEF EvaluatorSound, GoesOn
<1>10. LeadIn(mid, R)
  <2>1. DOMAIN mid.stack = DOMAIN ev.stack /\ \A i \in DOMAIN ev.stack : i # 1 => mid.stack[i] = ev.stack[i]
    BY <1>4 DEF GoesOn
  <2>2. mid.stack[1].dfs_prefix = Top(ev).dfs_prefix /\ mid.stack[1].routine_counter = Top(ev).routine_counter + 1
    BY <1>4, <1>6 DEF GoesOn, Top
  <2> QED
    BY <2>1, <2>2, <1>3 DEF LeadIn
<1>11. EvaluatorSound(p, mid, R)
  BY <1>5, <1>8, <1>9, <1>10 DEF EvaluatorSound
<1> QED
  BY <1>4, <1>9, <1>11 DEF ev, mid, R, P

(* and into the routine, in this evaluator,                                *)
LEMMA EnterMayGo ==
  ASSUME NEW p \in Programs, NEW nst, NestInv(p, nst), AboutTo(p, nst[1].ev, "routine"),
         NextOp(p, nst[1].ev).err = Ok
  PROVE  LET e == EnterRoutine(nst[1].ev, NextOp(p, nst[1].ev))
         IN  MayGo(p, nst, e, {ChildPrefix(nst[1].ev)}) /\ Gets(p, AnyWhere, e)
<1> DEFINE ev  == nst[1].ev
           mid == DeferRoutine(ev)
           op  == NextOp(p, ev)
           e   == EnterRoutine(ev, op)
           q   == ChildPrefix(ev)
           P   == PathsFrom(nst, 1)
           R   == P \cup {q}
<1>1. /\ EvaluatorSound(p, ev, P) /\ WellFormed(ev) /\ Gets(p, AnyWhere, ev)
      /\ \E b : Body1(p, b, ev)
  BY Innermost
<1>2. AboutTo(p, ev, "routine") /\ Running(ev) /\ op.predict \in AnyWhere /\ op.err = Ok
  BY <1>1, Predictions
<1>3. q \in Path /\ q \notin P /\ Leads(q, 0, R) /\ \A k \in 2 .. Len(nst) : LeadIn(nst[k].ev, R)
  BY <1>2, ChildLeads
<1>4. GoesOn(p, ev, mid) /\ PathsIn(mid.segments) = PathsIn(ev.segments) /\ EvaluatorSound(p, mid, R)
  BY <1>2, CallerLeads
<1> HIDE DEF ev, P
<1>5. /\ WellFormed(e) /\ e.err = mid.err
      /\ DOMAIN mid.segments = 1 .. Len(mid.segments) /\ Len(mid.segments) \in Nat
      /\ DOMAIN e.segments = 1 .. Len(mid.segments) + 1
      /\ e.segments[Len(mid.segments) + 1] = NewSegment(q)
      /\ \A s \in 1 .. Len(mid.segments) : e.segments[s] = mid.segments[s]
      /\ e.stack[1] = NewFrame(op.name, Len(mid.segments) + 1, q)
      /\ \A i \in DOMAIN e.stack : i # 1 => i - 1 \in DOMAIN mid.stack /\ e.stack[i] = mid.stack[i - 1]
  BY <1>1, <1>2, EnterIs
<1>6. Content(p, AnyWhere, e)
  BY <1>1, <1>2, ContentEnter DEF EvaluatorSound
<1>7. Runs(p, e, R)
  <2>1. P \subseteq R /\ ChildPrefix(ev) \in R
    OBVIOUS
  <2> HIDE DEF R, q
  <2> QED
    BY <2>1, <1>1, <1>2, RunsEnter DEF EvaluatorSound
<1>8. \A b : Body1(p, b, ev) => Body1(p, b, e) /\ Gets(p, AnyWhere, e)
  <2>1. Enters(p, AnyWhere, AnyWhere, Abstract!Entered(p, AnyWhere, AnyWhere))
    BY EnteredIs
  <2> QED
    BY <2>1, <1>1, <1>2, GoesEnter DEF Body1
<1> HIDE DEF e, mid, op
<1>9. e.segments[Len(mid.segments) + 1].dfs_path = q
  BY <1>5 DEF NewSegment
<1> HIDE DEF q
<1>10. PathsIn(e.segments) = PathsIn(ev.segments) \cup {q}
  <2>1. PathsIn(e.segments) = PathsIn(mid.segments) \cup {q}
    <3>1. \A s \in 1 .. Len(mid.segments) + 1 : s \in 1 .. Len(mid.segments) \/ s = Len(mid.segments) + 1
      BY <1>5
    <3>2. \A s \in 1 .. Len(mid.segments) : s \in 1 .. Len(mid.segments) + 1
      BY <1>5
    <3>3. Len(mid.segments) + 1 \in 1 .. Len(mid.segments) + 1
      BY <1>5
    <3> QED
      BY <3>1, <3>2, <3>3, <1>5, <1>9, SMTT(30) DEF PathsIn
  <2> QED
    BY <2>1, <1>4
<1>11. Apart(e.segments)
  <2>1. Apart(mid.segments) /\ q \notin PathsIn(mid.segments)
    <3>1. nst \in Seq(Nested) /\ Len(nst) # 0 /\ 1 \in 1 .. Len(nst)
      BY NestIs DEF NestInv
    <3>2. PathsIn(ev.segments) \subseteq P
      BY <3>1, NestPathsIn DEF ev, P
    <3> QED
      BY <3>2, <1>3, <1>4 DEF EvaluatorSound
  <2>2. ASSUME NEW s \in DOMAIN e.segments, NEW r \in DOMAIN e.segments,
               e.segments[s].dfs_path = e.segments[r].dfs_path
        PROVE  s = r
    <3>1. \/ s \in 1 .. Len(mid.segments) /\ e.segments[s].dfs_path \in PathsIn(mid.segments)
          \/ s = Len(mid.segments) + 1
      BY <1>5 DEF PathsIn
    <3>2. \/ r \in 1 .. Len(mid.segments) /\ e.segments[r].dfs_path \in PathsIn(mid.segments)
          \/ r = Len(mid.segments) + 1
      BY <1>5 DEF PathsIn
    <3>3. CASE s \in 1 .. Len(mid.segments) /\ r \in 1 .. Len(mid.segments)
      BY <3>3, <2>1, <2>2, <1>5 DEF Apart
    <3> QED
      BY <3>1, <3>2, <3>3, <2>1, <2>2, <1>9
  <2> QED
    BY <2>2 DEF Apart
<1>12. LeadIn(e, R)
  <2>1. e.stack[1].dfs_prefix = q /\ e.stack[1].routine_counter = 0
    BY <1>5 DEF NewFrame
  <2>2. ASSUME NEW i \in DOMAIN e.stack PROVE Leads(e.stack[i].dfs_prefix, e.stack[i].routine_counter, R)
    <3>1. CASE i = 1
      BY <3>1, <2>1, <1>3
    <3>2. CASE i # 1
      BY <3>2, <1>4, <1>5 DEF EvaluatorSound, LeadIn
    <3> QED
      BY <3>1, <3>2
  <2> QED
    BY <2>2 DEF LeadIn
<1>13. EvaluatorSound(p, e, R)
  BY <1>4, <1>5, <1>6, <1>7, <1>11, <1>12 DEF EvaluatorSound
<1>14. {q} \intersect P = {}
  BY <1>3
<1> QED
  BY <1>1, <1>3, <1>8, <1>10, <1>13, <1>14 DEF MayGo, ev, e, q, P, R, op

(* or in an evaluator of the routine's own.                                *)
LEMMA DeferMayStart ==
  ASSUME NEW p \in Programs, NEW nst, NestInv(p, nst), AboutTo(p, nst[1].ev, "routine"),
         NextOp(p, nst[1].ev).err = Ok
  PROVE  LET ev == nst[1].ev
             n  == NextOp(p, ev).name
             q  == ChildPrefix(ev)
         IN  MayStart(p, nst, DeferRoutine(ev), n, q, NewEvaluator(n, q))
<1> DEFINE ev  == nst[1].ev
           mid == DeferRoutine(ev)
           n   == NextOp(p, ev).name
           q   == ChildPrefix(ev)
           inn == NewEvaluator(n, q)
           P   == PathsFrom(nst, 1)
           R   == P \cup {q}
<1>1. /\ EvaluatorSound(p, ev, P) /\ WellFormed(ev) /\ Gets(p, AnyWhere, ev)
      /\ \E b : Body1(p, b, ev)
  BY Innermost
<1>2. /\ AboutTo(p, ev, "routine") /\ Running(ev)
      /\ NextOp(p, ev).predict \in AnyWhere /\ NextOp(p, ev).err = Ok
  BY <1>1, Predictions
<1>3. q \in Path /\ q \notin P /\ Leads(q, 0, R) /\ \A k \in 2 .. Len(nst) : LeadIn(nst[k].ev, R)
  BY <1>2, ChildLeads
<1>4. PathsIn(mid.segments) = PathsIn(ev.segments) /\ EvaluatorSound(p, mid, R)
  BY <1>2, CallerLeads
<1> HIDE DEF ev, P
<1>5. \A b : Body1(p, b, ev) => Body1(p, b, mid) /\ Running(mid) /\ Waits(p, AnyWhere, Top(mid), n)
  BY <1>1, <1>2, CallWaits DEF Body1
<1>6. n \in Routines /\ Body1(p, n, inn) /\ Gets(p, AnyWhere, inn)
  <2>1. PICK b : Sound(p, AnyWhere, AnyWhere, b, ev)
    BY <1>1 DEF Body1, Sound
  <2>2. n \in Routines /\ Sound(p, AnyWhere, AnyWhere, n, NewEvaluator(n, q))
    BY <2>1, <1>1, <1>2, SpawnSound
  <2> QED
    BY <2>2 DEF Sound, Body1
<1>7. CalledAs(p, q, n)
  BY <1>1, <1>2, ChildCalled DEF EvaluatorSound
<1> HIDE DEF mid, n, q
<1>8. WellFormed(inn) /\ Runs(p, inn, R) /\ Content(p, AnyWhere, inn)
  BY <1>3, <1>6, <1>7, NewEvaluatorWellFormed, RunsNew, ContentNew
<1>9. /\ inn.err = Ok /\ DOMAIN inn.segments = {1} /\ inn.segments[1].dfs_path = q
      /\ DOMAIN inn.stack = {1} /\ inn.stack[1].dfs_prefix = q /\ inn.stack[1].routine_counter = 0
  BY DEF NewEvaluator, NewSegment, NewFrame
<1> HIDE DEF inn
<1>10. Apart(inn.segments) /\ PathsIn(inn.segments) = {q} /\ LeadIn(inn, R)
  BY <1>3, <1>9 DEF Apart, PathsIn, LeadIn
<1>11. EvaluatorSound(p, inn, R)
  BY <1>8, <1>9, <1>10 DEF EvaluatorSound
<1> QED
  BY <1>1, <1>3, <1>4, <1>5, <1>6, <1>10, <1>11 DEF MayStart, ev, mid, n, q, inn, P, R
-----------------------------------------------------------------------------
(* What a run promises that executes every routine at its call.  Where all *)
(* of them run in their callers, more bodies raise an error,               *)
LEMMA RaisingLess ==
  ASSUME NEW p \in Programs
  PROVE  Abstract!Raising(p, InCaller) \subseteq Abstract!Raising(p, AnyWhere)
<1> DEFINE R == Abstract!Raising(p, AnyWhere)
<1>1. R \subseteq Routines
  BY DEF Abstract!Raising
<1>2. ASSUME NEW n \in Routines, NEW i \in DOMAIN p[n].ops, Abstract!CallRaises(p[n].ops[i], InCaller, R)
      PROVE  n \in R
  <2>1. Abstract!CallRaises(p[n].ops[i], AnyWhere, R)
    BY <1>2 DEF Abstract!CallRaises, InCaller, AnyWhere
  <2> QED
    BY <2>1, RaisingIs
<1> HIDE DEF R
<1>3. R \in Abstract!RaisingSets(p, InCaller)
  BY <1>1, <1>2 DEF Abstract!RaisingSets
<1> QED
  BY <1>3 DEF Abstract!Raising, R

(* and the errors that come out are some of those any body it gets to has. *)
LEMMA FirstErrorAny ==
  ASSUME NEW p \in Programs
  PROVE  Abstract!ErrorsOf(p, AnyWhere, AnyWhere) \subseteq Abstract!ErrorsOf(p, InCaller, AnyWhere)
<1> DEFINE E == Abstract!Entered(p, InCaller, AnyWhere)
           F == Abstract!Entered(p, AnyWhere, AnyWhere)
<1>1. \A o : Abstract!CallRaises(o, InCaller, Abstract!Raising(p, InCaller))
               => Abstract!CallRaises(o, AnyWhere, Abstract!Raising(p, AnyWhere))
  BY RaisingLess DEF Abstract!CallRaises, InCaller, AnyWhere
<1>2. \A n, i : Abstract!GetsTo(p, AnyWhere, n, i) => Abstract!GetsTo(p, InCaller, n, i)
  BY <1>1 DEF Abstract!GetsTo
<1>3. F \subseteq E
  <2>1. Enters(p, InCaller, AnyWhere, E)
    BY EnteredIs
  <2> HIDE DEF E
  <2>2. Enters(p, AnyWhere, AnyWhere, E)
    BY <2>1, <1>2 DEF Enters
  <2> QED
    BY <2>2, EnteredIs
<1>4. \A n : Abstract!FaultsOf(p, AnyWhere, n) \subseteq Abstract!FaultsOf(p, InCaller, n)
  BY <1>2 DEF Abstract!FaultsOf
<1> HIDE DEF E, F
<1> QED
  BY <1>3, <1>4 DEF Abstract!ErrorsOf, E, F

(* The innermost evaluator fails.                                          *)
LEMMA NestFails ==
  ASSUME NEW p \in Programs, NEW nst, NestInv(p, nst), Running(nst[1].ev), ~AtEnd(p, nst[1].ev),
         NextOp(p, nst[1].ev).kind \in {"gate", "assign_extra", "routine"}, NextOp(p, nst[1].ev).err # Ok
  PROVE  /\ NextOp(p, nst[1].ev).err \in Errors
         /\ NextOp(p, nst[1].ev).err \in Abstract!ErrorsOf(p, AnyWhere, AnyWhere)
<1> DEFINE ev == nst[1].ev
<1>1. WellFormed(ev) /\ Gets(p, AnyWhere, ev) /\ \E b : Body1(p, b, ev)
  BY Innermost
<1>2. /\ Running(ev) /\ ~AtEnd(p, ev) /\ NextOp(p, ev).err # Ok
      /\ NextOp(p, ev).kind \in {"gate", "assign_extra", "routine"}
  OBVIOUS
<1> HIDE DEF ev
<1>3. NextOp(p, ev) \in Op
  BY <1>1, <1>2, NextOpType DEF WellFormed
<1>4. NextOp(p, ev).err \in Errors
  BY <1>2, <1>3 DEF Op, GateOp, AssignExtraOp, LinearOp, RoutineOp
<1>5. Faults(p, AnyWhere, Abstract!Entered(p, AnyWhere, AnyWhere), NextOp(p, ev).err)
  BY <1>1, <1>2, GoesUnwind DEF Body1
<1>6. NextOp(p, ev).err \in Abstract!ErrorsOf(p, AnyWhere, AnyWhere)
  BY <1>5, FaultIsError
<1> QED
  BY <1>4, <1>6 DEF ev

(* The last evaluator is over: the segments in order are the depth-first   *)
(* list, and no body the circuit gets to raises an error.                  *)
LEMMA NestFinishes ==
  ASSUME NEW p \in Programs, NEW nst, NestInv(p, nst), Len(nst) = 1, ~Running(nst[1].ev),
         NEW u \in Sorted(nst[1].ev.segments \o nst[1].deferred)
  PROVE  /\ u \in Seq(Segment) /\ Abstract!DepthFirst(p, u)
         /\ Abstract!ErrorsOf(p, InCaller, AnyWhere) = {}
<1> DEFINE l    == nst[1]
           P    == PathsFrom(nst, 1)
           list == l.ev.segments \o l.deferred
<1>1. nst \in Seq(Nested) /\ l \in Nested /\ LevelSound(p, l, P) /\ <<>> \in P
  <2>1. /\ nst \in Seq(Nested) /\ Len(nst) # 0 /\ 1 \in 1 .. Len(nst) /\ <<>> \in P
        /\ \A k \in 1 .. Len(nst) : LevelSound(p, nst[k], P)
    BY DEF NestInv
  <2> HIDE DEF P
  <2> QED
    BY <2>1, NestIs
<1>2. P = LevelPaths(l) /\ P \in SUBSET Path
  BY <1>1, NestPathsIn DEF PathsFrom
<1>3. DeferredSound(p, l.ev.segments, P) /\ DeferredSound(p, l.deferred, P)
  BY <1>1, OverSound DEF LevelSound
<1>4. /\ l.ev.segments \in Seq(Segment) /\ l.deferred \in Seq(Segment)
      /\ PathsIn(l.ev.segments) \intersect PathsIn(l.deferred) = {}
  BY <1>1 DEF Nested, EvaluatorSet, LevelSound
<1> HIDE DEF P, l
<1>5. list \in Seq(Segment) /\ DeferredSound(p, list, P) /\ PathsIn(list) = P
  BY <1>2, <1>3, <1>4, DeferredJoined DEF LevelPaths
<1>6. u \in Sorted(list)
  BY DEF l
<1> HIDE DEF list
<1>7. /\ Apart(list) /\ u \in Seq(Segment)
      /\ SegmentsOf(u) = SegmentsOf(list) /\ InOrder(u)
  BY <1>5, <1>6, Sorts, SortedType DEF DeferredSound
<1>8. \A i \in DOMAIN u : Finished(p, u[i], P)
  <2> TAKE i \in DOMAIN u
  <2>1. u[i] \in SegmentsOf(list)
    BY <1>7 DEF SegmentsOf
  <2>2. PICK j \in DOMAIN list : u[i] = list[j]
    BY <2>1 DEF SegmentsOf
  <2> QED
    BY <2>2, <1>5 DEF DeferredSound
<1>9. { u[i].dfs_path : i \in DOMAIN u } = P
  <2>1. { u[i].dfs_path : i \in DOMAIN u } = { s.dfs_path : s \in SegmentsOf(u) }
    BY DEF SegmentsOf
  <2>2. PathsIn(list) = { s.dfs_path : s \in SegmentsOf(list) }
    BY DEF SegmentsOf, PathsIn
  <2> QED
    BY <2>1, <2>2, <1>5, <1>7
<1>10. P = CalledPaths(p)
  <2>1. ASSUME NEW q \in P PROVE \E g : Ran(p, q, g, P)
    <3>1. PICK i \in DOMAIN u : u[i].dfs_path = q
      BY <1>9
    <3> QED
      BY <3>1, <1>8 DEF Finished
  <2> QED
    BY <2>1, <1>1, AllRan
<1>11. Traced(p, u)
  BY <1>7, <1>8, <1>9, <1>10 DEF Traced, Finished
<1>12. \A i \in DOMAIN u : \A n : CalledAs(p, u[i].dfs_path, n) =>
         u[i].gates = Abstract!GatesOf(p, <<u[i].dfs_path, n>>)
  BY <1>8 DEF Finished
<1>13. Abstract!DepthFirst(p, u)
  BY <1>11, <1>12, TracedDepthFirst
<1>14. ASSUME NEW q, NEW n, CalledAs(p, q, n) PROVE n \notin Abstract!Raising(p, InCaller)
  <2>1. q \in CalledPaths(p)
    BY <1>14 DEF CalledPaths, CalledAs
  <2>2. PICK i \in DOMAIN u : u[i].dfs_path = q
    BY <2>1, <1>9, <1>10
  <2>3. n \notin Abstract!Raising(p, AnyWhere)
    BY <2>2, <1>8, <1>14 DEF Finished
  <2> QED
    BY <2>3, RaisingLess
<1>15. Abstract!ErrorsOf(p, InCaller, AnyWhere) = {}
  BY <1>14, QuietCalls
<1> QED
  BY <1>7, <1>13, <1>15
-----------------------------------------------------------------------------
(* The inductive invariant of the single-threaded build.                   *)
InlineKept ==
  /\ result.err \in Errors \union {Ok} /\ result \in [err : Errors \union {Ok}, segments : Seq(Segment)]
  /\ Abstract!Promised(prog, result)
  /\ result.err # Ok => result.err \in Abstract!ErrorsOf(prog, AnyWhere, AnyWhere)
InlineInv ==
  /\ prog \in Programs
  /\ \/ pc = "run" /\ NestInv(prog, nest) /\ result = [err |-> Ok, segments |-> <<>>]
     \/ pc = "done" /\ nest = <<>> /\ InlineKept

(* An evaluator for the circuit alone is a nest.                           *)
LEMMA InlineStarts == Inline!Init => InlineInv
<1> SUFFICES ASSUME Inline!Init PROVE InlineInv
  OBVIOUS
<1> DEFINE ev == NewEvaluator(Main, <<>>)
           l  == [ev |-> ev, deferred |-> <<>>]
<1>1. prog \in Programs /\ pc = "run" /\ result = [err |-> Ok, segments |-> <<>>]
  BY DEF Inline!Init, Inline!Nothing, Inline!Ok, Ok
<1>2. nest = <<l>>
  BY SameCalls DEF Inline!Init, Inline!NewLevel, Inline!Main, Main
<1>3. Main \in Routines /\ <<>> \in Path
  BY CircuitAssumption DEF Path
<1>4. CalledAs(prog, <<>>, Main)
  BY <1>1, CalledStarts
<1>5. WellFormed(ev) /\ Runs(prog, ev, {<<>>}) /\ Content(prog, AnyWhere, ev)
  BY <1>1, <1>3, <1>4, NewEvaluatorWellFormed, RunsNew, ContentNew
<1>6. /\ ev.err = Ok /\ DOMAIN ev.segments = {1} /\ ev.segments[1].dfs_path = <<>>
      /\ DOMAIN ev.stack = {1} /\ ev.stack[1].dfs_prefix = <<>> /\ ev.stack[1].routine_counter = 0
  BY DEF NewEvaluator, NewSegment, NewFrame
<1>7. Body1(prog, Main, ev) /\ Gets(prog, AnyWhere, ev)
  <2>1. Main \in Abstract!Entered(prog, AnyWhere, AnyWhere)
    BY <1>1, EnteredIs DEF Enters
  <2> QED
    BY <2>1, <1>1, <1>3, GoesNew DEF Body1
<1> HIDE DEF ev
<1>8. Apart(ev.segments) /\ PathsIn(ev.segments) = {<<>>} /\ LeadIn(ev, {<<>>})
  BY <1>6 DEF Apart, PathsIn, LeadIn, Leads, Below
<1>9. EvaluatorSound(prog, ev, {<<>>})
  BY <1>5, <1>6, <1>8 DEF EvaluatorSound
<1>10. l \in Nested /\ l.ev = ev /\ l.deferred = <<>> /\ PathsIn(l.deferred) = {}
  BY <1>5 DEF Nested, WellFormed, PathsIn
<1> HIDE DEF l
<1>11. nest \in Seq(Nested) /\ Len(nest) = 1 /\ nest[1] = l
  BY <1>2, <1>10
<1>12. PathsFrom(nest, 1) = {<<>>}
  BY <1>8, <1>10, <1>11 DEF PathsFrom, LevelPaths
<1>13. LevelSound(prog, l, {<<>>})
  BY <1>9, <1>10 DEF LevelSound, DeferredSound, Apart
<1>14. \A k \in 1 .. Len(nest) : k = 1
  BY <1>11
<1>15. \A k \in 1 .. Len(nest) : LevelSound(prog, nest[k], PathsFrom(nest, 1)) /\ Linked(prog, nest, k)
  <2>1. LevelSound(prog, nest[1], PathsFrom(nest, 1))
    BY <1>11, <1>12, <1>13
  <2>2. Linked(prog, nest, 1)
    <3>1. ~(1 < Len(nest))
      BY <1>11
    <3>2. nest[1].ev = ev
      BY <1>10, <1>11
    <3> QED
      BY <3>1, <3>2, <1>7 DEF Linked
  <2> QED
    BY <2>1, <2>2, <1>14
<1>16. LevelsApart(nest)
  BY <1>14 DEF LevelsApart
<1>17. NestInv(prog, nest)
  BY <1>7, <1>10, <1>11, <1>12, <1>15, <1>16 DEF NestInv
<1> QED
  BY <1>1, <1>17 DEF InlineInv

(* What the nest is while eval runs.                                       *)
LEMMA InlineRuns ==
  ASSUME InlineInv, pc = "run"
  PROVE  /\ prog \in Programs /\ NestInv(prog, nest) /\ result = [err |-> Ok, segments |-> <<>>]
         /\ IsList(nest) /\ nest # <<>> /\ Len(nest) \in Nat \ {0}
         /\ Head(nest) = nest[1] /\ Inline!Current = nest[1].ev
<1>1. prog \in Programs /\ NestInv(prog, nest) /\ result = [err |-> Ok, segments |-> <<>>]
  BY DEF InlineInv
<1>2. IsList(nest) /\ nest # <<>> /\ Len(nest) \in Nat \ {0} /\ Head(nest) = nest[1]
  BY <1>1, NestIs DEF NestInv
<1> QED
  BY <1>1, <1>2 DEF Inline!Current

(* The innermost evaluator goes on,                                        *)
LEMMA InlineGoes ==
  ASSUME InlineInv, pc = "run", NEW e, NEW X, MayGo(prog, nest, e, X), Gets(prog, AnyWhere, e),
         Inline!Step(e)
  PROVE  InlineInv'
<1>1. /\ prog \in Programs /\ NestInv(prog, nest) /\ result = [err |-> Ok, segments |-> <<>>]
      /\ IsList(nest) /\ nest # <<>> /\ Head(nest) = nest[1]
  BY InlineRuns
<1>2. /\ nest' = <<[nest[1] EXCEPT !.ev = e]>> \o Tail(nest)
      /\ prog' = prog /\ pc' = "run" /\ result' = result
  BY <1>1 DEF Inline!Step
<1>3. Retopped(nest', [nest[1] EXCEPT !.ev = e], nest)
  BY <1>1, <1>2, Replaced
<1>4. NestInv(prog, nest')
  BY <1>1, <1>3, NestGoes
<1> QED
  BY <1>1, <1>2, <1>4 DEF InlineInv

(* hands a routine to one of its own,                                      *)
LEMMA InlineDefers ==
  ASSUME InlineInv, Inline!ExecutesDeferred
  PROVE  InlineInv'
<1> DEFINE ev == nest[1].ev
           n  == NextOp(prog, ev).name
           q  == ChildPrefix(ev)
           e  == DeferRoutine(ev)
           in == NewEvaluator(n, q)
           l  == [ev |-> in, deferred |-> <<>>]
           m  == [nest[1] EXCEPT !.ev = e]
<1>0. pc = "run"
  BY DEF Inline!ExecutesDeferred
<1>1. /\ prog \in Programs /\ NestInv(prog, nest) /\ result = [err |-> Ok, segments |-> <<>>]
      /\ IsList(nest) /\ nest # <<>> /\ Head(nest) = nest[1] /\ Inline!Current = ev
  BY <1>0, InlineRuns
<1>2. /\ AboutTo(prog, ev, "routine") /\ NextOp(prog, ev).err = Ok
      /\ prog' = prog /\ pc' = "run" /\ result' = result
  BY <1>0, <1>1, SameNext DEF Inline!ExecutesDeferred, Inline!Op1, Inline!Next1, Inline!Ok, Ok
<1>3. nest' = (<<l>> \o <<m>>) \o Tail(nest)
  BY <1>1, SameNext, SameCalls DEF Inline!ExecutesDeferred, Inline!Next1, Inline!NewLevel
<1>4. MayStart(prog, nest, e, n, q, in)
  BY <1>1, <1>2, DeferMayStart
<1>5. Stacked(nest', l, m, nest)
  BY <1>1, <1>3, PushedOver
<1>6. NestInv(prog, nest')
  BY ONLY <1>1, <1>4, <1>5, NestStarts
<1> QED
  BY <1>1, <1>2, <1>6 DEF InlineInv

(* or is over, and its caller keeps what it left.                          *)
LEMMA InlineReturns ==
  ASSUME InlineInv, Inline!KeepsDeferred
  PROVE  InlineInv'
<1>0. pc = "run" /\ Len(nest) > 1
  BY DEF Inline!KeepsDeferred
<1>1. /\ prog \in Programs /\ NestInv(prog, nest) /\ result = [err |-> Ok, segments |-> <<>>]
      /\ IsList(nest) /\ Inline!Current = nest[1].ev
      /\ nest \in Seq(Nested) /\ Len(nest) \in Nat
  BY <1>0, InlineRuns DEF NestInv
<1>2. ~Running(nest[1].ev) /\ prog' = prog /\ pc' = "run" /\ result' = result
  BY <1>0, <1>1, SameNext DEF Inline!KeepsDeferred
<1>3. nest' = <<[nest[2] EXCEPT !.deferred = Kept(nest)]>> \o SubSeq(nest, 3, Len(nest))
  BY DEF Inline!KeepsDeferred, Kept
<1>4. Unstacked(nest', [nest[2] EXCEPT !.deferred = Kept(nest)], nest)
  BY <1>0, <1>1, <1>3, PoppedOver
<1>5. NestInv(prog, nest')
  BY <1>0, <1>1, <1>2, <1>4, NestReturns
<1> QED
  BY <1>1, <1>2, <1>5 DEF InlineInv

(* An error is all that eval returns,                                      *)
LEMMA InlineFails ==
  ASSUME InlineInv, Inline!Fails
  PROVE  InlineInv'
<1> DEFINE ev == nest[1].ev
           x  == NextOp(prog, ev).err
<1>0. pc = "run"
  BY DEF Inline!Fails
<1>1. prog \in Programs /\ NestInv(prog, nest) /\ Inline!Current = ev
  BY <1>0, InlineRuns
<1>2. /\ Running(ev) /\ ~AtEnd(prog, ev) /\ NextOp(prog, ev).kind \in {"gate", "assign_extra", "routine"}
      /\ x # Ok /\ nest' = <<>> /\ prog' = prog /\ pc' = "done"
      /\ result' = [err |-> x, segments |-> <<>>]
  BY <1>1, SameNext DEF Inline!Fails, Inline!Next1, Inline!Ok, Ok
<1>3. x \in Errors /\ x \in Abstract!ErrorsOf(prog, AnyWhere, AnyWhere)
  BY <1>1, <1>2, NestFails
<1>4. x \in Abstract!ErrorsOf(prog, InCaller, AnyWhere)
  BY <1>1, <1>3, FirstErrorAny
<1> HIDE DEF x
<1>5. result'.err = x /\ result'.segments = <<>>
  BY <1>2
<1>6. Abstract!Promised(prog, result')
  BY <1>4, <1>5 DEF Abstract!Promised, Abstract!AnyError, InCaller, AnyWhere
<1>7. result' \in [err : Errors \union {Ok}, segments : Seq(Segment)]
  BY <1>2, <1>3
<1> QED
  BY <1>1, <1>2, <1>3, <1>5, <1>6, <1>7 DEF InlineInv, InlineKept

(* and the depth-first list, if there was none.                            *)
LEMMA InlineFinishes ==
  ASSUME InlineInv, Inline!Finish
  PROVE  InlineInv'
<1>0. pc = "run"
  BY DEF Inline!Finish
<1>1. /\ prog \in Programs /\ NestInv(prog, nest) /\ Inline!Current = nest[1].ev
      /\ Head(nest) = nest[1]
  BY <1>0, InlineRuns
<1>2. Len(nest) = 1 /\ ~Running(nest[1].ev) /\ nest' = <<>> /\ prog' = prog /\ pc' = "done"
  BY <1>1, SameNext DEF Inline!Finish
<1>3. PICK u \in Sorted(nest[1].ev.segments \o nest[1].deferred) : result' = [err |-> Ok, segments |-> u]
  BY <1>1, SameSorted DEF Inline!Finish, Inline!Ok, Ok
<1>4. /\ u \in Seq(Segment) /\ Abstract!DepthFirst(prog, u)
      /\ Abstract!ErrorsOf(prog, InCaller, AnyWhere) = {}
  BY <1>1, <1>2, <1>3, NestFinishes
<1>5. result'.err = Ok /\ result'.segments = u
  BY <1>3
<1>6. Abstract!Promised(prog, result')
  BY <1>4, <1>5 DEF Abstract!Promised, Abstract!AnyError, InCaller, AnyWhere, Abstract!Ok, Ok
<1>7. result' \in [err : Errors \union {Ok}, segments : Seq(Segment)]
  BY <1>3, <1>4
<1> QED
  BY <1>1, <1>2, <1>5, <1>6, <1>7 DEF InlineInv, InlineKept

(* What a step of the single-threaded build may be.                        *)
LEMMA InlineSteps ==
  ASSUME InlineInv, Inline!Next
  PROVE  \/ pc = "run" /\ Inline!Step(PushGate(nest[1].ev, NextOp(prog, nest[1].ev)))
            /\ AboutTo(prog, nest[1].ev, "gate") /\ NextOp(prog, nest[1].ev).err = Ok
         \/ pc = "run" /\ Inline!Step(SetExtra(nest[1].ev, NextOp(prog, nest[1].ev)))
            /\ AboutTo(prog, nest[1].ev, "assign_extra") /\ NextOp(prog, nest[1].ev).err = Ok
         \/ pc = "run" /\ Inline!Step(Ignore(nest[1].ev))
            /\ (AboutTo(prog, nest[1].ev, "add") \/ AboutTo(prog, nest[1].ev, "enforce_zero"))
         \/ pc = "run" /\ Inline!Step(EnterRoutine(nest[1].ev, NextOp(prog, nest[1].ev)))
            /\ AboutTo(prog, nest[1].ev, "routine") /\ NextOp(prog, nest[1].ev).err = Ok
         \/ pc = "run" /\ Inline!Step(LeaveScope(nest[1].ev))
            /\ Running(nest[1].ev) /\ AtEnd(prog, nest[1].ev)
         \/ Inline!ExecutesDeferred
         \/ Inline!KeepsDeferred
         \/ Inline!Fails
         \/ Inline!Finish
         \/ pc = "done" /\ UNCHANGED Inline!vars
<1>1. CASE Inline!Returned
  BY <1>1 DEF Inline!Returned
<1>2. CASE ~Inline!Returned
  <2>1. pc = "run"
    BY <1>2 DEF Inline!Next, Inline!Gates, Inline!AssignsExtra, Inline!AddsOrEnforces, Inline!Executes,
                Inline!ExecutesDeferred, Inline!Returns, Inline!KeepsDeferred, Inline!Fails, Inline!Finish
  <2>2. Inline!Current = nest[1].ev
    BY <2>1, InlineRuns
  <2>3. /\ Inline!Next1 = NextOp(prog, nest[1].ev)
        /\ \A kind : Inline!Op1(kind) <=> AboutTo(prog, nest[1].ev, kind)
    BY <2>2, SameNext DEF Inline!Next1, Inline!Op1
  <2>4. CASE Inline!Gates
    BY <2>2, <2>3, <2>4, SameCalls DEF Inline!Gates, Inline!Ok, Ok
  <2>5. CASE Inline!AssignsExtra
    BY <2>2, <2>3, <2>5, SameCalls DEF Inline!AssignsExtra, Inline!Ok, Ok
  <2>6. CASE Inline!AddsOrEnforces
    BY <2>2, <2>3, <2>6, SameCalls DEF Inline!AddsOrEnforces
  <2>7. CASE Inline!Executes
    BY <2>2, <2>3, <2>7, SameCalls DEF Inline!Executes, Inline!Ok, Ok
  <2>8. CASE Inline!Returns
    BY <2>2, <2>8, SameNext, SameCalls DEF Inline!Returns
  <2> QED
    BY <1>2, <2>4, <2>5, <2>6, <2>7, <2>8 DEF Inline!Next
<1> QED
  BY <1>1, <1>2

(* Each keeps the invariant.                                               *)
LEMMA InlineStepKept ==
  ASSUME InlineInv, [Inline!Next]_Inline!vars
  PROVE  InlineInv'
<1> DEFINE ev == nest[1].ev
           op == NextOp(prog, ev)
<1>1. CASE UNCHANGED Inline!vars
  BY <1>1 DEF Inline!vars, InlineInv, InlineKept
<1>2. ASSUME pc = "run" PROVE prog \in Programs /\ NestInv(prog, nest)
  BY <1>2, InlineRuns
<1>3. ASSUME NEW e, pc = "run", Inline!Step(e), Straight(prog, ev, e) PROVE InlineInv'
  BY <1>2, <1>3, StraightMayGo, InlineGoes
<1>4. CASE pc = "run" /\ Inline!Step(PushGate(ev, op)) /\ AboutTo(prog, ev, "gate") /\ op.err = Ok
  BY <1>3, <1>4 DEF Straight
<1>5. CASE pc = "run" /\ Inline!Step(SetExtra(ev, op)) /\ AboutTo(prog, ev, "assign_extra") /\ op.err = Ok
  BY <1>3, <1>5 DEF Straight
<1>6. CASE /\ pc = "run" /\ Inline!Step(Ignore(ev))
           /\ AboutTo(prog, ev, "add") \/ AboutTo(prog, ev, "enforce_zero")
  BY <1>3, <1>6 DEF Straight
<1>7. CASE pc = "run" /\ Inline!Step(EnterRoutine(ev, op)) /\ AboutTo(prog, ev, "routine") /\ op.err = Ok
  BY <1>2, <1>7, EnterMayGo, InlineGoes
<1>8. CASE pc = "run" /\ Inline!Step(LeaveScope(ev)) /\ Running(ev) /\ AtEnd(prog, ev)
  BY <1>2, <1>8, LeaveMayGo, InlineGoes
<1>9. CASE Inline!ExecutesDeferred
  BY <1>9, InlineDefers
<1>10. CASE Inline!KeepsDeferred
  BY <1>10, InlineReturns
<1>11. CASE Inline!Fails
  BY <1>11, InlineFails
<1>12. CASE Inline!Finish
  BY <1>12, InlineFinishes
<1>13. CASE Inline!Next
  BY <1>1, <1>4, <1>5, <1>6, <1>7, <1>8, <1>9, <1>10, <1>11, <1>12, <1>13, InlineSteps
<1> QED
  BY <1>1, <1>13

(* So every reachable state of the single-threaded build has it.           *)
LEMMA InlineInvKept == Inline!Spec => []InlineInv
<1>1. InlineInv /\ [Inline!Next]_Inline!vars => InlineInv'
  BY InlineStepKept
<1> QED
  BY <1>1, InlineStarts, PTL DEF Inline!Spec

(* The single-threaded build keeps to its types (trace.rs:48-51, 151-176). *)
THEOREM InlineTypes == Inline!Spec => []Inline!TypeOK
<1>1. InlineInv => Inline!TypeOK
  <2> SUFFICES ASSUME InlineInv PROVE Inline!TypeOK
    OBVIOUS
  <2>1. Inline!Level = Nested /\ Inline!Segment = Segment /\ Inline!Ok = Ok
    BY DEF Inline!Level, Nested, Inline!EvaluatorSet, EvaluatorSet, Inline!Segment, Segment,
           Inline!Frame, Frame, Inline!TraceGate, TraceGate, Inline!Path, Path, Inline!Ok, Ok
  <2>2. prog \in Programs /\ pc \in {"run", "done"}
    BY DEF InlineInv
  <2>3. nest \in Seq(Nested) /\ result \in [err : Errors \union {Ok}, segments : Seq(Segment)]
    <3>1. CASE pc = "run"
      <4>1. nest \in Seq(Nested) /\ result = [err |-> Ok, segments |-> <<>>]
        BY <3>1 DEF InlineInv, NestInv
      <4> QED
        BY <4>1
    <3>2. CASE pc = "done"
      <4>1. nest = <<>> /\ result \in [err : Errors \union {Ok}, segments : Seq(Segment)]
        BY <3>2 DEF InlineInv, InlineKept
      <4> QED
        BY <4>1
    <3> QED
      BY <2>2, <3>1, <3>2
  <2> QED
    BY <2>1, <2>2, <2>3 DEF Inline!TypeOK
<1> QED
  BY <1>1, InlineInvKept, PTL

(* It returns the error that a run of every routine at its call raises     *)
(* first: the `?` after a deferred routine's execute() lets nothing of the *)
(* caller run before it (trace.rs:308-320).                                *)
THEOREM InlineFirstError == Inline!Spec => []Inline!FirstErrorWins
<1>1. InlineInv => Inline!FirstErrorWins
  BY SamePromises DEF InlineInv, InlineKept, Inline!FirstErrorWins, Inline!Ok, Ok
<1> QED
  BY <1>1, InlineInvKept, PTL

(* It implements TraceEval too: the segments that routines leave at their  *)
(* calls, in any order, sort to the depth-first trace of the circuit       *)
(* (trace.rs:308-320, 396-413).                                            *)
THEOREM InlineRefines == Inline!Spec => Inline!ReturnsDepthFirstTrace
<1>1. Inline!Init => Inline!Abstract!AInit
  BY DEF Inline!Init, Inline!Nothing, Inline!Abstract!AInit, Inline!Abstract!Ok, Inline!Ok
<1>2. InlineInv /\ InlineInv' /\ [Inline!Next]_Inline!vars => [Inline!Abstract!Return]_Inline!Abstract!avars
  <2> SUFFICES ASSUME InlineInv, InlineInv', [Inline!Next]_Inline!vars
               PROVE  [Inline!Abstract!Return]_Inline!Abstract!avars
    OBVIOUS
  <2>1. prog' = prog /\ (pc = "done" => pc' = pc /\ result' = result)
    BY DEF Inline!Next, Inline!vars, Inline!Gates, Inline!AssignsExtra, Inline!AddsOrEnforces,
           Inline!Executes, Inline!ExecutesDeferred, Inline!Returns, Inline!KeepsDeferred,
           Inline!Fails, Inline!Finish, Inline!Returned, Inline!Step
  <2>2. CASE pc = "done"
    BY <2>1, <2>2 DEF Inline!Abstract!avars
  <2>3. CASE pc # "done" /\ pc' # "done"
    <3>1. result' = result
      BY <2>3 DEF InlineInv
    <3> QED
      BY <2>1, <2>3, <3>1 DEF Inline!Abstract!avars
  <2>4. CASE pc # "done" /\ pc' = "done"
    <3>1. Abstract!Promised(prog', result')
      BY <2>4 DEF InlineInv, InlineKept
    <3>2. Inline!Abstract!Promised(prog, result')
      BY <2>1, <3>1, SamePromises
    <3> QED
      BY <2>1, <2>4, <3>2 DEF Inline!Abstract!Return
  <2> QED
    BY <2>2, <2>3, <2>4
<1> QED
  BY <1>1, <1>2, InlineInvKept, PTL DEF Inline!Spec, Inline!ReturnsDepthFirstTrace, Inline!Abstract!ASpec
=============================================================================
