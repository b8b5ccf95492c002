------------------------------- MODULE Trace -------------------------------
(***************************************************************************)
(* trace::eval with the "multicore" feature: the root circuit body runs in *)
(* a rayon scope; every routine whose output is predicted (Known) is       *)
(* spawned as a task with an evaluator of its own, which may spawn more.   *)
(* A finished task sends its segments, or its error, over an mpsc channel. *)
(* The scope joins all tasks; then eval drains the channel and sorts.      *)
(*                                                                         *)
(* Tasks are named by the DFS prefix they were spawned with; <<>> is the   *)
(* root.  Any schedule of the tasks is possible.                           *)
(***************************************************************************)
EXTENDS Evaluator

VARIABLES
  prog,       \* the circuit being evaluated
  tasks,      \* tasks spawned so far: DFS prefix -> evaluator
  ended,      \* prefixes of the tasks that have ended (and dropped their tx)
  channel,    \* batches sent and not received yet, oldest first
  collected,  \* eval's `segments`
  pc,         \* eval: "scope", then "collect", then "done"
  result      \* what eval returned

vars == <<prog, tasks, ended, channel, collected, pc, result>>

Batch   == [err : Errors \union {Ok}, segments : Seq(Segment)]
Nothing == [err |-> Ok, segments |-> <<>>]
Root    == <<>>

Init ==
  /\ prog \in Programs
  /\ tasks = [t \in {Root} |-> NewEvaluator(Main, Root)]
  /\ ended = {}
  /\ channel = <<>>
  /\ collected = <<>>
  /\ pc = "scope"
  /\ result = Nothing
-----------------------------------------------------------------------------
(* The driver calls of a task.                                             *)

Step(t, ev) == /\ tasks' = [tasks EXCEPT ![t] = ev]
               /\ UNCHANGED <<prog, ended, channel, collected, pc, result>>

Gates(t) ==
  /\ AboutTo(prog, tasks[t], "gate")
  /\ LET op == NextOp(prog, tasks[t])
     IN  op.err = Ok /\ Step(t, PushGate(tasks[t], op))

AssignsExtra(t) ==
  /\ AboutTo(prog, tasks[t], "assign_extra")
  /\ LET op == NextOp(prog, tasks[t])
     IN  op.err = Ok /\ Step(t, SetExtra(tasks[t], op))

AddsOrEnforces(t) ==
  /\ \/ AboutTo(prog, tasks[t], "add")
     \/ AboutTo(prog, tasks[t], "enforce_zero")
  /\ Step(t, Ignore(tasks[t]))

(* predict() returned Unknown: executed inline in a new scope.             *)
Executes(t) ==
  /\ AboutTo(prog, tasks[t], "routine")
  /\ LET op == NextOp(prog, tasks[t])
     IN  /\ op.err = Ok
         /\ op.predict = "Unknown"
         /\ Step(t, EnterRoutine(tasks[t], op))

(* predict() returned Known: the caller goes on with the predicted output, *)
(* a new task owns the execution.                                          *)
Spawns(t) ==
  /\ AboutTo(prog, tasks[t], "routine")
  /\ LET op    == NextOp(prog, tasks[t])
         child == ChildPrefix(tasks[t])
     IN  /\ op.err = Ok
         /\ op.predict = "Known"
         /\ tasks' = [u \in DOMAIN tasks \union {child} |->
                        IF u = child  THEN NewEvaluator(op.name, child)
                        ELSE IF u = t THEN DeferRoutine(tasks[t])
                        ELSE tasks[u]]
         /\ UNCHANGED <<prog, ended, channel, collected, pc, result>>

(* A witness closure or predict() fails.                                   *)
Fails(t) ==
  /\ Running(tasks[t])
  /\ ~AtEnd(prog, tasks[t])
  /\ LET op == NextOp(prog, tasks[t])
     IN  /\ op.kind \in {"gate", "assign_extra", "routine"}
         /\ op.err # Ok
         /\ Step(t, Unwind(tasks[t], op.err))

Returns(t) ==
  /\ Running(tasks[t])
  /\ AtEnd(prog, tasks[t])
  /\ Step(t, LeaveScope(tasks[t]))

(* The closure of task t is over.  A spawned one sends its batch; each     *)
(* drops its Sender.                                                       *)
Outcome(ev) == IF ev.err = Ok THEN [err |-> Ok, segments |-> ev.segments]
                              ELSE [err |-> ev.err, segments |-> <<>>]

(* Mutant of Ends: a task that fails never lets the scope go.              *)
EndsIfOk(t) ==
  /\ ~Running(tasks[t])
  /\ t \notin ended
  /\ tasks[t].err = Ok
  /\ ended' = ended \union {t}
  /\ channel' = IF t = Root THEN channel ELSE Append(channel, Outcome(tasks[t]))
  /\ UNCHANGED <<prog, tasks, collected, pc, result>>

Ends(t) ==
  /\ ~Running(tasks[t])
  /\ t \notin ended
  /\ ended' = ended \union {t}
  /\ channel' = IF t = Root THEN channel ELSE Append(channel, Outcome(tasks[t]))
  /\ UNCHANGED <<prog, tasks, collected, pc, result>>

TaskStep(t) == \/ Gates(t) \/ AssignsExtra(t) \/ AddsOrEnforces(t)
               \/ Executes(t) \/ Spawns(t) \/ Fails(t) \/ Returns(t) \/ Ends(t)
-----------------------------------------------------------------------------
(* eval itself.                                                            *)

(* Mutant of AllEnded: the scope only waits for the root.                  *)
RootEnded == Root \in ended

(* maybe_rayon::scope returns once every task has ended; `?` then returns  *)
(* the root's own error, dropping the receiver.                            *)
AllEnded == ended = DOMAIN tasks

LeaveRayonScope ==
  /\ pc = "scope"
  /\ AllEnded
  /\ IF tasks[Root].err = Ok
       THEN /\ pc' = "collect"
            /\ collected' = tasks[Root].segments
            /\ UNCHANGED result
       ELSE /\ pc' = "done"
            /\ result' = Outcome(tasks[Root])
            /\ UNCHANGED collected
  /\ UNCHANGED <<prog, tasks, ended, channel>>

(* for batch in rx { segments.extend(batch?) }                             *)
Receive ==
  /\ pc = "collect"
  /\ channel # <<>>
  /\ channel' = Tail(channel)
  /\ LET batch == Head(channel)
     IN  IF batch.err = Ok
           THEN /\ collected' = collected \o batch.segments
                /\ UNCHANGED <<pc, result>>
           ELSE /\ pc' = "done"
                /\ result' = batch
                /\ UNCHANGED collected
  /\ UNCHANGED <<prog, tasks, ended>>

(* The iteration over rx ends when the channel is empty and no Sender is   *)
(* left; then finish().                                                    *)
Finish ==
  /\ pc = "collect"
  /\ channel = <<>>
  /\ AllEnded
  /\ pc' = "done"
  /\ \E s \in Sorted(collected) : result' = [err |-> Ok, segments |-> s]
  /\ UNCHANGED <<prog, tasks, ended, channel, collected>>

Returned == pc = "done" /\ UNCHANGED vars

Next == \/ \E t \in DOMAIN tasks : TaskStep(t)
        \/ LeaveRayonScope
        \/ Receive
        \/ Finish
        \/ Returned

(* rayon runs every spawned job before the scope returns, and nothing ever *)
(* blocks a job; eval's own thread runs whenever it can.                   *)
Fairness ==
  /\ WF_vars(LeaveRayonScope \/ Receive \/ Finish)
  /\ WF_vars(\E t \in DOMAIN tasks : TaskStep(t))

Spec == Init /\ [][Next]_vars /\ Fairness
-----------------------------------------------------------------------------
(* Every evaluator has the shape of Evaluator and TraceScope: segments,    *)
(* 1-based places and tokens, paths (trace.rs:48-51, 151-176).             *)
TypeOK ==
  /\ prog \in Programs
  /\ DOMAIN tasks \subseteq Path
  /\ \A t \in DOMAIN tasks : tasks[t] \in EvaluatorSet
  /\ Root \in DOMAIN tasks
  /\ ended \subseteq DOMAIN tasks
  /\ channel \in Seq(Batch)
  /\ collected \in Seq(Segment)
  /\ pc \in {"scope", "collect", "done"}
  /\ result.err \in Errors \union {Ok}

(* No two segments, of whichever tasks, ever carry the same DFS path: the  *)
(* tasks number their routine calls without synchronising (trace.rs:270),  *)
(* and finish() sorts with sort_unstable, whose result is the DFS order    *)
(* only if the keys are distinct (trace.rs:351).                           *)
PathsUnique ==
  \A t, u \in DOMAIN tasks :
    \A i \in DOMAIN tasks[t].segments, j \in DOMAIN tasks[u].segments :
      tasks[t].segments[i].dfs_path = tasks[u].segments[j].dfs_path => t = u /\ i = j

(* Every scope a task is in, innermost or suspended, appends to the segment *)
(* made for its own DFS path, and the Extra tokens it holds name gates of  *)
(* that segment: entering and leaving nested routines and spawning tasks   *)
(* never redirects gate() or assign_extra() (trace.rs:226-249, 329-343).   *)
ScopesOwnSegments ==
  \A t \in DOMAIN tasks : \A i \in DOMAIN tasks[t].stack :
    LET f == tasks[t].stack[i]
    IN  /\ f.current_segment \in DOMAIN tasks[t].segments
        /\ tasks[t].segments[f.current_segment].dfs_path = f.dfs_prefix
        /\ \A k \in DOMAIN f.extras :
             f.extras[k] \in DOMAIN tasks[t].segments[f.current_segment].gates

SegmentsOf(list)  == { list[i] : i \in DOMAIN list }
SegmentsBy(group) == UNION { SegmentsOf(tasks[t].segments) : t \in group }

(* What eval returns accounts for every task.  None is left that would     *)
(* send to the dropped receiver (`expect("receiver alive")`); the root's   *)
(* error comes first and any error is some task's; without one the list    *)
(* holds every segment of every task once, in depth-first order: no batch  *)
(* is lost, received twice or sent half done (trace.rs:290-305, 351,       *)
(* 386-393).                                                               *)
EvalAccounts ==
  pc = "done" =>
    /\ ended = DOMAIN tasks
    /\ tasks[Root].err # Ok => result.err = tasks[Root].err
    /\ result.err # Ok => \E t \in DOMAIN tasks : tasks[t].err = result.err
    /\ result.err = Ok => /\ \A t \in DOMAIN tasks : tasks[t].err = Ok
                          /\ SegmentsOf(result.segments) = SegmentsBy(DOMAIN tasks)
                          /\ InOrder(result.segments)

Abstract == INSTANCE TraceEval WITH done <- pc = "done"

(* trace::eval returns, and what it returns is the depth-first list of     *)
(* segments, or an error of the root body if that raises one (the `?` on   *)
(* the scope, trace.rs:386, comes before rx is read), or else one that a   *)
(* depth-first run can raise, although the tasks run and send their        *)
(* batches in any order (trace.rs:368-414).                                *)
ReturnsDepthFirstTrace == Abstract!RootFirstSpec
=============================================================================
