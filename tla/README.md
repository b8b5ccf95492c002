# A TLA+ verification project for Ragu

Ragu is a Rust framework for recursive proofs (proof-carrying data). Circuit
code is written once against the `Driver` trait; *drivers* interpret it to
measure a circuit, to evaluate its witness, and to evaluate its wiring
polynomial s(X, Y). The higher layers (`registry`, `staging`, `ragu_pcd`) build
a recursive prover from those results. What makes the system work is that many
independent interpretations of the same code, some concurrent, agree. These
modules state that agreement and check it.

Paths below are relative to `src/crates/`; `circuits/` stands for
`ragu_circuits/src/`, `pcd/` for `ragu_pcd/src/`, `primitives/` for
`ragu_primitives/src/`.

## 1. Inventory

| Part | State it keeps | Operations | What is hard, and what makes it correct |
|---|---|---|---|
| Driver interface and circuit programs (`ragu_core/src/drivers.rs`, `routines.rs`) | none | `gate`, `assign_extra`, `add`, `enforce_zero`, `routine` | every driver sees the same calls; closures and `predict` may fail in some drivers and not in others |
| Trace evaluation (`circuits/trace.rs`) | per evaluator: segments, scope (current segment, routine counter, DFS prefix); channel | the driver calls, spawning, collecting, sorting | tasks number their calls without synchronising; batches arrive in any order; errors race. The result must be the depth-first trace, and `eval` must return |
| Metrics (`circuits/metrics.rs`) | scope (runners, Horner accumulator), counts, segment records | the driver calls | scope reset and wire re-tokenising at every call border. Records in depth-first order; equal fingerprints exactly for equal routines |
| Floor planner (`circuits/floor_planner.rs`) | none | prefix sums | no gaps, no overlaps, same order as the trace |
| Orchestration (`circuits/raw.rs`) | none | SYSTEM gate, body, outputs, ONE | the same frame around every body in every driver |
| Registration and assembly (`circuits/lib.rs`, `trace.rs`) | none | `into_wiring_object`, `Trace::assemble` | two separate passes must agree in size and order; bounds at the limit |
| Wiring evaluators (`circuits/wiring/`) | scope (running monomials, absolute indices), Horner state; `sy`: virtual wire table, free list | driver calls, clone, drop | three different algorithms for one polynomial; manual reference counts; zero points |
| Sparse polynomials (`circuits/polynomials/`) | coefficient blocks | build, eval, arithmetic, revdot | block boundaries, gap tolerance |
| Registry (`circuits/registry.rs`) | four circuit lists, key, caches | `register_*`, `finalize`, `xy`, `x`, `y`, `at` | provisional key then digest, order of the lists, padding and bit reversal, caches of one point |
| Staging (`circuits/staging/`) | stage layouts | `configure_stage`, masks, bonding | gate offsets of nested stages, odd wires |
| Sponge, transcript (`primitives/poseidon.rs`, `pcd/internal/transcript.rs`) | mode and buffer | absorb, squeeze, save, resume | mode switches, resumption in another circuit |
| Allocator (`primitives/allocator.rs`) | a stack of spare tokens | `alloc`, `donate` | a token used exactly once, last in first out, in the same order in every driver |
| Gadgets (`primitives/element.rs`, `boolean.rs`, `point.rs`, `endoscalar.rs`, `vec.rs`) | wires and, beside them, a witness value | constraint algebra | the gates and constraints must force the value the witness code computes; incomplete additions and divisions have preconditions |
| Adapters (`consistent.rs`, `promotion.rs`, `suffix.rs`, `foreign.rs`, `io/`), simulator and emulators (`ragu_core/src/drivers/`) | none, counters | rewire, strip, demote, promote, write, predict | wires substituted under a stale witness; predictions that must reach only drivers without wires |
| Application builder, steps, headers (`pcd/lib.rs`, `pcd/step/`, `pcd/header.rs`) | step count, suffixes | `register`, `finalize`, `seed`, `fuse` | registration order, unique suffixes, fixed header size |
| Fuse pipeline, proof builder (`pcd/fuse/`, `pcd/proof/`) | transcript, parts set so far, caches | eleven phases | each challenge after all it binds; each part set once and before it is read |
| Unified instance (`pcd/internal/native/unified.rs`) | slots, coverage | read, provide, receive, take | each slot covered by one internal circuit |
| Verifier, claims, folding (`pcd/verify.rs`, `pcd/internal/`) | claim lists | build claims, k(y) values, fold | two lists built by different code and zipped |
| Arithmetic (`ragu_arithmetic/src/`), pasta, macros, testing | none | pure algorithms, constants, code generation | index arithmetic |

How they interact. An application registers circuits: each is run by the
`Counter` of metrics, its totals are checked against the rank, and its records
go through `floor_plan`. A prover runs `trace::eval`, possibly on many threads,
and `Registry::assemble` scatters the result by the floor plan. The registry
evaluates the wiring polynomial by running the circuit again with one of `sxy`,
`sx`, `sy`, given the same floor plan. These runs share nothing but the circuit
code and the plan: every disagreement is a panic (an `assert_eq!` or
`expect("should succeed if metrics succeeded")`) or, worse, another polynomial.

`PROJECT.json` lists the components with their source files and, under
`hazards`, every place of the code that is hard to test, with the properties
that cover it or the reason there is none.

## 2. Plan

1. Trace evaluation, both builds, with the abstract specification `TraceEval`;
   the numbering of segments proved. *Done.*
2. Metrics, floor plan, and their composition with the trace (`Assembly`). *Done.*
3. The three wiring evaluators over a small field, composed in `Wiring`. *Done.*
4. `Registry`, with the application builder over it: lists, order, bound,
   provisional key and digest, lookup by omega power, restrictions; steps,
   headers and encodings. *Done.*
5. `Sponge`, and `Transcript` as an implementation of the abstract `Duplex`. *Done.*
6. `Fuse`: every phase with transcript, proof builder, unified instance, internal
   circuits, claims, folding, and verify with all claims it compares. *Done.*
7. Staging, allocators and gadgets, as constraints and as witness code. *Done.*
8. The pure algorithms against reference definitions. *Done.*
9. Proofs about the modules added since: that a transcript implements the duplex;
   the virtual wire table of `sy`; the totals of the metrics pass; that registered
   circuits evaluate; that the multicore trace accounts for every task and
   implements `TraceEval`; that the
   trace of an accepted circuit fits its floor plan; that prover and circuit lay a
   stage out alike and no allocator hands a wire out twice; that an application finds its
   circuits by their indices and its headers by their encodings; that sparse polynomials are
   built, read, scaled and combined coefficient by coefficient (section 6). *Done.*

The modules meant for proofs (`Trace`, `Metrics`, `Wiring` with its evaluators,
`Staging`, `Transcript`, `Registry`) and what they use have no RECURSIVE operator. `Gadgets`
and what uses it have recursion over the tree of a gadget and stay with TLC.

## 3. Modules

| Module | Models | Correspondence |
|---|---|---|
| `Circuit` | circuit code as every driver sees it | a program maps routine names to bodies, a body is the sequence of driver calls and the wires it returns; wires are places of an environment; `PathLess` orders DFS paths as `Vec`'s `Ord` does, `CallTree` has every call of a circuit with its path |
| `Evaluator` | `Evaluator` of `trace.rs` as a value | one operator per driver call: `PushGate`, `SetExtra`, `EnterRoutine`, `DeferRoutine`, `LeaveScope`, `Unwind`; `Sorted` is `finish()` |
| `Trace` | `trace::eval` with `multicore` | `tasks`, `ended`, `channel`, `collected`; one action per driver call of a task, `Spawns`, `Ends`; for `eval` itself `LeaveRayonScope`, `Receive`, `Finish` |
| `TraceInline` | `trace::eval` without `multicore` | a nest of evaluators on the call stack, each with its `deferred` list |
| `TraceEval` | what `trace::eval` promises | one step from a circuit to its depth-first trace or to an error the run can reach; with tasks (`RootFirstSpec`), the root's error if the root fails. Read off the text of the circuit: the segments from `CallTree`, the errors from the least sets of bodies that raise (`Raising`) and that a run gets to (`Entered`); no evaluators, scopes or counters |
| `TraceProofs`, `AssemblyProofs`, `StagingProofs`, `RegistryProofs`, `TranscriptProofs`, `SyProofs`, `WiringProofs`; `DataTheorems` | theorems about `Trace`, `TraceInline`, `Assembly`, `Staging`, `Registry` and `SparsePoly`, `Transcript`, `Sy`, and `Metrics` and `Wiring`; the facts about data they share | section 6 |
| `Synthesis` | `raw::orchestrate`, `floor_plan`, the bounds of `into_wiring_object`, the evaluators' asserts | shared by the modules below |
| `Metrics` | the `Counter` driver | wires and accumulator are formal polynomials in the driver's fixed points; `EntersRoutine` resets the scope, `LeavesRoutine` fingerprints and re-tokenises |
| `Assembly` | registration, evaluation and `Trace::assemble` | composes `Metrics` and `Trace`; an assert that fails is the phase "panicked" |
| `PrimeField` | the field, `DirectSum`, the monomials at x | integers modulo P; the inverse of 0 is 0 where the code says so. `FoldLong` is a left fold that evaluates as it goes |
| `PointDriver` | what `sx` and `sxy` share | scopes with running monomials |
| `Sxy`, `Sx`, `Sy` | the three evaluators | one action per driver call; `Sy` also has every drop of a wire handle and every call of the recursive `VirtualTable::free` as a step |
| `Wiring` | a wiring object asked for s(x,y), s(x,Y), s(X,y) | composes `Metrics`, the floor plan and the three evaluators |
| `MCPrograms` | the circuits TLC runs | below |
| `Polys` | domains, transforms, Lagrange coefficients, polynomial utilities, multiscalar multiplication (`ragu_arithmetic`) | one operator per function; recursive code is a recursive function or a fold |
| `Coefficients` | `Coeff` and `Uendo` | tagged values with the arms of the code; integers as limbs of `LimbBits` |
| `SparsePoly` | `polynomials/sparse`, `txz.rs` | a list of blocks <<start, coefficients>>; iterators keep a front and a back cursor |
| `Staging` | masks, stages, the stage builder, `rx_driver`, bonding, both allocators | a driver is the list of its gates; one action per stage configured and per call of the body |
| `Registry` | the registry builder and registry, and the application builder over a native and a nested one; `register`, `finalize`, steps, headers, encodings | the builder's four lists are one record; a digest is any function of what was absorbed; `client` is who registers, circuits directly or an application's steps, and `accepted` is history: the steps that were not refused |
| `Sponge`, `Transcript`, `Duplex` | the permutation and the sponge; transcripts saved in one circuit and resumed in another; what both promise | the field, rate and round constants are parameters; `Transcript` has `Ideal == INSTANCE Duplex` |
| `Endoscalar` | short challenges, endoscaling steps, the bridge stages, loading and copying | the group is the field's additive group, the endomorphism multiplication by a cube root of one |
| `Proof` | two-layer revdot folding; the claims about native and about nested polynomials, as lists in the order `build` makes them, and the lists of k(y) values they are zipped with; tracked commitments; the unified instance, its slots and coverage, Horner; the proof and its builder | polynomials are tuples of coefficients, commitments their values at a fixed point; an instance is a record, `None` an unset slot; a proof is a function from part names; lazy and cached parts are forced by the code that reads them |
| `Fuse` | the five internal circuits over their stages' values; `fuse`, `seed`, `rerandomize`, `verify` | one operator per circuit, which answers the instance with the coverage it leaves, its public output, and whether all it enforced held; one action per phase; `Verify` zips each list of claims with its k(y) values, and `NativeRevdot` and `NestedRevdot` say what each claim comes to (section 7) |
| `Gadgets` | the simulator, both modes of the emulator, and a circuit by itself, as drivers; elements, booleans, points, endoscalars, composites, writing, pipes, consistency, routines | a call of a driver answers the set of its outcomes; only the circuit, whose wires are any assignment that satisfies the gates and constraints, has several or none. Each operation makes the code's gates and constraints on wires and its computation on values |

State that Rust keeps on its call stack (the scope saved by `with_scope` or
`mem::replace`, the place in a body, the extra tokens held) is the `stack` of
frames. Segment and gate places count from 1 in the models and from 0 in the
code. A gate's assignment (a, b, c) is one number `abc`: the trace moves the
three together. Outside `Coefficients`, `Coeff` values are integers modulo P.

In `Sy`, when a Rust binding is dropped is up to the circuit code and the
compiler; the model lets every handle go at any time after its last use, lets
routine inputs be clones or moves, and demands only what ownership does: a body
has dropped what it does not return when it returns.

## 4. Runs

The circuits of `MCPrograms` have a root, a routine it calls, and a routine
called by that one. They combine: both predictions at each call, calls before,
between and after gates, two calls in one body, an extra wire assigned after a
nested call, an empty routine, and a witness closure failing in each body or in
`predict`. The wired ones pass wires in and out of calls, use outputs of one call
as inputs of the next, contain a routine written in two equivalent ways and
others that differ in one coefficient or in one constraint that is identically
zero, and stand at the limits of the rank.

| Run | Circuits and bounds | Shows |
|---|---|---|
| `trace` | 240 small circuits and two wide ones with up to six deferred routines; every schedule | `ReturnsDepthFirstTrace` (implements `TraceEval`), `PathsUnique`, `ScopesOwnSegments`, `EvalAccounts`, `Terminates` |
| `trace_inline` | the same | the same promise for the other build, and `FirstErrorWins`: it reports the first error in depth-first order, which the multicore build need not |
| `metrics` | wired circuits, and those at the limits | `RecordsDepthFirst`, `FingerprintsClassify` |
| `assembly` | small circuits at n = 5 (5 or 6 gates) and two at the constraint bound, every schedule of the evaluation | `AcceptedCircuitsAssemble`, `PolynomialDepthFirst` |
| `wiring` | wired circuits with n = 4, F_17, four x and four y, zero included; every order of drops | `EvaluationsAgree`, `EvaluatesConstraints`, `RegisteredCircuitsEvaluate`, `RefcountsExact`, `FreeListSound`, `TotalsAreSums` |
| `wiring_doc` | the same | a violation: section 5 |
| `algorithms` | F_17, eight coefficients, twenty supports, two operations; domains up to 16 points; seven-bit integers in three-bit limbs | `SparseIsDense`, `ReadsMeet`, `UtilitiesCorrect`, `NumbersCorrect`, `GatePolynomialAgrees` |
| `registry` | F_97 with a domain of 32; up to three objects in any category, or up to three of five steps in any order | `RegistryInterpolates`, `RestrictionsAgree`, `StepsFindTheirCircuits`, `EncodingsIdentifyHeaders` |
| `staging` | chains of up to two stages of odd, even and partly used sizes, two calls of the body, both allocators; seven gates | `StagesKeepTheirWires`, `MasksAdmitStages`, `BondingNeedsOnlyStages` |
| `transcript` | state of three, rate two, F_17; eight events, any save and resumption | `ImplementsDuplex`, `ContinuesAcrossCircuits` |
| `fuse` | trees of up to three seeds, fuses and rerandomizations with two seeds of randomness; F_12289, 17 circuits, 22 claims in four groups of six | `CircuitsAcceptTheFuse`, `FoldingKeepsEveryClaim`, `CommitmentsOpen`, `EveryPcdVerifies`, `EveryClaimIsCompared` |
| `gadgets` | thirteen scripts of up to thirteen operations, every input in F_7, every point of the curve y^2 = x^3 + 3 (a group of 13), both allocators | `CircuitsMeanTheirWitness`, `EmulatorsAgree`, `GadgetsCompute` |

Why the bounds are enough. Call depth three gives a scope that suspends a scope
that suspends one; two calls per body give siblings; up to six deferred routines give
tasks that spawn tasks while others end. Whatever could confuse two segments,
two scopes or two paths needs no more. In `wiring`, 3 generates the group of
F_17, so that at x = 3 the 16 monomials X^0 .. X^15 have 16 distinct values, and
at y = 3 the powers of Y do too: a wire or constraint that gets another's power
changes the value. x = 0 and y = 0 take the code's special paths. `LimitPrograms`
has one constraint and one gate more than fit, and exactly as many as fit.

In `registry`, F_97 is the smallest field whose domain holds the 23 circuits of the
nested registry, and three steps are enough for a gap, a swap and a shared
suffix. In `staging` an odd stage under another one, and a stage with fewer wires
than its mask, are the cases that shift the next stage's gates. In `transcript`
the tag alone fills a block or a block and a half, and eight events leave room
for a run of challenges longer than the rate and for two hand-overs. Three fuses
give a proof whose children are themselves a fuse's and a seed's; 22 claims in
groups of six leave the last group short, the case the padding is for. The field
of `fuse` is large enough that no two of the values compared coincide by chance
(a mutant that swaps two of them is caught).

`EveryClaimIsCompared` is what `EveryPcdVerifies` cannot say: that `verify` leaves
nothing out. It takes each pcd made, spoils one thing in it (a trace, the stages a
trace was assembled with, one value of a stage or of the instance, the mask a
polynomial lies in, one evaluation of an endoscaling step) and asks that `verify`
refuses every one. `zip` stops at the shorter list, so that a list of k(y) values that is too
short would be silence where a claim should be; the mutants shorten a list, cut the zip,
and put values in another order.

In `gadgets` the honest drivers run beside the set of *all* assignments that
satisfy the circuit so far, so `CircuitsMeanTheirWitness` quantifies over every
dishonest prover of the small field. Three preconditions of the code are kept:
a division by zero "may be unconstrained" (`element.rs:272`), an incomplete
addition needs distinct x coordinates, and the bit `extract` gives for a zero is
free (zero is its own product with the generator). A script that leaves them is
flagged `loose` and then only completeness is asked, except in the script
`certified`: it inverts the accumulator of `add_incomplete` at the end and is
sound without the flag.

`EvaluatesConstraints` compares the evaluators with a recursive reading of the
circuit in the MC module, which has no scopes, counters or floor plan;
`RecordsDepthFirst` and `PolynomialDepthFirst` compare with `CallTree`, and
`ReturnsDepthFirstTrace` with `TraceEval`, which have none either.

Fairness. `Trace` assumes that rayon runs every job it was given (`scope` joins
them all, and no job blocks: sending on an unbounded channel does not), and that
the thread of `eval` goes on when it can. Weak fairness on "some task takes a
step" is enough, as tasks are finite. The other modules are sequential. What
they promise is safety; `Metrics`, `TraceInline` and `Wiring` state that the one
thread there is goes on, so that a counterexample is a run and not a pause.
`Terminates` is stated of `Trace` only. Bodies are finite sequences of calls, so it is
about the joining, the channel and the error paths, not about user code that loops;
the build without `multicore` has none of these.

Each property has, in `PROJECT.json`, a mutant: a changed operator, defined in
the module next to the real one under a comment that begins "Mutant of", with
which TLC finds the property violated. They are used by nothing else.

## 5. Divergences between documentation and code

`circuits/wiring/mod.rs:62-65` says that the j-th constraint *emitted* within a
segment at offset l is placed at Y^(l + j). All three evaluators place the last
one emitted at Y^l: `sx` reverses each segment's range (`sx.rs:384-389`), `sxy`
accumulates by Horner's rule, `sy` starts at the highest power and divides by y.
(`raw.rs:28-30` agrees with the code: the ONE constraint comes last and has Y^0.)
The run `wiring_doc` exhibits it. The evaluators agree with each other; only the
sentence is wrong.

`ragu_arithmetic/src/util.rs:96` and `:113` say that `factor` and `factor_iter` panic
on a polynomial of degree 0, and so does the message of the assert at `:71`. The code
panics only on an empty polynomial; of one coefficient, which has degree 0,
it returns the empty quotient. `Factor` follows the code, and `UtilitiesCorrect` (run
`algorithms`) states what it does: the quotient has one coefficient fewer than the
polynomial, for one coefficient none. No caller is affected: `_08_f.rs` divides
polynomials of full length.

## 6. Proofs

Every theorem holds for all values of the constants. What is proved, and which of
the runs' properties it states:

| Module | Theorem | States |
|---|---|---|
| `TraceProofs` | `TypeCorrect`, `UniquePaths`, `ScopesCorrect` | `TypeOK`, `PathsUnique`, `ScopesOwnSegments` of `Trace` |
| `TraceProofs` | `Accounts` | `EvalAccounts` of `Trace` |
| `TraceProofs` | `Refines` | `ReturnsDepthFirstTrace` of `Trace`: the multicore evaluation refines `TraceEval` |
| `TraceProofs` | `InlineTypes`, `InlineFirstError` | `TypeOK`, `FirstErrorWins` of `TraceInline` |
| `TraceProofs` | `InlineRefines` | `ReturnsDepthFirstTrace` of `TraceInline`: the build without `multicore` refines `TraceEval` too |
| `TranscriptProofs` | `Continues` | `ContinuesAcrossCircuits` |
| `TranscriptProofs` | `Implementation` | `ImplementsDuplex`: `Transcript` refines `Duplex` |
| `WiringProofs` | `Refcounts`, `FreeList` | `RefcountsExact`, `FreeListSound` |
| `WiringProofs` | `TableNeverPanics` | an action property: `free()` and `alloc()` never meet their assertions |
| `WiringProofs` | `MetricsTotals`, `Totals` | `TotalsAreSums`, of `Metrics` by itself and of `Wiring` |
| `WiringProofs` | `Registration` | `RegisteredCircuitsEvaluate` |
| `AssemblyProofs` | `Assembles` | `AcceptedCircuitsAssemble` of `Assembly` |
| `AssemblyProofs` | `PolynomialAssembled` | `PolynomialDepthFirst` of `Assembly` |
| `AssemblyProofs` | `MetricsRecords` | `RecordsDepthFirst` of `Metrics` |
| `StagingProofs` | `StagesKept` | `StagesKeepTheirWires` of `Staging` |
| `RegistryProofs` | `StepsFind`, `EncodingsIdentify` | `StepsFindTheirCircuits`, `EncodingsIdentifyHeaders` |
| `RegistryProofs` | `FinalizeAsserts` | an action property: the asserts of `finalize` about the number of circuits never fail |
| `RegistryProofs` | `SparseBuilds` | `from_coeffs` keeps the invariants of sparse polynomials and stores every coefficient at its degree |
| `RegistryProofs` | `SparseReads` | `CoeffIter` reads, from either end and in any order, what the polynomial stores |
| `RegistryProofs` | `SparseScales` | scaling and negating keep the invariants and act on every coefficient |
| `RegistryProofs` | `SparseCombines` | adding and subtracting keep the invariants and act on every coefficient |

The last four are about operators, not behaviours; what they say of building, reading, scaling
and combining is part of what `SparseIsDense` and `ReadsMeet` check.

### Assumptions

- `CircuitAssumption` (`Circuit`): bodies are sequences of calls, routine names
  are known.
- `NestingAssumption` (`Circuit`): there are finitely many bodies and calls do not nest
  deeper than that, because no body calls itself, however indirectly: synthesis ends.
- `TokensAssumption` (`Evaluator`): an extra token comes from a gate the same body has made
  before; the token's type and its lifetime see to that.
- `FieldAssumption` (`PrimeField`): P is prime and n is not 0.
- `WiresAssumption` (`Wiring`): circuits are `WellWired`. A call names wires its body has
  (its inputs, or those of calls before it), the output names wires the body has,
  a routine is called everywhere with as many inputs as it takes, and the
  circuit's own body is not called as a routine. This is what Rust's ownership and the type of
  `Routine::Input` enforce on code that compiles; nothing is assumed of which calls
  a body makes, how many, or how deep they nest.
- `PoseidonAssumption` (`Sponge`) and `TranscriptAssumption`: a width, rate and round constants that fit
  together, messages and tags in the field, no empty tag.
- `StagingAssumption` (`Staging`): stage types are pairs of naturals (`wires` beyond
  `values` is an error of the model as of the code, not excluded), alpha and the
  values of the stages are in the field.
- `ApplicationAssumption` (`Registry`): an encoded header has at least one element; a header
  type fixes its suffix and its width; only the unit header has an internal suffix, because
  `Suffix::internal` is private to the crate. Nothing is assumed of which steps there
  are: they may repeat indices, share suffixes or not fit, and are then refused. Whether
  the internal circuits fit the rank (`InternalsFit`) is a constant too, and either value is
  allowed: with FALSE `finalize` returns their error.
- `KeyAssumption` (`Registry`): the one `OmegaKey` documents, that the low 64 bits tell
  the points of a domain apart. No proof uses it.

TLC evaluates all of them on its instances.

### Trace

`PathsUnique` is not inductive: nothing in it says that the *next* path a scope
will hand out is free. The inductive invariant adds `CountersAhead`: whenever a
scope's prefix runs through the path of any segment of any task, the index that
path takes there is below the scope's counter. It also adds `TasksWellFormed`: a
task's first segment carries the prefix the task is named by, every scope owns
its segment, and suspended scopes sit on older segments than the scopes they wait
for. Then

    IInv == TypeOK /\ Numbering
    Numbering == TasksWellFormed /\ PathsUnique /\ CountersAhead

The steps that create no path (`QuietStep`) keep `Numbering` because they only
shrink stacks or append gates. The two that do (`CallStep`: a child segment in
the same evaluator, or a new task) rest on `ChildFresh` (the child's path is in
no task, by `CountersAhead`) and `ChildCounted` (the incremented counter is ahead
of it); `ExecutesStep` and `SpawnsStep` instantiate it. `Inductive` has one step
per action; `Invariance` is `Spec => []IInv`.

`EvalAccounts` is about the end: every task has ended, the root's error comes first,
and without an error the list has every segment of every task once, in depth-first
order. What makes it inductive (`DeliveryInv`) is where the batches are
meanwhile (`Delivered`): a task that has ended stays as it is; its batch is in the channel,
at one place, or has been read (the set `got`); and what was collected is exactly the
segments of the root and of `got`, none of which failed. When the channel is drained
`got` is everybody but the root. That `sort_unstable_by` then has one result is `Sorts`:
`PathLess` is a strict total order on paths (`LessOneWay`, `LessThrough`, `LessEitherWay`), the
collected paths differ by `PathsUnique`, so their ranks are a permutation (`RankTaken`)
and every list `Sorted` admits is the list by rank (`SortedIs`).

`Refines` is the refinement of `TraceEval`: the step in which `eval` returns is a
`ReturnRootFirst`, every other step stutters. Two things have to be known at the end: what
is in the segments, and which errors the tasks report.

1. The segments are those of the circuit: `TraceRuns` (below, shared with `Assembles`) has
   the paths; `Content` adds that a segment holds the gates of the calls its body has made,
   with the values of their closures and the last value on each extra token. At the end of a
   body these are its `OwnGates` and the list is the `DepthFirst` one (`TracedDepthFirst`).
2. A task that fails reports an error its run can reach: every scope on its stack is
   in a body of `Entered`, and got to where it is without raising (`Goes`). A scope under
   another one waits at the call of the scope above it (`Waits`), so an error that unwinds
   the stack comes out of each of those calls (`GoesUnwind`) and is one of `AnyError`.
3. The other way round, an evaluation without an error is of a circuit that cannot raise one.
   A body that ran to its end raised nothing, so it is not in `Raising`: `Content` says so of the
   body of every segment that no scope works on. All bodies that are called have a segment, so
   `QuietCalls` leaves no error. Of the root alone `Goes` says it: a root that ended without an error
   is not in `Raising`, and then `RootError` is empty (`QuietCircuit`).

    ReturnInv == TraceInv /\ TraceGoes /\ Answers

`Answers` adds that an error comes without segments, and `EvalPromises` makes `Promised` of the
three. `Raising` and `Entered` are least sets: being in them follows from their closure, not
being in them from a closed set that lacks the body (`RaisingIs`, `EnteredIs`).

The build without `multicore` has no tasks to number: a predicted routine runs in an
evaluator nested in its caller's, which is popped when it is over, and its segments
pass to the caller's deferred list. `NestInv` is about the nest as a whole: every segment of
every level, of its evaluator (`EvaluatorSound`) or deferred to it (`DeferredSound`), has a path of its
own, and all of them together are the set of paths (`PathsFrom`) that the scopes stand in
(`Runs`, `Leads`), as for the tasks of `Trace`. A deferred segment is `Finished`:
it has all of its body's gates and that body raises nothing. A level waits at the call of the
one nested in it (`Linked`), also for a predicted routine, and so an error that unwinds
the nest comes out of the circuit's body even if predictions raise in their callers:

    InlineInv == prog \in Programs /\ \/ pc = "run" /\ NestInv(prog, nest) /\ ...
                                     \/ pc = "done" /\ nest = <<>> /\ InlineKept

The lemmas about one evaluator (`Runs`, `Content`, `Goes`) are those of `Refines`; what is new is that
a step at the top keeps the levels below (`NestGoes`), that pushing and popping a
level do (`NestStarts`, `NestReturns`), and that at the end the one level left holds the
segments of all calls (`NestFinishes`). `InlineFirstError` is then that an error returned is in
`ErrorsOf` with every prediction inline, and `InlineRefines` that it is thus one of
`AnyError` too (`FirstErrorAny`); by the equalities `Same...` the two instances of `TraceEval` promise
the same.

### Transcript

`HandOver` says in which states the sponge of the circuit and that of the prover
may differ: a save permutes at once, where the prover's clone does so at its next
challenge. So they are equal in a transcript, and after a save one is the other's next
state; from the resumed circuit's first challenge on they are equal again.
`Tracks` is the refinement: mode, buffer and state of the sponge are a function of
the log. A buffer that absorbs holds the elements written since the last
permutation, one that squeezes what is left of the rate, and the state is that of
the duplex after the same blocks. With both, a write and a challenge are steps of
`Ideal`, everything else stutters, and a challenge has the value `Duplex` gives the log.

### Trace and metrics

`Assembles` is about two passes that share nothing but the circuit. Metrics walks it alone
and depth-first; the evaluation spreads it over tasks that run in any order, and sorts
what they made. The trace fits the floor plan if both name the same segments
in the same order with the same number of gates.

1. Both know a segment by its DFS path. For either pass a set of paths is described by
   `Stands`: the path is called as some body (`CalledAs`, by following the calls from the
   root), the segment holds the gates of the calls that body has made so far, and the
   paths of the routine calls made so far are in the set, the others are not.
2. `TraceRuns` says this of all tasks together, and is kept by every step of every task: a call
   predicted Known goes to a new task and one predicted Unknown to the caller's, but the
   path is the same. When no task has failed, every scope stands at the end of its body
   (`EvalTraced`), so the result has exactly the paths of the circuit, sorted.
3. `Measures` says it of the metrics pass, whose records carry no path: there *is* a list
   of paths, one for each record, strictly increasing in `PathLess`. A routine called next
   gets a path above all earlier ones because nested scopes lie below their caller's counter
   (`Within`).
4. At the end both sets are closed under calls, so they are equal (`AllMeasured`), and two
   strictly increasing lists with the same range are the same list (`SameOrder`): record i and
   segment i are of the same call and have the same number of gates
   (`SameSegments`). The asserts of `assemble` hold, and its bound is that of the total
   (`TotalGates` is the last prefix sum), which `into_wiring_object` checked (`Fits`).

`PolynomialAssembled` says what is in the polynomial. The list of segments is the depth-first
one because of 1. and 3. of `Refines` (`EvalDepthFirst`: an error-free result holds
it), so its invariant is that of `Assembles` with `TraceGoes`. That every gate is at its place is a
fact about prefix sums: starts never fall (`StartsRise`), so a place between two starts
belongs to one segment only, and the one `Scattered` chooses for it is the right one
(`Scatters`).

`MetricsRecords` needs the place of a record. `Enforces` counts the constraints of every
scope up to its next call, those `orchestrate` adds to the circuit's body included
(`ZerosAre`); with `Measures` this gives what each record holds when its body has
ended. Paths rise along the records and are those of all calls (`AllMeasured`), so the record
of a call comes after as many others as there are calls before it in depth-first
order: record i is the call with `OrderOf` i (`RecordsAre`, by counting with
`ListedCount`). Only the circuit has the added gate and constraints: no call reaches `Main` a second
time, or the list of paths would have no longest one (`NotCalledAgain`).

### Staging

A stage is laid out twice: by `rx_configured`, which fills a polynomial from the values
alone, and by `configure_stage`, which reserves gates in the circuit and never sees the
values. Both must name the same wire for value k.

1. `AllocatesInTurn`: from an empty pool, `Standard` puts values 2j - 1 and 2j at wires a
   and d of the j-th gate after those there were, for any number of values (`Filled`, by
   induction over the list, `FilledStep`). `StageHolds` is what follows for `rx_configured`
   after the gates it skips: each value at its wire, alpha at a of gate 0, and 0 at every
   other wire, of an odd stage's last gate and of padding too.
2. `SInv` is inductive. The guards of a chain of stages lie where `SkipGates` puts them
   (`GuardsOk`), and stages of a chain do not meet because `SkipGates` grows by `NumGates`
   (`SkipGrows`). For the body `BodyOk` has what "no wire twice" alone lacks: the tokens in
   the pool are distinct, name gates beyond the stages' whose c is 0 (so that any value
   may go to d), and were not handed out (`Unassigned`). The body's calls are composed of
   `StandardStep`, `MulStep` and `BooleanStep`, whose gates also stay satisfied.

### The application builder

A step's `Index` promises a place in a registry that does not exist yet: `circuit_index`
computes it from constants and the number of steps, `finalize` concatenates four lists.

1. `RInv` is inductive. While the builder is open it has the circuits of the accepted steps
   and nothing else (`BuilderOf`), and those have the indices 0, 1, ... in
   order, which `register` checks and the property does not say (`StepsOk`). `finalize` then
   makes a list of which every part is known; an element of a concatenation of four is at its
   place in its own list plus the lengths of those before it (`FourJoined`), so every
   circuit of both registries is where its index says (`NativeHeld`, `Holds`).
2. An encoding ends in the suffix, and `prevent_duplicate_suffixes` is what makes a suffix
   name one header type; but it looks at one step at a time. So `StepsOk` also says that
   the map still recalls every header of every accepted step (`Recalls`), and that each
   fits. Equal encodings then have equal suffixes (`PaddedIs`), the same type
   (`HeadersDiffer`) and the same elements (`EncodingNames`).
3. `finalize` asserts that the circuits it counted in advance (`TotalCircuits`) are those it
   registered. `FullHolds` and `NestedCount` count them, so the only
   refusal left, when the internal circuits fit the rank, is a registry with more
   circuits than there are coefficients.

### Sparse polynomials

A sparse polynomial is a list of blocks that do not overlap, lie in order and are not
empty (`BlocksOk`); `Sparse` is the set of those below `NumCoeffs`, and `StoredAt` the
coefficient at a degree.

1. All writing goes through the run splitter, which walks the coefficients of a stretch and
   closes a block when it has seen more zeros than the gap tolerance.
   Its invariant `SplitterOk` says, after i coefficients, that the blocks closed so far are
   in order and hold all of the i but those of the open run and the zeros behind it. When the
   walk ends the blocks are a `Split` of the stretch: in order, and with its
   coefficients and nothing else added (`Compresses`). `SparseBuilds` is that for one stretch.
2. `SparseReads` has an invariant of the reader (`ReaderOk`): where its two cursors are in the
   list of blocks, given how far it has come from either end. Every
   read keeps it and gives `StoredAt`; the list may end for one cursor inside the other's block.
3. `combine_assign` goes over both lists in clusters of blocks that touch. `Merged` says that
   up to a degree the output has the combined coefficients, and that what is left
   of both lists lies beyond; a cluster, and the shortcut for dense ones, keeps it
   (`SparseCombines`).

The recursive functions behind the walks are reached by induction over sets (`Iterates`,
`Interval`, below).

### The virtual wire table of sy

Exact counts (`Exact`: the refcount of a slot is the handles to it, the terms of
other slots that name it, and the terms `free()` has taken out and not yet
released) are not inductive either. That a driver call never reads a wire that
was dropped needs `FramesOk`: a frame holds every handle that its remaining calls and its
output name. That `alloc()` finds a clean slot needs `FreeOk`: the free list names a slot
once, and only when its count is 0, its terms are gone and no work is left on it. That
`free()` retires a slot once needs `ItemsOk`, about the recursion under way:

    IInv  == ... /\ Sound(prog, stack, wires, free, work)
    Sound == FramesOk /\ SlotsOk /\ ItemsOk /\ FreeOk /\ Exact   (and lists are lists)

The proof has one lemma per driver call, drop and step of the recursion; counts move by
`SheetsPushed` and its like in `DataTheorems`, which count the places of a family of lists.
Not leaking a slot (`free.len() == wires.len()`, `sy.rs:735`) needs one thing more,
`Acyclic`: among any set of slots there is one that no other of them names.
Without it exact counts allow a cycle that outlives its last handle. `add()` keeps it
because a new slot is named by nobody; when the last handle is gone it makes the
set of unspent slots empty (`AllSpent`).

### The walk all drivers take

`Registration` is about four passes over one circuit that must not drift apart: the
metrics pass, whose records make the floor plan, and the three evaluators, which
panic or fail when they meet a scope, gate or constraint the plan has no place for.
The proof gives every pass a *control*: for each frame its body, the next call in it and
the segment it fills, and how many segments were entered so far. `After(p, c)` is
the control that follows c; it depends on the circuit alone.

1. While the circuit is measured there are a set R of controls, closed
   under `After` up to the present one, and a name for every segment such that
   every record counts exactly the gates and constraints of the calls its body has
   made so far (`Metered`, `Accounted`). With the totals (`MTotals`) this is `CountInv`.
2. At the end R is closed (`Walked`), the number of records is the count of the
   last control, and the plan made of the records is what the bodies need
   (`Registered`): each segment has the counts of its body and lies within the bounds
   that were checked.
3. Every evaluator's control stays in R, and in each frame the gates and
   constraints made so far are those of the calls before its next one
   (`PointWalk` for `sxy` and `sx`, `Tracks` for `sy`). So there is room at every call, a
   scope that returns has filled its placement, no call lacks a segment, and the walk ends
   with all segments entered. For `sx` the invariant also has `EndsInOne`: the
   circuit's last call writes the 1 that `eval` asserts at Y^0. For `sy` it stands on
   `IInv` and `Acyclic`.

`WalkInv` says this from registration on, with R and the names chosen once;
before it, and if the circuit is refused, that no evaluator has begun.

### Induction over data

The library's induction theorems take a predicate as a parameter, which the
installed provers cannot instantiate. `DataTheorems` has them for *sets*: `NatSet` (a
set that holds 0 and, with a number, the next one, holds all numbers), `Interval`, and
`Iterates` (a recursive function given by its step as a function). With these the proofs
reach what recursive functions compute over data: sums of the floor plan, powers, the sponge's blocks,
the number of wires before each call.

### What is only model-checked

- That the three evaluators compute the *same* polynomial (`EvaluationsAgree`,
  `EvaluatesConstraints`): `Registration` proves that they reach their ends in step, not
  the values on the way.
- Of `Staging`, that masks admit exactly a stage's wires and that the bonding validator
  keeps a circuit to them (`MasksAdmitStages`, `BondingNeedsOnlyStages`): they are about
  the coefficients of sparse polynomials.
- Of `Registry`, that m(W, X, Y) interpolates its circuits and that its restrictions agree
  (`RegistryInterpolates`, `RestrictionsAgree`): polynomials over the field again.
- Of sparse polynomials, evaluation, commitment, revdot, dilation and the views.
- Everything about `Gadgets`, `Fuse` and the pure algorithms of `Polys` and `Coefficients`;
  `FingerprintsClassify`.
- Everything about liveness and ENABLED.

## 7. Not modelled

- Field and curve arithmetic at its real size; randomness of the evaluation points
  (the models use formal polynomials, or check all chosen points); the truncation
  of a fingerprint to 64 bits and the `TypeId`s in it.
- That a random challenge catches a false claim. The models follow what the code
  computes; a cheating prover is considered only in `gadgets`.
- In `fuse`, the polynomial of a native stage or circuit is a digest of the values
  in it: that the trace of a circuit satisfies its wiring polynomial is the matter
  of `assembly`, `wiring` and `gadgets`. So `verify` decides a revdot claim by what it
  stands for: a circuit's claim comes to its k(y) if the trace is that of the circuit,
  assembled with the stages the claim adds to it, and the instance is the one it ran on; a
  mask's claim comes to 0 if the polynomial lies in the mask's stage. Any other claim is
  `Unmet`, a value no k(y) equals. The random y and the random points of `verify` stand for the
  identities they test. The raw claim is compared with the c it is computed from, as
  the NOTE in the code says; `verify` reads no commitments of native polynomials; and the
  values of some places of bridges, of the proof's own or of its children's copied ones, are
  read by no claim (listed at `WrongNative` and `WrongNested` in `MCFuse`). Of the nested side,
  the commitments to the step, endoscalar and points polynomials, which only `build`
  reads, are left out.
- In `registry`, the errors `register` may return for an internal circuit at `finalize` are one
  Boolean, `InternalsFit`; the run has it TRUE. Suffixes are unbounded: `get` adds 2 to a
  `usize` (`header.rs:52`), which overflows for the two largest values.
- The Poseidon constants and the parameters of the Pasta curves: data.
- `Maybe`, `Sendable`, derive macros: static guarantees of the type system, code
  generation. The drivers' kinds stand for what `Maybe` decides.
- What circuit code does inside a linear-combination closure beyond naming wires.
  `sy` holds the `RefCell` of its table while such a closure of `enforce_zero`
  runs (`sy.rs:585`); cloning or dropping a virtual wire there would panic.
- Panics inside user code, and poisoned rayon jobs; the parallel fallback choice of
  `multicore` beyond the number of threads a transform is split over.
- The crates' testing helpers, the fuzz targets, the Lean extraction and the book
  tooling: they exercise the system and are no part of it.
