# NoPlateau: specifications, model checks and proofs

NoPlateau generates unit tests for a Python module by alternating between three tools until a
time budget is used up or the coverage is complete: **CoverUp** prompts a language model for
tests of code that lacks coverage, a **diversity** step has a language model write tests that
differ from the ones at hand, and **Pynguin** searches for tests with evolutionary algorithms.
This directory specifies the parts of that system that decide what is tested, measured, kept
and lost, in TLA+; TLC checks them on small instances, and TLAPS proves theorems about the
searches, the executor, tests and their caches, the test cluster, subtypes, guesses of types,
CoverUp and the driver, for instances of any size.

Paths below are relative to `src/pynguin-container/pynguin/`; those of Pynguin itself to its
`src/pynguin/`. `PROJECT.json` maps every definition that models code to the lines it stands
for.

## 1. Inventory

### The parts, their state and their operations

| component | code | state | operations |
|---|---|---|---|
| NoPlateau driver | `noplateau.sh`, `merge_tests.sh`, `mistral.py` | two test directories, time used, index of the next iteration type, iterations made, best coverage | the iterations `run_coverup`, `make_diverse_tests`, `run_pynguin`; `measure_coverage` |
| CoverUp main program | `coverup/src/coverup/coverup.py`, `testrunner.py` | test files, disabled test files, the checkpoint file; `State`: coverage, segments done, counters, missing modules | `main` in five phases, a coroutine `work_segment` per segment, `save_checkpoint`, `load_checkpoint`, `check_whole_suite` |
| CoverUp chatter | `coverup/src/coverup/llm.py` | messages of each chat, a rate limiter they share | `chat`: requests, retries, backoff, function calls |
| CoverUp segments and prompts | `segment.py`, `prompt.py`, `codeinfo.py`, `logreader.py` | – | which code lacks coverage, which prompts are made of it |
| DynaMOSA | `ga/algorithms/dynamosaalgorithm.py`, `abstractmosaalgorithm.py` | population, current goals, fitness graph | `generate_tests`, `evolve`, `_GoalsManager.update` |
| MOSA | `mosaalgorithm.py` | population | `generate_tests`, `evolve` |
| coverage archive | `archive.py` (`CoverageArchive`) | `_covered`, `_uncovered`, `_objectives` | `update`, `add_goals`, views |
| MIO search and archive | `mioalgorithm.py`, `archive.py` (`MIOArchive`) | a bounded population and a counter per target | `update`, `get_solution`, `shrink_solutions` |
| whole-suite and random searches | `wholesuitealgorithm.py`, `randomalgorithm.py`, `randomsearchalgorithm.py` | population of suites, archive, best suite | `generate_tests`, `evolve` |
| ranking, selection | `ga/operators/` | – | preference sorting, dominance fronts, epsilon dominance, rank selection |
| chromosomes, caches | `chromosome.py`, `computations.py` | changed flag; caches of fitness, coverage and is-covered | `get_fitness`, `get_is_covered`, invalidation |
| stopping conditions | `stoppingcondition.py` | a counter each | `is_fulfilled` and the observer callbacks |
| test case executor, tracer | `testcase/execution.py` | a daemon thread per test; the tracer's current thread; trace and enabled flag per thread | `execute`, the tracer's callbacks, observers |
| control flow | `analyses/controlflow.py` | – | control-flow graph, dominator trees, control-dependence graph |
| branch goals and fitness | `coveragegoals.py`, `controlflowdistance.py`, `computations.py` | execution traces | approach level and branch distance, coverage, DynaMOSA's goal graph |
| instrumentation | `instrumentation/instrumentation.py` | the basic blocks of the code under test, rewritten by up to five adapters | probes for branches, lines, checked coverage, seeding |
| slicer | `slicer/` | the recorded instructions; contexts, simulated stacks | reconstruction of the flow of execution; dynamic slices |
| module analysis, test cluster | `analyses/module.py`, `utils/generic/genericaccessibleobject.py` | classes, generators, modifiers, caches; the filtered cluster | analysis of modules; which generators are offered while targets get covered |
| types and guesses | `analyses/typesystem.py`, `utils/typetracing.py` | subclass graph, usage traces, guessed types | subtyping; proxies; guesses |
| test factories, genetic operators | `testcasefactory.py`, `testfactory.py`, `crossover.py`, `statement.py` | – | random construction, mutation and crossover of tests |
| post-processing | `postprocess.py` | – | truncation at exceptions, removal of unused statements |
| assertions, mutation analysis | `assertion/` | recorded assertions; the syntax tree that is mutated | observers, re-execution, mutants, filtering |
| seeding, entry point, export | `analyses/seeding.py`, `generator.py`, `testcase/export.py` | – | pools of constants; set-up; text |

### How they interact

The driver starts the tools one after another. They share tests through two directories:
CoverUp adds to one, and that directory is then copied over the other; Pynguin and the
diversity step write into the second, and after Pynguin it is copied back over the first.

CoverUp is one process with an event loop. Its coroutines share `State`, the rate limiter,
and the two places they write to, a test directory and the checkpoint; they give control
away only where they await a chat or a measurement. A process may be interrupted or killed
anywhere, and a later one continues from what is on disk.

Inside Pynguin, the module under test is analysed (which classes and callables there are,
what generates what) and instrumented (probes that call the tracer). A search breeds a
generation, has every new test executed (the executor starts a thread, the instrumented code
calls the tracer from that thread), reads fitness values from the chromosomes' caches, which
are computed from the traces along the control-dependence graph, ranks parents and
offspring, and shows the survivors to the archive. DynaMOSA's goals manager stands between
the two: it decides which goals are ranked for, from what the archive says is covered. The
archive tells the filtered test cluster what no longer needs tests; executions tell the type
system what parameters and results are. In the end the suite is post-processed, executed
again to record assertions, and mutants of the module decide which assertions stay.

### What is hard

* the goals manager, the archive and the selection keep separate records of the same facts,
  and a wrong one silently ends the search early or searches for what is covered;
* the update loop of the goals manager runs over a graph with cycles and must end;
* a test's thread cannot be killed; after a timeout it goes on beside later tests until it
  notices, and the notice is an exception that test code can swallow;
* probes must leave the operand stack as they found it, and five adapters rewrite the same
  block one after another, each relying on what the ones before left;
* the slicer reconstructs from a partial trace what was executed, and simulates the stack
  backwards over it;
* fitness values are cached behind flags that mutation, crossover, restricted goals and
  re-instrumentation must reset;
* mutants share one syntax tree that suspended generators change and restore;
* CoverUp's coroutines save one another's state, at any point of one another's work, and
  their chats compete for one limiter with pauses that a response has to end;
* kills between two writes to disk; tests renamed to names that may be taken;
* the driver's directories overwrite each other, and a skipped iteration costs no time.

`PROJECT.json` lists them at their lines under `hazards`, with the properties that cover them.

### What makes each part correct

* a search: archived tests cover their goals, are exchanged for shorter ones only, and
  completion is reported only when every goal has one (`TestSearch`);
* DynaMOSA: the goals ranked for are the uncovered goals, no reachable goal is forgotten,
  selection does not drop coverage, updating ends;
* searches over suites: they rank what suites are worth now and report nothing worse than
  before; MIO: a covered target keeps exactly one test, an uncovered one as many as the
  algorithm asks for, and never loses the best;
* stopping conditions: a plateau is one, and the search ends;
* the executor: a result is never made from half a trace, threads of timed-out tests stop;
* control flow and fitness: the graph holds the dependences of the definition; zero fitness,
  a covered goal and a taken branch are the same; DynaMOSA searches for every goal in the end;
* instrumentation: the code under test cannot tell, and the tracer is told the truth;
* the slicer: a slice holds all that its criterion depends on;
* a test case: its statements use what is defined before them, whatever was mutated, crossed
  over or deleted; it reports its changes; it keeps a call on the module under test;
* chromosomes: whoever asks for a value gets the one of the present tests, goals and
  instrumentation;
* module analysis and types: what is known does not depend on the order of analysis, answers
  from caches are current, an uncovered target is offered, guesses are useful;
* assertions: they hold in every execution but that of a mutant, and those stay that a
  mutant violates; mutants differ from the original where they say;
* CoverUp: a checkpoint never promises a test that is not on disk, progress survives kills,
  no prompt is paid for twice, no test is lost, segments do not overlap, conversations are
  whole, prompting ends;
* the driver: the two directories do not drift apart, tests survive, the loop stops.

## 2. Modules

```
Chromosomes              tests, goals, fitness, size
 |- CoverageArchive      update, add_goals
 |   `- SuiteSearch      whole-suite and random searches;          SearchesProofs
 |- Ranking              fronts, dominance, selection of survivors
 |- TestSearch           abstract: what any search promises
 |- AbstractMOSA         what DynaMOSA and MOSA share: CoverageArchive + Ranking
 |   |- DynaMOSA         with the goals manager;   implements TestSearch;  DynaMOSAProofs
 |   `- MOSA                                       implements TestSearch;  DynaMOSAProofs
StoppingConditions       counters and limits of the seven conditions
 |- SearchBudget         the loop that consults them;              SearchesProofs
 `- MIO                  populations per target, parameters;       SearchesProofs

TestCases                one test under mutation, crossover, execution, post-processing;  ExecutionProofs
Caches                   suites, their tests, cached values;       ExecutionProofs
Executor                 execute, threads of tests, the tracer's thread check;  ExecutorProofs
ControlFlow              graphs, dominators, control dependence, goal graph;  AnalysisProofs
 |- BranchFitness        traces, fitness, coverage of branch goals;  AnalysisProofs
 `- Slicer               recorded instructions, flow, simulated stacks, slices
Distances                distances of predicates;                  AnalysisProofs
Instrumentation          five adapters and the machine that runs what they make
TypeSystem               types and subtyping;                      TypesProofs
 |- ModuleAnalysis       classes, generators, attributes;          TypesProofs
 |   `- TestCluster      caches, observed types, the filtered cluster;   GenerationProofs
 `- Signatures           proxies, usage traces, guesses;           GenerationProofs
Mutants                  a syntax tree, mutated in place;          GenerationProofs
Assertions               recording, filtering, mutation analysis;  GenerationProofs

CoverUp                  main, coroutines, checkpoint, tests;  ScriptsProofs
Chatter                  conversations, rate limiter, retries;   ScriptsProofs
Segments                 choice of segments in a file;           ScriptsProofs
NoPlateau                driver, directories, budgets;           ScriptsProofs
```

The specifications of the components are independent state machines: the components share no
variable whose interleaving matters beyond what each module already has as its environment
(what a generation breeds, what a chat or a measurement returns). TLC checks related ones
together: an MC module instantiates several, chooses one of them with the variable
`component` (or `algorithm`) in the initial state, and leaves the others idle, so that the
reachable states are the union of those of the parts. Properties keep their names; where the
part is instantiated under a name, the MC module repeats the name and points there. The MC
modules take the constants of their parts as constants of their own and assume of them what
the parts do (`OtherConstants`), so that the theorems about the parts are theorems about any
instance of the run's specification (`MCSpec`).

| MC module | components |
|---|---|
| `MCDynaMOSA` | DynaMOSA, MOSA |
| `MCSearches` | MIO, SearchBudget, SuiteSearch |
| `MCScripts` | CoverUp, NoPlateau, Chatter, Segments |
| `MCExecution` | Executor, Caches, TestCases |
| `MCAnalysis` | Slicer, BranchFitness, Distances, Instrumentation; programs in `MCSlicer`, `MCInstrumentation` and itself |
| `MCGeneration` | TestCluster, Signatures, Mutants, Assertions; data in `MCAssertions` and itself |

**Chromosomes, CoverageArchive, Ranking.** A test case is a value with a size and a fitness
per goal, since the algorithms change only clones. The archive's dictionary is a total
function with `NoTest` for a missing key; `Updates` is the set of dictionaries that `update`
can leave. The code compares by strictly smaller length and takes the first of several
shortest, which depends on the order of a list: here any of them may win. Ranking is
translated the same way: `ZeroFronts`, `Dominates`, `Survivors` give every outcome that the
order of a list or a coin flip can produce. Sets stand for lists, so that a population with
equal individuals is represented by fewer elements; `LaterFronts` and `RandomPopulation`
therefore allow fewer survivors than the code counts.

**DynaMOSA, MOSA.** One action per step of `generate_tests` and `evolve`. `pc` is where the
loop stands. `Breed` may give any set of non-empty tests: crossover and mutation can turn a
clone into any test. `UpdateRound` is one round of the `while` loop in
`_GoalsManager.update`, with the call of `archive.update` and of `add_goals` that belong to
it. `Children` is the structural-children relation of `_BranchFitnessGraph`.

**TestSearch** is the abstract specification; DynaMOSA and MOSA implement it with
`best <- covered` and the verdict read off `pc`.

**SuiteSearch.** One action per iteration of each algorithm, except that the whole-suite
algorithm's `evolve` is `Evolve`, then one `Breed` per pair of offspring, then
`NextGeneration`. A suite is the set of its tests; its fitness is the sum of its distances to
the goals, without those that the archive has excluded. `excluded` and the recomputation of
the population's fitness belong to the search with an archive.

**StoppingConditions, SearchBudget.** One record holds the counters of all conditions;
`AfterTest` and `AfterIteration` are the events they hear of. A coverage is a multiple of
`1 / Scale`; `RoundedDown` names those for which the float product with 100 falls short of
an integer, as 0.29 does. `SearchBudget` is `generate_tests` of any search: it consults the
conditions, executes tests, lets time pass, and reports a coverage, which may also fall.
`history` is a history variable.

**MIO.** One action for each way in which `evolve` gets its offspring, each with the update
of the archive it ends in, one for `_update_parameters` with the shrinking it may call. A
test's closeness to a target is an integer up to `MaxH`, which stands for 1.0. `Progress` is
an exact fraction; `Pr` is only looked at for being positive.

**TestCases.** A test is a sequence of statements, each with a variable, a kind and the
variables it uses; types are abstracted to "any variable defined earlier may fit". `Mutate`
takes the backup, then deletion and change run as loops (`DeleteStep`, `ChangeStep`) with
`idx` as their loop variable, then `Insert`, and `Restore` when the SUT is no longer called.
A failed construction leaves statements that `Rollback` takes back by counting, as the code
does. A construction adds one supporting statement at most. Crossover appends the tail of
a test from `Partners` statement by statement (`CrossOver`, `AppendNext`, `CrossedOver`,
`GiveUpCrossOver`); `Seeds` are the tests one begins with. `Truncate` and `Strip` are the
visitors of post-processing, `Clones` the number of chromosomes that share a result.
`result.of` and `result.failed` are history: which statements the result belongs to.

**Caches.** A value is represented by what it was computed from (versions of the tests,
instrumentation, restrictions), so that a stale value differs from a current one. An
operation of a search on a suite is one action: `AskSuite` and `AskTest` are `_check_cache`
with the computation it may start, which executes tests and clears their flags.

**Executor.** `main` is the thread that calls `execute`; every execution has a thread of its
own, with its own trace, enabled flag and result queue, as in the code (`threading.local`, a
queue per call). The tracer's current thread is the one variable all of them share. A
statement is one step; which exceptions it raises or swallows is a choice. Executions are
numbered; a thread's identifier is the number of its execution.

**ControlFlow.** A code object is a function from the indices of its basic blocks to what
each ends with; a graph is a record of nodes and labelled edges. The operators follow the
code: splitting into edges, entry and exit, the augmented graph, immediate post-dominators,
control dependence with least common ancestors, filtering to what reaches a predicate, and
`_BranchFitnessGraph` from it. The reference definitions by paths (`DependsOn`) are what the
results are compared with.

**BranchFitness.** `Enter`, `Branch`, `Move`, `Raise` and `Return` execute an instrumented
code object block by block: `Branch` reports the distances of a predicate, of which one is
zero. `StoreImportTrace` and `EndTest` are what the executor does with the trace. Fitness and
coverage are operators on a trace: approach level and branch distance, where the normalised
distance `d / (d + 1)` is an exact fraction of `One`. Distances are multiples of `1 / Unit`, so
that some lie below `Close`, the threshold of `BranchGoal.is_covered` (0.00001), without being
zero. `taken` and `near` are history variables: the branches that were really taken, and those
that were missed by less than the threshold.

**Distances.** Python values are a kind and data; `Equals`, `Less` and `Contains` are what
the interpreter's operators give, and the distances are those of the tracer's probes; that
of two strings is the Levenshtein distance, row by row. Numbers are integers, which become
floats before they are subtracted for an order: `Float` is the closest integer that a float
holds, exact up to `Exact` (2^53), with a step that doubles above. Fractions, overflow and the
rounding of a difference are left out. `AreOrdinary` says of which values
the tracer's assertion holds. There
is one step: a predicate is executed with two values and an operator (or a truth value, or an
exception), and `jumps` is what the interpreter then does.

**Instrumentation.** A block is a sequence of instructions; an adapter maps it to one with
probes, as its `visit_node` does, in the order in which the code configures the adapters.
`Run` executes the compiled and the instrumented block on the same stack machine with
symbolic values (a value is the term that computed it): a probe pops, calls or rotates as the
bytecode that is inserted does, and a call of the tracer is recorded in `told`. In the end
both are compared.

**Slicer.** `Compute`, `Use`, `Define`, `Jump`, `CallFunction` and `Return` execute a test
with the code it calls, and record in `trace` what the tracer is told; `history` holds all
executed instructions with their real dependences. `Registered` adds the control-dependence
graphs that are computed when code is instrumented. `BeginSlice` starts at a store of a
statement's result; `SliceStep` is one iteration of the slicing loop: the last instruction is
reconstructed from the trace, the simulated stacks are popped and pushed in reverse, and the
instruction is put in the slice for one of the code's reasons.

**TypeSystem, ModuleAnalysis, TestCluster.** A type is a record; subtyping is
`_SubtypeVisitor` and `_MaybeSubtypeVisitor` over a graph of subclasses. `ModuleAnalysis`
runs the code's worklists: modules, their classes and the classes' bases, then functions; the
order within a module is part of the world, so that bases come after and before their
subclasses. The hints of signatures name classes as well (`NamedBy`): they are known from then
on and linked to none, unless they are analysed in their turn. A class whose module cannot be
read is known and no more (`skipped`, the `continue`s at `module.py:1317-1331`). The order in
which one signature names classes is left to `SetToSeq`. `PushDown` is one visit of `push_attributes_down`. `TestCluster` then lets
returned types be observed, generators be asked for (with the cache) and targets be covered
(with the filtered cluster), in any order.

**Signatures.** A test is executed once plainly, once with proxies; `UseProxy` records what
called code does with a proxied value. `GetParameterTypes` makes a guess per parameter from
what was recorded and keeps the last few. A guess of a collection is refined by guesses about
its items, and those by guesses about theirs, but no deeper: two levels, as
`recursion_depth` counts them. Random choices are choices.

**Mutants.** Nodes are numbered in the order in which visitors meet them; `Lists` is the tree as
it was parsed, `tree` what stands in each place (a position in a list of a node) now. A
mutator's generator is an entry of `generators`: its mutation, and the copies of the lists it
came by, which it puts back when it is resumed. `Apply` is the generator up to its `yield`,
`Resume` ends the use of the mutant, `Finish` is the rest of the generator that began last
(`PutBack`, list by list); for higher orders several are suspended at once, and changed the
same lists. `MutationsOf` is what the operators offer for a node.

**Assertions.** A run says what the statements of a test do in one execution. `Record`,
`Filter`, `SkipMutant` and `RunMutant` are the executions, `NextPhase` ends the recording,
the filtering and the mutation analysis with what the code does then. Objects are values with
fields; an assertion is a fact about a reference. A run's `steps` say for each statement
what it raises and which objects there are after it. A primitive is looked at once, an object
whose class is not a builtin one from then on (`home`, `Watched`).

**CoverUp.** `phase` is where `main` stands, `pc[s]` where the coroutine of segment `s`
stands. A coroutine that works between two awaits is the `holder` of the event loop. Each
write to disk is an action of its own, so that `Kill` can come between creating a test file
and writing it, or between opening the checkpoint (which empties it) and dumping it.
Segments are a constant set: what a measurement says lacks coverage may shrink to any set
that holds the segments no test on disk covers. `gained` and `recorded` are history
variables: which segments had a test that helped, which ones the last complete checkpoint
calls done.

**Chatter.** A chat is at the limiter, has sent its messages, sleeps before a retry, or is
over. `Leak` is the limiter's passing of time. A message is its role and, for calls, how many
it asks for; each costs one token. The outcomes of a request are those the code has a handler
for: an answer, calls, rate limit or service unavailable (retried after a growing pause),
connection failure (retried at once), a bad request (given up), and a function that cannot be
called, which raises.

**Segments.** A file is a laminar set of functions and classes with their lines (the line of
the first decorator, of the name, and after the last), with the lines and branches that a
measurement says are missing. `Visit` takes the lines of interest in ascending order, as
`get_missing_coverage` does, and adds a range with its context; `MakeSegments` makes a
segment of each range, with the missing lines in it and the missing branches that begin in it.

**NoPlateau.** One action per iteration type, with the merge before it, the tool, and the
copy after it; a test file is known by who made it in which iteration. Whether a tool fails
and how long it takes are choices.

In every module some operators are introduced as *slips*: variants of the next definition
with a plausible mistake (a dropped guard, a swapped order, an off-by-one). No
specification uses them; each belongs to a property that fails when the slip takes the place
of the definition (`mutants` in `PROJECT.json`), which shows that the property is sensitive
to that code.

## 3. What TLC checks

### Runs that pass

| run | distinct states | what it is about |
|---|---|---|
| `dynamosa` | 4 600 | DynaMOSA and MOSA |
| `searches` | 288 000 | the other searches, and when they stop |
| `scripts` | 341 000 | CoverUp and the driver, with crashes |
| `execution` | 2 430 000 | tests, suites, and the threads that execute them |
| `analysis` | 839 000 | control flow, fitness, probes, slices |
| `generation` | 253 000 | what tests are made from, and what is asserted |

**`dynamosa`** (`MCDynaMOSA`). DynaMOSA with 5 goals, one nested twice and one its own child,
6 tests, population 2, 2 offspring; MOSA with 3 independent goals, the same tests.

* `ArchiveConsistent`: archived tests cover their goals, and the three containers of the
  archive agree.
* `FrontierIsRight`: the goals ranked for are exactly the uncovered objectives, and the
  children of covered goals are objectives.
* `PopulationIsArchived`: after the update nothing that is searched for is covered by the
  population; `SelectionKeepsCoverage`: and nothing gets lost on the way there.
* `UpdateEnds`: the update loop ends on a graph with a cycle.
* `ImplementsTestSearch`, `MOSAImplementsTestSearch`: both keep the promise of `TestSearch`.
* `FoundMeansArchived`: MOSA archives what it finds if the first front fits.

**`searches`** (`MCSearches`). MIO with 2 targets, 6 tests, populations of 3 that shrink to 1
and grow when a plateau ends, 9 iterations; any search with all seven conditions, coverages
that rise and fall, 5 iterations of 2 tests or ticks; the suite searches with 5 tests, of
which one raises and one times out, 2 goals, population 2, elite 1.

* `PopulationsAreSound`: MIO's populations are ordered and have the capacity that the
  algorithm believes them to have; a covered target keeps exactly one test.
* `PlateausAreReal`: a search is cut short only by a plateau that there is.
* `SuitesAreSound`: populations of suites are ranked by what they are worth now, and a search
  is complete only with a test for every goal; the random algorithm builds on no test that
  raises or timed out.
* `ResultsNeverFallBack`: MIO's best test for a target and the best suite of the other
  searches never get worse.
* `SearchEnds`: a search with a limit on iterations ends.

**`scripts`** (`MCScripts`). CoverUp with 2 segments, concurrency 1, 1 retry, failing tests
disabled, 2 runs of the program; the driver with all three iteration types, time budget 4,
7 iterations; 2 chats that share a limiter of 3 tokens, with 2 failures and 2 rounds of up to
2 calls each; 2 source files with any set of missing lines, or any one missing line and one
missing branch, or both branches of any one line.

* `SegmentsAreSound`: checkpoints promise only tests that are on disk, no segment that a
  complete checkpoint called done is prompted for again, success means that every segment
  was dealt with.
* `WorkSurvives`: no test is overwritten by numbering or renaming, no checkpoint forgets a
  finished segment; in the driver, tests known to both directories survive.
* `PromptsEnd`: nobody starves behind the semaphore or the limiter.
* `ConversationsAreWhole`: every request is a whole conversation that fits the limiter.
* `GapsAreSegmented`: segments are apart, and each missing line or branch that can be in one
  is asked for in exactly one. Both ends of a missing branch are lines of interest
  (`segment.py:100`), but a branch belongs to the segment it begins in (line 148): for the
  function that holds only its other end, the code makes a segment with nothing missing,
  although the class says that a segment "is missing coverage" (line 9). The property says
  exactly when this happens. Lines outside all functions, and lines directly in a class above
  the limit, are in no segment (the `FIXME` at line 115, and line 129).
* `DirectoriesAreSound`, `Stops`: the driver's directories never drift apart; its loop stops.

**`execution`** (`MCExecution`). 2 executions of up to 2 statements; 2 suites of up to 2 tests
with 2 fitness functions, a coverage function and one more at the end, 5 operations; tests of
up to 3 statements, 2 seeds, 1 partner, 3 operations.

* `ThreadsAreApart`: a result is never made from half a trace, only a thread that named
  itself too late kills another one, observers trace no lines.
* `TimedOutThreadStops`: a timed-out thread begins no further statement.
* `ValuesAreCurrent`: no sequence of operations makes a suite or a test answer for what it was.
* `TestsAreWellFormed`: references are sound, an exception of a result that is current stays
  last, only used statements stay.
* `MutationIsSound`: a call on the SUT stays, an unreported mutation changed nothing.

**`analysis`** (`MCAnalysis`). All code objects of three basic blocks and four larger ones
(nested conditions, a loop with a break, handlers in a loop and in a branch), executed for up
to 5 steps in up to 2 tests; all pairs of 15 values and all operators; 31 ends and statements
compiled to one or two lines, under every combination of metrics, with bound and unbound
variables; ten tests whose code branches, loops, calls and recurs, with up to 45 executed
instructions.

* `DependencesAreRight`: the computed control-dependence graph is the one of the definition.
* `GoalsAreActivated`: every goal is reachable for DynaMOSA, and a goal that was executed is
  searched for at once.
* `FitnessIsReal`: the fitness of a goal is zero exactly when its branch was taken; the goal is
  covered exactly when its branch was taken or missed by less than the threshold, and then its
  fitness need not be zero; the coverage of a suite counts what its tests took, and is complete
  exactly when the fitness of the suite is zero. `FitnessOnlyImproves`: no execution and no
  further test makes it worse.
* `ZeroMeansTaken`: the distance is zero exactly for the branch that the jump takes.
* `InstrumentationIsTransparent`, `ReportsAreTrue`: whichever adapters are combined, the code
  cannot tell, and the tracer is told what happens, once and in order.
* `SlicesAreSound`: the flow of execution is reconstructed, with and without branch coverage
  beside checked coverage; as long as jumps are recorded with the blocks that they jump to,
  nothing in the flow is taken for an exception; and then a slice holds every instruction
  that its criterion depends on. With branch coverage, jumps across or out of a loop header
  are recorded with another block (see the observations): there the run has incomplete
  slices, of `LoopThenIf` for instance, and all of them are due to a jump that was taken for
  an exception.

**`generation`** (`MCGeneration`). A module under test with two classes and an included module
that includes it back, 2 observed return types, 3 targets; one callable with a plain and a
variadic parameter, 2 uses in each of 2 executions; a class whose method has a condition, a
loop and a decorator, mutants of first and second order; 2 tests with 3 kinds of flakiness
and 4 mutants.

* `TypesAreRight`: classes that were analysed are linked as they really are (unless one above
  was skipped), classes that only hints name stand alone, no link is wrong; attributes lead to
  the topmost of the analysed classes that have them; subtyping is reflexive and transitive, the
  weak check is weaker. The world has all of these: a class that only a hint names and that
  derives from another class, one that a hint names before it is analysed, and a base
  whose module cannot be read.
* `AnswersAreCurrent`: caches give what generates a type now; `UncoveredIsOffered`: whatever
  still has an uncovered target is offered.
* `GuessesAreUseful`: the last few guesses are kept, each once, and none is Any.
* `MutantsAreSound`: a mutant is the original with its mutations, the tree is restored, every
  mutation gets its turn.
* `AssertionsAreTrue`, `RelevantAssertionsStay`: assertions hold where they are, also after
  filtering removed others beside them; the ones that a mutant violates stay, and no others.

### Bounds

DynaMOSA's instance has every situation its code distinguishes: several roots, a child of a
child, a loop, a first front (three roots) larger than the population, tests that tie, a test
that covers parent and children at once (so that an update needs three rounds), an empty
test. Two executions suffice for a leftover thread beside a current one, two statements for a
thread that has something left to do. Two segments and concurrency 1 let one coroutine wait
while the other is anywhere; two runs let the second meet whatever the first left. Two chats
and three tokens let one be too large for what the other left of the limiter. Five operations
on two suites let a suite be asked, cloned, changed in a clone, recombined and asked again; a
test of three statements has one whose user is used itself. MIO's tests tie in closeness,
differ in length and in passing; nine iterations go through all three sizes of the
populations. The budget of 4 with an overhead of 1 lets Pynguin iterations run, be skipped,
and be skipped when they alone remain. Code objects of three blocks have every shape of
branch, loop and handler that a dominator tree or a least common ancestor can go wrong on;
the larger ones nest them. The two lines of a block let a probe fall between two lines and
before a jump. Of the distances 1, 4 and infinity (with a `Unit` of 4: 0.25, 1.0, infinity) the
first is below the threshold `Close`, as 0.000005 is in the code. `Exact` is 4, so that 5 is the
first integer that is no float; the values of the run stay ordinary. The tests for the slicer return early, so that a jump must be told from
falling through, and call the same code from different places.

Each of these names bounds what the code leaves unbounded: `MaxOffspring`, `MaxRuns`,
`MaxExecutions`, `MaxLength`, `MaxElapsed`, `MaxOperations`, `MaxStatements`, `MaxUses`,
`MaxRestricted`, `MaxWork`, `MaxIterations`, `MaxSteps`, `MaxTests` (in `BranchFitness`),
`MaxBlocks` (its `MaxSteps` in the run), `MaxCalls`, `MaxRounds`, `MaxFailures`,
`MaxObservations`, `TupleSize`, and the sets `Coverages`, `Values`, `Blocks`, `Codes`,
`Distances`, `Programs`, `Worlds`. The other constants are
parameters of the code. A probe of dynamic seeding never raises, and `AllValues` leaves out
the values for which the tracer's own assertion fails (see below).

### Fairness

DynaMOSA and the driver are sequential: `WF(Next)` says that the program takes its next step;
for the driver, that the tools it starts end (each has a time limit of its own). The
executor's properties need no fairness: threads run code under test and may hang. CoverUp
assumes that the event loop runs what is ready and that a chat or a measurement ends:
measurements have a timeout; that chats end is what `Chatter` shows (`ChatsEnd`), from the
assumptions that the event loop runs each chat that is ready, that the limiter drains, and
that the service refuses only `MaxFailures` times and asks for calls only `MaxRounds` times.
`llm.py` itself retries without a limit; this bound is an assumption on the service that
answers. `SearchBudget` assumes that the loop goes on, that iterations end and that time
passes; the executor's timeouts justify the second. Kills and interrupts are not forced. The
MC modules repeat the fairness of the parts, one condition per action that had one.

**Deadlock** is checked in every run but `generation` and `assertions_raises`, where the
search, the enumeration of mutants and the generation of assertions end; elsewhere the ends of
the programs are explicit stuttering actions (`Returned`, `Stopped`, `NoMoreRuns`, `Done`,
`Finished`, `AllOver`).

### Where the code differs from what it says

Six runs state what a comment, an option's help or an assertion says, and TLC shows that the
code does something else:

* `coverup_torn` (`CheckpointCanBeResumed`): the checkpoint is emptied before it is written;
  a kill in between leaves a file from which no later run can resume, and each of them fails.
* `executor_late` (`FinishedThreadHasResult`): a thread that names itself to the tracer after
  its own test has timed out makes the next test's thread die; `execute` then finds no result
  and raises its "Bug in Pynguin!". A test without statements has a timeout of zero.
* `testcases_stale` (`CachedResultIsCurrent`): the insertion after a rollback is not
  reported, so that a test which did not call the SUT to begin with keeps the cached values
  of its former self.
* `slicer_calls` (`SliceIsComplete`): whether the code object that is walked has an
  instruction in the slice is one flag for all frames, and walking into an earlier callee
  clears it; the call of the frame one is in again is then missing from the slice.
* `assertions_raises` (`ViolatedMeansDoesNotHold`): under mutation analysis the verifying
  observer is added twice; the outer one misses an exception that the inner one caught, and
  an expected exception counts as violated on every mutant.
* `distances_sets` (`ExactlyOneIsZero`): values that are neither less, nor equal, nor greater,
  such as two sets, make both distances positive; the tracer's assertion fails inside the code
  under test.

Others were met while modelling and have no run of their own; the properties above are
stated so that they hold beside them.

*Searches*

* MOSA cuts a first front larger than the population before the archive sees it, so that
  the only test for a goal can be lost (`mosaalgorithm.py:84-109`); hence the condition of
  `FoundMeansArchived`. DynaMOSA keeps the first front whole (`SelectionKeepsCoverage`).
* With an archive, the fitness that the whole-suite search reports can get worse, although
  coverage cannot; without one, coverage can fall although fitness cannot: `NeverFallsBack`
  says which of the two holds for which search. `evolve` asks for no resources while crossover
  and mutation keep failing (`wholesuitealgorithm.py:62-75`). `_update_archive` asserts that
  all goals are branch goals.
* Coverage that fell below the best and stays there is never a plateau
  (`stoppingcondition.py:246`): `PlateauMeansNoGain` has no converse.
* `MaxCoverageStoppingCondition` cuts `0.29 * 100` to 28, so that 29 % coverage is not at
  least 29 % (`stoppingcondition.py:202`). `progress()` can exceed 1, since limits are only
  checked between iterations, and falls when a plateau ends: then `shrink_population` makes
  room for more tests (`archive.py:301`).
* MIO's parameters start from the defaults on import, not from the configuration
  (`mioalgorithm.py:34-40`); if the two differ, the first change of `n` may go unnoticed, and
  the populations keep their first capacity while `n` is still the default. `CapacityIsN`
  allows for that, in the run and in the theorem.
* A covering test that passes can be replaced by one of the same length or shorter that
  raises (`archive.py:337`).

*Tests, suites, executions*

* Clones share their execution result; with two of them in a suite, post-processing shifts
  the position of the exception twice (`postprocess.py:143`). The run has `Clones = 1`.
* Neither `chromosome_length` nor the longer parent bounds a test, because calls bring
  statements for their arguments along (`testcasechromosome.py:95`, `208`).
* `_mutate_parameter` removes an optional argument and then sets it again whatever it
  decided (`statement.py:1137`, `1176`); a crossover whose tail holds a collection always
  fails; seeded tests are shared objects (`analyses/seeding.py:160`), so that whatever
  changes a test in place changes the seed.
* The fitness of a suite counts the code objects that the import executed once per test.
* The tracer's `executed_code_object` does not look at its flag (`execution.py:1101`), so
  that code objects which observers enter are traced; `ObserversTraceNoLines` says what is
  not. `temporarily_add_observer` of the type-tracing executor returns nothing (`2351`).

*Traces, fitness, control flow*

* The tracer's assertion also fails for NaN, for integers too large for a float, and for
  sized objects whose truth value does not follow from their length; `AllValues` leaves them out.
* `(predicate, 0.0) not in trace.true_distances` looks for a pair among keys
  (`computations.py:767`, `769`).
* A goal whose branch is missed by less than 0.00001 (`x == 1.0` with 1.000005) is covered for
  `is_covered` (`coveragegoals.py:241`), and not for the coverage and the fitness of suites,
  which ask for `== 0.0` (`computations.py:824`); the fitness of the goal is not zero either. The
  same value is cached as covered or not, depending on whether a test was first asked for its
  fitness (`computations.py:532`) or for its coverage of the goal. `FitnessIsReal` says which
  branches these are.
* Integers become floats before they are subtracted (`execution.py:1841`, `1858`): with
  2^53 + 1 and 2^53, `<=` has distance zero to both branches, and the tracer's assertion at
  line 1348 fails. `AreOrdinary` excludes two integers that become the same float.
* A control-flow graph without an exit fails an assertion (`controlflow.py:565`), endless
  loops have no post-dominators, and the label of an edge in the control-dependence graph can
  depend on the order of a set.

*Instrumentation and slicer*

* Dynamic seeding puts its probes where the branch probes have moved the instructions it
  looks for, other than its docstring says (`instrumentation.py:1712-1719`), and
  `startswith` with a tuple makes it raise.
* Probes for checked coverage read attributes once more than the code does, and call `id`
  and `type` by names that the module under test may have defined.
* The block that a traced jump names is an index of blocks that the branch adapter is still
  splitting; the slicer compares it with an index of blocks that are not split
  (`executionflowbuilder.py:371`). When branch and checked coverage are measured together, a
  jump across or out of a loop header is therefore not recognised, but taken for an exception,
  which ends the simulation of the stack: the slice then lacks instructions that the result
  depends on (in `LoopThenIf` the `LOAD_FAST` of the condition behind the loop).
  `SlicesAreSound` says which jumps these are and that nothing else makes a slice incomplete.
* Addresses of objects are kept from one test to the next.

*Types and module analysis*

* Merging two usage traces loses the types of arguments (`typetracing.py:144-155`), and the
  guess from a call of `append` is never made (`typesystem.py:1026-1042`).
* Types that are first seen in a type hint or at run time get no edge to their superclasses (a
  TODO, `typesystem.py:1293`): whatever a signature names and no module brings in is unrelated to
  everything but itself, as are the bases of a class whose module cannot be read. The cache of `get_all_types` keeps what was known before (`1333`).
* The filtered cluster takes an inherited `__init__` for one object; it cannot be built at all
  when a class inherits its `__init__` from Python code that is not instrumented, since
  `json.loads` then raises (`module.py:886`; the model has no such class). Bases of classes in
  modules on the blacklist are analysed although a comment says otherwise (`module.py:96-100`).
* `shim_isinstance` is not restored when an exception passes it.

*Assertions and mutants*

* With the strategy `RANDOM` for mutants of higher order, the number of mutants that is
  announced is not the number that is made (`controller.py:86`). Without mutants, all
  assertions on values are removed.

*CoverUp and the driver*

* `--max-attempts n` prompts up to n + 1 times (`coverup.py:537`).
* A function that does not exist, or arguments that are no JSON, raise out of the chat and
  end the whole run (`llm.py:322-323`); the comment there asks whether to limit the rounds.

## 4. What is proved

`tlapm` checks every proof to the last leaf. A theorem holds for all values of the constants
that satisfy the assumptions named with it, and so says more than a run: the runs show that
the formulas hold on instances small enough to enumerate, and that they can fail (the
mutants).

### DynaMOSA and MOSA (`DynaMOSAProofs`)

DynaMOSA, for every set of tests and goals, every rooted goal graph and every population size:

| theorem | statement |
|---|---|
| `TypeCorrect` | `[]TypeOK` |
| `ArchiveIsConsistent` | `[]ArchiveConsistent` |
| `FrontierIsAlwaysRight` | `[]FrontierIsRight` |
| `PopulationIsNeverEmpty` | `[]PopulationNeverEmpty` |
| `PopulationIsAlwaysArchived` | `[]PopulationIsArchived` |
| `CompletenessIsReal` | `[]CompleteMeansAllCovered` |
| `SelectionIsSafe` | `SelectionKeepsCoverage` |
| `ArchiveImproves` | `ArchiveOnlyImproves` |
| `Refinement` | `ImplementsTestSearch`, the abstract search under the mapping above |

*The invariant.* `Inv` is the conjunction of the type invariant and the invariants of the
table except `CompleteMeansAllCovered`, strengthened by `Guarded`: where evolve is under way
something is uncovered, and where the search is complete nothing is. None of the parts is
inductive alone. `FrontierIsUncovered` needs `ArchiveConsistent` (new goals are uncovered
only if the archive holds nothing for goals it does not know), `PopulationIsArchived` needs
`FrontierIsUncovered`, and `PopulationNeverEmpty` needs `Guarded`, because selection with no
goal would let nobody survive.

*The argument.* `UpdatesEntry` says what `archive.update` does to one entry.
`ZeroFrontHasBest` and `BestCovers` say that the first front covers what the union covers;
`FirstFrontSurvives`, that DynaMOSA never cuts it. The demanding actions have a lemma each
(`UpdateRoundInv`, `SelectInv`), the rest is in `NextInv`. `CompletenessIsReal` follows from
the invariant and `GraphIsRooted`: when nothing is uncovered, the covered goals hold the
roots and are closed under `Children`, so they are all goals.

*Assumptions.* `GoalsFinite`, `RootsType`, `ChildrenType`, `FitnessType`, `SizeType`,
`NoTestIsNoTest`, `PopulationSizeType` and `MaxOffspringType` give the constants their types.
`GraphIsRooted` says that every goal can be reached from the roots. The code asserts only
that goals without predecessors are roots; that the graph it computes is rooted is part of
`GoalsAreActivated`, which is proved as well, for all code objects (`AnalysisProofs`).

MOSA, for every set of tests and every finite set of independent goals:

| theorem | statement |
|---|---|
| `FoundIsArchived` | `FoundMeansArchived` |
| `MOSARefinement` | `MOSAImplementsTestSearch` |

The inductive invariant is `ArchiveIsRight`: all goals are objectives, uncovered exactly as
long as the archive has no test for them, and archived tests cover their goals.
`ShownImproves` says what showing a set of tests to the archive does to it. The first theorem
needs that a first front that fits survives as a whole and holds a best test for each
uncovered goal (`SurvivorsWereRanked`, `MOSABestCovers`). Assumptions: `IndependentGoalsFinite`
and `IndependentFitnessType`, next to those above.

### MIO (`SearchesProofs`)

For every set of targets and tests, all parameters and any number of iterations:

| theorem | statement |
|---|---|
| `PopulationsAreAlwaysSound` | `[]PopulationsAreSound` |
| `BestIsAlwaysKept` | `BestIsKept` |

`PopulationsAreSound` is inductive with the types; the work is in the operators. `SortedSorts`
shows that counting how many solutions precede one puts them in order; `WithIsOrdered` that
what `add_solution` leaves is ordered, has room and keeps its best; `ShrunkIsOrdered` the same
for a population that shrinks. That the capacity is `n` needs care: an algorithm whose `n`
still has its default may have the populations it began with. Assumptions: `HType`,
`ParametersType`, `NoTestIsNone`.

### Suites and stopping conditions (`SearchesProofs`)

For whatever coverages a search reports and whatever limits it has; for every set of tests,
goals, raising and timed-out tests, and every population size:

| theorem | statement |
|---|---|
| `PlateausAreAlwaysReal` | `[]PlateausAreReal` |
| `SuitesAreAlwaysSound` | `[]SuitesAreSound` |
| `ResultsAreNeverLost` | `ResultsNeverFallBack` |

*Stopping.* A plateau is a statement about the past, a condition only has counters.
`CountersAreRight` ties them to `history`: the best coverage is from before the reports that
are counted (`PlateauIsReal`); the reports counted as stable, and the one before them, have
the last percentage, unless that is zero, which the counter begins with (`MinimumIsReal`).

*Suites.* `SuitesAreRight` has four parts: the archive, what is reported, the population, the
random algorithm. What makes results stay is that the cached fitness of every suite in the
population is what it would be computed to be (`IsValued`), although the goals that count
change under way: `Evolve` recomputes it, and the elite is carried over from a population that
is ranked (`IsRanked`). `MoreTestsAreNoWorse` and `ZeroCoversAll` are the lemmas about the
fitness of suites, `SuitesAreSorted` the one about ranking.

Assumptions: `B!ConstantsType`, `W!ConstantsType`: types, finite sets of goals, and an elite
that is not larger than the population.

### Tests and suites (`ExecutionProofs`)

For every set of seeds and partners, every bound and any history of operations:

| theorem | statement |
|---|---|
| `ValuesAreAlwaysCurrent` | `ValuesAreCurrent` |
| `TestsAreAlwaysWellFormed` | `TestsAreWellFormed` |
| `MutationIsAlwaysSound` | `MutationIsSound` |

*Caches.* `CachesAreCurrent`: a test that claims to be unchanged remembers nothing but an
execution of its present version under the present instrumentation, and a suite that claims
so holds only values that its tests would give now, with the goals that still count. Being
asked is the difficult step, since it executes tests, clears flags and fills caches in turn
(`RunInSuiteIsCurrent`, `AskedSuiteIsCurrent`).

*Tests.* `TestsAreRight`: the test, its backup and the offspring define each variable once and
before its uses, and an unreported change changed nothing so far. The operators are lemmas:
a part of a test that is closed under what it uses is a test (`PartIsTest`), so is a test with
statements put in between (`SplicedIsTest`); taking back by counting gives the former test
(`RollbackRestores`); what nobody needs can go (`NeededIsClosed`). `ResultIsRight` says of a
result that it is one of a test and that an exception is at a call in it; a call is needed, so
that whatever post-processing removes is before the exception (`ExceptionIsLast`).

*What a proof found.* That the exception stays in the last statement does not follow from seeds
that call the module under test, as an earlier form of the property had it: a test that was
chopped before its call (at an exception) and executed again can then grow without being
reported, just as a foreign seed does in `testcases_stale`; it takes four operations, one more
than the run allows. With the stale result, a test is truncated at a wrong statement.
`ExceptionStaysLast` is now about results that are of the test.

Assumption: `T!ConstantsType`, that seeds and partners are tests.

### The test cluster and guesses of types (`GenerationProofs`)

For any modules that include each other, classes, nested code objects, observed and asked
types; for any parameters and any use of their proxies:

| theorem | statement |
|---|---|
| `AnswersAreAlwaysCurrent` | `[]AnswersAreCurrent` |
| `UncoveredIsAlwaysOffered` | `[]UncoveredIsOffered` |
| `GuessesAreAlwaysUseful` | `[]GuessesAreUseful` |

*The cluster.* An answer that is cached is computed from an index, from types to objects, which
observations change. `ClusterInv` therefore carries that this index is the inverse of the
types that the objects are believed to return (`GeneratorsAreRight`), through the analysis as
well: before the search, these types are the declared ones (`BeforeSearch`), so that analysing
an object twice does no harm. `FilterIsRight` says that whatever is found for an uncovered
target is offered with that target; `FoundAround`, that the innermost object around a code
object is found if there is any.

*Recursion.* The search for an enclosing object is a recursive function on code objects.
`RecursionExists` shows that a function with such a definition exists, because each code
object is registered after the one around it, and `AllUpTo` is induction by way of the least
element of a set of counterexamples: neither takes an operator as a parameter.

*Guesses.* `GuessInv`: a parameter's guesses are few, different, and each is a type of a useful
kind. `RefinedIsUseful` shows that refining a guess keeps that, `UpdateKeeps` that dropping
the oldest of a full list does.

Assumptions: `C!WorldsType`, `C!CodesType`, `S!ConstantsType`: what a world names exists in it,
and code objects are registered after those around them.

### Classes and subtypes (`TypesProofs`)

For any modules and classes, in whatever order they refer to each other, and any types:

| theorem | statement |
|---|---|
| `TypesAreAlwaysRight` | `[]TypesAreRight` |

*The graph.* `GraphIsRight`: the links are those of the classes that were analysed and not
skipped, and the bases of these were analysed or wait for it. When nothing waits, the classes that
were analysed are closed under their bases, but for those that are skipped; so the superclasses
that the graph shows of one are its real ones if all above it were read, and some of these
otherwise, and a class that only a hint named has none (`KnownAreClosed`). What is found by following edges is characterised as the least closed
set (`DescendantsAre`).

*Attributes.* `PushIsRight`: a class keeps its own attributes but for those that came from above,
nothing comes that no superclass has, and a class that has not passed on all it has, or has
not got what one above it passes on, is waiting to be visited. So whatever order the work list
has, at its end each class got all that is above it (`ClassesKnown`: the subclasses of one
that has an attribute have it, by closure), and `attributes` leads to the topmost classes, of
those that were analysed. A class that is only named has no attributes at all.

*Subtypes.* Both checks are recursive on pairs of types. They have a solution, since relating
more parts never makes fewer types related: the least relation closed under the rules
(`SubtypesAre`, `RelatedGrows`). Types are made of others level by level (`MadeOfIs`), and
reflexivity, weakness and transitivity are shown along these levels (`AlwaysReflexive`,
`AlwaysWeaker`, `AlwaysTransitive`). Transitivity through two generic collections needs that no
generic class is above another one, directly or not (`GenericsAreApart`), or arguments would be
compared in the one check and dropped in the next. With `Any` it does not hold: everything is a
subtype of `Any`, and `Any` of everything.

*What the model needed.* Which types have no `Any` in them, and which elements of a sequence are
new, are now written without recursion on records and without `SelectSeq`.

Assumptions: `C!TypesType`: types are finite and closed under their parts, unions are flat and
collections have as many parameters as `_fixup_known_generics` gives them; `C!WorldsType`, which
says here that classes exist, none is above itself, the built-in collections have only
`object` for a base, and the numbers are among the built-in classes.

### Assertions (`GenerationProofs`)

For any tests, objects that refer to each other, runs with any exceptions and timeouts, and
mutants:

| theorem | statement |
|---|---|
| `AssertionsAreAlwaysTrue` | `[]AssertionsAreTrue` |
| `RelevantAssertionsAlwaysStay` | `RelevantAssertionsStay` |

*The invariant.* `AssertionsInv` says of each test what its lists of assertions come from
(`ListsAreOf`): the run it was recorded in, and nothing but what the observer of that run could
state. An exception is asserted alone, and nothing is recorded after it; so no list hides what
a later run finds, and whatever comes before an exception was executed without one. While
recording, the last assertion about a reference is true (`LatestIsTrue`): something that is not
asserted again is still what it was at the first of the statements since which it has been
observed without a break. While filtering and afterwards, what is left holds in the run that
filtered it (`HoldAfter`). `ResultsAreOf` ties what was reported of a mutant to the assertions
as they were when it ran; they do not change until the last mutant has run.

*The argument.* `AddAssertionsForIs` says what the generation leaves after each statement: all
that is new there, as long as there is room, and room only shrinks (`SizeGrows`, `FreshIs`), so
that a test which is not full in the end lacks nothing. `VerifyIs` says what a verified run
reports: exactly those assertions up to the end of the run that do not hold (exceptions apart,
which one more observer may catch). `LeftIs` and `RemoveAssertionsIs` say that removing
positions one by one, the last first, leaves the others as they are. `RelevantIs` combines the
two for what mutation analysis keeps.

*What a proof found.* Two `CASE`s had guards that overlap, for which TLA+ leaves open which
branch is taken (TLC takes the first): what is observed after a statement that raises and calls
nothing, and subtyping between `Any` and a union. Both are now `IF`s in the order of the code.

Assumption: `A!ConstantsType`: a run has a step for each statement, and objects have finitely
many fields, which are objects of the same run.

### Mutants (`GenerationProofs`)

For any syntax tree, mutation operators that apply anywhere in it, strategy and order of mutants:

| theorem | statement |
|---|---|
| `MutantsAreAlwaysSound` | `[]MutantsAreSound` |

*The invariant.* That the tree is the original but for the mutations at work is not inductive:
what a generator leaves when it is resumed depends on what it copied long before.
`GeneratorsAre` therefore says of each suspended generator that its copies show what the
generators before it had made of the lists (`CopyIs`), and nothing of its own mutation.
`AllApart` says that the mutations at work and those that wait are of different nodes, none
above another; so a mutation finds its node, although siblings have been replaced.
`MutationsGetTurns` keeps a mutation either left or used.

*The argument.* `NextGroupIs` shows for every order, by induction along it, that the strategies
pick mutations that are apart. `LastPutsBack` is the heart: the last generator writes whole
lists back, and these lists hold all mutations of the generators that are still suspended, but
not its own, since of the nodes on its path only the mutated one is in that place (`PathIs`,
`PlaceIs`). It does not hold for any generator but the last; TLC shows what happens when the
first one is resumed instead (`FinishFirst`).

*What the model needed.* The set of nodes above a node is a recursive function along parents,
which have smaller numbers (`AboveIs`); lists are filtered by flattening (`AmongIs`,
`FlattenIs`), as the prover has no definition of `SelectSeq`.

Assumptions: `TreeType`: every node but the module is in one place, of a node met before it
(`ParentNodeTransformer` copies nodes that the parser shares); `OrderType`.

### Fitness and distances (`AnalysisProofs`)

For all code objects that the analysis accepts, any number of tests, any branches, loops and
exceptions in them, any distances and any threshold; for integers of which no two become the same
float (so all up to 2^53), strings of any length, and collections of them:

| theorem | statement |
|---|---|
| `FitnessIsAlwaysReal` | `[]FitnessIsReal` |
| `FitnessAlwaysImproves` | `FitnessOnlyImproves` |
| `ZeroAlwaysMeansTaken` | `[]ZeroMeansTaken`, if the values are `AreOrdinary` |

*The invariant.* `FitnessInv` has `TraceIsRight` for three traces: of the running test, of the
import, and of each test that ended. A branch was taken if and only if its distance is zero; a
predicate that was not executed has no distance; one that was has a branch with distance zero,
and its code object is entered, which needs that this holds of any code that is being
executed. `MetaIsRight` is about what the instrumentation registered: the path in the
control-dependence graph from one predicate to another is not empty (`PathLengthType`), which
keeps a branch that was missed from having fitness zero.

*The argument.* `FitnessIs` reads fitness zero as distance zero: the least candidate is at
level zero only if its own predicate was executed, and normalising a distance keeps zero, and
only zero, at zero (`OneIsZero`). `FitnessFalls` is that a trace with smaller distances and larger
counts has no greater fitness. Covered by a threshold is a statement of its own (`NearIsRight`,
`UpdatedIsNear`): a distance below it is that of a branch that was taken, or missed by as
little at one of its executions. For a suite, `MergedAllIs` and `OneMoreIsMerged` say what merging
traces gives, `SuiteFitnessIs` and `SuiteFitnessFalls` the same about the sum over all branches:
both are recursive functions on natural numbers, which exist by `RecursionFromExists` and are
followed by least counterexamples.

*Distances.* `ComparisonIsRight` goes through the operators, `TruthIsRight` is about truth values.
Two strings have distance zero if and only if they are equal: `LevenshteinIs` shows it by rows,
a cell being zero exactly on the diagonal of a common prefix. The order of strings is that of
the first difference (`OneComesFirst`). The hypothesis `AreOrdinary` is what the tracer's own
assertion needs (`distances_sets` shows that it fails otherwise): no NaN, no two integers that
differ and become the same float, sets that are comparable, sized objects whose truth value follows from their length. TLC checks that the
values of the run are ordinary (`Ordinary`).

Assumption: `B!ConstantsType`: code objects are finite sequences of blocks, none of which has the
number of the artificial exit (`sys.maxsize`), the distance of the branch that is not taken
is positive (which `ZeroAlwaysMeansTaken` is about), and `Unit` and `Close` are as well.

### Control dependence and goals (`AnalysisProofs`)

For all code objects that the analysis accepts, with any number of blocks and handlers, and any
executions of them:

| theorem | statement |
|---|---|
| `DependencesAreAlwaysRight` | `[]DependencesAreRight` |
| `GoalsAreAlwaysActivated` | `[]GoalsAreActivated` |

*Dominance.* The loops of the code over graphs are fixpoints. `ReachableIs` reads one as the
least set that edges do not lead out of, `CutDown` as the greatest part of a set that is not cut
any more; so the post-dominators of a node are those that every way to the exit passes
(`PostDominatesIs`). They are in one line (`DominanceIs`), each but the exit has a first one
(`ParentExists`), and the tree that the code builds has it for a parent (`TreeIs`). The least
common ancestor and the nodes on the way to it are then intervals of that line (`AncestorsAre`),
so that the nodes labelled for an edge are those that post-dominate its end and not its start
(`LabelledAre`), which is control dependence as it is defined by paths (`DependsIs`).

*Goals.* What is registered is this relation without nodes that have no predecessor
(`PrunedIs`, `RegisteredIs`). `DownFrom`: every node depends on the start over some others, so
that no goals wait only for each other, and the walk down the goals comes to each (`RootedAre`).

*Executions.* `StepsInv` has, for the block that is executed and for every handler that is set
up, that it and all blocks that come after it on every way to the exit are active: roots, or
dependent on a branch that was taken (`Ready`). `StepDown` is the step from a block to one of its
successors: what comes after the second on every way does so after the first, or depends on the
first by the very branch that was taken.

### CoverUp (`ScriptsProofs`)

For any finite set of segments, any number of runs, every limit and option, with kills and
interrupts between any two steps:

| theorem | statement |
|---|---|
| `SegmentsAreAlwaysSound` | `[]SegmentsAreSound` |
| `NothingIsEverLost` | `NothingIsLost` |

*The invariant.* `Inv` joins what each place has to remember. `NumbersDiffer`: no two test
files share a number, enabled or disabled; without it a renamed test could replace another
one. `NotYet` and `Coroutines` tie the segments' program counters to the phase of `main` and
to `done`; `Recorded` ties `done` to what a complete checkpoint says, which `PaidOnce` needs
after a restart. `GainedIsKept`: a segment that gained coverage and is done has a whole test
on disk, and before it is done its coroutine is still about to write that test; without the
second half, the checkpoint that another coroutine writes meanwhile could not be shown to be
right (`CheckpointIsSound`). `Handled` carries the end of prompting over to success.

*The argument.* One lemma per group of actions: beginning a run (`StartInv`), disabling
failing tests (`DisableTestsInv`), the rest of `main` (`MainInv`), the two writes of a test
(`TouchInv`, `WriteInv`), the rest of a coroutine (`CoroutineInv`), and stopping (`StopInv`).
`NothingIsEverLost` follows step by step: a checkpoint that is dumped holds all of `done`,
which holds all that was `recorded`; a file leaves only by renaming, to a number that
`NumbersDiffer` shows to be free.

*Assumptions.* `SegmentsFinite`, `NumbersType`, `FollowUpsType`, `OptionsType` and
`NoneIsNoSegment`, types all of them.

### The driver, chats and segments (`ScriptsProofs`)

For every budget, choice of iteration types and result of the tools; for any number of chats,
every limit, and any answers; for any file of nested functions and classes:

| theorem | statement |
|---|---|
| `DirectoriesNeverDriftApart` | `[]DirectoriesAreSound` |
| `WorkAlwaysSurvives` | `WorkSurvives` |
| `ConversationsStayWhole` | `[]ConversationsAreWhole` |
| `GapsAreAlwaysSegmented` | `[]GapsAreSegmented` |

*The driver.* `DirectoriesAreSound` (types and the agreement of the directories) is inductive.
That tests survive needs one more fact: files are from iterations that have begun
(`FilesAreFromThePast`), so that what a tool overwrites makes room for something newer.
Iterations end with a copy after a merge, and `MergedLeaves` says that the merged file is
gone again by then. `WorkAlwaysSurvives` joins this with the invariant of CoverUp.

*Chats.* `ChatInv`: a chat that has not raised has a whole conversation, in which every call is
answered, and one that has sent its messages found room for them in the limiter.
`AnsweredIsWhole` is the step in which a round of calls is answered.

*Segments.* `SegInv` says what is true between two lines of interest: every segment is what was
found for one, segments are apart, and the lines dealt with are in segments. What is found for
a line is the outermost element that may be a segment (`FoundExists`); since elements nest, two
of them are the same or apart (`FoundApart`). So the segments that are made of them in the end
share out the missing lines and branches (`SegmentsAreGood`).

`DirectoriesNeverDriftApart` compares the directories without their diversity tests: the
diversity step does not write to CoverUp's directory, which replaces the other one after
CoverUp's next iteration (`noplateau.sh:209`), and they are gone.

Assumptions: `N!ConstantsType`, `C!ConstantsType`, `S!ConstantsType`: types, and that the
elements of a file nest.

### The executor (`ExecutorProofs`)

For any number of executions and statements, and whatever the code under test raises,
swallows or hangs in:

| theorem | statement |
|---|---|
| `ThreadsAreAlwaysApart` | `[]ThreadsAreApart` |
| `TimedOutThreadsStop` | `TimedOutThreadStops` |

*The invariant.* A result is taken from a trace that grew over many steps, beside threads that
may be named at any moment. `TracesAreWhole` therefore says at each place of a thread how much
its trace holds; after a statement this is known only if the thread is still named, because it
was traced only if it was named then, and it is named just once. `FlagsAreRight` (the tracer
is disabled exactly while observers work) gives `ObserversTraceNoLines`. `CurrentIsNamed` says
that while nobody is late, the thread of the running test is named or about to name itself,
and no other is; this is what `OnlyLateThreadsKill` needs. `TimedOutIsNotNamed` is the same
from the side of a test that timed out, and gives the second theorem. `Unbegun` keeps the
executions to come out of all this.

*The argument.* `ExecuteInv` and `EndInv` are the caller's steps. A thread's step changes only
the thread's own part (`Alone`); `AloneInv` shows once that the invariant then holds again if
that part does, and `ThreadInv` shows that part for each step.

*Assumption.* `BoundsType`.

### What is only model-checked

*Liveness* (`UpdateEnds`, `SearchEnds`, `PromptsEnd`, `Stops`): proofs of liveness under
fairness are beyond the prover.

*What two machines compute, for every input*: instrumented blocks
(`InstrumentationIsTransparent`, `ReportsAreTrue`) and slices (`SlicesAreSound`). The induction
theorems of the library take operators, which the provers cannot instantiate. Induction by least
elements, and least or greatest sets, get around that elsewhere. These two compare runs of two
machines instead: a stack machine run on a block with its run on what five adapters make of it, a
simulation in reverse with what happened.

## 5. What is not modelled

*Components:* the pools of constants and the parsing of existing tests (`seeding.py`,
`constants.py`: values and syntax that no property tells apart); the export of tests to text;
the entry point, which sets the components up one after the other, and the configuration;
statistics; the experiment scaffolding outside the container and the container's operating
system.

*In the modelled parts:*

* searches: which test or value a random choice makes (any may come); rounding of floats in
  MIO's parameters and closeness; the resetting of archives and conditions, which no search
  calls;
* tests: assignment statements, which nothing in `src/` creates; whole random tests are part
  of what a generation may breed; the minimisation of suites after the search;
* suites: goals for lines and checked coverage, tests without statements;
* executor: the module provider, and the naming of values for assertions;
* control flow: generators, `async` code and `match`, whose jumps are like those at hand;
* instrumentation: the nesting of code objects, the import hook, a seeding probe that raises;
* slicer: addresses of objects, attributes, closures, imports, exceptions and the slices of
  assertions;
* types: conversion of hints, generics other than the built-in collections, numbers of
  arguments, statistics on guesses; syntax trees read for documentation;
* assertions: their text; how a value becomes one that can be asserted;
* CoverUp: the text of prompts and answers, `--disable-polluting` (the same renaming as
  `--disable-failing`), the counters F, U, R and the cost, which are only displayed, and the
  measuring of coverage itself, of which any result may come that the tests on disk allow;
* driver: which functions `remove_failing_tests.sh` deletes inside a file.

## 6. Plan

Done, with proofs: the searches and what they promise; CoverUp, its chats and segments, and
the driver; tests, suites and their caches; the executor; control dependence, goals, fitness and
distances; the test cluster, classes and subtypes, guesses of types, mutants and assertions.
Done, model-checked: instrumentation and slices.

What could follow, in this order:

1. Proofs of what is only checked: instrumented blocks, probe by probe.
2. Goals for lines and checked coverage in `Caches` and `BranchFitness`.
3. Attributes and imports in `Slicer`, and the slices of assertions.
4. Deletion of failing tests by name in the driver.
