# PBTune in TLA+

PBTune tunes PostgreSQL. A strategy (population-based training, Bayesian
optimization, or a Latin-hypercube design) proposes knob configurations; each is
applied to a PostgreSQL instance of its own, a benchmark is run, the metrics are
scored, and the scores drive the next proposals. The instances of a round run at
the same time, on one host (kept in lockstep by barriers) or on a fleet of devices.
What a session found is saved as a trace, compared with the defaults by a
separate evaluation, and a campaign runner strings sessions and evaluations
together over days.

This directory holds the specifications, the TLC models that check them and the
proofs that TLAPS checks. Paths below are relative to the repository.

## 1. Inventory

| component | source | state | operations | modules |
|---|---|---|---|---|
| generation barriers | `src/tuners/engine/barriers.py` | 17 cyclic barriers, `_enabled`, `_broken` | `wait`, `drain_remaining`, `abort` | Lockstep, GenerationBarrier |
| worker evaluation | `engine/orchestrator.py` | sub-step, `last_completed_barrier`, handler | 17 sub-steps, two handlers, `finally` | WorkerEvaluation; what they do to the database: Instances |
| generation runner | `pbt/population.py`, `lhs_design/tuner.py`, `bo/cotenant.py` | batches, futures, results read | submit, collect, abort, join | WorkerEvaluation |
| PBT population | `pbt/population.py`, `pbt/evolution.py`, `pbt/worker.py` | configurations, metrics, scores, best, stagnation | the phases of `train_generation` | Population, Scoring |
| PBT tuner | `pbt/tuner.py` | population, history | failure mapping, recovery, `step`, record | WorkerEvaluation, Instances, TraceAudit, TunerLifecycle |
| tuner lifecycle | `tuners/base.py`, `utils/session_*` | rounds, best, history, trace | setup, loop, interrupt, teardown, write | TunerLifecycle |
| BO loop | `tuners/bo/*` | log, costs told, anchors | pilots, calibration, trials | BOLoop |
| LHS loop | `lhs_design/tuner.py` | design, records, best | batch, record | WorkerEvaluation, TunerLifecycle |
| activation | `engine/activation.py`, `restart_policy.py`, `utils/applicator.py` | written and active values, forced restart | write, reload, restart, defer, verify | Instances |
| environments | `utils/environments/*` | instances, snapshot and manifest | set up, snapshot, restore, rebuild, clone, recover, tear down | Instances |
| distributed fleet | `tuners/distributed/*` | agent lock, backend, requests in flight | bootstrap, `/setup`, `/run_eval`, `/reset`, `/cleanup` | DeviceFleet |
| knob space | `knobs/*`, `bo/search_space.py` | configurations | draw, perturb, repair, serialise, encode | KnobSpace |
| resources | `utils/hardware_info.py`, `utils/resources.py` | share of the machine | partition, check | Resources |
| scoring | `utils/scoring/*`, `engine/feature_refinement.py` | anchors, features, weights, log cursor | fit, expand, refine, rebuild, rescore | Normalizer, Scoring |
| benchmark executors | `benchmarks/*`, `engine/reliability_gate.py`, `maintenance.py` | tables, stamps, flat files, counters | validate, prepare, execute, gate | Benchmarks |
| evaluation runner | `src/evaluation/*` | runs per arm, pairs | repetitions, pairing, Holm | Comparison |
| experiment runner | `scripts/experiments/*`, `utils/cpu_perf.py` | manifest, stash, device jobs, CPU policy | phases, reconcile, publish, clean up | ExperimentRunner |
| traces and audit | `analysis/pbt_invariants.py`, `data_loader.py`, `utils/session_assembly.py` | records of the rounds | write, audit, load | TraceAudit |
| SCALPEL | `analysis/scalpel*.py` | hit counts, importances, tallies of the subsamples, result | filter, gate, cut, repeat, audit | Tiering |
| tier files | `analysis/tier_generator.py`, `scripts/analyze_knob_importance.py`, `knobs/preprocess_knobs.py`, `knobs/knob_loader.py` | JSON of tiers and diagnostics, one CSV per tier | export, cut, load | TierFiles |
| CLIs, logging, probing, plots | `tuners/cli.py`, `utils/logger/*`, `visualization/*` | - | parsing, formatting | not modelled |

**How they interact.** `BaseTuner.run` calls `step` once per round
(TunerLifecycle). PBT's `step` calls `Population.train_generation` (Population),
whose first phase submits `PBTTuner.evaluate_worker` per worker to a thread pool,
batch by batch (WorkerEvaluation). The threads share a barrier set per batch; the
main thread alone touches the population. Inside an evaluation the orchestrator
writes, activates and verifies the configuration on the worker's instance
(Instances), runs the benchmark and gates its metrics (Benchmarks). Scores are
computed with anchors and weights that move between the phases of a generation
(Scoring over Normalizer); LHS and BO use the same scorer (BOLoop). Under distribution
the same calls go over HTTP to an agent per device (DeviceFleet). What is proposed
comes from the knob space on the worker's share of the machine (KnobSpace over
Resources). The records of the rounds are audited and loaded later (TraceAudit); SCALPEL
turns the rows of many sessions into tiers of knobs (Tiering), which reach the knob space of the
next ones through files (TierFiles);
the best configuration is evaluated against the defaults (Comparison), and the
campaign runner starts all of it as commands (ExperimentRunner).

**What is hard** is listed line by line under `hazards` in `PROJECT.json`, each with the
property that would see it go wrong or a note why none does. Further ones
that no property covers, or that the code simply has, are in section 6.

## 2. Modules

Each module's header says what its data stand for; `map` in `PROJECT.json` ties
every definition to its lines. MC modules only give values to constants.

**Lockstep, GenerationBarrier, WorkerEvaluation.** `Lockstep` is the abstract promise:
threads of a team take numbered steps in order and none leaves a step before its
team has reached it. `GenerationBarrier` counts the entries of each thread into each
cyclic `threading.Barrier`, which is what makes a *second* drain visible: it is an
entry no peer ever matches. `WorkerEvaluation` adds the threads: `pc` and `at`
(sub-step, barrier, drain or handler), `last` (`last_completed_barrier`), the main
thread collecting futures, batches of different sizes, and a `mode` fixed per
behaviour (strategy, executor, `--sync-workers`, the sub-steps that may raise). It
refines `Lockstep` by a mapping (`ImplementsLockstep`).

**Population.** One action per phase of `train_generation`: `Evaluate`,
`RescueDeadWorkers`, `UpdateMetricRanges`, the three ways through `_finalize_scores`,
`DetermineOverallBest`, `RecordGeneration`, `ExploitExplore`, `NextRound`. A
configuration is the number of adoptions of its worker; a rescore is an arbitrary new
score for each healthy worker, which covers what any ruler computes.

**Normalizer, Scoring.** `Normalizer` is the quantile normalizer of one metric, with exact
percentiles in integers: fitting, outlier trimming, saturation, expansion, drift.
`Scoring` EXTENDS it and composes it with the feature refinement, the
weights (a logit per metric), the rebuilt scorer, and the order in which a generation uses them. A
*ruler* is a scorer's context with the anchors its normalizer has now; `ruler[w]` is
the one worker w's score was computed with.

**Instances.** The instances of a session and what an evaluation does to each. An instance has
a container or process, data, `postgresql.auto.conf` and the active configuration;
two knobs stand for postmaster and reloadable ones. Actions cover writing knobs one by one,
the restart decision of three tuning modes, deferred and forced restarts, restore, rebuild,
verification, measuring, recovery, clones, and a session's set-up with reuse, recreation and
baseline snapshot. Sessions follow one another on what the last left behind. `stage`
and `todo` use what `WorkerEvaluation` establishes: workers take a part together.

**DeviceFleet.** The coordinator's calls (`call[w]`) and the agents' handlers (`handlers[w]`):
a request given up on stays as an orphan handler and runs when it gets the agent's
lock. `got[w]` remembers the sessions whose set-up a device measured under.

**BOLoop.** The iteration log, the costs told to SMAC and the best, all scores of anchors
that are refitted; `worth[i]` is what trial i scores on the present ones. SMAC's surrogate
is a free choice.

**TunerLifecycle.** `BaseTuner.run` for the four ways a round is evaluated, with Ctrl-C at
every step, including a second and third; joins, teardown, assembly and the write.

**Comparison.** `ComparisonRunner._run_single` step by step, for every arm and repetition,
with failures, teardown whose errors are swallowed, interrupts, pairing and Holm.

**ExperimentRunner.** One experiment: seeds, phases, the manifest (whose moves through the git
stash are modelled), remote phases that outlive the coordinator, receipts and modification
times, publication, fleet and CPU clean-up, crashes and re-invocations.

**Resources, KnobSpace.** `Resources` divides the machine; `KnobSpace` handles a configuration
drawn, perturbed, repaired, serialised as fractions, restored on other hardware and
encoded for the optimizer. One knob of each kind stands for its kind, with real
ranges scaled down. An operation yields *every* value the code may draw.

**TraceAudit.** Generations that write records as the tuner does (after rescue and
evolution), every check of the audit, and the loader's rows. A score is the throughput times 2, after calibration times 5,
and lives from 6 (`dead_config_threshold`) on: four values of throughput are dead or alive on both. `measured` and
`origin` remember what the records do not say.

**Tiering, TierFiles.** `Tiering` is `scalpel_tier`: the nuisance filter, BORUTA iterations (which
knobs beat their shadows is a choice), the Benjamini-Hochberg gate on exact binomial counts, the
Lorenz cuts, the sweep of thresholds, the subsamples in the order they end. `TierFiles` EXTENDS it with
the three commands that write and read the files of one workload, and their deaths between two writes.

**Benchmarks.** Three drivers on databases that outlive sessions. A table is the size it was
loaded for and whether all rows are there; a session is killed at any step, with its child
processes. `tally` remembers what succeeded, whatever the metrics say.

Some modules keep a history variable, named in their comments
(`evaluations`, `booted`, `got`, `tally`, `shown`, `measured`): it guards nothing.

## 3. Runs

| run | bounds | question |
|---|---|---|
| `evaluation` | 3 workers on 2 threads, every strategy, both executors, a failure anywhere a handler drains once | lockstep refinement, overlap, nobody stranded, every result read, termination |
| `population` | 2 workers, 4 generations, calibration at 4 samples, patience 2 | best, donors, crashes, cooldown, stagnation |
| `scoring` | 2 workers, 4 rounds, window 6 readings, symmetric workers | one ruler, stable weights, honest tables |
| `bo_loop` | 5 trials, 2 pilots, patience 2 | scores of three places on one set of anchors |
| `instances_sessions` | 2 workers, 2 backends, 3 modes, 2 sessions, 1 fault of 8, a value PostgreSQL does not start with | what is measured is what is credited; baseline; forced restart; healing |
| `fleet_sessions` | 2 devices, 2 sessions, current and silent builds, 3 faults of 6 | orphan requests, forced restart, a session ends |
| `tuner_lifecycle` | 2 workers, 4 strategies, 3 rounds, 3 Ctrl-C | what is stopped, counted, saved |
| `comparison` | 3 arms, 3 repetitions, 2 failures, 3 p-values in all combinations | pairs, isolation, rubric, Holm against closed testing |
| `experiment_campaign` | 2 seeds, local, LHS and distributed, 2 invocations, 2 faults of 5 | manifest, remote results, kept results, machines, host |
| `knob_space` | 7 small tiers, 3 machine profiles, every pair of operations | repair, overcommitment, perturbation, serialisation, encoding |
| `analysis` | 3 workers, 3 generations, 1 of them faulty; 3 knobs, 5 iterations, 3 importances, 1 subsample; 4 commands | what the audit says against what happened; whether gate and cuts are the published procedures; which tiers load |
| `benchmarks` | 1 worker, 3 sessions of 6 profiles, 3 failures | what is accepted as loaded; what the gate lets pass |

*Why the bounds are enough.* Three threads on two give a full batch and a trailing one
of a single thread, for which the barrier is trivial; the seventeen barriers are not cut
down. Four generations are the fewest in which a worker with `ready_interval` 2
exploits twice, and hold a recalibration with a comparison across it; score scale 0..3 with
threshold 2 has two dead and two viable values, so ties and order occur on each side.
`MinSamples` (for `max(20, 5N)`), `Patience` (for 10), `Window`, `LogEvery` are scaled to
fall inside a run. Restore and adaptive interval 2 give a generation in which both are due and one
in which neither is; `Period` wraps the generation count there. Two sessions give
everything one can leave to the next; more repeat it. Two faults are what it takes for a
failing clean-up after a failure; in `instances_sessions` one fault of eight at any moment of
two sessions is where TLC's five minutes end, and the two theorems about that module have
no such bound. A campaign's second invocation is the first that reads a manifest. Three
p-values and missing differences reach every branch of the step-down. `analysis` explores three modules that
share no variable, each with the others at rest; five iterations give p-values of 1/16, 3/8 and 1, of which ties of two and
of three are decided otherwise than each alone; two exports, two cuts and a killed one meet every older file. A pair of
operations is what it takes for a repair to meet a perturbed or restored value.

*The failures of `evaluation`.* `MCWorkerEvaluation!AllModes` has every sub-step whose failure
makes its thread drain each barrier once. The others (outer sub-steps under PBT, a failing
measurement of the internal executor) drain twice, break every property of the batch, and
are kept apart (section 4, 1).

*What is not in the runs.* `TypeOK` of each module is a theorem where the module has proofs. The
configurations named in section 4 check a statement TLC refutes and are no part of the passing runs.

*Deadlock* is not checked where the program really ends (a session, a campaign, a comparison, a
trace, a budget of faults and sessions); it is in `evaluation`, `population` and
`knob_space`, whose specifications loop at their ends.

*Fairness.* Four runs check liveness. `evaluation` (`Termination`) is weakly fair to each thread
and to the main thread: the operating system schedules them, and each sub-step is assumed
to return or raise; the barriers have no timeout, and the documents name a hung
sub-step as the accepted residual. `tuner_lifecycle` (`InterruptSaves`) assumes the same of the main
steps, evaluations and barriers, and nothing of the operator. `fleet_sessions` (`SessionEnds`) is fair
to the coordinator, to the handlers of each device and to the coordinator's request timeouts, which `httpx`
enforces; devices may die or never answer. `instances_sessions` (`HealsWhileAPeerLives`) is
fair to evaluations and to the evolution, not to setup, teardown or faults.

## 4. Where code and documents part

`findings` in `PROJECT.json` quotes line by line. TLC refutes each statement with the
configuration named; a statement without one is a definition of its module.

1. **Double drain** (`barrier_double_drain.cfg`, `Termination`). A failure outside the
   workload block is drained by `evaluate_worker`'s outer handler and again by
   `PBTTuner.evaluate_worker`; the second drain enters barriers whose other parties have
   left, and the generation hangs. The internal executor's warm-up callback leaves
   `last_completed_barrier` stale with the same effect.
2. **SMAC's run history** (`bo_landscape.cfg`, `LandscapeIsConsistent`). A trial told under two
   configurations has one of its two entries relabelled.
3. **Expansion** (`normalizer_expansion.cfg`, `ExpansionWidens`, with MCNormalizer). A saturated anchor may move
   inside the one it replaces.
4. **Variance weight** (`scoring_variance.cfg`, `ThreadsKeepVariance`). A steady workload of eight
   threads loses `throughput_variance`, meant for single-threaded ones.
5. **BO that failed** (`campaign_eval_without_bo.cfg`, `EvalComparesBo`). The next invocation
   evaluates the seed without a BO result, since a failed phase counts as done.
6. **`/reset`** (`fleet_reset.cfg`, `ResetGivesBaseline`). The agent answers ok when the restore failed.
7. **Rebuild on bare metal** (`instances_rebuild_peers.cfg`, `RebuildKeepsPeers`). Rebuilding
   one worker's instance cleans up its peers' in mid-evaluation.
8. **Memory budget** (`memory_budget.cfg`, `BudgetHolds`). Clamping after scaling leaves the total
   above the budget.
9. **Ctrl-C under co-tenancy** (`interrupt_under_load.cfg`, `InterruptSavesUnderLoad`). The foreground waits at
   the last barrier for loaders that wait at earlier ones; nothing is saved.
10. **Sysbench validation, dbgen's directory, the last table** (Benchmarks). A killed prepare is
    accepted (`SysbenchShapeMatches`); two workers' dbgen runs delete each other's files
    (`ValidatedIsComplete` with two workers); `rng.integers(1, num_tables)` never reaches the last
    table (`OneTableRuns`).
11. **Tiers** (Tiering, TierFiles). After a minimal tier that is past both cuts the next knob is core
    (`CoreEndsAtItsCut`); a stability of 1 may be one subsample's (`StablyTiered`); the export of the fallback names SCALPEL as its
    algorithm, holds hardware descriptors (`TiersAreKnobs`) and leaves older diagnostics beside it
    (`DiagnosticsAreOfTheTiers`).

Further statements TLC refutes: Population's `ReadinessMeasuresConfig` (a resampled worker keeps its step
count), `AnnouncedBestIsNew` (an early return keeps the improvement flag) and
`TraceConfigWasEvaluated` (records hold the next configuration); Instances'
`PersistentFailuresHeal` (a configuration PostgreSQL does not start with stays in
`auto.conf` when every worker is down); DeviceFleet's `WindowIsAlwaysTheSessions` (agents started
by hand keep an old window); BOLoop's `StopsWhenStagnant` (the early stop compares with a score of old
anchors); Comparison's `RunsAreIsolated` if the removal of a data directory may fail
(`comparison_leftover.cfg`; `docker.py:347` ignores errors); TraceAudit's `RowsAreMeasured` and
`ActualIsOfThisRound`; KnobSpace's `RepairedIsApplicable` on workers of 35 cores or more in a view without `max_worker_processes`, whose
default of 8 is below the least `max_parallel_workers` there (a quarter of the cores), so that the normalisation after the
rules lifts the knob above its pool again (`knob_space.py:930`; the profiles of `knob_space` have fewer cores); TierFiles' `AlwaysNested` (after a killed command, or an unlink that failed, a narrow tier may hold
what a broader one lacks); Benchmarks' `IoIsOfTheRun`, `OnlyWindowScored`, `StragglersCount`.

## 5. Proofs

Eight modules hold theorems; the constants' assumptions (`SizesAssumption`, `ModesAssumption`,
`ConfigAssumption`, `InstancesAssumption`, ...) are evaluated by the runs. The one with consequences is `KnobSpaceAssumption`: a
worker has 4000 units of memory or more (32 MB at a unit of 8 kB, what a cluster starts with), and no factor is 100 %.
`theorems` in `PROJECT.json` lists them with the properties they state.

- **WorkerEvaluation_proof** (any number of workers and threads, any modes). `SyncInv` states that the barriers a
  thread has entered, and those it was let out of, are initial segments of the seventeen, each
  entered once, and where each place of the thread lies between the two ends; lockstep order is
  then arithmetic. `Lockstepped`, `FairMeasurement`, `NobodyStranded` and the refinement
  `BarriersImplementLockstep` hold of `Spec /\ DrainsOnce`; without `DrainsOnce` they are
  false (section 4, 1). `OneBatchAtATime` and `EveryResultIsRead` hold of `Spec`; `ResultsInv`
  of the latter: a thread has a result before it returns, and what is collected is every batch up to the present one.
- **Population_proof** (Population: any population, thresholds, bounds; KnobSpace: any machines, sessions, tiers, factors). `MeasureInv`: until workers evolve, metrics
  describe the configuration held, and failed workers are below the threshold on every ruler
  (`EvolutionSound`). `BestInv`: a failed worker that reaches the comparison stands next to an
  alive one or scores 0 (`BestSound`). `CooldownInv`: a worker with a parent
  counts exactly the evaluations of its configuration (`CooldownIsServed`).
  For KnobSpace, `KnobInv` types the configuration (its knobs are the tier's and, after repair, the two WAL sizes; numbers are natural,
  words of their enumeration) and keeps the saved file equal to the fractions of what was saved (`NothingIsLost`). Membership of a configuration
  in the set of all products of ranges is an induction over removed knobs (`ProductValues`). `FitInv`: the values the
  rules compare with (connections and their reserves, `max_wal_size`, a worker pool of at least the least number of parallel workers) are in
  range before the rules run, so the clamping after them cannot undo one (`RepairsApply`, under the hypothesis that a worker has at most 34
  cores; section 4 has what happens above). `ClaimInv`: shares scaled to the budget, then rounded or held at the least
  of their range, do not exceed the worker's memory (`ClaimsFit`, with `SharesFit` for the arithmetic). `FactorsMove`: on
  each kind of knob and each range a factor other than 100 % changes the value unless it is at the end it is pushed to.
- **Scoring_proof** (Scoring: any workers, workloads, readings; Benchmarks: any profiles, tables, queries, threads,
  sessions, failures). `RulerInv`: which of ranges, weights and scorer changed
  decides who must be rescored, and each way through `_finalize_scores` does it (`ScoresShareARuler`).
  `ReloadInv`: on each way into the rebuild the context was just forced up to date
  (`RebuildKeepsWeights`). `LogInv`: the cursor follows the scorer (`TablesTellTheWeights`).
  `WorkInv` keeps what succeeded beside what the driver counts: in TPC-H the loop index is the number of successes so far; of a
  template whose queries all failed, each thread and the queue hold as many failures as queries, so that the sum the gate sees is all
  failures, whichever threads `Join` waited for (`HealthIsEarned`). `DataInv`: between the drop and the stamp there is no stamp, a copy has
  loaded the tables before its index from whole files of the session's scale factor, a marker stands for whole files only, and a stamp
  with a row in it is true of every table (`ValidMeansComplete`, `ASSUME OneWorker`: with two workers in dbgen's
  directory it is false, section 4, 10).
- **Campaign_proof** (BOLoop: any trials, scores; ExperimentRunner: any seeds, invocations, crashes, stashes). `BOInv`: with
  enough pilots the log and the costs told for the configurations that ran hold `worth`, and a refit is followed by the rescore of both
  in the same step (`ScoresStayCurrent`); a trial without metrics is worth 0 on any anchors. `CampaignInv` is about the manifest in
  every place it may be (memory, disk, stash, commit): each copy is sound by itself (`Sound`: one live attempt, which the entry
  agrees with), each result it names is backed by what a device holds or a command wrote (`Backed`), and `PcInv` says what each step of a phase has in hand
  (`AttemptsAreSuperseded`, `RemoteResultsMatch`). `PublishedStaysFound` follows a result through push, stash and pop;
  `CompleteInv` a phase once done (`AchievementsAreKept`, with `"stop_in_stash" \notin Faults`: a runner stopped between stash and pop leaves the committed manifest,
  which the model has and the property then fails). `HostInv`: the CPU policy is the one found, or somebody who unwinds knows it
  (`HostIsRestored`). `ShutdownIsVerified`: a machine is recorded as terminated only in the step that has seen it stopped.
- **Comparison_proof** (Comparison: any arms, repetitions, failures; Tiering, TierFiles: any knobs, iterations, commands; TraceAudit:
  any population, cadence, generations, faults, with the five values of throughput and two rulers it names). `RunsInv`: the runs in hand are all of this repetition and its
  seed, and each arm keeps as many as there were repetitions not dropped, the i-th of all arms being a
  pair (`PairsStayAligned`, `RubricStaysTrue`). `ServerInv`: what each step of a run finds in the database and in
  its configuration, given that removing a data directory works (`RunsStayIsolated`, `ASSUME ~RemovalCanFail`).
  `HolmIsClosed` is about the correction alone: for any p-values and level, a hypothesis whose adjusted value, a running maximum over
  the ranks, is at most the level is one that every Bonferroni test of a family it belongs to rejects, and the other way round.
  Likewise for SCALPEL: `OrderStatisticFacts` and `UnderLine` carry a rank under the line from a test to every one with a smaller p-value,
  so that the coded minimum over the tests above decides what the step-up procedure decides; `GateInv` keeps hits within the iterations
  and the sweep to them (`GateStepsUp`; that p-values are natural numbers, sums of binomial coefficients, is an assumption
  TLC evaluates). Sums over sets are reasoned about by `RemovalInduction` (a smallest counterexample); `HeaviestFirst`, an exchange
  argument, says that no set of as many knobs outweighs an initial segment of the order, `LorenzCuts` what follows for the cuts,
  and `TierInv` keeps tiers and importances together (`TiersStaySound`). `CutInv`: after n tiers of a command the first n files are its frames (`TiersLoadNested`).
  `AuditInv`: `Fit` says what a record may hold given those before it (origins and read-backs of the exploits, measurements of what the
  record before configured, gaps), `RoundInv` follows the round under way until it is one. `MeansAre` gives the sums behind the means of
  a generation in which somebody lives or nobody does, `NoShock` that no two of them on one ruler are a shock (`AuditStaysSound`).
- **TunerLifecycle_proof** (any workers, rounds, signals, strategies). `CountsInv`: what each step of a round knows of
  its record, best and counter. `BusyInv`, `PartyInv`, `StoppedInv`: where an evaluation may still run, and
  what the teardown leaves after at most one Ctrl-C (`TypeCorrect`, `TracesAreFinal`).
- **DeviceFleet_proof** (any fleet, sessions, faults). `CallInv`: a request somebody waits for is the one of the present
  phase, and there is one per device. `LaunchInv`: an agent this session launched has no handler and no live backend of another
  session (`WindowsAreTheSessions`). The force flag falls only by an answer of a device that restarted (`ForceReaches`).
- **Instances_proof** (any instances, configurations, faults, both backends). `TypeInv` carries `Good`: no worker has lost
  a forced restart (`ForceHonoured`). `BaselineInv` follows worker 0 from the container made for the
  baseline to the copy (`BaselineStaysPristine`). `MeasuredInv` says, of each stage and each thing a worker has still to
  do, what its server runs, what is written, and whether its data are due a restore: at the
  moment of measuring they agree (`MeasurementsAreCredited`).

**Only model-checked.** Liveness (`Termination`, `InterruptSaves`, `SessionEnds`,
`HealsWhileAPeerLives`), which is out of the prover's reach. What recursive functions compute (percentiles, median
gaps) is checked, not proved.

## 6. Not modelled, and what the code has without a property

**Left out.** Argument parsing, logging, plots, report tables and statistics over campaigns (no state that is read
back); probing of the host and fio; SQL, Docker and git beyond what a call leaves behind; SMAC; the
floating-point sum of the score, the bootstrap intervals and effect sizes; parsing of sysbench output; warm start from
an earlier trace in the tuner and its lookup across manifests; the vendored TPC-H generator; real-valued knobs (their step is a
thousandth of the range); the matrix of experiments (each is an ExperimentRunner). `WorkerEvaluation`, `Population` and
`Instances` model the same generation at three levels; their composition as one specification is not stated,
since its state space is the product of all three. What each takes from the other is the
shape of its actions: `Evaluate` is a finished generation of `WorkerEvaluation`, `stage` its lockstep.

**Hazards no property covers**, because the code has them by design or nothing promises otherwise:
a healthy worker below `dead_config_threshold` is neither alive nor dead, and a population of such is evaluated unchanged
until the session stops (`population.py:668`); a rescore that puts every worker below the threshold skips the
deferred rescue; LHS's handler catches `GenerationEvaluationError`, which nothing raises, so one failing design point aborts the
session (`lhs_design/tuner.py:360`); `_previous_engine_config` keeps the configuration before a failed BO trial
(`bo/tuner.py:897`); the executor and its random generator are shared by the threads of a batch; an aborted TPC-H
run counts as a successful pair (`tpch/executor.py:360`); a protocol mismatch is retried until the deadline
(`coordinator.py:95`); results are written once, after teardown, so a raising round loses the finished ones
(`base.py:836`); a stop between stash and pop leaves the committed manifest (`experiments/runner.py:1056`); a pending postmaster knob keeps
runtime knobs from being reloaded in adaptive mode; a Docker clone that fails half-way has removed the targets' containers;
PostgreSQL's defaults, which worker 0 runs unrepaired, lie outside hardware ranges; a warm-up of zero becomes the default; the template
clean-up leaves TPC-H tables behind, and its driver's data is never validated; bare metal takes any snapshot
directory for valid; traces of orphans or other seeds may be the newest ones found by time.
