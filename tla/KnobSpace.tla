----------------------------- MODULE KnobSpace -----------------------------
(***************************************************************************)
(* The configurations a session handles (src/knobs/knob_space.py): how a   *)
(* worker's configuration is drawn, perturbed and repaired, serialised as  *)
(* fractions of the worker's resources, restored on other hardware, and    *)
(* encoded for the Bayesian optimizer (src/tuners/bo/search_space.py).     *)
(*                                                                         *)
(* One knob stands for every knob of its kind.  RAM is counted in one unit *)
(* for all knobs; a draw from a range takes one of its ends or its middle; *)
(* a boolean is "true" or "false", beside the string the repair writes.    *)
(***************************************************************************)
EXTENDS Resources, FiniteSets

CONSTANTS Tiers,           \* the knob sets of the tiers a session may tune
          Sessions,        \* machine, workers and request of a session
          Restart,         \* the restart-required knobs
          Factors,         \* perturbation factors, in percent
          MaxSteps         \* BOUND: operations in a behaviour

ResourcesOf(s) == WorkerResources(s.machine, s.workers, s.asked)

\* A worker has 100 MB or what the operator asks for: the unit of memory, at
\* most a page of 8 kB, is small beside it.
ASSUME KnobSpaceAssumption ==
    /\ Factors \subseteq Nat /\ 100 \notin Factors
    /\ MaxSteps \in Nat
    /\ Sessions \subseteq [machine : Machines, workers : Nat \ {0}, asked : Amounts]
    /\ \A s \in Sessions : ResourcesOf(s).ram >= 4000

VARIABLES session,     \* what the tuner runs on
          host,        \* its worker_resources
          tier,        \* the knobs of full_knob_space
          view,        \* the knobs of the space the worker explores with
          knob_config, \* the worker's configuration
          origin,      \* "default": PostgreSQL's, never repaired
          saved,       \* the best configuration of the session that has ended
          told,        \* what the optimizer was told of its last suggestion
          steps
place == <<session, host, tier, view>>
knobVars == <<place, knob_config, origin, saved, told, steps>>

-----------------------------------------------------------------------------
(* Knob definitions                                                        *)

\* Fractions of the worker's RAM and cores, in thousandths; the floor of the
\* minimum of the latter.
RamRange == [shared_buffers |-> <<150, 400>>, work_mem |-> <<1, 20>>,
             maintenance_work_mem |-> <<10, 50>>]
CpuRange == [max_worker_processes |-> <<500, 2000, 4>>,
             max_parallel_workers |-> <<250, 1000, 0>>,
             max_parallel_maintenance_workers |-> <<0, 500, 0>>]
DiskRange == [effective_io_concurrency |->
                  [SSD |-> <<100, 200>>, HDD |-> <<1, 4>>,
                   unknown |-> <<1, 200>>]]
\* Of the other knobs, PostgreSQL's range and the one curated for tuning.
NativeRange == [max_connections |-> <<1, 262143>>,
                reserved_connections |-> <<0, 262143>>,
                superuser_reserved_connections |-> <<0, 262143>>,
                max_wal_senders |-> <<0, 262143>>,
                max_logical_replication_workers |-> <<0, 262143>>,
                min_wal_size |-> <<2, 1000000>>, max_wal_size |-> <<2, 1000000>>,
                transaction_buffers |-> <<0, 131072>>,
                notify_buffers |-> <<16, 131072>>]
TuningRange == [max_connections |-> <<50, 200>>,
                reserved_connections |-> <<0, 5>>,
                superuser_reserved_connections |-> <<0, 5>>,
                max_wal_senders |-> <<0, 10>>,
                max_logical_replication_workers |-> <<0, 10>>,
                min_wal_size |-> <<80, 2048>>, max_wal_size |-> <<80, 10240>>,
                transaction_buffers |-> <<16, 1024>>,
                notify_buffers |-> <<4, 64>>]
\* Their intersection, or PostgreSQL's where there is none.
FixedRange(k) ==
    LET lo == Max({NativeRange[k][1], TuningRange[k][1]})
        hi == Min({NativeRange[k][2], TuningRange[k][2]})
    IN  IF lo > hi THEN NativeRange[k] ELSE <<lo, hi>>
EnumValues == [wal_level |-> {"minimal", "replica", "logical"},
            archive_mode |-> {"always", "on", "off"},
            huge_pages |-> {"off", "on", "try"},
            shared_memory_type |-> {"sysv", "mmap"},
            summarize_wal |-> {"true", "false"}]
Default == [shared_buffers |-> 160, work_mem |-> 5,
            maintenance_work_mem |-> 80, max_worker_processes |-> 8,
            max_parallel_workers |-> 8, max_parallel_maintenance_workers |-> 2,
            effective_io_concurrency |-> 16, max_connections |-> 100,
            reserved_connections |-> 0, superuser_reserved_connections |-> 3,
            max_wal_senders |-> 10, max_logical_replication_workers |-> 4,
            min_wal_size |-> 80, max_wal_size |-> 1024,
            transaction_buffers |-> 0, notify_buffers |-> 16, wal_level |-> "replica",
            archive_mode |-> "off", huge_pages |-> "try",
            shared_memory_type |-> "mmap", summarize_wal |-> "false"]
ASSUME TiersAssumption == \A ks \in Tiers : ks \subseteq DOMAIN Default
LogScale == {"shared_buffers", "work_mem", "maintenance_work_mem",
             "min_wal_size", "max_wal_size", "transaction_buffers",
             "notify_buffers"}
GridOf(k) == IF k \in {"transaction_buffers", "notify_buffers"} THEN 16 ELSE 1
NonZeroKnobs == {"transaction_buffers"}
Numeric(k) == k \notin DOMAIN EnumValues
Relative(k) == k \in DOMAIN RamRange \cup DOMAIN CpuRange

\* Python's round: to the nearest integer, a tie to the even one.
Rounded(n, d) ==
    LET q == n \div d
        r == n % d
    IN  IF 2 * r > d \/ (2 * r = d /\ q % 2 = 1) THEN q + 1 ELSE q

ResourceOf(k, h) == IF k \in DOMAIN RamRange THEN h.ram ELSE h.cpu
RangeOn(k, h) ==
    CASE k \in DOMAIN RamRange ->
           <<(h.ram * RamRange[k][1]) \div 1000,
             (h.ram * RamRange[k][2]) \div 1000>>
      [] k \in DOMAIN CpuRange ->
           LET floor == CpuRange[k][3]
           IN  <<Max({floor, Rounded(h.cpu * CpuRange[k][1], 1000)}),
                 Max({floor, Rounded(h.cpu * CpuRange[k][2], 1000)})>>
      [] k \in DOMAIN DiskRange -> DiskRange[k][h.disk]
      [] OTHER -> FixedRange(k)

Clamp(k, v, h) == Min({Max({v, RangeOn(k, h)[1]}), RangeOn(k, h)[2]})
\* The value n / d in the range and on the grid of the knob.
Normalize(k, n, d, h) ==
    LET base == RangeOn(k, h)[1]
        v == Clamp(k, Rounded(n, d), h)
    IN  IF GridOf(k) = 1 THEN v
        ELSE Clamp(k, base + Rounded(v - base, GridOf(k)) * GridOf(k), h)
InRange(k, v, h) ==
    LET r == RangeOn(k, h)
    IN  r[1] <= v /\ v <= r[2] /\ (v - r[1]) % GridOf(k) = 0

-----------------------------------------------------------------------------
(* Repair                                                                  *)

Get(c, k, default) == IF k \in DOMAIN c THEN c[k] ELSE default
Has(c, k, values) == k \in DOMAIN c /\ c[k] \in values

\* Without WAL for replicas nothing may need it; the two first knobs are set
\* even where the configuration has none.
WalRepaired(c) ==
    IF Has(c, "wal_level", {"minimal"})
    THEN [k \in DOMAIN c \cup {"archive_mode", "max_wal_senders"} |->
             CASE k = "archive_mode" -> "off"
               [] k = "max_wal_senders" -> 0
               [] k = "summarize_wal" /\ c[k] = "true" -> "off"
               [] OTHER -> c[k]]
    ELSE c
HugePagesRepaired(c) ==
    [k \in DOMAIN c |->
        CASE k = "shared_memory_type"
             /\ Has(c, "huge_pages", {"on", "try"}) /\ c[k] = "sysv" -> "mmap"
          [] k = "huge_pages" /\ c[k] = "on" -> "try"
          [] OTHER -> c[k]]

WorkerBounded == {"max_parallel_workers", "max_logical_replication_workers",
                  "max_parallel_maintenance_workers"}
PoolsRepaired(c) ==
    [k \in DOMAIN c |->
        IF k \in WorkerBounded
        THEN Min({c[k], Get(c, "max_worker_processes", c[k])}) ELSE c[k]]
WalSizesRepaired(c) ==
    [k \in DOMAIN c |->
        IF k = "min_wal_size" /\ c[k] > Get(c, "max_wal_size", c[k])
        THEN Max({1, c["max_wal_size"] \div 2}) ELSE c[k]]
Reserved(c) == Get(c, "reserved_connections", 0)
               + Get(c, "superuser_reserved_connections", 0)
SlotsRepaired(c) ==
    [k \in DOMAIN c |->
        IF k = "max_connections" /\ Reserved(c) >= c[k]
        THEN Reserved(c) + 10 ELSE c[k]]

\* The memory a configuration may claim; a space without max_connections
\* counts a hundred.
Claimed(c) == Get(c, "shared_buffers", 0)
              + Get(c, "max_connections", 100) * Get(c, "work_mem", 0)
              + Get(c, "maintenance_work_mem", 0)
Budget(h) == (h.ram * 4) \div 5
MemoryKnobs == {"shared_buffers", "work_mem", "maintenance_work_mem",
                "max_connections"}
\* Mutant: work_mem keeps its value.
WorkMemKept(c, V, h) ==
    IF Claimed(c) <= Budget(h) THEN c
    ELSE [k \in DOMAIN c |->
             IF k \in (MemoryKnobs \ {"work_mem"}) \cap V
             THEN Normalize(k, c[k] * Budget(h), Claimed(c), h) ELSE c[k]]
BudgetRepaired(c, V, h) ==
    IF Claimed(c) <= Budget(h) THEN c
    ELSE [k \in DOMAIN c |->
             IF k \in MemoryKnobs \cap V
             THEN Normalize(k, c[k] * Budget(h), Claimed(c), h) ELSE c[k]]

\* Mutant: the numbers are brought into their ranges before the rules.
NormalizedFirst(c, V, h) ==
    LET d == [k \in DOMAIN c |-> IF k \in V /\ Numeric(k)
                                THEN Normalize(k, c[k], 1, h) ELSE c[k]]
    IN  BudgetRepaired(SlotsRepaired(WalSizesRepaired(PoolsRepaired(
            HugePagesRepaired(WalRepaired(d))))), V, h)
\* The rules in the order of the code, the numbers back into their ranges,
\* the memory last.
Repaired(c, V, h) ==
    LET d == SlotsRepaired(WalSizesRepaired(PoolsRepaired(
                 HugePagesRepaired(WalRepaired(c)))))
    IN  BudgetRepaired([k \in DOMAIN d |->
                           IF k \in V /\ Numeric(k)
                           THEN Normalize(k, d[k], 1, h) ELSE d[k]], V, h)

-----------------------------------------------------------------------------
(* Drawing and perturbing                                                  *)

With(c, k, v) == [j \in DOMAIN c \cup {k} |-> IF j = k THEN v ELSE c[j]]
\* The configurations that take each knob k from values[k].
Product(values) ==
    FoldSet(LAMBDA k, acc : {With(c, k, v) : c \in acc, v \in values[k]},
            {<<>>}, DOMAIN values)

Draw(k, h) ==
    IF Numeric(k)
    THEN LET r == RangeOn(k, h)
         IN  {r[1], r[2], Normalize(k, r[1] + r[2], 2, h)}
    ELSE EnumValues[k]
Draws(ks, h) == {Repaired(c, ks, h) : c \in Product([k \in ks |-> Draw(k, h)])}

DefaultConfig(ks) == [k \in ks |-> Default[k]]

\* Mutant: no least move.
MultipleOnly(k, v, f, h) == Normalize(k, v * f, 100, h)
\* The factor's multiple, or one grid step its way where that is more.
PerturbedNumber(k, v, f, h) ==
    LET delta == v * (f - 100)
        step == 100 * GridOf(k)
    IN  IF delta < step /\ -delta < step
        THEN Normalize(k, v + (IF f > 100 THEN GridOf(k) ELSE -GridOf(k)), 1, h)
        ELSE Normalize(k, 100 * v + delta, 100, h)
\* not of the string "off" is False: the flip of a repaired boolean is none.
Flipped(v) == IF v = "false" THEN "true" ELSE "false"
Moves(k, v, h, fs) ==
    CASE Numeric(k) -> {PerturbedNumber(k, v, f, h) : f \in fs}
      [] k = "summarize_wal" -> {v, Flipped(v)}
      [] OTHER -> EnumValues[k]
Perturbations(c, V, h, fs) ==
    {Repaired(d, V, h) : d \in Product([k \in DOMAIN c |->
        IF k \in V THEN Moves(k, c[k], h, fs) ELSE {c[k]}])}

-----------------------------------------------------------------------------
(* Fractions of the hardware                                               *)

\* Mutant: fractions of the range, as the documentation has them.
FractionsOfRange(c, ks, h) ==
    [k \in DOMAIN c |->
        [value |-> c[k],
         of |-> IF k \in ks /\ Relative(k) THEN Max({1, RangeOn(k, h)[2]}) ELSE 1]]
\* value / of: an absolute value has no divisor.
ToFractions(c, ks, h) ==
    [k \in DOMAIN c |->
        [value |-> c[k],
         of |-> IF k \in ks /\ Relative(k) THEN ResourceOf(k, h) ELSE 1]]
FromFractions(s, ks, h) ==
    [k \in DOMAIN s |->
        IF k \in ks /\ Relative(k)
        THEN Normalize(k, s[k].value * ResourceOf(k, h), s[k].of, h)
        ELSE s[k].value]
\* No fraction may exceed the maximum here by more than a twentieth.
Accepted(s, ks, h) ==
    \A k \in DOMAIN s \cap ks :
        Relative(k) => 20 * ((s[k].value * ResourceOf(k, h)) \div s[k].of)
                         <= 21 * RangeOn(k, h)[2]
\* The restored configuration with the knobs it lacks drawn and those the
\* space has not dropped.
WarmStarts(s, ks, h) ==
    LET base == FromFractions(s, ks, h)
    IN  {Repaired(c, ks, h) :
            c \in {[k \in ks |-> IF k \in DOMAIN base THEN base[k] ELSE d[k]] :
                     d \in Draws(ks, h)}}

-----------------------------------------------------------------------------
(* The optimizer's configuration space                                     *)

\* configspace_constraints: who is inactive without WAL for replicas, and
\* what the optimizer may not suggest.
InactiveInMinimal == {"archive_mode", "max_wal_senders", "summarize_wal"}
Active(k, c) ==
    k \in InactiveInMinimal => ~Has(c, "wal_level", {"minimal"})
Forbidden(c) ==
    \/ /\ Has(c, "huge_pages", {"on", "try"})
       /\ Has(c, "shared_memory_type", {"sysv"})
    \/ Has(c, "huge_pages", {"on"})
    \/ \E k \in WorkerBounded \cap DOMAIN c :
           Get(c, "max_worker_processes", c[k]) < c[k]
    \/ /\ "min_wal_size" \in DOMAIN c
       /\ c["min_wal_size"] > Get(c, "max_wal_size", c["min_wal_size"])

\* A knob on a grid is searched by its index from 1; a logarithmic one, and
\* one of NonZeroKnobs, from 1.
BaseOf(k, h) ==
    IF k \in NonZeroKnobs THEN Max({1, RangeOn(k, h)[1]}) ELSE RangeOn(k, h)[1]
Constant(k, h) == Numeric(k) /\ RangeOn(k, h)[1] = RangeOn(k, h)[2]
BoundsOf(k, h) ==
    IF GridOf(k) > 1
    THEN <<1, ((RangeOn(k, h)[2] - BaseOf(k, h)) \div GridOf(k)) + 1>>
    ELSE <<IF k \in LogScale THEN Max({1, BaseOf(k, h)}) ELSE BaseOf(k, h),
           RangeOn(k, h)[2]>>
Searched(k, h) ==
    IF Numeric(k)
    THEN LET b == BoundsOf(k, h)
         IN  IF Constant(k, h) THEN {RangeOn(k, h)[1]}
             ELSE {b[1], b[2], (b[1] + b[2]) \div 2}
    ELSE EnumValues[k]

\* What the optimizer may suggest: no value for an inactive knob.
Suggestions(ks, h) ==
    {[k \in {j \in ks : Active(j, c)} |-> c[k]] :
        c \in {d \in Product([k \in ks |-> Searched(k, h)]) : ~Forbidden(d)}}
\* configspace_to_knobs: an inactive knob has its default.
DecodedValue(k, v, h) ==
    IF GridOf(k) > 1 /\ ~Constant(k, h)
    THEN BaseOf(k, h) + (v - 1) * GridOf(k) ELSE v
Decoded(s, ks, h) ==
    [k \in ks |-> IF k \in DOMAIN s THEN DecodedValue(k, s[k], h) ELSE Default[k]]
\* knobs_to_configspace: bool of the string "off" is True.
EncodedValue(k, v, h) ==
    CASE Numeric(k) /\ Constant(k, h) -> RangeOn(k, h)[1]
      [] Numeric(k) /\ ~Constant(k, h) ->
           LET i == IF GridOf(k) > 1
                    THEN ((v - BaseOf(k, h)) \div GridOf(k)) + 1 ELSE v
           IN  Max({BoundsOf(k, h)[1], Min({BoundsOf(k, h)[2], i})})
      [] k = "summarize_wal" -> IF v = "false" THEN "false" ELSE "true"
      [] OTHER -> v
Encoded(c, ks, h) ==
    [k \in ks \cap DOMAIN c |-> EncodedValue(k, c[k], h)]

-----------------------------------------------------------------------------
(* The session                                                             *)

\* ONLINE tuning explores the knobs that need no restart.
Views(ks) == {ks, ks \ Restart} \ {{}}

KnobTypeOK ==
    /\ session \in Sessions /\ tier \in Tiers /\ view \in Views(tier)
    /\ \A k \in DOMAIN knob_config :
          IF Numeric(k) THEN knob_config[k] \in Nat
          ELSE knob_config[k] \in EnumValues[k] \cup {"off"}
    /\ origin \in {"default", "repaired"}
    /\ saved # Nothing => \A k \in DOMAIN saved.knobs : saved.knobs[k].of > 0
    /\ steps \in 0..MaxSteps

\* propose_initial_configs: worker 0 runs PostgreSQL's defaults as they are,
\* the others the repaired points of a design over the whole space.
KnobInit ==
    /\ session \in Sessions /\ host = ResourcesOf(session)
    /\ tier \in Tiers /\ view \in Views(tier)
    /\ \/ origin = "default" /\ knob_config = DefaultConfig(tier)
       \/ origin = "repaired" /\ knob_config \in Draws(tier, host)
    /\ saved = Nothing /\ told = Nothing /\ steps = 0

Step == steps < MaxSteps /\ steps' = steps + 1
Running == saved = Nothing

\* perturb_config, after an exploit or on its own.
Explore ==
    /\ Step /\ Running
    /\ knob_config' \in Perturbations(knob_config, view, host, Factors)
    /\ origin' = "repaired" /\ told' = Nothing
    /\ UNCHANGED <<place, saved>>

\* The resampling of dead workers: drawn from the view, or the old one
\* perturbed widely when every candidate is too much like it.
Redraw ==
    /\ Step /\ Running
    /\ knob_config' \in Draws(view, host) \cup Perturbations(knob_config, view, host, {50, 150})
    /\ origin' = "repaired" /\ told' = Nothing
    /\ UNCHANGED <<place, saved>>

\* best_config_fractions, written with the session's results.
SaveBest ==
    /\ Step /\ Running
    /\ saved' = [knobs |-> ToFractions(knob_config, tier, host), config |-> knob_config,
                 host |-> host, tier |-> tier, origin |-> origin]
    /\ UNCHANGED <<place, knob_config, origin, told>>

\* A later session, perhaps on other hardware or of another tier, seeded with
\* the saved configuration; it does not start where a fraction is refused.
WarmStart ==
    /\ Step /\ ~Running
    /\ \E s \in Sessions, ks \in Tiers :
          /\ session' = s /\ host' = ResourcesOf(s)
          /\ tier' = ks /\ view' \in Views(ks)
          /\ Accepted(saved.knobs, ks, host')
          /\ knob_config' \in WarmStarts(saved.knobs, ks, host')
    /\ origin' = "repaired" /\ told' = Nothing /\ saved' = Nothing

\* Mutant: the optimizer is told its suggestion.
TellSuggestion ==
    /\ Step /\ Running
    /\ \E s \in Suggestions(view, host) :
          /\ knob_config' = Repaired(Decoded(s, view, host), view, host)
          /\ told' = s
    /\ origin' = "repaired"
    /\ UNCHANGED <<place, saved>>
\* A trial of the optimizer: the suggestion decoded and repaired, evaluated,
\* and what was evaluated encoded for the surrogate.
Trial ==
    /\ Step /\ Running
    /\ \E s \in Suggestions(view, host) :
          LET c == Repaired(Decoded(s, view, host), view, host)
          IN  knob_config' = c /\ told' = Encoded(c, view, host)
    /\ origin' = "repaired"
    /\ UNCHANGED <<place, saved>>

\* _resolve_tuned_knobs of the evaluation: the saved configuration, its
\* fractions resolved for the resources of the session that saved it.
TunedKnobs == FromFractions(saved.knobs, saved.tier, saved.host)

Finished == steps = MaxSteps /\ UNCHANGED knobVars
KnobNext == Explore \/ Redraw \/ SaveBest \/ WarmStart \/ Trial \/ Finished

KnobSpec == KnobInit /\ [][KnobNext]_knobVars

-----------------------------------------------------------------------------
(* Properties                                                              *)

\* The workers of a session are not promised more of the machine than it has,
\* whether the shares were detected or asked for (resolve_worker_resources).
WorkersFit == FitsTheMachine(host, session.machine, session.workers)

Applicable(c) ==
    /\ ~Forbidden(c)
    /\ Has(c, "wal_level", {"minimal"}) =>
          /\ c["archive_mode"] = "off" /\ c["max_wal_senders"] = 0
          /\ ~Has(c, "summarize_wal", {"true"})
    /\ "max_connections" \in DOMAIN c => Reserved(c) < c["max_connections"]

\* However a configuration came about, once repaired PostgreSQL can start with
\* it: nothing configspace_constraints forbids, no sender or summarizer
\* without WAL, connections left for users, and every number that the view
\* explores in its range and on its grid.
RepairedIsApplicable ==
    origin = "repaired" =>
        /\ Applicable(knob_config)
        /\ \A k \in view \cap DOMAIN knob_config :
              Numeric(k) => InRange(k, knob_config[k], host)

\* What the documentation says of the repair (configuration-management.md:206):
\* the total is brought back under the budget, roundings aside.  Not so when a
\* knob is already at the least its range allows.
BudgetHolds ==
    (origin = "repaired" /\ view = tier) =>
        Claimed(knob_config) <= Budget(host) + 2
            + (Get(knob_config, "max_connections", 100) + Get(knob_config, "work_mem", 0)) \div 2

\* Exploring the whole space, no configuration claims more memory than the
\* worker has, whatever the ranges the repair clamps to.
MemoryFits ==
    (origin = "repaired" /\ view = tier) => Claimed(knob_config) <= host.ram

\* Neither do the workers together, nor does one configuration, claim more than there is.
NothingOvercommitted == WorkersFit /\ MemoryFits

\* Exploration is neither stuck nor biased (#167): a factor moves a number its
\* own way by a grid step at least, or to the end of the range that way.
EveryFactorMoves ==
    \A k \in view \cap DOMAIN knob_config, f \in Factors :
        (Numeric(k) /\ InRange(k, knob_config[k], host)) =>
            LET r == RangeOn(k, host)
                v == PerturbedNumber(k, knob_config[k], f, host)
            IN  IF f > 100
                THEN v >= knob_config[k] + GridOf(k) \/ v = r[2]
                ELSE v <= knob_config[k] - GridOf(k) \/ v = r[1]

\* The evaluation applies the configuration the tuner measured, although the
\* file holds fractions: they resolve to the numbers they were made of.
TunedIsMeasured ==
    (saved # Nothing /\ saved.origin = "repaired") =>
        \A k \in DOMAIN saved.config :
            (k \in saved.tier /\ Relative(k) =>
                InRange(k, saved.config[k], saved.host))
              => TunedKnobs[k] = saved.config[k]

\* What the surrogate is told of a trial is what was evaluated, in every knob
\* that is active in it, although the repair changed the suggestion.
ToldIsEvaluated ==
    told # Nothing =>
        \A k \in DOMAIN told :
            Active(k, told) =>
                DecodedValue(k, told[k], host) = knob_config[k]

\* Neither the file of a session nor the surrogate's coding makes another configuration
\* of the one that was measured.
EncodingsLoseNothing == TunedIsMeasured /\ ToldIsEvaluated

=============================================================================
