------------------------------ MODULE Tiering ------------------------------
(***************************************************************************)
(* SCALPEL, which turns the rows of finished sessions into tiers of knobs: *)
(* a nuisance filter, a significance gate (BORUTA hits, binomial tests     *)
(* under Benjamini-Hochberg), Lorenz cuts of the importance of the knobs   *)
(* that pass, and a repetition on subsamples run by worker processes.      *)
(*                                                                         *)
(* Knobs are numbers in alphabetical order.  The forests and fANOVA are    *)
(* random: which knobs beat every shadow in an iteration, and what each is *)
(* worth, are choices.  Probabilities are counted in 2^Iterations-ths and  *)
(* shares in percent.                                                      *)
(***************************************************************************)
EXTENDS Integers, FiniteSets, FiniteSetsExt

CONSTANTS Knobs,            \* columns of config_df
          Nuisance,         \* those the policy excludes from importance
          ExpertMinimal,    \* impact_tier "minimal" in KNOB_TUNING_METADATA
          Iterations,       \* boruta_iter
          FdrQ,             \* fdr_q
          CoverageMinimal, CoverageCore,
          TopK,             \* interaction_top_k
          MinFeatures,      \* min_features
          Subsamples,       \* n_stability_subsamples
          Importances,      \* BOUND: what fANOVA may attribute to a knob
          Contributions     \* BOUND: and to a pair of them

ASSUME TieringAssumption ==
    /\ Knobs \subseteq Nat /\ IsFiniteSet(Knobs) /\ Nuisance \subseteq Knobs
    /\ Iterations \in Nat \ {0} /\ TopK \in Nat /\ MinFeatures \in Nat \ {0} /\ Subsamples \in Nat
    /\ FdrQ \in 0 .. 99
    /\ CoverageMinimal \in 1 .. 100 /\ CoverageCore \in CoverageMinimal .. 100
    /\ Importances \subseteq Int /\ Contributions \subseteq Nat

VARIABLES stage,     \* "preflight", "gate", "attribution", "stability", "done"
          columns,   \* the columns of X_clean
          iteration, \* BORUTA iterations run
          hits,      \* hit_counts
          fused,     \* fused_importances
          returned,  \* subsamples that have ended, in whatever order
          tally,     \* counts: of every knob and tier
          successful,
          result     \* the SCALPELResult so far

tierVars == <<stage, columns, iteration, hits, fused, returned, tally, successful, result>>

TierNames == {"minimal", "core", "standard"}
QSweep == {5, 10, 20, 30}
-----------------------------------------------------------------------------
(* scalpel_significance: the verdict of hit counts.                        *)

Choose[n \in Nat] ==
    [k \in 0 .. n |-> IF k \in {0, n} THEN 1 ELSE Choose[n - 1][k - 1] + Choose[n - 1][k]]

\* binomtest(hits, n, 0.5), two-sided: all outcomes that are no likelier.
Likelihood == Choose[Iterations]
TwoSided ==
    [h \in 0 .. Iterations |->
        MapThenSumSet(LAMBDA k : Likelihood[k],
                      {k \in 0 .. Iterations : Likelihood[k] <= Likelihood[h]})]
PValue(h) == TwoSided[h]

\* Sums of binomial coefficients, in 2^Iterations-ths.
ASSUME ProbabilityAssumption ==
    2 ^ Iterations \in Nat /\ \A h \in 0 .. Iterations : PValue(h) \in Nat

\* At most as many tests have a p-value this small.
RankOf(h, p, cols) == Cardinality({k \in cols : PValue(h[k]) <= p})

\* Mutant: argsort's rank, one of its own for every tied test, and no monotonicity from
\* the right.
Significant_OwnRank(h, cols, q, k) ==
    LET rank == Cardinality({j \in cols : \/ PValue(h[j]) < PValue(h[k])
                                          \/ PValue(h[j]) = PValue(h[k]) /\ j <= k})
    IN  100 * PValue(h[k]) * Cardinality(cols) <= q * rank * 2 ^ Iterations

\* _bh_adjust(p_values)[k] <= q: the least of p * n / rank over k's own p and those above it.
Significant(h, cols, q, k) ==
    \E j \in cols :
        /\ PValue(h[j]) >= PValue(h[k])
        /\ 100 * PValue(h[j]) * Cardinality(cols) <= q * RankOf(h, PValue(h[j]), cols) * 2 ^ Iterations

\* partition_boruta_hits.
Confirmed(h, cols, q) == {k \in cols : Significant(h, cols, q, k) /\ 2 * h[k] > Iterations}
Rejected(h, cols, q) == {k \in cols : Significant(h, cols, q, k) /\ 2 * h[k] <= Iterations}
Tentative(h, cols, q) == {k \in cols : ~Significant(h, cols, q, k)}
-----------------------------------------------------------------------------
(* scalpel_stability: what importances say of the confirmed.               *)

Weight(value) == [k \in DOMAIN value |-> IF value[k] > 0 THEN value[k] ELSE 0]
Mass(value, S) ==
    LET weight == Weight(value)
    IN  MapThenSumSet(LAMBDA k : weight[k], S)

\* The order (importance descending, name ascending).
Ahead(value, a, b) == value[a] > value[b] \/ (value[a] = value[b] /\ a < b)
Before(value, confirmed, k) == {j \in confirmed : Ahead(value, j, k)}

\* compute_fanova_importance: pairs of the top_k by marginal only.
TopMarginals(marginal, cols) == {k \in cols : Cardinality(Before(marginal, cols, k)) < TopK}
MaxInteraction(pair, marginal, cols, k) ==
    LET top == TopMarginals(marginal, cols)
    IN  IF k \in top THEN Max({0} \cup {pair[{k, j}] : j \in top \ {k}}) ELSE 0

\* marginal + alpha * max_interaction in halves: alpha is 0.5.
Fused(pair, marginal, cols) ==
    [k \in cols |-> 2 * marginal[k] + MaxInteraction(pair, marginal, cols, k)]

\* The members of a tier end with the first whose coverage reaches the cut.
Reached(value, confirmed, S, cut) == 100 * Mass(value, S) >= cut * Mass(value, confirmed)

\* Mutant: a knob is minimal only if its own coverage is within the cut.
IsMinimal_Exclusive(value, confirmed, k) ==
    100 * Mass(value, Before(value, confirmed, k) \cup {k}) <= CoverageMinimal * Mass(value, confirmed)

IsMinimal(value, confirmed, k) ==
    ~Reached(value, confirmed, Before(value, confirmed, k), CoverageMinimal)

\* core_done is looked at only from the second knob after the minimal ones: the first
\* is core although the minimal ones may have reached the core cut.
IsCore(value, confirmed, k) ==
    \A j \in Before(value, confirmed, k) :
        IsMinimal(value, confirmed, j)
            \/ ~Reached(value, confirmed, Before(value, confirmed, j) \cup {j}, CoverageCore)

AssignLorenzTiers(value, confirmed) ==
    [k \in confirmed |->
        IF Mass(value, confirmed) = 0 \/ IsMinimal(value, confirmed, k) THEN "minimal"
        ELSE IF IsCore(value, confirmed, k) THEN "core" ELSE "standard"]

\* What some importances make of some of the knobs S.
Assignments(S) ==
    UNION {{AssignLorenzTiers(value, C) : value \in [C -> Importances]} : C \in (SUBSET S) \ {{}}}
AllAssignments == Assignments(Knobs)
NoAssignment == [k \in {} |-> "minimal"]

\* audit_dba_prior: descriptive only.
Violating(tiers) ==
    {k \in ExpertMinimal : k \in DOMAIN tiers => tiers[k] # "minimal"}
-----------------------------------------------------------------------------
(* scalpel_tier.                                                           *)

DegenerateResult(reason) ==
    [degenerate |-> TRUE, reason |-> reason, tiers |-> NoAssignment, confirmed |-> {},
     tentative |-> {}, rejected |-> {}, sweep |-> [q \in QSweep |-> NoAssignment],
     violations |-> {}, probabilities |-> [k \in {} |-> <<0, 0>>]]

TierInit ==
    /\ stage = "preflight"
    /\ columns = Knobs /\ iteration = 0
    /\ hits = [k \in Knobs |-> 0] /\ fused = [k \in Knobs |-> 0]
    /\ returned = 0 /\ tally = [k \in Knobs |-> [t \in TierNames |-> 0]] /\ successful = 0
    /\ result = DegenerateResult("none")

\* Everything but the overrides is filtered; then the rows, the columns and the clusters
\* are counted, in that order.
Preflight(overrides, rows, clusters) ==
    LET cols == Knobs \ (Nuisance \ overrides)
        reason == IF ~rows THEN "too_few_samples"
                  ELSE IF Cardinality(cols) < MinFeatures THEN "too_few_features"
                  ELSE IF ~clusters THEN "too_few_clusters" ELSE "none"
    IN  /\ stage = "preflight"
        /\ columns' = cols
        /\ stage' = IF reason = "none" THEN "gate" ELSE "done"
        /\ result' = DegenerateResult(reason)
        /\ UNCHANGED <<iteration, hits, fused, returned, tally, successful>>

\* A forest on X and its shadows: a hit for every column above all the shadows.
BorutaIteration(beaters) ==
    /\ stage = "gate" /\ iteration < Iterations /\ beaters \subseteq columns
    /\ iteration' = iteration + 1
    /\ hits' = [k \in Knobs |-> IF k \in beaters THEN hits[k] + 1 ELSE hits[k]]
    /\ stage' = IF iteration' = Iterations THEN "attribution" ELSE stage
    /\ UNCHANGED <<columns, fused, returned, tally, successful, result>>

\* The sweep partitions the same hit counts again and cuts the same importances.
Sweep(value) ==
    [q \in QSweep |-> AssignLorenzTiers(value, Confirmed(hits, columns, q))]

Verdict ==
    [DegenerateResult("no_confirmed_knobs") EXCEPT
        !.tentative = Tentative(hits, columns, FdrQ), !.rejected = Rejected(hits, columns, FdrQ)]

\* fANOVA of all columns, the cuts of the confirmed.
Attribute(marginal, pair) ==
    LET value == Fused(pair, marginal, columns)
        confirmed == Confirmed(hits, columns, FdrQ)
    IN  /\ stage = "attribution"
        /\ fused' = [k \in Knobs |-> IF k \in columns THEN value[k] ELSE 0]
        /\ IF confirmed = {}
           THEN stage' = "done" /\ result' = Verdict
           ELSE /\ stage' = "stability"
                /\ result' = [Verdict EXCEPT !.degenerate = FALSE, !.reason = "none",
                                             !.confirmed = confirmed, !.sweep = Sweep(value),
                                             !.tiers = AssignLorenzTiers(value, confirmed)]
        /\ UNCHANGED <<columns, iteration, hits, returned, tally, successful>>

\* if not assignment: continue.
Counted(assignment) == IF assignment = NoAssignment THEN 0 ELSE 1

\* as_completed: a subsample's own tiers, of marginals alone, or nothing (an exception,
\* no confirmed knob, no importances).
SubsampleReturns(assignment) ==
    /\ stage = "stability" /\ returned < Subsamples /\ DOMAIN assignment \subseteq columns
    /\ returned' = returned + 1
    /\ successful' = successful + Counted(assignment)
    /\ tally' = [k \in Knobs |->
                   IF k \in DOMAIN assignment THEN [tally[k] EXCEPT ![assignment[k]] = @ + 1]
                   ELSE tally[k]]
    /\ UNCHANGED <<stage, columns, iteration, hits, fused, result>>

\* selection_probability: the most frequent tier's share of the subsamples that assigned
\* the knob any tier, as <<count, of>>.
Assigned(k) == MapThenSumSet(LAMBDA t : tally[k][t], TierNames)
SelectionProbability ==
    [k \in {k \in Knobs : Assigned(k) > 0} |->
        <<Max({tally[k][t] : t \in TierNames}), Assigned(k)>>]

Conclude ==
    /\ stage = "stability" /\ returned = Subsamples
    /\ stage' = "done"
    /\ result' = [result EXCEPT !.violations = Violating(result.tiers),
                                !.probabilities = SelectionProbability]
    /\ UNCHANGED <<columns, iteration, hits, fused, returned, tally, successful>>

TierNext ==
    \/ \E overrides \in SUBSET Nuisance, rows, clusters \in BOOLEAN : Preflight(overrides, rows, clusters)
    \/ \E beaters \in SUBSET Knobs : BorutaIteration(beaters)
    \/ \E marginal \in [columns -> Importances], best \in kSubset(2, columns), c \in Contributions :
         Attribute(marginal, [pair \in SUBSET columns |-> IF pair = best THEN c ELSE 0])
    \/ \E assignment \in AllAssignments \cup {NoAssignment} : SubsampleReturns(assignment)
    \/ Conclude

TierSpec == TierInit /\ [][TierNext]_tierVars
-----------------------------------------------------------------------------
(* Properties.                                                             *)

\* The least p-value that r tests are at or below.
OrderStatistic(h, cols, r) ==
    Min({PValue(h[k]) : k \in {k \in cols : RankOf(h, PValue(h[k]), cols) >= r}})

\* Benjamini and Hochberg's step-up procedure: the last of the ordered p-values under the
\* line q * r / n is decided, and every smaller one with it.
StepUp(h, cols, q) ==
    LET under == {r \in 1 .. Cardinality(cols) :
                    100 * OrderStatistic(h, cols, r) * Cardinality(cols) <= q * r * 2 ^ Iterations}
    IN  IF under = {} THEN {}
        ELSE {k \in cols : PValue(h[k]) <= OrderStatistic(h, cols, Max(under))}

\* The gate of the pass and of every threshold of the sweep is the step-up procedure,
\* and a wider threshold loses no knob.
GateIsStepUp ==
    /\ stage = "attribution" =>
        \A q \in QSweep \cup {FdrQ} :
            StepUp(hits, columns, q) = Confirmed(hits, columns, q) \cup Rejected(hits, columns, q)
    /\ stage = "stability" =>
        \A p, q \in QSweep : p < q => DOMAIN result.sweep[p] \subseteq DOMAIN result.sweep[q]

Tier(names) == {k \in result.confirmed : result.tiers[k] \in names}
Share(S, cut) == Reached(fused, result.confirmed, S, cut)

\* The minimal tier is a smallest set of confirmed knobs that covers its share of the
\* importance, minimal and core together cover theirs, and nothing outranks a knob of a
\* stronger tier.
MinimalIsSmallest ==
    result.confirmed # {} /\ Mass(fused, result.confirmed) > 0 =>
        /\ Share(Tier({"minimal"}), CoverageMinimal)
        /\ \A S \in SUBSET result.confirmed :
               Cardinality(S) < Cardinality(Tier({"minimal"})) => ~Share(S, CoverageMinimal)
        /\ Share(Tier({"minimal", "core"}), CoverageCore)
        /\ \A k \in Tier({"standard"}) : \A j \in Tier({"minimal", "core"}) : fused[j] >= fused[k]

\* The tiers are what the two published procedures say.
TiersAreSound == GateIsStepUp /\ MinimalIsSmallest
-----------------------------------------------------------------------------
(* What the documentation says and the code does not do.                   *)

\* "Cuts are inclusive: the first knob whose cumulative mass meets or exceeds
\* coverage_minimal is the last member of minimal; same for core. Anything beyond the
\* core cut is standard" (scalpel_stability.py:371-374).
CoreEndsAtItsCut ==
    \A k \in result.confirmed :
        Mass(fused, result.confirmed) > 0 /\ Share(Before(fused, result.confirmed, k), CoverageCore) =>
            result.tiers[k] = "standard"

\* "Knobs with stability_probabilities[k] >= 0.80 are reportable as stably tiered"
\* (scalpel-diagnostics.md:252-254): of the subsamples, not of those that confirmed the knob.
StablyTiered ==
    stage = "done" =>
        \A k \in DOMAIN result.probabilities :
            LET p == result.probabilities[k]
            IN  100 * p[1] >= 80 * p[2] => 100 * p[1] >= 80 * successful
=============================================================================
