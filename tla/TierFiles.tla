----------------------------- MODULE TierFiles -----------------------------
(***************************************************************************)
(* How tiers reach the tuner: analyze_knob_importance exports them to      *)
(* data_driven_tiers.json (and the SCALPEL diagnostics beside it),         *)
(* preprocess_knobs cuts the tunable knobs into one CSV per tier, and      *)
(* load_knob_space_for_tier reads the tier that was asked for.  They are   *)
(* commands of their own that share the directory of one workload; each    *)
(* may be killed between two writes.                                       *)
(***************************************************************************)
EXTENDS Tiering, Sequences

CONSTANTS Tunable,      \* the knobs of the server that filter_tunable_knobs keeps
          Descriptors,  \* ram_bytes, cpu_cores, disk_type: features of the combined model
          Commands      \* BOUND: commands started

ASSUME TierFilesAssumption ==
    Tunable # {} /\ IsFiniteSet(Descriptors) /\ Descriptors \subseteq Nat /\ Commands \in Nat

VARIABLES command,      \* "none", "exporting", "diagnosing", "preprocessing"
          export,       \* what the analysis is about to write
          tiersFile,    \* data_driven_tiers.json
          diagnostics,  \* scalpel_diagnostics.json: "absent", of the tiers, or "stale"
          loaded,       \* DATA_DRIVEN_TIERS of the preprocessing command
          pending,      \* tiers it has not written yet
          csv,          \* {tier}_knobs.csv
          whole,        \* history variable: whether one command wrote all the CSVs
          started

fileVars == <<command, export, tiersFile, diagnostics, loaded, pending, csv, whole, started>>

Absent == [source |-> "absent", tiers |-> NoAssignment]
Order == <<"minimal", "core", "standard", "extensive">>
Canonical == {"minimal", "core", "standard", "extensive"}
Index == [tier \in Canonical |-> CHOOSE i \in 1 .. 4 : Order[i] = tier]
Missing == {}

FileInit ==
    /\ command = "none" /\ export = Absent /\ tiersFile = Absent /\ diagnostics = "absent"
    /\ loaded = NoAssignment /\ pending = <<>>
    /\ csv = [tier \in Canonical |-> Missing] /\ whole = "no" /\ started = 0

Start(c) == command = "none" /\ started < Commands /\ command' = c /\ started' = started + 1
-----------------------------------------------------------------------------
(* analyze_knob_importance.                                                *)

\* lorenz_tier_from_importances: every feature counts as confirmed; the cuts are the
\* defaults, of SCALPEL as of the fallback.
LorenzFallback(features) ==
    {AssignLorenzTiers(value, features) : value \in [features -> Importances]}

\* The features of one hardware profile, and of the model of several.
Features(profiles) == IF profiles = 1 THEN Knobs ELSE Knobs \cup Descriptors
FallbackTiers == [profiles \in 1 .. 2 |-> LorenzFallback(Features(profiles))]

\* run_analysis_pipeline up to the export: the tiers of a single profile that SCALPEL
\* did not reject, or those of marginals alone, the combined model's for several.
Analyze ==
    /\ Start("exporting")
    /\ \/ export' \in [source : {"scalpel"}, tiers : AllAssignments]
       \/ \E profiles \in 1 .. 2 :
            export' \in [source : {"lorenz_fallback"}, tiers : FallbackTiers[profiles]]
    /\ UNCHANGED <<tiersFile, diagnostics, loaded, pending, csv, whole>>

\* export_data_driven_tiers: both files are written aside and replaced; whatever the tiers
\* come from, the metadata name SCALPEL.
ReplaceTiers ==
    /\ command = "exporting"
    /\ tiersFile' = [source |-> "scalpel-v1", tiers |-> export.tiers]
    /\ diagnostics' = IF diagnostics = "absent" THEN "absent" ELSE "stale"
    /\ IF export.source = "scalpel" THEN command' = "diagnosing" /\ export' = export
       ELSE command' = "none" /\ export' = Absent
    /\ UNCHANGED <<loaded, pending, csv, whole, started>>

ReplaceDiagnostics ==
    /\ command = "diagnosing"
    /\ diagnostics' = "of the tiers"
    /\ command' = "none" /\ export' = Absent
    /\ UNCHANGED <<tiersFile, loaded, pending, csv, whole, started>>
-----------------------------------------------------------------------------
(* preprocess_knobs.                                                       *)

\* load_data_driven_tiers, and the tables create_tier_dataframes makes of it.
Preprocess ==
    /\ tiersFile # Absent
    /\ Start("preprocessing")
    /\ loaded' = tiersFile.tiers
    /\ pending' = Order
    /\ whole' = "so far"
    /\ UNCHANGED <<export, tiersFile, diagnostics, csv>>

\* Mutant: a tier's own list, as the file has it.
KnobsByTier_NotCumulative(tiers, tier) == {k \in DOMAIN tiers : tiers[k] = tier}

\* get_knobs_by_tier: those of the narrower tiers come first.
KnobsByTier(tiers, tier) ==
    {k \in DOMAIN tiers : \E i \in 1 .. Index[tier] : tiers[k] = Order[i]}

\* create_tier_dataframes.
TierFrame(tiers, tier) ==
    IF tier = "extensive" THEN Tunable ELSE Tunable \cap KnobsByTier(tiers, tier)

\* Mutant: the file of a tier that became empty stays.
Saved_KeepsEmpty(old, frame) == IF frame = {} THEN old ELSE frame

\* An empty tier has no file: the one of an earlier run is unlinked.
Saved(old, frame) == IF frame = {} THEN Missing ELSE frame

\* preprocess_and_save_knobs, a tier at a time; an unlink that fails is passed over.
WriteTier ==
    LET tier == Head(pending)
        frame == TierFrame(loaded, tier)
    IN  /\ command = "preprocessing"
        /\ \/ /\ csv' = [csv EXCEPT ![tier] = Saved(@, frame)]
              /\ whole' = IF Len(pending) = 1 /\ whole = "so far" THEN "yes" ELSE whole
           \/ /\ frame = {} /\ csv[tier] # Missing
              /\ csv' = csv /\ whole' = "no"
        /\ pending' = Tail(pending)
        /\ command' = IF Len(pending) = 1 THEN "none" ELSE command
        /\ UNCHANGED <<export, tiersFile, diagnostics, loaded, started>>

\* Before the first write a command that dies has changed nothing.
Crash ==
    /\ command = "diagnosing" \/ (command = "preprocessing" /\ Len(pending) < 4)
    /\ command' = "none" /\ export' = Absent /\ pending' = <<>> /\ loaded' = NoAssignment
    /\ UNCHANGED <<tiersFile, diagnostics, csv, whole, started>>

FileNext == Analyze \/ ReplaceTiers \/ ReplaceDiagnostics \/ Preprocess \/ WriteTier \/ Crash

FileSpec == FileInit /\ [][FileNext]_fileVars
-----------------------------------------------------------------------------
(* knob_loader, and properties.                                            *)

\* load_knob_space_for_tier: the files of the tier and of the broader ones that have knobs.
Fallbacks(tier) == {t \in Canonical : Index[t] >= Index[tier] /\ csv[t] # Missing}

Load(tier) ==
    IF Fallbacks(tier) = {} THEN {}
    ELSE csv[CHOOSE t \in Fallbacks(tier) : \A u \in Fallbacks(tier) : Index[t] <= Index[u]]

\* When one command has cut all the files, a tier loads with every tunable knob the
\* analysis put in it or in a narrower one, a narrower tier loads within a broader one,
\* whatever files earlier analyses had left, and no tier is without knobs.
LoadedTiersNest ==
    whole = "yes" =>
        LET space == [tier \in Canonical |-> Load(tier)]
        IN  \A tier \in Canonical :
                /\ space[tier] # {}
                /\ TierFrame(loaded, tier) \subseteq space[tier]
                /\ \A narrower \in Canonical :
                       Index[narrower] <= Index[tier] => space[narrower] \subseteq space[tier]
-----------------------------------------------------------------------------
(* What does not hold.                                                     *)

\* The same of files that a killed command has left, or one that could not unlink.
AlwaysNested ==
    \A tier, narrower \in Canonical :
        Index[narrower] <= Index[tier] => Load(narrower) \subseteq Load(tier)

\* The diagnostics found beside the tiers are those of the same analysis: "boruta_hits ...
\* {} on legacy / missing-sibling" (scalpel-diagnostics.md:333).
DiagnosticsAreOfTheTiers ==
    command = "none" => diagnostics # "stale"

\* A tier holds knobs.
TiersAreKnobs == DOMAIN tiersFile.tiers \subseteq Knobs
=============================================================================
