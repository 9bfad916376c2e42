----------------------------- MODULE ComputeConfig -----------------------------
(***************************************************************************)
(* Which model, effort and service tier each compute lane uses             *)
(* (src/src/compute.rs): saved by the settings page, checked against a     *)
(* catalog that Codex delivers and that may be incomplete at startup.      *)
(***************************************************************************)
EXTENDS Naturals, FiniteSets

CONSTANTS
    Lanes,            \* ComputeLane
    SenseLane,        \* the lane that older files leave out
    Choices,          \* models with an effort and a tier
    TooSmall,         \* those below the Luna minimum
    Unset,            \* the choice of a lane a file leaves out
    MaxConfigEdits, MaxCatalogs, MaxStarts

VARIABLES
    catalog,          \* what Codex offers now
    config,           \* in memory
    configFile,       \* on disk
    configEdits,      \* updates under way, by request: what each still does, and with what
    up,               \* the program runs
    catalogs, starts

configVars == <<catalog, config, configFile, configEdits, up, catalogs, starts>>

-----------------------------------------------------------------------------
Settings == [Lanes -> Choices \cup {Unset}]
Updates == 1 .. MaxConfigEdits

Eligible == catalog \ TooSmall

\* lane_default of the preferred model that is there
Default == CHOOSE c \in Eligible : TRUE
Defaults == [lane \in Lanes |-> Default]

HydrateLegacySense(saved) ==
    [saved EXCEPT ![SenseLane] = IF @ = Unset THEN Default ELSE @]

MigrateLegacyLightweightModels(saved) ==
    [lane \in Lanes |-> IF saved[lane] \in TooSmall THEN Default ELSE saved[lane]]

Validate(settings) == \A lane \in Lanes : settings[lane] \in Eligible

Init ==
    /\ catalog \in SUBSET Choices
    /\ configFile \in {{}} \cup {{saved} : saved \in {s \in Settings : \A lane \in Lanes \ {SenseLane} : s[lane] # Unset}}
    /\ config = [lane \in Lanes |-> Unset]
    /\ configEdits = [r \in Updates |-> [step |-> "none", as |-> config]]
    /\ up = FALSE /\ catalogs = 0 /\ starts = 0

\* Codex sends its list again, complete or not.
CatalogChanges ==
    /\ catalogs < MaxCatalogs /\ catalogs' = catalogs + 1
    /\ catalog' \in SUBSET Choices \ {catalog}
    /\ UNCHANGED <<config, configFile, configEdits, up, starts>>

\* Mutant of Open: what cannot be used now is replaced by the defaults.
OpenWithDefaults(saved) ==
    LET upgraded == MigrateLegacyLightweightModels(HydrateLegacySense(saved))
    IN  /\ config' = IF Validate(upgraded) THEN upgraded ELSE Defaults
        /\ configFile' = {config'}

\* A saved choice the catalog does not know is kept, in memory and on disk.
Open(saved) ==
    LET upgraded == MigrateLegacyLightweightModels(HydrateLegacySense(saved))
    IN  /\ config' = upgraded
        /\ configFile' = IF Validate(upgraded) THEN {upgraded} ELSE configFile

\* The program does not start while Codex offers no model.
Start ==
    /\ ~up /\ starts < MaxStarts /\ starts' = starts + 1
    /\ Eligible # {}
    /\ \/ \E saved \in configFile : Open(saved)
       \/ configFile = {} /\ config' = Defaults /\ configFile' = {config'}
    /\ up' = TRUE
    /\ UNCHANGED <<catalog, configEdits, catalogs>>

Stop ==
    /\ up /\ up' = FALSE
    /\ configEdits' = [r \in Updates |->
                          IF configEdits[r].step = "none" THEN configEdits[r] ELSE [configEdits[r] EXCEPT !.step = "gone"]]
    /\ UNCHANGED <<catalog, config, configFile, catalogs, starts>>

-----------------------------------------------------------------------------
\* update: checked, ...
Check(r) ==
    /\ up /\ configEdits[r].step = "none" /\ Eligible # {}
    /\ \E draft \in Settings :
           LET settings == HydrateLegacySense(draft)
           IN  /\ Validate(settings)
               /\ configEdits' = [configEdits EXCEPT ![r] = [step |-> "checked", as |-> settings]]
    /\ UNCHANGED <<catalog, config, configFile, up, catalogs, starts>>

\* ... written to the file, ...
Persist(r) ==
    /\ configEdits[r].step = "checked"
    /\ configFile' = {configEdits[r].as}
    /\ configEdits' = [configEdits EXCEPT ![r].step = "persisted"]
    /\ UNCHANGED <<catalog, config, up, catalogs, starts>>

\* ... and used.
Use(r) ==
    /\ configEdits[r].step = "persisted"
    /\ config' = configEdits[r].as
    /\ configEdits' = [configEdits EXCEPT ![r].step = "gone"]
    /\ UNCHANGED <<catalog, configFile, up, catalogs, starts>>

Next == CatalogChanges \/ Start \/ Stop \/ \E r \in Updates : Check(r) \/ Persist(r) \/ Use(r)

Spec == Init /\ [][Next]_configVars

-----------------------------------------------------------------------------
\* "Never replace a user's saved choices with defaults because of one snapshot" (compute.rs, open): whatever
\* the catalog is when the program starts, a choice in the file stays, in the file and in memory, unless it is
\* below the minimum.
ChoicesStay ==
    [][\A saved \in configFile, lane \in Lanes :
          ~up /\ up' /\ saved[lane] \notin TooSmall \cup {Unset} =>
              /\ config'[lane] = saved[lane]
              /\ \A written \in configFile' : written[lane] = saved[lane]]_configVars

\* Refuted by the code: with no update under way, what is used is what is saved.  Two updates may write the
\* file and the memory in different orders.
SavedIsUsed ==
    up /\ (\A r \in Updates : configEdits[r].step \in {"none", "gone"}) =>
        \A saved \in configFile : \A lane \in Lanes :
            config[lane] = saved[lane] \/ saved[lane] \in TooSmall \cup {Unset}

\* Refuted by the code: what is used is on offer.  The catalog may change after it was checked.
UsedIsOffered == up => Validate(config)
=============================================================================
