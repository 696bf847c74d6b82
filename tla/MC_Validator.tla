----------------------------- MODULE MC_Validator -----------------------------
(***************************************************************************)
(* The validator agent's own components, which share no state:             *)
(*   "domain"    AetheriumDomain::from_config on one chain entry           *)
(*               (MC_DomainConfig);                                        *)
(*   "settings"  ValidatorSettings::from_config_filtered on a validator    *)
(*               configuration over three chains;                          *)
(*   "node"      the EigenLayer node API serving while the validator's     *)
(*               tasks move its checkpoint gauges.                         *)
(* A behaviour exercises one of them (part) from every bounded starting    *)
(* point; the variables of the others keep their initial values.           *)
(***************************************************************************)
EXTENDS MC_DomainConfig

CONSTANTS AbsentKey, InvalidValue, NoInput

VARIABLES part, raw, result, observed, processed, restarts, response

svars == <<raw, result>>
evars == <<observed, processed, restarts, response>>
allvars == <<part, cfg, parsed, raw, result, observed, processed, restarts, response>>

\* Ethereum and Neutron (known, EVM and Cosmos) and an unknown Sealevel chain.
SettingsChains == {"ethereum", "neutron", "mychain"}

\* The domains base settings built with from_config for the chains.
SettingsDomains ==
    [n \in SettingsChains |->
        FromConfig(IF n = "mychain" THEN 777 ELSE KnownId[n],
                   [letters |-> n, upper |-> FALSE], "Sealevel", "Other").domain]

SettingsReorgInputs ==
    {[json |-> "Num", value |-> v] : v \in {0, 12, -1, ReorgTooBig}}
      \cup {[json |-> "Str", value |-> v] : v \in {0, 12, ReorgTooBig, Finalized}}

S == INSTANCE ValidatorSettings
        WITH Absent <- AbsentKey, Invalid <- InvalidValue,
             ChainNames <- SettingsChains, ChainDomains <- SettingsDomains,
             ReorgInputs <- SettingsReorgInputs, Intervals <- {30}

\* Gauges up to 12, so that lags 0, 1, 2, 10, 11 and 12 all occur; one
\* restart; a known and an unknown service id.
E == INSTANCE EigenNodeApi
        WITH MaxCheckpoint <- 12, MaxRestarts <- 1,
             ServiceIds <- {"aetherium-validator-indexer", "unknown"}

ValidatorInit ==
    /\ part \in {"domain", "settings", "node"}
    /\ IF part = "domain" THEN Init
       ELSE cfg = NoInput /\ parsed = [tag |-> "NotRun"]
    /\ IF part = "settings" THEN S!Init
       ELSE raw = NoInput /\ result = S!NotRun
    /\ E!Init

ValidatorNext ==
    \/ part = "domain" /\ Parse /\ UNCHANGED <<part, svars, evars>>
    \/ part = "settings" /\ S!Load /\ UNCHANGED <<part, cfg, parsed, evars>>
    \/ part = "node" /\ E!Next /\ UNCHANGED <<part, cfg, parsed, svars>>

ValidatorSpec == ValidatorInit /\ [][ValidatorNext]_allvars

(* ValidatorSettings: loaded settings take each value from its key. *)
SettingsFromTheirKeys == S!SettingsFromTheirKeys

(* ValidatorSettings: the reorg period is usable as blocks exactly when *)
(* it was configured as a number.                                         *)
ReorgPeriodUsable == S!ReorgPeriodUsable

(* ValidatorSettings: the loaded reorg period survives serde. *)
ReorgRoundTrip == S!ReorgRoundTrip

(* EigenNodeApi: reported health improves only after signing. *)
HealthImprovesOnlyBySigning == E!HealthImprovesOnlyBySigning

=============================================================================
