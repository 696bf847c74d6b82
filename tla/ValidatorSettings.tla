------------------------- MODULE ValidatorSettings -------------------------
(***************************************************************************)
(* Loading the validator's settings (agents/validator/src/settings.rs):    *)
(* ValidatorSettings::from_config_filtered and parse_checkpoint_syncer.    *)
(*                                                                         *)
(* The parser collects errors: every field parsed through                  *)
(* p.chain(&mut err) records its error in err and yields None; the         *)
(* cfg_unwrap_all! checkpoints return Err(err) as soon as one of the       *)
(* fields they name is None; err.into_result returns the settings only     *)
(* when err is empty.  A raw field is Absent, Invalid (present but not     *)
(* parsable) or a valid value.                                             *)
(*                                                                         *)
(* The base agent settings are parsed by aetherium_base, outside this      *)
(* repository's sources: here they are valid or not, and when valid they   *)
(* hold the configured chains, each with the domain from_config built and  *)
(* whether it already has a signer.                                        *)
(***************************************************************************)
EXTENDS Integers, FiniteSets, DomainConfig

CONSTANTS
    Absent, Invalid,   \* a missing key; a present value that does not parse
    ChainNames,        \* configured chain names (lowercase)
    ChainDomains,      \* chain name -> the domain base settings built for it
    ReorgInputs,       \* JSON values of chains.<origin>.blocks.reorgPeriod
    Intervals          \* valid values of interval, in seconds

SyncerTypes == {"localStorage", "s3", "gcs", "other"}

(* A raw validator configuration. *)
RawSettings ==
    [originChainName : ChainNames \cup {Absent, Invalid, "unlisted"},
     baseValid : BOOLEAN,
     chainSigner : [ChainNames -> BOOLEAN],
     validator : {Absent, Invalid, "signer"},
     db : {Absent, Invalid, "path"},
     syncer : {Absent} \cup [type : SyncerTypes \cup {Absent},
                               complete : BOOLEAN],
     interval : Intervals \cup {Absent, Invalid},
     reorgPeriod : ReorgInputs \cup {Absent}]

VARIABLES
    raw,       \* the configuration handed to from_config_filtered
    result     \* NotRun, or its ConfigResult: Ok(settings) or Err(errors)

vars == <<raw, result>>

NotRun == [tag |-> "NotRun"]

(* A required key: absent or invalid is an error. *)
Required(v) == IF v \in {Absent, Invalid} THEN [val |-> Absent, err |-> TRUE]
               ELSE [val |-> v, err |-> FALSE]

(* Slip: an unparsable optional value falls back to its default silently. *)
OptionalUnchecked(v, default) ==
    IF v \in {Absent, Invalid} THEN [val |-> default, err |-> FALSE]
    ELSE [val |-> v, err |-> FALSE]

(* An optional key: absent takes the default; invalid records the error   *)
(* and still takes the default (unwrap_or / unwrap_or_else after .end()). *)
Optional(v, default) ==
    CASE v = Absent  -> [val |-> default, err |-> FALSE]
      [] v = Invalid -> [val |-> default, err |-> TRUE]
      [] OTHER       -> [val |-> v, err |-> FALSE]

(* parse_checkpoint_syncer: a known type needs its required keys (path;   *)
(* bucket and region; bucket); another type or a missing type is an       *)
(* error.                                                                  *)
Syncer(s) ==
    IF s = Absent \/ s.type \in {Absent, "other"} \/ ~s.complete
    THEN [val |-> Absent, err |-> TRUE]
    ELSE [val |-> s.type, err |-> FALSE]

(* The reorg period at chains.<origin>.blocks.reorgPeriod, defaulting to  *)
(* ReorgPeriod::from_blocks(1); parse_value runs DeserializeReorg.         *)
ReorgSetting(v) ==
    IF v = Absent THEN [val |-> FromBlocks(1), err |-> FALSE]
    ELSE LET d == DeserializeReorg(v) IN
         IF d.tag = "Ok" THEN [val |-> d.period, err |-> FALSE]
         ELSE [val |-> FromBlocks(1), err |-> TRUE]

Settings(r) ==
    [originChain |-> ChainDomains[r.originChainName],
     signerSet |-> r.chainSigner[r.originChainName]
                   \/ DomainProtocol(ChainDomains[r.originChainName]) = "Ethereum",
     db |-> Optional(r.db, "validator_db").val,
     syncer |-> Syncer(r.syncer).val,
     interval |-> Optional(r.interval, 5).val,
     reorgPeriod |-> ReorgSetting(r.reorgPeriod).val]

(***************************************************************************)
(* from_config_filtered.  Errors of originChainName, base, the origin      *)
(* lookup, validator, db, checkpointSyncer and interval are collected;     *)
(* without a name the first cfg_unwrap_all! returns them.  The reorg       *)
(* period comes next (the chains entry of an unlisted name is itself a     *)
(* missing key), then the second checkpoint, then the signer: an EVM       *)
(* origin chain without a signer gets the validator's.                     *)
(***************************************************************************)
FromConfigFiltered(r) ==
    LET name == Required(r.originChainName)
        listed == name.val \in ChainNames
        lookupErr == ~name.err /\ r.baseValid /\ ~listed
        early == {f \in {"originChainName", "base", "originChain", "validator",
                         "db", "checkpointSyncer", "interval"} :
                    CASE f = "originChainName"  -> name.err
                      [] f = "base"             -> ~r.baseValid
                      [] f = "originChain"      -> lookupErr
                      [] f = "validator"        -> Required(r.validator).err
                      [] f = "db"               -> Optional(r.db, "validator_db").err
                      [] f = "checkpointSyncer" -> Syncer(r.syncer).err
                      [] f = "interval"         -> Optional(r.interval, 5).err}
        reorgErr == ~listed \/ ReorgSetting(r.reorgPeriod).err
        errs == early \cup (IF reorgErr THEN {"reorgPeriod"} ELSE {})
    IN  CASE name.err -> [tag |-> "Err", errors |-> early]
          [] errs # {} -> [tag |-> "Err", errors |-> errs]
          [] OTHER     -> [tag |-> "Ok", settings |-> Settings(r)]

Init ==
    /\ raw \in RawSettings
    /\ result = NotRun

Load ==
    /\ result = NotRun
    /\ result' = FromConfigFiltered(raw)
    /\ UNCHANGED raw

Next == Load

Spec == Init /\ [][Next]_vars

-----------------------------------------------------------------------------
(* A decimal reorg period within u32, as a JSON number or a string. *)
NumericReorg(v) ==
    v \notin {Absent} /\ v.value \notin Words \cup {TooBig} /\ v.value >= 0

(***************************************************************************)
(* Every setting comes from its key: loaded settings hold the configured   *)
(* origin chain, db, interval and reorg period, and a default only where   *)
(* the key is absent, never in place of a value that did not parse (the    *)
(* unwrap_or and unwrap_or_else fallbacks after an error).                 *)
(***************************************************************************)
SettingsFromTheirKeys ==
    result.tag = "Ok" =>
        LET s == result.settings IN
        /\ s.originChain = ChainDomains[raw.originChainName]
        /\ s.db = IF raw.db = Absent THEN "validator_db" ELSE raw.db
        /\ s.interval = IF raw.interval = Absent THEN 5 ELSE raw.interval
        /\ IF raw.reorgPeriod = Absent THEN s.reorgPeriod = FromBlocks(1)
           ELSE DeserializeReorg(raw.reorgPeriod) = OkReorg(s.reorgPeriod)

(***************************************************************************)
(* The loaded reorg period is usable as a block count exactly when it was  *)
(* configured as one: as_blocks gives the configured number (1 when       *)
(* absent, 0 for None) for a decimal within u32, whether written as a      *)
(* number or a string, and fails only for a tag such as "finalized" or a  *)
(* decimal string too large for u32.                                       *)
(***************************************************************************)
ReorgPeriodUsable ==
    result.tag = "Ok" =>
        LET b == AsBlocks(result.settings.reorgPeriod) IN
        CASE raw.reorgPeriod = Absent       -> b = [ok |-> TRUE, blocks |-> 1]
          [] NumericReorg(raw.reorgPeriod) ->
                b = [ok |-> TRUE, blocks |-> raw.reorgPeriod.value]
          [] OTHER                          -> ~b.ok

(***************************************************************************)
(* The loaded reorg period survives Serialize and Deserialize unchanged,   *)
(* so writing the settings back and reading them gives the same period:   *)
(* None is written as the number 0, which from_blocks reads back as None, *)
(* and a tag that looks like a too-big number stays a tag.                *)
(***************************************************************************)
ReorgRoundTrip ==
    result.tag = "Ok" =>
        DeserializeReorg(SerializeReorg(result.settings.reorgPeriod))
            = OkReorg(result.settings.reorgPeriod)


=============================================================================
