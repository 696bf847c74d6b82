--------------------------- MODULE MC_DomainConfig ---------------------------
(***************************************************************************)
(* One chain configuration at a time through AetheriumDomain::from_config: *)
(* known ids with their own, another known or an unknown name, in lower or *)
(* mixed case, and unknown ids with known and unknown names.               *)
(***************************************************************************)
EXTENDS DomainConfig

CONSTANTS ReorgTooBig, Finalized

\* Ethereum, bsc, bsctestnet, the Fuel and a Sealevel test chain, and 777
ConfigIds == {1, 56, 97, 13374, 1399811149, 777}

\* bsc's strum name and its variant's plain name, and a name no domain has
ConfigNames == [letters : {"ethereum", "bsc", "binancesmartchain", "fueltest1",
                           "solanamainnet", "mychain"},
                upper : BOOLEAN]

ChainConfigs == [id : ConfigIds, name : ConfigNames,
                 protocol : {"Ethereum", "Sealevel"}, stack : {"Other", "OpStack"}]

VARIABLES cfg, parsed

Init == cfg \in ChainConfigs /\ parsed = [tag |-> "NotRun"]

(* from_config on the chain's configured fields. *)
Parse ==
    /\ parsed = [tag |-> "NotRun"]
    /\ parsed' = FromConfig(cfg.id, cfg.name, cfg.protocol, cfg.stack)
    /\ UNCHANGED cfg

Spec == Init /\ [][Parse]_<<cfg, parsed>>

(***************************************************************************)
(* from_config is sound: an accepted domain has the configured id and the  *)
(* lowercased configured name, and an Unknown domain (of type Unknown)     *)
(* neither reuses a known id nor takes a known name, so it can never       *)
(* stand in for a known chain.                                             *)
(***************************************************************************)
FromConfigSound ==
    parsed.tag = "Ok" =>
        /\ DomainId(parsed.domain) = cfg.id
        /\ DomainName(parsed.domain) = Lower(cfg.name)
        /\ parsed.domain.kind = "Unknown" =>
              /\ cfg.id \notin KnownIds
              /\ cfg.name.letters \notin KnownNames
              /\ DomainType(parsed.domain) = "Unknown"

(***************************************************************************)
(* from_config is complete: it accepts every configuration whose id and    *)
(* name agree, whatever the case of the name: a known id with its own      *)
(* name in any case, or an id and a name that are both unknown.  Only a    *)
(* known id under another name, or a known name under an unknown id, is   *)
(* rejected.                                                               *)
(***************************************************************************)
Consistent(c) ==
    IF c.id \in KnownIds THEN c.name.letters = VariantOf(c.id)
    ELSE c.name.letters \notin KnownNames

FromConfigComplete ==
    parsed.tag # "NotRun" => (parsed.tag = "Ok" <=> Consistent(cfg))

=============================================================================
