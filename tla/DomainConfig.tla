---------------------------- MODULE DomainConfig ----------------------------
(***************************************************************************)
(* Domains and reorg periods (aetherium-core/src/chain.rs).                *)
(*                                                                         *)
(* A domain is Known (a KnownAetheriumDomain, whose type, protocol and     *)
(* technical stack come from the many_to_one tables) or Unknown (a         *)
(* user-configured id and name with the protocol and stack from the        *)
(* config).  AetheriumDomain::from_config decides between the two from a   *)
(* chain's configured id and name.  Domains compare and hash by id alone.  *)
(*                                                                         *)
(* A ReorgPeriod is None, Blocks(k) for k > 0, or Tag(t); it is read from  *)
(* a JSON number or string and written back by Serialize.                  *)
(*                                                                         *)
(* A configured name is abstracted to its lowercase letters and whether    *)
(* any of them was upper case: to_ascii_lowercase and strum's              *)
(* ascii_case_insensitive parsing only look at that.  A JSON value is      *)
(* [json |-> "Num" or "Str", value |-> v] where v is an integer, TooBig    *)
(* (a number above u32::MAX, written in decimal when a string) or a word   *)
(* (a string that is not a number).                                        *)
(***************************************************************************)
EXTENDS Integers, TLC

CONSTANTS
    TooBig,        \* a decimal value above u32::MAX
    Words          \* strings that are not decimal numbers, e.g. "finalized"

(* KnownAetheriumDomain: strum's lowercase name of each variant (bsc and   *)
(* bsctestnet by their serialize attribute) and its discriminant, the id.  *)
KnownId ==
    "ancient8" :> 888888888 @@ "arbitrum" :> 42161 @@ "avalanche" :> 43114 @@
    "bsc" :> 56 @@ "blast" :> 81457 @@ "bob" :> 60808 @@ "celo" :> 42220 @@
    "cheesechain" :> 383353 @@ "cyber" :> 7560 @@
    "degenchain" :> 666666666 @@ "eclipsemainnet" :> 1408864445 @@
    "endurance" :> 648 @@ "ethereum" :> 1 @@ "fraxtal" :> 252 @@
    "fuji" :> 43113 @@ "fusemainnet" :> 122 @@ "gnosis" :> 100 @@
    "inevm" :> 2525 @@ "injective" :> 6909546 @@ "kroma" :> 255 @@
    "linea" :> 59144 @@ "lisk" :> 1135 @@ "lukso" :> 42 @@
    "mantapacific" :> 169 @@ "mantle" :> 5000 @@ "merlin" :> 4200 @@
    "metis" :> 1088 @@ "mint" :> 185 @@ "mode" :> 34443 @@
    "moonbeam" :> 1284 @@ "neutron" :> 1853125230 @@ "optimism" :> 10 @@
    "osmosis" :> 875 @@ "polygon" :> 137 @@ "proofofplay" :> 70700 @@
    "real" :> 111188 @@ "redstone" :> 690 @@ "sanko" :> 1996 @@
    "sei" :> 1329 @@ "solanamainnet" :> 1399811149 @@ "taiko" :> 167000 @@
    "tangle" :> 5845 @@ "treasure" :> 61166 @@ "viction" :> 88 @@
    "worldchain" :> 480 @@ "xai" :> 660279 @@ "xlayer" :> 196 @@
    "zetachain" :> 7000 @@ "zeronetwork" :> 543210 @@ "zklink" :> 810180 @@
    "zksync" :> 324 @@ "zircuit" :> 48900 @@ "zoramainnet" :> 7777777 @@
    "test1" :> 9913371 @@ "test2" :> 9913372 @@ "test3" :> 9913373 @@
    "fueltest1" :> 13374 @@ "sealeveltest1" :> 13375 @@
    "sealeveltest2" :> 13376 @@ "cosmostest99990" :> 99990 @@
    "cosmostest99991" :> 99991 @@ "abstracttestnet" :> 11124 @@
    "alfajores" :> 44787 @@ "bsctestnet" :> 97 @@ "chiado" :> 10200 @@
    "connextsepolia" :> 6398 @@ "holesky" :> 17000 @@
    "moonbasealpha" :> 1287 @@ "plumetestnet" :> 161221135 @@
    "scrollsepolia" :> 534351 @@ "sepolia" :> 11155111 @@
    "superpositiontestnet" :> 98985 @@ "treasuretopaz" :> 978658

KnownNames == DOMAIN KnownId

KnownIds == {KnownId[n] : n \in KnownNames}

(* KnownAetheriumDomain::domain_type *)
TestnetDomains ==
    {"alfajores", "bsctestnet", "chiado", "connextsepolia", "fuji",
     "holesky", "moonbasealpha", "plumetestnet", "scrollsepolia",
     "sepolia", "superpositiontestnet", "abstracttestnet", "treasuretopaz"}
LocalTestDomains ==
    {"test1", "test2", "test3", "fueltest1", "sealeveltest1",
     "sealeveltest2", "cosmostest99990", "cosmostest99991"}
KnownType(n) ==
    CASE n \in TestnetDomains   -> "Testnet"
      [] n \in LocalTestDomains -> "LocalTestChain"
      [] OTHER                  -> "Mainnet"

(* KnownAetheriumDomain::domain_protocol *)
KnownProtocol(n) ==
    CASE n = "fueltest1" -> "Fuel"
      [] n \in {"eclipsemainnet", "solanamainnet", "sealeveltest1",
                "sealeveltest2"} -> "Sealevel"
      [] n \in {"injective", "neutron", "osmosis", "cosmostest99990",
                "cosmostest99991"} -> "Cosmos"
      [] OTHER -> "Ethereum"

(* KnownAetheriumDomain::domain_technical_stack *)
KnownStack(n) ==
    CASE n \in {"arbitrum", "cheesechain", "degenchain", "inevm",
                "proofofplay", "real", "sanko", "xai", "connextsepolia",
                "plumetestnet", "superpositiontestnet"} -> "ArbitrumNitro"
      [] n \in {"ancient8", "blast", "bob", "cyber", "fraxtal", "kroma",
                "lisk", "mantapacific", "mantle", "metis", "mint", "mode",
                "optimism", "redstone", "worldchain", "zircuit",
                "zoramainnet"} -> "OpStack"
      [] n \in {"merlin", "xlayer"} -> "PolygonCDK"
      [] n \in {"moonbeam", "tangle"} -> "PolkadotSubstrate"
      [] n \in {"abstracttestnet", "treasure", "treasuretopaz",
                "zeronetwork", "zklink", "zksync"} -> "ZkSync"
      [] OTHER -> "Other"

(* The domain with the name's variant, or with the configured fields. *)
Known(n) == [kind |-> "Known", variant |-> n]
Unknown(id, name, protocol, stack) ==
    [kind |-> "Unknown", id |-> id, name |-> name, type |-> "Unknown",
     protocol |-> protocol, stack |-> stack]

(* to_ascii_lowercase *)
Lower(name) == [name EXCEPT !.upper = FALSE]

(* AetheriumDomain::id, name, domain_type, domain_protocol, domain_technical_stack *)
DomainId(d) == IF d.kind = "Known" THEN KnownId[d.variant] ELSE d.id
DomainName(d) ==
    IF d.kind = "Known" THEN [letters |-> d.variant, upper |-> FALSE] ELSE d.name
DomainType(d) == IF d.kind = "Known" THEN KnownType(d.variant) ELSE d.type
DomainProtocol(d) == IF d.kind = "Known" THEN KnownProtocol(d.variant) ELSE d.protocol
DomainStack(d) == IF d.kind = "Known" THEN KnownStack(d.variant) ELSE d.stack

(* AetheriumDomain::index_mode *)
IndexMode(d) ==
    IF DomainProtocol(d) \in {"Ethereum", "Cosmos"} THEN "Block" ELSE "Sequence"

(* PartialEq and Hash for AetheriumDomain: by id alone. *)
SameDomain(d1, d2) == DomainId(d1) = DomainId(d2)

(* KnownAetheriumDomain::try_from(u32): FromPrimitive over the discriminants. *)
VariantOf(id) == CHOOSE n \in KnownNames : KnownId[n] = id

OkDomain(d) == [tag |-> "Ok", domain |-> d]
ConfigError(e) == [tag |-> "Err", error |-> e]

(* Slip: a known id accepted whatever name the config gives it. *)
FromConfigNoNameCheck(id, name, protocol, stack) ==
    LET lname == Lower(name) IN
    IF id \in KnownIds THEN OkDomain(Known(VariantOf(id)))
    ELSE IF lname.letters \in KnownNames THEN ConfigError("DomainNameMismatch")
    ELSE OkDomain(Unknown(id, lname, protocol, stack))

(* Slip: the configured name compared without to_ascii_lowercase. *)
FromConfigCaseSensitive(id, name, protocol, stack) ==
    IF id \in KnownIds
    THEN IF name = DomainName(Known(VariantOf(id)))
         THEN OkDomain(Known(VariantOf(id)))
         ELSE ConfigError("UnknownDomainName")
    ELSE IF name.letters \in KnownNames THEN ConfigError("DomainNameMismatch")
    ELSE OkDomain(Unknown(id, Lower(name), protocol, stack))

(***************************************************************************)
(* AetheriumDomain::from_config: a known id needs its own name; an unknown *)
(* id may not take a known name; anything else is an Unknown domain of     *)
(* type Unknown under the lowercased name.                                 *)
(***************************************************************************)
FromConfig(id, name, protocol, stack) ==
    LET lname == Lower(name) IN
    IF id \in KnownIds
    THEN IF lname = DomainName(Known(VariantOf(id)))
         THEN OkDomain(Known(VariantOf(id)))
         ELSE ConfigError("UnknownDomainName")
    ELSE IF lname.letters \in KnownNames THEN ConfigError("DomainNameMismatch")
    ELSE OkDomain(Unknown(id, lname, protocol, stack))

-----------------------------------------------------------------------------
NoReorg == [tag |-> "None"]
Blocks(k) == [tag |-> "Blocks", blocks |-> k]   \* k > 0: a NonZeroU32
ReorgTag(t) == [tag |-> "Tag", text |-> t]

(* ReorgPeriod::from_blocks: NonZeroU32::try_from, None for 0. *)
FromBlocks(k) == IF k = 0 THEN NoReorg ELSE Blocks(k)

(* Slip: None treated as no block count. *)
AsBlocksNoneUnsupported(p) ==
    IF p.tag = "Blocks" THEN [ok |-> TRUE, blocks |-> p.blocks] ELSE [ok |-> FALSE]

(* ReorgPeriod::as_blocks *)
AsBlocks(p) ==
    CASE p.tag = "None"   -> [ok |-> TRUE, blocks |-> 0]
      [] p.tag = "Blocks" -> [ok |-> TRUE, blocks |-> p.blocks]
      [] p.tag = "Tag"    -> [ok |-> FALSE]

(* Slip: None written as JSON null (serialize_unit), as a derived       *)
(* Serialize of a unit variant would be in an untagged enum.               *)
SerializeReorgNoneAsNull(p) ==
    CASE p.tag = "None"   -> [json |-> "Null"]
      [] p.tag = "Blocks" -> [json |-> "Num", value |-> p.blocks]
      [] p.tag = "Tag"    -> [json |-> "Str", value |-> p.text]

(* Serialize for ReorgPeriod: serialize_u32 or serialize_str. *)
SerializeReorg(p) ==
    CASE p.tag = "None"   -> [json |-> "Num", value |-> 0]
      [] p.tag = "Blocks" -> [json |-> "Num", value |-> p.blocks]
      [] p.tag = "Tag"    -> [json |-> "Str", value |-> p.text]

(* str::parse::<u32>: decimal digits within u32. *)
ParsesU32(v) == v \notin Words \cup {TooBig} /\ v >= 0

OkReorg(p) == [tag |-> "Ok", period |-> p]
ReorgError == [tag |-> "Err"]

(* ReorgPeriodVisitor::visit_str: a u32 goes through visit_u32 (serde's    *)
(* default forwards it to visit_u64); anything else is kept as a Tag.      *)
VisitStr(v) ==
    IF ParsesU32(v) THEN OkReorg(FromBlocks(v)) ELSE OkReorg(ReorgTag(v))

(***************************************************************************)
(* Deserialize for ReorgPeriod through deserialize_any: a non-negative     *)
(* number reaches visit_u64 and fails try_into above u32::MAX; a negative  *)
(* one reaches visit_i64 and null reaches visit_unit, neither of which    *)
(* the visitor implements.                                                 *)
(***************************************************************************)
DeserializeReorg(x) ==
    CASE x.json = "Str"  -> VisitStr(x.value)
      [] x.json = "Null" -> ReorgError
      [] x.value = TooBig \/ x.value < 0 -> ReorgError
      [] OTHER -> OkReorg(FromBlocks(x.value))

=============================================================================
