---------------------------- MODULE MessageCodec ----------------------------
(***************************************************************************)
(* The Aetherium message envelope and its wire codec                       *)
(* (aetherium-core/src/types/message.rs).                                  *)
(*                                                                         *)
(* A message is written as                                                 *)
(*   version(1) | nonce(4, BE) | origin(4, BE) | sender(32) |              *)
(*   destination(4, BE) | recipient(32) | body                             *)
(* and there are two decoders: From<&RawAetheriumMessage>, which indexes   *)
(* the vector directly, and Decode::read_from, which reads it through      *)
(* read_exact.  A raw message reaches a decoder either as the encoding of  *)
(* a message or as a byte vector of some other length (a prefix of one).   *)
(*                                                                         *)
(* Bytes are integers 0..255; a 32-byte identifier is a sequence of 32     *)
(* bytes.  The Keccak identifier of the encoding is not modelled.          *)
(***************************************************************************)
EXTENDS Integers, Sequences, SequencesExt

CONSTANTS
    Versions,      \* u8 values of version
    Nonces,        \* u32 values of nonce
    Domains,       \* u32 domain ids for origin and destination
    Addresses,     \* 32-byte identifiers for sender and recipient
    Bodies,        \* byte sequences for body
    Cuts           \* lengths of raw vectors that are not whole encodings

\* AETHERIUM_MESSAGE_PREFIX_LEN
PrefixLen == 77

Messages == [version : Versions, nonce : Nonces, origin : Domains,
             sender : Addresses, destination : Domains,
             recipient : Addresses, body : Bodies]

ASSUME /\ Versions \subseteq 0..255
       \* TLC's integers stop at 2^31 - 1, below u32::MAX
       /\ Nonces \cup Domains \subseteq 0..2147483647
       /\ \A a \in Addresses : a \in [1..32 -> 0..255]
       /\ Bodies \subseteq Seq(0..255)
       /\ Cuts \subseteq Nat

(* Slip: the bytes of an integer written without masking to 8 bits. *)
ToBEUnmasked(x, n) == [k \in 1..n |-> x \div 256^(n - k)]

(* x.to_be_bytes() for an n-byte integer: most significant byte first. *)
ToBE(x, n) == [k \in 1..n |-> (x \div 256^(n - k)) % 256]

(* Slip: a decoder reading an integer least significant byte first. *)
FromLE(bytes) == FoldRight(LAMBDA b, acc : b + acc * 256, bytes, 0)

(* u32::from_be_bytes (and u8::from_be_bytes for one byte). *)
FromBE(bytes) == FoldLeft(LAMBDA acc, b : acc * 256 + b, 0, bytes)

(* Encode::write_to: the fields in order, then the body. *)
Encode(m) ==
    ToBE(m.version, 1) \o ToBE(m.nonce, 4) \o ToBE(m.origin, 4) \o m.sender
      \o ToBE(m.destination, 4) \o m.recipient \o m.body

(* Outcomes of a decoder: a message, a panic, an error; NotRun before it runs. *)
Ok(m) == [tag |-> "Ok", msg |-> m]
Panic == [tag |-> "Panic"]
Err == [tag |-> "Err"]
NotRun == [tag |-> "NotRun"]

(* The bytes r[a..b) of Rust's slice syntax, as a 1-based subsequence. *)
Slice(r, a, b) == SubSeq(r, a + 1, b)

(* Slip: the body taken from one byte before the end of the header. *)
FromRawBodyOffByOne(r) ==
    IF Len(r) < PrefixLen THEN Panic
    ELSE Ok([version |-> r[1], nonce |-> FromBE(Slice(r, 1, 5)),
             origin |-> FromBE(Slice(r, 5, 9)), sender |-> Slice(r, 9, 41),
             destination |-> FromBE(Slice(r, 41, 45)),
             recipient |-> Slice(r, 45, 77), body |-> Slice(r, 76, Len(r))])

(***************************************************************************)
(* From<&RawAetheriumMessage>: m[0], m[1..5], ..., m[45..77] and m[77..]. *)
(* Indexing or slicing past the end of the vector panics; the first index *)
(* to fail is m[0] on an empty vector and a slice end on any other short  *)
(* one, so every vector shorter than the header panics.                   *)
(***************************************************************************)
FromRaw(r) ==
    IF Len(r) < PrefixLen THEN Panic
    ELSE Ok([version |-> r[1], nonce |-> FromBE(Slice(r, 1, 5)),
             origin |-> FromBE(Slice(r, 5, 9)), sender |-> Slice(r, 9, 41),
             destination |-> FromBE(Slice(r, 41, 45)),
             recipient |-> Slice(r, 45, 77), body |-> Slice(r, 77, Len(r))])

(***************************************************************************)
(* Decode::read_from: read_exact of 1, 4, 4, 32, 4 and 32 bytes, each      *)
(* failing with UnexpectedEof (an AetheriumProtocolError) when the reader  *)
(* runs out, then read_to_end for the body.                                *)
(***************************************************************************)
ReadFrom(r) ==
    IF Len(r) < PrefixLen THEN Err
    ELSE Ok([version |-> FromBE(Slice(r, 0, 1)), nonce |-> FromBE(Slice(r, 1, 5)),
             origin |-> FromBE(Slice(r, 5, 9)), sender |-> Slice(r, 9, 41),
             destination |-> FromBE(Slice(r, 41, 45)),
             recipient |-> Slice(r, 45, 77), body |-> Slice(r, 77, Len(r))])

VARIABLES
    msg,       \* the message the raw vector was made from
    stage,     \* "Start" before a raw vector exists, "Raw" after
    raw,       \* the RawAetheriumMessage handed to the decoders
    written,   \* the byte count write_to returned
    fromRaw,   \* outcome of AetheriumMessage::from(&raw)
    readFrom   \* outcome of AetheriumMessage::read_from(&mut &raw[..])

vars == <<msg, stage, raw, written, fromRaw, readFrom>>

Init ==
    /\ msg \in Messages
    /\ stage = "Start"
    /\ raw = <<>>
    /\ written = 0
    /\ fromRaw = NotRun
    /\ readFrom = NotRun

(* RawAetheriumMessage::from(&message): write_to into an empty vector. *)
WriteTo ==
    /\ stage = "Start"
    /\ raw' = Encode(msg)
    /\ written' = PrefixLen + Len(msg.body)
    /\ stage' = "Raw"
    /\ UNCHANGED <<msg, fromRaw, readFrom>>

(* A raw vector of another length, cut from the message's encoding. *)
Truncated(n) ==
    /\ stage = "Start"
    /\ n < Len(Encode(msg))
    /\ raw' = SubSeq(Encode(msg), 1, n)
    /\ stage' = "Raw"
    /\ UNCHANGED <<msg, written, fromRaw, readFrom>>

DecodeFromRaw ==
    /\ stage = "Raw" /\ fromRaw = NotRun
    /\ fromRaw' = FromRaw(raw)
    /\ UNCHANGED <<msg, stage, raw, written, readFrom>>

DecodeReadFrom ==
    /\ stage = "Raw" /\ readFrom = NotRun
    /\ readFrom' = ReadFrom(raw)
    /\ UNCHANGED <<msg, stage, raw, written, fromRaw>>

Next ==
    \/ WriteTo
    \/ \E n \in Cuts : Truncated(n)
    \/ DecodeFromRaw
    \/ DecodeReadFrom

Spec == Init /\ [][Next]_vars

-----------------------------------------------------------------------------
\* What a decoder can return for an arbitrary long-enough vector.
Decoded == [version : 0..255, nonce : Nat, origin : Nat,
            sender : [1..32 -> 0..255], destination : Nat,
            recipient : [1..32 -> 0..255], body : Seq(0..255)]

IsOutcome(x, failure) ==
    x \in {failure, NotRun} \/ (x.tag = "Ok" /\ x.msg \in Decoded)

TypeOK ==
    /\ msg \in Messages
    /\ stage \in {"Start", "Raw"}
    /\ raw \in Seq(0..255)
    /\ written \in Nat
    /\ IsOutcome(fromRaw, Panic)
    /\ IsOutcome(readFrom, Err)

(***************************************************************************)
(* Round trip: decoding the bytes write_to produced, with either decoder,  *)
(* gives back every field of the message, and write_to reported the number *)
(* of bytes it wrote (big-endian write_to against from_be_bytes).          *)
(***************************************************************************)
RoundTrip ==
    stage = "Raw" /\ raw = Encode(msg) =>
        /\ written = Len(raw)
        /\ fromRaw \in {NotRun, Ok(msg)}
        /\ readFrom \in {NotRun, Ok(msg)}

(***************************************************************************)
(* The two decoders agree: on any raw vector both of them accept, From and *)
(* read_from produce the same message, whatever its length.                *)
(***************************************************************************)
DecodersAgree ==
    fromRaw.tag = "Ok" /\ readFrom.tag = "Ok" => fromRaw = readFrom

(***************************************************************************)
(* Section 4.1 of the specification: decoding fails with a length error    *)
(* when fewer than 77 header bytes are present; From<&RawAetheriumMessage> *)
(* should then not panic.                                                  *)
(***************************************************************************)
ShortInputIsError ==
    fromRaw # Panic

=============================================================================
