--------------------------- MODULE MC_MessageCodec ---------------------------
(***************************************************************************)
(* Inputs for MessageCodec: a small set of messages whose fields exercise  *)
(* every byte position of the integer fields, the zero address and a       *)
(* non-symmetric one, and bodies of length 0, 1 and 2.                     *)
(***************************************************************************)
EXTENDS MessageCodec

CodecVersions == {0, 3, 255}
\* 0x00000000, 0x00000102, 0x7F000000: a zero, low bytes set, high byte set
CodecNonces == {0, 258, 2130706432}
\* Ethereum (1) and SolanaMainnet (1399811149) from KnownAetheriumDomain
CodecDomains == {1, 1399811149}
ZeroAddress == [k \in 1..32 |-> 0]
CountingAddress == [k \in 1..32 |-> k]
CodecAddresses == {ZeroAddress, CountingAddress}
CodecBodies == {<<>>, <<0>>, <<1, 2>>}
\* empty, one byte, one short of the header, exactly the header, header + 1
CodecCuts == {0, 1, 76, 77, 78}

=============================================================================
