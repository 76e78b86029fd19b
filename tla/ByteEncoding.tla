---------------------------- MODULE ByteEncoding ----------------------------
(***************************************************************************)
(* The 32-bit numbers of headers and payloads as bytes, the way memcpy     *)
(* stores them in a buffer and reads them back.                            *)
(***************************************************************************)
EXTENDS Integers, Sequences

Byte == 0 .. 255

(* A number as the machine stores it, least byte first.                    *)
Uint32(n) == <<n % 256, (n \div 256) % 256, (n \div 65536) % 256,
               (n \div 16777216) % 256>>

AsUint32(b) == b[1] + 256 * b[2] + 65536 * b[3] + 16777216 * b[4]

(* The numbers that 32 bits hold.                                          *)
FitsUint32(n) == n \in Nat /\ n \div 16777216 <= 255
=============================================================================
