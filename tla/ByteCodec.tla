------------------------------ MODULE ByteCodec ------------------------------
(***************************************************************************)
(* The integer encodings of bytearray.cpp: fixed-length integers in either *)
(* byte order, variable-length ones (7 payload bits and a continuation bit *)
(* to a byte) and the zigzag map of signed to unsigned.                    *)
(*                                                                         *)
(* The sizes are parameters: the code has PayloadBits = 7 and Width = 32   *)
(* or 64 for the variable-length integers, and fixed lengths of 8 to 64    *)
(* bits.  A byte has PayloadBits + 1 bits.  All arithmetic is modulo       *)
(* 2^Width, which is also what the build makes of the two overflows of int *)
(* in EncodeZigzag32 (-v of the least integer, v * 2 from 2^30 on).        *)
(***************************************************************************)
EXTENDS Integers, Sequences

CONSTANTS PayloadBits, Width

ASSUME ByteCodecAssumption ==
  PayloadBits \in Nat \ {0} /\ Width \in Nat \ {0} /\ Width % (PayloadBits + 1) = 0

Payload == 2^PayloadBits
Byte == 0 .. 2 * Payload - 1
Modulus == 2^Width
FixedBytes == Width \div (PayloadBits + 1)     \* sizeof(value)

\* The bytes of an unsigned integer in memory: the machine is little-endian.
HostBytes(v) == [i \in 1..FixedBytes |-> (v \div (2 * Payload)^(i - 1)) % (2 * Payload)]
HostValue(bs) ==
  LET sum[i \in 0..FixedBytes] == IF i = 0 THEN 0 ELSE sum[i - 1] + bs[i] * (2 * Payload)^(i - 1)
  IN sum[FixedBytes]

byteswap(bs) == [i \in 1..Len(bs) |-> bs[Len(bs) + 1 - i]]
InOrder(bs, little) == IF little THEN bs ELSE byteswap(bs)

\* writeUint32, writeUint64: the low groups first, each but the last with the bit set.
Varint(v) ==
  LET groups[u \in Nat] ==
        IF u < Payload THEN <<u>> ELSE <<(u % Payload) + Payload>> \o groups[u \div Payload]
  IN groups[v]

EncodeZigzag_NoMinusOne(v) ==
  IF v < 0 THEN (((-v) % Modulus) * 2) % Modulus ELSE (v * 2) % Modulus

EncodeZigzag(v) ==
  IF v < 0 THEN (((-v) % Modulus) * 2 - 1) % Modulus ELSE (v * 2) % Modulus

\* (v >> 1) ^ -(v & 1), read as a signed integer.
DecodeZigzag(v) ==
  LET u == IF v % 2 = 0 THEN v \div 2 ELSE Modulus - 1 - v \div 2
  IN IF u >= Modulus \div 2 THEN u - Modulus ELSE u
=============================================================================
