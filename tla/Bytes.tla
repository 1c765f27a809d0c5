-------------------------------- MODULE Bytes --------------------------------
(***************************************************************************)
(* Integers as C++ keeps them in the bytes of a CAN frame: little endian,  *)
(* two's complement.                                                       *)
(***************************************************************************)
EXTENDS Integers, Sequences

Byte == 0..255
Short == {n \in Int : 0 <= n + 32768 /\ n < 32768}
UShort == {n \in Int : 0 <= n /\ n < 65536}

Int32 == {n \in Int : -2147483647 - 1 <= n /\ n <= 2147483647}

\* The bytes above the low four, and the integers of seven bytes.
High(n) == (n \div 65536) \div 65536
Int56 == {n \in Int : 0 <= High(n) + 8388608 /\ High(n) < 8388608}

\* The integers up to size n, of either sign.
Within(n) == {i \in Int : -n <= i /\ i <= n}

\* The conversion to uint16_t.
Wrap16(n) == n % 65536

\* The conversion to int16_t.
ToInt16(n) == ((n + 32768) % 65536) - 32768

\* The product of an int32_t and a small positive number, as an int32_t: the
\* halves of n are multiplied apart, so that nothing leaves 32 bits.
Times32(n, factor) ==
    LET low == (n % 65536) * factor
        high == (n \div 65536) * factor + low \div 65536
    IN  ToInt16(high) * 65536 + (low % 65536)

\* Division of C: towards zero.
Quotient(n, d) == IF n >= 0 THEN n \div d ELSE -((-n) \div d)

\* The low bytes of n, as n, n >> 8, n >> 16, n >> 24 stored in bytes leave them.
Low2(n) == <<n % 256, (n \div 256) % 256>>

\* Fault: the sign of n stays in the high byte.
Low4Uncut(n) == <<n % 256, (n \div 256) % 256, (n \div 65536) % 256, n \div 16777216>>

Low4(n) == <<n % 256, (n \div 256) % 256, (n \div 65536) % 256, (n \div 16777216) % 256>>

Low7(n) ==
    Low2(n) \o Low2(n \div 65536) \o Low2(High(n)) \o <<(High(n) \div 65536) % 256>>

Signed8(b) == IF b < 128 THEN b ELSE b - 256

Unsigned16(b) == b[1] + 256 * b[2]
Signed16(b) == b[1] + 256 * Signed8(b[2])
Signed32(b) == b[1] + 256 * b[2] + 65536 * b[3] + 16777216 * Signed8(b[4])

Signed56(b) ==
    LET high == Unsigned16(SubSeq(b, 5, 6)) + 65536 * Signed8(b[7])
    IN  (high * 65536 + Unsigned16(SubSeq(b, 3, 4))) * 65536 + Unsigned16(SubSeq(b, 1, 2))
=============================================================================
