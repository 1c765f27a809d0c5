------------------------------ MODULE ImuFrame ------------------------------
(***************************************************************************)
(* The frames of the WT901 inertial sensor as IMU_WT901.c recognises them: *)
(* a header byte, a type byte, four little-endian shorts and a checksum.   *)
(* A frame is a function from 0..Size-1 to bytes, as in chrBuf.            *)
(***************************************************************************)
EXTENDS Bytes, Functions

Size == 11
Header == 85         \* 0x55
AccelFrame == 81     \* 0x51
GyroFrame == 82      \* 0x52
AngleFrame == 83     \* 0x53

\* The sum of the first ten bytes, in a char.
Checksum(f) == SumFunctionOnSet(f, 0..Size-2) % 256

\* (b & 0x50) == 0x50: bits 4 and 6.  Not only the types of the switch pass.
IsType(b) == (b \div 16) % 2 = 1 /\ (b \div 64) % 2 = 1

IsFrame(f) == f[0] = Header /\ IsType(f[1]) /\ f[Size-1] = Checksum(f)

TwosComplement(u) == IF u >= 32768 THEN u - 65536 ELSE u

\* sData[k] of the payload that starts at byte 2.
SData(f, k) == TwosComplement(f[2 + 2*k] + 256 * f[3 + 2*k])

Angles(f) == [k \in 0..2 |-> SData(f, k)]
=============================================================================
