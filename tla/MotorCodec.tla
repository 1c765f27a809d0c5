----------------------------- MODULE MotorCodec -----------------------------
(***************************************************************************)
(* The conversions of the Motor methods (motor.cpp): the angle             *)
(* read_position takes from the bytes of a reply, and the bytes            *)
(* set_position makes of an angle.                                         *)
(*                                                                         *)
(* Motors count hundredths of a degree in 32 bits; the program computes in *)
(* floats, which hold no multiple of 0.01 exactly: a significand of 24     *)
(* bits and an exponent, kept here as they are.                            *)
(*                                                                         *)
(* The build is for ARM (src/src/main), where char is unsigned; with a     *)
(* signed char the message arrays of CAN_BUS_HCPS.h do not compile.        *)
(*                                                                         *)
(* A "Fault" is a wrong version of the definition after it.                *)
(***************************************************************************)
EXTENDS Bytes

min_position == -90
max_position == 90
position_scale == 100

\* Bound: up to a million degrees the significand of an angle is computed below
\* without leaving 31 bits, and no value lies half way between two floats.
MaxAngle == 100000000

\* Up to here, 131072 degrees, a float tells hundredths of a degree apart.
ExactAngle == 13107199

\* n / d rounded to the nearest integer, to the even one if both are as near.
Rounded(n, d) ==
    LET q == n \div d
        twice == 2 * (n % d)
    IN  IF twice > d \/ (twice = d /\ q % 2 = 1) THEN q + 1 ELSE q

\* A float: +- significand / 2^scale, the significand of 24 bits.
Zero == [negative |-> FALSE, significand |-> 0, scale |-> 0]

\* n / 100 has 24 bits before the point at scale k: n * 2^k, which may leave 31
\* bits, is from 838860800 to 1677721599.
HasScale(n, k) == n > 838860799 \div 2^k /\ n <= 1677721599 \div 2^k

ScaleOf(n) == CHOOSE k \in 0..30 : HasScale(n, k)

\* (float) (n * 0.01)
Float(n) ==
    LET size == IF n < 0 THEN -n ELSE n
        k == ScaleOf(size)
    IN  IF n = 0 THEN Zero
        ELSE [negative |-> n < 0, significand |-> Rounded(size * 2^k, 100), scale |-> k]

WithSign(x, n) == IF x.negative THEN -n ELSE n

\* A float as %3.2f prints it, in hundredths.
Printed(x) == WithSign(x, Rounded(x.significand * 100, 2^x.scale))

\* Fault: the float is cut before it is scaled.
ScaledAfterCut(x) == WithSign(x, (x.significand \div 2^x.scale) * position_scale)

\* new_position * position_scale, rounded to a float of 24 bits and then cut
\* towards zero.
Scaled(x) ==
    LET product == x.significand * position_scale
        unit == IF product < 2^30 THEN 64 ELSE 128
    IN  WithSign(x, (Rounded(product, unit) * unit) \div 2^x.scale)

\* The u_int32_t it is stored in.  What becomes of a negative number is
\* undefined: ARM gives 0, other builds its two's complement.
ScaledBytes(x) ==
    {Low4(Scaled(x))} \cup (IF Scaled(x) < 0 THEN {Low4(0)} ELSE {})

\* The least whole number of degrees, away from zero, that is not exceeded.
Ceiling(x) == WithSign(x, -((-x.significand) \div 2^x.scale))

in_range(x) == min_position <= Ceiling(x) /\ Ceiling(x) <= max_position

\* The seven bytes after the command: 0, maxSpeed = 10 in two bytes, the angle.
SetPositionData(x) == {<<0, 10, 0>> \o b : b \in ScaledBytes(x)}

\* What the motor understands (external).
CommandedAngle(data) == Signed32(SubSeq(data, 4, 7))

\* The reply of the motor to 0x92 (external): the angle in its last four bytes.
PositionReply(angle) == <<0, 0, 0>> \o Low4(angle)

\* Fault: char is signed.
PositionOfSignedChars(data) ==
    Float(Signed8(data[4]) + 256 * Signed8(data[5]) + 65536 * Signed8(data[6])
            + 16777216 * Signed8(data[7]))

\* (rec_buf[5] + (rec_buf[6] << 8) + ...) * 0.01
PositionOf(data) == Float(Signed32(SubSeq(data, 4, 7)))
=============================================================================
