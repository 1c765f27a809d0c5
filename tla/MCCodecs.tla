------------------------------ MODULE MCCodecs ------------------------------
(***************************************************************************)
(* Values for the two message codecs.  They share nothing; a behaviour     *)
(* exercises one of them, so that the states are a sum.                    *)
(***************************************************************************)
EXTENDS X8Can, MotorAngles

VARIABLE codec

vars == <<codec, x8Vars, motorVars>>

Init ==
    /\ codec \in {"x8", "motor"}
    /\ X8Init
    /\ MotorInit
    /\ codec = "x8" => angle = 0

Next ==
    /\ UNCHANGED codec
    /\ \/ codec = "x8" /\ X8Next /\ UNCHANGED motorVars
       \/ codec = "motor" /\ MotorNext /\ UNCHANGED x8Vars

Spec == Init /\ [][Next]_vars

MCDegrees == {-3579140, -3579139, -360, -1, 0, 90, 3579139, 2147483647}
MCDegrees16 == {0, 1, 90, 109, 110, 360}
MCRpms == {-2147483647, -200, 0, 7, 3579139, 5965233}
MCRpms16 == {0, 100, 182, 183, 720}
MCCurrents == {-2000, 5, 2000}
MCOffsets == {0, 200, 65535}
MCAngles == {-2147483647, -216000, -601, -1, 0, 65400, 2147483647}
MCSpeeds == {-547, -546, -7, 0, 130, 546, 600}
MCGains == {<<100, 50, 200, 30, 255, 1>>}
MCStartAngles ==
    -9001..9001 \cup {-36000, 36000} \cup (ExactAngle - 50)..(ExactAngle + 50)
                \cup {-MaxAngle, -99999997, -52428801, MaxAngle}
MCSetAngles == {-9001, -4500, -1, 0, 2000, 9000, 9001}
=============================================================================
