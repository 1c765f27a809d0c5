---------------------------- MODULE MotorAngles -----------------------------
(***************************************************************************)
(* A Motor object as the program sees it: read_position, set_position, and *)
(* the two one after the other, on a bus that answers (what a bus that     *)
(* does not answer does to them is module CanBus).                         *)
(***************************************************************************)
EXTENDS MotorCodec

CONSTANTS
    StartAngles,  \* where the motor may stand at first, 0.01 degree
    SetAngles     \* angles the program may ask for, 0.01 degree

ASSUME MotorAnglesAssumption ==
    StartAngles \cup SetAngles \subseteq Within(MaxAngle)

VARIABLES
    angle,      \* of the motor (external), 0.01 degree
    position_,  \* of the Motor object, a float
    target,     \* the argument of the set_position just made, none after a read
    sent        \* the data it sent, none when it refuses the angle

motorVars == <<angle, position_, target, sent>>

MotorInit ==
    /\ angle \in StartAngles
    /\ position_ = Zero
    /\ target = <<>>
    /\ sent = <<>>

read_position ==
    /\ position_' = PositionOf(PositionReply(angle))
    /\ target' = <<>>
    /\ sent' = <<>>
    /\ UNCHANGED angle

\* The motor turns to where it is told to be.
set_position(new_position) ==
    /\ target' = <<new_position>>
    /\ IF in_range(new_position)
       THEN /\ sent' \in SetPositionData(new_position)
            /\ angle' = CommandedAngle(sent')
       ELSE sent' = <<>> /\ UNCHANGED angle
    /\ UNCHANGED position_

\* Both, and set_position(get_position()), the use at main.cpp:114 that is
\* commented out.
MotorNext ==
    \/ read_position
    \/ \E a \in SetAngles : set_position(Float(a))
    \/ set_position(position_)

MotorSpec == MotorInit /\ [][MotorNext]_motorVars
-----------------------------------------------------------------------------
(***************************************************************************)
(* Properties.                                                             *)
(***************************************************************************)

\* An angle asked of a motor is refused beyond 90 degrees; a positive one is
\* obeyed but for one hundredth that the float may lose, never away from zero;
\* a negative one too, unless its undefined conversion turned it into 0.
CommandsObeyed ==
    target # <<>> =>
        LET a == Printed(target[1])
        IN  IF a \notin (min_position * 100)..(max_position * 100) THEN sent = <<>>
            ELSE /\ sent # <<>>
                 /\ \/ a >= 0 /\ CommandedAngle(sent) \in {a - 1, a} \cap Nat
                    \/ a < 0 /\ CommandedAngle(sent) \in {a, a + 1, 0}

\* What read_position leaves in position_ is printed as the angle the motor
\* reported, whatever its sign, as far as a float tells hundredths apart; beyond
\* that, up to MaxAngle, it is three hundredths off at most.
AnglesReadBack ==
    [][read_position =>
          LET off == Printed(position_') - angle
          IN  off \in Within(IF angle \in Within(ExactAngle) THEN 0 ELSE 3)]_motorVars
=============================================================================
