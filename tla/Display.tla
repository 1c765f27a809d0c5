------------------------------- MODULE Display -------------------------------
(***************************************************************************)
(* The display line: Timer_IRQ (main.cpp), a notification thread started   *)
(* by the timer every 50 ms, beside Control_thread, which keeps the angles *)
(* it prints, and joystick_thread, which keeps the stick's.  Nothing here  *)
(* is locked.  A callback that is delayed runs beside the next one.        *)
(*                                                                         *)
(* The bus is punctual and Control_thread alone on it (module ArmControl   *)
(* has it otherwise).  A coordinate is represented by the angles           *)
(* forward_kinematics computed it from.  elbow_set_pos and                 *)
(* shoulder_set_pos, which are printed too, are left out.                  *)
(*                                                                         *)
(* A "Fault" is a wrong version of the definition after it.                *)
(***************************************************************************)
EXTENDS Joystick, MotorCodec

CONSTANTS
    ArmAngles,  \* where a motor may stand, 0.01 degree
    Callbacks,  \* notification threads that may run at once
    Nobody      \* none of them

ASSUME DisplayAssumption ==
    /\ ArmAngles \subseteq Within(ExactAngle)
    /\ Nobody \notin Callbacks

Motors == {"elbow", "shoulder"}

VARIABLES
    arm,                     \* the angle of each motor (external)
    position_,               \* of each Motor object
    ctl,                     \* the next statement of Control_thread
    elbow_pos, shoulder_pos,
    arm_x_pos, arm_y_pos,
    at,                      \* where each callback is
    joints,                  \* its arguments of forward_kinematics
    line,                    \* what was last printed in each place of the line
    alone                    \* the last callback, if no other ran beside it

controlVars == <<position_, ctl, elbow_pos, shoulder_pos>>
timerVars == <<arm_x_pos, arm_y_pos, at, joints, line, alone>>
displayVars == <<joystickVars, arm, controlVars, timerVars>>

\* The coordinates 0, 0 of main.h belong to no angles.
Unset == [Zero EXCEPT !.negative = TRUE]
Origin == [a \in {"elbow_pos", "shoulder_pos"} |-> Unset]

Places == {"returned", "print_coordinates", "print_angles", "print_stick", "load_joints",
           "elbow_pos", "shoulder_pos", "store_x", "store_y"}

\* The statements of Timer_IRQ, and the variables the three that print load.
\* The two loads of one printf are a step: the line is looked at only at rest.
PrintedBy == [print_coordinates |-> {"arm_x_pos", "arm_y_pos"},
               print_angles |-> {"elbow_pos", "shoulder_pos"},
               print_stick |-> {"joy_x_current", "joy_y_current"}]
After == [print_coordinates |-> "print_angles", print_angles |-> "print_stick",
          print_stick |-> "load_joints"]

\* The two joy_current are the stick's values in other units.
Global == [arm_x_pos |-> arm_x_pos, arm_y_pos |-> arm_y_pos,
           elbow_pos |-> elbow_pos, shoulder_pos |-> shoulder_pos,
           joy_x_current |-> joy_x_value, joy_y_current |-> joy_y_value]

DisplayInit ==
    /\ JoystickInit
    /\ arm \in [Motors -> ArmAngles]
    /\ position_ = [m \in Motors |-> Zero]
    /\ ctl = "read_elbow"
    /\ elbow_pos = Zero /\ shoulder_pos = Zero
    /\ arm_x_pos = Origin /\ arm_y_pos = Origin
    /\ at = [c \in Callbacks |-> "returned"]
    /\ joints = [c \in Callbacks |-> Origin]
    /\ line = Global
    /\ alone = Nobody
-----------------------------------------------------------------------------
(***************************************************************************)
(* The arm is moved (external), and Control_thread follows.                *)
(***************************************************************************)
ArmMoves ==
    /\ \E m \in Motors, a \in ArmAngles : a # arm[m] /\ arm' = [arm EXCEPT ![m] = a]
    /\ UNCHANGED <<joystickVars, controlVars, timerVars>>

Goto(here, next) == ctl = here /\ ctl' = next

read_position(m, next) ==
    /\ Goto(IF m = "elbow" THEN "read_elbow" ELSE "read_shoulder", next)
    /\ position_' = [position_ EXCEPT ![m] = PositionOf(PositionReply(arm[m]))]
    /\ UNCHANGED <<elbow_pos, shoulder_pos>>

get_elbow ==
    /\ Goto("get_elbow", "get_shoulder")
    /\ elbow_pos' = position_["elbow"]
    /\ UNCHANGED <<position_, shoulder_pos>>

get_shoulder ==
    /\ Goto("get_shoulder", "read_elbow")
    /\ shoulder_pos' = position_["shoulder"]
    /\ UNCHANGED <<position_, elbow_pos>>

Control_thread ==
    /\ \/ read_position("elbow", "read_shoulder")
       \/ read_position("shoulder", "get_elbow")
       \/ get_elbow
       \/ get_shoulder
    /\ UNCHANGED <<joystickVars, arm, timerVars>>
-----------------------------------------------------------------------------
(***************************************************************************)
(* Timer_IRQ.                                                              *)
(***************************************************************************)
Expire(c) ==
    /\ at[c] = "returned"
    /\ at' = [at EXCEPT ![c] = "print_coordinates"]
    /\ alone' = IF \A d \in Callbacks : at[d] = "returned" THEN c ELSE Nobody
    /\ UNCHANGED <<arm_x_pos, arm_y_pos, joints, line>>

Show(c) ==
    /\ at[c] \in DOMAIN After
    /\ at' = [at EXCEPT ![c] = After[@]]
    /\ line' = [v \in DOMAIN line |-> IF v \in PrintedBy[at[c]] THEN Global[v] ELSE line[v]]
    /\ UNCHANGED <<arm_x_pos, arm_y_pos, joints, alone>>

\* Fault: the two angles are taken for each other.
LoadJointSwapped(c, v) ==
    joints' = [joints EXCEPT ![c][v] = IF v = "elbow_pos" THEN shoulder_pos ELSE elbow_pos]

\* The arguments of forward_kinematics are copies.
LoadJoint(c, v) == joints' = [joints EXCEPT ![c][v] = Global[v]]

\* They are loaded in either order.
LoadFirst(c, v, other) ==
    /\ at[c] = "load_joints"
    /\ at' = [at EXCEPT ![c] = other]
    /\ LoadJoint(c, v)
    /\ UNCHANGED <<arm_x_pos, arm_y_pos, line, alone>>

LoadSecond(c, v) ==
    /\ at[c] = v
    /\ at' = [at EXCEPT ![c] = "store_x"]
    /\ LoadJoint(c, v)
    /\ UNCHANGED <<arm_x_pos, arm_y_pos, line, alone>>

LoadJoints(c) ==
    \/ LoadFirst(c, "elbow_pos", "shoulder_pos")
    \/ LoadFirst(c, "shoulder_pos", "elbow_pos")
    \/ LoadSecond(c, "elbow_pos")
    \/ LoadSecond(c, "shoulder_pos")

StoreX(c) ==
    /\ at[c] = "store_x"
    /\ at' = [at EXCEPT ![c] = "store_y"]
    /\ arm_x_pos' = joints[c]
    /\ UNCHANGED <<arm_y_pos, joints, line, alone>>

\* Fault: the angles are passed by reference.
AnglesByReference(c) == [elbow_pos |-> elbow_pos, shoulder_pos |-> shoulder_pos]

\* What forward_kinematics computes y from.
AnglesOfY(c) == joints[c]

StoreY(c) ==
    /\ at[c] = "store_y"
    /\ at' = [at EXCEPT ![c] = "returned"]
    /\ arm_y_pos' = AnglesOfY(c)
    /\ joints' = [joints EXCEPT ![c] = Origin]
    /\ UNCHANGED <<arm_x_pos, line, alone>>

Timer_IRQ(c) ==
    /\ Show(c) \/ LoadJoints(c) \/ StoreX(c) \/ StoreY(c)
    /\ UNCHANGED <<joystickVars, arm, controlVars>>

Expiration == (\E c \in Callbacks : Expire(c)) /\ UNCHANGED <<joystickVars, arm, controlVars>>

StickMoves == Operate /\ UNCHANGED <<arm, controlVars, timerVars>>

joystick_thread == JoystickThread /\ UNCHANGED <<arm, controlVars, timerVars>>

DisplayNext ==
    \/ StickMoves
    \/ joystick_thread
    \/ ArmMoves
    \/ Control_thread
    \/ Expiration
    \/ \E c \in Callbacks : Timer_IRQ(c)

\* Every thread runs, and the timer expires for ever; nobody has to move the
\* stick or the arm.
DisplayFairness ==
    /\ WF_displayVars(joystick_thread)
    /\ WF_displayVars(Control_thread)
    /\ WF_displayVars(Expiration)
    /\ \A c \in Callbacks : WF_displayVars(Timer_IRQ(c))

DisplaySpec == DisplayInit /\ [][DisplayNext]_displayVars /\ DisplayFairness
-----------------------------------------------------------------------------
(***************************************************************************)
(* Properties.                                                             *)
(***************************************************************************)

\* An angle is one that a motor reported, or none yet; so are the two that a
\* coordinate is of.
Readings == {Zero} \cup {PositionOf(PositionReply(a)) : a \in ArmAngles}
Coordinates == [{"elbow_pos", "shoulder_pos"} -> Readings \cup {Unset}]

\* What may stand in a place of the line.
Printable(v) ==
    IF v \in PrintedBy.print_coordinates THEN Coordinates
    ELSE IF v \in PrintedBy.print_angles THEN Readings ELSE Opposites

TypeOK ==
    /\ JoystickTypeOK
    /\ arm \in [Motors -> ArmAngles]
    /\ position_ \in [Motors -> Readings]
    /\ ctl \in {"read_elbow", "read_shoulder", "get_elbow", "get_shoulder"}
    /\ {elbow_pos, shoulder_pos} \subseteq Readings
    /\ {arm_x_pos, arm_y_pos} \subseteq Coordinates
    /\ at \in [Callbacks -> Places]
    /\ joints \in [Callbacks -> Coordinates]
    /\ DOMAIN line = DOMAIN Global /\ \A v \in DOMAIN line : line[v] \in Printable(v)
    /\ alone \in Callbacks \cup {Nobody}

\* A callback beside which no other ran leaves x and y of the same angles,
\* though the control thread changes the angles while it computes: only callbacks
\* that overlap can tear the pair.
TornOnlyByOverlap ==
    \A c \in Callbacks : alone = c /\ at[c] = "returned" => arm_x_pos = arm_y_pos

LineShowsArm ==
    /\ Printed(line.elbow_pos) = arm["elbow"]
    /\ Printed(line.shoulder_pos) = arm["shoulder"]
    /\ \A p \in {line.arm_x_pos, line.arm_y_pos} :
          /\ Printed(p.elbow_pos) = arm["elbow"]
          /\ Printed(p.shoulder_pos) = arm["shoulder"]

\* Once the arm stands still, the line settles on its angles and on their
\* coordinates, whatever callbacks overlapped and tore before.
DisplaySettles == <>[][FALSE]_arm => <>[]LineShowsArm

\* Once the operator lets go, the line settles on the stick, but for an axis
\* whose last change the device lost: the result of sample need not be looked at.
StickSettles ==
    <>[][FALSE]_device =>
        <>[](/\ XAxis \notin lost => line.joy_x_current = -device[XAxis]
             /\ YAxis \notin lost => line.joy_y_current = -device[YAxis])
=============================================================================
