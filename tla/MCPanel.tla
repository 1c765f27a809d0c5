------------------------------- MODULE MCPanel -------------------------------
(***************************************************************************)
(* Scenarios for the display.  The stick and the arm share nothing but the *)
(* display, so that a behaviour moves one of them, and the thread that     *)
(* follows the other sleeps: the states are a sum and not a product.       *)
(***************************************************************************)
EXTENDS Display

VARIABLE moving

vars == <<moving, displayVars>>

CONSTANTS first, second  \* callbacks

MCCallbacks == {first, second}
MCAxisValues == {-32768, 0}
MCArmAngles == {0, -1500}

Init ==
    /\ moving \in {"stick", "elbow", "shoulder"}
    /\ DisplayInit
    /\ \/ moving = "stick" /\ arm = [m \in Motors |-> 0]
       \/ moving # "stick" /\ device = [c \in Controls |-> 0]
             /\ \A m \in Motors \ {moving} : arm[m] = 0

\* One callback is enough to show the stick: it writes nothing a second reads.
Expires ==
    /\ \E c \in IF moving = "stick" THEN {first} ELSE Callbacks : Expire(c)
    /\ UNCHANGED <<moving, joystickVars, arm, controlVars>>

Runs(c) == Timer_IRQ(c) /\ UNCHANGED moving

MoveStick == moving = "stick" /\ StickMoves /\ UNCHANGED moving

FollowStick == moving = "stick" /\ joystick_thread /\ UNCHANGED moving

FollowArm == moving # "stick" /\ Control_thread /\ UNCHANGED moving

MoveArm ==
    /\ moving # "stick"
    /\ ArmMoves
    /\ \A m \in Motors \ {moving} : arm'[m] = arm[m]
    /\ UNCHANGED moving

Next ==
    \/ MoveStick \/ FollowStick
    \/ MoveArm \/ FollowArm
    \/ Expires
    \/ \E c \in Callbacks : Runs(c)

Spec ==
    /\ Init
    /\ [][Next]_vars
    /\ WF_vars(FollowStick)
    /\ WF_vars(FollowArm)
    /\ WF_vars(Expires)
    /\ \A c \in Callbacks : WF_vars(Runs(c))
=============================================================================
