-------------------------- MODULE LifecycleProofs ---------------------------
(***************************************************************************)
(* The end of the program is orderly, and ESC stops the timer callbacks,   *)
(* whatever the number of callbacks that overlap.                          *)
(***************************************************************************)
EXTENDS Lifecycle, TLAPS

\* While there is a keyboard thread main is after its creation, and main gets
\* no further than to wait for it.
MainWaits == "key" \in threads => main \in {"start_timer", "join_ctl", "join_key"}

\* What close_all has done, from where it is.
CloseAllSoFar ==
    /\ key # "poll" => "key" \in threads
    /\ key \in ClosePlaces => timer = "deleted"
    /\ key \in {"close_uart", "exit", "in_exit"} => can = "down"
    /\ key \in {"exit", "in_exit"} => uart = "closed"

\* Who ends the process.
WhoEnds ==
    /\ "main" \in exiting => main = "in_exit"
    /\ "key" \in exiting => key = "in_exit"
    /\ process = "exited" => exiting # {}

LifecycleInv == TypeOK /\ MainWaits /\ CloseAllSoFar /\ WhoEnds

LEMMA InitInv == Init => LifecycleInv
  <1> SUFFICES ASSUME Init PROVE LifecycleInv
    OBVIOUS
  <1>1. TypeOK
    <2>1. callbacks \in 0..MaxCallbacks
      BY LifecycleAssumption DEF Init
    <2>2. cancelled \in BOOLEAN /\ joystick \in BOOLEAN
      BY Zenon DEF Init
    <2> QED
      BY <2>1, <2>2 DEF Init, TypeOK, MainPlaces, StartPlaces, KeyPlaces
  <1>2. MainWaits /\ CloseAllSoFar
    BY DEF Init, MainWaits, CloseAllSoFar, ClosePlaces
  <1>3. WhoEnds
    BY DEF Init, WhoEnds
  <1> QED
    BY <1>1, <1>2, <1>3 DEF LifecycleInv

\* A step of main: it opens the devices only before the keyboard thread exists.
LEMMA MainInv ==
  ASSUME LifecycleInv, process = "running", MainStep
  PROVE  LifecycleInv'
  <1> USE DEF LifecycleInv, TypeOK, MainWaits, CloseAllSoFar, WhoEnds, devices,
          MainPlaces, StartPlaces, KeyPlaces, ClosePlaces, MainLeaves
  <1>1. CASE TtySet
    BY <1>1 DEF TtySet
  <1>2. CASE CanInit
    BY <1>2 DEF CanInit
  <1>3. CASE UartOpen
    BY <1>3 DEF UartOpen
  <1>4. CASE UartSet
    BY <1>4 DEF UartSet
  <1>5. CASE FindJoystick
    BY <1>5 DEF FindJoystick
  <1>6. CASE InitTimer
    BY <1>6 DEF InitTimer
  <1>7. CASE CreateThreads
    BY <1>7 DEF CreateThreads, Create
  <1>8. CASE StartTimer
    BY <1>8 DEF StartTimer
  <1>9. CASE JoinControl
    BY <1>9 DEF JoinControl
  <1>10. CASE JoinKeyboard
    BY <1>10 DEF JoinKeyboard
  <1>11. CASE MainEnds
    BY <1>11 DEF MainEnds
  <1> QED
    BY <1>1, <1>2, <1>3, <1>4, <1>5, <1>6, <1>7, <1>8, <1>9, <1>10, <1>11 DEF MainStep

\* A step of close_all.
LEMMA KeyInv ==
  ASSUME LifecycleInv, process = "running", KeyStep
  PROVE  LifecycleInv'
  <1> USE DEF LifecycleInv, TypeOK, MainWaits, CloseAllSoFar, WhoEnds, devices,
          MainPlaces, StartPlaces, KeyPlaces, ClosePlaces, Close
  <1>1. CASE Escape
    BY <1>1 DEF Escape
  <1>2. CASE DeleteTimer
    BY <1>2 DEF DeleteTimer
  <1>3. CASE Shutdown
    BY <1>3 DEF Shutdown
  <1>4. CASE CancelIMU
    BY <1>4 DEF CancelIMU
  <1>5. CASE CancelControl
    BY <1>5 DEF CancelControl
  <1>6. CASE CloseCan
    BY <1>6 DEF CloseCan
  <1>7. CASE CloseUart
    BY <1>7 DEF CloseUart
  <1>8. CASE KeyExit
    BY <1>8 DEF KeyExit
  <1> QED
    BY <1>1, <1>2, <1>3, <1>4, <1>5, <1>6, <1>7, <1>8 DEF KeyStep

\* A step of the other threads, of the timer or of exit().
LEMMA OthersInv ==
  ASSUME LifecycleInv, process = "running",
         ControlEnds \/ Timer_IRQ \/ CallbackReturns \/ ProcessEnds
  PROVE  LifecycleInv'
  <1> USE LifecycleAssumption
          DEF LifecycleInv, TypeOK, MainWaits, CloseAllSoFar, WhoEnds, devices
  <1>1. CASE ControlEnds
    BY <1>1 DEF ControlEnds
  <1>2. CASE Timer_IRQ
    BY <1>2 DEF Timer_IRQ
  <1>3. CASE CallbackReturns
    BY <1>3 DEF CallbackReturns
  <1>4. CASE ProcessEnds
    BY <1>4 DEF ProcessEnds
  <1> QED
    BY <1>1, <1>2, <1>3, <1>4

LEMMA NextInv == LifecycleInv /\ [Next]_vars => LifecycleInv'
  <1> SUFFICES ASSUME LifecycleInv, [Next]_vars
               PROVE  LifecycleInv'
    OBVIOUS
  <1>1. CASE UNCHANGED vars
    BY <1>1 DEF LifecycleInv, TypeOK, MainWaits, CloseAllSoFar, WhoEnds, vars, devices
  <1>2. CASE process = "running" /\ Running
    BY <1>2, MainInv, KeyInv, OthersInv DEF Running
  <1> QED
    BY <1>1, <1>2 DEF Next, Ended

THEOREM LifecycleCorrect == Spec => []LifecycleInv
  BY InitInv, NextInv, PTL DEF Spec

\* The variables of start-up and shutdown keep their types.
THEOREM LifecycleTypeCorrect == Spec => []TypeOK
  <1>1. LifecycleInv => TypeOK
    BY DEF LifecycleInv
  <1> QED
    BY <1>1, LifecycleCorrect, PTL

\* However main's joins and close_all interleave, the process that had a
\* keyboard thread exits only when close_all has run to its end.
THEOREM EndsOrderly == Spec => []OrderlyEnd
  <1>1. LifecycleInv => OrderlyEnd
    BY DEF LifecycleInv, TypeOK, MainWaits, CloseAllSoFar, WhoEnds, OrderlyEnd, ClosePlaces
  <1> QED
    BY <1>1, LifecycleCorrect, PTL

\* Once close_all has deleted the timer no Timer_IRQ callback starts.
THEOREM EscapeQuiets == Spec => QuietAfterEscape
  <1>1. LifecycleInv /\ [Next]_vars =>
            [~(key \in ClosePlaces /\ callbacks' > callbacks)]_vars
    <2> SUFFICES ASSUME LifecycleInv, Next, key \in ClosePlaces, callbacks' > callbacks
                 PROVE  UNCHANGED vars
      OBVIOUS
    <2>1. callbacks \in Int /\ timer = "deleted"
      BY LifecycleAssumption DEF LifecycleInv, TypeOK, CloseAllSoFar
    <2>2. callbacks' # callbacks
      BY <2>1
    <2>3. ~MainStep
      BY <2>2 DEF MainStep, TtySet, CanInit, UartOpen, UartSet, FindJoystick, InitTimer,
         CreateThreads, Create, StartTimer, JoinControl, JoinKeyboard, MainEnds
    <2>4. ~KeyStep
      BY <2>2 DEF KeyStep, Escape, DeleteTimer, Shutdown, CancelIMU, CancelControl,
         CloseCan, CloseUart, KeyExit
    <2>5. ~(ControlEnds \/ Timer_IRQ \/ CallbackReturns \/ ProcessEnds)
      BY <2>1, <2>2 DEF ControlEnds, Timer_IRQ, CallbackReturns, ProcessEnds
    <2> QED
      BY <2>3, <2>4, <2>5 DEF Next, Running, Ended
  <1> QED
    BY <1>1, LifecycleCorrect, PTL DEF Spec, QuietAfterEscape
=============================================================================
