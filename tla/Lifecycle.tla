----------------------------- MODULE Lifecycle ------------------------------
(***************************************************************************)
(* Start and end of the program: main, which sets up the devices one after *)
(* the other and creates the threads, and close_all, which the keyboard    *)
(* thread runs on ESC, possibly before main has started the timer.  What   *)
(* the threads do in between is left out (module ArmControl).              *)
(*                                                                         *)
(* A "Fault" is a wrong version of the definition after it.                *)
(***************************************************************************)
EXTENDS Integers

CONSTANT MaxCallbacks   \* bound: Timer_IRQ callbacks that overlap

ASSUME LifecycleAssumption == MaxCallbacks \in Nat

VARIABLES
    main,       \* the next statement of main
    key,        \* the next statement of keyboard_event_thread
    threads,    \* the threads created and not ended
    cancelled,  \* pthread_cancel(Ctl_tid) was called
    joystick,   \* the static Joystick object opened its device
    tty,        \* the terminal: "cooked", as it was, or "raw"
    can,        \* can0 and its sockets: "down", "failed" or "bound"
    uart,       \* the serial port: "closed", "open" or "set"
    timer,      \* "none", "created", "armed" or "deleted"
    callbacks,  \* notification threads in Timer_IRQ
    exiting,    \* the threads that called exit()
    process     \* "running", "crashed" or "exited"

devices == <<joystick, tty, can, uart>>
vars == <<main, key, threads, cancelled, devices, timer, callbacks, exiting, process>>

StartPlaces == {"tty_set", "can_init", "uart_open", "uart_set", "find_joystick",
                "init_timer", "create_joy", "create_ctl", "create_key"}
MainPlaces == StartPlaces \cup {"start_timer", "join_ctl", "join_key", "end", "in_exit"}
ClosePlaces == {"shutdown", "cancel_imu", "cancel_ctl", "close_can", "close_uart",
                "exit", "in_exit"}
KeyPlaces == {"poll", "delete_timer"} \cup ClosePlaces

TypeOK ==
    /\ main \in MainPlaces
    /\ key \in KeyPlaces
    /\ threads \subseteq {"joy", "ctl", "key"}
    /\ cancelled \in BOOLEAN
    /\ joystick \in BOOLEAN
    /\ tty \in {"cooked", "raw"}
    /\ can \in {"down", "failed", "bound"}
    /\ uart \in {"closed", "open", "set"}
    /\ timer \in {"none", "created", "armed", "deleted"}
    /\ callbacks \in 0..MaxCallbacks
    /\ exiting \subseteq {"main", "key"}
    /\ process \in {"running", "crashed", "exited"}

\* The joystick is opened before main runs.
Init ==
    /\ main = "tty_set"
    /\ key = "poll"
    /\ threads = {}
    /\ cancelled = FALSE
    /\ joystick \in BOOLEAN
    /\ tty = "cooked"
    /\ can = "down"
    /\ uart = "closed"
    /\ timer = "none"
    /\ callbacks = 0
    /\ exiting = {}
    /\ process = "running"
-----------------------------------------------------------------------------
(***************************************************************************)
(* main.                                                                   *)
(***************************************************************************)

\* exit(), or a return from main.
MainLeaves ==
    /\ main' = "in_exit"
    /\ exiting' = exiting \cup {"main"}

\* tty_set may fail, where stdin is no terminal; nobody looks at its result.
TtySet ==
    /\ main = "tty_set"
    /\ tty' \in {"cooked", "raw"}
    /\ main' = "can_init"
    /\ UNCHANGED <<key, threads, cancelled, joystick, can, uart, timer, callbacks,
                   exiting, process>>

\* CAN_BUS_Init may return 1 at any of its steps; nobody looks at its result.
CanInit ==
    /\ main = "can_init"
    /\ can' \in {"bound", "failed"}
    /\ main' = "uart_open"
    /\ UNCHANGED <<key, threads, cancelled, joystick, tty, uart, timer, callbacks,
                   exiting, process>>

UartOpen ==
    /\ main = "uart_open"
    /\ \/ uart' = "open" /\ main' = "uart_set" /\ UNCHANGED exiting
       \/ MainLeaves /\ UNCHANGED uart
    /\ UNCHANGED <<key, threads, cancelled, joystick, tty, can, timer, callbacks, process>>

UartSet ==
    /\ main = "uart_set"
    /\ \/ uart' = "set" /\ main' = "find_joystick" /\ UNCHANGED exiting
       \/ MainLeaves /\ UNCHANGED uart
    /\ UNCHANGED <<key, threads, cancelled, joystick, tty, can, timer, callbacks, process>>

FindJoystick ==
    /\ main = "find_joystick"
    /\ IF joystick THEN main' = "init_timer" /\ UNCHANGED exiting ELSE MainLeaves
    /\ UNCHANGED <<key, threads, cancelled, devices, timer, callbacks, process>>

InitTimer ==
    /\ main = "init_timer"
    /\ \/ timer' = "created" /\ main' = "create_joy" /\ UNCHANGED exiting
       \/ MainLeaves /\ UNCHANGED timer
    /\ UNCHANGED <<key, threads, cancelled, devices, callbacks, process>>

\* pthread_create of t, or its error path.
Create(t, here, next) ==
    /\ main = here
    /\ \/ threads' = threads \cup {t} /\ main' = next /\ UNCHANGED exiting
       \/ MainLeaves /\ UNCHANGED threads
    /\ UNCHANGED <<key, cancelled, devices, timer, callbacks, process>>

CreateThreads ==
    \/ Create("joy", "create_joy", "create_ctl")
    \/ Create("ctl", "create_ctl", "create_key")
    \/ Create("key", "create_key", "start_timer")

\* The keyboard thread may have deleted the timer by now: the id is stale, and
\* timer_settime fails or reads freed memory.  Its result is not looked at.
StartTimer ==
    /\ main = "start_timer"
    /\ main' = "join_ctl"
    /\ \/ timer = "created" /\ timer' = "armed" /\ UNCHANGED process
       \/ UNCHANGED <<timer, process>>
       \/ timer = "deleted" /\ process' = "crashed" /\ UNCHANGED timer
    /\ UNCHANGED <<key, threads, cancelled, devices, callbacks, exiting>>

JoinControl ==
    /\ main = "join_ctl"
    /\ "ctl" \notin threads
    /\ main' = "join_key"
    /\ UNCHANGED <<key, threads, cancelled, devices, timer, callbacks, exiting, process>>

\* Fault: main waits for Control_thread only.
JoinKeyboardForgotten ==
    /\ main = "join_key"
    /\ main' = "end"
    /\ UNCHANGED <<key, threads, cancelled, devices, timer, callbacks, exiting, process>>

JoinKeyboard ==
    /\ main = "join_key"
    /\ "key" \notin threads
    /\ main' = "end"
    /\ UNCHANGED <<key, threads, cancelled, devices, timer, callbacks, exiting, process>>

MainEnds ==
    /\ main = "end"
    /\ MainLeaves
    /\ UNCHANGED <<key, threads, cancelled, devices, timer, callbacks, process>>

MainStep ==
    \/ TtySet \/ CanInit \/ UartOpen \/ UartSet \/ FindJoystick \/ InitTimer
    \/ CreateThreads \/ StartTimer \/ JoinControl \/ JoinKeyboard \/ MainEnds
-----------------------------------------------------------------------------
(***************************************************************************)
(* close_all in keyboard_event_thread, and the other threads.              *)
(***************************************************************************)
Close(here, next) == "key" \in threads /\ key = here /\ key' = next

Escape ==
    /\ Close("poll", "delete_timer")
    /\ UNCHANGED <<main, threads, cancelled, devices, timer, callbacks, exiting, process>>

\* Fault: the timer is left running.
DeleteTimerForgotten ==
    /\ Close("delete_timer", "shutdown")
    /\ UNCHANGED <<main, threads, cancelled, devices, timer, callbacks, exiting, process>>

DeleteTimer ==
    /\ Close("delete_timer", "shutdown")
    /\ timer' = "deleted"
    /\ UNCHANGED <<main, threads, cancelled, devices, callbacks, exiting, process>>

Shutdown ==
    /\ Close("shutdown", "cancel_imu")
    /\ UNCHANGED <<main, threads, cancelled, devices, timer, callbacks, exiting, process>>

\* IMU_tid is 0: undefined, an error code or a crash.
CancelIMU ==
    /\ Close("cancel_imu", "cancel_ctl")
    /\ process' \in {"running", "crashed"}
    /\ UNCHANGED <<main, threads, cancelled, devices, timer, callbacks, exiting>>

CancelControl ==
    /\ Close("cancel_ctl", "close_can")
    /\ cancelled' = TRUE
    /\ UNCHANGED <<main, threads, devices, timer, callbacks, exiting, process>>

CloseCan ==
    /\ Close("close_can", "close_uart")
    /\ can' = "down"
    /\ UNCHANGED <<main, threads, cancelled, joystick, tty, uart, timer, callbacks,
                   exiting, process>>

CloseUart ==
    /\ Close("close_uart", "exit")
    /\ uart' = "closed"
    /\ UNCHANGED <<main, threads, cancelled, joystick, tty, can, timer, callbacks,
                   exiting, process>>

KeyExit ==
    /\ Close("exit", "in_exit")
    /\ exiting' = exiting \cup {"key"}
    /\ UNCHANGED <<main, threads, cancelled, devices, timer, callbacks, process>>

KeyStep ==
    \/ Escape \/ DeleteTimer \/ Shutdown \/ CancelIMU \/ CancelControl
    \/ CloseCan \/ CloseUart \/ KeyExit

\* Control_thread reaches a cancellation point.
ControlEnds ==
    /\ cancelled
    /\ "ctl" \in threads
    /\ threads' = threads \ {"ctl"}
    /\ UNCHANGED <<main, key, cancelled, devices, timer, callbacks, exiting, process>>

\* The timer expires: one more notification thread runs Timer_IRQ.
Timer_IRQ ==
    /\ timer = "armed"
    /\ callbacks < MaxCallbacks
    /\ callbacks' = callbacks + 1
    /\ UNCHANGED <<main, key, threads, cancelled, devices, timer, exiting, process>>

CallbackReturns ==
    /\ callbacks > 0
    /\ callbacks' = callbacks - 1
    /\ UNCHANGED <<main, key, threads, cancelled, devices, timer, exiting, process>>

\* exit() ends the process some time after it is called; the other threads run
\* until then.
ProcessEnds ==
    /\ exiting # {}
    /\ process' = "exited"
    /\ UNCHANGED <<main, key, threads, cancelled, devices, timer, callbacks, exiting>>

Running ==
    \/ MainStep \/ KeyStep \/ ControlEnds \/ Timer_IRQ \/ CallbackReturns \/ ProcessEnds

Ended == process # "running" /\ UNCHANGED vars

Next == (process = "running" /\ Running) \/ Ended

Spec == Init /\ [][Next]_vars
-----------------------------------------------------------------------------
(***************************************************************************)
(* Properties.                                                             *)
(***************************************************************************)

\* From the creation of the keyboard thread on, the process exits only with
\* the timer deleted, the bus down and the serial port closed: the
\* cancellation of Control_thread, halfway through close_all, releases main
\* from its first join, and the second one holds main back from an exit(0) that
\* would cut close_all short.
OrderlyEnd ==
    process = "exited" /\ "key" \in threads =>
        timer = "deleted" /\ can = "down" /\ uart = "closed"

\* Once close_all has deleted the timer, no callback starts, even if main
\* starts the timer only then.
QuietAfterEscape ==
    [][~(key \in ClosePlaces /\ callbacks' > callbacks)]_vars
=============================================================================
