----------------------------- MODULE ArmControl -----------------------------
(***************************************************************************)
(* The threads of main.cpp that drive the motors: Control_thread, which    *)
(* polls the two joint angles for ever, and keyboard_event_thread, which   *)
(* turns keys into motor commands and shuts the program down.  They share  *)
(* the mutex, the condition variable and, through the Motor objects, the   *)
(* CAN driver (module CanBus).  Control_thread holds the mutex while it    *)
(* reads the elbow, and not while it reads the shoulder.                   *)
(***************************************************************************)
EXTENDS CanBus

CONSTANTS
    NoThread,   \* the mutex is free
    Scripts     \* what the operator may type, key by key

Keys == {"b", "z", "ESC", "other"}

ASSUME ArmAssumption ==
    /\ NoThread \notin {Control, Keyboard}
    /\ Scripts \subseteq Seq(Keys)

VARIABLES
    mutex,          \* its owner, or NoThread
    ctl,            \* the next statement of Control_thread, or "dead"
    key,            \* the next statement of keyboard_event_thread
    job,            \* the motor method the pressed key asks for
    flip,           \* the toggle of key 'b'
    elbow_set_pos,  \* the angle key 'b' last chose
    shown,          \* elbow_pos and shoulder_pos, what the display reads
    cancelled,      \* pthread_cancel(Ctl_tid) was called
    can_open,       \* the sockets are open and can0 is up
    untyped,        \* what the operator has still to type
    terminal,       \* keys typed and not yet read
    stdin           \* keys that stdio has read ahead of getchar

inputVars == <<untyped, terminal, stdin>>
armVars == <<mutex, ctl, key, job, flip, elbow_set_pos, shown, cancelled, can_open,
             inputVars>>
vars == <<canVars, armVars>>

ControlPlaces == {"lock", "read_elbow", "unlock", "signal", "read_shoulder",
                  "get_elbow", "get_shoulder", "dead"}
Quitting == {"off_elbow", "off_shoulder", "cancel_imu", "cancel_ctl", "probe",
             "close", "exit"}
KeyPlaces == {"poll", "lock", "cond_wait", "waiting", "woken", "elbow", "shoulder",
              "unlock"} \cup Quitting

TypeOK ==
    /\ CanTypeOK
    /\ mutex \in Threads \cup {NoThread}
    /\ ctl \in ControlPlaces
    /\ key \in KeyPlaces
    /\ job \in {"set_position", "set_zero_cmd"}
    /\ flip \in BOOLEAN
    /\ elbow_set_pos \in {"deg0", "deg20"}
    /\ shown \in [Motors -> Body]
    /\ cancelled \in BOOLEAN
    /\ can_open \in BOOLEAN
    /\ untyped \in Seq(Keys)
    /\ terminal \in Seq(Keys)
    /\ stdin \in Seq(Keys)

\* main() has run CAN_BUS_Init and created the threads.
Init ==
    /\ CanInit
    /\ mutex = NoThread
    /\ ctl = "lock"
    /\ key = "poll"
    /\ job = "set_position"
    /\ flip = TRUE
    /\ elbow_set_pos = "deg0"
    /\ shown = [m \in Motors |-> ZeroBody]
    /\ cancelled = FALSE
    /\ can_open = TRUE
    /\ untyped \in Scripts
    /\ terminal = <<>>
    /\ stdin = <<>>

Acquire(t) == mutex = NoThread /\ mutex' = t
Release == mutex' = NoThread
Idle(t) == at[t] = "idle"
-----------------------------------------------------------------------------
(***************************************************************************)
(* Control_thread.  Begin needs the previous call to have returned.        *)
(***************************************************************************)
ControlLock ==
    /\ ctl = "lock"
    /\ Acquire(Control)
    /\ ctl' = "read_elbow"
    /\ UNCHANGED <<canVars, key, job, flip, elbow_set_pos, shown, cancelled, can_open,
                   inputVars>>

ControlReadElbow ==
    /\ ctl = "read_elbow"
    /\ Begin(Control, "read_position", Elbow, "zeros")
    /\ ctl' = "unlock"
    /\ UNCHANGED <<mutex, key, job, flip, elbow_set_pos, shown, cancelled, can_open,
                   inputVars>>

ControlUnlock ==
    /\ ctl = "unlock"
    /\ Idle(Control)
    /\ Release
    /\ ctl' = "signal"
    /\ UNCHANGED <<canVars, key, job, flip, elbow_set_pos, shown, cancelled, can_open,
                   inputVars>>

\* Fault: no pthread_cond_signal.
ControlSignalForgotten ==
    /\ ctl = "signal"
    /\ ctl' = "read_shoulder"
    /\ UNCHANGED <<canVars, mutex, key, job, flip, elbow_set_pos, shown, cancelled,
                   can_open, inputVars>>

\* pthread_cond_signal wakes the waiter, if there is one, and is else lost.
ControlSignal ==
    /\ ctl = "signal"
    /\ key' = IF key = "waiting" THEN "woken" ELSE key
    /\ ctl' = "read_shoulder"
    /\ UNCHANGED <<canVars, mutex, job, flip, elbow_set_pos, shown, cancelled, can_open,
                   inputVars>>

ControlReadShoulder ==
    /\ ctl = "read_shoulder"
    /\ Begin(Control, "read_position", Shoulder, "zeros")
    /\ ctl' = "get_elbow"
    /\ UNCHANGED <<mutex, key, job, flip, elbow_set_pos, shown, cancelled, can_open,
                   inputVars>>

\* elbow_pos = elbow_motor.get_position()
ControlGetElbow ==
    /\ ctl = "get_elbow"
    /\ Idle(Control)
    /\ shown' = [shown EXCEPT ![Elbow] = position[Elbow]]
    /\ ctl' = "get_shoulder"
    /\ UNCHANGED <<canVars, mutex, key, job, flip, elbow_set_pos, cancelled, can_open,
                   inputVars>>

ControlGetShoulder ==
    /\ ctl = "get_shoulder"
    /\ shown' = [shown EXCEPT ![Shoulder] = position[Shoulder]]
    /\ ctl' = "lock"
    /\ UNCHANGED <<canVars, mutex, key, job, flip, elbow_set_pos, cancelled, can_open,
                   inputVars>>

\* A pending cancellation takes effect in write(), read() or a usleep(); the
\* thread ends where it is, and what it holds it keeps.
ControlCancelled ==
    /\ cancelled
    /\ \/ at[Control] \in {"write", "read"}
       \/ Idle(Control) /\ ctl \in {"read_shoulder", "get_elbow", "get_shoulder", "lock"}
    /\ ctl' = "dead"
    /\ UNCHANGED <<canVars, mutex, key, job, flip, elbow_set_pos, shown, cancelled,
                   can_open, inputVars>>

ControlCall ==
    /\ ctl # "dead"
    /\ MemoryStep(Control) \/ (~cancelled /\ SystemCall(Control))
    /\ UNCHANGED armVars

ControlStep ==
    \/ ControlReadElbow \/ ControlUnlock \/ ControlSignal
    \/ ControlReadShoulder \/ ControlGetElbow \/ ControlGetShoulder
    \/ ControlCancelled \/ ControlCall
-----------------------------------------------------------------------------
(***************************************************************************)
(* keyboard_event_thread.                                                  *)
(***************************************************************************)

\* kbhit() and getchar() return k.  kbhit looks at the terminal only; getchar
\* takes everything typed into the buffer of stdio and its first key from there,
\* and reads the terminal again only when that buffer is empty.
Getchar(k) ==
    /\ terminal # <<>>
    /\ LET buffer == IF stdin = <<>> THEN terminal ELSE stdin
       IN  k = Head(buffer) /\ stdin' = Tail(buffer)
    /\ terminal' = IF stdin = <<>> THEN <<>> ELSE terminal
    /\ UNCHANGED untyped

\* Key 'b': toggles the angle, before it takes the mutex.
PressMove ==
    /\ key = "poll"
    /\ Getchar("b")
    /\ elbow_set_pos' = IF flip THEN "deg20" ELSE "deg0"
    /\ flip' = ~flip
    /\ job' = "set_position"
    /\ key' = "lock"
    /\ UNCHANGED <<canVars, mutex, ctl, shown, cancelled, can_open>>

\* Key 'z'.
PressZero ==
    /\ key = "poll"
    /\ Getchar("z")
    /\ job' = "set_zero_cmd"
    /\ key' = "lock"
    /\ UNCHANGED <<canVars, mutex, ctl, flip, elbow_set_pos, shown, cancelled, can_open>>

\* Key ESC: close_all, which does not take the mutex.
PressEscape ==
    /\ key = "poll"
    /\ Getchar("ESC")
    /\ key' = "off_elbow"
    /\ UNCHANGED <<canVars, mutex, ctl, job, flip, elbow_set_pos, shown, cancelled,
                   can_open>>

\* Any other key is only printed.
PressOther ==
    /\ key = "poll"
    /\ Getchar("other")
    /\ UNCHANGED <<canVars, mutex, ctl, key, job, flip, elbow_set_pos, shown, cancelled,
                   can_open>>

KeyPressed == PressMove \/ PressZero \/ PressEscape \/ PressOther

KeyLock ==
    /\ key = "lock"
    /\ Acquire(Keyboard)
    /\ key' = "cond_wait"
    /\ UNCHANGED <<canVars, ctl, job, flip, elbow_set_pos, shown, cancelled, can_open,
                   inputVars>>

\* pthread_cond_wait releases the mutex and waits, in one step.
KeyWait ==
    /\ key = "cond_wait"
    /\ Release
    /\ key' = "waiting"
    /\ UNCHANGED <<canVars, ctl, job, flip, elbow_set_pos, shown, cancelled, can_open,
                   inputVars>>

\* A wait may end without a signal; the code tests no condition after it.
SpuriousWakeup ==
    /\ key = "waiting"
    /\ key' = "woken"
    /\ UNCHANGED <<canVars, mutex, ctl, job, flip, elbow_set_pos, shown, cancelled,
                   can_open, inputVars>>

\* Fault: the wait returns without the mutex.
KeyRelockUnlocked ==
    /\ key = "woken"
    /\ key' = "elbow"
    /\ UNCHANGED <<canVars, mutex, ctl, job, flip, elbow_set_pos, shown, cancelled,
                   can_open, inputVars>>

\* pthread_cond_wait takes the mutex again before it returns.
KeyRelock ==
    /\ key = "woken"
    /\ Acquire(Keyboard)
    /\ key' = "elbow"
    /\ UNCHANGED <<canVars, ctl, job, flip, elbow_set_pos, shown, cancelled, can_open,
                   inputVars>>

JobArgs == IF job = "set_position" THEN elbow_set_pos ELSE "zeros"

KeyElbow ==
    /\ key = "elbow"
    /\ Begin(Keyboard, job, Elbow, JobArgs)
    /\ key' = "shoulder"
    /\ UNCHANGED <<mutex, ctl, job, flip, elbow_set_pos, shown, cancelled, can_open,
                   inputVars>>

KeyShoulder ==
    /\ key = "shoulder"
    /\ Begin(Keyboard, job, Shoulder, JobArgs)
    /\ key' = "unlock"
    /\ UNCHANGED <<mutex, ctl, job, flip, elbow_set_pos, shown, cancelled, can_open,
                   inputVars>>

\* Fault: no pthread_mutex_unlock after the command.
KeyUnlockForgotten ==
    /\ key = "unlock"
    /\ Idle(Keyboard)
    /\ key' = "poll"
    /\ UNCHANGED <<canVars, mutex, ctl, job, flip, elbow_set_pos, shown, cancelled,
                   can_open, inputVars>>

KeyUnlock ==
    /\ key = "unlock"
    /\ Idle(Keyboard)
    /\ Release
    /\ key' = "poll"
    /\ UNCHANGED <<canVars, ctl, job, flip, elbow_set_pos, shown, cancelled, can_open,
                   inputVars>>
-----------------------------------------------------------------------------
(***************************************************************************)
(* close_all, called by keyboard_event_thread.                             *)
(***************************************************************************)
QuitElbow ==
    /\ key = "off_elbow"
    /\ Begin(Keyboard, "shutdown_cmd", Elbow, "zeros")
    /\ key' = "off_shoulder"
    /\ UNCHANGED <<mutex, ctl, job, flip, elbow_set_pos, shown, cancelled, can_open,
                   inputVars>>

QuitShoulder ==
    /\ key = "off_shoulder"
    /\ Begin(Keyboard, "shutdown_cmd", Shoulder, "zeros")
    /\ key' = "cancel_imu"
    /\ UNCHANGED <<mutex, ctl, job, flip, elbow_set_pos, shown, cancelled, can_open,
                   inputVars>>

\* pthread_cancel(IMU_tid): that thread is never created, IMU_tid is 0, and the
\* call is undefined: it reads through the null handle, or reports ESRCH.
CancelIMU ==
    /\ key = "cancel_imu"
    /\ Idle(Keyboard)
    /\ \/ process' = "crashed" /\ key' = key
       \/ process' = process /\ key' = "cancel_ctl"
    /\ UNCHANGED <<buffers, position, call, at, busVars, fresh>>
    /\ UNCHANGED <<mutex, ctl, job, flip, elbow_set_pos, shown, cancelled, can_open,
                   inputVars>>

\* Fault: Control_thread is left running.
CancelControlForgotten ==
    /\ key = "cancel_ctl"
    /\ key' = "probe"
    /\ UNCHANGED <<canVars, mutex, ctl, job, flip, elbow_set_pos, shown, cancelled,
                   can_open, inputVars>>

CancelControl ==
    /\ key = "cancel_ctl"
    /\ cancelled' = TRUE
    /\ key' = "probe"
    /\ UNCHANGED <<canVars, mutex, ctl, job, flip, elbow_set_pos, shown, can_open,
                   inputVars>>

\* Fault: close_all takes the mutex for its last message.
QuitProbeLocked ==
    /\ key = "probe"
    /\ Acquire(Keyboard)
    /\ Begin(Keyboard, "probe", Shoulder, "zeros")
    /\ key' = "close"
    /\ UNCHANGED <<ctl, job, flip, elbow_set_pos, shown, cancelled, can_open, inputVars>>

QuitProbe ==
    /\ key = "probe"
    /\ Begin(Keyboard, "probe", Shoulder, "zeros")
    /\ key' = "close"
    /\ UNCHANGED <<mutex, ctl, job, flip, elbow_set_pos, shown, cancelled, can_open,
                   inputVars>>

CloseBus ==
    /\ key = "close"
    /\ Idle(Keyboard)
    /\ can_open' = FALSE
    /\ key' = "exit"
    /\ UNCHANGED <<canVars, mutex, ctl, job, flip, elbow_set_pos, shown, cancelled,
                   inputVars>>

\* WT901_Close, then exit(0).
Exit ==
    /\ key = "exit"
    /\ process' = "exited"
    /\ UNCHANGED <<buffers, position, call, at, busVars, fresh, armVars>>

KeyCall ==
    /\ MemoryStep(Keyboard) \/ SystemCall(Keyboard)
    /\ UNCHANGED armVars

KeyStep ==
    \/ KeyPressed \/ KeyWait \/ KeyElbow \/ KeyShoulder \/ KeyUnlock
    \/ QuitElbow \/ QuitShoulder \/ CancelIMU \/ CancelControl
    \/ QuitProbe \/ CloseBus \/ Exit \/ KeyCall
-----------------------------------------------------------------------------
\* The operator types the next key (external).
Operator ==
    /\ untyped # <<>>
    /\ terminal' = Append(terminal, Head(untyped))
    /\ untyped' = Tail(untyped)
    /\ UNCHANGED <<canVars, mutex, ctl, key, job, flip, elbow_set_pos, shown, cancelled,
                   can_open, stdin>>

Bus(m) == (Answer(m) \/ Lose(m)) /\ UNCHANGED armVars

Running ==
    \/ ControlLock \/ ControlStep
    \/ KeyLock \/ KeyRelock \/ SpuriousWakeup \/ KeyStep
    \/ Operator
    \/ \E m \in Motors : Bus(m)

\* A process that has ended does nothing more.
Ended == process # "running" /\ UNCHANGED vars

Next == (process = "running" /\ Running) \/ Ended

Spec == Init /\ [][Next]_vars
-----------------------------------------------------------------------------
(***************************************************************************)
(* Safety.                                                                 *)
(***************************************************************************)

ShuttingDown == key \in Quitting

\* The statements between the lock and the unlock of each thread.
ElbowReadSection == ctl \in {"read_elbow", "unlock"}
CommandSection == key \in {"elbow", "shoulder", "unlock"}

\* The mutex keeps the two halves of a key's command (main.cpp:164-171 and
\* 175-182) apart from the elbow's read (main.cpp:95-99), whoever woke the
\* keyboard thread and in whatever order the mutex was handed over.
CommandsExcludeElbowRead == ~(ElbowReadSection /\ CommandSection)

\* Until close_all starts, the elbow's cached angle is one the elbow motor
\* sent in answer to a get-position request: the unlocked calls of the other
\* thread never leave anything behind in the shared buffers, the socket or
\* can_reply that the locked read takes for its own answer.
ElbowAngleGenuine ==
    ~ShuttingDown =>
        position[Elbow] \in {ZeroBody, [of |-> Elbow, cmd |-> "0x92"]}

\* Frames on the wire and in the socket.
OnWire(m) == Len(wire[m])
InFlight == OnWire(Elbow) + OnWire(Shoulder) + Len(rxq)

\* Calls whose request is on the wire and whose read() is still to come.
Owed == (IF at[Control] = "read" THEN 1 ELSE 0) + (IF at[Keyboard] = "read" THEN 1 ELSE 0)

\* The request close_all sends and does not wait for.
Unclaimed == IF key = "exit" \/ (key = "close" /\ Idle(Keyboard)) THEN 1 ELSE 0

\* Every call reads one frame for the one it sends, so the frames on the wire
\* and in the socket exceed those still to be read by exactly the number of
\* receives that came too early, less the frames lost: nothing in the driver
\* ever reads a surplus frame away.
RepliesBalance ==
    InFlight + lost = Owed + missed + Unclaimed

\* As long as every answer arrives within the delay and none is lost, each
\* locked read of the elbow ends with a new angle: the keyboard's commands
\* and the unlocked shoulder read, which take frames from the same socket and
\* drop each other's, never drop the elbow's answer.
ElbowReadSucceeds ==
    ctl = "unlock" /\ Idle(Control) /\ ~ShuttingDown /\ late = 0 /\ lost = 0
        => fresh[Elbow]

\* The first shutdown_cmd of close_all has put its command byte in the frame.
ShutdownBegun ==
    \/ key = "off_shoulder" /\ at[Keyboard] \notin {"cmd", "args", "write"}
    \/ key \in Quitting \ {"off_elbow", "off_shoulder"}

\* Once the first shutdown frame is written, no set-position frame is: what a
\* stalled Control_thread still has to write may be torn, but not into motion.
NoMotionAfterShutdown ==
    [][ShutdownBegun =>
          \A m \in Motors :
              Len(wire'[m]) > Len(wire[m]) => wire'[m][Len(wire'[m])].cmd # "0xA4"]_vars

\* After CAN_BUS_Close no thread gets through write() or read() on the closed
\* sockets: the cancellation of Control_thread stands in the way.
NoBusUseAfterClose ==
    [][~can_open => \A t \in Threads : at[t] \in {"write", "read"} => at'[t] = at[t]]_vars
-----------------------------------------------------------------------------
(***************************************************************************)
(* Liveness.  Each thread runs, and a thread that waits for the mutex gets *)
(* it although the other keeps taking it: Control_thread holds it for some *)
(* milliseconds and then sleeps for about 200 ms.  Motors answer.  Typing, *)
(* spurious wakeups and losses need not happen.                            *)
(***************************************************************************)
Guarded(A) == process = "running" /\ A

Fairness ==
    /\ WF_vars(Guarded(ControlStep)) /\ SF_vars(Guarded(ControlLock))
    /\ WF_vars(Guarded(KeyStep))
    /\ SF_vars(Guarded(KeyLock)) /\ SF_vars(Guarded(KeyRelock))
    /\ \A m \in Motors : WF_vars(Guarded(Answer(m) /\ UNCHANGED armVars))

FairSpec == Spec /\ Fairness

\* Once ESC is pressed, the keyboard thread alone has to run.
ShutdownFairness ==
    /\ WF_vars(Guarded(KeyStep))
    /\ \A m \in Motors : WF_vars(Guarded(Answer(m) /\ UNCHANGED armVars))

ShutdownSpec == Spec /\ ShutdownFairness

Stopped == process # "running"

\* What is typed is read and carried out: kbhit sees it, and the wait on the
\* condition variable, which tests no condition, misses no signal for good,
\* because Control_thread signals on every round.  Of keys typed so fast that
\* one getchar reads them all, the first: the rest are in the buffer of stdio,
\* where kbhit does not look, and wait for one more key.
KeyIsServed ==
    (terminal # <<>> \/ key = "lock") ~> ((terminal = <<>> /\ key = "poll") \/ Stopped)

\* The next key that getchar returns is ESC.
EscapeNext ==
    key = "poll" /\ stdin = <<>> /\ terminal # <<>> /\ Head(terminal) = "ESC"

\* ESC ends the process, whatever Control_thread holds or is cancelled in.
EscapeEnds == (EscapeNext \/ ShuttingDown) ~> Stopped

\* While the process runs, the elbow's angle is read again and again.
ElbowKeepsBeingRead == <>Stopped \/ []<>(fresh[Elbow] /\ ctl = "signal")
=============================================================================
