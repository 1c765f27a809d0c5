---------------------------- MODULE MCArmControl ----------------------------
(***************************************************************************)
(* Instances of ArmControl for TLC, with what the repository says of the   *)
(* program and the interleaved calls do not keep.  ArmKeys.cfg types       *)
(* command keys on an imperfect bus; ArmShutdown.cfg types a command key   *)
(* and ESC at any moment.                                                  *)
(***************************************************************************)
EXTENDS ArmControl

\* What the operator types.
Nothing == {<<>>}
Move == {<<"b">>}
OneCommand == {<<"b">>, <<"z">>}
Commands == {<<"b", "z">>, <<"other", "b">>}
Escape == {<<"ESC">>}
MoveThenEscape == {<<"b", "ESC">>}

\* motor.h:24, of get_position: "Gets the position from the motor".  The
\* shoulder is read outside the mutex: a command of the keyboard thread can
\* overwrite the shared receive buffer between the match of the shoulder's
\* answer and its decoding, so that the cached angle is decoded from bytes
\* that are no answer of the shoulder to a get-position request.
ShoulderAngleGenuine ==
    ~ShuttingDown =>
        position[Shoulder] \in {ZeroBody, [of |-> Shoulder, cmd |-> "0x92"]}

\* motor.cpp:40 tests can_reply != NULL before it copies from it.  The pointer
\* is shared by the Motor methods of both threads: it may be NULL again when
\* memmove reads it (CancelIMU, the other way to crash, is in close_all).
NeverCopiesFromNull == process = "crashed" => ShuttingDown

\* CAN_BUS_HCPS.h:89, of CAN_BUS_Send: "input the 8 bytes data", and :22, "set
\* send address (motor address)".  close_all calls it without the mutex: before
\* the shutdown of a motor is written, Control_thread may have made a request
\* for an angle of the static frame, or addressed it to the other motor.
ShutdownSent ==
    [][at[Keyboard] = "write" /\ at'[Keyboard] # "write" /\ call[Keyboard].op = "shutdown_cmd"
           => frame_send.cmd = "0x80" /\ frame_send.motor = call[Keyboard].motor]_vars
=============================================================================
