------------------------------- MODULE CanBus -------------------------------
(***************************************************************************)
(* The CAN driver of the arm (CAN_BUS_HCPS.c) with the Motor methods that  *)
(* call it (motor.cpp), at the granularity at which two threads meet in    *)
(* it.  The driver keeps every frame in a static buffer that all threads   *)
(* share: frame_send, frame_recv, nbytes_recv, receive_buf and can_reply.  *)
(* A call of a Motor method is a sequence of steps, one per access to one  *)
(* of these buffers, and nothing in this module orders the steps of two    *)
(* calls: that is left to the threads (module ArmControl).                 *)
(*                                                                         *)
(* The program is built without optimisation (multitask_make.sh), so the   *)
(* accesses happen in program order; a frame is copied in chunks (address, *)
(* command byte, the seven bytes after it) and a chunk is copied whole.    *)
(* The seven bytes of a reply are abstracted to where they come from: the  *)
(* motor that sent them and the command it answered.                       *)
(*                                                                         *)
(* The motors, the CAN wire and the kernel's socket queue are outside the  *)
(* repository: wire and rxq model how the driver uses them.                *)
(*                                                                         *)
(* A definition marked "Fault" is a wrong version of the one after it: no  *)
(* specification uses it, the properties are shown to refuse it.           *)
(***************************************************************************)
EXTENDS Integers, Sequences

CONSTANTS
    Control, Keyboard,  \* the two threads that use the bus
    Elbow, Shoulder,    \* the motors, can_address_ 0x141 and 0x142
    NoMotor,            \* the address in a buffer that holds zeros
    MaxLate,            \* bound: receives that run before the answer arrives
    MaxLost             \* bound: requests or answers lost on the wire

ASSUME CanBusAssumption ==
    /\ Control # Keyboard
    /\ Elbow # Shoulder
    /\ NoMotor \notin {Elbow, Shoulder}
    /\ MaxLate \in Nat
    /\ MaxLost \in Nat

Threads == {Control, Keyboard}
Motors == {Elbow, Shoulder}

\* The methods of Motor that use the bus, and "probe": the bare CAN_BUS_Send
\* of the get-position message at the end of close_all.
Ops == {"read_position", "set_position", "set_zero_cmd", "shutdown_cmd", "probe"}

\* Bytes 1..7 of a request: all zero, or a speed limit and a target angle.
Args == {"zeros", "deg0", "deg20"}

Cmds == {"0x00", "0x64", "0x80", "0x92", "0xA4"}
Body == [of : Motors \cup {NoMotor}, cmd : Cmds]
Frame == [motor : Motors \cup {NoMotor}, cmd : Cmds, body : Body]
SendFrame == [motor : Motors \cup {NoMotor}, cmd : Cmds, args : Args]
Call == [op : Ops, motor : Motors, args : Args]
Request == [by : Threads, cmd : Cmds, args : Args]

ZeroBody == [of |-> NoMotor, cmd |-> "0x00"]
ZeroFrame == [motor |-> NoMotor, cmd |-> "0x00", body |-> ZeroBody]

\* The command byte a method sends: the first byte of its message array.
CommandOf(op) ==
    CASE op \in {"read_position", "probe"} -> "0x92"
      [] op = "set_position" -> "0xA4"
      [] op = "set_zero_cmd" -> "0x64"
      [] op = "shutdown_cmd" -> "0x80"

\* The command byte a method passes to CAN_BUS_Receive: its own, except that
\* shutdown_cmd passes get_position_msg[0].
ExpectedReply(op) ==
    IF op = "shutdown_cmd" THEN "0x92" ELSE CommandOf(op)

VARIABLES
    frame_send,   \* the frame CAN_BUS_Send fills
    frame_recv,   \* the frame CAN_BUS_Receive reads into
    nbytes_recv,  \* the result of the last read()
    receive_buf,  \* the reply CAN_BUS_Receive hands out
    can_reply,    \* TRUE: points to receive_buf; FALSE: NULL
    position,     \* Motor::position_, the cached angle of each motor
    call,         \* the method each thread is (or was last) in
    at,           \* where in that method the thread is
    wire,         \* requests each motor has not yet answered
    rxq,          \* answers waiting in the receive socket
    process,      \* "running", "crashed" or "exited"
    late,         \* receives that ran before the thread's answer arrived
    missed,       \* receives that found the socket empty
    lost,         \* requests or answers lost on the wire
    fresh         \* did the last read_position of the motor update position?

buffers == <<frame_send, frame_recv, nbytes_recv, receive_buf, can_reply>>
busVars == <<wire, rxq, late, missed, lost>>
canVars == <<buffers, position, call, at, busVars, process, fresh>>

Places == {"idle", "cmd", "args", "write", "read", "check", "reject", "head",
           "body", "clear", "return_null", "return_buf", "test", "copy"}

CanTypeOK ==
    /\ frame_send \in SendFrame
    /\ frame_recv \in Frame
    /\ nbytes_recv \in {-1, 0, 16}
    /\ receive_buf \in Frame
    /\ can_reply \in BOOLEAN
    /\ position \in [Motors -> Body]
    /\ call \in [Threads -> Call]
    /\ at \in [Threads -> Places]
    /\ wire \in [Motors -> Seq(Request)]
    /\ rxq \in Seq(Frame)
    /\ process \in {"running", "crashed", "exited"}
    /\ late \in 0..MaxLate
    /\ missed \in Nat
    /\ lost \in 0..MaxLost
    /\ fresh \in [Motors -> BOOLEAN]

\* Static storage is zero when CAN_BUS_Init has run; no call is in progress.
CanInit ==
    /\ frame_send = [motor |-> NoMotor, cmd |-> "0x00", args |-> "zeros"]
    /\ frame_recv = ZeroFrame
    /\ nbytes_recv = 0
    /\ receive_buf = ZeroFrame
    /\ can_reply = FALSE
    /\ position = [m \in Motors |-> ZeroBody]
    /\ call = [t \in Threads |->
                  [op |-> "probe", motor |-> Shoulder, args |-> "zeros"]]
    /\ at = [t \in Threads |-> "idle"]
    /\ wire = [m \in Motors |-> <<>>]
    /\ rxq = <<>>
    /\ process = "running"
    /\ late = 0
    /\ missed = 0
    /\ lost = 0
    /\ fresh = [m \in Motors |-> FALSE]

Goto(t, place) == at' = [at EXCEPT ![t] = place]
-----------------------------------------------------------------------------
(***************************************************************************)
(* CAN_BUS_Send: frame_send is filled field by field and written.          *)
(***************************************************************************)

\* Thread t calls a Motor method, which calls CAN_BUS_Send: can_id is set.
Begin(t, op, m, args) ==
    /\ at[t] = "idle"
    /\ call' = [call EXCEPT ![t] = [op |-> op, motor |-> m, args |-> args]]
    /\ frame_send' = [frame_send EXCEPT !.motor = m]
    /\ fresh' = IF op = "read_position" THEN [fresh EXCEPT ![m] = FALSE] ELSE fresh
    /\ Goto(t, "cmd")
    /\ UNCHANGED <<frame_recv, nbytes_recv, receive_buf, can_reply, position,
                   busVars, process>>

\* Fault: no message is filled in for a shutdown, the last one is sent again.
SendCommandStale(t) ==
    /\ at[t] = "cmd"
    /\ frame_send' = IF call[t].op = "shutdown_cmd" THEN frame_send
                     ELSE [frame_send EXCEPT !.cmd = CommandOf(call[t].op)]
    /\ Goto(t, "args")
    /\ UNCHANGED <<frame_recv, nbytes_recv, receive_buf, can_reply, position,
                   call, busVars, process, fresh>>

\* data[0], the command byte.
SendCommand(t) ==
    /\ at[t] = "cmd"
    /\ frame_send' = [frame_send EXCEPT !.cmd = CommandOf(call[t].op)]
    /\ Goto(t, "args")
    /\ UNCHANGED <<frame_recv, nbytes_recv, receive_buf, can_reply, position,
                   call, busVars, process, fresh>>

\* data[1..7], the argument bytes.
SendArgs(t) ==
    /\ at[t] = "args"
    /\ frame_send' = [frame_send EXCEPT !.args = call[t].args]
    /\ Goto(t, "write")
    /\ UNCHANGED <<frame_recv, nbytes_recv, receive_buf, can_reply, position,
                   call, busVars, process, fresh>>

\* Fault: set_zero_cmd leaves its answer in the socket.
SendWriteUnread(t) ==
    /\ at[t] = "write"
    /\ wire' = [wire EXCEPT ![frame_send.motor] =
                   Append(@, [by |-> t, cmd |-> frame_send.cmd, args |-> frame_send.args])]
    /\ Goto(t, IF call[t].op \in {"probe", "set_zero_cmd"} THEN "idle" ELSE "read")
    /\ UNCHANGED <<buffers, position, call, rxq, late, missed, lost, process, fresh>>

\* write(): what frame_send holds now goes on the wire.  Every method but the
\* probe goes on to CAN_BUS_Receive after its delay.
SendWrite(t) ==
    /\ at[t] = "write"
    /\ wire' = [wire EXCEPT ![frame_send.motor] =
                   Append(@, [by |-> t, cmd |-> frame_send.cmd, args |-> frame_send.args])]
    /\ Goto(t, IF call[t].op = "probe" THEN "idle" ELSE "read")
    /\ UNCHANGED <<buffers, position, call, rxq, late, missed, lost, process, fresh>>
-----------------------------------------------------------------------------
(***************************************************************************)
(* CAN_BUS_Receive: one non-blocking read(), whatever it returns.          *)
(***************************************************************************)

\* The motor has not yet answered what t asked.
Outstanding(t) == \E m \in Motors : \E i \in DOMAIN wire[m] : wire[m][i].by = t

\* read(): takes the oldest answer, or finds none.  The readDelay before it is
\* meant to outlast the motor: it fails to at most MaxLate times.
ReadSocket(t) ==
    /\ at[t] = "read"
    /\ IF Outstanding(t) THEN late < MaxLate /\ late' = late + 1 ELSE late' = late
    /\ \/ /\ rxq # <<>>
          /\ frame_recv' = Head(rxq)
          /\ rxq' = Tail(rxq)
          /\ nbytes_recv' = 16
          /\ missed' = missed
       \/ /\ rxq = <<>>
          /\ nbytes_recv' = -1
          /\ missed' = missed + 1
          /\ UNCHANGED <<frame_recv, rxq>>
    /\ Goto(t, "check")
    /\ UNCHANGED <<frame_send, receive_buf, can_reply, position, call, wire, lost,
                   process, fresh>>

\* Fault: the address of the answer is not tested.
MatchesAnyMotor(t) == nbytes_recv > 0 /\ frame_recv.cmd = ExpectedReply(call[t].op)

\* The tests on nbytes_recv, data[0] and can_id, all read from shared memory.
Matches(t) ==
    /\ nbytes_recv > 0
    /\ frame_recv.cmd = ExpectedReply(call[t].op)
    /\ frame_recv.motor = call[t].motor

CheckFrame(t) ==
    /\ at[t] = "check"
    /\ Goto(t, IF Matches(t) THEN "head" ELSE "reject")
    /\ UNCHANGED <<buffers, position, call, busVars, process, fresh>>

\* Fault: a frame that does not match makes the receive read again.
RejectAndRetry(t) ==
    /\ at[t] = "reject"
    /\ frame_recv' = ZeroFrame
    /\ Goto(t, IF nbytes_recv > 0 THEN "read" ELSE "return_null")
    /\ UNCHANGED <<frame_send, nbytes_recv, receive_buf, can_reply, position, call,
                   busVars, process, fresh>>

\* A frame that is not the awaited answer is dropped, not put back.
Reject(t) ==
    /\ at[t] = "reject"
    /\ frame_recv' = ZeroFrame
    /\ Goto(t, "return_null")
    /\ UNCHANGED <<frame_send, nbytes_recv, receive_buf, can_reply, position, call,
                   busVars, process, fresh>>

\* receive_buf[0] is the low nibble of the address asked, [1] the command byte.
FillHead(t) ==
    /\ at[t] = "head"
    /\ receive_buf' = [receive_buf EXCEPT !.motor = call[t].motor,
                                          !.cmd = frame_recv.cmd]
    /\ Goto(t, "body")
    /\ UNCHANGED <<frame_send, frame_recv, nbytes_recv, can_reply, position, call,
                   busVars, process, fresh>>

FillBody(t) ==
    /\ at[t] = "body"
    /\ receive_buf' = [receive_buf EXCEPT !.body = frame_recv.body]
    /\ Goto(t, "clear")
    /\ UNCHANGED <<frame_send, frame_recv, nbytes_recv, can_reply, position, call,
                   busVars, process, fresh>>

ClearFrame(t) ==
    /\ at[t] = "clear"
    /\ nbytes_recv' = 0
    /\ frame_recv' = ZeroFrame
    /\ Goto(t, "return_buf")
    /\ UNCHANGED <<frame_send, receive_buf, can_reply, position, call, busVars,
                   process, fresh>>

\* can_reply = CAN_BUS_Receive(...): only read_position looks at the answer.
StoreReply(t) ==
    /\ at[t] \in {"return_null", "return_buf"}
    /\ can_reply' = (at[t] = "return_buf")
    /\ Goto(t, IF call[t].op = "read_position" THEN "test" ELSE "idle")
    /\ UNCHANGED <<frame_send, frame_recv, nbytes_recv, receive_buf, position, call,
                   busVars, process, fresh>>
-----------------------------------------------------------------------------
(***************************************************************************)
(* The rest of read_position.  rec_buf is used by no other method, and one *)
(* thread calls read_position: the copy and the tests on it are one step.  *)
(***************************************************************************)

\* if (can_reply != NULL)
TestReply(t) ==
    /\ at[t] = "test"
    /\ Goto(t, IF can_reply THEN "copy" ELSE "idle")
    /\ UNCHANGED <<buffers, position, call, busVars, process, fresh>>

\* memmove(rec_buf, can_reply, 9) reads can_reply again.
CopyFromNull(t) ==
    /\ at[t] = "copy"
    /\ ~can_reply
    /\ process' = "crashed"
    /\ UNCHANGED <<buffers, position, call, at, busVars, fresh>>

\* The copied reply bears the address and the command of this call.
ForThisCall(t) ==
    /\ receive_buf.cmd = "0x92"
    /\ receive_buf.motor = call[t].motor

\* Fault: the angle is decoded from the start of the reply.
AcceptReplyUnframed(t) ==
    /\ at[t] = "copy"
    /\ can_reply
    /\ ForThisCall(t)
    /\ position' = [position EXCEPT ![call[t].motor] = receive_buf]
    /\ fresh' = [fresh EXCEPT ![call[t].motor] = TRUE]
    /\ Goto(t, "idle")
    /\ UNCHANGED <<buffers, call, busVars, process>>

AcceptReply(t) ==
    /\ at[t] = "copy"
    /\ can_reply
    /\ ForThisCall(t)
    /\ position' = [position EXCEPT ![call[t].motor] = receive_buf.body]
    /\ fresh' = [fresh EXCEPT ![call[t].motor] = TRUE]
    /\ Goto(t, "idle")
    /\ UNCHANGED <<buffers, call, busVars, process>>

IgnoreReply(t) ==
    /\ at[t] = "copy"
    /\ can_reply
    /\ ~ForThisCall(t)
    /\ Goto(t, "idle")
    /\ UNCHANGED <<buffers, position, call, busVars, process, fresh>>

\* The steps of a call that touch memory only.
MemoryStep(t) ==
    \/ SendCommand(t) \/ SendArgs(t)
    \/ CheckFrame(t) \/ Reject(t)
    \/ FillHead(t) \/ FillBody(t) \/ ClearFrame(t) \/ StoreReply(t)
    \/ TestReply(t) \/ CopyFromNull(t) \/ AcceptReply(t) \/ IgnoreReply(t)

\* The system calls: the points where a pending cancellation takes effect.
SystemCall(t) == SendWrite(t) \/ ReadSocket(t)
-----------------------------------------------------------------------------
(***************************************************************************)
(* The motors (external): each answers its requests in order, with the     *)
(* command byte of the request; the two answer in any order.               *)
(***************************************************************************)
Answer(m) ==
    /\ wire[m] # <<>>
    /\ LET c == Head(wire[m]).cmd
       IN  rxq' = Append(rxq, [motor |-> m, cmd |-> c, body |-> [of |-> m, cmd |-> c]])
    /\ wire' = [wire EXCEPT ![m] = Tail(@)]
    /\ UNCHANGED <<buffers, position, call, at, late, missed, lost, process, fresh>>

\* A request or its answer is lost, or write() failed, which is only printed.
Lose(m) ==
    /\ wire[m] # <<>>
    /\ lost < MaxLost
    /\ lost' = lost + 1
    /\ wire' = [wire EXCEPT ![m] = Tail(@)]
    /\ UNCHANGED <<buffers, position, call, at, rxq, late, missed, process, fresh>>
=============================================================================
