------------------------------ MODULE FailClosed ------------------------------
(***************************************************************************)
(* FailClosedController: speed commands that must end in a zero command.   *)
(* Its coroutines await one thing, the sink's send, which may take time,   *)
(* fail or be cancelled; what runs between two sends is one step.  Time    *)
(* passes in tenths of a second, the period of the caller's tick, and no   *)
(* age is kept longer than the comparisons need.                           *)
(***************************************************************************)
EXTENDS Integers

CONSTANTS Watchdog,    \* watchdog_ms in tenths of a second (3)
          MaxMovement, \* maximum_movement_ms in tenths of a second (5)
          ZeroTries    \* zero_retry_limit (2)

ASSUME FailClosedAssumption == /\ Watchdog \in Nat \ {0}
                               /\ MaxMovement \in Nat \ {0}
                               /\ ZeroTries \in Nat \ {0}

VARIABLES safety,    \* controller.state, a ControlState
          pushed,    \* latest_input.active
          inputAge,  \* since last_input_ns
          sendAge,   \* since last_send_ns
          heldAge,   \* since active_since_ns
          neutral,   \* neutral_required
          call,      \* the send the running coroutine awaits
          out,       \* the last command the camera may obey
          turning    \* history: how long that has been a movement

safetyVars == <<safety, pushed, inputAge, sendAge, heldAge, neutral, call, out, turning>>

ControlState == {"disabled", "armed", "active", "stopping", "fault", "disconnected"}

\* An age that is None was never set.
None == -1
Older(age, limit) == IF age = None \/ age = limit THEN age ELSE age + 1

NoCall == [send |-> "none", tries |-> 0, then |-> "none"]
Driving == [send |-> "drive", tries |-> 1, then |-> "active"]
Zeroing(destination) == [send |-> "zero", tries |-> 1, then |-> destination]
Idle == call = NoCall

FailClosedInit == /\ safety \in {"disabled", "armed"} /\ pushed = FALSE
                  /\ inputAge = None /\ sendAge = None /\ heldAge = None
                  /\ neutral = FALSE /\ call = NoCall
                  /\ out = "zero" /\ turning = 0

\* A speed or zero command reaches the camera.
Obeyed(command) == /\ out' = command
                   /\ turning' = IF command = out THEN turning ELSE 0

-----------------------------------------------------------------------------
(* Calls.                                                                   *)

Arm == /\ Idle
       /\ safety \in {"disabled", "disconnected"}
       /\ safety' = "armed" /\ neutral' = FALSE
       /\ UNCHANGED <<pushed, inputAge, sendAge, heldAge, call, out, turning>>

SubmitInput(isActive) == /\ Idle
                         /\ pushed' = isActive
                         /\ inputAge' = 0
                         /\ neutral' = (neutral /\ isActive)
                         /\ UNCHANGED <<safety, sendAge, heldAge, call, out, turning>>

\* _zero up to its first send.
Zero(destination) == /\ Idle
                     /\ safety' = "stopping"
                     /\ call' = Zeroing(destination)
                     /\ UNCHANGED <<pushed, inputAge, sendAge, heldAge, out, turning>>

\* emergency_stop and focus_lost do not look at the state.
StopAtOnce == Zero("disabled") /\ neutral' = TRUE

StopControl == /\ safety \notin {"fault", "disconnected"}
               /\ Zero("disabled")
               /\ UNCHANGED neutral

StopIgnored == Idle /\ safety \in {"fault", "disconnected"} /\ UNCHANGED safetyVars

Disconnect == IF safety \in {"active", "armed"}
              THEN Zero("disconnected") /\ UNCHANGED neutral
              ELSE /\ Idle /\ safety' = "disconnected"
                   /\ UNCHANGED <<pushed, inputAge, sendAge, heldAge, neutral, call, out, turning>>

-----------------------------------------------------------------------------
(* tick: the first of its conditions that holds.                            *)

Live == Idle /\ safety \in {"armed", "active"}
Expired == safety = "active" /\ (inputAge = None \/ inputAge > Watchdog)
Wanted == Live /\ ~Expired /\ pushed /\ ~neutral
HeldTooLong == heldAge # None /\ heldAge >= MaxMovement

TickExpired == /\ Live /\ Expired
               /\ Zero("armed")
               /\ UNCHANGED neutral

TickReleased == /\ Live /\ ~Expired /\ ~pushed /\ safety = "active"
                /\ Zero("armed")
                /\ UNCHANGED neutral

TickTooLong == /\ Wanted /\ HeldTooLong
               /\ neutral' = TRUE
               /\ Zero("armed")

\* Less than a period after the last send the movement counts as begun, but
\* nothing is sent.
TickDrives == /\ Wanted /\ ~HeldTooLong
              /\ heldAge' = IF heldAge = None THEN 0 ELSE heldAge
              /\ IF sendAge = 0 THEN UNCHANGED call ELSE call' = Driving
              /\ UNCHANGED <<safety, pushed, inputAge, sendAge, neutral, out, turning>>

TickIdles == /\ Idle
             /\ \/ ~Live
                \/ ~Expired /\ (~pushed => safety = "armed") /\ (pushed => neutral)
             /\ UNCHANGED safetyVars

Tick == TickExpired \/ TickReleased \/ TickTooLong \/ TickDrives \/ TickIdles

-----------------------------------------------------------------------------
(* What becomes of a send.                                                  *)

DriveSentOn == /\ call.send = "drive"
               /\ Obeyed("drive")
               /\ safety' = "active" /\ sendAge' = 0 /\ call' = NoCall
               /\ UNCHANGED <<pushed, inputAge, heldAge, neutral>>

ZeroSent == /\ call.send = "zero"
            /\ Obeyed("zero")
            /\ safety' = call.then /\ sendAge' = 0 /\ call' = NoCall
            /\ pushed' = FALSE /\ heldAge' = None
            /\ UNCHANGED <<inputAge, neutral>>

\* The frame of a send that fails or is cancelled may be out all the same.
Perhaps == Obeyed(call.send) \/ UNCHANGED <<out, turning>>

DriveFails == /\ call.send = "drive"
              /\ Perhaps
              /\ safety' = "stopping" /\ call' = Zeroing("fault")
              /\ UNCHANGED <<pushed, inputAge, sendAge, heldAge, neutral>>

\* Mutant: after the last attempt the state is the one that was asked for.
ZeroGivenUpQuietly == /\ call.send = "zero"
                      /\ Perhaps
                      /\ IF call.tries < ZeroTries
                         THEN call' = [call EXCEPT !.tries = @ + 1] /\ UNCHANGED safety
                         ELSE call' = NoCall /\ safety' = call.then
                      /\ UNCHANGED <<pushed, inputAge, sendAge, heldAge, neutral>>

ZeroFails == /\ call.send = "zero"
             /\ Perhaps
             /\ IF call.tries < ZeroTries
                THEN call' = [call EXCEPT !.tries = @ + 1] /\ UNCHANGED safety
                ELSE call' = NoCall /\ safety' = "fault"
             /\ UNCHANGED <<pushed, inputAge, sendAge, heldAge, neutral>>

\* CancelledError is no Exception: no coroutine here answers it.
SendCancelled == /\ ~Idle
                 /\ Perhaps
                 /\ call' = NoCall
                 /\ UNCHANGED <<safety, pushed, inputAge, sendAge, heldAge, neutral>>

Elapse == /\ inputAge' = Older(inputAge, Watchdog + 1)
          /\ sendAge' = Older(sendAge, 1)
          /\ heldAge' = Older(heldAge, MaxMovement)
          /\ turning' = IF out = "drive" THEN turning + 1 ELSE 0
          /\ UNCHANGED <<safety, pushed, neutral, call, out>>

FailClosedTypeOK == /\ safety \in ControlState
                    /\ <<pushed, neutral>> \in BOOLEAN \X BOOLEAN
                    /\ inputAge \in None..Watchdog + 1
                    /\ sendAge \in None..1
                    /\ heldAge \in None..MaxMovement
                    /\ call \in {NoCall, Driving} \cup
                                {[Zeroing(d) EXCEPT !.tries = n] :
                                    d \in ControlState, n \in 1..ZeroTries}
                    /\ out \in {"drive", "zero"}
                    /\ turning \in Nat
=============================================================================
