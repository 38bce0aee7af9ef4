# openframetap in TLA+

openframetap drives a DJI Pocket 3 from a small Linux board: it shows the
camera's video, moves its gimbal and presses its shutter, over BLE, over the
camera's own hotspot ("normal" mode) or over an external network to which the
camera streams RTMP ("livestream" mode). These modules model the parts where
several tasks, threads and processes meet, or where what was begun must be
finished whatever fails: every way to move the gimbal, the network profile that
must be taken back, the application that changes modes, the UDP link and the
video that comes over it, and the commands that prepare a livestream over BLE.
Paths below are relative to `src/src/openframetap/`.

## The system

| Component | State it keeps | Operations | What makes it correct |
|---|---|---|---|
| Gimbal controller, `control/gimbal_controller.py` | state (idle, centered, armed, active, stopping, fault, disabled), last stick command | arm, centre burst, live axes, pulse with deadline, release, stop | a stick at rest is centred; a movement is bounded |
| Live session, `control/live_wifi.py` | input queue, pause/re-arm flags, current value and its age, pending camera action, snapshot | asyncio task `_run`; the UI thread's `submit`, `request_action`, `rearm`, `stop` | STOP, lost input, lost BLE and every exit centre the stick; actions only at rest |
| One-shot workflows, `workflows/pocket3_wifi_gimbal.py`, `control/one_shot.py` | the sequence of one pulse, of one bounded test | arm, pulse, second pulse, cleanup; a speed command and two zeros over BLE | ends centred, or with a zero |
| Fail-closed controller, `control/safety.py`, `mock_validation.py` | state, last input and its age, start of the movement, neutral lock | submit, tick, stop, emergency stop, disconnect | stands still in every state but active and fault |
| Window and input, `app/input.py`, `app/runtime.py` | keys and finger held, latest input, stop reason | key, joystick, button and focus events, 10 Hz tick | no movement from a key that was let go behind the window's back |
| Hotspot profile, `network/softap.py` | NetworkManager's profile, rollback file, `flock` | preflight, join, cleanup, `recover_network` | a crash at any point can be undone |
| Normal session, `workflows/pocket3_normal.py`, `app/normal_session.py` | stage of the coroutine, summary, stop event | one coroutine in a thread of its own; `start`, `stop` from the GUI | the finally block centres, closes, rolls back |
| Application modes, `app/modes.py`, `app/runtime.py`, `app/widgets.py` | current mode, who owns the camera's livestream, exit flag | one GTK application per mode, restore and stop of the livestream, exit button, signals | no mode starts over the remains of another; nothing is left running |
| UDP transport, `transport/dji_wifi_udp.py`, `normal_udp.py` | sequence numbers, peer and ACK window, registration, DUML counter | handshake, send, ACK at 40 Hz, answer registration, enable once, keepalive | the books survive wrap, loss, overtaking, failed and cancelled sends |
| Video assembly, `video/normal_stream.py`, `protocol/reassembly.py` | groups of fragments, the pending large unit, what went out; the bytes kept of a stream | feed, expire, flush | whole units only, once, starting with a key picture; frames do not depend on how bytes arrive |
| BLE link, `transport/bluez_ble.py` | connection, subscription, ledger of writes | connect, subscribe, authorised write in chunks, release | the ledger tells what the camera got; the camera is given back |
| BLE requests, `workflows/pocket3_normal.py` 20-127 | table of pending replies, sequence counter | request with timeout and one retry, heartbeat, notification | a reply answers its own request |
| BLE monitor, `app/ble_status.py` | `ble_connected` | listen, stop | a lost link is not shown as up |
| Livestream preparation and pairing, `workflows/prepare_recovery_session.py`, `pocket3_rtmp.py`, `pairing/manual_session.py`, `cli.py` | stage of the session, phase file, proposals | staged approved frames; one CLI command per stage | no frame twice, none before its answer, the phase file never ahead of the camera |
| Secrets file, `network/secrets.py` | `secrets.env`, `.new`, `.bak` | store Wi-Fi pair, store stream key | whole at every moment |

How they interact: `run_app_modes` runs a `GtkReadOnlyApp` per mode. In
livestream mode that application owns a `LiveWifiControlSession` on a socket of
its own; in normal mode a `NormalGuiSession` runs `run_normal_session` in a
thread, and that coroutine attaches the control session to its own UDP
transport. The control session calls the `GimbalUdpController` from one task.
The GTK thread talks to the session's thread through a queue, events, a
snapshot behind a lock, and `task.cancel`. The rollback file and the lock file
are shared with other processes (`normal-cleanup`). The coroutine of normal mode
asks the camera for its hotspot over BLE (`BleRequests`), then reads the UDP
socket: acknowledgements and registration go back through `UdpTransport`, video
fragments to the assembler, everything else to the DUML reassembler. Livestream
mode finds a camera that the preparation commands have brought to publish; each
of these runs one BLE session and records its outcome in the phase file and in
captures that the next command reads. Beside the livestream's window a
read-only BLE monitor tells the live session whether the camera is still there.

What is hard: cancellations at every `await`, the UI thread writing flags
between two awaits, inputs aging while the task waits, camera replies that are
late, doubled or lost, processes killed between two `nmcli` commands or between
the air and the phase file, datagrams that wrap, overtake and repeat, sends that
are cancelled after they have drawn a number, and the exit button pressed in
the middle of anything.

## Modules

| Module | Models | Composes |
|---|---|---|
| `GimbalController` | the controller's coroutines, cut at each `await`; `CanArm`, `CanDrive` and `CanPulse` are the states in which it takes a call, and what a caller does with a refused one is the caller's | |
| `LiveControl` | `LiveWifiControlSession._run` and the UI thread | `GimbalController` |
| `OneShot` | `run_wifi_gimbal_test` with pulses | `GimbalController` |
| `SoftAp` | `TemporarySoftAP`, `recover_network`, lock, file, NetworkManager; in `SoftApSpec` the lock's owner calls join and cleanup at will | |
| `NormalSession` | the coroutine's stages and finally block, the thread, `stop()` | `SoftAp` |
| `AppModes` | mode loop, end of the GUI, exit button, stop of the livestream, kills | `NormalSession` |
| `UdpTransport` | `NormalControlUdpTransport`, its four users (main, ack, recv, ctl) and the network between it and the camera | |
| `FlowControl` | abstract: six counters that never wrap; refined by `UdpTransport` | |
| `MediaAssembler` | `OnlineMediaAssembler.feed` and the player's start, fed by a script of the camera | |
| `MediaDelivery` | abstract: units delivered at most once; refined by `MediaAssembler` | |
| `DumlStream` | `DumlStreamReassembler` on bytes that arrive in pieces, against a reference over the whole stream | |
| `Pocket3Commands` | the frames for FFF5, their policy and the sets each kind of session may send | |
| `BleLink` | one `BluezBleTransport` | |
| `FrameSession` | the four sessions that write approved frames, as scripts run in one try/finally | `BleLink`, `Pocket3Commands` |
| `ApprovedFrames` | abstract: one approved frame after another, each once, each after its answers; refined by `FrameSession` | |
| `RtmpWorkflow` | the phase file, proposals, captures and CLI commands, with kills between their writes | `FrameSession` |
| `BleRequests` | request, retry and heartbeat of `BleNormalSession` | `BleLink` |
| `BleMonitor` | `ReadOnlyBleMonitor` | `BleLink` |
| `SecretFile` | the two configure commands over a file system that may lose what is not synced | |
| `FailClosed` | `FailClosedController`, cut at its sends | |
| `BoundedTest` | `run_one_shot_gimbal_test`, and the scenarios of `run_mock_validation` | `FailClosed` |
| `OperatorInput` | keys, joystick, buttons, focus and the window's tick | `FailClosed` |
| `MCVideoLink`, `MCPreparation`, `MCControl` | parts that share no state, side by side, one chosen by `part` | what their runs check |
| `GimbalController_proofs`, `LiveControl_proofs`, `UdpTransport_proofs`, `RtmpWorkflow_proofs` | theorems about the module they are named for, the last also about `FrameSession` | `LiveControl_proofs` cites the controller's |
| `AppModes_proofs` | theorems about `SoftAp` and, by refinement, about the application | |
| `MCVideoLink_proofs`, `MCPreparation_proofs`, `MCControl_proofs` | theorems about each part, and what carries them over to the composition the run checks | the proofs of their parts |

State and actions keep the source's names where TLA+ allows. Some
correspondences that are not evident:

* `GimbalController`: `op` is the coroutine that runs, `step` the `await` it is
  at ("send", "gap", "pause"), `wire` the last stick command the camera may
  have got. A failed or cancelled send is `SendFails`: the camera may or may
  not have got it.
* `LiveControl`: `pc` is the place of `_run`'s loop. Everything between two
  points where another actor can interfere is one action, the writes of the UI
  thread are actions of their own. Where the code reads a value before an await
  and uses it after (`value`), the model keeps it in a variable. Time is what the
  loop can tell: a gesture is fresh or older than 250 ms, a deadline passed or not.
  A call that the controller does not take raises in the caller (`Refused`, with the
  outcome of its own that `NeverRefused` is about); `OneShot` hands it to its handler.
* `SoftAp`: `ap.step` is the command `TemporarySoftAP` awaits; `HalfDone` is what
  a command may have done when its caller was torn away; `Truncated` is the
  file between the truncation and the write of `write_text`.
* `NormalSession`: `stage` is the part of `run_normal_session` that awaits;
  `stopCall` is the progress of `NormalGuiSession.stop`, which runs in the GTK
  thread: the event is set in one step, the cancellation arrives in a later
  one. The fields of the coroutine's frame go when it ends; `summary` is
  what it returned, empty when a cancellation ended it inside its finally block.
* `AppModes`: `app` is the place of `run_app_modes`; "first", "second" and
  "third" are the three `stop()` calls a leaving GUI makes in normal mode with
  live control. `cut`, `ours` and `stopsSent` are history variables: the
  program has no such fields. Variables of a process or of an object that is
  gone are set back to their initial values.

* `UdpTransport`: `draft` is the datagram whose sender holds both locks, with the
  number it has drawn; it is entered into the books only when the send returns. Sequence numbers count in the
  protocol's steps of eight, so `Wrap` is 2^16 / 8 in the code. `Flow` maps the
  wrapped numbers to the counters of `FlowControl` with the history of what was
  sent. `keepalives` is a history variable: the keepalives on the air whose answers may
  still come. `Heard` is the network: how far behind the newest datagram either
  side may be.
* `MediaAssembler`: a fragment is its group, its place and whether it is full
  length; `script` is what the camera films, chosen in `Init`; `Sums` are the offsets
  at which the groups of a unit begin and end.
* `FrameSession`: a session is a kind and a position in its script; a frame that
  leaves only some of its chunks is in `wire` but not whole. `Sessions` maps it
  to `ApprovedFrames`. `Singles` and `Guarded` are the sessions of one frame:
  `manual-write` sends any pairing frame, bare (`"ack"`: after any notification) or
  after a prerequisite (`"ack_after"`: after the exact approval), and `send-approved`
  the frames of the livestream.
* `RtmpWorkflow`: `phase` is the file, "torn" when a kill inside `write_text`
  made it unreadable; a command of the CLI is its checks, its session and its
  writes, in the order of `cli.py` 1318-1689.
* `FailClosed`: `out` is the last command the sink may have obeyed, `call` the
  send that is awaited. Times are tenths of a second, the caller's tick.
* `OperatorInput`: `held`, `finger` and `focused` are the world, `pressed`, `touch`
  and `latest` what the program believes; `NoGhostInput` relates the two.
* `SecretFile`: a file is a function from the names it holds to the versions of
  their values; `settled` and `unsynced` are the file system's; `PowerLoss` keeps any
  prefix of what was not synced and may undo a rename.

Definitions whose comment begins with "Mutant:" are the program with one bug
in it. No run uses them as they stand; each one shows, put in the place of the
definition that follows it, that a property notices that bug.

## Runs

| Run | Checks | States |
|---|---|---|
| `live_attached` | session attached to the normal mode's transport: stick centred at rest and on exit, no movement shown as disabled, actions only at rest, reaction to STOP, confirmations; no call that the controller refuses (`NeverRefused`) | 1.3 M |
| `live_own_socket` | session on its own socket, with fairness: lost heartbeats lead to the centre, lost BLE ends the session, paused or not; no refused call after a restart or an exit either | 0.3 M |
| `control` | everything else that moves the gimbal: the Wi-Fi pulse is bounded and ends centred; behind the BLE test, its rehearsal and the mock-control window the camera stands still unless a movement is on; no ghost input | 0.24 M |
| `video_link` | the UDP books under loss, doubling, overtaking, failed and cancelled sends, with both directions wrapping (`CountsUp`: implements `FlowControl`); no ACK refused, view enabled once, keepalives answered once; units whole, once, from the key picture on (`DeliversOnce`: implements `MediaDelivery`); DUML frames do not depend on the pieces | 0.9 M |
| `preparation` | approved frames only, in order, once (`OneByOne`: implements `ApprovedFrames`); the ledger tells the wire, success means done, the phase file is backed by what happened; replies answer their own request; the monitor tells the link; the secrets file is whole | 0.9 M |
| `app_modes` | every temporary profile is recoverable, the hotspot is never what a rollback returns to, a removed file means a clean network, no livestream is left unreported, a switch waits for the rollback; with fairness: the exit button ends the process | 1.1 M |

The other runs state what the documentation says and find that the code does
something else:

* `write_failure`: after a failed stick send nothing centres the stick.
* `resume_without_consent`: a re-arm request from before a STOP resumes after it.
* `stop_discarded`: a STOP that arrives just before a resume is thrown away.
* `cleanup_cancelled`: a cancellation of `stop()` that reaches the finally block
  skips the rollback, and the mode switch does not notice. The GUI sets the
  stop event first; a task that sees it at once is already in the finally block
  when the cancellation comes. `SwitchNeedsRollback` is what does hold: a switch
  after a session that was not cancelled there finds its profile gone.
* `stop_sent_twice`: a stop command whose answer was lost in the normal session
  is sent again by the mode loop.
* `ack_without_approval`: the acknowledgement of a pairing approval is written by a
  `manual-write` that has not seen the approval, because its prerequisite is an
  option. `OneByOne` therefore asks for the approval only where the code waits for
  it: in the pairing session and in a `manual-write` with its prerequisite.

**Bounds.** `ArmBurst` and `StopBurst` (packets of a burst) have the code's values
in `control` (3, 5) and are one and two in the session's runs: the packets of a
burst are equal, and two already give a first, a gap and a last. The input queue
holds two, the user acts three times and the task is cancelled twice: a drain of
more than one input, a STOP with a re-arm around it, and a cancellation while
the handler of the first one centres. Two profiles are a crashed session and the one
that finds its remains; any number of launches and one kill or reboot put every crash
before every recovery and every next session. `stopsSent` saturates at two.

In `video_link` sequence numbers have 16 values and start three and two before
the wrap, with five sends and two video datagrams: both directions wrap. `MaxSilence`
(six) is how many datagrams one side sends while the other has heard of none of
them; the run sends five, so it never binds there, and the model was also
explored with `Wrap` = 6, `MaxSilence` = 2, `MaxSends` = 7 and `MaxVideo` = 4, where
numbers come round (3.0 M states, the same properties). `TransportAssumption` has
`2 * (MaxLag + MaxSilence) < Wrap`: the window comparisons of `dji_wifi_udp.py` mean
nothing once half of the numbers are under way. In the code that is 4096
datagrams: more than three minutes of stick commands, one per 50 ms, of which the camera
confirms none, or 4096 video datagrams in a row that are all lost. This is an assumption
about the network: no time-out of the code ends such a silence. `MaxLag` lets a datagram overtake
one other, `MaxDelay` lets a fragment come half a second late, which with the
four frame ids, kept for two half seconds, meets the next use of its id.
`MediaAssumption` (`Expire < Keep`, `MaxDelay < Keep`, `Keep + MaxDelay <= IdMod`) says of
the code's 256 ids, kept for two seconds, that they do not come round while a
fragment of their last use is on its way: true up to 100
groups a second with fragments half a second late, and a picture is one group
or, for a large one, a few. The scripts hold single
groups, large units of two groups and key pictures. DUML streams
of seven bytes hold a frame, a frame inside a frame's body, and a false start
before one. In `preparation`, `MaxFaults` is two for drops, failing writes,
odd or doubled answers and kills together: a fault and one in the answer to
it, in one session or in two; sequence numbers wrap in the third request.
Two versions of each secret tell old from new. In `control`
limits and times are the code's, in tenths of a second, and `MaxTestTime` gives a
test four tenths more than it plans, enough for every time-out of it.

The theorems have none of these bounds.

**Fairness.** `LiveControl`'s `FairSpec` assumes that the event loop goes on
running the session's task and that time passes (connects time out, inputs
age, the cooldown and the reply's deadline end), nothing about user, camera or
UI thread. `AppModes`'s assumes that the mode loop, the session's coroutine and
a running `stop()` take their next step: every `await` of the session
(`run_command`, BLE and UDP) has a timeout and `join` has a limit of 55 s. A GUI is
not assumed to end before it is asked to, nor a session to stop serving before
the stop event is set. Livestream GUI, restore and stop may end well or fail.

Deadlock is checked in every run. `AppModes` can always be launched again. The
sessions of `LiveControl`, `OneShot` and the parts of the other runs end in states
of their own that stutter explicitly.

## Theorems

All are checked by TLAPS, for every value of the constants under the named
assumptions. Most of these say that a bound is a natural number; the two that
say more, `TransportAssumption` and `MediaAssumption`, are explained above, and
`ScriptAssumption` and `StreamAssumption` say what a camera's unit and a frame's
length are.

Each component's argument has the same form. The property is not inductive;
the invariant that is relates the place of a coroutine to what it has done and
what it awaits; one lemma per action, or per group of actions and conjunct of the
invariant, shows that it is kept.

*Controller.* `RestMeansCentered` needs to know that inside a burst a packet has
gone out once its first gap began, and that only the movements' coroutines run
in ACTIVE. `ControllerInv` says so; `StepInvariant` has one case per action.

*Live session.* `SessionCallsController` (`Spec => ControllerSpec`) is the link by
which the theorems of the controller hold of the session
(`SessionRestIsCentered`): every step of the session is one of the controller's or
leaves it alone. It says nothing of calls the controller would refuse; that there
are none is `CallsAreTaken`. `SessionInv` relates the loop's place to the controller's coroutine and state, to the outcome
and to the snapshot. On top of it stand three more: `StillInv` (`LeavesCentered`,
`DisabledStill`, `ActionsFromRest`), `LateInv` (`ReactsToStop`: the queue is
drained between two movements) and `AnswerInv` (`ConfirmationsAreAnswers`: the
pending action is the last one sent).

*Other ways to move the gimbal* (`MCControl_proofs`). For the one-shot workflow
`FlowInv` counts the
packets place by place (`PulseCounts`: sent and left make a pulse), from which
`WorkflowEndsCentered`. `MotionInv` is about the speed controller and its three
callers: `SafetyInv` (a movement has a beginning, a zero is sent in STOPPING only),
`ScriptInv` (`ScenarioTime`: the controller's ages keep up with the caller's clock,
which is why each scenario ends the movement when it expects to), `GhostInv` (the
program knows of no key that is up; the input it repeats rests on a key or a touch
it knows of) and `WindowTurns` (how long the gimbal turns is at most what the
controller counts). `MotionReturnsToZero` and `WindowHasNoGhostInput` follow.

*Network.* `SoftApInv` adds to `Recoverable` and `HomeIsNotPocket`: a manager that
may have changed something is the one the file names (`CreatedNamed`), no other
file exists before the write (`StepState`), the profile exists when it is
activated and is gone when wlan0 is reconnected (`StepProfile`), and wlan0 is on
the hotspot only while there is a profile (`PocketHasProfile`). `HalfDoneKeeps` is
the lemma for everything that is torn away in the middle of a command.
`RestoredClean` is the action property that the file goes last.

*Application.* `ImplementsSoftAp` (`Spec => SoftApSpec`) is the link that carries the
three results over to mode loop, thread, cancellations, kills and recoveries. `AppInv` adds what
the mode loop knows of the session: who holds the lock and whose profile it is
(`OwnerInv`), which command the coroutine awaits (`AwaitsInv`), that a summary tells
the truth (`ReportInv`: stopped means nothing publishes, no error means the
profile is gone), where the loop may be with which session (`LoopInv`), and that a
livestream this program opened is owned, or its loss reported, until the loop is
done (`DebtInv`). `AppLeavesNoStream`, `AppRollsBackFirst` and `AppTypesHold` rest on
it.

*UDP transport.* Everything follows from one idea, stated conjunct by conjunct in
`TransportInv`: a wrapped number is the remainder of a counter that is not far
from the newest (`BookInv` for what is sent, `ConfirmInv` for what the camera
confirmed, `VideoInv` for its video, `KeepaliveInv` for the DUML numbers that may
still be answered). The lemmas before it are arithmetic (`AheadGrows`,
`AheadOfRemainder`, `NewerIsAhead`: inside the window the comparison of remainders is that
of the counters). `BooksAlwaysKeepUp`, `NoAnswerCountsTwice` and, with `WelcomeInv` (nobody
is enabled before a key 0x82 was answered), `EnabledOnlyWelcome` follow, and
`TransportCountsUp` is the refinement: the transport with its wrapping numbers
implements `FlowControl`, whose counters never wrap.

*Video.* `MediaInv` rests on two lemmas about ids that come round, `SameId` and
`OneOnItsWay`: of the groups that share an id one at a time has fragments on their
way. So all parts that are pending under an id are of one group (`ItemOf`), a
settled id is the group's that settled it, and only copies are refused
(`OnlyCopiesAreRefused`). `StretchInv` is what is behind `UnitsAreWhole`: a large
unit that is held is its header's group and the groups after it, without a gap, and
as long as `Sums` says. `UnitsGoOutOnce` implements `MediaDelivery`,
`DecoderStartsWithKey` is the player's.

*DUML frames.* `FramesDoNotDependOnPieces`: the reference finds the leftmost set of
frames in the whole stream; `StreamInv` says that the reassembler has found that
set up to its offset, that wherever it dropped a byte no frame begins whatever
comes later (`NoFrame`), and that when it stops it could not go on (`Stuck`).

What these need of recursive functions and of "leftmost" is shown by the least
counterexample (`WFMin` of the library, on the natural numbers), since its
induction theorems are out of the prover's reach.

*Approved frames and the phase file* (`RtmpWorkflow_proofs`). The scripts of the
sessions are tabulated position by position (`Positions`). `FrameInv` says that wire
and ledger are the script's frames as far as the position (`WireInv`), that what
the session needs has been answered (`AnswersInv`) and that history has it
(`HistoryInv`). From it `LedgersAreTrue`, `SuccessMeansDone` and the refinement
`SessionsKeepToApprovals` (`ApprovedFrames`), in which a bare `manual-write` builds on
no answer. `PhaseInv` adds what a running command
and a capture prove (`CommandInv`, `CapturesInv`) for `PhaseFileIsTrue`: the phase
file is never ahead of the camera, wherever a command is killed.

*Clients* (`MCPreparation_proofs`). `RequestsInv` says that the table holds exactly the
requests that are waited for (`RepliesReachTheirRequests`), `SecretInv` that every
version of the secrets file that may survive a power loss is whole
(`SecretsSurvive`); `MonitorIsTruthful` is inductive with its types. `ProcessKeepsPromises`
and `ProcessTypes` carry the session's results over to the composition.

The compositions of `video_link`, `preparation` and `control` are not assumed to
behave as their parts: `PartsAreThemselves` and the lemmas `FlowPart` and
`PreparationStep` show it.

Only model-checked: the properties under fairness, `HeartbeatLossCenters`,
`BleLossEnds` and `ExitCloses`, and the six counterexamples. No theorem states
that something eventually happens.

## Assumptions and abstractions

* A stick command is "centre" or "movement": the amplitude is clamped by pure
  code that the repository tests.
* The socket accepts or raises; what the camera does with a datagram is not modelled.
* The live session's handler finds its socket open (`is_open`), and a reply with the
  right sequence number may have any payload. The callbacks and the evidence
  writer of the bounded test do not raise.
* A command (`nmcli`) that is cut short with its caller has done its work by then
  or never does. A child that outlives a killed parent and finishes later is
  outside the model.
* NetworkManager drops profiles added with `save no` at a reboot and reconnects
  the profile `home` by itself; it activates the hotspot only when asked to
  (`connection.autoconnect no`).
* `write_text` fails only with the process (no full disk); the `chmod` behind it is
  part of the same step.
* The camera's publisher appears in the peer list exactly while it publishes.
* Normal mode runs with `--control-mode live`; without it `_request_stop` makes no
  `stop()` call and only the one in the finally block is left.
* UDP: the camera's own behaviour is what the session relies on (it answers a
  handshake, confirms and films in order); the 25 ms limit on flow ACKs is not modelled. Payloads are
  their kind.
* Video: a group's first fragment carries its header whole, and no unit is longer than
  the 2 MB that the assembler accepts. Units may go out in the order in which they complete, which is not
  always that of the camera, and a large unit is lost when an older group
  completes between its groups. Both are what the code does, and `MediaDelivery`
  allows them.
* Preparation: one CLI command at a time, and one BLE connection: answers that belong to
  an earlier connection do not reach a later one. The second Wi-Fi stage (8C1A) and
  the start proposals made outside the CLI count as approved. Counters and
  prefixes that are only logged, the comparison of time stamps in
  `prepare_analysis.py`, and writers of evidence that fail are left out.
* Secrets: the owner runs one configure command at a time, and a file written by hand
  has its lines in the program's form (the parser accepts spaces around them that
  the retained stream key does not).
* Input: two opposite movement keys, one joystick, the buttons. A loss of the
  focus that the window ignores (`runtime.py` 464-465) is excepted in `NoGhostInput`.
* `FailClosed`: a mock send takes no time, a BLE send may. `run` and the window's
  `_control_arm` are not used by the application. A bounded test that is cancelled
  leaves through the disconnect without a zero; `ReturnsToZero` excepts it.

## Not modelled, and the plan

Every safety property of the runs that hold is also a theorem. Next, in order:

1. Liveness of the BLE requests and of the bounded test, whose awaits all have
   time-outs: by TLC, under fairness of their tasks and of time.
2. The rest of `app/runtime.py` that changes state: the tap that asks for a focus
   point and its marker, and the counters of pictures its labels are made from.
3. The rollback file's window between truncation and write, for which the code
   has no protection and the project no property that holds.

Left out, and why:

* the process registry (`video/player_process.py`) and the PID file of the media
  server: unlocked files that name processes by numbers the system uses again,
  so nothing about them holds once there are two writers; the hazard is listed;
* widgets, pipelines, GStreamer and MediaMTX: external processes and drawing;
* DUML field layouts and checksums: golden tests; the models have frames as values;
* `protocol/dji_wifi_media.py`, offline analysis, experiments and telemetry
  recording: batch work on files, no concurrent state;
* display, scanning and the read-only probes: queries of the system;
* liveness in proofs: the prover has neither ENABLED nor fairness.
