----------------------------- MODULE OperatorInput -----------------------------
(***************************************************************************)
(* KeyboardInput and TouchJoystickInput behind the GTK window, and what    *)
(* GtkReadOnlyApp does with each event: it keeps the latest input, which   *)
(* its tick sends again and again while it is active, and hands it to the  *)
(* live session or, with mock control, to FailClosedController.  GTK tells *)
(* the window of a key only while the window has the focus; which keys and *)
(* fingers are really down, the model knows and the program does not.      *)
(***************************************************************************)
EXTENDS FailClosed, FiniteSets

VARIABLES held,     \* external: movement keys that are down
          finger,   \* external: the touch on the joystick
          focused,  \* external: the window has the keyboard
          control,  \* control_mode: "live" or "mock"
          hosted,   \* there is a window host
          shown,    \* content_shown
          pressed,  \* KeyboardInput._pressed
          flags,    \* KeyboardInput._emergency and _exit, never cleared
          touch,    \* _touch_id is set, and _value.active
          latest,   \* latest_ui_input
          quitting, \* stop_reason is set
          tickDue,  \* a tenth of a second has passed since the last tick
          missed    \* history: a loss of the focus was ignored

worldVars == <<held, finger, focused>>
guiVars == <<pressed, flags, touch, latest, shown, quitting, missed>>
inputVars == <<worldVars, control, hosted, guiVars, tickDue>>

Keys == {"left", "right"}
Fingers == {"up", "centre", "out"}
NoTouch == [id |-> FALSE, active |-> FALSE]
Neutral == [active |-> FALSE, stop |-> FALSE]
Stop == [active |-> FALSE, stop |-> TRUE]

\* KeyboardInput.current: opposite keys cancel each other.
Keyed(keys, latched) == [active |-> Cardinality(keys) = 1, stop |-> latched # {}]
Touched(t) == [active |-> t.active, stop |-> FALSE]

\* GtkReadOnlyApp arms the mock controller when it is made.
InputInit == /\ held = {} /\ finger = "up" /\ focused = TRUE
             /\ control = (IF safety = "armed" THEN "mock" ELSE "live") /\ hosted \in BOOLEAN /\ shown = FALSE
             /\ pressed = {} /\ flags = {} /\ touch = NoTouch
             /\ latest = Neutral /\ quitting = FALSE
             /\ tickDue = FALSE /\ missed = FALSE

-----------------------------------------------------------------------------
\* _submit_control; mock control stops for an input that asks to exit, too.
Submit(value) == /\ latest' = value
                 /\ IF control = "live" THEN UNCHANGED safetyVars
                    ELSE IF value.stop THEN StopAtOnce ELSE SubmitInput(value.active)

\* Callbacks run while the GTK loop does; a window host keeps it running.
Heard == Idle /\ (~quitting \/ hosted)

\* A press, or its repetition.  Arrows may belong to the mode selector.
KeyDown(k) == /\ Heard /\ focused
              /\ held' = held \cup {k}
              /\ \/ /\ pressed' = pressed \cup {k}
                    /\ Submit(Keyed(pressed', flags))
                 \/ UNCHANGED <<pressed, latest, safetyVars>>
              /\ UNCHANGED <<finger, focused, flags, touch, shown, quitting, missed>>

KeyUp(k) == /\ Heard /\ k \in held
            /\ held' = held \ {k}
            /\ IF focused
               THEN /\ pressed' = pressed \ {k}
                    /\ Submit(Keyed(pressed', flags))
               ELSE UNCHANGED <<pressed, latest, safetyVars>>
            /\ UNCHANGED <<finger, focused, flags, touch, shown, quitting, missed>>

Space == /\ Heard /\ focused
         /\ flags' = flags \cup {"stop"} /\ pressed' = {}
         /\ Submit(Stop)
         /\ UNCHANGED <<worldVars, touch, shown, quitting, missed>>

\* Escape or q, through _request_stop.  With mock control a STOP key once
\* pressed takes precedence for good: the window no longer ends this way.
ExitKey == /\ Heard /\ focused
           /\ flags' = flags \cup {"exit"} /\ pressed' = {}
           /\ IF quitting \/ (control = "mock" /\ "stop" \in flags)
              THEN Submit(Stop) /\ UNCHANGED quitting
              ELSE /\ quitting' = TRUE /\ latest' = Neutral
                   /\ IF control = "live" THEN UNCHANGED safetyVars ELSE StopAtOnce
           /\ UNCHANGED <<worldVars, touch, shown, missed>>

\* touch_down sets the value; the gesture has but one touch id.
DragBegin(f) == /\ Idle /\ ~quitting /\ (hosted => shown)
                /\ finger = "up" /\ finger' = f
                /\ touch' = [id |-> TRUE, active |-> f = "out"]
                /\ Submit(Touched(touch'))
                /\ UNCHANGED <<held, focused, pressed, flags, shown, quitting, missed>>

\* After touch_cancel the rest of the drag is somebody else's.
DragUpdate(f) == /\ Heard /\ finger # "up"
                 /\ finger' = f
                 /\ touch' = IF touch.id THEN [touch EXCEPT !.active = (f = "out")] ELSE touch
                 /\ Submit(Touched(touch'))
                 /\ UNCHANGED <<held, focused, pressed, flags, shown, quitting, missed>>

DragEnd == /\ Heard /\ finger # "up"
           /\ finger' = "up"
           /\ touch' = NoTouch
           /\ Submit(Neutral)
           /\ UNCHANGED <<held, focused, pressed, flags, shown, quitting, missed>>

-----------------------------------------------------------------------------
\* Mutant: the keys pressed when the focus is lost stay pressed.
FocusLostWithKeys ==
    /\ Heard /\ focused /\ focused' = FALSE
    /\ IF quitting \/ (hosted /\ ~shown)
       THEN /\ missed' = TRUE
            /\ UNCHANGED <<touch, latest, safetyVars>>
       ELSE /\ touch' = NoTouch
            /\ IF control = "mock" THEN StopAtOnce /\ UNCHANGED latest
                                   ELSE latest' = Stop /\ UNCHANGED safetyVars
            /\ UNCHANGED missed
    /\ UNCHANGED <<held, finger, pressed, flags, shown, quitting>>

\* _on_focus_lost; before the first picture, and once the end was requested,
\* it does nothing.
FocusLost ==
    /\ Heard /\ focused /\ focused' = FALSE
    /\ IF quitting \/ (hosted /\ ~shown)
       THEN /\ missed' = TRUE
            /\ UNCHANGED <<pressed, touch, latest, safetyVars>>
       ELSE /\ pressed' = {} /\ touch' = NoTouch
            /\ IF control = "mock" THEN StopAtOnce /\ UNCHANGED latest
                                   ELSE latest' = Stop /\ UNCHANGED safetyVars
            /\ UNCHANGED missed
    /\ UNCHANGED <<held, finger, flags, shown, quitting>>

FocusGained == /\ ~focused /\ focused' = TRUE
               /\ UNCHANGED <<held, finger, guiVars, safetyVars>>

\* _camera_action: a button or a tap on the video ends every movement first.
CameraAction == /\ Heard
                /\ pressed' = {} /\ touch' = NoTouch
                /\ Submit(Neutral)
                /\ UNCHANGED <<worldVars, flags, shown, quitting, missed>>

\* _control_emergency, the mock STOP.
ScreenStop == /\ Heard
              /\ IF control = "mock" THEN StopAtOnce /\ UNCHANGED latest
                                     ELSE latest' = Stop /\ UNCHANGED safetyVars
              /\ UNCHANGED <<worldVars, pressed, flags, touch, shown, quitting, missed>>

\* _request_stop, for a closed window, a signal, a button or the duration.
RequestStop ==
    /\ Heard /\ ~quitting
    /\ quitting' = TRUE /\ latest' = Neutral
    /\ IF control = "live" \/ safety \in {"disabled", "fault", "disconnected"}
       THEN UNCHANGED safetyVars ELSE StopControl
    /\ UNCHANGED <<worldVars, pressed, flags, touch, shown, missed>>

\* _tick: control, then the first picture uncovers the window.
GuiTick == /\ tickDue /\ ~quitting /\ Idle
           /\ tickDue' = FALSE
           /\ IF control = "mock" THEN Tick /\ UNCHANGED latest
              ELSE /\ latest' = IF latest.active THEN [active |-> TRUE, stop |-> FALSE] ELSE latest
                   /\ UNCHANGED safetyVars
           /\ \/ UNCHANGED shown
              \/ hosted /\ shown' = TRUE
           /\ UNCHANGED <<worldVars, pressed, flags, touch, quitting, missed>>

\* The timer fires every 100 ms; mock sends take no time and do not fail.
TenthPasses == /\ ~tickDue /\ Idle /\ ~quitting
               /\ tickDue' = TRUE
               /\ Elapse
               /\ UNCHANGED <<worldVars, guiVars>>

MockSent == (DriveSentOn \/ ZeroSent) /\ UNCHANGED <<worldVars, guiVars>>

\* The loop has ended and the window is gone.
WindowGone == quitting /\ Idle /\ UNCHANGED <<worldVars, guiVars, safetyVars>>

InputEvent == \/ \E k \in Keys : KeyDown(k) \/ KeyUp(k)
              \/ Space
              \/ \E f \in Fingers \ {"up"} : DragBegin(f) \/ DragUpdate(f)
              \/ DragEnd
              \/ FocusLost \/ FocusGained \/ CameraAction \/ ScreenStop
              \/ ExitKey \/ RequestStop
              \/ MockSent \/ WindowGone

InputNext == /\ \/ InputEvent /\ UNCHANGED tickDue
                \/ GuiTick
                \/ TenthPasses
             /\ UNCHANGED <<control, hosted>>

-----------------------------------------------------------------------------
\* The input that is repeated to the live session, or the one the mock
\* controller holds, moves the camera only while a key or a finger really does,
\* whatever was pressed and let go behind the window's back; a loss of the
\* focus that runtime.py ignores (464-465) is the exception.
NoGhostInput ==
    ~quitting /\ ~missed /\ (IF control = "live" THEN latest.active ELSE pushed)
        => held # {} \/ finger = "out"
=============================================================================
