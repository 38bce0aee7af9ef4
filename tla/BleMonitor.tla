------------------------------ MODULE BleMonitor ------------------------------
(***************************************************************************)
(* ReadOnlyBleMonitor: the thread beside a livestream's window that only   *)
(* listens.  What it shows as ble_connected is all the live session knows  *)
(* of BLE: it waits for it before it starts and ends when it is lost.      *)
(***************************************************************************)
EXTENDS BleLink

VARIABLES monitor,      \* what _run awaits, "off" before start
          stopAsked,    \* _stop is set
          bleConnected, \* state.ble_connected
          untold        \* external: BlueZ has not yet called back

monitorVars == <<monitor, stopAsked, bleConnected, untold>>

Watching == {"connecting", "subscribing", "watching"}
Leaving == {"unsubscribing", "releasing"}

MonitorInit == /\ monitor = "off" /\ stopAsked = FALSE
               /\ bleConnected = FALSE /\ untold = FALSE

Listen == /\ monitor = "off"
          /\ monitor' = "connecting"
          /\ UNCHANGED <<stopAsked, bleConnected, untold, linkVars>>

AskStop == /\ ~stopAsked
           /\ stopAsked' = TRUE
           /\ UNCHANGED <<monitor, bleConnected, untold, linkVars>>

\* The event handler hears "connected" before connect returns.
MonitorConnects == /\ monitor = "connecting"
                   /\ Connected
                   /\ bleConnected' = TRUE
                   /\ monitor' = "subscribing"
                   /\ UNCHANGED <<stopAsked, untold>>

MonitorSubscribes == /\ monitor = "subscribing"
                     /\ Subscribed
                     /\ monitor' = "watching"
                     /\ UNCHANGED <<stopAsked, bleConnected, untold>>

\* The link is lost; the callback follows, from the same event loop.
LinkLost == /\ Dropped
            /\ untold' = TRUE
            /\ UNCHANGED <<monitor, stopAsked, bleConnected>>

\* Mutant: only the end of a disconnect counts.
CallbackIgnored == /\ untold /\ monitor # "over"
                   /\ untold' = FALSE
                   /\ UNCHANGED <<monitor, stopAsked, bleConnected, linkVars>>

\* disconnected_callback, unless the event loop is gone.
ToldOfLoss == /\ untold /\ monitor # "over"
              /\ untold' = FALSE
              /\ bleConnected' = FALSE
              /\ UNCHANGED <<monitor, stopAsked, linkVars>>

\* connect or start_notify fails, the loop sees the link gone, or stop() asks.
MonitorLeaves == /\ \/ monitor \in {"connecting", "subscribing"}
                    \/ monitor = "watching" /\ (stopAsked \/ link # "up")
                 /\ monitor' = "unsubscribing"
                 /\ UNCHANGED <<stopAsked, bleConnected, untold, linkVars>>

Unlisten == /\ monitor = "unsubscribing"
            /\ Unsubscribed
            /\ monitor' = "releasing"
            /\ UNCHANGED <<stopAsked, bleConnected, untold>>

\* "disconnect_complete", and ble_connected is cleared once more; a disconnect
\* that fails raises to the thread's handler, which clears it too.
MonitorEnds == /\ monitor = "releasing"
               /\ Released \/ UNCHANGED linkVars
               /\ bleConnected' = FALSE
               /\ monitor' = "over"
               /\ UNCHANGED <<stopAsked, untold>>

MonitorOver == monitor = "over" /\ UNCHANGED <<monitorVars, linkVars>>

MonitorNext == \/ Listen \/ AskStop \/ MonitorConnects \/ MonitorSubscribes
               \/ LinkLost \/ ToldOfLoss \/ MonitorLeaves \/ Unlisten \/ MonitorEnds
               \/ MonitorOver

MonitorTypeOK == /\ monitor \in {"off", "over"} \cup Watching \cup Leaving
                 /\ {stopAsked, bleConnected, untold} \subseteq BOOLEAN

-----------------------------------------------------------------------------
\* ble_connected, on which the live session stakes its stop, is never left set
\* behind a link that is gone: it is cleared as soon as BlueZ calls back, and
\* whatever fails while the monitor starts or ends, the thread clears it last.
MonitorTellsTheLink == /\ bleConnected /\ link # "up" => untold
                       /\ monitor = "over" => ~bleConnected
=============================================================================
