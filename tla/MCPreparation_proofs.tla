------------------------- MODULE MCPreparation_proofs -------------------------
(***************************************************************************)
(* The clients of a BLE link: the table of pending requests, the flag of   *)
(* the monitor, and the file of secrets.                                   *)
(***************************************************************************)
EXTENDS MCPreparation, RtmpWorkflow_proofs

-----------------------------------------------------------------------------
(* Requests.                                                                *)

Busy(c) == at[c] \in {"writing", "waiting"}

\* A caller in send is about the query that credentials has come to, or about
\* the keepalive; the table holds what a busy caller waits for, and the future
\* holds a reply only while it is the one main waits for.
TableInv ==
    /\ at \in [Callers -> {"out", "queued", "writing", "waiting"}]
    /\ asks = [c \in Callers |-> asks[c]]
    /\ mainAt \in 1..Len(Queries)
    /\ asks["beat"].name \in {"none", "keepalive"}
    /\ Busy("main") => asks["main"].name = Queries[mainAt]
    /\ pending = {asks[c] : c \in {d \in Callers : Busy(d) /\ asks[d].name \in Awaited}}
    /\ Busy("main") /\ future # None => future = asks["main"]

CountersInv == /\ sequence \in 0..SeqWrap - 1
               /\ lock \in Callers \cup {"none"}
               /\ beats \in 0..MaxBeats

RequestsInv == TableInv /\ CountersInv

LEMMA QueryNames ==
    /\ Len(Queries) = 5
    /\ Queries[1] = "open" /\ Queries[2] = "pin" /\ Queries[3] = "stop"
    /\ Queries[4] = "ssid" /\ Queries[5] = "password"
  BY DEF Queries

\* In and out of the table: what the two callers' entries are.
LEMMA TableOf ==
    {asks[c] : c \in {d \in Callers : Busy(d) /\ asks[d].name \in Awaited}} =
        (IF Busy("main") /\ asks["main"].name \in Awaited THEN {asks["main"]} ELSE {})
        \cup (IF Busy("beat") /\ asks["beat"].name \in Awaited THEN {asks["beat"]} ELSE {})
  BY DEF Callers

\* Of the heartbeat the table holds nothing: its reply is not awaited.
LEMMA PendingIsMain ==
  ASSUME TableInv
  PROVE  pending = IF Busy("main") /\ asks["main"].name \in Awaited THEN {asks["main"]} ELSE {}
  BY TableOf DEF TableInv, Awaited

LEMMA RequestsStart == RequestsInit => RequestsInv
<1> SUFFICES ASSUME RequestsInit PROVE RequestsInv
  OBVIOUS
<1>1. /\ at \in [Callers -> {"out", "queued", "writing", "waiting"}]
      /\ asks = [c \in Callers |-> asks[c]]
      /\ asks["beat"].name = "none"
      /\ \A c \in Callers : ~Busy(c)
  BY DEF RequestsInit, Callers, Busy, None
<1>2. TableInv
  BY <1>1, QueryNames DEF RequestsInit, TableInv, Callers
<1>3. CountersInv
  BY RequestsAssumption DEF RequestsInit, CountersInv
<1> QED
  BY <1>2, <1>3 DEF RequestsInv

\* When callers leave, their entries leave with them and the others' stay.
LEMMA LeaveKeepsTable ==
  ASSUME TableInv, NEW callers \in SUBSET Callers, LeaveSend(callers)
  PROVE  /\ at' \in [Callers -> {"out", "queued", "writing", "waiting"}]
         /\ pending' = {asks[c] : c \in {d \in Callers :
                            at'[d] \in {"writing", "waiting"} /\ asks[d].name \in Awaited}}
         /\ \A c \in Callers : at'[c] \in {"writing", "waiting"} => Busy(c) /\ c \notin callers
         /\ \A c \in callers : at'[c] = "out"
<1>1. /\ at' \in [Callers -> {"out", "queued", "writing", "waiting"}]
      /\ \A c \in Callers : at'[c] = IF c \in callers THEN "out" ELSE at[c]
  BY DEF LeaveSend, TableInv
<1>2. pending' = pending \ {asks[c] : c \in callers}
  BY DEF LeaveSend
<1>3. \A c \in Callers : at'[c] \in {"writing", "waiting"} => Busy(c) /\ c \notin callers
  BY <1>1 DEF Busy
<1>4. asks["beat"].name \notin Awaited
  BY DEF TableInv, Awaited
<1>5. CASE "main" \in callers
  <2>1. pending' = {}
    BY <1>2, <1>5, PendingIsMain
  <2>2. at'["main"] = "out"
    BY <1>1, <1>5 DEF Callers
  <2> QED
    BY <2>1, <2>2, <1>1, <1>3, <1>4 DEF Callers
<1>6. CASE "main" \notin callers
  <2>1. callers \subseteq {"beat"}
    BY <1>6 DEF Callers
  <2>2. pending' = pending
    BY <1>2, <1>4, <2>1, PendingIsMain
  <2>3. at'["main"] = at["main"]
    BY <1>1, <1>6 DEF Callers
  <2>4. pending' = IF at'["main"] \in {"writing", "waiting"} /\ asks["main"].name \in Awaited
                   THEN {asks["main"]} ELSE {}
    BY <2>2, <2>3, PendingIsMain DEF Busy
  <2> QED
    BY <2>4, <1>1, <1>3, <1>4 DEF Callers
<1> QED
  BY <1>1, <1>3, <1>5, <1>6

\* What stays of the invariant when callers leave and main goes on or stops.
LEMMA LeaveKeepsRequests ==
  ASSUME RequestsInv, NEW callers \in SUBSET Callers, LeaveSend(callers),
         UNCHANGED <<beats, future>>,
         mainAt' \in 1..Len(Queries), mainAt' = mainAt \/ "main" \in callers
  PROVE  RequestsInv'
<1> USE DEF RequestsInv
<1>1. /\ asks' = asks /\ sequence' = sequence /\ lock' \in {lock, "none"}
  BY DEF LeaveSend
<1>2. CountersInv'
  BY <1>1 DEF CountersInv
<1>3. Busy("main")' => Busy("main") /\ "main" \notin callers
  BY LeaveKeepsTable DEF Busy, Callers
<1>4. TableInv'
  BY <1>1, <1>3, LeaveKeepsTable DEF TableInv, Busy
<1> QED
  BY <1>2, <1>4

\* Every call, reply, time-out and cancellation keeps the table.
LEMMA RequestsStep == RequestsInv /\ RequestsNext => RequestsInv'
<1> SUFFICES ASSUME RequestsInv, RequestsNext PROVE RequestsInv'
  OBVIOUS
<1> USE DEF RequestsInv
<1>1. ASSUME NEW c \in Callers, Call(c) PROVE RequestsInv'
  <2>1. /\ Busy("main")' <=> Busy("main")
        /\ Busy("beat")' <=> Busy("beat")
        /\ at' \in [Callers -> {"out", "queued", "writing", "waiting"}]
    BY <1>1 DEF Call, TableInv, Busy, Callers
  <2>2. TableInv'
    <3>1. UNCHANGED <<asks, mainAt, pending, future>>
      BY <1>1 DEF Call
    <3>2. \A d \in Callers : Busy(d)' <=> Busy(d)
      BY <2>1 DEF Callers
    <3> QED
      BY <2>1, <3>1, <3>2 DEF TableInv, Busy
  <2>3. CountersInv'
    BY <1>1, RequestsAssumption DEF Call, Calls, CountersInv
  <2> QED
    BY <2>2, <2>3
<1>2. ASSUME NEW c \in Callers, Acquire(c) PROVE RequestsInv'
  <2> DEFINE r == [name |-> IF c = "beat" THEN "keepalive" ELSE Queries[mainAt], seq |-> sequence]
  <2>1. r.name = IF c = "beat" THEN "keepalive" ELSE Queries[mainAt]
    OBVIOUS
  <2>2. /\ at' = [at EXCEPT ![c] = "writing"] /\ asks' = [asks EXCEPT ![c] = r]
        /\ pending' = IF r.name \in Awaited THEN pending \cup {r} ELSE pending
        /\ mainAt' = mainAt /\ beats' = beats /\ lock' = c /\ sequence' = Successor(sequence)
        /\ at[c] = "queued"
    BY <1>2 DEF Acquire, taskVars
  <2> HIDE DEF r
  <2>3. CountersInv'
    BY <2>2, RequestsAssumption DEF CountersInv, Successor
  <2>4. CASE c = "beat"
    <3>1. /\ at'["main"] = at["main"] /\ asks'["main"] = asks["main"] /\ asks'["beat"].name = "keepalive"
          /\ future' = future /\ pending' = pending
      BY <2>1, <2>2, <2>4, <1>2 DEF TableInv, Acquire, Awaited, Callers
    <3>2. pending' = {asks'[d] : d \in {e \in Callers : Busy(e)' /\ asks'[e].name \in Awaited}}
      BY <3>1, PendingIsMain DEF Callers, Busy, Awaited
    <3> QED
      BY <2>1, <2>2, <2>3, <3>1, <3>2 DEF TableInv, Busy
  <2>5. CASE c = "main"
    <3>1. /\ at'["beat"] = at["beat"] /\ asks'["beat"] = asks["beat"] /\ asks'["main"] = r
          /\ at'["main"] = "writing" /\ future' = None
      BY <2>1, <2>2, <2>5, <1>2 DEF TableInv, Acquire, Callers
    <3>2. pending' = IF r.name \in Awaited THEN {r} ELSE {}
      BY <2>2, <2>5, PendingIsMain DEF Busy
    <3>3. pending' = {asks'[d] : d \in {e \in Callers : Busy(e)' /\ asks'[e].name \in Awaited}}
      BY <3>1, <3>2 DEF Callers, Busy, Awaited, TableInv
    <3> QED
      BY <2>1, <2>2, <2>3, <2>5, <3>1, <3>3 DEF TableInv, Busy
  <2> QED
    BY <2>4, <2>5 DEF Callers
<1>3. ASSUME NEW c \in Callers, Reaches(c) PROVE RequestsInv'
  BY <1>3 DEF Reaches, taskVars, TableInv, CountersInv, Busy
<1>4. ASSUME NEW c \in Callers, WriteDone(c) PROVE RequestsInv'
  <2>1. CASE asks[c].name \in Awaited
    <3>1. /\ at' = [at EXCEPT ![c] = "waiting"] /\ at[c] = "writing" /\ lock' = "none"
          /\ UNCHANGED <<mainAt, beats, asks, sequence, pending, future>>
      BY <1>4, <2>1 DEF WriteDone, taskVars
    <3>2. \A d \in Callers : Busy(d)' <=> Busy(d)
      BY <3>1 DEF Busy, TableInv
    <3>3. Busy("main")' <=> Busy("main")
      BY <3>2 DEF Callers
    <3>4. /\ at' \in [Callers -> {"out", "queued", "writing", "waiting"}]
          /\ CountersInv'
      BY <3>1 DEF TableInv, CountersInv
    <3>5. TableInv'
      BY <3>1, <3>2, <3>3, <3>4 DEF TableInv, Busy
    <3> QED
      BY <3>4, <3>5
  <2>2. CASE asks[c].name \notin Awaited
    <3>1. LeaveSend({c}) /\ UNCHANGED future
      BY <1>4, <2>2 DEF WriteDone
    <3>2. CASE c = "main"
      <4>1. Queries[mainAt] = "open"
        BY <1>4, <2>2, <3>2, QueryNames DEF WriteDone, TableInv, Busy, Awaited
      <4>2. mainAt' = 2
        BY <4>1, <1>4, <2>2, <3>2, QueryNames DEF WriteDone, Proceed, Advance, TableInv
      <4> QED
        BY <3>1, <3>2, <4>2, <1>4, <2>2, QueryNames, LeaveKeepsRequests DEF WriteDone, Proceed
    <3>3. CASE c # "main"
      <4>1. UNCHANGED taskVars
        BY <1>4, <2>2, <3>3 DEF WriteDone
      <4> QED
        BY <3>1, <4>1, LeaveKeepsRequests DEF taskVars, TableInv
    <3> QED
      BY <3>2, <3>3
  <2> QED
    BY <2>1, <2>2
<1>5. ASSUME NEW c \in Callers, SendTimesOut(c) PROVE RequestsInv'
  <2>1. \/ LeaveSend({c})
        \/ LeaveSend(Callers)
    BY <1>5 DEF SendTimesOut, End
  <2>2. UNCHANGED <<mainAt, beats, future>>
    BY <1>5 DEF SendTimesOut, End
  <2> QED
    BY <2>1, <2>2, LeaveKeepsRequests DEF TableInv
<1>6. ASSUME NEW r \in reached, NEW ok \in BOOLEAN, Reply(r, ok) PROVE RequestsInv'
  <2>1. r \in pending
    BY <1>6 DEF Reply, Key
  <2>2. Busy("main") => r = asks["main"]
    BY <2>1, PendingIsMain
  <2> QED
    BY <1>6, <2>2 DEF Reply, taskVars, TableInv, CountersInv, Busy
<1>7. CASE Take
  <2>1. asks["main"].name = Queries[mainAt] /\ UNCHANGED <<future>>
    BY <1>7 DEF Take, TableInv, Busy
  <2>2. CASE End("raised") \/ End("given")
    BY <2>1, <2>2, LeaveKeepsRequests DEF End, TableInv
  <2>3. CASE LeaveSend({"main"}) /\ Proceed /\ asks["main"].name # "password"
    <3>1. mainAt' \in 1..Len(Queries)
      BY <2>1, <2>3, QueryNames DEF Proceed, Advance, TableInv
    <3> QED
      BY <2>1, <2>3, <3>1, LeaveKeepsRequests DEF Proceed, Callers
  <2> QED
    BY <1>7, <2>2, <2>3 DEF Take
<1>8. CASE CancelSession
  BY <1>8, LeaveKeepsRequests DEF CancelSession, End, TableInv
<1>9. CASE RequestsDone
  BY <1>9 DEF RequestsDone, requestVars, TableInv, CountersInv, Busy
<1> QED
  BY <1>1, <1>2, <1>3, <1>4, <1>5, <1>6, <1>7, <1>8, <1>9 DEF RequestsNext

-----------------------------------------------------------------------------
(* The monitor's flag.                                                      *)

\* Every step of the thread, of the event loop and of the link tells it.
LEMMA MonitorStep == MonitorTellsTheLink /\ MonitorTypeOK /\ MonitorNext
                         => MonitorTellsTheLink' /\ MonitorTypeOK'
<1> SUFFICES ASSUME MonitorTellsTheLink, MonitorTypeOK, MonitorNext
             PROVE  MonitorTellsTheLink' /\ MonitorTypeOK'
  OBVIOUS
<1> USE DEF Watching, Leaving, linkVars, monitorVars
<1>1. monitor' \in {"off", "over"} \cup Watching \cup Leaving
  BY DEF MonitorNext, MonitorTypeOK, Listen, AskStop, MonitorConnects, MonitorSubscribes,
         LinkLost, ToldOfLoss, MonitorLeaves, Unlisten, MonitorEnds, MonitorOver
<1>2. stopAsked' \in BOOLEAN /\ bleConnected' \in BOOLEAN /\ untold' \in BOOLEAN
  BY Zenon DEF MonitorNext, MonitorTypeOK, Listen, AskStop, MonitorConnects, MonitorSubscribes,
         LinkLost, ToldOfLoss, MonitorLeaves, Unlisten, MonitorEnds, MonitorOver
<1>3. MonitorTellsTheLink'
  <2>1. CASE Listen
    BY <2>1 DEF Listen, MonitorTellsTheLink
  <2>2. CASE AskStop
    BY <2>2 DEF AskStop, MonitorTellsTheLink
  <2>3. CASE MonitorConnects \/ MonitorSubscribes
    BY <2>3 DEF MonitorConnects, MonitorSubscribes, Connected, Subscribed, MonitorTellsTheLink
  <2>4. CASE LinkLost
    BY <2>4 DEF LinkLost, Dropped, MonitorTellsTheLink
  <2>5. CASE ToldOfLoss
    BY <2>5 DEF ToldOfLoss, MonitorTellsTheLink
  <2>6. CASE MonitorLeaves
    BY <2>6 DEF MonitorLeaves, MonitorTellsTheLink
  <2>7. CASE Unlisten
    BY <2>7 DEF Unlisten, Unsubscribed, MonitorTellsTheLink
  <2>8. CASE MonitorEnds
    BY <2>8 DEF MonitorEnds, MonitorTellsTheLink
  <2>9. CASE MonitorOver
    BY <2>9 DEF MonitorOver, MonitorTellsTheLink
  <2> QED
    BY <2>1, <2>2, <2>3, <2>4, <2>5, <2>6, <2>7, <2>8, <2>9 DEF MonitorNext
<1> QED
  BY <1>1, <1>2, <1>3 DEF MonitorTypeOK

-----------------------------------------------------------------------------
(* The file of secrets.                                                     *)

\* A file that holds Wi-Fi values holds an SSID and the password typed with it.
Paired(f) == Holds(f, "ssid") \/ Holds(f, "psk")
                 => \E v \in 1..MaxSecret : WifiLines(f) = WifiPair(v)

\* What a command is about to store renews what is there; it is in the new file,
\* and on the disk, before the new file takes the old one's place.
FilesInv ==
    /\ DOMAIN envFile = {"path", "new", "bak"}
    /\ Paired(envFile.path) /\ Paired(settled)
    /\ unsynced \subseteq {"new", "bak"}
    /\ storing \in {"backup", "open", "write", "sync", "replace"} => Renews(content, envFile.path)
    /\ storing \in {"sync", "replace"} => envFile.new = content
    /\ storing = "replace" => "new" \notin unsynced

SecretInv == SecretTypeOK /\ FilesInv

\* The Wi-Fi pair in front of the key that the file has, or has not.
LEMMA WifiRenews ==
  ASSUME NEW v \in 1..MaxSecret, NEW f
  PROVE  Renews(Both(WifiPair(v), KeyLines(f)), f)
<1> DEFINE now == Both(WifiPair(v), KeyLines(f))
<1>1. WifiLines(now) = WifiPair(v)
  BY DEF Both, WifiLines, WifiPair, KeyLines, Restrict
<1>2. KeyLines(now) = KeyLines(f)
  BY DEF Both, WifiPair, KeyLines, Restrict
<1>3. Holds(f, "key") => Holds(now, "key")
  BY DEF Both, WifiPair, KeyLines, Restrict, Holds
<1> QED
  BY <1>1, <1>2, <1>3 DEF Renews

\* The key behind the Wi-Fi pair that the file has.
LEMMA KeyRenews ==
  ASSUME NEW w, NEW f, Paired(f), Holds(f, "ssid")
  PROVE  Renews(Both(WifiLines(f), StreamKey(w)), f)
<1> DEFINE now == Both(WifiLines(f), StreamKey(w))
<1>1. WifiLines(now) = WifiLines(f)
  BY DEF Both, WifiLines, StreamKey, Restrict
<1>2. Holds(now, "key")
  BY DEF Both, StreamKey, Holds
<1> QED
  BY <1>1, <1>2 DEF Renews, Paired

LEMMA SecretStart == SecretInit => SecretInv
<1> SUFFICES ASSUME SecretInit PROVE SecretInv
  OBVIOUS
<1>1. PICK f \in {Gone, WifiPair(1), StreamKey(1), Both(WifiPair(1), StreamKey(1))} :
           envFile = [path |-> f, new |-> Gone, bak |-> Gone] /\ settled = f
  BY DEF SecretInit
<1>2. Paired(Gone) /\ Paired(StreamKey(1))
  BY DEF Paired, Holds, Gone, StreamKey
<1>3. WifiLines(WifiPair(1)) = WifiPair(1)
  BY DEF WifiLines, WifiPair, Restrict
<1>4. WifiLines(Both(WifiPair(1), StreamKey(1))) = WifiPair(1)
  BY DEF Both, WifiLines, WifiPair, StreamKey, Restrict
<1>5. Paired(f)
  BY <1>2, <1>3, <1>4, SecretAssumption DEF Paired
<1> QED
  BY <1>1, <1>5, SecretAssumption DEF SecretInit, SecretInv, SecretTypeOK, FilesInv

LEMMA RenewedIsPaired ==
  ASSUME NEW now, NEW old, Renews(now, old)
  PROVE  Paired(now)
  BY DEF Renews, Paired

\* What a power loss leaves of a file whose data is on the disk is that file.
LEMMA SyncedSurvives ==
  ASSUME FilesInv
  PROVE  Survives("path") = {envFile.path}
  BY DEF FilesInv, Survives

\* No step takes the file's place but the renaming of a whole new file, and a
\* power loss that takes a renaming back.
LEMMA SecretStep ==
  ASSUME SecretInv, SecretNext
  PROVE  /\ SecretInv'
         /\ envFile'.path \in {envFile.path, settled} \/ Renews(envFile'.path, envFile.path)
<1> DEFINE Stays == SecretInv' /\ envFile'.path = envFile.path
<1> USE DEF SecretInv
<1>1. ASSUME NEW what \in {"wifi", "key"}, Ask(what) PROVE Stays
  BY <1>1 DEF Ask, SecretTypeOK, FilesInv
<1>2. CASE StoreWifi
  <2>1. typed \in 1..MaxSecret
    BY <1>2 DEF StoreWifi, Usable, SecretTypeOK
  <2>2. Renews(content', envFile.path)
    BY <1>2, <2>1, WifiRenews DEF StoreWifi
  <2> QED
    BY <1>2, <2>2 DEF StoreWifi, SecretTypeOK, FilesInv
<1>3. CASE StoreKey
  <2>1. Renews(content', envFile.path)
    BY <1>3, KeyRenews DEF StoreKey, FilesInv
  <2> QED
    BY <1>3, <2>1 DEF StoreKey, SecretTypeOK, FilesInv
<1>4. CASE Refused \/ Killed
  BY <1>4, SecretAssumption DEF Refused, Killed, Ended, SecretTypeOK, FilesInv
<1>5. CASE Backup
  BY <1>5 DEF Backup, Goes, SecretTypeOK, FilesInv
<1>6. CASE OpenNew \/ WriteNew \/ SyncNew
  BY <1>6 DEF OpenNew, WriteNew, SyncNew, Goes, SecretTypeOK, FilesInv
<1>7. CASE StoreFails
  BY <1>7, SecretAssumption DEF StoreFails, Ended, SecretTypeOK, FilesInv
<1>8. CASE ReplaceFile
  <2>1. /\ Renews(envFile.new, envFile.path)
        /\ envFile' = [envFile EXCEPT !.path = envFile.new, !.new = Gone]
        /\ settled' = settled
        /\ "new" \notin unsynced
    BY <1>8 DEF ReplaceFile, FilesInv
  <2>2. envFile'.path = envFile.new /\ DOMAIN envFile' = {"path", "new", "bak"}
    BY <2>1 DEF FilesInv
  <2>3. unsynced' \subseteq {"new", "bak"}
    BY <1>8, <2>1 DEF ReplaceFile, FilesInv
  <2> QED
    BY <1>8, <2>1, <2>2, <2>3, RenewedIsPaired, SecretAssumption
       DEF ReplaceFile, Ended, SecretTypeOK, FilesInv
<1>9. CASE Settle
  BY <1>9 DEF Settle, SecretTypeOK, FilesInv
<1>10. CASE PowerLoss
  <2>1. /\ DOMAIN envFile' = {"path", "new", "bak"}
        /\ \/ envFile'.path = envFile.path /\ settled' = envFile.path
           \/ envFile'.path = settled /\ settled' = settled
    BY <1>10, SyncedSurvives DEF PowerLoss
  <2> QED
    BY <1>10, <2>1, SecretAssumption DEF PowerLoss, Ended, SecretTypeOK, FilesInv
<1> QED
  BY <1>1, <1>2, <1>3, <1>4, <1>5, <1>6, <1>7, <1>8, <1>9, <1>10 DEF SecretNext

-----------------------------------------------------------------------------
(* One of them runs, the others stay as they began.                         *)

\* What holds of whichever client runs, and of those that do not.
ClientsInv == /\ part \in {"workflow", "requests", "monitor", "secrets"}
              /\ RequestsInv
              /\ SecretInv
              /\ MonitorTypeOK /\ MonitorTellsTheLink
              /\ part # "monitor" => monitor = "off" /\ ~bleConnected

LEMMA ClientsStart == PreparationInit => ClientsInv
<1> SUFFICES ASSUME PreparationInit PROVE ClientsInv
  OBVIOUS
<1>1. MonitorTypeOK
  BY Zenon DEF PreparationInit, MonitorInit, MonitorTypeOK
<1>2. MonitorTellsTheLink /\ monitor = "off" /\ ~bleConnected
  BY DEF PreparationInit, MonitorInit, MonitorTellsTheLink
<1> QED
  BY <1>1, <1>2, RequestsStart, SecretStart DEF PreparationInit, ClientsInv

LEMMA RequestsRest == RequestsInv /\ UNCHANGED requestVars => RequestsInv'
  BY DEF RequestsInv, TableInv, CountersInv, Busy, requestVars

LEMMA SecretRest == SecretInv /\ UNCHANGED secretVars => SecretInv'
  BY DEF SecretInv, SecretTypeOK, FilesInv, secretVars

\* A monitor that is not there says nothing of the link.
LEMMA MonitorRest ==
  ASSUME MonitorTypeOK, UNCHANGED monitorVars,
         (monitor = "off" /\ ~bleConnected) \/ (MonitorTellsTheLink /\ UNCHANGED link)
  PROVE  MonitorTypeOK' /\ MonitorTellsTheLink'
<1>1. MonitorTypeOK'
  BY Zenon DEF MonitorTypeOK, monitorVars
<1>2. MonitorTellsTheLink'
  BY DEF MonitorTellsTheLink, monitorVars
<1> QED
  BY <1>1, <1>2

LEMMA ClientsStep == ClientsInv /\ [PreparationNext]_allVars => ClientsInv'
<1> SUFFICES ASSUME ClientsInv, [PreparationNext]_allVars PROVE ClientsInv'
  OBVIOUS
<1>1. CASE UNCHANGED allVars
  <2>1. UNCHANGED <<requestVars, secretVars, monitorVars, link, part>>
    BY <1>1 DEF allVars, frameVars, sessionVars, linkVars
  <2> QED
    BY <2>1, RequestsRest, SecretRest, MonitorRest DEF ClientsInv, monitorVars
<1>2. CASE part = "workflow" /\ UNCHANGED <<requestVars, monitorVars, secretVars, part>>
  BY <1>2, RequestsRest, SecretRest, MonitorRest DEF ClientsInv, monitorVars
<1>3. CASE /\ part = "requests" /\ RequestsNext
           /\ UNCHANGED <<monitorVars, secretVars, part>>
  BY <1>3, RequestsStep, SecretRest, MonitorRest DEF ClientsInv, monitorVars
<1>4. CASE /\ part = "monitor" /\ MonitorNext /\ UNCHANGED <<requestVars, secretVars, part>>
  BY <1>4, MonitorStep, RequestsRest, SecretRest DEF ClientsInv
<1>5. CASE /\ part = "secrets" /\ SecretNext
           /\ UNCHANGED <<requestVars, monitorVars, part>>
  BY <1>5, SecretStep, RequestsRest, MonitorRest DEF ClientsInv, monitorVars
<1> QED
  BY <1>1, <1>2, <1>3, <1>4, <1>5 DEF PreparationNext

\* The inductive invariant of the clients without a script.
THEOREM ClientsInvariant == PreparationSpec => []ClientsInv
  BY ClientsStart, ClientsStep, PTL DEF PreparationSpec

\* Through time-outs, the retry, cancellation and the heartbeats in between, a
\* waiting coroutine takes the reply to its own request, and the table holds
\* just the requests that are waited on (pocket3_normal.py 40-85).
THEOREM RepliesReachTheirRequests == PreparationSpec => []AnswersItsOwn
<1>1. ClientsInv => AnswersItsOwn
  BY DEF ClientsInv, RequestsInv, TableInv, AnswersItsOwn, Busy
<1> QED
  BY <1>1, ClientsInvariant, PTL

\* ble_connected is never left set behind a link that is gone, but until BlueZ
\* has called back, nor once the thread is over (ble_status.py 53-125).
THEOREM MonitorIsTruthful == PreparationSpec => []MonitorTellsTheLink
<1>1. ClientsInv => MonitorTellsTheLink
  BY DEF ClientsInv
<1> QED
  BY <1>1, ClientsInvariant, PTL

\* Killed, failing or without power, the file of secrets is the old one or a
\* whole new one that keeps what its command does not replace.
THEOREM SecretsSurvive == PreparationSpec => SecretsStayTogether
<1>1. ClientsInv /\ [PreparationNext]_allVars =>
         [envFile'.path \in {envFile.path, settled} \/ Renews(envFile'.path, envFile.path)]_secretVars
  BY SecretStep DEF ClientsInv, PreparationNext, allVars
<1> QED
  BY <1>1, ClientsInvariant, PTL DEF PreparationSpec, SecretsStayTogether

-----------------------------------------------------------------------------
(* The preparation, in the same process's code.                             *)

\* The clients without a script, and the preparation, whose link is the
\* monitor's when it is the monitor that runs.
PreparationInv == ClientsInv /\ WorkflowInv /\ (part # "workflow" => mode = "idle")

LEMMA MonitorIsQuiet ==
  ASSUME MonitorTypeOK, MonitorNext
  PROVE  /\ wire' = wire
         /\ link \in {"none", "up", "down"} => link' \in {"none", "up", "down"}
         /\ subscribed \in BOOLEAN => subscribed' \in BOOLEAN
<1> USE DEF Listen, AskStop, MonitorConnects, MonitorSubscribes, LinkLost, ToldOfLoss,
            MonitorLeaves, Unlisten, MonitorEnds, MonitorOver, Connected, Subscribed, Dropped,
            Unsubscribed, Released, linkVars
<1>1. wire' = wire /\ (link \in {"none", "up", "down"} => link' \in {"none", "up", "down"})
  BY DEF MonitorNext
<1>2. subscribed \in BOOLEAN => subscribed' \in BOOLEAN
  BY Zenon DEF MonitorNext
<1> QED
  BY <1>1, <1>2

\* A monitor's link is no session's.
LEMMA MonitorKeepsWorkflow ==
  ASSUME MonitorTypeOK, WorkflowInv, mode = "idle", MonitorNext,
         UNCHANGED <<mode, ownVars, faults, past, workflowVars>>
  PROVE  WorkflowInv'
<1>1. /\ wire' = wire /\ link' \in {"none", "up", "down"} /\ subscribed' \in BOOLEAN
      /\ UNCHANGED <<mode, kind, pos, heard, read, sent, error, declined, pairing, past>>
      /\ UNCHANGED <<phase, proposals, captures, command>>
  BY MonitorIsQuiet DEF WorkflowInv, FrameInv, Enums, Flags, ownVars, workflowVars
<1>2. Enums'
  BY <1>1 DEF WorkflowInv, FrameInv, Enums
<1>3. Flags'
  BY <1>1, Zenon DEF WorkflowInv, FrameInv, Flags
<1>4. PlaceInv'
  BY <1>1 DEF WorkflowInv, FrameInv, PlaceInv, Finished, Step
<1>5. FrameInv'
  BY <1>1, <1>2, <1>3, <1>4, QuietKeeps DEF WorkflowInv, FrameInv, quietVars
<1>6. PhaseInv'
  BY <1>1 DEF WorkflowInv, PhaseInv, PhaseTypes, CommandInv, CapturesInv, PhaseIsBacked, Reached
<1> QED
  BY <1>5, <1>6 DEF WorkflowInv

LEMMA PreparationStep ==
  ASSUME PreparationInv, [PreparationNext]_allVars
  PROVE  PreparationInv'
<1>1. ClientsInv'
  BY ClientsStep DEF PreparationInv
<1>2. CASE UNCHANGED <<frameVars, workflowVars, part>>
  <2>1. WorkflowInv' /\ mode' = mode
    BY <1>2, WorkflowStep DEF PreparationInv, frameVars, sessionVars
  <2> QED
    BY <2>1, <1>1, <1>2 DEF PreparationInv
<1>3. CASE part = "workflow" /\ WorkflowNext /\ UNCHANGED part
  BY <1>1, <1>3, WorkflowStep DEF PreparationInv
<1>4. CASE /\ part = "monitor" /\ MonitorNext
           /\ UNCHANGED <<mode, ownVars, faults, past, workflowVars, part>>
  BY <1>1, <1>4, MonitorKeepsWorkflow DEF PreparationInv, ClientsInv
<1> QED
  BY <1>2, <1>3, <1>4 DEF PreparationNext, allVars

LEMMA PreparationStart == PreparationInit => PreparationInv
<1>1. PreparationInit => mode = "idle"
  BY DEF PreparationInit, WorkflowInit, SessionInit
<1> QED
  BY <1>1, ClientsStart, WorkflowStart DEF PreparationInv, PreparationInit

THEOREM ProcessInvariant == PreparationSpec => []PreparationInv
  BY PreparationStart, PreparationStep, PTL DEF PreparationSpec

\* Of whichever client runs, the variables hold what the code puts into them.
THEOREM ProcessTypes == PreparationSpec => []TypeOK
<1>1. PreparationInv => TypeOK
  <2> SUFFICES ASSUME PreparationInv PROVE TypeOK
    OBVIOUS
  <2>1. WorkflowTypeOK
    BY FrameTypes DEF PreparationInv, WorkflowInv, PhaseInv, PhaseTypes, WorkflowTypeOK
  <2>2. RequestsTypeOK
    BY QueryNames DEF PreparationInv, ClientsInv, RequestsInv, TableInv, CountersInv, RequestsTypeOK
  <2> QED
    BY <2>1, <2>2 DEF PreparationInv, ClientsInv, SecretInv, TypeOK
<1> QED
  BY <1>1, ProcessInvariant, PTL

\* What the sessions and the phase file promise (SessionsKeepToApprovals and
\* PhaseFileIsTrue of the workflow alone) they promise in the process as well,
\* whose link may be the monitor's.
THEOREM ProcessKeepsPromises ==
    PreparationSpec => OneByOne /\ [](LedgerTellsTheWire /\ OkMeansDone /\ PhaseIsBacked)
<1>1. PreparationInit => Sessions!FramesInit
  BY PromisesStart DEF PreparationInit, WorkflowInit
<1>2. PreparationInv /\ [PreparationNext]_allVars => Sessions!FramesNext \/ UNCHANGED promiseVars
  <2> SUFFICES ASSUME PreparationInv, [PreparationNext]_allVars
               PROVE  Sessions!FramesNext \/ UNCHANGED promiseVars
    OBVIOUS
  <2>1. CASE UNCHANGED <<frameVars, workflowVars>>
    BY <2>1, StutterPromise DEF frameVars, sessionVars, linkVars, ownVars, Open
  <2>2. CASE WorkflowNext
    BY <2>2, WorkflowPromise DEF PreparationInv, WorkflowInv
  <2>3. CASE MonitorNext /\ UNCHANGED <<mode, ownVars>>
    <3>1. UNCHANGED <<wire, kind, heard, Open>>
      BY <2>3, MonitorIsQuiet DEF PreparationInv, ClientsInv, ownVars, Open
    <3> QED
      BY <3>1, StutterPromise
  <2> QED
    BY <2>1, <2>2, <2>3 DEF PreparationNext, allVars
<1>3. PreparationInv /\ [PreparationNext]_allVars
         => [Sessions!FramesNext]_<<kind, mode \notin {"idle", "stopping", "disconnecting", "ended"},
                                    Written, Given>>
  BY <1>2 DEF promiseVars, Open
<1>4. PreparationInv => LedgerTellsTheWire /\ OkMeansDone /\ PhaseIsBacked
  BY FramesAreBooked, SuccessIsDone DEF PreparationInv, WorkflowInv, PhaseInv
<1> QED
  BY <1>1, <1>3, <1>4, ProcessInvariant, PTL DEF PreparationSpec, OneByOne, Sessions!FramesSpec
=============================================================================
