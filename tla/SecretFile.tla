------------------------------ MODULE SecretFile ------------------------------
(***************************************************************************)
(* The owner's secrets file: the Wi-Fi pair and the stream key that the    *)
(* proposals are made from, stored by two commands that each replace a     *)
(* part of it.  A command may fail, be killed, or lose its power between   *)
(* any two steps; the owner runs one of them at a time.                    *)
(*                                                                         *)
(* A file is its lines, a function from the names it holds to the versions *)
(* of their values.  The file system is external: what is not synced       *)
(* survives as far as it got, and a rename that is not settled yet may not *)
(* have happened.                                                          *)
(***************************************************************************)
EXTENDS Naturals, Functions

CONSTANT MaxSecret      \* bound: the versions the owner types
ASSUME SecretAssumption == MaxSecret \in Nat \ {0}

VARIABLES envFile,      \* secrets.env, .new and .bak, as any process sees them
          private,      \* secrets.env has mode 0600
          unsynced,     \* external: the files whose data is not on the disk
          settled,      \* external: what secrets.env is on the disk
          asked,        \* the command that runs
          typed,        \* the version its owner typed, 0 what a check refuses
          content,      \* the lines it is going to store
          storing       \* its next step

secretVars == <<envFile, private, unsynced, settled, asked, typed, content, storing>>

Gone == [n \in {"gone"} |-> 0]
WifiPair(v) == [n \in {"ssid", "psk"} |-> v]
StreamKey(v) == [n \in {"key"} |-> v]
Both(f, g) == [n \in DOMAIN f \cup DOMAIN g |-> IF n \in DOMAIN f THEN f[n] ELSE g[n]]
Holds(f, name) == name \in DOMAIN f
KeyLines(f) == Restrict(f, {"key"} \cap DOMAIN f)
WifiLines(f) == Restrict(f, {"ssid", "psk"} \cap DOMAIN f)

\* The owner may have written the first file by hand, in part or with another
\* mode; the lines are in the form in which the program writes them.
SecretInit ==
    /\ \E f \in {Gone, WifiPair(1), StreamKey(1), Both(WifiPair(1), StreamKey(1))} :
           envFile = [path |-> f, new |-> Gone, bak |-> Gone] /\ settled = f
    /\ private \in BOOLEAN
    /\ unsynced = {}
    /\ asked = "none" /\ typed = 0 /\ content = <<>> /\ storing = "none"

Usable == typed # 0
Ended == asked' = "none" /\ typed' = 0 /\ content' = <<>> /\ storing' = "none"
Goes(next) == storing' = next /\ UNCHANGED <<asked, typed, content>>

\* configure-wifi and configure-stream-key: the owner types a value twice.
Ask(what) == /\ asked = "none"
             /\ asked' = what
             /\ typed' \in 0..MaxSecret
             /\ storing' = "check"
             /\ UNCHANGED <<envFile, private, unsynced, settled, content>>

\* store_wifi_provisioning_secrets keeps the line of the stream key.
StoreWifi ==
    /\ asked = "wifi" /\ storing = "check" /\ Usable
    /\ envFile.path # Gone => private
    /\ content' = Both(WifiPair(typed), KeyLines(envFile.path))
    /\ storing' = IF envFile.path = Gone THEN "open" ELSE "backup"
    /\ UNCHANGED <<asked, typed, envFile, private, unsynced, settled>>

\* store_rtmp_stream_key wants a file with both Wi-Fi values.
StoreKey ==
    /\ asked = "key" /\ storing = "check" /\ Usable
    /\ private /\ Holds(envFile.path, "ssid") /\ Holds(envFile.path, "psk")
    /\ content' = Both(WifiLines(envFile.path), StreamKey(typed))
    /\ storing' = "backup"
    /\ UNCHANGED <<asked, typed, envFile, private, unsynced, settled>>

Refused == /\ storing = "check"
           /\ \/ ~Usable
              \/ envFile.path # Gone /\ ~private
              \/ asked = "key" /\ ~(\A n \in {"ssid", "psk"} : Holds(envFile.path, n))
           /\ Ended
           /\ UNCHANGED <<envFile, private, unsynced, settled>>

Backup == /\ storing = "backup"
          /\ envFile' = [envFile EXCEPT !.bak = envFile.path]
          /\ unsynced' = unsynced \cup {"bak"}
          /\ Goes("open")
          /\ UNCHANGED <<private, settled>>

\* O_TRUNC: whatever an earlier command has left there is cut off.
OpenNew == /\ storing = "open"
           /\ envFile' = [envFile EXCEPT !.new = <<>>]
           /\ unsynced' = unsynced \cup {"new"}
           /\ Goes("write")
           /\ UNCHANGED <<private, settled>>

WriteNew == /\ storing = "write"
            /\ envFile' = [envFile EXCEPT !.new = content]
            /\ Goes("sync")
            /\ UNCHANGED <<private, unsynced, settled>>

\* Mutant: the data is left to the file system's own time.
FlushedOnly == storing = "sync" /\ Goes("replace") /\ UNCHANGED <<envFile, private, unsynced, settled>>

SyncNew == /\ storing = "sync"
           /\ unsynced' = unsynced \ {"new"}
           /\ Goes("replace")
           /\ UNCHANGED <<envFile, private, settled>>

\* The disk is full, fsync fails, Ctrl-C: what was written goes.
StoreFails == /\ storing \in {"write", "sync"}
              /\ envFile' = [envFile EXCEPT !.new = Gone]
              /\ unsynced' = unsynced \ {"new"}
              /\ Ended
              /\ UNCHANGED <<private, settled>>

ReplaceFile == /\ storing = "replace"
               /\ envFile' = [envFile EXCEPT !.path = envFile.new, !.new = Gone]
               /\ unsynced' = {IF f = "new" THEN "path" ELSE f : f \in unsynced \ {"path"}}
               /\ private' = TRUE
               /\ Ended
               /\ UNCHANGED settled

Killed == /\ storing # "none"
          /\ Ended
          /\ UNCHANGED <<envFile, private, unsynced, settled>>

\* external: the file system writes back what it holds.
Settle == /\ unsynced # {} \/ settled # envFile.path
          /\ unsynced' = {} /\ settled' = envFile.path
          /\ UNCHANGED <<envFile, private, asked, typed, content, storing>>

\* external: as many of its lines, from the first, as got to the disk.
Cuts(f) == {Restrict(f, names \cap DOMAIN f) :
               names \in {{}, {"ssid"}, {"ssid", "psk"}, {"ssid", "psk", "key"}}}

Survives(f) == IF f \in unsynced THEN Cuts(envFile[f]) \cup {Gone} ELSE {envFile[f]}

\* external: a rename that was not settled leaves both names as they were, or
\* as they are.
PowerLoss ==
    /\ \E b \in Survives("bak") :
          \/ \E p \in Survives("path"), n \in Survives("new") :
                 envFile' = [path |-> p, new |-> n, bak |-> b] /\ settled' = p
          \/ /\ settled # envFile.path
             /\ \E p \in Survives("path") :
                    envFile' = [path |-> settled, new |-> p, bak |-> b]
             /\ UNCHANGED settled
    /\ unsynced' = {}
    /\ Ended
    /\ UNCHANGED private

SecretNext == \/ \E what \in {"wifi", "key"} : Ask(what)
              \/ StoreWifi \/ StoreKey \/ Refused \/ Backup \/ OpenNew \/ WriteNew
              \/ SyncNew \/ StoreFails \/ ReplaceFile \/ Killed \/ Settle \/ PowerLoss

-----------------------------------------------------------------------------
SecretTypeOK == /\ DOMAIN envFile = {"path", "new", "bak"}
                /\ unsynced \subseteq DOMAIN envFile
                /\ asked \in {"none", "wifi", "key"} /\ typed \in 0..MaxSecret
                /\ storing \in {"none", "check", "backup", "open", "write", "sync", "replace"}

\* A whole file: an SSID and the password typed with it; and either the Wi-Fi
\* pair or the key has changed, the other stays.
Renews(now, old) == /\ \E v \in 1..MaxSecret : WifiLines(now) = WifiPair(v)
                    /\ KeyLines(now) = KeyLines(old) \/ WifiLines(now) = WifiLines(old)
                    /\ Holds(old, "key") => Holds(now, "key")

\* Whatever is killed, fails or loses its power, and whenever another command
\* reads: the file changes only to a whole one that renews it in one half, or
\* it is again the file that was there before (secrets.py 150-249).
SecretsStayTogether ==
    [][envFile'.path \in {envFile.path, settled} \/ Renews(envFile'.path, envFile.path)]_secretVars
=============================================================================
