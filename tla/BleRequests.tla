----------------------------- MODULE BleRequests -----------------------------
(***************************************************************************)
(* BleNormalSession: two coroutines of one event loop, the one that reads  *)
(* the hotspot credentials and its heartbeat, write requests to the camera *)
(* over one link.  The lock covers a write but not the wait for the reply, *)
(* so replies are told apart by a table of pending requests.  The camera   *)
(* answers late, more than once, or never.                                 *)
(***************************************************************************)
EXTENDS Integers, Sequences

CONSTANTS SeqWrap,   \* sequence numbers, 2^16 in the code
          SeqFirst,  \* the first of them
          MaxBeats   \* bound: heartbeats

ASSUME RequestsAssumption == /\ {SeqWrap, SeqFirst, MaxBeats} \subseteq Nat
                             /\ SeqFirst < SeqWrap

Callers == {"main", "beat"}

\* What each call of send asks for; the session open and the keepalive are one
\* command with two payloads, and nobody waits for their replies.
Queries == <<"open", "pin", "stop", "ssid", "password">>
Awaited == {"pin", "stop", "ssid", "password"}
None == [name |-> "none", seq |-> 0]

VARIABLES mainAt,   \* credentials: the index in Queries, or the number after them
          withStop, \* leave_livestream
          retried,  \* the one retry of the SSID query is used
          outcome,  \* of credentials: "none", "given" or "raised"
          beating,  \* the heartbeat task: "none", "running" or "over"
          beats,    \* heartbeats begun
          at,       \* each caller in send: "out", "queued", "writing", "waiting"
          asks,     \* the request each caller is about
          lock,     \* the caller that holds send_lock, or "none"
          sequence, \* the next sequence number
          pending,  \* requests whose reply somebody waits for
          future,   \* the request whose reply main's future holds, or None
          good,     \* and whether the reply says what main hopes for
          reached   \* requests that the camera has, all of one connection

requestVars == <<mainAt, withStop, retried, outcome, beating, beats, at, asks, lock,
                 sequence, pending, future, good, reached>>
taskVars == <<mainAt, withStop, retried, outcome, beating, beats>>

RequestsInit == /\ mainAt = 1 /\ withStop \in BOOLEAN /\ retried = FALSE
                /\ outcome = "none" /\ beating = "none" /\ beats = 0
                /\ at = [c \in Callers |-> "out"] /\ asks = [c \in Callers |-> None]
                /\ lock = "none" /\ sequence = SeqFirst
                /\ pending = {} /\ future = None /\ good = FALSE /\ reached = {}

\* Mutant: a pending request is found by its command alone.
KeyOfCommand(r) == r.name

\* The key of a request: its command and its sequence number.
Key(r) == r

\* Mutant: the sequence number is not masked.
Following(s) == s + 1

Successor(s) == (s + 1) % SeqWrap

-----------------------------------------------------------------------------
(* send.                                                                    *)

Calls(c) == IF c = "beat" THEN beating = "running" /\ beats < MaxBeats
                          ELSE outcome = "none" /\ mainAt <= Len(Queries)

Call(c) == /\ Calls(c) /\ at[c] = "out"
           /\ at' = [at EXCEPT ![c] = "queued"]
           /\ beats' = IF c = "beat" THEN beats + 1 ELSE beats
           /\ UNCHANGED <<mainAt, withStop, retried, outcome, beating, asks, lock, sequence,
                          pending, future, good, reached>>

\* Under the lock: the number, the table entry, and the write, which waits.
Acquire(c) ==
    LET r == [name |-> IF c = "beat" THEN "keepalive" ELSE Queries[mainAt], seq |-> sequence]
    IN  /\ at[c] = "queued" /\ lock = "none"
        /\ lock' = c
        /\ at' = [at EXCEPT ![c] = "writing"]
        /\ asks' = [asks EXCEPT ![c] = r]
        /\ sequence' = Successor(sequence)
        /\ pending' = IF r.name \in Awaited THEN pending \cup {r} ELSE pending
        /\ IF c = "main" THEN future' = None /\ good' = FALSE ELSE UNCHANGED <<future, good>>
        /\ UNCHANGED <<taskVars, reached>>

\* The frame is at the camera before its writer resumes.
Reaches(c) == /\ at[c] = "writing"
              /\ reached' = reached \cup {asks[c]}
              /\ UNCHANGED <<taskVars, at, asks, lock, sequence, pending, future, good>>

\* send ends for a caller, however it ends.
LeaveSend(callers) ==
    /\ at' = [c \in Callers |-> IF c \in callers THEN "out" ELSE at[c]]
    /\ pending' = pending \ {asks[c] : c \in callers}
    /\ lock' = IF lock \in callers THEN "none" ELSE lock
    /\ UNCHANGED <<asks, sequence>>

Advance == mainAt' = mainAt + (IF Queries[mainAt] = "pin" /\ ~withStop THEN 2 ELSE 1)

\* credentials goes on; the heartbeat starts before the first query.
Proceed == /\ Advance
           /\ beating' = IF Queries[mainAt'] = "ssid" THEN "running" ELSE beating
           /\ UNCHANGED <<withStop, retried, outcome, beats>>

\* credentials is over, and with it the heartbeat, wherever it is.
End(what) == /\ outcome' = what
             /\ beating' = IF beating = "none" THEN "none" ELSE "over"
             /\ LeaveSend(Callers)
             /\ UNCHANGED <<mainAt, withStop, retried, beats>>

WriteDone(c) ==
    /\ at[c] = "writing" /\ asks[c] \in reached
    /\ IF asks[c].name \in Awaited
       THEN /\ at' = [at EXCEPT ![c] = "waiting"]
            /\ lock' = "none"
            /\ UNCHANGED <<taskVars, asks, sequence, pending>>
       ELSE /\ LeaveSend({c})
            /\ IF c = "main" THEN Proceed ELSE UNCHANGED taskVars
    /\ UNCHANGED <<future, good, reached>>

\* A time-out of the write or of the reply; the SSID query is made once more.
\* A heartbeat that fails ends its task, and nobody looks.
SendTimesOut(c) ==
    /\ \/ at[c] = "writing"
       \/ at[c] = "waiting" /\ future = None
    /\ CASE c = "beat" -> /\ LeaveSend({c})
                          /\ beating' = "over"
                          /\ UNCHANGED <<mainAt, withStop, retried, outcome, beats>>
         [] c = "main" /\ asks[c].name = "ssid" /\ ~retried ->
                /\ LeaveSend({c})
                /\ retried' = TRUE
                /\ UNCHANGED <<mainAt, withStop, outcome, beating, beats>>
         [] OTHER -> End("raised")
    /\ UNCHANGED <<future, good, reached>>

\* The waiter resumes with the reply.
Take == /\ at["main"] = "waiting" /\ future # None
        /\ IF ~good THEN End("raised")
           ELSE IF asks["main"].name = "password" THEN End("given")
           ELSE LeaveSend({"main"}) /\ Proceed
        /\ UNCHANGED <<future, good, reached>>

\* The session is cancelled: both tasks leave by their finally clauses.
CancelSession == /\ outcome = "none"
                 /\ End("raised")
                 /\ UNCHANGED <<future, good, reached>>

-----------------------------------------------------------------------------
(* notification: the camera's reply to a request it has, at any time.       *)

Reply(r, ok) ==
    /\ r \in reached
    /\ \E p \in pending : Key(p) = Key(r)
    /\ future = None
    /\ future' = r /\ good' = ok
    /\ UNCHANGED <<taskVars, at, asks, lock, sequence, pending, reached>>

\* Replies that nobody waits for change nothing.
RequestsDone == outcome # "none" /\ UNCHANGED requestVars

RequestsNext == \/ \E c \in Callers : Call(c) \/ Acquire(c) \/ Reaches(c) \/ WriteDone(c)
                                      \/ SendTimesOut(c)
                \/ \E r \in reached, ok \in BOOLEAN : Reply(r, ok)
                \/ Take \/ CancelSession \/ RequestsDone

RequestsSpec == RequestsInit /\ [][RequestsNext]_requestVars

-----------------------------------------------------------------------------
(* What the table of pending requests is for.                               *)

RequestsTypeOK ==
    /\ mainAt \in 1..Len(Queries) + 1
    /\ at \in [Callers -> {"out", "queued", "writing", "waiting"}]
    /\ sequence \in 0..SeqWrap - 1
    /\ lock \in Callers \cup {"none"}
    /\ beats \in 0..MaxBeats

\* Through time-outs, the retry, cancellation and heartbeats in between, the
\* reply that the waiting coroutine takes is the reply to the very request it
\* is waiting on, and the table holds exactly the requests that are waited on
\* (pocket3_normal.py 40-56, 58-85).
AnswersItsOwn ==
    /\ at["main"] \in {"writing", "waiting"} /\ future # None => future = asks["main"]
    /\ pending = {asks[c] : c \in {d \in Callers : /\ at[d] \in {"writing", "waiting"}
                                                   /\ asks[d].name \in Awaited}}
=============================================================================
