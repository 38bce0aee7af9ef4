-------------------------- MODULE MCVideoLink_proofs --------------------------
(***************************************************************************)
(* Theorems about the receiving side of a normal session.  The frame ids   *)
(* of the video, which come round, are told apart by time, as long as they *)
(* take longer to do so than they are remembered, and a unit put together  *)
(* from them is a unit the camera sent.  DUML frames are found in a stream *)
(* of bytes however it is cut.  What holds of the transport, of the video  *)
(* and of the frames by themselves holds in the session.                   *)
(***************************************************************************)
EXTENDS MCVideoLink, UdpTransport_proofs, WellFoundedInduction

-----------------------------------------------------------------------------
(* Time and frame ids.                                                      *)

\* At time t a fragment of group g may come in.
OnItsWay(g, t) == g \in 1..Len(sentAt) /\ sentAt[g] <= t /\ t - sentAt[g] <= MaxDelay

\* The camera's groups are sent one after the other.
ClockInv ==
    /\ script \in Scripts /\ script \in Seq(GroupType)
    /\ now \in Nat
    /\ sentAt \in Seq(Nat)
    /\ Len(sentAt) <= Len(script)
    /\ \A g \in 1..Len(sentAt) : sentAt[g] <= now
    /\ \A g, h \in 1..Len(sentAt) : g <= h => sentAt[g] + (h - g) <= sentAt[h]

PayloadType == [group : Nat, index : Nat, genuine : BOOLEAN]
Places == UNION {[D -> PayloadType] : D \in SUBSET Nat}
ItemType == [time : Nat, count : Nat, parts : Places]

\* All parts of a pending frame id are of one group.
ItemOf(k, g) ==
    /\ OnItsWay(g, pending[k].time)
    /\ Id(g) = k
    /\ \A i \in DOMAIN pending[k].parts :
          /\ i \in 1..pending[k].count
          /\ i <= Len(script[g].sizes)
          /\ pending[k].parts[i].group = g
          /\ pending[k].parts[i].index = i

PendingInv == \A k \in DOMAIN pending :
    /\ pending[k] \in ItemType
    /\ pending[k].time <= now
    /\ \E g \in 1..Len(sentAt) : ItemOf(k, g)

\* A settled frame id is that of the group that was settled.
SettledInv == \A k \in DOMAIN settled :
    /\ settled[k] \in [time : Nat, group : Nat]
    /\ settled[k].time <= now
    /\ OnItsWay(settled[k].group, settled[k].time)
    /\ Id(settled[k].group) = k

\* Nothing of a closed group is taken any more.
Closed(g) == \/ now - sentAt[g] > MaxDelay
             \/ Id(g) \in DOMAIN settled /\ settled[Id(g)].group = g

\* The group that the header of an access unit comes with.
Heads(g, unit) == g \in 1..Len(sentAt) /\ script[g].unit = unit /\ script[g].length > 0

UnitsInv ==
    /\ out \in Seq([unit : Nat, raw : Seq(PayloadType)])
    /\ \A k \in 1..Len(out) : \E g \in 1..Len(sentAt) : Heads(g, out[k].unit) /\ Closed(g)

HeldInv ==
    /\ held \in [unit : Nat, raw : Seq(PayloadType),
                 length : Nat, next : Nat, time : Nat]
    /\ held # NoUnit =>
          /\ \E g \in 1..Len(sentAt) : Heads(g, held.unit) /\ Closed(g)
          /\ \A k \in 1..Len(out) : out[k].unit # held.unit

\* What the player has seen, the decoder has got.
PlayerInv ==
    /\ pushed \in Seq(Nat)
    /\ {sps, pps, ready} \subseteq BOOLEAN
    /\ sps => \E j \in 1..Len(pushed) : "sps" \in NalsOf(pushed[j])
    /\ pps => \E j \in 1..Len(pushed) : "pps" \in NalsOf(pushed[j])
    /\ ready => sps /\ pps /\ \E j \in 1..Len(pushed) : "key" \in NalsOf(pushed[j])

MediaInv == /\ ClockInv /\ PendingInv /\ SettledInv /\ UnitsInv /\ HeldInv
            /\ PlayerInv /\ StartsWithKey

-----------------------------------------------------------------------------
LEMMA MediaTimes == /\ IdMod \in Nat \ {0} /\ Keep \in Nat /\ MaxDelay \in Nat
                    /\ MaxDelay < Keep /\ Expire = 1 /\ 1 < Keep /\ Keep + MaxDelay <= IdMod
  BY MediaAssumption DEF Expire

\* Groups that share a frame id are IdMod groups apart.
LEMMA SameId ==
  ASSUME NEW g \in Nat, NEW h \in Nat, g < h, Id(g) = Id(h)
  PROVE  h - g >= IdMod
<1> DEFINE p == g \div IdMod  q == h \div IdMod  r == g % IdMod
<1>1. /\ p \in Int /\ q \in Int /\ r \in Int
      /\ g = IdMod * p + r /\ h = IdMod * q + r
  BY MediaTimes, DivisionBy DEF Id
<1> HIDE DEF p, q, r
<1>2. IdMod * (q - p) = h - g
  BY <1>1, MediaTimes, SMT
<1>3. q - p >= 1
  <2> SUFFICES ASSUME p >= q  PROVE FALSE
    BY <1>1, SMT
  <2>1. IdMod * (p - q) >= 0
    BY <1>1, MediaTimes, SMT
  <2>2. IdMod * (p - q) = g - h
    BY <1>1, MediaTimes, SMT
  <2> QED
    BY <2>1, <2>2, SMT
<1>4. IdMod * (q - p) >= IdMod * 1
  BY <1>1, <1>3, MediaTimes, SMT
<1> QED
  BY <1>2, <1>4, MediaTimes, SMT

LEMMA ClockTypes ==
  ASSUME ClockInv
  PROVE  /\ sentAt \in Seq(Nat) /\ Len(sentAt) \in Nat /\ now \in Nat
         /\ \A g \in 1..Len(sentAt) : sentAt[g] \in Nat /\ g \in Nat /\ g \in 1..Len(script)
<1>1. sentAt \in Seq(Nat) /\ now \in Nat /\ Len(sentAt) <= Len(script) /\ script \in Seq(GroupType)
  BY DEF ClockInv
<1> QED
  BY <1>1

\* Two groups with one frame id are never on their way at once, nor within Keep.
LEMMA OneOnItsWay ==
  ASSUME ClockInv, NEW t \in Nat, NEW u \in Nat, t <= u, u - t < Keep,
         NEW g, OnItsWay(g, t), NEW h, OnItsWay(h, u), Id(g) = Id(h)
  PROVE  g = h
<1>1. /\ g \in 1..Len(sentAt) /\ h \in 1..Len(sentAt) /\ g \in Nat /\ h \in Nat
      /\ sentAt[g] \in Nat /\ sentAt[h] \in Nat
  BY ClockTypes DEF OnItsWay
<1>2. CASE g < h
  <2>1. sentAt[g] + (h - g) <= sentAt[h]
    BY <1>1, <1>2 DEF ClockInv
  <2>2. h - g >= IdMod
    BY <1>1, <1>2, SameId
  <2> QED
    BY <1>1, <2>1, <2>2, MediaTimes DEF OnItsWay
<1>3. CASE h < g
  <2>1. sentAt[h] + (g - h) <= sentAt[g]
    BY <1>1, <1>3 DEF ClockInv
  <2>2. g - h >= IdMod
    BY <1>1, <1>3, SameId
  <2> QED
    BY <1>1, <2>1, <2>2, MediaTimes DEF OnItsWay
<1> QED
  BY <1>1, <1>2, <1>3

\* A fragment that comes in.
LEMMA Incoming ==
  ASSUME ClockInv, NEW f \in Arriving
  PROVE  /\ OnItsWay(f.group, now) /\ f.group \in 1..Len(script) /\ f.group \in Nat
         /\ f.index \in Nat /\ f.index >= 1 /\ f.index <= f.count /\ f.count \in Nat
         /\ f.index <= Len(script[f.group].sizes)
         /\ Len(script[f.group].sizes) <= f.count /\ Len(script[f.group].sizes) \in Nat
         /\ Payload(f) \in PayloadType
         /\ f = [group |-> f.group, index |-> f.index, count |-> f.count, genuine |-> f.genuine]
<1>1. PICK g \in {h \in 1..Len(sentAt) : now - sentAt[h] <= MaxDelay} : f \in Fragments(g)
  BY DEF Arriving
<1>2. g \in 1..Len(script) /\ script[g] \in GroupType /\ g \in Nat
  <2>1. g \in 1..Len(script) /\ g \in Nat
    BY <1>1, ClockTypes
  <2>2. script \in Seq(GroupType)
    BY DEF ClockInv
  <2> QED
    BY <2>1, <2>2
<1>3. Len(script[g].sizes) \in Nat \ {0}
  BY <1>2 DEF GroupType
<1>4. /\ f.group = g /\ f.index \in 1..Len(script[g].sizes) /\ f.genuine \in BOOLEAN
      /\ f.count \in {Len(script[g].sizes), Len(script[g].sizes) + 1}
      /\ f = [group |-> f.group, index |-> f.index, count |-> f.count, genuine |-> f.genuine]
  <2> DEFINE n == Len(script[g].sizes)
  <2>1. n \in Nat /\ n + 1 \in Nat /\ 1 \in 1..n
    BY <1>3
  <2> HIDE DEF n
  <2>2. f \in [group : {g}, index : 1..n, count : {n}, genuine : {TRUE}]
        \/ f \in [group : {g}, index : {1}, count : {n, n + 1}, genuine : {FALSE}]
    BY <1>1 DEF Fragments, n
  <2>3. /\ f.group = g /\ f.index \in 1..n /\ f.genuine \in BOOLEAN
        /\ f.count \in {n, n + 1}
        /\ f = [group |-> f.group, index |-> f.index, count |-> f.count, genuine |-> f.genuine]
    BY <2>1, <2>2
  <2> QED
    BY <2>3 DEF n
<1> QED
  <2>1. OnItsWay(g, now)
    BY <1>1, ClockTypes DEF OnItsWay, ClockInv
  <2>2. Payload(f) \in PayloadType
    BY <1>2, <1>4 DEF Payload, PayloadType
  <2> QED
    BY <1>2, <1>3, <1>4, <2>1, <2>2

-----------------------------------------------------------------------------
LEMMA MediaStarts == MediaInit => MediaInv
<1> SUFFICES ASSUME MediaInit
             PROVE  MediaInv
  OBVIOUS
<1>1. script \in Seq(GroupType)
  BY ScriptAssumption DEF MediaInit
<1>2. ClockInv
  BY <1>1 DEF MediaInit, ClockInv
<1>3. PendingInv /\ SettledInv
  BY DEF MediaInit, PendingInv, SettledInv, Nothing
<1>4. UnitsInv /\ StartsWithKey
  BY DEF MediaInit, UnitsInv, StartsWithKey
<1>5. HeldInv
  BY DEF MediaInit, HeldInv, NoUnit
<1>6. PlayerInv
  <2>1. pushed \in Seq(Nat)
    BY DEF MediaInit
  <2> QED
    BY <2>1, Zenon DEF MediaInit, PlayerInv
<1> QED
  BY <1>2, <1>3, <1>4, <1>5, <1>6 DEF MediaInv

\* What the clock and the camera leave as it is.
LEMMA TimeGoesOn ==
  ASSUME MediaInv, SendGroup \/ Tick
  PROVE  MediaInv'
<1>1. /\ UNCHANGED <<script, pending, settled, held, out, sps, pps, ready, pushed>>
      /\ now' \in Nat /\ now <= now'
      /\ Len(sentAt) <= Len(sentAt') /\ Len(sentAt) \in Nat /\ Len(sentAt') \in Nat
      /\ \A g \in 1..Len(sentAt) : sentAt'[g] = sentAt[g] /\ sentAt[g] \in Nat
  <2>1. ClockInv
    BY DEF MediaInv
  <2>2. sentAt \in Seq(Nat) /\ Len(sentAt) \in Nat /\ now \in Nat
        /\ \A g \in 1..Len(sentAt) : sentAt[g] \in Nat
    BY <2>1, ClockTypes
  <2> QED
    BY <2>2 DEF SendGroup, Tick, asm, player
<1>2. ClockInv'
  <2>1. CASE Tick
    BY <2>1, <1>1 DEF MediaInv, ClockInv, Tick
  <2>2. CASE SendGroup
    <3>1. sentAt' \in Seq(Nat) /\ Len(sentAt') = Len(sentAt) + 1 /\ sentAt'[Len(sentAt')] = now /\ now' = now /\ script' = script
      BY <2>2 DEF MediaInv, ClockInv, SendGroup
    <3>2. \A g \in 1..Len(sentAt) : sentAt[g] < now
      <4> TAKE g \in 1..Len(sentAt)
      <4>1. sentAt[g] # now
        BY <2>2 DEF SendGroup, Range, MediaInv, ClockInv
      <4> QED
        BY <4>1 DEF MediaInv, ClockInv
    <3>3. \A g \in 1..Len(sentAt) : sentAt[g] + (Len(sentAt') - g) <= now
      <4> TAKE g \in 1..Len(sentAt)
      <4>1. Len(sentAt) \in 1..Len(sentAt) /\ g <= Len(sentAt)
        BY <1>1
      <4>2. sentAt[g] + (Len(sentAt) - g) <= sentAt[Len(sentAt)]
        BY <4>1 DEF MediaInv, ClockInv
      <4>3. sentAt[Len(sentAt)] < now
        BY <3>2, <4>1
      <4> QED
        <5>1. sentAt[Len(sentAt)] \in Nat /\ sentAt[g] \in Nat /\ now \in Nat /\ g \in Nat
          BY <4>1, <1>1, ClockTypes DEF MediaInv
        <5> QED
          BY <5>1, <4>1, <4>2, <4>3, <3>1, <1>1
    <3>4. ASSUME NEW g \in 1..Len(sentAt'), NEW h \in 1..Len(sentAt'), g <= h
          PROVE  sentAt'[g] + (h - g) <= sentAt'[h]
      <4>1. CASE h \in 1..Len(sentAt)
        <5>1. g \in 1..Len(sentAt)
          BY <3>4, <4>1, <1>1
        <5> QED
          BY <3>4, <4>1, <5>1, <1>1 DEF MediaInv, ClockInv
      <4>2. CASE h = Len(sentAt') /\ g \in 1..Len(sentAt)
        BY <4>2, <3>1, <3>3, <1>1
      <4>3. CASE h = Len(sentAt') /\ g = Len(sentAt')
        BY <4>3, <3>1 DEF MediaInv, ClockInv
      <4> QED
        BY <4>1, <4>2, <4>3, <3>1, <1>1
    <3>5. \A g \in 1..Len(sentAt') : sentAt'[g] <= now'
      BY <3>1, <3>2, <1>1 DEF MediaInv, ClockInv
    <3> QED
      <4>1. Len(sentAt') <= Len(script)
        BY <3>1, <2>2, <1>1 DEF MediaInv, ClockInv, SendGroup
      <4> QED
        BY <3>1, <3>4, <3>5, <4>1, <1>1 DEF MediaInv, ClockInv
  <2> QED
    BY <2>1, <2>2
<1>3. \A g, t : OnItsWay(g, t) => OnItsWay(g, t)'
  BY <1>1 DEF OnItsWay
<1>4. PendingInv'
  <2> SUFFICES ASSUME NEW k \in DOMAIN pending
               PROVE  /\ pending[k] \in ItemType
                      /\ pending[k].time <= now'
                      /\ \E g \in 1..Len(sentAt') : ItemOf(k, g)'
    BY <1>1 DEF PendingInv
  <2>1. PICK g \in 1..Len(sentAt) : ItemOf(k, g)
    BY DEF MediaInv, PendingInv
  <2>2. ItemOf(k, g)'
    BY <1>1, <1>3, <2>1 DEF ItemOf, Id
  <2>3. pending[k] \in ItemType /\ pending[k].time \in Nat /\ pending[k].time <= now /\ now \in Nat
    BY DEF MediaInv, PendingInv, ItemType, ClockInv
  <2> QED
    BY <1>1, <2>2, <2>3
<1>5. SettledInv'
  <2> SUFFICES ASSUME NEW k \in DOMAIN settled
               PROVE  /\ settled[k] \in [time : Nat, group : Nat]
                      /\ settled[k].time <= now'
                      /\ OnItsWay(settled[k].group, settled[k].time)'
                      /\ Id(settled[k].group) = k
    BY <1>1 DEF SettledInv, OnItsWay, Id
  <2> QED
    BY <1>1, <1>3 DEF MediaInv, SettledInv, ClockInv
<1>6. \A g \in 1..Len(sentAt) : Closed(g) => Closed(g)'
  <2> SUFFICES ASSUME NEW g \in 1..Len(sentAt), Closed(g)
               PROVE  Closed(g)'
    OBVIOUS
  <2>1. /\ sentAt'[g] = sentAt[g] /\ sentAt[g] \in Nat /\ settled' = settled
        /\ now \in Nat /\ now' \in Nat /\ now <= now'
    BY <1>1 DEF MediaInv, ClockInv
  <2>2. CASE now - sentAt[g] > MaxDelay
    BY <2>1, <2>2, MediaTimes DEF Closed
  <2>3. CASE Id(g) \in DOMAIN settled /\ settled[Id(g)].group = g
    BY <2>1, <2>3 DEF Closed, Id
  <2> QED
    BY <2>2, <2>3 DEF Closed
<1>7. \A g, unit : Heads(g, unit) => Heads(g, unit)'
  BY <1>1 DEF Heads
<1>8. UnitsInv' /\ HeldInv'
  <2>1. UnitsInv'
    <3>1. UnitsInv /\ out' = out
      BY <1>1 DEF MediaInv
    <3>2. \A g \in 1..Len(sentAt) : g \in 1..Len(sentAt')
      BY <1>1
    <3>3. ASSUME NEW k \in 1..Len(out)
          PROVE  \E g \in 1..Len(sentAt') : Heads(g, out[k].unit)' /\ Closed(g)'
      <4>1. PICK g \in 1..Len(sentAt) : Heads(g, out[k].unit) /\ Closed(g)
        BY <3>1 DEF UnitsInv
      <4>2. Heads(g, out[k].unit)'
        BY <4>1, <1>1 DEF Heads
      <4> QED
        BY <4>1, <4>2, <1>6, <3>2
    <3> QED
      BY <3>1, <3>3 DEF UnitsInv
  <2>2. HeldInv'
    BY <1>1, <1>6, <1>7 DEF MediaInv, HeldInv
  <2> QED
    BY <2>1, <2>2
<1>9. PlayerInv' /\ StartsWithKey'
  <2>1. \A unit : NalsOf(unit)' = NalsOf(unit)
    BY <1>1 DEF NalsOf
  <2>2. PlayerInv /\ StartsWithKey
    BY DEF MediaInv
  <2>3. PlayerInv'
    BY <1>1, <2>1, <2>2 DEF PlayerInv
  <2> QED
    BY <1>1, <2>1, <2>2, <2>3 DEF StartsWithKey
<1> QED
  BY <1>2, <1>4, <1>5, <1>8, <1>9 DEF MediaInv

-----------------------------------------------------------------------------
(* What feed keeps and forgets.                                             *)

Fed == UNCHANGED <<script, sentAt, now>>

LEMMA Forgetting ==
  ASSUME MediaInv
  PROVE  /\ DOMAIN Waiting \subseteq DOMAIN pending
         /\ \A k \in DOMAIN Waiting : Waiting[k] = pending[k] /\ now - pending[k].time <= Expire
         /\ DOMAIN Done = {k \in DOMAIN settled : now - settled[k].time < Keep}
         /\ \A k \in DOMAIN Done : Done[k] = settled[k]
  BY DEF Waiting, Done, Restrict

\* What is pending under a fragment's frame id is of the fragment's group.
LEMMA ItemIsOfOneGroup ==
  ASSUME MediaInv, NEW f \in Arriving
  PROVE  /\ Item(f) \in ItemType
         /\ Item(f).time <= now
         /\ OnItsWay(f.group, Item(f).time)
         /\ \A i \in DOMAIN Item(f).parts : /\ i \in 1..Item(f).count
                                        /\ i <= Len(script[f.group].sizes)
                                           /\ i <= Len(script[f.group].sizes)
                                           /\ Item(f).parts[i].group = f.group
                                           /\ Item(f).parts[i].index = i
<1>0. ClockInv
  BY DEF MediaInv
<1>1. /\ OnItsWay(f.group, now) /\ f.count \in Nat /\ now \in Nat /\ f.group \in Nat
  BY <1>0, Incoming, ClockTypes
<1>2. CASE Id(f.group) \notin DOMAIN Waiting
  <2>1. Item(f) = [time |-> now, count |-> f.count, parts |-> Nothing]
    BY <1>2 DEF Item
  <2>2. Nothing \in Places /\ DOMAIN Nothing = {}
    <3>1. Nothing \in [{} -> PayloadType] /\ {} \in SUBSET Nat
      BY DEF Nothing
    <3> QED
      BY <3>1 DEF Nothing, Places
  <2> QED
    BY <2>1, <2>2, <1>1 DEF ItemType
<1>3. CASE Id(f.group) \in DOMAIN Waiting
  <2> DEFINE k == Id(f.group)
  <2>1. /\ k \in DOMAIN pending /\ Item(f) = pending[k] /\ now - pending[k].time <= Expire
    BY <1>3, Forgetting DEF Item
  <2>2. pending[k] \in ItemType /\ pending[k].time \in Nat /\ pending[k].time <= now
    BY <2>1 DEF MediaInv, PendingInv, ItemType
  <2>3. PICK g \in 1..Len(sentAt) : ItemOf(k, g)
    BY <2>1 DEF MediaInv, PendingInv
  <2>4. g = f.group
    <3>1. OnItsWay(g, pending[k].time) /\ Id(g) = Id(f.group)
      BY <2>3 DEF ItemOf
    <3>2. now - pending[k].time < Keep
      BY <2>1, <2>2, <1>1, MediaTimes
    <3> QED
      BY <3>1, <3>2, <2>2, <1>0, <1>1, OneOnItsWay
  <2> QED
    BY <2>1, <2>2, <2>3, <2>4 DEF ItemOf
<1> QED
  BY <1>2, <1>3

\* Of a frame id that is done with only copies come in.
LEMMA DoneIsOfOneGroup ==
  ASSUME MediaInv, NEW f \in Arriving, Id(f.group) \in DOMAIN Done
  PROVE  Done[Id(f.group)].group = f.group
<1> DEFINE k == Id(f.group)
<1>1. k \in DOMAIN settled /\ Done[k] = settled[k] /\ now - settled[k].time < Keep
  BY Forgetting
<1>2. /\ settled[k].time \in Nat /\ settled[k].time <= now /\ Id(settled[k].group) = k
      /\ OnItsWay(settled[k].group, settled[k].time)
  BY <1>1 DEF MediaInv, SettledInv
<1>3. ClockInv /\ now \in Nat /\ OnItsWay(f.group, now)
  BY Incoming, ClockTypes DEF MediaInv
<1> QED
  BY <1>1, <1>2, <1>3, OneOnItsWay

\* A group that comes in and whose frame id is not done with is not closed.
LEMMA StillOpen ==
  ASSUME MediaInv, NEW f \in Arriving, Id(f.group) \notin DOMAIN Done
  PROVE  ~Closed(f.group)
<1> DEFINE k == Id(f.group)
<1>1. /\ OnItsWay(f.group, now) /\ now \in Nat /\ sentAt[f.group] \in Nat
  BY Incoming, ClockTypes DEF MediaInv, OnItsWay
<1>2. ASSUME k \in DOMAIN settled, settled[k].group = f.group
      PROVE  FALSE
  <2>1. settled[k].time \in Nat /\ OnItsWay(f.group, settled[k].time)
    BY <1>2 DEF MediaInv, SettledInv
  <2>2. now - settled[k].time >= Keep
    BY <1>1, <1>2, <2>1, Forgetting, MediaTimes
  <2> QED
    BY <1>1, <2>1, <2>2, MediaTimes DEF OnItsWay
<1> QED
  BY <1>1, <1>2, MediaTimes DEF Closed, OnItsWay

\* Settled frame ids are forgotten late enough.
LEMMA ClosedForGood ==
  ASSUME MediaInv, Fed, NEW f \in Arriving,
         settled' = Done \/ (Id(f.group) \notin DOMAIN Done /\ Finish(f))
  PROVE  /\ SettledInv'
         /\ \A g \in 1..Len(sentAt) : Closed(g) => Closed(g)'
         /\ Finish(f) => Closed(f.group)'
<1> DEFINE k == Id(f.group)
           new == [time |-> now, group |-> f.group]
<1>1. /\ OnItsWay(f.group, now) /\ now \in Nat /\ f.group \in Nat /\ Len(sentAt) \in Nat
      /\ \A g \in 1..Len(sentAt) : sentAt[g] \in Nat
  BY Incoming, ClockTypes DEF MediaInv
<1>2. \A g, t : OnItsWay(g, t)' = OnItsWay(g, t)
  BY DEF OnItsWay, Fed
<1>3. \A j \in DOMAIN settled' :
         \/ j \in DOMAIN Done /\ settled'[j] = settled[j]
         \/ j = k /\ settled'[j] = new
  BY Forgetting DEF Finish, With
<1>4. Finish(f) => k \in DOMAIN settled' /\ settled'[k] = new
  BY DEF Finish, With
<1>5. DOMAIN Done \subseteq DOMAIN settled
  BY Forgetting
<1>6. SettledInv'
  <2> SUFFICES ASSUME NEW j \in DOMAIN settled'
               PROVE  /\ settled'[j] \in [time : Nat, group : Nat]
                      /\ settled'[j].time <= now
                      /\ OnItsWay(settled'[j].group, settled'[j].time)
                      /\ Id(settled'[j].group) = j
    BY <1>2 DEF SettledInv, Fed, Id
  <2>1. CASE j \in DOMAIN Done /\ settled'[j] = settled[j]
    BY <2>1, <1>5 DEF MediaInv, SettledInv
  <2>2. CASE j = k /\ settled'[j] = new
    BY <2>2, <1>1
  <2> QED
    BY <1>3, <2>1, <2>2
<1>7. ASSUME NEW g \in 1..Len(sentAt), Closed(g)
      PROVE  Closed(g)'
  <2>1. CASE now - sentAt[g] > MaxDelay
    BY <2>1 DEF Closed, Fed
  <2>2. CASE Id(g) \in DOMAIN settled /\ settled[Id(g)].group = g
    <3>1. settled[Id(g)].time \in Nat /\ OnItsWay(g, settled[Id(g)].time)
      BY <2>2 DEF MediaInv, SettledInv
    <3>2. CASE Id(g) \notin DOMAIN Done
      <4>1. now - settled[Id(g)].time >= Keep
        BY <2>2, <3>1, <3>2, <1>1, Forgetting, MediaTimes
      <4>2. now - sentAt[g] > MaxDelay
        BY <1>1, <3>1, <4>1, MediaTimes DEF OnItsWay
      <4> QED
        BY <4>2 DEF Closed, Fed
    <3>3. CASE Id(g) \in DOMAIN Done
      <4>1. Id(g) \in DOMAIN settled' /\ settled'[Id(g)] = settled[Id(g)]
        BY <3>3, Forgetting DEF Finish, With
      <4> QED
        BY <4>1, <2>2 DEF Closed, Fed, Id
    <3> QED
      BY <3>2, <3>3
  <2> QED
    BY <1>7, <2>1, <2>2 DEF Closed
<1>8. Finish(f) => Closed(f.group)'
  BY <1>4 DEF Closed, Fed, Id
<1> QED
  BY <1>6, <1>7, <1>8

\* Dropping frame ids leaves the others as they were.
LEMMA Dropping ==
  ASSUME MediaInv, Fed, NEW S, S \subseteq DOMAIN Waiting, pending' = Restrict(Waiting, S)
  PROVE  PendingInv'
<1>1. DOMAIN pending' = S /\ \A k \in S : k \in DOMAIN pending /\ pending'[k] = pending[k]
  BY Forgetting DEF Restrict
<1>2. \A g, t : OnItsWay(g, t)' = OnItsWay(g, t)
  BY DEF OnItsWay, Fed
<1> SUFFICES ASSUME NEW k \in S
             PROVE  /\ pending'[k] \in ItemType
                    /\ pending'[k].time <= now'
                    /\ \E g \in 1..Len(sentAt') : ItemOf(k, g)'
  BY <1>1 DEF PendingInv
<1>3. PICK g \in 1..Len(sentAt) : ItemOf(k, g)
  BY <1>1 DEF MediaInv, PendingInv
<1>4. ItemOf(k, g)'
  BY <1>1, <1>2, <1>3 DEF ItemOf, Fed, Id
<1> QED
  BY <1>1, <1>4 DEF MediaInv, PendingInv, Fed

LEMMA Taking ==
  ASSUME MediaInv, Fed, NEW f \in Arriving, FeedPart(f)
  PROVE  PendingInv'
<1> DEFINE k == Id(f.group)
           new == [Item(f) EXCEPT !.parts = With(@, f.index, Payload(f))]
<1>1. /\ DOMAIN pending' = DOMAIN Waiting \cup {k}
      /\ \A j \in DOMAIN Waiting : j # k => j \in DOMAIN pending /\ pending'[j] = pending[j]
      /\ pending'[k] = new
  BY Forgetting DEF FeedPart, With
<1>2. \A g, t : OnItsWay(g, t)' = OnItsWay(g, t)
  BY DEF OnItsWay, Fed
<1>3. /\ f.index \in Nat /\ f.index >= 1 /\ f.index <= f.count /\ f.count \in Nat
      /\ f.index <= Len(script[f.group].sizes)
      /\ Payload(f) \in PayloadType
      /\ Payload(f).group = f.group /\ Payload(f).index = f.index
  BY Incoming DEF MediaInv, Payload
<1>4. Item(f).count = f.count
  BY DEF FeedPart, Clash
<1>5. /\ Item(f) \in ItemType /\ Item(f).time <= now /\ OnItsWay(f.group, Item(f).time)
      /\ \A i \in DOMAIN Item(f).parts : /\ i \in 1..Item(f).count
                                        /\ i <= Len(script[f.group].sizes)
                                        /\ Item(f).parts[i].group = f.group
                                        /\ Item(f).parts[i].index = i
  BY ItemIsOfOneGroup
<1>6. new \in ItemType /\ new.time = Item(f).time /\ new.count = Item(f).count
      /\ new.parts = With(Item(f).parts, f.index, Payload(f))
  <2>1. With(Item(f).parts, f.index, Payload(f)) \in Places
    <3>1. PICK D \in SUBSET Nat : Item(f).parts \in [D -> PayloadType]
      BY <1>5 DEF ItemType, Places
    <3>2. With(Item(f).parts, f.index, Payload(f))
            \in [D \cup {f.index} -> PayloadType]
      BY <3>1, <1>3 DEF With
    <3>3. D \cup {f.index} \in SUBSET Nat
      BY <3>1, <1>3
    <3> QED
      BY <3>2, <3>3 DEF Places
  <2> QED
    BY <2>1, <1>5 DEF ItemType
<1>7. \A i \in DOMAIN new.parts : /\ i \in 1..new.count
                                 /\ i <= Len(script[f.group].sizes)
                                 /\ new.parts[i].group = f.group
                                 /\ new.parts[i].index = i
  BY <1>3, <1>4, <1>5, <1>6 DEF With
<1> HIDE DEF new, k
<1>8. f.group \in 1..Len(sentAt)
  BY <1>5 DEF OnItsWay
<1>9. ItemOf(k, f.group)'
  <2>1. OnItsWay(f.group, pending[k].time)'
    BY <1>1, <1>5, <1>6 DEF OnItsWay, Fed
  <2>2. \A i \in DOMAIN pending'[k].parts : /\ i \in 1..pending'[k].count
                                           /\ i <= Len(script'[f.group].sizes)
                                           /\ pending'[k].parts[i].group = f.group
                                           /\ pending'[k].parts[i].index = i
    BY <1>1, <1>7 DEF Fed
  <2> QED
    BY <2>1, <2>2 DEF ItemOf, Id, k
<1>10. ASSUME NEW j \in DOMAIN pending'
       PROVE  /\ pending'[j] \in ItemType
              /\ pending'[j].time <= now'
              /\ \E g \in 1..Len(sentAt') : ItemOf(j, g)'
  <2>1. CASE j = k
    <3>1. pending'[k] \in ItemType /\ pending'[k].time <= now
      BY <1>1, <1>5, <1>6
    <3>2. f.group \in 1..Len(sentAt') /\ now' = now
      BY <1>8 DEF Fed
    <3> QED
      BY <2>1, <3>1, <3>2, <1>9
  <2>2. CASE j # k
    <3>1. j \in DOMAIN pending /\ pending'[j] = pending[j]
      BY <2>2, <1>1
    <3>2. PICK g \in 1..Len(sentAt) : ItemOf(j, g)
      BY <3>1 DEF MediaInv, PendingInv
    <3>3. ItemOf(j, g)'
      BY <1>2, <3>1, <3>2 DEF ItemOf, Fed, Id
    <3> QED
      BY <3>1, <3>3 DEF MediaInv, PendingInv, Fed
  <2> QED
    BY <2>1, <2>2
<1> QED
  BY <1>10 DEF PendingInv

-----------------------------------------------------------------------------
(* A group that is complete.                                                *)

\* Its parts are those of one group, each in its place.
LEMMA RawIsOneGroup ==
  ASSUME MediaInv, NEW f \in Arriving, Ready(f)
  PROVE  /\ Raw(f) \in Seq(PayloadType)
         /\ Len(Raw(f)) = f.count /\ f.count \in Nat /\ f.count >= 1
         /\ f.count = Len(script[f.group].sizes)
         /\ \A i \in 1..f.count : Raw(f)[i].group = f.group /\ Raw(f)[i].index = i
<1> DEFINE have == DOMAIN Item(f).parts
<1>1. Item(f).count = f.count
  BY DEF Ready, Clash
<1>2. /\ f.index \in Nat /\ f.index >= 1 /\ f.index <= f.count /\ f.count \in Nat
      /\ Payload(f) \in PayloadType /\ Payload(f).group = f.group /\ Payload(f).index = f.index
  BY Incoming DEF MediaInv, Payload
<1>3. \A i \in have : /\ i \in 1..f.count
                      /\ Item(f).parts[i] \in PayloadType
                      /\ Item(f).parts[i].group = f.group
                      /\ Item(f).parts[i].index = i
  <2>1. Item(f).parts \in Places
    BY ItemIsOfOneGroup DEF ItemType
  <2>2. \A i \in have : Item(f).parts[i] \in PayloadType
    BY <2>1 DEF Places
  <2> QED
    BY <2>2, <1>1, ItemIsOfOneGroup
<1>4. have \cup {f.index} = 1..f.count
  <2>1. have \cup {f.index} \in SUBSET (1..f.count)
    BY <1>2, <1>3
  <2>2. IsFiniteSet(1..f.count) /\ Cardinality(1..f.count) = f.count
    BY <1>2, FS_Interval
  <2>3. Cardinality(have \cup {f.index}) = f.count
    BY <1>1 DEF Ready, Completed
  <2> HIDE DEF have
  <2> QED
    BY <2>1, <2>2, <2>3, FS_Subset
<1>5. Raw(f) = [i \in 1..f.count |-> IF i = f.index THEN Payload(f) ELSE Item(f).parts[i]]
  BY <1>1 DEF Raw
<1>6. \A i \in 1..f.count : /\ Raw(f)[i] \in PayloadType
                            /\ Raw(f)[i].group = f.group /\ Raw(f)[i].index = i
  <2> TAKE i \in 1..f.count
  <2>1. CASE i = f.index
    BY <2>1, <1>2, <1>5
  <2>2. CASE i # f.index
    BY <2>2, <1>3, <1>4, <1>5
  <2> QED
    BY <2>1, <2>2
<1>7. Raw(f) \in [1..f.count -> PayloadType]
  BY <1>5, <1>6
<1>8. f.count = Len(script[f.group].sizes)
  <2>1. Len(script[f.group].sizes) \in Nat /\ Len(script[f.group].sizes) <= f.count
        /\ f.index <= Len(script[f.group].sizes)
    BY Incoming DEF MediaInv
  <2>2. \A i \in have : i <= Len(script[f.group].sizes)
    BY ItemIsOfOneGroup
  <2>3. f.count \in have \cup {f.index}
    BY <1>2, <1>4
  <2> QED
    BY <1>2, <2>1, <2>2, <2>3
<1> QED
  BY <1>2, <1>6, <1>7, <1>8

-----------------------------------------------------------------------------
(* What goes out.                                                           *)

\* The player, given another unit.
LEMMA Pushing ==
  ASSUME PlayerInv, StartsWithKey, UNCHANGED script, NEW unit \in Nat, Push(unit)
  PROVE  PlayerInv' /\ StartsWithKey'
<1> DEFINE nals == NalsOf(unit)
           goes == ready' \/ nals \cap {"sps", "pps"} # {}
           last == Len(pushed) + 1
<1>1. \A u : NalsOf(u)' = NalsOf(u)
  BY DEF NalsOf
<1>2. pushed \in Seq(Nat)
  BY DEF PlayerInv
<1>3. goes => /\ pushed' \in Seq(Nat) /\ Len(pushed') = last /\ pushed'[last] = unit
              /\ \A j \in 1..Len(pushed) : pushed'[j] = pushed[j]
              /\ last \in 1..Len(pushed') /\ Len(pushed) \in Nat
  BY <1>2 DEF Push
<1>4. ~goes => pushed' = pushed
  BY DEF Push
<1>5. \A nal : (\E j \in 1..Len(pushed) : nal \in NalsOf(pushed[j]))
                => \E j \in 1..Len(pushed') : nal \in NalsOf(pushed'[j])
  BY <1>2, <1>3, <1>4
<1>6. \A nal : goes /\ nal \in nals => \E j \in 1..Len(pushed') : nal \in NalsOf(pushed'[j])
  BY <1>3
<1>7. PlayerInv'
  <2>1. pushed' \in Seq(Nat)
    BY <1>2, <1>3, <1>4
  <2>2. {sps', pps', ready'} \subseteq BOOLEAN
    BY Zenon DEF Push, PlayerInv
  <2>3. sps' => \E j \in 1..Len(pushed') : "sps" \in NalsOf(pushed'[j])
    <3>1. sps' => sps \/ (goes /\ "sps" \in nals)
      BY DEF Push
    <3> QED
      BY <3>1, <1>5, <1>6 DEF PlayerInv
  <2>4. pps' => \E j \in 1..Len(pushed') : "pps" \in NalsOf(pushed'[j])
    <3>1. pps' => pps \/ (goes /\ "pps" \in nals)
      BY DEF Push
    <3> QED
      BY <3>1, <1>5, <1>6 DEF PlayerInv
  <2>5. ready' => sps' /\ pps' /\ \E j \in 1..Len(pushed') : "key" \in NalsOf(pushed'[j])
    <3>1. ready' => ready \/ (goes /\ "key" \in nals /\ sps' /\ pps')
      BY DEF Push
    <3>2. ready => sps' /\ pps' /\ \E j \in 1..Len(pushed) : "key" \in NalsOf(pushed[j])
      BY Zenon DEF PlayerInv, Push
    <3>3. ready => \E j \in 1..Len(pushed') : "key" \in NalsOf(pushed'[j])
      BY <3>2, <1>5
    <3>4. goes /\ "key" \in nals => \E j \in 1..Len(pushed') : "key" \in NalsOf(pushed'[j])
      BY <1>6
    <3> HIDE DEF goes, nals
    <3> QED
      BY <3>1, <3>2, <3>3, <3>4
  <2> QED
    BY <1>1, <2>1, <2>2, <2>3, <2>4, <2>5 DEF PlayerInv
<1>8. StartsWithKey'
  <2> SUFFICES ASSUME goes, NEW k \in 1..Len(pushed')
               PROVE  \/ NalsOf(pushed'[k]) \cap {"sps", "pps"} # {}
                      \/ /\ \E j \in 1..k : "key" \in NalsOf(pushed'[j])
                         /\ \E j \in 1..k : "sps" \in NalsOf(pushed'[j])
                         /\ \E j \in 1..k : "pps" \in NalsOf(pushed'[j])
    BY <1>1, <1>4 DEF StartsWithKey
  <2>1. CASE k \in 1..Len(pushed)
    <3>1. \A j \in 1..k : j \in 1..Len(pushed) /\ pushed'[j] = pushed[j]
      BY <2>1, <1>2, <1>3
    <3> QED
      BY <2>1, <3>1, <1>3 DEF StartsWithKey
  <2>2. CASE k = last /\ ready'
    <3>1. /\ \E j \in 1..Len(pushed') : "sps" \in NalsOf(pushed'[j])
          /\ \E j \in 1..Len(pushed') : "pps" \in NalsOf(pushed'[j])
          /\ \E j \in 1..Len(pushed') : "key" \in NalsOf(pushed'[j])
      BY <2>2, <1>1, <1>7 DEF PlayerInv
    <3> QED
      BY <2>2, <3>1, <1>3
  <2>3. CASE k = last /\ ~ready'
    BY <2>3, <1>3
  <2> QED
    BY <2>1, <2>2, <2>3, <1>2, <1>3
<1> QED
  BY <1>7, <1>8

\* A unit that has not gone out goes out.
LEMMA Emitting ==
  ASSUME MediaInv, Fed, NEW unit \in Nat, NEW raw \in Seq(PayloadType), Emit(unit, raw),
         \A g \in 1..Len(sentAt) : Closed(g) => Closed(g)',
         NEW g \in 1..Len(sentAt), Heads(g, unit), Closed(g)'
  PROVE  UnitsInv' /\ PlayerInv' /\ StartsWithKey'
<1>1. PlayerInv' /\ StartsWithKey'
  BY Pushing DEF MediaInv, Emit, Fed
<1>2. \A h, u : Heads(h, u)' = Heads(h, u)
  BY DEF Heads, Fed
<1>3. UnitsInv
  BY DEF MediaInv
<1>4. /\ out' \in Seq([unit : Nat, raw : Seq(PayloadType)])
      /\ Len(out') = Len(out) + 1 /\ Len(out) \in Nat
      /\ \A k \in 1..Len(out) : out'[k] = out[k]
      /\ out'[Len(out')] = [unit |-> unit, raw |-> raw]
  BY <1>3 DEF Emit, UnitsInv
<1>5. ASSUME NEW k \in 1..Len(out')
      PROVE  \E h \in 1..Len(sentAt) : Heads(h, out'[k].unit) /\ Closed(h)'
  <2>1. CASE k \in 1..Len(out)
    BY <2>1, <1>3, <1>4 DEF UnitsInv
  <2>2. CASE k = Len(out')
    BY <2>2, <1>4
  <2> QED
    BY <2>1, <2>2, <1>4
<1>6. UnitsInv'
  BY <1>2, <1>4, <1>5 DEF UnitsInv, Fed
<1> QED
  BY <1>1, <1>6

\* A unit is known by its header: the group with it has not come in before.
LEMMA HeadsOnce ==
  ASSUME ClockInv, NEW g, NEW h, NEW unit, Heads(g, unit), Heads(h, unit)
  PROVE  g = h
<1>1. g \in 1..Len(script) /\ h \in 1..Len(script) /\ script \in Scripts
  BY ClockTypes DEF ClockInv, Heads
<1> QED
  <2>1. \A k \in Groups(script, script[h].unit) : script[k].length > 0 => k = h
    BY <1>1, ScriptAssumption DEF Heads
  <2>2. g \in Groups(script, script[h].unit)
    BY <1>1 DEF Groups, Heads
  <2> QED
    BY <2>1, <2>2 DEF Heads

-----------------------------------------------------------------------------
(* The steps of feed.                                                       *)

LEMMA LateOrTaken ==
  ASSUME MediaInv, Fed, NEW f \in Arriving, FeedLate(f) \/ FeedConflict(f) \/ FeedPart(f)
  PROVE  /\ MediaInv'
         /\ UNCHANGED <<out, sentAt, script>>
<1>1. /\ UNCHANGED <<out, sps, pps, ready, pushed>>
      /\ held' = held \/ held' = NoUnit
      /\ settled' = Done \/ (Id(f.group) \notin DOMAIN Done /\ Finish(f))
  BY DEF FeedLate, FeedConflict, FeedPart, Continued, player
<1>2. /\ SettledInv' /\ \A g \in 1..Len(sentAt) : Closed(g) => Closed(g)'
  BY <1>1, ClosedForGood
<1>3. PendingInv'
  <2>1. CASE FeedLate(f)
    <3>1. pending' = Restrict(Waiting, DOMAIN Waiting)
      BY <2>1 DEF FeedLate, Waiting, Restrict
    <3> QED
      BY <3>1, Dropping
  <2>2. CASE FeedConflict(f)
    BY <2>2, Dropping DEF FeedConflict, Finish
  <2>3. CASE FeedPart(f)
    BY <2>3, Taking
  <2> QED
    BY <2>1, <2>2, <2>3
<1>4. ClockInv'
  BY DEF MediaInv, ClockInv, Fed
<1>5. \A g, unit : Heads(g, unit)' = Heads(g, unit)
  BY DEF Heads, Fed
<1>6. UnitsInv'
  BY <1>1, <1>2, <1>5 DEF MediaInv, UnitsInv, Fed
<1>7. HeldInv'
  <2>1. NoUnit \in [unit : Nat, raw : Seq(PayloadType), length : Nat, next : Nat, time : Nat]
    BY DEF NoUnit
  <2> QED
    BY <1>1, <1>2, <1>5, <2>1 DEF MediaInv, HeldInv, Fed
<1>8. PlayerInv' /\ StartsWithKey'
  <2>1. \A unit : NalsOf(unit)' = NalsOf(unit)
    BY DEF NalsOf, Fed
  <2>2. PlayerInv /\ StartsWithKey
    BY DEF MediaInv
  <2>3. PlayerInv'
    BY <1>1, <2>1, <2>2 DEF PlayerInv
  <2> QED
    BY <1>1, <2>1, <2>2, <2>3 DEF StartsWithKey
<1> QED
  BY <1>1, <1>2, <1>3, <1>4, <1>6, <1>7, <1>8 DEF MediaInv, Fed

\* What a unit that goes out is: none that has gone out before.
FreshUnit(unit) == /\ unit \in {script[g].unit : g \in 1..Len(sentAt)}
                   /\ \A k \in 1..Len(out) : out[k].unit # unit
                   /\ \E raw : out' = Append(out, [unit |-> unit, raw |-> raw])

LEMMA Completing ==
  ASSUME MediaInv, Fed, NEW f \in Arriving, FeedContinuation(f) \/ FeedUnit(f)
  PROVE  /\ MediaInv'
         /\ UNCHANGED out \/ \E unit : FreshUnit(unit)
<1> DEFINE raw == Raw(f)
           g == f.group
           unit == script[g].unit
           HeldType == [unit : Nat, raw : Seq(PayloadType), length : Nat, next : Nat, time : Nat]
<1>1. Ready(f) /\ Id(g) \notin DOMAIN Done /\ Finish(f)
  BY DEF FeedContinuation, FeedUnit, Ready
<1>2. SettledInv' /\ (\A h \in 1..Len(sentAt) : Closed(h) => Closed(h)') /\ Closed(g)'
  BY <1>1, ClosedForGood
<1>3. PendingInv'
  BY <1>1, Dropping DEF Finish
<1>4. ClockInv' /\ ClockInv
  BY DEF MediaInv, ClockInv, Fed
<1>5. \A h, u : Heads(h, u)' = Heads(h, u)
  BY DEF Heads, Fed
<1>6. ~Closed(g) /\ g \in 1..Len(sentAt)
  BY <1>1, <1>4, StillOpen, Incoming DEF OnItsWay
<1>7. raw \in Seq(PayloadType) /\ raw[1].group = g
  BY <1>1, RawIsOneGroup
<1>8. unit \in Nat /\ script[g].length \in Nat /\ now \in Nat /\ (Id(g) + 1) % IdMod \in Nat
  <2>1. g \in 1..Len(script) /\ script[g] \in GroupType /\ now \in Nat /\ g \in Nat
    BY <1>4, <1>6, ClockTypes DEF ClockInv
  <2>2. Id(g) \in Nat
    BY <2>1, MediaTimes, SMT DEF Id
  <2>3. (Id(g) + 1) % IdMod \in Nat
    BY <2>2, MediaTimes, SMT
  <2> QED
    BY <2>1, <2>3 DEF GroupType
<1>9. NoUnit \in HeldType
  BY DEF NoUnit
<1>10. Continued = NoUnit \/ Continued = held
  BY DEF Continued
<1>11. ASSUME Headed(raw)
       PROVE  Heads(g, unit) /\ \A k \in 1..Len(out) : out[k].unit # unit
  <2>1. Heads(g, unit)
    BY <1>6, <1>7, <1>11 DEF Heads, Headed
  <2>2. \A h \in 1..Len(sentAt) : Heads(h, unit) => ~Closed(h)
    BY <1>4, <1>6, <2>1, HeadsOnce
  <2> QED
    BY <2>1, <2>2 DEF MediaInv, UnitsInv
<1>12. ASSUME Continued # NoUnit
       PROVE  /\ Continued = held /\ held \in HeldType
              /\ \E h \in 1..Len(sentAt) : Heads(h, held.unit) /\ Closed(h)
              /\ \A k \in 1..Len(out) : out[k].unit # held.unit
  BY <1>10, <1>12 DEF MediaInv, HeldInv
<1> HIDE DEF raw, unit
<1>13. CASE UNCHANGED <<out, player>> /\ (held' = NoUnit
            \/ (/\ held' \in HeldType
                /\ \E h \in 1..Len(sentAt) : Heads(h, held'.unit) /\ Closed(h)'
                /\ \A k \in 1..Len(out) : out[k].unit # held'.unit))
  <2>1. HeldInv'
    BY <1>5, <1>9, <1>13 DEF HeldInv, Fed
  <2>2. UnitsInv'
    BY <1>2, <1>5, <1>13 DEF MediaInv, UnitsInv, Fed
  <2>3. \A u : NalsOf(u)' = NalsOf(u)
    BY DEF NalsOf, Fed
  <2>4. PlayerInv /\ StartsWithKey /\ UNCHANGED <<sps, pps, ready, pushed>>
    BY <1>13 DEF MediaInv, player
  <2>5. PlayerInv'
    BY <2>3, <2>4 DEF PlayerInv
  <2>6. StartsWithKey'
    BY <2>3, <2>4 DEF StartsWithKey
  <2> QED
    BY <1>2, <1>3, <1>4, <1>13, <2>1, <2>2, <2>5, <2>6 DEF MediaInv
<1>14. ASSUME NEW u \in Nat, NEW w \in Seq(PayloadType), held' = NoUnit, Emit(u, w),
              NEW h \in 1..Len(sentAt), Heads(h, u), Closed(h)',
              \A k \in 1..Len(out) : out[k].unit # u
       PROVE  MediaInv' /\ \E v : FreshUnit(v)
  <2>1. UnitsInv' /\ PlayerInv' /\ StartsWithKey'
    BY <1>2, <1>14, Emitting
  <2>2. HeldInv'
    BY <1>9, <1>14 DEF HeldInv
  <2>3. FreshUnit(u)
    BY <1>14 DEF FreshUnit, Heads, Emit
  <2> QED
    BY <1>2, <1>3, <1>4, <2>1, <2>2, <2>3 DEF MediaInv
<1>15. CASE FeedContinuation(f)
  <2> DEFINE all == Continued.raw \o raw
  <2>1. Continued # NoUnit
    BY <1>15 DEF FeedContinuation, Expected
  <2>2. PICK h \in 1..Len(sentAt) : Heads(h, held.unit) /\ Closed(h)
    BY <2>1, <1>12
  <2>3. Closed(h)'
    BY <2>2, <1>2
  <2>4. all \in Seq(PayloadType) /\ held.unit \in Nat /\ held \in HeldType /\ Continued = held
    BY <1>7, <1>12, <2>1
  <2>5. \/ held' = NoUnit /\ Emit(held.unit, all)
        \/ /\ held' = [held EXCEPT !.raw = all, !.next = (Id(g) + 1) % IdMod]
           /\ UNCHANGED <<out, player>>
        \/ held' = NoUnit /\ UNCHANGED <<out, player>>
    BY <1>15, <2>4 DEF FeedContinuation, raw
  <2> HIDE DEF all
  <2>6. CASE held' = NoUnit /\ Emit(held.unit, all)
    BY <1>12, <1>14, <2>1, <2>2, <2>3, <2>4, <2>6
  <2>7. CASE /\ held' = [held EXCEPT !.raw = all, !.next = (Id(g) + 1) % IdMod]
             /\ UNCHANGED <<out, player>>
    <3>1. held' \in HeldType /\ held'.unit = held.unit
      BY <1>8, <2>4, <2>7
    <3> QED
      BY <1>12, <1>13, <2>1, <2>2, <2>3, <2>7, <3>1
  <2>8. CASE held' = NoUnit /\ UNCHANGED <<out, player>>
    BY <1>13, <2>8
  <2> QED
    BY <2>5, <2>6, <2>7, <2>8
<1>16. CASE FeedUnit(f)
  <2>1. \/ Headed(raw) /\ held' = NoUnit /\ Emit(unit, raw)
        \/ /\ Headed(raw)
           /\ held' = [unit |-> unit, raw |-> raw, length |-> script[g].length,
                       next |-> (Id(g) + 1) % IdMod, time |-> now]
           /\ UNCHANGED <<out, player>>
        \/ held' = NoUnit /\ UNCHANGED <<out, player>>
    BY <1>16, <1>7 DEF FeedUnit, raw, unit
  <2>2. CASE Headed(raw) /\ held' = NoUnit /\ Emit(unit, raw)
    BY <1>2, <1>6, <1>7, <1>8, <1>11, <1>14, <2>2
  <2>3. CASE /\ Headed(raw)
             /\ held' = [unit |-> unit, raw |-> raw, length |-> script[g].length,
                         next |-> (Id(g) + 1) % IdMod, time |-> now]
             /\ UNCHANGED <<out, player>>
    <3>1. held' \in HeldType /\ held'.unit = unit
      BY <1>7, <1>8, <2>3
    <3> QED
      BY <1>2, <1>6, <1>11, <1>13, <2>3, <3>1
  <2>4. CASE held' = NoUnit /\ UNCHANGED <<out, player>>
    BY <1>13, <2>4
  <2> QED
    BY <2>1, <2>2, <2>3, <2>4
<1> QED
  BY <1>15, <1>16

LEMMA MediaKept ==
  ASSUME MediaInv, [MediaNext]_mediaVars
  PROVE  MediaInv'
<1>1. CASE SendGroup \/ Tick
  BY <1>1, TimeGoesOn
<1>2. CASE \E f \in Arriving : Feed(f)
  <2>1. PICK f \in Arriving : Feed(f)
    BY <1>2
  <2>2. Fed
    BY <2>1 DEF Feed, Fed
  <2>3. CASE FeedLate(f) \/ FeedConflict(f) \/ FeedPart(f)
    BY <2>2, <2>3, LateOrTaken
  <2>4. CASE FeedContinuation(f) \/ FeedUnit(f)
    BY <2>2, <2>4, Completing
  <2> QED
    BY <2>1, <2>3, <2>4 DEF Feed
<1>3. CASE UNCHANGED <<script, sentAt, now, asm, out, player>>
  <2>1. UNCHANGED <<script, sentAt, now, pending, settled, held, out, sps, pps, ready, pushed>>
    BY <1>3 DEF asm, player
  <2>2. \A unit : NalsOf(unit)' = NalsOf(unit)
    BY <2>1 DEF NalsOf
  <2>3. ClockInv' /\ PendingInv' /\ SettledInv'
    <3>1. ClockInv'
      BY <2>1 DEF MediaInv, ClockInv
    <3>2. \A k, g : ItemOf(k, g)' = ItemOf(k, g)
      BY <2>1 DEF ItemOf, OnItsWay, Id
    <3>3. PendingInv'
      BY <2>1, <3>2 DEF MediaInv, PendingInv
    <3>4. SettledInv'
      BY <2>1 DEF MediaInv, SettledInv, OnItsWay, Id
    <3> QED
      BY <3>1, <3>3, <3>4
  <2>4. UnitsInv' /\ HeldInv'
    BY <2>1 DEF MediaInv, UnitsInv, HeldInv, Heads, Closed, Id
  <2>5. PlayerInv /\ StartsWithKey
    BY DEF MediaInv
  <2>6. PlayerInv'
    BY <2>1, <2>2, <2>5 DEF PlayerInv
  <2>7. StartsWithKey'
    BY <2>1, <2>2, <2>5 DEF StartsWithKey
  <2> QED
    BY <2>3, <2>4, <2>6, <2>7 DEF MediaInv
<1> QED
  BY <1>1, <1>2, <1>3 DEF MediaNext, MediaFails, mediaVars

THEOREM MediaInvariant == MediaSpec => []MediaInv
  BY MediaStarts, MediaKept, PTL DEF MediaSpec

\* The decoder sees no picture before the key picture whose parameter sets it
\* has got, whatever the camera sends and the network loses.
THEOREM DecoderStartsWithKey == MediaSpec => []StartsWithKey
<1>1. MediaInv => StartsWithKey
  BY DEF MediaInv
<1> QED
  BY <1>1, MediaInvariant, PTL

\* A frame id in use again is never taken for the frame that had it last.
THEOREM OnlyCopiesAreRefused == MediaSpec => []RefusesOnlyCopies
<1>1. MediaInv => RefusesOnlyCopies
  BY DoneIsOfOneGroup DEF RefusesOnlyCopies
<1> QED
  BY <1>1, MediaInvariant, PTL

\* An access unit of the camera goes out at most once, however its fragments
\* are doubled and delayed.
THEOREM UnitsGoOutOnce == MediaSpec => DeliversOnce
<1> DEFINE units == {script[g].unit : g \in 1..Len(sentAt)}
           delivered == [k \in 1..Len(out) |-> out[k].unit]
<1>1. MediaInit => Delivery!DeliveryInit
  BY DEF MediaInit, Delivery!DeliveryInit
<1>2. MediaInv /\ [MediaNext]_mediaVars
        => [Delivery!SendUnit \/ Delivery!Deliver]_<<units, delivered>>
  <2> SUFFICES ASSUME MediaInv, [MediaNext]_mediaVars
               PROVE  \/ units \subseteq units' /\ delivered' = delivered
                      \/ /\ units' = units
                         /\ \E unit \in units \ Range(delivered) : delivered' = Append(delivered, unit)
    BY Zenon DEF Delivery!SendUnit, Delivery!Deliver, Delivery!Range, Range
  <2>1. CASE UNCHANGED <<script, sentAt, out>>
    BY <2>1
  <2>2. CASE SendGroup \/ Tick
    <3>1. /\ UNCHANGED <<script, out>> /\ sentAt \in Seq(Nat)
          /\ sentAt' = sentAt \/ sentAt' = Append(sentAt, now)
      BY <2>2 DEF SendGroup, Tick, MediaInv, ClockInv
    <3>2. 1..Len(sentAt) \subseteq 1..Len(sentAt')
      BY <3>1
    <3> QED
      BY <3>1, <3>2
  <2>3. ASSUME NEW f \in Arriving, Feed(f)
        PROVE  \/ UNCHANGED <<script, sentAt, out>>
               \/ UNCHANGED <<script, sentAt>> /\ \E unit : FreshUnit(unit)
    <3>1. Fed
      BY <2>3 DEF Feed, Fed
    <3>2. CASE FeedLate(f) \/ FeedConflict(f) \/ FeedPart(f)
      BY <3>1, <3>2, LateOrTaken
    <3>3. CASE FeedContinuation(f) \/ FeedUnit(f)
      BY <3>1, <3>3, Completing DEF Fed
    <3> QED
      BY <2>3, <3>2, <3>3 DEF Feed
  <2>4. ASSUME UNCHANGED <<script, sentAt>>, NEW unit, FreshUnit(unit)
        PROVE  /\ units' = units /\ unit \in units \ Range(delivered)
               /\ delivered' = Append(delivered, unit)
    <3>1. PICK raw : out' = Append(out, [unit |-> unit, raw |-> raw])
      BY <2>4 DEF FreshUnit
    <3>2. /\ Len(out') = Len(out) + 1 /\ Len(out) \in Nat
          /\ \A k \in 1..Len(out) : out'[k] = out[k]
          /\ out'[Len(out) + 1].unit = unit
      BY <3>1 DEF MediaInv, UnitsInv
    <3>3. /\ Len(delivered) = Len(out)
          /\ \A k \in 1..Len(out) : delivered[k] = out[k].unit
          /\ DOMAIN delivered = 1..Len(out)
      BY <3>2
    <3>4. unit \notin Range(delivered)
      BY <2>4, <3>3 DEF Range, FreshUnit
    <3>5. delivered' = Append(delivered, unit)
      BY <3>2, <3>3
    <3> QED
      BY <2>4, <3>4, <3>5 DEF FreshUnit
  <2> QED
    BY <2>1, <2>2, <2>3, <2>4 DEF MediaNext, MediaFails, mediaVars
<1> QED
  BY <1>1, <1>2, MediaInvariant, PTL DEF MediaSpec, DeliversOnce, Delivery!DeliverySpec

-----------------------------------------------------------------------------
(* Sums.                                                                    *)

LEMMA LeastOf ==
  ASSUME NEW S, S \subseteq Nat, S # {}
  PROVE  \E m \in S : \A k \in S : m <= k
<1>1. PICK m \in S : \A k \in S : <<k, m>> \notin OpToRel(<, Nat)
  BY NatLessThanWellFounded, WFMin, Zenon
<1>2. \A k \in S : ~(k < m)
  BY <1>1 DEF OpToRel
<1> QED
  BY <1>2

LEMMA Predecessor ==
  ASSUME NEW n \in Nat, NEW m \in 0..n, m # 0
  PROVE  /\ m \in 1..n /\ m - 1 \in 0..n /\ ~(m <= m - 1)
         /\ \A k \in Nat : k + m \in 1..k + n /\ k + m - 1 = k + (m - 1)
         /\ \A k \in Nat : m \in 1..n + k
  OBVIOUS

SumsOf(a, n, s) == /\ s \in [0..n -> Nat]
                   /\ s[0] = 0
                   /\ \A i \in 1..n : s[i] = s[i - 1] + a[i]

LEMMA SumsExist ==
  ASSUME NEW a \in Seq(Nat), NEW n \in 0..Len(a)
  PROVE  \E s : SumsOf(a, n, s)
<1> DEFINE Bad == {m \in 0..Len(a) : ~ \E s : SumsOf(a, m, s)}
<1> SUFFICES ASSUME Bad # {}  PROVE FALSE
  OBVIOUS
<1>1. PICK m \in Bad : \A k \in Bad : m <= k
  <2>1. Bad \subseteq Nat
    OBVIOUS
  <2> QED
    BY <2>1, LeastOf
<1>2. m \in 0..Len(a) /\ m \in Nat /\ ~ \E s : SumsOf(a, m, s)
  OBVIOUS
<1> HIDE DEF SumsOf
<1>3. m # 0
  <2>1. SumsOf(a, 0, [i \in 0..0 |-> 0])
    BY DEF SumsOf
  <2> QED
    BY <1>2, <2>1
<1>4. m - 1 \in 0..Len(a) /\ ~(m <= m - 1)
  <2>1. Len(a) \in Nat
    OBVIOUS
  <2> QED
    BY <1>2, <1>3, <2>1, Predecessor, Zenon
<1>5. PICK s : SumsOf(a, m - 1, s)
  BY <1>1, <1>4, Zenon
<1>6. a[m] \in Nat
  BY <1>2, <1>3
<1> DEFINE new == [i \in 0..m |-> IF i = m THEN s[m - 1] + a[m] ELSE s[i]]
<1>7. SumsOf(a, m, new)
  <2>1. new \in [0..m -> Nat] /\ new[0] = 0
    BY <1>2, <1>3, <1>5, <1>6 DEF SumsOf
  <2>2. ASSUME NEW i \in 1..m
        PROVE  new[i] = new[i - 1] + a[i]
    <3>1. CASE i = m
      BY <3>1, <1>2, <1>3
    <3>2. CASE i # m
      BY <3>2, <1>2, <1>5 DEF SumsOf
    <3> QED
      BY <3>1, <3>2
  <2> HIDE DEF new
  <2> QED
    BY <2>1, <2>2 DEF SumsOf
<1> QED
  BY <1>2, <1>7

LEMMA SumsAre ==
  ASSUME NEW a \in Seq(Nat)
  PROVE  SumsOf(a, Len(a), Sums(a))
<1> DEFINE n == Len(a)
           Step(f) == [i \in 0..n |-> IF i = 0 THEN 0 ELSE f[i - 1] + a[i]]
<1>1. n \in Nat /\ n \in 0..n /\ \A i \in 1..n : a[i] \in Nat
  OBVIOUS
<1>2. PICK s : SumsOf(a, n, s)
  BY SumsExist, <1>1
<1>3. s = Step(s)
  BY <1>1, <1>2 DEF SumsOf
<1>4. Sums(a) = CHOOSE f : f = Step(f)
  BY DEF Sums
<1>5. Sums(a) = Step(Sums(a))
  BY <1>3, <1>4
<1> DEFINE t == Sums(a)
<1> HIDE DEF t, n
<1>6. \A i \in 0..n : t[i] = s[i]
  <2> DEFINE Bad == {i \in 0..n : t[i] # s[i]}
  <2> SUFFICES ASSUME Bad # {}  PROVE FALSE
    OBVIOUS
  <2>1. PICK m \in Bad : \A k \in Bad : m <= k
    <3>1. Bad \subseteq Nat
      OBVIOUS
    <3> QED
      BY <3>1, LeastOf
  <2>2. \A i \in 0..n : t[i] = IF i = 0 THEN 0 ELSE t[i - 1] + a[i]
    BY <1>5 DEF t
  <2>3. m # 0
    BY <2>2, <1>1, <1>2 DEF SumsOf
  <2>4. m - 1 \in 0..n /\ m \in 1..n /\ m - 1 \notin Bad
    BY <2>1, <2>3, <1>1
  <2> QED
    BY <2>2, <2>3, <2>4, <1>2 DEF SumsOf
<1>7. DOMAIN t = 0..n
  BY <1>5 DEF t
<1>8. t = s
  <2>1. t = [i \in 0..n |-> t[i]] /\ s = [i \in 0..n |-> s[i]]
    BY <1>2, <1>5 DEF SumsOf, t
  <2> QED
    BY <2>1, <1>6
<1> QED
  BY <1>2, <1>8 DEF t, n

LEMMA TotalIsNat ==
  ASSUME NEW a \in Seq(Nat)
  PROVE  Total(a) \in Nat
  BY SumsAre DEF SumsOf, Total

\* The sum over two sequences is that of the sums.
LEMMA TotalOfBoth ==
  ASSUME NEW a \in Seq(Nat), NEW b \in Seq(Nat)
  PROVE  Total(a \o b) = Total(a) + Total(b)
<1> DEFINE c == a \o b
           s == Sums(a)
           t == Sums(b)
           u == Sums(c)
<1>1. /\ c \in Seq(Nat) /\ Len(c) = Len(a) + Len(b) /\ Len(a) \in Nat /\ Len(b) \in Nat
      /\ \A i \in 1..Len(a) : c[i] = a[i]
      /\ \A i \in 1..Len(b) : c[Len(a) + i] = b[i]
  OBVIOUS
<1>2. SumsOf(a, Len(a), s) /\ SumsOf(b, Len(b), t) /\ SumsOf(c, Len(c), u)
  BY <1>1, SumsAre
<1> HIDE DEF c, s, t, u
<1>3. \A i \in 0..Len(a) : u[i] = s[i]
  <2> DEFINE Bad == {i \in 0..Len(a) : u[i] # s[i]}
  <2> SUFFICES ASSUME Bad # {}  PROVE FALSE
    OBVIOUS
  <2>1. PICK m \in Bad : \A k \in Bad : m <= k
    <3>1. Bad \subseteq Nat
      OBVIOUS
    <3> QED
      BY <3>1, LeastOf
  <2>2. m # 0
    BY <1>2 DEF SumsOf
  <2>3. m - 1 \in 0..Len(a) /\ m \in 1..Len(a) /\ m \in 1..Len(c) /\ u[m - 1] = s[m - 1]
    <3>1. m - 1 \in 0..Len(a) /\ m \in 1..Len(a) /\ m \in 1..Len(c) /\ ~(m <= m - 1)
      <4>1. m \in 0..Len(a)
        OBVIOUS
      <4> QED
        BY <1>1, <2>2, <4>1, Predecessor, Zenon
    <3> QED
      BY <2>1, <3>1, Zenon
  <2> QED
    BY <2>3, <1>1, <1>2 DEF SumsOf
<1>4. \A i \in 0..Len(b) : u[Len(a) + i] = s[Len(a)] + t[i]
  <2> DEFINE Bad == {i \in 0..Len(b) : u[Len(a) + i] # s[Len(a)] + t[i]}
  <2> SUFFICES ASSUME Bad # {}  PROVE FALSE
    OBVIOUS
  <2>1. PICK m \in Bad : \A k \in Bad : m <= k
    <3>1. Bad \subseteq Nat
      OBVIOUS
    <3> QED
      BY <3>1, LeastOf
  <2>2. Len(a) \in 0..Len(a) /\ s[Len(a)] \in Nat
    <3>1. s \in [0..Len(a) -> Nat]
      BY <1>2 DEF SumsOf
    <3>2. Len(a) \in 0..Len(a)
      BY <1>1
    <3> QED
      BY <3>1, <3>2, Zenon
  <2>3. m # 0
    BY <1>2, <1>3, <2>2 DEF SumsOf
  <2>4. m - 1 \in 0..Len(b) /\ m \in 1..Len(b) /\ Len(a) + m \in 1..Len(c) /\ ~(m <= m - 1)
        /\ Len(a) + m - 1 = Len(a) + (m - 1)
    <3>1. m \in 0..Len(b)
      OBVIOUS
    <3> QED
      BY <1>1, <2>3, <3>1, Predecessor, Zenon
  <2>5. /\ u[Len(a) + m] = u[Len(a) + m - 1] + c[Len(a) + m]
        /\ t[m] = t[m - 1] + b[m] /\ t[m - 1] \in Nat /\ b[m] \in Nat
    <3>1. u[Len(a) + m] = u[Len(a) + m - 1] + c[Len(a) + m]
      BY <2>4, <1>2 DEF SumsOf
    <3>2. t \in [0..Len(b) -> Nat] /\ t[m] = t[m - 1] + b[m]
      BY <2>4, <1>2 DEF SumsOf
    <3>3. t[m - 1] \in Nat
      BY <3>2, <2>4, Zenon
    <3>4. b[m] \in Nat
      BY <2>4
    <3> QED
      BY <3>1, <3>2, <3>3, <3>4
  <2>7. u[Len(a) + (m - 1)] = s[Len(a)] + t[m - 1]
    BY <2>1, <2>4, Zenon
  <2>8. c[Len(a) + m] = b[m]
    BY <2>4, <1>1
  <2>9. u[Len(a) + m] = (s[Len(a)] + t[m - 1]) + b[m]
    BY <2>4, <2>5, <2>7, <2>8, Zenon
  <2>10. (s[Len(a)] + t[m - 1]) + b[m] = s[Len(a)] + (t[m - 1] + b[m])
    <3>1. \A x, y, z \in Nat : (x + y) + z = x + (y + z)
      OBVIOUS
    <3> QED
      BY <2>2, <2>5, <3>1, Zenon
  <2>11. u[Len(a) + m] # s[Len(a)] + t[m]
    OBVIOUS
  <2> QED
    BY <2>5, <2>9, <2>10, <2>11, Zenon
<1> QED
  BY <1>1, <1>4 DEF Total, c, s, t, u

-----------------------------------------------------------------------------
(* Whole units.                                                             *)

SizeIn(s, raw) == Total([i \in 1..Len(raw) |-> s[raw[i].group].sizes[raw[i].index]])

\* raw is groups h to j of script s, every fragment once and in order.
Stretch(s, raw, h, j) ==
    /\ \A i \in 1..Len(raw) : /\ raw[i].group \in h..j
                              /\ raw[i].index \in 1..Len(s[raw[i].group].sizes)
    /\ \A g \in h..j : \A n \in 1..Len(s[g].sizes) :
          \E i \in 1..Len(raw) : Place(raw[i]) = <<g, n>>
    /\ \A i, k \in 1..Len(raw) : i < k => Before(raw[i], raw[k])
    /\ SizeIn(s, raw) = Ends(s)[j] - Ends(s)[h - 1]

\* What is held is groups h to j of a unit, and j has just come in.
HeldIs(h, j, t) ==
    /\ Heads(h, held.unit) /\ held.length = script[h].length
    /\ h <= j /\ j \in 1..Len(sentAt)
    /\ Stretch(script, held.raw, h, j)
    /\ held.next = (Id(j) + 1) % IdMod
    /\ OnItsWay(j, t) /\ held.time <= t /\ t <= now

StretchInv == held # NoUnit => \E h, j \in 1..Len(sentAt), t \in Nat : HeldIs(h, j, t)

LEMMA GroupSizes ==
  ASSUME ClockInv, NEW g \in 1..Len(script)
  PROVE  /\ script[g].sizes \in Seq(Nat) /\ Len(script[g].sizes) \in Nat \ {0}
         /\ \A n \in 1..Len(script[g].sizes) : script[g].sizes[n] \in Nat
         /\ g \in Nat /\ script[g].unit \in Nat /\ script[g].length \in Nat
<1>1. script[g] \in GroupType /\ g \in Nat
  BY DEF ClockInv
<1>2. script[g].sizes \in Seq(1..Full) /\ script[g].sizes # <<>>
  BY <1>1 DEF GroupType
<1> QED
  BY <1>1, <1>2 DEF GroupType, Full

LEMMA EndsAre ==
  ASSUME ClockInv
  PROVE  /\ Ends(script) \in [0..Len(script) -> Nat]
         /\ \A g \in 1..Len(script) :
               Ends(script)[g] = Ends(script)[g - 1] + Total(script[g].sizes)
<1> DEFINE a == [g \in 1..Len(script) |-> Total(script[g].sizes)]
<1>1. \A g \in 1..Len(script) : Total(script[g].sizes) \in Nat
  BY GroupSizes, TotalIsNat
<1>2. Len(script) \in Nat
  BY DEF ClockInv
<1>3. a \in Seq(Nat) /\ Len(a) = Len(script)
  BY <1>1, <1>2
<1>4. SumsOf(a, Len(a), Sums(a))
  BY <1>3, SumsAre
<1>5. \A g \in 1..Len(script) : a[g] = Total(script[g].sizes)
  OBVIOUS
<1>6. Ends(script) = Sums(a)
  BY DEF Ends
<1> HIDE DEF a
<1> QED
  BY <1>3, <1>4, <1>5, <1>6 DEF SumsOf

LEMMA SameSequence ==
  ASSUME NEW a \in Seq(Nat), NEW b \in Seq(Nat), Len(a) = Len(b),
         \A i \in 1..Len(a) : a[i] = b[i]
  PROVE  a = b
  OBVIOUS

LEMMA SizeIsInScript ==
  ASSUME NEW raw
  PROVE  SizeIn(script, raw) = Size(raw)
  BY DEF SizeIn, Size, SizeOf

Sizes(raw) == [i \in 1..Len(raw) |-> SizeOf(raw[i])]

LEMMA SizesAre ==
  ASSUME NEW raw \in Seq(PayloadType), \A i \in 1..Len(raw) : SizeOf(raw[i]) \in Nat
  PROVE  /\ Sizes(raw) \in Seq(Nat) /\ Len(Sizes(raw)) = Len(raw)
         /\ \A i \in 1..Len(raw) : Sizes(raw)[i] = SizeOf(raw[i])
         /\ Size(raw) = Total(Sizes(raw))
  BY DEF Sizes, Size

LEMMA SizesOfBoth ==
  ASSUME NEW a \in Seq(PayloadType), NEW b \in Seq(PayloadType),
         \A i \in 1..Len(a) : SizeOf(a[i]) \in Nat,
         \A i \in 1..Len(b) : SizeOf(b[i]) \in Nat
  PROVE  Size(a \o b) = Size(a) + Size(b)
<1> DEFINE c == a \o b
<1>1. /\ c \in Seq(PayloadType) /\ Len(c) = Len(a) + Len(b) /\ Len(a) \in Nat /\ Len(b) \in Nat
      /\ \A i \in 1..Len(c) : c[i] = IF i <= Len(a) THEN a[i] ELSE b[i - Len(a)]
  OBVIOUS
<1> HIDE DEF c
<1>2. \A i \in 1..Len(c) : SizeOf(c[i]) \in Nat
  <2> TAKE i \in 1..Len(c)
  <2>1. CASE i <= Len(a)
    BY <2>1, <1>1
  <2>2. CASE ~(i <= Len(a))
    <3>1. i - Len(a) \in 1..Len(b) /\ c[i] = b[i - Len(a)]
      BY <2>2, <1>1
    <3> QED
      BY <3>1
  <2> QED
    BY <2>1, <2>2
<1>3. /\ Sizes(a) \in Seq(Nat) /\ Len(Sizes(a)) = Len(a) /\ Size(a) = Total(Sizes(a))
      /\ \A i \in 1..Len(a) : Sizes(a)[i] = SizeOf(a[i])
  BY SizesAre
<1>4. /\ Sizes(b) \in Seq(Nat) /\ Len(Sizes(b)) = Len(b) /\ Size(b) = Total(Sizes(b))
      /\ \A i \in 1..Len(b) : Sizes(b)[i] = SizeOf(b[i])
  BY SizesAre
<1>5. /\ Sizes(c) \in Seq(Nat) /\ Len(Sizes(c)) = Len(c) /\ Size(c) = Total(Sizes(c))
      /\ \A i \in 1..Len(c) : Sizes(c)[i] = SizeOf(c[i])
  BY <1>1, <1>2, SizesAre
<1>6. Sizes(c) = Sizes(a) \o Sizes(b)
  <2> DEFINE x == Sizes(a)
             y == Sizes(b)
             z == Sizes(c)
             w == x \o y
  <2> HIDE DEF x, y, z
  <2>1. x \in Seq(Nat) /\ y \in Seq(Nat) /\ z \in Seq(Nat)
        /\ Len(x) = Len(a) /\ Len(y) = Len(b) /\ Len(z) = Len(a) + Len(b)
    BY <1>1, <1>3, <1>4, <1>5 DEF x, y, z
  <2>2. /\ w \in Seq(Nat) /\ Len(w) = Len(z)
        /\ \A i \in 1..Len(z) : w[i] = IF i <= Len(a) THEN x[i] ELSE y[i - Len(a)]
    <3>1. x \in Seq(Nat) /\ y \in Seq(Nat)
      BY <2>1
    <3>2. /\ w \in Seq(Nat) /\ Len(w) = Len(x) + Len(y)
          /\ \A i \in 1..Len(x) + Len(y) : w[i] = IF i <= Len(x) THEN x[i] ELSE y[i - Len(x)]
      BY <3>1
    <3> HIDE DEF w
    <3> QED
      BY <2>1, <3>2
  <2> HIDE DEF w
  <2>3. ASSUME NEW i \in 1..Len(z)
        PROVE  z[i] = w[i]
    <3>0. i \in 1..Len(c) /\ z[i] = SizeOf(c[i])
      BY <2>1, <1>1, <1>5 DEF z
    <3>1. CASE i <= Len(a)
      <4>1. i \in 1..Len(a) /\ c[i] = a[i]
        BY <3>0, <3>1, <1>1
      <4>2. x[i] = SizeOf(a[i])
        BY <4>1, <1>3 DEF x
      <4> QED
        BY <3>0, <3>1, <4>1, <4>2, <2>2
    <3>2. CASE ~(i <= Len(a))
      <4>1. i - Len(a) \in 1..Len(b) /\ c[i] = b[i - Len(a)]
        BY <3>0, <3>2, <1>1
      <4>2. y[i - Len(a)] = SizeOf(b[i - Len(a)])
        BY <4>1, <1>4 DEF y
      <4> QED
        BY <3>0, <3>2, <4>1, <4>2, <2>2
    <3> QED
      BY <3>1, <3>2
  <2>4. z = w
    BY <2>1, <2>2, <2>3, SameSequence
  <2> QED
    BY <2>4 DEF x, y, z, w
<1> QED
  BY <1>3, <1>4, <1>5, <1>6, TotalOfBoth DEF c

\* A complete group is a stretch by itself.
LEMMA GroupIsStretch ==
  ASSUME MediaInv, NEW f \in Arriving, Ready(f)
  PROVE  Stretch(script, Raw(f), f.group, f.group)
<1> DEFINE g == f.group
           n == Len(script[g].sizes)
           raw == Raw(f)
<1>1. /\ raw \in Seq(PayloadType) /\ Len(raw) = n
      /\ \A i \in 1..n : raw[i].group = g /\ raw[i].index = i
  BY RawIsOneGroup
<1>2. ClockInv /\ g \in 1..Len(script)
  BY Incoming DEF MediaInv
<1>3. g \in Nat /\ n \in Nat /\ script[g].sizes \in Seq(Nat)
  BY <1>2, GroupSizes
<1> HIDE DEF g, raw
<1>4. Size(raw) = Total(script[g].sizes)
  <2>1. \A i \in 1..Len(raw) : SizeOf(raw[i]) = script[g].sizes[i] /\ SizeOf(raw[i]) \in Nat
    BY <1>1, <1>2, GroupSizes DEF SizeOf
  <2>2. /\ Sizes(raw) \in Seq(Nat) /\ Len(Sizes(raw)) = Len(raw)
        /\ \A i \in 1..Len(raw) : Sizes(raw)[i] = SizeOf(raw[i])
        /\ Size(raw) = Total(Sizes(raw))
    BY <1>1, <2>1, SizesAre
  <2>3. Sizes(raw) = script[g].sizes
    BY <1>1, <1>3, <2>1, <2>2, SameSequence
  <2> QED
    BY <2>2, <2>3
<1>5. Size(raw) = Ends(script)[g] - Ends(script)[g - 1]
  <2>1. Ends(script)[g - 1] \in Nat /\ Total(script[g].sizes) \in Nat
    BY <1>2, <1>3, EndsAre, TotalIsNat
  <2> QED
    BY <1>2, <1>4, <2>1, EndsAre
<1>6. \A i \in 1..Len(raw) : /\ raw[i].group \in g..g
                             /\ raw[i].index \in 1..Len(script[raw[i].group].sizes)
  BY <1>1, <1>3
<1>7. \A x \in g..g : \A m \in 1..Len(script[x].sizes) :
          \E i \in 1..Len(raw) : Place(raw[i]) = <<x, m>>
  <2> TAKE x \in g..g
  <2>1. x = g
    BY <1>3
  <2> TAKE m \in 1..Len(script[x].sizes)
  <2>2. m \in 1..Len(raw) /\ Place(raw[m]) = <<x, m>>
    BY <2>1, <1>1 DEF Place
  <2> QED
    BY <2>2
<1>8. \A i, k \in 1..Len(raw) : i < k => Before(raw[i], raw[k])
  BY <1>1, <1>3 DEF Before
<1> QED
  BY <1>5, <1>6, <1>7, <1>8, SizeIsInScript DEF Stretch, g, raw

\* The next group makes a stretch longer.
LEMMA StretchOfBoth ==
  ASSUME ClockInv, NEW a \in Seq(PayloadType), NEW b \in Seq(PayloadType),
         NEW h \in 1..Len(script), NEW j \in 1..Len(script), h <= j, j + 1 \in 1..Len(script),
         Stretch(script, a, h, j), Stretch(script, b, j + 1, j + 1)
  PROVE  Stretch(script, a \o b, h, j + 1)
<1> DEFINE c == a \o b
<1>1. /\ c \in Seq(PayloadType) /\ Len(c) = Len(a) + Len(b) /\ Len(a) \in Nat /\ Len(b) \in Nat
      /\ \A i \in 1..Len(a) : c[i] = a[i]
      /\ \A i \in 1..Len(b) : c[Len(a) + i] = b[i]
  OBVIOUS
<1>2. \A i \in 1..Len(c) : \/ i \in 1..Len(a) /\ c[i] = a[i]
                           \/ i - Len(a) \in 1..Len(b) /\ i > Len(a) /\ c[i] = b[i - Len(a)]
  BY <1>1
<1>3. h \in Nat /\ j \in Nat /\ Len(script) \in Nat
  BY DEF ClockInv
<1> HIDE DEF c
<1>4. \A i \in 1..Len(a) : /\ a[i].group \in h..j
                           /\ a[i].index \in 1..Len(script[a[i].group].sizes)
  BY DEF Stretch
<1>5. \A i \in 1..Len(b) : /\ b[i].group \in (j + 1)..(j + 1)
                           /\ b[i].index \in 1..Len(script[b[i].group].sizes)
  BY DEF Stretch
<1>6. \A i \in 1..Len(c) : /\ c[i].group \in h..(j + 1)
                           /\ c[i].index \in 1..Len(script[c[i].group].sizes)
  <2> TAKE i \in 1..Len(c)
  <2>0. h..j \subseteq h..(j + 1) /\ (j + 1)..(j + 1) \subseteq h..(j + 1)
    BY <1>3
  <2>1. CASE i \in 1..Len(a) /\ c[i] = a[i]
    BY <2>0, <2>1, <1>4, Zenon
  <2>2. CASE i - Len(a) \in 1..Len(b) /\ c[i] = b[i - Len(a)]
    <3>1. /\ b[i - Len(a)].group \in (j + 1)..(j + 1)
          /\ b[i - Len(a)].index \in 1..Len(script[b[i - Len(a)].group].sizes)
      BY <2>2, <1>5, Zenon
    <3> QED
      BY <2>0, <2>2, <3>1, Zenon
  <2> QED
    BY <2>1, <2>2, <1>2
<1>7. ASSUME NEW g \in h..(j + 1), NEW n \in 1..Len(script[g].sizes)
      PROVE  \E i \in 1..Len(c) : Place(c[i]) = <<g, n>>
  <2>1. CASE g \in h..j
    <3>1. PICK i \in 1..Len(a) : Place(a[i]) = <<g, n>>
      BY <2>1 DEF Stretch
    <3>2. i \in 1..Len(c) /\ c[i] = a[i]
      BY <1>1
    <3> QED
      BY <3>1, <3>2, Zenon
  <2>2. CASE g = j + 1
    <3>1. PICK i \in 1..Len(b) : Place(b[i]) = <<g, n>>
      BY <2>2, <1>3 DEF Stretch
    <3>2. Len(a) + i \in 1..Len(c) /\ c[Len(a) + i] = b[i]
      BY <1>1
    <3> QED
      BY <3>1, <3>2, Zenon
  <2> QED
    BY <2>1, <2>2, <1>3
<1>8. ASSUME NEW i \in 1..Len(c), NEW k \in 1..Len(c), i < k
      PROVE  Before(c[i], c[k])
  <2>1. CASE i \in 1..Len(a) /\ k \in 1..Len(a)
    BY <2>1, <1>1, <1>8 DEF Stretch
  <2>2. CASE i \in 1..Len(a) /\ k - Len(a) \in 1..Len(b)
    <3>1. c[i] = a[i] /\ c[k] = b[k - Len(a)]
      BY <2>2, <1>1, <1>2
    <3>2. c[i].group \in h..j /\ c[k].group \in (j + 1)..(j + 1)
      BY <3>1, <2>2, <1>4, <1>5
    <3> QED
      BY <3>2, <1>3 DEF Before
  <2>3. CASE i - Len(a) \in 1..Len(b) /\ k - Len(a) \in 1..Len(b)
    <3>1. c[i] = b[i - Len(a)] /\ c[k] = b[k - Len(a)] /\ i - Len(a) < k - Len(a)
      BY <2>3, <1>1, <1>2, <1>8
    <3> QED
      BY <2>3, <3>1 DEF Stretch
  <2> QED
    BY <2>1, <2>2, <2>3, <1>1, <1>2, <1>8
<1>9. Size(c) = Ends(script)[j + 1] - Ends(script)[h - 1]
  <2>1. \A i \in 1..Len(a) : SizeOf(a[i]) \in Nat
    <3> TAKE i \in 1..Len(a)
    <3>1. a[i].group \in 1..Len(script)
      BY <1>3, <1>4
    <3> QED
      BY <3>1, <1>4, GroupSizes DEF SizeOf
  <2>2. \A i \in 1..Len(b) : SizeOf(b[i]) \in Nat
    <3> TAKE i \in 1..Len(b)
    <3>1. b[i].group \in 1..Len(script)
      BY <1>3, <1>5
    <3> QED
      BY <3>1, <1>5, GroupSizes DEF SizeOf
  <2>6. Size(c) = Size(a) + Size(b)
    BY <2>1, <2>2, SizesOfBoth DEF c
  <2>7. Size(a) = Ends(script)[j] - Ends(script)[h - 1]
    BY SizeIsInScript DEF Stretch
  <2>8. Size(b) = Ends(script)[j + 1] - Ends(script)[j + 1 - 1]
    BY SizeIsInScript DEF Stretch
  <2>9. /\ Ends(script)[h - 1] \in Nat /\ Ends(script)[j] \in Nat
        /\ Ends(script)[j + 1] \in Nat /\ j + 1 - 1 = j
    <3>1. h - 1 \in 0..Len(script) /\ j \in 0..Len(script) /\ j + 1 \in 0..Len(script)
      BY <1>3
    <3>2. Ends(script) \in [0..Len(script) -> Nat]
      BY EndsAre
    <3>3. Ends(script)[h - 1] \in Nat /\ Ends(script)[j] \in Nat /\ Ends(script)[j + 1] \in Nat
      BY <3>1, <3>2, Zenon
    <3> QED
      BY <3>3, <1>3
  <2> QED
    BY <2>6, <2>7, <2>8, <2>9
<1> QED
  BY <1>6, <1>7, <1>8, <1>9, SizeIsInScript DEF Stretch, c

-----------------------------------------------------------------------------
(* What a continuation holds.                                               *)

\* A group sent IdMod groups after the one after group j, or before it, is not
\* on its way a moment after j has come in.
LEMMA TooFarApart ==
  ASSUME NEW a \in Nat, NEW b \in Nat, NEW d \in Int, NEW t \in Nat, NEW u \in Nat, d >= IdMod,
         b <= u, u - b <= MaxDelay, a <= t, t - a <= MaxDelay, t <= u, u - t <= 1
  PROVE  ~(a + (d + 1) <= b) /\ ~(b + (d - 1) <= a)
  BY MediaTimes

\* The group that a continuation waits for is the one after the last.
LEMMA NextGroupComes ==
  ASSUME MediaInv, NEW f \in Arriving, NEW h, NEW j, NEW t \in Nat, HeldIs(h, j, t),
         Continued # NoUnit, Id(f.group) = held.next
  PROVE  f.group = j + 1
<1> DEFINE g == f.group
<1>1. /\ held.time \in Nat /\ now \in Nat /\ now - held.time <= 1
      /\ held.time <= t /\ t <= now
  <2>1. ~(now - held.time > Expire)
    BY Zenon DEF Continued
  <2>2. held.time \in Nat /\ now \in Nat
    BY DEF MediaInv, HeldInv, ClockInv
  <2> QED
    BY <2>1, <2>2, MediaTimes DEF HeldIs
<1>2. ClockInv /\ OnItsWay(g, now) /\ OnItsWay(j, t)
  BY Incoming DEF MediaInv, HeldIs
<1>3. /\ g \in 1..Len(sentAt) /\ j \in 1..Len(sentAt) /\ g \in Nat /\ j \in Nat
      /\ sentAt[g] \in Nat /\ sentAt[j] \in Nat /\ Len(sentAt) \in Nat
      /\ sentAt[g] <= now /\ now - sentAt[g] <= MaxDelay
      /\ sentAt[j] <= t /\ t - sentAt[j] <= MaxDelay
  BY <1>2, ClockTypes DEF OnItsWay
<1> HIDE DEF g
<1>4. Id(g) = Id(j + 1)
  <2>1. Id(g) = (Id(j) + 1) % IdMod
    BY DEF HeldIs, g
  <2>2. ((j % IdMod) + 1) % IdMod = (j + 1) % IdMod
    <3>1. IdMod \in Nat \ {0} /\ j \in Int
      BY <1>3, MediaTimes
    <3> QED
      BY <3>1, NextRemainder
  <2> QED
    BY <2>1, <2>2 DEF Id
<1>5. now - t <= 1
  BY <1>1
<1>6. \A x, y \in 1..Len(sentAt) : x <= y => sentAt[x] + (y - x) <= sentAt[y]
  BY <1>2 DEF ClockInv
<1>7. CASE j + 1 < g
  <2> DEFINE d == g - (j + 1)
  <2>1. d \in Int /\ j <= g /\ g - j = d + 1
    BY <1>3, <1>7
  <2>2. d >= IdMod
    BY <1>3, <1>4, <1>7, SameId
  <2>3. sentAt[j] + (d + 1) <= sentAt[g]
    BY <1>3, <1>6, <2>1, Zenon
  <2> HIDE DEF d
  <2> QED
    BY <1>1, <1>3, <1>5, <2>1, <2>2, <2>3, TooFarApart, Zenon
<1>8. CASE g < j + 1
  <2> DEFINE d == (j + 1) - g
  <2>1. d \in Int /\ g <= j /\ j - g = d - 1
    BY <1>3, <1>8
  <2>2. d >= IdMod
    BY <1>3, <1>4, <1>8, SameId
  <2>3. sentAt[g] + (d - 1) <= sentAt[j]
    BY <1>3, <1>6, <2>1, Zenon
  <2> HIDE DEF d
  <2> QED
    BY <1>1, <1>3, <1>5, <2>1, <2>2, <2>3, TooFarApart, Zenon
<1> QED
  BY <1>3, <1>7, <1>8 DEF g

\* A stretch that has the declared length is the unit.
LEMMA StretchIsUnit ==
  ASSUME ClockInv, NEW raw, NEW h, NEW j, NEW unit, Heads(h, unit), h <= j, j \in 1..Len(sentAt),
         Stretch(script, raw, h, j), Size(raw) = script[h].length
  PROVE  WholeUnit(script, unit, raw)
<1>1. h \in 1..Len(script) /\ j \in h..Len(script) /\ script \in Scripts /\ script[h].length > 0
      /\ script[h].unit = unit
  <2>1. h \in 1..Len(script) /\ j \in 1..Len(script) /\ h \in Nat /\ j \in Nat
    BY ClockTypes DEF Heads
  <2> QED
    BY <2>1 DEF Heads, ClockInv
<1>2. Groups(script, unit) = h..j
  <2>1. Ends(script)[j] - Ends(script)[h - 1] = script[h].length
    BY SizeIsInScript DEF Stretch
  <2> QED
    BY <1>1, <2>1, ScriptAssumption
<1>3. {Place(raw[i]) : i \in 1..Len(raw)} = UNION {{g} \X (1..Len(script[g].sizes)) : g \in h..j}
  <2>1. ASSUME NEW i \in 1..Len(raw)
        PROVE  Place(raw[i]) \in UNION {{g} \X (1..Len(script[g].sizes)) : g \in h..j}
    BY DEF Stretch, Place
  <2>2. ASSUME NEW g \in h..j, NEW n \in 1..Len(script[g].sizes)
        PROVE  <<g, n>> \in {Place(raw[i]) : i \in 1..Len(raw)}
    BY DEF Stretch
  <2>3. UNION {{g} \X (1..Len(script[g].sizes)) : g \in h..j}
          \subseteq {Place(raw[i]) : i \in 1..Len(raw)}
    <3> SUFFICES ASSUME NEW g \in h..j, NEW p \in {g} \X (1..Len(script[g].sizes))
                 PROVE  p \in {Place(raw[i]) : i \in 1..Len(raw)}
      OBVIOUS
    <3>1. PICK n \in 1..Len(script[g].sizes) : p = <<g, n>>
      OBVIOUS
    <3> QED
      BY <2>2, <3>1
  <2> QED
    BY <2>1, <2>3
<1> QED
  BY <1>2, <1>3 DEF Stretch, WholeUnit

\* The stretch goes on through the steps that do not complete a group.
LEMMA StretchStays ==
  ASSUME MediaInv, StretchInv, WholeUnits, held' = held \/ held' = NoUnit, UNCHANGED <<script, out>>,
         now \in Nat, now' \in Nat, now <= now', Len(sentAt) <= Len(sentAt'), Len(sentAt') \in Nat,
         \A g \in 1..Len(sentAt) : sentAt'[g] = sentAt[g]
  PROVE  StretchInv' /\ WholeUnits'
<1>1. Len(sentAt) \in Nat
  BY DEF MediaInv, ClockInv
<1>2. ASSUME held' = held, held # NoUnit
      PROVE  \E h, j \in 1..Len(sentAt'), t \in Nat : HeldIs(h, j, t)'
  <2>1. PICK h \in 1..Len(sentAt), j \in 1..Len(sentAt), t \in Nat : HeldIs(h, j, t)
    BY <1>2 DEF StretchInv
  <2>2. h \in 1..Len(sentAt') /\ j \in 1..Len(sentAt')
    BY <1>1
  <2>3. Stretch(script', held'.raw, h, j)
    BY <1>2, <2>1 DEF HeldIs
  <2>4. Heads(h, held.unit)' /\ OnItsWay(j, t)'
    BY <1>2, <2>1, <2>2 DEF HeldIs, Heads, OnItsWay
  <2>5. HeldIs(h, j, t)'
    <3>1. held.time <= t /\ t <= now /\ t <= now'
      BY <2>1 DEF HeldIs
    <3> QED
      BY <1>2, <2>1, <2>2, <2>3, <2>4, <3>1 DEF HeldIs, Id
  <2> QED
    BY <2>2, <2>5
<1>3. StretchInv'
  BY <1>2 DEF StretchInv
<1>4. WholeUnits'
  BY DEF WholeUnits
<1> QED
  BY <1>3, <1>4

\* A unit that goes out is whole if it is a stretch of the declared length.
LEMMA WholeGoesOut ==
  ASSUME MediaInv, WholeUnits, Fed, NEW unit, NEW raw, Emit(unit, raw),
         NEW h, NEW j, Heads(h, unit), h <= j, j \in 1..Len(sentAt),
         Stretch(script, raw, h, j), Size(raw) = script[h].length
  PROVE  WholeUnits'
<1>1. /\ Len(out') = Len(out) + 1 /\ Len(out) \in Nat
      /\ \A k \in 1..Len(out) : out'[k] = out[k]
      /\ out'[Len(out) + 1] = [unit |-> unit, raw |-> raw]
  BY DEF MediaInv, UnitsInv, Emit
<1>2. ClockInv /\ script' = script
  BY DEF MediaInv, Fed
<1>3. WholeUnit(script, unit, raw)
  BY <1>2, StretchIsUnit
<1>4. ASSUME NEW k \in 1..Len(out')
      PROVE  WholeUnit(script, out'[k].unit, out'[k].raw)
  <2>1. CASE k \in 1..Len(out)
    BY <2>1, <1>1 DEF WholeUnits
  <2>2. CASE k = Len(out) + 1
    BY <2>2, <1>1, <1>3
  <2> QED
    BY <2>1, <2>2, <1>1
<1> QED
  BY <1>2, <1>4 DEF WholeUnits

LEMMA StretchGrows ==
  ASSUME MediaInv, StretchInv, WholeUnits, Fed, NEW f \in Arriving,
         FeedContinuation(f) \/ FeedUnit(f)
  PROVE  StretchInv' /\ WholeUnits'
<1> DEFINE g == f.group
           raw == Raw(f)
<1>1. Ready(f)
  BY DEF FeedContinuation, FeedUnit
<1>2. /\ Stretch(script, raw, g, g) /\ raw \in Seq(PayloadType) /\ raw[1].group = g
  BY <1>1, GroupIsStretch, RawIsOneGroup
<1>3. ClockInv /\ OnItsWay(g, now) /\ g \in Nat /\ g \in 1..Len(script) /\ g \in 1..Len(sentAt) /\ now \in Nat
  BY Incoming, ClockTypes DEF MediaInv, OnItsWay
<1>4. /\ \A h, u : Heads(h, u)' = Heads(h, u)
      /\ \A h, t : OnItsWay(h, t)' = OnItsWay(h, t)
      /\ script' = script /\ sentAt' = sentAt /\ now' = now
  BY DEF Heads, OnItsWay, Fed
<1> HIDE DEF g, raw
<1>5. CASE held' = NoUnit /\ UNCHANGED <<out, player>>
  BY <1>4, <1>5 DEF StretchInv, WholeUnits
<1>6. CASE FeedContinuation(f)
  <2>1. /\ Continued # NoUnit /\ Continued = held /\ held # NoUnit /\ Id(g) = held.next
    BY <1>6 DEF FeedContinuation, Expected, Continued, g
  <2>2. PICK h \in 1..Len(sentAt), j \in 1..Len(sentAt), t \in Nat : HeldIs(h, j, t)
    BY <2>1 DEF StretchInv
  <2>3. g = j + 1
    BY <2>1, <2>2, NextGroupComes DEF g
  <2>4. held.raw \in Seq(PayloadType) /\ held.unit \in Nat /\ held.length \in Nat /\ held.time \in Nat
        /\ held.time <= now
        /\ held = [unit |-> held.unit, raw |-> held.raw, length |-> held.length,
                   next |-> held.next, time |-> held.time]
    BY <2>2, <1>3 DEF MediaInv, HeldInv, HeldIs
  <2> DEFINE all == held.raw \o raw
  <2>5. Stretch(script, all, h, g)
    <3>1. h \in 1..Len(script) /\ j \in 1..Len(script) /\ h <= j /\ Stretch(script, held.raw, h, j)
      BY <2>2, <1>3, ClockTypes DEF HeldIs
    <3> QED
      BY <1>2, <1>3, <2>3, <2>4, <3>1, StretchOfBoth
  <2>6. h <= g /\ Heads(h, held.unit) /\ held.length = script[h].length
    <3>1. h \in Nat /\ j \in Nat /\ h <= j
      BY <2>2, <1>3, ClockTypes DEF HeldIs
    <3> QED
      BY <2>2, <2>3, <3>1 DEF HeldIs
  <2>7. \/ Size(all) = held.length /\ held' = NoUnit /\ Emit(held.unit, all)
        \/ /\ held' = [held EXCEPT !.raw = all, !.next = (Id(g) + 1) % IdMod]
           /\ UNCHANGED <<out, player>>
        \/ held' = NoUnit /\ UNCHANGED <<out, player>>
    BY <1>6, <2>1 DEF FeedContinuation, raw, g
  <2> HIDE DEF all
  <2>8. CASE Size(all) = held.length /\ held' = NoUnit /\ Emit(held.unit, all)
    <3>1. WholeUnits'
      BY <1>3, <2>5, <2>6, <2>8, WholeGoesOut
    <3> QED
      BY <2>8, <3>1 DEF StretchInv
  <2>9. CASE /\ held' = [held EXCEPT !.raw = all, !.next = (Id(g) + 1) % IdMod]
             /\ UNCHANGED <<out, player>>
    <3>1. held'.raw = all /\ held'.next = (Id(g) + 1) % IdMod /\ held'.unit = held.unit
          /\ held'.length = held.length /\ held'.time = held.time
      BY <2>4, <2>9
    <3>2. HeldIs(h, g, now)'
      <4>2. Stretch(script', held'.raw, h, g)
        BY <1>4, <2>5, <3>1
      <4>3. Heads(h, held'.unit) /\ Heads(h, held.unit)'
        BY <1>4, <2>6, <3>1 DEF Heads
      <4>4. OnItsWay(g, now)'
        BY <1>3, <1>4 DEF OnItsWay
      <4> QED
        BY <1>3, <1>4, <2>4, <2>6, <3>1, <4>2, <4>3, <4>4 DEF HeldIs, Id
    <3>3. h \in 1..Len(sentAt') /\ g \in 1..Len(sentAt') /\ now' \in Nat
      BY <1>3, <1>4
    <3>4. StretchInv'
      BY <3>2, <3>3, <1>4 DEF StretchInv
    <3>5. WholeUnits'
      BY <1>4, <2>9 DEF WholeUnits
    <3> QED
      BY <3>4, <3>5
  <2>10. CASE held' = NoUnit /\ UNCHANGED <<out, player>>
    BY <1>5, <2>10
  <2> QED
    BY <2>7, <2>8, <2>9, <2>10
<1>7. CASE FeedUnit(f)
  <2> DEFINE unit == script[g].unit
  <2>1. \/ Headed(raw) /\ Size(raw) = script[g].length /\ held' = NoUnit /\ Emit(unit, raw)
        \/ /\ Headed(raw)
           /\ held' = [unit |-> unit, raw |-> raw, length |-> script[g].length,
                       next |-> (Id(g) + 1) % IdMod, time |-> now]
           /\ UNCHANGED <<out, player>>
        \/ held' = NoUnit /\ UNCHANGED <<out, player>>
    BY <1>7, <1>2 DEF FeedUnit, raw, g
  <2>2. Headed(raw) => Heads(g, unit)
    BY <1>2, <1>3 DEF Headed, Heads
  <2> HIDE DEF unit
  <2>3. CASE Headed(raw) /\ Size(raw) = script[g].length /\ held' = NoUnit /\ Emit(unit, raw)
    <3>1. WholeUnits'
      BY <1>2, <1>3, <2>2, <2>3, WholeGoesOut
    <3> QED
      BY <2>3, <3>1 DEF StretchInv
  <2>4. CASE /\ Headed(raw)
             /\ held' = [unit |-> unit, raw |-> raw, length |-> script[g].length,
                         next |-> (Id(g) + 1) % IdMod, time |-> now]
             /\ UNCHANGED <<out, player>>
    <3>1. held'.raw = raw /\ held'.next = (Id(g) + 1) % IdMod /\ held'.unit = unit
          /\ held'.length = script[g].length /\ held'.time = now
      BY <2>4
    <3>2. HeldIs(g, g, now)'
      <4>1. Stretch(script', held'.raw, g, g)
        BY <1>2, <1>4, <3>1
      <4>2. Heads(g, held.unit)'
        BY <1>4, <2>2, <2>4, <3>1 DEF Heads
      <4>3. OnItsWay(g, now)'
        BY <1>3, <1>4 DEF OnItsWay
      <4> QED
        BY <1>3, <1>4, <3>1, <4>1, <4>2, <4>3 DEF HeldIs, Id
    <3>3. g \in 1..Len(sentAt') /\ now' \in Nat
      BY <1>3, <1>4
    <3>4. StretchInv'
      BY <3>2, <3>3, <1>4 DEF StretchInv
    <3>5. WholeUnits'
      BY <1>4, <2>4 DEF WholeUnits
    <3> QED
      BY <3>4, <3>5
  <2>5. CASE held' = NoUnit /\ UNCHANGED <<out, player>>
    BY <1>5, <2>5
  <2> QED
    BY <2>1, <2>3, <2>4, <2>5
<1> QED
  BY <1>6, <1>7

LEMMA WholeKept ==
  ASSUME MediaInv, StretchInv, WholeUnits, [MediaNext]_mediaVars
  PROVE  StretchInv' /\ WholeUnits'
<1>0. /\ now \in Nat /\ Len(sentAt) \in Nat /\ sentAt \in Seq(Nat)
  BY DEF MediaInv, ClockInv
<1>1. CASE SendGroup \/ Tick
  <2>1. /\ UNCHANGED <<script, out, held>> /\ now' \in Nat /\ now <= now'
        /\ Len(sentAt) <= Len(sentAt') /\ Len(sentAt') \in Nat
        /\ \A g \in 1..Len(sentAt) : sentAt'[g] = sentAt[g]
    BY <1>0, <1>1 DEF SendGroup, Tick, asm
  <2> QED
    BY <1>0, <2>1, StretchStays
<1>2. CASE \E f \in Arriving : Feed(f)
  <2>1. PICK f \in Arriving : Feed(f)
    BY <1>2
  <2>2. Fed
    BY <2>1 DEF Feed, Fed
  <2>3. CASE FeedLate(f) \/ FeedConflict(f) \/ FeedPart(f)
    <3>1. (held' = held \/ held' = NoUnit) /\ UNCHANGED <<script, out, sentAt, now>>
      BY <2>2, <2>3 DEF FeedLate, FeedConflict, FeedPart, Continued, Fed
    <3> QED
      BY <1>0, <3>1, StretchStays
  <2>4. CASE FeedContinuation(f) \/ FeedUnit(f)
    BY <2>2, <2>4, StretchGrows
  <2> QED
    BY <2>1, <2>3, <2>4 DEF Feed
<1>3. CASE UNCHANGED <<script, sentAt, now, asm, out, player>>
  <2>1. held' = held /\ UNCHANGED <<script, out, sentAt, now>>
    BY <1>3 DEF asm
  <2> QED
    BY <1>0, <2>1, StretchStays
<1> QED
  BY <1>1, <1>2, <1>3 DEF MediaNext, MediaFails, mediaVars

\* Every unit that goes to the decoder is one unit of the camera, whole and in
\* order, for every width of the frame ids and every sequence of units, however
\* they are cut into groups and fragments.
THEOREM UnitsAreWhole == MediaSpec => []WholeUnits
<1>1. MediaInit => StretchInv /\ WholeUnits
  BY DEF MediaInit, StretchInv, WholeUnits
<1>2. MediaInv /\ StretchInv /\ WholeUnits /\ [MediaNext]_mediaVars => StretchInv' /\ WholeUnits'
  BY WholeKept
<1> QED
  BY <1>1, <1>2, MediaInvariant, PTL DEF MediaSpec

-----------------------------------------------------------------------------
(* DUML frames.                                                             *)

Starts == {f[1] : f \in found}
Covered(p) == \E q \in Starts : q < p /\ Inside(p, q)

StreamTypes == /\ stream \in Seq(Bytes) /\ offset \in 0..Len(stream)
               /\ scanning \in BOOLEAN /\ closed \in BOOLEAN

\* What was returned are frames, all of whose bytes have left the buffer.
FramesInv == /\ found = {<<p, stream[p + 1]>> : p \in Starts}
             /\ \A p \in Starts : /\ p \in 1..offset /\ FrameAt(p) /\ ~Covered(p)
                                  /\ p + stream[p + 1] - 1 <= offset

\* No frame begins at p, whatever bytes come after those that are there.
NoFrame(p) == \/ stream[p] # Magic
              \/ p + Header - 1 <= Len(stream) /\ ~HeaderAt(p)
              \/ /\ HeaderAt(p) /\ p + stream[p + 1] - 1 <= Len(stream)
                 /\ stream[p + stream[p + 1] - 1] # TailOk

\* A byte leaves the buffer when it can begin no frame of its own.
DroppedInv == \A p \in 1..offset : p \in Starts \/ Covered(p) \/ NoFrame(p)

\* The loop ends when nothing is left, or what is left may become a frame.
Stuck == \/ offset = Len(stream)
         \/ Len(stream) - offset < Header
         \/ Unclosed(offset + 1)

StreamInv == /\ StreamTypes
             /\ ~closed => FramesInv /\ DroppedInv /\ (~scanning => Stuck)
             /\ closed => ~scanning /\ PiecesDoNotMatter

LeftmostUpTo(S, n) ==
    /\ S \subseteq 1..n
    /\ \A p \in 1..n : p \in S <=> FrameAt(p) /\ ~\E q \in S : q < p /\ Inside(p, q)

LEMMA LeftmostExists ==
  ASSUME NEW n \in Nat
  PROVE  \E S : LeftmostUpTo(S, n)
<1> DEFINE Bad == {m \in Nat : ~ \E S : LeftmostUpTo(S, m)}
<1> SUFFICES ASSUME Bad # {}  PROVE FALSE
  OBVIOUS
<1>1. PICK m \in Bad : \A k \in Bad : m <= k
  BY LeastOf
<1>2. LeftmostUpTo({}, 0)
  BY DEF LeftmostUpTo
<1>3. m \in Nat /\ m # 0
  BY <1>2
<1>4. m - 1 \in Nat /\ ~(m <= m - 1)
  BY <1>3
<1>5. PICK S : LeftmostUpTo(S, m - 1)
  BY <1>1, <1>4
<1> DEFINE open == FrameAt(m) /\ ~\E q \in S : q < m /\ Inside(m, q)
           T == IF open THEN S \cup {m} ELSE S
<1>6. LeftmostUpTo(T, m)
  <2>1. S \subseteq 1..m - 1 /\ m \notin 1..m - 1 /\ 1..m = (1..m - 1) \cup {m}
    BY <1>3, <1>5 DEF LeftmostUpTo
  <2>2. \A q \in T, p \in 1..m : q < p => q \in S
    BY <1>3, <2>1
  <2>3. S \subseteq T /\ m \notin S
    BY <2>1
  <2>4. \A p \in 1..m : (\E q \in T : q < p /\ Inside(p, q)) <=> \E q \in S : q < p /\ Inside(p, q)
    BY <2>2, <2>3
  <2>5. \A p \in 1..m - 1 : p \in T <=> p \in S
    BY <2>1
  <2>6. m \in T <=> open
    BY <2>3
  <2> HIDE DEF T
  <2>7. ASSUME NEW p \in 1..m
        PROVE  p \in T <=> FrameAt(p) /\ ~\E q \in T : q < p /\ Inside(p, q)
    <3>1. CASE p = m
      BY <3>1, <2>4, <2>6
    <3>2. CASE p # m
      BY <3>2, <2>1, <2>4, <2>5, <1>5 DEF LeftmostUpTo
    <3> QED
      BY <3>1, <3>2
  <2>8. T \subseteq 1..m
    BY <2>1 DEF T
  <2> QED
    BY <2>7, <2>8 DEF LeftmostUpTo
<1> QED
  BY <1>6

\* When feed returns, it has found what one finds in the whole.
LEMMA FoundInTheWhole ==
  ASSUME StreamTypes, FramesInv, DroppedInv, Stuck
  PROVE  found = Frames
<1> DEFINE Begins == {p \in 1..Len(stream) : FrameAt(p)}
           S == CHOOSE S \in SUBSET Begins : Leftmost(S)
           blocked == {p \in 1..Len(stream) : Unclosed(p) /\ ~\E q \in S : q < p /\ Inside(p, q)}
<1>0. Len(stream) \in Nat /\ offset \in Nat /\ offset <= Len(stream)
  BY DEF StreamTypes
<1>1. S \in SUBSET Begins /\ Leftmost(S)
  <2>1. PICK R : LeftmostUpTo(R, Len(stream))
    BY <1>0, LeftmostExists
  <2>2. R \in SUBSET Begins /\ Leftmost(R)
    BY <2>1 DEF LeftmostUpTo, Leftmost
  <2> QED
    BY <2>2
<1> HIDE DEF S
<1>2. \A p \in Starts : /\ p \in 1..offset /\ FrameAt(p) /\ ~Covered(p)
                        /\ p + stream[p + 1] - 1 <= offset
  BY DEF FramesInv
<1>3. \A p \in S : p \in 1..Len(stream) /\ FrameAt(p)
  BY <1>1
<1>4. \A p \in 1..Len(stream) : NoFrame(p) => ~FrameAt(p) /\ ~Unclosed(p)
  <2>1. \A p \in 1..Len(stream) : HeaderAt(p) => stream[p + 1] \in Nat
    BY StreamAssumption DEF HeaderAt
  <2> QED
    BY <1>0, <2>1 DEF NoFrame, FrameAt, HeaderAt, Unclosed, Header
<1>5. \A p \in 1..offset : p \in S <=> p \in Starts
  <2> DEFINE Bad == {p \in 1..offset : ~(p \in S <=> p \in Starts)}
  <2> SUFFICES ASSUME Bad # {}  PROVE FALSE
    OBVIOUS
  <2>0. Bad \subseteq Nat
    BY <1>0
  <2>1. PICK m \in Bad : \A k \in Bad : m <= k
    BY <2>0, LeastOf
  <2>2. m \in 1..offset /\ m \in 1..Len(stream) /\ ~(m \in S <=> m \in Starts)
    BY <1>0
  <2>3. \A q \in 1..Len(stream) : q < m => (q \in S <=> q \in Starts)
    BY <1>0, <2>1, <2>2
  <2>4. (\E q \in S : q < m /\ Inside(m, q)) <=> Covered(m)
    BY <1>0, <1>2, <1>3, <2>3 DEF Covered
  <2>5. m \in S <=> FrameAt(m) /\ ~Covered(m)
    BY <1>1, <2>2, <2>4 DEF Leftmost
  <2>6. m \in Starts => FrameAt(m) /\ ~Covered(m)
    BY <1>2
  <2>7. m \notin Starts => Covered(m) \/ ~FrameAt(m)
    BY <1>4, <2>2 DEF DroppedInv
  <2> QED
    BY <2>2, <2>5, <2>6, <2>7
<1>6. \A p \in 1..offset : (\E q \in S : q < p /\ Inside(p, q)) <=> Covered(p)
  BY <1>0, <1>2, <1>3, <1>5 DEF Covered
<1>7. \A b \in blocked : b \in Nat /\ offset < b
  <2> SUFFICES ASSUME NEW b \in blocked, b \in 1..offset  PROVE FALSE
    BY <1>0
  <2>1. Unclosed(b) /\ ~Covered(b) /\ b \in 1..Len(stream)
    BY <1>6
  <2>2. b \notin Starts
    <3>1. stream[b + 1] \in Nat
      BY <2>1, StreamAssumption DEF Unclosed, HeaderAt
    <3> QED
      BY <1>0, <1>2, <2>1, <3>1 DEF FrameAt, Unclosed
  <2> QED
    BY <1>4, <2>1, <2>2 DEF DroppedInv
<1>8. ASSUME NEW p \in S, \A b \in blocked : p < b
      PROVE  p \in 1..offset
  <2> SUFFICES ASSUME offset < p  PROVE FALSE
    BY <1>0, <1>3
  <2>1. p \in 1..Len(stream) /\ HeaderAt(p)
    BY <1>3 DEF FrameAt
  <2>2. Unclosed(offset + 1)
    BY <1>0, <2>1 DEF Stuck, HeaderAt, Header
  <2>3. ~\E q \in S : q < offset + 1 /\ Inside(offset + 1, q)
    <3> SUFFICES ASSUME NEW q \in S, q < offset + 1, Inside(offset + 1, q)  PROVE FALSE
      OBVIOUS
    <3>1. q \in 1..offset /\ q \in Starts
      BY <1>0, <1>3, <1>5
    <3>2. stream[q + 1] \in Nat
      BY <1>2, <3>1, StreamAssumption DEF FrameAt, HeaderAt
    <3> QED
      BY <1>0, <1>2, <3>1, <3>2 DEF Inside
  <2>4. offset + 1 \in blocked
    BY <1>0, <2>1, <2>2, <2>3
  <2> QED
    BY <1>0, <1>8, <2>1, <2>4
<1>9. {p \in S : \A b \in blocked : p < b} = Starts
  <2>1. ASSUME NEW p \in S, \A b \in blocked : p < b
        PROVE  p \in Starts
    BY <1>5, <1>8, <2>1
  <2>2. ASSUME NEW p \in Starts
        PROVE  p \in S /\ \A b \in blocked : p < b
    <3>1. p \in 1..offset /\ p \in S
      BY <1>2, <1>5
    <3> QED
      BY <1>0, <1>7, <3>1
  <2> HIDE DEF blocked
  <2> QED
    BY <2>1, <2>2, Zenon
<1>10. Frames = {<<p, stream[p + 1]>> : p \in {p \in S : \A b \in blocked : p < b}}
  BY DEF Frames, S, Begins, blocked
<1> QED
  BY <1>9, <1>10 DEF FramesInv

\* What a longer stream leaves as it was.
LEMMA MoreBytes ==
  ASSUME StreamTypes, FeedPiece
  PROVE  /\ stream' \in Seq(Bytes) /\ Len(stream) < Len(stream')
         /\ \A p \in 1..Len(stream) : stream'[p] = stream[p]
<1>1. PICK n \in 1..MaxPiece : \E piece \in [1..n -> Bytes] : stream' = stream \o piece
  BY DEF FeedPiece
<1>2. PICK piece \in [1..n -> Bytes] : stream' = stream \o piece
  BY <1>1
<1>3. piece \in Seq(Bytes) /\ Len(piece) = n /\ n \in Nat \ {0}
  BY StreamAssumption
<1> QED
  BY <1>2, <1>3 DEF StreamTypes

LEMMA FeedKeeps ==
  ASSUME StreamTypes, FramesInv, DroppedInv, FeedPiece
  PROVE  StreamTypes' /\ FramesInv' /\ DroppedInv'
<1>0. /\ Len(stream) \in Nat /\ Len(stream') \in Nat /\ Len(stream) < Len(stream')
      /\ \A p \in 1..Len(stream) : stream'[p] = stream[p]
      /\ offset' = offset /\ offset \in Nat /\ offset <= Len(stream) /\ found' = found
  BY MoreBytes DEF StreamTypes, FeedPiece
<1>1. StreamTypes'
  BY <1>0, MoreBytes DEF StreamTypes, FeedPiece
<1>2. Starts' = Starts
  BY <1>0 DEF Starts
<1>3. \A p \in 1..Len(stream) : HeaderAt(p) =>
         HeaderAt(p)' /\ stream[p + 1] \in Nat \ {0} /\ stream'[p + 1] = stream[p + 1]
  <2> SUFFICES ASSUME NEW p \in 1..Len(stream), HeaderAt(p)
               PROVE  HeaderAt(p)' /\ stream[p + 1] \in Nat \ {0} /\ stream'[p + 1] = stream[p + 1]
    OBVIOUS
  <2>1. p + 1 \in 1..Len(stream) /\ p + 2 \in 1..Len(stream)
    BY <1>0 DEF HeaderAt, Header
  <2>2. stream'[p] = stream[p] /\ stream'[p + 1] = stream[p + 1] /\ stream'[p + 2] = stream[p + 2]
    BY <1>0, <2>1
  <2>3. stream[p + 1] \in Nat \ {0}
    <3>1. stream[p + 1] \in Lengths
      BY DEF HeaderAt
    <3>2. \A n \in Lengths : n \in Nat /\ n > 3
      BY StreamAssumption
    <3> QED
      BY <3>1, <3>2
  <2> QED
    BY <1>0, <2>2, <2>3 DEF HeaderAt, Header
<1>4. \A p \in 1..Len(stream) : FrameAt(p) => FrameAt(p)'
  BY <1>0, <1>3 DEF FrameAt
<1>5. \A p \in Starts : p \in 1..Len(stream) /\ FrameAt(p) /\ stream'[p + 1] = stream[p + 1]
  BY <1>0, <1>3 DEF FramesInv, FrameAt
<1>6. \A p \in 1..offset : Covered(p)' <=> Covered(p)
  BY <1>2, <1>5 DEF Covered, Inside
<1>7. FramesInv'
  <2>1. found' = {<<p, stream'[p + 1]>> : p \in Starts'}
    BY <1>0, <1>2, <1>5 DEF FramesInv
  <2>2. \A p \in Starts : FrameAt(p)' /\ ~Covered(p)' /\ p \in 1..offset /\ p + stream'[p + 1] - 1 <= offset
    BY <1>4, <1>5, <1>6 DEF FramesInv
  <2> QED
    BY <1>0, <1>2, <2>1, <2>2 DEF FramesInv
<1>8. \A p \in 1..offset : NoFrame(p) => NoFrame(p)'
  BY <1>0, <1>3 DEF NoFrame, HeaderAt, Header
<1>9. DroppedInv'
  BY <1>0, <1>2, <1>6, <1>8 DEF DroppedInv
<1> QED
  BY <1>1, <1>7, <1>9

\* Bytes that begin no frame are dropped.
LEMMA DropKeeps ==
  ASSUME StreamTypes, FramesInv, DroppedInv, NEW n \in 1..Buffered, Drop(n),
         \A p \in offset + 1..offset + n : NoFrame(p)
  PROVE  StreamTypes' /\ FramesInv' /\ DroppedInv'
<1>0. /\ offset \in Nat /\ n \in Nat \ {0} /\ offset' = offset + n /\ Len(stream) \in Nat
      /\ offset + n <= Len(stream)
      /\ stream' = stream /\ found' = found /\ scanning' = scanning /\ closed' = closed
  BY DEF StreamTypes, Drop, Buffered
<1>1. StreamTypes'
  BY <1>0 DEF StreamTypes
<1>2. Starts' = Starts /\ \A p : (Covered(p)' <=> Covered(p)) /\ (FrameAt(p)' <=> FrameAt(p))
                                 /\ (NoFrame(p)' <=> NoFrame(p))
  BY <1>0 DEF Starts, Covered, Inside, FrameAt, HeaderAt, NoFrame
<1>3. FramesInv'
  <2>1. \A p \in Starts : stream[p + 1] \in Nat
    BY StreamAssumption DEF FramesInv, FrameAt, HeaderAt
  <2> QED
    BY <1>0, <1>2, <2>1 DEF FramesInv
<1>4. DroppedInv'
  BY <1>0, <1>2 DEF DroppedInv
<1> QED
  BY <1>1, <1>3, <1>4

\* A frame is returned.
LEMMA FrameKeeps ==
  ASSUME StreamTypes, FramesInv, DroppedInv, Frame
  PROVE  StreamTypes' /\ FramesInv' /\ DroppedInv'
<1> DEFINE new == offset + 1
           size == stream[new + 1]
<1>0. /\ offset \in Nat /\ Len(stream) \in Nat /\ new \in 1..Len(stream)
      /\ size \in Lengths /\ size \in Nat /\ size > 3 /\ offset + size <= Len(stream)
      /\ stream[new] = Magic /\ stream[new + 2] = HeaderOk /\ stream[offset + size] = TailOk
  <2>1. offset \in Nat /\ Len(stream) \in Nat /\ offset <= Len(stream)
    BY DEF StreamTypes
  <2>2. new + 1 = offset + 2 /\ new + 2 = offset + 3
    BY <2>1
  <2>3. /\ Len(stream) - offset >= 3 /\ size <= Len(stream) - offset
        /\ size \in Lengths /\ stream[new] = Magic /\ stream[new + 2] = HeaderOk
        /\ stream[offset + size] = TailOk
    BY <2>2 DEF Frame, Candidate, Marked, At, Buffered, Header
  <2>4. size \in Nat /\ size > 3
    BY <2>3, StreamAssumption
  <2> HIDE DEF size
  <2> QED
    BY <2>1, <2>3, <2>4
<1>1. /\ offset' = offset + size /\ found' = found \cup {<<new, size>>}
      /\ stream' = stream /\ scanning' = scanning /\ closed' = closed
  BY <1>0 DEF Frame, At
<1> HIDE DEF size
<1>2. StreamTypes'
  BY <1>0, <1>1 DEF StreamTypes
<1>3. Starts' = Starts \cup {new}
  <2>1. <<new, size>>[1] = new
    OBVIOUS
  <2>2. Starts' = {f[1] : f \in found \cup {<<new, size>>}}
    BY <1>1 DEF Starts
  <2>3. {f[1] : f \in found \cup {<<new, size>>}} = {f[1] : f \in found} \cup {<<new, size>>[1]}
    OBVIOUS
  <2> QED
    BY <2>1, <2>2, <2>3 DEF Starts
<1>4. FrameAt(new)
  BY <1>0 DEF FrameAt, HeaderAt, Header, size
<1>5. \A p \in Starts : stream[p + 1] \in Nat /\ p \in 1..offset /\ p + stream[p + 1] - 1 <= offset
  BY StreamAssumption DEF FramesInv, FrameAt, HeaderAt
<1>6. ~Covered(new)
  BY <1>0, <1>5 DEF Covered, Inside
<1>7. \A p : (FrameAt(p)' <=> FrameAt(p)) /\ (NoFrame(p)' <=> NoFrame(p))
  BY <1>1 DEF FrameAt, HeaderAt, NoFrame
<1>8. \A p \in 1..new : Covered(p)' <=> Covered(p)
  BY <1>0, <1>1, <1>3 DEF Covered, Inside
<1>9. \A p \in new + 1..offset + size : Covered(p)'
  <2> SUFFICES ASSUME NEW p \in new + 1..offset + size  PROVE Covered(p)'
    OBVIOUS
  <2>1. new < p /\ new <= p /\ p < new + stream'[new + 1]
    BY <1>0, <1>1 DEF size
  <2> QED
    BY <1>3, <2>1 DEF Covered, Inside
<1>10. FramesInv'
  <2>1. found' = {<<p, stream'[p + 1]>> : p \in Starts'}
    BY <1>1, <1>3 DEF FramesInv, size
  <2>2. ASSUME NEW p \in Starts'
        PROVE  /\ p \in 1..offset + size /\ FrameAt(p)' /\ ~Covered(p)'
               /\ p + stream'[p + 1] - 1 <= offset + size
    <3>1. CASE p = new
      BY <3>1, <1>0, <1>1, <1>4, <1>6, <1>7, <1>8 DEF size
    <3>2. CASE p \in Starts
      <4>1. FrameAt(p) /\ ~Covered(p)
        BY <3>2 DEF FramesInv
      <4> QED
        BY <3>2, <4>1, <1>0, <1>1, <1>5, <1>7, <1>8
    <3> QED
      BY <1>3, <3>1, <3>2
  <2> QED
    BY <1>1, <2>1, <2>2 DEF FramesInv
<1>11. DroppedInv'
  <2> SUFFICES ASSUME NEW p \in 1..offset + size
               PROVE  p \in Starts' \/ Covered(p)' \/ NoFrame(p)'
    BY <1>1 DEF DroppedInv
  <2>1. CASE p \in 1..offset
    BY <2>1, <1>0, <1>3, <1>7, <1>8 DEF DroppedInv
  <2>2. CASE p = new
    BY <2>2, <1>3
  <2>3. CASE p \in new + 1..offset + size
    BY <2>3, <1>9
  <2> QED
    BY <1>0, <2>1, <2>2, <2>3
<1> QED
  BY <1>2, <1>10, <1>11

\* What is dropped without being a frame cannot begin one.
LEMMA BadKeeps ==
  ASSUME StreamTypes, FramesInv, DroppedInv, SkipGarbage \/ BadHeader \/ BadTail
  PROVE  StreamTypes' /\ FramesInv' /\ DroppedInv'
<1>0. offset \in Nat /\ Len(stream) \in Nat /\ offset <= Len(stream)
  BY DEF StreamTypes
<1>1. CASE SkipGarbage
  <2>1. PICK n \in 1..Buffered : (\A k \in 1..n : At(k) # Magic) /\ Drop(n)
    BY <1>1 DEF SkipGarbage
  <2>2. \A p \in offset + 1..offset + n : p - offset \in 1..n /\ p = offset + (p - offset)
    BY <1>0 DEF Buffered
  <2>3. \A p \in offset + 1..offset + n : NoFrame(p)
    BY <2>1, <2>2 DEF At, NoFrame
  <2> QED
    BY <2>1, <2>3, DropKeeps
<1>2. CASE BadHeader
  <2>1. Drop(1) /\ 1 \in 1..Buffered
    BY <1>0, <1>2 DEF BadHeader, Buffered, Header
  <2>2. NoFrame(offset + 1)
    BY <1>0, <1>2 DEF BadHeader, Buffered, Header, At, NoFrame, HeaderAt
  <2> QED
    BY <1>0, <2>1, <2>2, DropKeeps
<1>3. CASE BadTail
  <2>1. Drop(1) /\ 1 \in 1..Buffered
    BY <1>0, <1>3 DEF BadTail, Candidate, Buffered, Header
  <2>2. NoFrame(offset + 1)
    <3>1. stream[offset + 2] \in Nat
      BY <1>3, StreamAssumption DEF BadTail, Candidate, At
    <3> QED
      BY <1>0, <1>3, <3>1 DEF BadTail, Candidate, Marked, Buffered, Header, At, NoFrame, HeaderAt
  <2> QED
    BY <1>0, <2>1, <2>2, DropKeeps
<1> QED
  BY <1>1, <1>2, <1>3

LEMMA StreamStarts == StreamInit => StreamInv
<1> SUFFICES ASSUME StreamInit  PROVE StreamInv
  OBVIOUS
<1>1. StreamTypes /\ ~closed /\ Stuck
  <2>1. stream = <<>> /\ <<>> \in Seq(Bytes) /\ Len(<<>>) = 0
    BY DEF StreamInit
  <2>2. scanning \in BOOLEAN /\ closed \in BOOLEAN /\ ~closed /\ offset = 0
    BY DEF StreamInit
  <2> QED
    BY <2>1, <2>2 DEF StreamTypes, Stuck
<1>2. Starts = {}
  BY DEF StreamInit, Starts
<1> QED
  BY <1>1, <1>2 DEF StreamInit, StreamInv, FramesInv, DroppedInv

LEMMA StreamKept == StreamInv /\ [StreamNext]_streamVars => StreamInv'
<1> SUFFICES ASSUME StreamInv, [StreamNext]_streamVars  PROVE StreamInv'
  OBVIOUS
<1>0. StreamTypes
  BY DEF StreamInv
<1>1. CASE FeedPiece
  <2>1. ~closed /\ closed' = closed /\ scanning' = TRUE
    BY <1>1 DEF FeedPiece
  <2> QED
    BY <1>0, <1>1, <2>1, FeedKeeps DEF StreamInv
<1>2. CASE SkipGarbage \/ BadHeader \/ BadTail \/ Frame
  <2>1. scanning /\ scanning' = scanning /\ closed' = closed
    BY <1>2 DEF SkipGarbage, BadHeader, BadTail, Frame, Candidate, Drop
  <2>2. ~closed
    BY <2>1 DEF StreamInv
  <2> QED
    BY <1>0, <1>2, <2>1, <2>2, BadKeeps, FrameKeeps DEF StreamInv
<1>3. CASE Incomplete
  <2>1. /\ scanning /\ ~scanning' /\ stream' = stream /\ offset' = offset
        /\ found' = found /\ closed' = closed /\ scanning' = FALSE
    BY <1>3 DEF Incomplete, Wait
  <2>2. ~closed
    BY <2>1 DEF StreamInv
  <2>3. Stuck
    <3>1. offset \in Nat /\ Len(stream) \in Nat
      BY <1>0 DEF StreamTypes
    <3>2. offset + 1 + 1 = offset + 2 /\ offset + 1 + 2 = offset + 3
      BY <3>1
    <3>3. CASE Buffered = 0 \/ Buffered < Header
      BY <3>1, <3>3 DEF Buffered, Stuck
    <3>4. CASE /\ Marked /\ Buffered >= Header
               /\ At(2) \in Lengths /\ At(3) = HeaderOk
               /\ Buffered < At(2)
      <4>1. At(2) \in Nat
        BY <3>4, StreamAssumption
      <4>2. HeaderAt(offset + 1)
        BY <3>1, <3>2, <3>4 DEF HeaderAt, Marked, Buffered, At, Header
      <4>3. Unclosed(offset + 1)
        BY <3>1, <3>2, <3>4, <4>1, <4>2 DEF Unclosed, Buffered, At
      <4> QED
        BY <4>3 DEF Stuck
    <3> QED
      BY <1>3, <3>3, <3>4 DEF Incomplete
  <2>4. StreamTypes' /\ FramesInv' /\ DroppedInv' /\ Stuck'
    BY <2>1, <2>2, <2>3 DEF StreamInv, StreamTypes, FramesInv, DroppedInv, Stuck, Starts, Covered,
                            Inside, FrameAt, HeaderAt, NoFrame, Unclosed
  <2> QED
    BY <2>1, <2>2, <2>4 DEF StreamInv
<1>4. CASE EndOfPacket
  <2>1. /\ ~scanning /\ ~closed /\ closed' = TRUE /\ offset' = Len(stream)
        /\ stream' = stream /\ found' = found /\ scanning' = scanning
    BY <1>4 DEF EndOfPacket
  <2>2. found = Frames
    BY <1>0, <2>1, FoundInTheWhole DEF StreamInv
  <2>3. Frames' = Frames
    BY <2>1 DEF Frames, FrameAt, HeaderAt, Leftmost, Inside, Unclosed
  <2>4. StreamTypes'
    BY <2>1, <1>0 DEF StreamTypes
  <2> QED
    BY <2>1, <2>2, <2>3, <2>4 DEF StreamInv, PiecesDoNotMatter
<1>5. CASE UNCHANGED streamVars
  <2>1. /\ stream' = stream /\ offset' = offset /\ found' = found
        /\ scanning' = scanning /\ closed' = closed
    BY <1>5 DEF streamVars
  <2> QED
    <3>1. StreamTypes' = StreamTypes /\ FramesInv' = FramesInv /\ DroppedInv' = DroppedInv
          /\ Stuck' = Stuck
      BY <2>1 DEF StreamTypes, FramesInv, DroppedInv, Stuck, Starts, Covered, Inside, FrameAt,
                  HeaderAt, NoFrame, Unclosed
    <3>2. PiecesDoNotMatter' = PiecesDoNotMatter
      BY <2>1 DEF PiecesDoNotMatter, Frames, Leftmost, FrameAt, HeaderAt, Inside, Unclosed
    <3> QED
      BY <2>1, <3>1, <3>2 DEF StreamInv
<1> QED
  BY <1>1, <1>2, <1>3, <1>4, <1>5 DEF StreamNext

\* The invariant of the loop that finds the frames.
THEOREM StreamInvariant == StreamSpec => []StreamInv
  BY StreamStarts, StreamKept, PTL DEF StreamSpec

\* However the bytes are cut into pieces, feed returns the frames that one
\* finds from the left in the whole stream (reassembly.py 48-96).
THEOREM FramesDoNotDependOnPieces == StreamSpec => []PiecesDoNotMatter
<1>1. StreamInv => PiecesDoNotMatter
  BY FoundInTheWhole DEF StreamInv, PiecesDoNotMatter
<1> QED
  BY <1>1, StreamInvariant, PTL

-----------------------------------------------------------------------------
\* In the session each part of the receiving side behaves as it does by itself.
THEOREM PartsAreThemselves == LinkSpec => Spec /\ MediaSpec /\ StreamSpec
<1>1. LinkInit => Init /\ MediaInit /\ StreamInit
  BY DEF LinkInit
<1>2. [LinkNext]_<<vars, mediaVars, streamVars, part>>
        => [Next]_vars /\ [MediaNext]_mediaVars /\ [StreamNext]_streamVars
  BY Zenon DEF LinkNext
<1> QED
  BY <1>1, <1>2, PTL DEF LinkSpec, Spec, MediaSpec, StreamSpec
=============================================================================
