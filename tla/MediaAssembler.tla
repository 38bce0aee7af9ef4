---------------------------- MODULE MediaAssembler ----------------------------
(***************************************************************************)
(* OnlineMediaAssembler.feed: fragments of video groups come in from UDP,  *)
(* lost, doubled and out of order, and whole access units go out to the    *)
(* decoder.  A group is what shares a frame id, which wraps at IdMod (256  *)
(* in the code); an access unit is one group, or, when it is large,        *)
(* several of which all but the last have FullCount fragments of full      *)
(* length (63 of 1452 bytes).  Time counts in half seconds.                *)
(***************************************************************************)
EXTENDS Integers, Sequences, SequencesExt, FiniteSets

CONSTANTS Scripts,     \* the sequences of groups that the camera may send
          IdMod,       \* frame ids before the wrap
          FullCount,   \* fragments of a group that a large unit goes beyond
          Keep,        \* how long a settled frame id is kept (2 s in the code)
          MaxDelay,    \* bound: how long a fragment may be under way
          MaxTime      \* bound: how long the camera sends

Expire == 1            \* 0.5 s: pending groups and continuations
Full == 2              \* a fragment of full length; others are shorter

\* A frame id is forgotten before it comes round (256 groups take longer than
\* the 2 s and the way of a fragment), but not before its last fragment is in.
ASSUME MediaAssumption ==
    /\ IdMod \in Nat /\ Keep \in Nat /\ MaxDelay \in Nat
    /\ Expire < Keep /\ MaxDelay < Keep
    /\ Keep + MaxDelay <= IdMod

\* A group of a script: its access unit, its fragments' sizes, and, if it is
\* the unit's first group, the unit's size and kinds of NAL units.
GroupType == [unit : Nat \ {0}, sizes : Seq(1..Full) \ {<<>>},
              length : Nat, nals : SUBSET {"sps", "pps", "key", "delta"}]

Sums(a) == LET upTo[i \in 0..Len(a)] == IF i = 0 THEN 0 ELSE upTo[i - 1] + a[i]
           IN  upTo
Total(a) == Sums(a)[Len(a)]

\* Groups of a unit follow each other; the first tells their length, which no
\* other groups from there on have.
Groups(s, unit) == {g \in 1..Len(s) : s[g].unit = unit}
Ends(s) == Sums([g \in 1..Len(s) |-> Total(s[g].sizes)])

ASSUME ScriptAssumption ==
    \A s \in Scripts :
        /\ s \in Seq(GroupType)
        /\ \A h \in 1..Len(s) : s[h].length > 0 =>
              /\ \A g \in Groups(s, s[h].unit) : s[g].length > 0 => g = h
              /\ \A j \in h..Len(s) : Ends(s)[j] - Ends(s)[h - 1] = s[h].length
                                       => Groups(s, s[h].unit) = h..j

VARIABLES script,      \* what the camera sends, one group at a time
          sentAt,      \* times at which its groups were sent
          now,
          pending,     \* frame id -> time, count and parts
          settled,     \* frame id -> time (and, for the record, the group)
          held,        \* the continuation, or NoUnit
          out,         \* access units returned by feed
          sps, pps, ready, pushed,    \* NormalVideoPlayer
          ended        \* feed or push raised: the session ends

asm == <<pending, settled, held>>
player == <<sps, pps, ready, pushed>>
mediaVars == <<script, sentAt, now, asm, out, player, ended>>

Id(g) == g % IdMod
Nothing == [id \in {} |-> 0]
NoUnit == [unit |-> 0, raw |-> <<>>, length |-> 0, next |-> 0, time |-> 0]

\* A fragment: its group, its place there, the count it claims; a garbled copy
\* of the first one has another payload or claims another count.
Fragments(g) ==
    LET n == Len(script[g].sizes)
    IN  [group : {g}, index : 1..n, count : {n}, genuine : {TRUE}]
        \cup [group : {g}, index : {1}, count : {n, n + 1}, genuine : {FALSE}]

\* Everything sent within MaxDelay may come in now, again, or never.
Arriving == UNION {Fragments(g) : g \in {h \in 1..Len(sentAt) : now - sentAt[h] <= MaxDelay}}

MediaInit == /\ script \in Scripts /\ sentAt = <<>> /\ now = 0
             /\ pending = Nothing /\ settled = Nothing /\ held = NoUnit
             /\ out = <<>> /\ ended = FALSE
             /\ sps = FALSE /\ pps = FALSE /\ ready = FALSE /\ pushed = <<>>

-----------------------------------------------------------------------------
(* The camera and the clock.                                                *)

SendGroup == /\ Len(sentAt) < Len(script)
             /\ now \notin Range(sentAt)
             /\ sentAt' = Append(sentAt, now)
             /\ UNCHANGED <<script, now, asm, out, player, ended>>

Tick == /\ now < MaxTime
        /\ now' = now + 1
        /\ UNCHANGED <<script, sentAt, asm, out, player, ended>>

-----------------------------------------------------------------------------
(* feed first forgets what is too old.                                      *)

Waiting == Restrict(pending, {k \in DOMAIN pending : now - pending[k].time <= Expire})

\* Mutant: a settled frame id is never given free.
DoneForEver == settled

Done == Restrict(settled, {k \in DOMAIN settled : now - settled[k].time < Keep})

\* Mutant: a continuation waits for as long as it takes.
ContinuedForEver == held

Continued == IF now - held.time > Expire THEN NoUnit ELSE held

With(f, key, value) == [k \in DOMAIN f \cup {key} |-> IF k = key THEN value ELSE f[k]]
Item(f) == IF Id(f.group) \in DOMAIN Waiting THEN Waiting[Id(f.group)]
           ELSE [time |-> now, count |-> f.count, parts |-> Nothing]
Payload(f) == [group |-> f.group, index |-> f.index, genuine |-> f.genuine]

Clash(f) == \/ Item(f).count # f.count
            \/ f.index \in DOMAIN Item(f).parts /\ Item(f).parts[f.index] # Payload(f)

\* Mutant: a frame that is done with is only forgotten.
Forget(f) == /\ pending' = Restrict(Waiting, DOMAIN Waiting \ {Id(f.group)})
             /\ settled' = Done

\* The frame id is done with, for Keep: nothing of it is taken again.
Finish(f) == /\ pending' = Restrict(Waiting, DOMAIN Waiting \ {Id(f.group)})
             /\ settled' = With(Done, Id(f.group), [time |-> now, group |-> f.group])

FeedLate(f) == /\ Id(f.group) \in DOMAIN Done
               /\ pending' = Waiting /\ settled' = Done /\ held' = Continued
               /\ UNCHANGED <<out, player>>

FeedConflict(f) == /\ Id(f.group) \notin DOMAIN Done
                   /\ Clash(f)
                   /\ Finish(f)
                   /\ held' = Continued
                   /\ UNCHANGED <<out, player>>

\* A new fragment of an incomplete group, or one that is there already.
Completed(f) == Cardinality(DOMAIN Item(f).parts \cup {f.index}) = Item(f).count

FeedPart(f) == /\ Id(f.group) \notin DOMAIN Done
               /\ ~Clash(f)
               /\ f.index \in DOMAIN Item(f).parts \/ ~Completed(f)
               /\ pending' = With(Waiting, Id(f.group),
                                 [Item(f) EXCEPT !.parts = With(@, f.index, Payload(f))])
               /\ settled' = Done /\ held' = Continued
               /\ UNCHANGED <<out, player>>

-----------------------------------------------------------------------------
(* The last fragment of a group.                                            *)

Raw(f) == [i \in 1..Item(f).count |-> IF i = f.index THEN Payload(f) ELSE Item(f).parts[i]]
SizeOf(part) == script[part.group].sizes[part.index]
Size(raw) == Total([i \in 1..Len(raw) |-> SizeOf(raw[i])])

\* The access-unit header leads the first group of a unit.
Headed(raw) == raw[1].genuine /\ raw[1].index = 1 /\ script[raw[1].group].length > 0
GoesOn(raw) == Len(raw) = FullCount /\ \A i \in 1..Len(raw) : SizeOf(raw[i]) = Full

NalsOf(unit) == script[CHOOSE g \in 1..Len(script) :
                         script[g].unit = unit /\ script[g].length > 0].nals

\* Mutant: a key picture is enough, whatever parameter sets there were.
PushKey(unit) ==
    LET nals == NalsOf(unit)
    IN  /\ sps' = (sps \/ "sps" \in nals)
        /\ pps' = (pps \/ "pps" \in nals)
        /\ ready' = (ready \/ "key" \in nals)
        /\ pushed' = IF ready' \/ nals \cap {"sps", "pps"} # {}
                     THEN Append(pushed, unit) ELSE pushed

\* NormalVideoPlayer.push: parameter sets always, pictures from the first key
\* picture that has both of them.
Push(unit) ==
    LET nals == NalsOf(unit)
    IN  /\ sps' = (sps \/ "sps" \in nals)
        /\ pps' = (pps \/ "pps" \in nals)
        /\ ready' = (ready \/ ("key" \in nals /\ sps' /\ pps'))
        /\ pushed' = IF ready' \/ nals \cap {"sps", "pps"} # {}
                     THEN Append(pushed, unit) ELSE pushed

Emit(unit, raw) == out' = Append(out, [unit |-> unit, raw |-> raw]) /\ Push(unit)

Ready(f) == /\ Id(f.group) \notin DOMAIN Done
            /\ ~Clash(f)
            /\ f.index \notin DOMAIN Item(f).parts
            /\ Completed(f)
            /\ Finish(f)

\* The group that the continuation waits for.
Expected(f) == /\ Continued # NoUnit
               /\ Id(f.group) = Continued.next
               /\ ~Headed(Raw(f))

FeedContinuation(f) ==
    /\ Ready(f)
    /\ Expected(f)
    /\ LET raw == Continued.raw \o Raw(f)
       IN  \/ /\ Size(raw) = Continued.length
              /\ held' = NoUnit
              /\ Emit(Continued.unit, raw)
           \/ /\ Size(raw) < Continued.length
              /\ GoesOn(Raw(f))
              /\ held' = [Continued EXCEPT !.raw = raw, !.next = (Id(f.group) + 1) % IdMod]
              /\ UNCHANGED <<out, player>>
           \/ /\ Size(raw) # Continued.length
              /\ Size(raw) > Continued.length \/ ~GoesOn(Raw(f))
              /\ held' = NoUnit
              /\ UNCHANGED <<out, player>>

\* Any other group drops the continuation; it must have a header of its own.
FeedUnit(f) ==
    /\ Ready(f)
    /\ ~Expected(f)
    /\ LET raw == Raw(f)
           unit == script[raw[1].group].unit
           length == script[raw[1].group].length
       IN  \/ /\ Headed(raw)
              /\ Size(raw) = length
              /\ held' = NoUnit
              /\ Emit(unit, raw)
           \/ /\ Headed(raw)
              /\ Size(raw) < length
              /\ GoesOn(raw)
              /\ held' = [unit |-> unit, raw |-> raw, length |-> length,
                          next |-> (Id(f.group) + 1) % IdMod, time |-> now]
              /\ UNCHANGED <<out, player>>
           \/ /\ ~Headed(raw) \/ Size(raw) > length \/ (Size(raw) < length /\ ~GoesOn(raw))
              /\ held' = NoUnit
              /\ UNCHANGED <<out, player>>

Feed(f) == /\ \/ FeedLate(f) \/ FeedConflict(f) \/ FeedPart(f)
              \/ FeedContinuation(f) \/ FeedUnit(f)
           /\ UNCHANGED <<script, sentAt, now, ended>>

\* A malformed fragment, or a decoder that does not keep up with its queue.
MediaFails == ended' = TRUE /\ UNCHANGED <<script, sentAt, now, asm, out, player>>

MediaNext == \/ /\ ~ended
                /\ SendGroup \/ Tick \/ MediaFails \/ \E f \in Arriving : Feed(f)
             \/ ended /\ UNCHANGED mediaVars

MediaSpec == MediaInit /\ [][MediaNext]_mediaVars

-----------------------------------------------------------------------------
(* What it promises.                                                        *)

Place(part) == <<part.group, part.index>>
Before(a, b) == a.group < b.group \/ (a.group = b.group /\ a.index < b.index)

\* All fragments of a unit of script s, each once and in order.
WholeUnit(s, unit, raw) ==
    /\ {Place(raw[i]) : i \in 1..Len(raw)} =
          UNION {{g} \X (1..Len(s[g].sizes)) : g \in Groups(s, unit)}
    /\ \A i, j \in 1..Len(raw) : i < j => Before(raw[i], raw[j])

\* A unit that goes out is one of the camera's, whole, under its own time stamp,
\* although frame ids are used again, groups interleave and large units are put
\* together from several (normal_stream.py 17-86).
WholeUnits == \A k \in 1..Len(out) : WholeUnit(script, out[k].unit, out[k].raw)

\* A frame id in use again is not mistaken for a late copy of the last frame
\* that had it (27-31).
RefusesOnlyCopies == \A f \in Arriving :
    Id(f.group) \in DOMAIN Done => Done[Id(f.group)].group = f.group

\* The decoder sees no picture before the key picture whose parameter sets it
\* has got (125-141).
StartsWithKey == \A k \in 1..Len(pushed) :
    LET upTo(nal) == \E j \in 1..k : nal \in NalsOf(pushed[j])
    IN  \/ NalsOf(pushed[k]) \cap {"sps", "pps"} # {}
        \/ upTo("key") /\ upTo("sps") /\ upTo("pps")

\* Together: a unit of the camera goes out at most once, none is made up.
Delivery == INSTANCE MediaDelivery WITH
    units <- {script[g].unit : g \in 1..Len(sentAt)},
    delivered <- [k \in 1..Len(out) |-> out[k].unit]
DeliversOnce == Delivery!DeliverySpec
=============================================================================
