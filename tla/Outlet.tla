------------------------------- MODULE Outlet -------------------------------
(***************************************************************************)
(* backends/platform/android/src/backend.rs's Outlet: how a session's      *)
(* events leave its mailbox for Java, on whichever thread put them there.  *)
(* No thread waits: one that finds another delivering leaves word          *)
(* (requested) and goes, and the one delivering looks for word after it    *)
(* has let go.                                                             *)
(*                                                                         *)
(* Sounds come from runtime/src/media/audio's Controls: the state is       *)
(* changed, and changed() then says it under the listener's lock.  The     *)
(* main thread changes it too (the mute), and a helper of the backend's    *)
(* own, such as FreeRDP's closer of idle streams, which is joined before   *)
(* the session ends.                                                       *)
(*                                                                         *)
(* Events are numbered (n) as they are put.                                *)
(***************************************************************************)
EXTENDS Mailbox

CONSTANTS
  Protocol, Main, Helpers,
  NoThread,
  MaxPuts,      \* bound: events put by the protocol's thread
  MaxChanges    \* bound: changes of the sound

Threads == {Protocol, Main} \cup Helpers

ASSUME OutletAssumption ==
  /\ Protocol # Main /\ Protocol \notin Helpers /\ Main \notin Helpers
  /\ NoThread \notin Threads
  /\ MaxPuts \in Nat /\ MaxChanges \in Nat

VARIABLES
  mb,           \* the mailbox
  requested,    \* Outlet::requested
  draining,     \* who holds Outlet::draining
  listener,     \* who holds Controls::listener
  sound,        \* the sound's state: how many changes it has had
  said,         \* the sound each thread has read to say
  pc, batch,    \* each thread, and the events it took and has to deliver
  puts,         \* history: how many events were put
  last,         \* history: the number of the last event delivered
  heard,        \* history: the last sound delivered
  told          \* history: Closed was delivered

vars == <<mb, requested, draining, listener, sound, said, pc, batch, puts, last, heard, told>>
delivered == <<last, heard, told>>

Go(t, label) == pc' = [pc EXCEPT ![t] = label]
Event(kind, v) == [is |-> kind, v |-> v, n |-> puts + 1]

Init ==
  /\ mb = NewMailbox
  /\ requested = FALSE /\ draining = NoThread /\ listener = NoThread
  /\ sound = 0 /\ puts = 0 /\ last = 0 /\ heard = 0 /\ told = FALSE
  /\ pc = [t \in Threads |-> "idle"]
  /\ batch = [t \in Threads |-> <<>>]
  /\ said = [t \in Threads |-> 0]

-----------------------------------------------------------------------------
(* What puts events *)

\* The protocol's thread queues an event.
Put ==
  /\ pc[Protocol] = "idle" /\ puts < MaxPuts
  /\ \E kind \in {"bell", "mode"} : mb' = Push(mb, Event(kind, 0))
  /\ puts' = puts + 1
  /\ Go(Protocol, "request")
  /\ UNCHANGED <<requested, draining, listener, sound, said, batch, delivered>>

\* set_muted, set_offer or stream_playing: the state changes, under its own lock.
ChangeSound(t) ==
  /\ pc[t] = "idle" /\ sound < MaxChanges
  /\ sound' = sound + 1
  /\ Go(t, "changed")
  /\ UNCHANGED <<mb, requested, draining, listener, said, batch, puts, delivered>>

\* Mutant: changed() calls the listener without holding its lock.
LockListenerNot(t) ==
  /\ pc[t] = "changed"
  /\ Go(t, "read")
  /\ UNCHANGED <<mb, requested, draining, listener, sound, said, batch, puts, delivered>>

LockListener(t) ==
  /\ pc[t] = "changed" /\ listener = NoThread
  /\ listener' = t
  /\ Go(t, "read")
  /\ UNCHANGED <<mb, requested, draining, sound, said, batch, puts, delivered>>

\* changed(): the sound is read, under the listener's lock...
ReadSound(t) ==
  /\ pc[t] = "read"
  /\ said' = [said EXCEPT ![t] = sound]
  /\ Go(t, "say")
  /\ UNCHANGED <<mb, requested, draining, listener, sound, batch, puts, delivered>>

\* ... and what was read is put as an event, which the end may have overtaken.
SaySound(t) ==
  /\ pc[t] = "say"
  /\ LET e == Event("sound", said[t]) IN
       /\ mb' = Push(mb, e)
       /\ puts' = IF Pushes(mb, e) THEN puts + 1 ELSE puts
       /\ Go(t, IF Pushes(mb, e) THEN "request" ELSE "return")
  /\ UNCHANGED <<requested, draining, listener, sound, said, batch, delivered>>

\* Mutant: the helpers are not waited for.
CloseAtOnce ==
  /\ pc[Protocol] = "idle" /\ mb.state # "Closed"
  /\ mb' = Push(mb, Event("closed", 0))
  /\ puts' = puts + 1
  /\ pc' = [t \in Threads |-> IF t = Protocol THEN "request" ELSE pc[t]]
  /\ UNCHANGED <<requested, draining, listener, sound, said, batch, delivered>>

\* closed, the thread's last event; its helpers have been joined.
Close ==
  /\ pc[Protocol] = "idle" /\ mb.state # "Closed"
  /\ \A h \in Helpers : pc[h] = "idle"
  /\ mb' = Push(mb, Event("closed", 0))
  /\ puts' = puts + 1
  /\ pc' = [t \in Threads |-> CASE t = Protocol -> "request"
                                [] t \in Helpers -> "over"
                                [] OTHER -> pc[t]]
  /\ UNCHANGED <<requested, draining, listener, sound, said, batch, delivered>>

-----------------------------------------------------------------------------
(* wake *)

Request(t) ==
  /\ pc[t] = "request"
  /\ requested' = TRUE
  /\ Go(t, "try")
  /\ UNCHANGED <<mb, draining, listener, sound, said, batch, puts, delivered>>

\* Mutant: the lock is taken whoever has it.
TryLockAlways(t) ==
  /\ pc[t] = "try"
  /\ draining' = t
  /\ Go(t, "clear")
  /\ UNCHANGED <<mb, requested, listener, sound, said, batch, puts, delivered>>

TryLock(t) ==
  /\ pc[t] = "try"
  /\ \/ /\ draining = NoThread
        /\ draining' = t
        /\ Go(t, "clear")
     \/ /\ draining # NoThread
        /\ Go(t, "return")
        /\ UNCHANGED draining
  /\ UNCHANGED <<mb, requested, listener, sound, said, batch, puts, delivered>>

Clear(t) ==
  /\ pc[t] = "clear"
  /\ requested' = FALSE
  /\ Go(t, "take")
  /\ UNCHANGED <<mb, draining, listener, sound, said, batch, puts, delivered>>

Take(t) ==
  /\ pc[t] = "take"
  /\ batch' = [batch EXCEPT ![t] = mb.queue]
  /\ mb' = TakeAll(mb)
  /\ Go(t, "deliver")
  /\ UNCHANGED <<requested, draining, listener, sound, said, puts, delivered>>

Deliver(t) ==
  /\ pc[t] = "deliver" /\ batch[t] # <<>>
  /\ batch' = [batch EXCEPT ![t] = Tail(@)]
  /\ LET e == Head(batch[t]) IN
       /\ last' = e.n
       /\ heard' = IF e.is = "sound" THEN e.v ELSE heard
       /\ told' = (told \/ e.is = "closed")
  /\ UNCHANGED <<mb, requested, draining, listener, sound, said, pc, puts>>

\* A callback answers straight back into the session, which queues another
\* event: the wake inside finds the lock held, and leaves word.
PutInside(t) ==
  /\ pc[t] = "deliver" /\ puts < MaxPuts /\ mb.state # "Closed"
  /\ mb' = Push(mb, Event("bell", 0))
  /\ puts' = puts + 1
  /\ Go(t, "inside")
  /\ UNCHANGED <<requested, draining, listener, sound, said, batch, delivered>>

RequestInside(t) ==
  /\ pc[t] = "inside"
  /\ requested' = TRUE
  /\ Go(t, "deliver")
  /\ UNCHANGED <<mb, draining, listener, sound, said, batch, puts, delivered>>

Unlock(t) ==
  /\ pc[t] = "deliver" /\ batch[t] = <<>>
  /\ draining' = NoThread
  /\ Go(t, "test")
  /\ UNCHANGED <<mb, requested, listener, sound, said, batch, puts, delivered>>

\* Mutant: word left meanwhile is not looked for.
TestNothing(t) ==
  /\ pc[t] = "test"
  /\ Go(t, "return")
  /\ UNCHANGED <<mb, requested, draining, listener, sound, said, batch, puts, delivered>>

Test(t) ==
  /\ pc[t] = "test"
  /\ Go(t, IF requested THEN "try" ELSE "return")
  /\ UNCHANGED <<mb, requested, draining, listener, sound, said, batch, puts, delivered>>

\* Back to whoever put the event: the listener's lock is let go, and the
\* protocol's thread ends after Closed.
Return(t) ==
  /\ pc[t] = "return"
  /\ listener' = IF listener = t THEN NoThread ELSE listener
  /\ Go(t, IF t = Protocol /\ mb.state = "Closed" THEN "over" ELSE "idle")
  /\ UNCHANGED <<mb, requested, draining, sound, said, batch, puts, delivered>>

\* destroy, on the main thread: it returns once the protocol's thread is over.
Destroy ==
  /\ pc[Main] = "idle" /\ pc[Protocol] = "over"
  /\ Go(Main, "destroyed")
  /\ UNCHANGED <<mb, requested, draining, listener, sound, said, batch, puts, delivered>>

-----------------------------------------------------------------------------

Wake(t) ==
  \/ LockListener(t) \/ ReadSound(t) \/ SaySound(t)
  \/ Request(t) \/ TryLock(t) \/ Clear(t) \/ Take(t) \/ Deliver(t)
  \/ RequestInside(t) \/ Unlock(t) \/ Test(t) \/ Return(t)

Next ==
  \/ Put \/ Close \/ Destroy
  \/ \E t \in Threads : ChangeSound(t) \/ PutInside(t) \/ Wake(t)

Spec == Init /\ [][Next]_vars

-----------------------------------------------------------------------------
(* Properties *)

Labels == {"idle", "changed", "read", "say", "request", "try", "clear", "take", "deliver",
           "inside", "test", "return", "over", "destroyed"}

\* A thread that will still look at the mailbox.
Looking == {"request", "try", "clear", "take", "deliver", "inside", "test"}

\* "what it was woken for is not left waiting for the next event": though a wake
\* that finds the lock held just leaves, an event waits only while some thread
\* is still to look.
NothingStranded ==
  mb.queue # <<>> => \E t \in Threads : pc[t] \in Looking

\* "two threads with events never deliver them out of order", none is delivered
\* twice, and nothing crosses after Closed, a sound put as the session closes
\* included.
InOrder == [][last' # last => last' > last /\ ~told]_vars

\* changed() reads the sound under the listener's lock: however the changes of
\* two threads interleave, the last sound that Java hears is the sound.
SoundIsCurrent ==
  (\A t \in Threads : pc[t] \in {"idle", "over"}) /\ mb.state # "Closed" => heard = sound

\* "destroy joins the session's thread, which proves no event is still being
\* delivered": nothing waits, no thread delivers, and Closed has been told.
DestroyIsQuiet ==
  pc[Main] = "destroyed" =>
    /\ mb.queue = <<>> /\ told
    /\ \A t \in Threads : pc[t] \notin Looking

-----------------------------------------------------------------------------
(* The inductive invariant *)

Draining == {"clear", "take", "deliver", "inside"}

\* What waits has been asked for, or is about to be looked at; what has been
\* asked for is heard by a thread that will try the lock, has it, or has only
\* just let it go.  The end comes after the helpers', and destroy after the end.
IInv ==
  /\ {"queue", "state"} \subseteq DOMAIN mb
  /\ pc \in [Threads -> Labels]
  /\ \A t \in Threads : pc[t] \in Draining <=> draining = t
  /\ draining \in Threads \cup {NoThread}
  /\ mb.queue # <<>> => \/ requested
                        \/ \E t \in Threads : pc[t] \in {"request", "inside", "take"}
  /\ requested => \E t \in Threads : pc[t] \in Looking \ {"request"}
  /\ mb.state = "Closed" => \A h \in Helpers : pc[h] = "over"
  /\ pc[Protocol] = "over" => mb.state = "Closed"
  /\ pc[Main] = "destroyed" => pc[Protocol] = "over"

Events == [is : {"bell", "mode", "sound", "closed"}, v : Nat, n : Nat]

\* Only the thread that delivers has events; the mailbox keeps one sound and one mode.
Typed ==
  /\ mb.queue \in Seq(Events) /\ batch \in [Threads -> Seq(Events)]
  /\ said \in [Threads -> Nat]
  /\ sound \in Nat /\ puts \in Nat /\ last \in Nat /\ heard \in Nat
  /\ \A t \in Threads : batch[t] # <<>> => pc[t] \in {"deliver", "inside"}
  /\ \A kind \in StateKinds : \A i, j \in At(mb.queue, kind) : i = j
  /\ \A kind \in StateKinds, t \in Threads : \A i, j \in At(batch[t], kind) : i = j

\* What is to be delivered comes after what was, and in the order it was put.
Numbered ==
  /\ \A i \in DOMAIN mb.queue : last < mb.queue[i].n /\ mb.queue[i].n <= puts
  /\ \A i, j \in DOMAIN mb.queue : i < j => mb.queue[i].n < mb.queue[j].n
  /\ last <= puts
  /\ \A t \in Threads :
       /\ \A i \in DOMAIN batch[t] : last < batch[t][i].n /\ batch[t][i].n <= puts
       /\ \A i, j \in DOMAIN batch[t] : i < j => batch[t][i].n < batch[t][j].n
       /\ \A i \in DOMAIN batch[t], j \in DOMAIN mb.queue : batch[t][i].n < mb.queue[j].n

\* Closed is put once and last, and from then on is told or on its way.
Ends ==
  /\ told => mb.state = "Closed" /\ mb.queue = <<>> /\ \A t \in Threads : batch[t] = <<>>
  /\ \A i \in At(mb.queue, "closed") : i = Len(mb.queue) /\ mb.state = "Closed"
  /\ \A t \in Threads : \A i \in At(batch[t], "closed") :
       i = Len(batch[t]) /\ mb.queue = <<>> /\ mb.state = "Closed"
  /\ mb.state = "Closed" =>
       /\ told \/ At(mb.queue, "closed") # {} \/ \E t \in Threads : At(batch[t], "closed") # {}
       /\ pc[Protocol] \notin {"idle", "changed", "read", "say"}

\* The sound that Java will have heard once everything is delivered.
Says(v) ==
  \/ \E i \in At(mb.queue, "sound") : mb.queue[i].v = v
  \/ /\ At(mb.queue, "sound") = {}
     /\ \/ \E t \in Threads : \E i \in At(batch[t], "sound") : batch[t][i].v = v
        \/ (\A t \in Threads : At(batch[t], "sound") = {}) /\ heard = v

\* A thread says the sound under the listener's lock; if that is not the sound by then,
\* another is waiting to say it.
Current ==
  /\ \A t \in Threads : pc[t] \in {"read", "say"} => listener = t
  /\ \A t \in Threads : pc[t] = "say" =>
       said[t] = sound \/ \E u \in Threads : pc[u] = "changed"
  /\ mb.state # "Closed" =>
       Says(sound) \/ \E t \in Threads : pc[t] \in {"changed", "read", "say"}

Delivery == Typed /\ Numbered /\ Ends /\ Current

\* Once no thread is at work, the last sound that Java heard is the sound; and once
\* destroy has returned, nothing waits, nothing is delivered and the end was told. With
\* them goes Delivery, the invariant they rest on.
OutletSettles == SoundIsCurrent /\ DestroyIsQuiet /\ Delivery
=============================================================================
