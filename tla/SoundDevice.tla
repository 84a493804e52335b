---------------------------- MODULE SoundDevice ----------------------------
(***************************************************************************)
(* FreeRDP's sound: the device that rdpsnd_vento.c gives each of the        *)
(* session's two sound channels, static and dynamic.  Each channel calls    *)
(* its device from a thread of its own; each device has a thread that       *)
(* closes its stream when no wave comes; the session's switch is shared.    *)
(*                                                                          *)
(* A deadline is kept as the time left until it, which Tick takes from.     *)
(***************************************************************************)
EXTENDS Integers, FiniteSets

CONSTANTS
  Devices,      \* the session's channels
  Grace,        \* IDLE_GRACE_MS
  Latencies,    \* how long until the samples just written are heard
  Gains,        \* the server's volumes
  MaxCalls      \* the channels' calls, together

VARIABLES
  at,        \* where the device's channel is: between calls, or in one
  dev,       \* opened, failed, decoder, gain, offering
  stream,    \* open, and the gain it was given
  idle,      \* time left until idleAt
  unheard,   \* history: time until the last samples are heard
  closer,    \* where the closing thread is, and the time left of its wait
  count,     \* VentoSound::offering
  switch,    \* the session's sound switch is offered
  crossed,   \* history: two channels were telling of the switch at once
  calls      \* of MaxCalls

vars == <<at, dev, stream, idle, unheard, closer, count, switch, crossed, calls>>
timing == <<idle, unheard>>
offers == <<count, crossed>>

NoStream == [open |-> FALSE, gain |-> 0]

Init ==
  /\ at = [d \in Devices |-> "none"]
  /\ dev = [d \in Devices |-> [opened |-> FALSE, failed |-> FALSE, decoder |-> FALSE,
                               gain |-> 1, offering |-> FALSE]]
  /\ stream = [d \in Devices |-> NoStream]
  /\ idle = [d \in Devices |-> 0] /\ unheard = [d \in Devices |-> 0]
  /\ closer = [d \in Devices |-> [at |-> "none", left |-> 0]]
  /\ count = 0 /\ switch = FALSE /\ crossed = FALSE /\ calls = 0

Called(d, where) == calls < MaxCalls /\ at[d] = where /\ calls' = calls + 1

\* pthread_cond_signal: a thread that is not waiting looks before it next waits.
Signalled(d) ==
  closer' = IF closer[d].at \in {"wait", "timed"}
              THEN [closer EXCEPT ![d] = [at |-> "ready", left |-> 0]] ELSE closer

-----------------------------------------------------------------------------
(* The session's switch: the count changes, and then, in a step of its own, *)
(* the platform is told.                                                    *)

Telling == {"offer", "withdraw", "leaving"}

\* The channel is about to tell of the switch.
Tells(d, telling) ==
  /\ at' = [at EXCEPT ![d] = telling]
  /\ crossed' = (crossed \/ \E e \in Devices \ {d} : at[e] \in Telling)

\* Mutant: a device that offers nothing any more is counted out again.
StopOfferingAgain(d, telling, done) ==
  /\ dev' = [dev EXCEPT ![d].offering = FALSE]
  /\ count' = count - 1
  /\ IF count = 1 THEN Tells(d, telling)
     ELSE at' = [at EXCEPT ![d] = done] /\ UNCHANGED crossed

\* stopOffering, from ServerFormatAnnounce and from Free.
StopOffering(d, telling, done) ==
  \/ /\ dev[d].offering
     /\ dev' = [dev EXCEPT ![d].offering = FALSE]
     /\ count' = count - 1
     /\ IF count = 1 THEN Tells(d, telling)
        ELSE at' = [at EXCEPT ![d] = done] /\ UNCHANGED crossed
  \/ /\ ~dev[d].offering
     /\ at' = [at EXCEPT ![d] = done]
     /\ UNCHANGED <<dev, offers>>

Offering(d) ==
  /\ dev' = [dev EXCEPT ![d].offering = TRUE]
  /\ count' = IF dev[d].offering THEN count ELSE count + 1
  /\ Tells(d, "offer")

\* entry: the channel connects, or no thread can be made for it.
Entry(d) ==
  /\ Called(d, "none")
  /\ \/ /\ Offering(d)
        /\ closer' = [closer EXCEPT ![d].at = "ready"]
     \/ /\ at' = [at EXCEPT ![d] = "freed"]
        /\ closer' = [closer EXCEPT ![d].at = "done"]
        /\ UNCHANGED <<dev, offers>>
  /\ UNCHANGED <<stream, timing, switch>>

\* The server's list has a format that is played here, or none.
ServerFormatAnnounce(d) ==
  /\ Called(d, "live")
  /\ Offering(d) \/ StopOffering(d, "withdraw", "live")
  /\ UNCHANGED <<stream, timing, closer, switch>>

Tell(d) ==
  /\ \/ at[d] = "offer" /\ switch' = TRUE /\ at' = [at EXCEPT ![d] = "live"]
     \/ at[d] = "withdraw" /\ switch' = FALSE /\ at' = [at EXCEPT ![d] = "live"]
     \/ at[d] = "leaving" /\ switch' = FALSE /\ at' = [at EXCEPT ![d] = "free"]
  /\ UNCHANGED <<dev, stream, timing, closer, offers, calls>>

-----------------------------------------------------------------------------
(* The stream, under the device's lock.                                     *)

\* openLocked for another shape or no stream, of which the platform may have none.
OpenLocked(d, fields) ==
  LET may == fields.opened /\ ~fields.failed IN
  \/ /\ may
     /\ stream' = [stream EXCEPT ![d] = [open |-> TRUE, gain |-> fields.gain]]
     /\ dev' = [dev EXCEPT ![d] = fields]
     /\ Signalled(d)
  \/ /\ stream' = [stream EXCEPT ![d] = NoStream]
     /\ dev' = [dev EXCEPT ![d] = [fields EXCEPT !.failed = @ \/ may]]
     /\ UNCHANGED closer

\* Open: a format that is decoded has a decoder, or none and no sound.
Open(d) ==
  /\ Called(d, "live")
  /\ \E decoded, decoder \in BOOLEAN :
       /\ decoder => decoded
       /\ OpenLocked(d, [dev[d] EXCEPT !.opened = TRUE, !.failed = decoded /\ ~decoder,
                                       !.decoder = decoder])
  /\ idle' = [idle EXCEPT ![d] = Grace] /\ unheard' = [unheard EXCEPT ![d] = 0]
  /\ UNCHANGED <<at, offers, switch>>

\* Mutant: the deadline leaves out how long the samples take to be heard.
DeadlineFromNow(d) ==
  \/ /\ stream'[d].open
     /\ \E latency \in Latencies :
          /\ idle' = [idle EXCEPT ![d] = Grace]
          /\ unheard' = [unheard EXCEPT ![d] = latency]
  \/ ~stream'[d].open /\ UNCHANGED timing

\* The deadline that a wave leaves: its last samples are heard, and then a while.
Deadline(d) ==
  \/ /\ stream'[d].open
     /\ \E latency \in Latencies :
          /\ idle' = [idle EXCEPT ![d] = latency + Grace]
          /\ unheard' = [unheard EXCEPT ![d] = latency]
  \/ ~stream'[d].open /\ UNCHANGED timing

\* PlayEx: written to the stream as it is or to another, or nothing came of the wave.
PlayEx(d) ==
  /\ Called(d, "live")
  /\ OpenLocked(d, dev[d]) \/ UNCHANGED <<stream, dev, closer>>
  /\ Deadline(d)
  /\ UNCHANGED <<at, offers, switch>>

SetVolume(d) ==
  /\ Called(d, "live")
  /\ \E gain \in Gains :
       /\ dev' = [dev EXCEPT ![d].gain = gain]
       /\ stream' = IF stream[d].open THEN [stream EXCEPT ![d].gain = gain] ELSE stream
  /\ UNCHANGED <<at, timing, closer, offers, switch>>

\* closeLocked and closeDecoderLocked.
Ended(d, opened) ==
  /\ stream' = [stream EXCEPT ![d] = NoStream]
  /\ dev' = [dev EXCEPT ![d] = [@ EXCEPT !.decoder = FALSE, !.opened = opened]]

Close(d) ==
  /\ Called(d, "live")
  /\ Ended(d, FALSE)
  /\ UNCHANGED <<at, timing, closer, offers, switch>>

\* Free: the switch, then quit under the lock, then the thread is waited for.
Free(d) ==
  /\ at[d] = "live"
  /\ StopOffering(d, "leaving", "free")
  /\ UNCHANGED <<stream, timing, closer, switch, calls>>

\* Mutant: the thread is waited for and not woken.
QuitUnsignalled(d) ==
  /\ at[d] = "free" /\ at' = [at EXCEPT ![d] = "join"]
  /\ Ended(d, dev[d].opened)
  /\ UNCHANGED <<timing, closer, offers, switch, calls>>

Quit(d) ==
  /\ at[d] = "free" /\ at' = [at EXCEPT ![d] = "join"]
  /\ Ended(d, dev[d].opened)
  /\ Signalled(d)
  /\ UNCHANGED <<timing, offers, switch, calls>>

Join(d) ==
  /\ at[d] = "join" /\ closer[d].at = "done"
  /\ at' = [at EXCEPT ![d] = "freed"]
  /\ UNCHANGED <<dev, stream, timing, closer, offers, switch, calls>>

-----------------------------------------------------------------------------
(* The closing thread, and time.                                            *)

\* One turn of closer, from having the lock to waiting or ending.
Closer(d) ==
  /\ closer[d].at = "ready"
  /\ \/ /\ at[d] = "join"
        /\ closer' = [closer EXCEPT ![d].at = "done"] /\ UNCHANGED stream
     \/ /\ at[d] # "join" /\ (stream[d].open => idle[d] = 0)
        /\ stream' = [stream EXCEPT ![d] = NoStream]
        /\ closer' = [closer EXCEPT ![d].at = "wait"]
     \/ /\ at[d] # "join" /\ stream[d].open /\ idle[d] > 0
        /\ closer' = [closer EXCEPT ![d] = [at |-> "timed", left |-> idle[d]]]
        /\ UNCHANGED stream
  /\ UNCHANGED <<at, dev, timing, offers, switch, calls>>

\* Mutant: the deadline it slept for is taken for the one in force.
TimedOutCloses(d) ==
  /\ closer[d].at = "timed" /\ closer[d].left = 0
  /\ closer' = [closer EXCEPT ![d].at = "ready"]
  /\ stream' = [stream EXCEPT ![d] = NoStream]
  /\ UNCHANGED <<at, dev, timing, offers, switch, calls>>

\* Its wait is over, or ends for nothing.
TimedOut(d) ==
  /\ closer[d].at = "timed" /\ closer[d].left = 0
  /\ closer' = [closer EXCEPT ![d].at = "ready"]
  /\ UNCHANGED <<at, dev, stream, timing, offers, switch, calls>>

Spurious(d) ==
  /\ closer[d].at \in {"wait", "timed"}
  /\ closer' = [closer EXCEPT ![d] = [at |-> "ready", left |-> 0]]
  /\ UNCHANGED <<at, dev, stream, timing, offers, switch, calls>>

Less(n) == IF n > 0 THEN n - 1 ELSE 0

Tick ==
  /\ idle' = [d \in Devices |-> Less(idle[d])]
  /\ unheard' = [d \in Devices |-> Less(unheard[d])]
  /\ closer' = [d \in Devices |-> [closer[d] EXCEPT !.left = Less(@)]]
  /\ UNCHANGED <<at, dev, stream, offers, switch, calls>>

Channel(d) == Tell(d) \/ Quit(d) \/ Join(d)
Closing(d) == Closer(d) \/ TimedOut(d)

Next ==
  \/ Tick
  \/ \E d \in Devices :
       \/ Entry(d) \/ ServerFormatAnnounce(d) \/ Open(d) \/ PlayEx(d) \/ SetVolume(d)
       \/ Close(d) \/ Free(d) \/ Channel(d) \/ Closing(d) \/ Spurious(d)

\* Time passes and both threads of a device go on; the channel owes no call.
Spec ==
  /\ Init /\ [][Next]_vars
  /\ WF_vars(Tick)
  /\ \A d \in Devices : WF_vars(Channel(d)) /\ WF_vars(Closing(d))

-----------------------------------------------------------------------------
(* Properties.                                                              *)

\* The closing thread closes a stream only "once its last samples have been heard", by
\* the deadline in force and not the one it slept for: a step that ends a stream and is
\* no call of the channel finds nothing unheard in it.
NotCutShort ==
  [][\A d \in Devices :
       stream[d].open /\ ~stream'[d].open /\ UNCHANGED <<at, calls>> => unheard[d] = 0]_vars

\* A stream has the volume that the server set last, before it was opened or since.
InVolume == \A d \in Devices : stream[d].open => stream[d].gain = dev[d].gain

\* The session's switch is there while a channel has sound to send and no longer, once
\* both have told of it and as long as they never did so at once. When they do, what
\* the count came to and what is told last may differ.
SwitchTells ==
  ~crossed /\ (\A d \in Devices : at[d] \notin Telling) => (switch <=> count > 0)

\* A device that is freed has no stream and no decoder left, and no thread that could
\* still reach into it; with both channels gone no switch is left for their sound.
NothingPlays ==
  /\ \A d \in Devices : at[d] = "freed" =>
       closer[d].at = "done" /\ ~stream[d].open /\ ~dev[d].decoder /\ ~dev[d].offering
  /\ (\A d \in Devices : at[d] = "freed") => count = 0 /\ ~switch

\* The device has no stream, and its channel is not being freed.
Silent(d) == ~stream[d].open /\ at[d] \notin {"leaving", "free", "join"}

\* With no more waves a stream is closed ("the next wave opens another"), and Free
\* returns.
FallsSilent == \A d \in Devices : []<>Silent(d)

-----------------------------------------------------------------------------
(* The inductive invariant.                                                 *)

Places == {"none", "offer", "live", "withdraw", "leaving", "free", "join", "freed"}

DeviceType ==
  [opened : BOOLEAN, failed : BOOLEAN, decoder : BOOLEAN, gain : Gains, offering : BOOLEAN]
StreamType == [open : BOOLEAN, gain : Gains \cup {0}]
CloserType == [at : {"none", "ready", "wait", "timed", "done"}, left : Nat]

Typed ==
  /\ at \in [Devices -> Places] /\ dev \in [Devices -> DeviceType]
  /\ stream \in [Devices -> StreamType] /\ closer \in [Devices -> CloserType]
  /\ idle \in [Devices -> Nat] /\ unheard \in [Devices -> Nat]
  /\ count \in Nat

Offered == {d \in Devices : dev[d].offering}

\* A channel that has told the platform of its sound offers it; one that is being freed
\* does not, and from Quit on has nothing to play; a device's thread ends in Free.
Kept ==
  \A d \in Devices :
    /\ at[d] = "offer" => dev[d].offering
    /\ at[d] \in {"none", "leaving", "free", "join", "freed"} => ~dev[d].offering
    /\ at[d] \in {"none", "join", "freed"} => ~stream[d].open /\ ~dev[d].decoder
    /\ at[d] = "freed" => closer[d].at = "done"

\* What is unheard of a stream is heard before its deadline, by the grace.
Timely ==
  \A d \in Devices : stream[d].open /\ unheard[d] > 0 => idle[d] >= unheard[d] + Grace

\* VentoSound::offering counts the channels that offer sound, and while the switch is
\* there one does, or one is about to take it away.
Switched ==
  /\ count = Cardinality(Offered)
  /\ switch => count > 0 \/ \E d \in Devices : at[d] \in {"withdraw", "leaving"}

\* Where they never crossed, one channel tells at a time, and what the count came to.
Uncrossed ==
  /\ crossed \in BOOLEAN
  /\ SwitchTells
  /\ ~crossed => \A d, e \in Devices :
       /\ at[d] \in Telling /\ at[e] \in Telling => d = e
       /\ at[d] \in {"withdraw", "leaving"} => count = 0

IInv == Typed /\ Timely /\ InVolume /\ Kept /\ Switched /\ Uncrossed
=============================================================================
