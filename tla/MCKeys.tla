------------------------------- MODULE MCKeys -------------------------------
(***************************************************************************)
(* Parts of single backends, for TLC: the keys of six of them (Keys), the  *)
(* thread of RealVNC's core (Looper) and FreeRDP's sound (SoundDevice).    *)
(* They share no state: one, `part`, runs while the others stay as they    *)
(* began.                                                                  *)
(***************************************************************************)
EXTENDS Keys

CONSTANTS
  Parts,                                        \* the parts to look at
  k1, k2,
  NumFds, SeqModulus, MaxFiles, MaxMoves,       \* Looper's
  Devices, Grace, Latencies, Gains, MaxCalls    \* SoundDevice's

VARIABLES
  part,
  thread, tasks, later, fds, parked, nextSeq, batch, called,
  file, watched, ready, woken, owes, opened, moves,
  channel, dev, stream, idle, unheard, closer, count, switch, crossed, calls

L == INSTANCE Looper WITH at <- thread
S == INSTANCE SoundDevice WITH at <- channel

looper == <<thread, tasks, later, fds, parked, nextSeq, batch, called,
            file, watched, ready, woken, owes, opened, moves>>
sound == <<channel, dev, stream, idle, unheard, closer, count, switch, crossed, calls>>
all == <<part, vars, looper, sound>>

MCInit ==
  /\ part \in Parts
  /\ Init /\ (part = "keys" \/ setup = CHOOSE s \in Setups : TRUE)
  /\ L!Init /\ S!Init

MCNext ==
  /\ UNCHANGED part
  /\ \/ part = "keys" /\ Next /\ UNCHANGED <<looper, sound>>
     \/ part = "looper" /\ L!Next /\ UNCHANGED <<vars, sound>>
     \/ part = "sound" /\ S!Next /\ UNCHANGED <<vars, looper>>

\* The threads go on, and time passes: the core's own thread or the clock of the
\* sound; a parked descriptor's time or a device's channel inside a call; a thread
\* that has queued a task, the time of a delayed one, or a device's closing thread.
Main ==
  \/ part = "looper" /\ L!Thread /\ UNCHANGED <<part, vars, sound>>
  \/ part = "sound" /\ S!Tick /\ UNCHANGED <<part, vars, looper>>

First(i) ==
  \/ part = "looper" /\ L!ParkDue(i) /\ UNCHANGED <<part, vars, sound>>
  \/ part = "sound" /\ S!Channel(i) /\ UNCHANGED <<part, vars, looper>>

Second(i) ==
  \/ part = "looper" /\ i = 1 /\ L!WakeUp /\ UNCHANGED <<part, vars, sound>>
  \/ part = "looper" /\ i = 2 /\ L!TimerDue /\ UNCHANGED <<part, vars, sound>>
  \/ part = "sound" /\ S!Closing(i) /\ UNCHANGED <<part, vars, looper>>

MCSpec ==
  /\ MCInit /\ [][MCNext]_all
  /\ WF_all(Main) /\ \A i \in {1, 2} : WF_all(First(i)) /\ WF_all(Second(i))

Sym(c, s) == [code |-> c, shift |-> s]
Setup(b, l, s) == [backend |-> b, levels |-> l, switches |-> s]

\* Keys of the US layout: both levels are the same key.
PlainLevels == [k \in Letters |-> <<Sym(k, FALSE), Sym(k, TRUE)>>]

\* A layout where Shift gives a character that is another key of the US layout,
\* as German 7 and / do.
MovedLevels == [k \in Letters |-> <<Sym(k, FALSE), Sym(<<k, "moved">>, FALSE)>>]

\* Keys that are the same at both levels: one that the US layout needs Shift for
\* (k2), and one that it does not; and keys that never need it.
FixedLevels == [k \in Letters |-> <<Sym(k, k = k2), Sym(k, k = k2)>>]
BareLevels == [k \in Letters |-> <<Sym(k, FALSE), Sym(k, FALSE)>>]

\* The sessions in which every key is let go of, but for what FreeRDP's ring drops.
SoundSetups ==
  {Setup("rfb", FixedLevels, TRUE), Setup("rustdesk", FixedLevels, TRUE),
   Setup("spice", PlainLevels, TRUE), Setup("spice", FixedLevels, TRUE),
   Setup("ironrdp", FixedLevels, TRUE), Setup("libvnc", FixedLevels, FALSE),
   Setup("freerdp", [k \in {k1} |-> MovedLevels[k]], FALSE)}

\* FreeRDP with view only, and RFB with keys whose levels differ.
FreerdpSetups == {Setup("freerdp", BareLevels, TRUE)}
RfbSetups == {Setup("rfb", PlainLevels, FALSE)}

-----------------------------------------------------------------------------
(* Properties: those of the keys are their own. *)

\* pollOnce calls back the registration that an event is of, though numbers are used
\* again; what is registered is watched or parked, and the thread sleeps with
\* nothing to do (and the invariants that LooperProofs proves these from).
LooperInOrder ==
  L!HeardByItsOwn /\ L!RegisteredIsWatched /\ L!SleepsIdle /\ L!IInv /\ L!Fresh

\* The closing thread ends no stream that has samples to be heard, a stream has the
\* server's volume, and the switch is there while a channel offers sound, where the two
\* do not tell of it at once; a device that was freed plays nothing, has no thread and
\* leaves no switch behind (and the invariant that KeysProofs proves these from).
SoundInOrder ==
  S!NotCutShort /\ [](S!InVolume /\ S!SwitchTells /\ S!NothingPlays /\ S!IInv)

\* Whatever waits for the core's thread is heard, run or answered (Looper!Attended, and
\* with no task left waiting meanwhile), and a stream that nothing is sent to is closed
\* (SoundDevice!FallsSilent), each in the part that runs.
AllIsAttended ==
  \A i \in {1, 2} :
    []<>((part = "looper" => L!Heard(i) /\ L!Answered) /\ (part = "sound" => S!Silent(i)))
=============================================================================
