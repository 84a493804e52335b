----------------------------- MODULE KeysProofs -----------------------------
(***************************************************************************)
(* What MCKeys checks of view only, of RealVNC's thread and of FreeRDP's   *)
(* sound, for any keys and layouts, any number of descriptors and devices  *)
(* and any bounds.                                                         *)
(***************************************************************************)
EXTENDS MCKeys, WellFoundedInduction, TLAPS

-----------------------------------------------------------------------------
(* View only, of every backend.                                             *)

\* The keysyms there are, and the commands that are queued for the protocol's thread.
Keysyms == {ShiftSym} \cup {u.levels[k][n] : u \in Setups, k \in Letters, n \in {1, 2}}
Commands == [op : {"down", "up", "all"}, k : Keyboard, key : Keysyms]

Ordinary == setup \in Setups /\ viewOnly \in BOOLEAN /\ queue \in Seq(Commands)

\* Letting go of every key takes keys up at most, in each backend.
LEMMA AllSilent == ASSUME Ordinary PROVE ReleaseAllKeys.f \subseteq far
<1>1. backend \in {"rfb", "rustdesk", "libvnc", "spice", "ironrdp", "freerdp"}
  BY KeysAssumption DEF Ordinary, backend
<1> QED
  BY <1>1 DEF ReleaseAllKeys, RfbAll, LibvncAll, SpiceAll, IronAll, FreeAll, IronReleased, Is

\* Under view only a press does nothing, and a release takes keys up at most.
LEMMA RanSilent ==
  ASSUME Ordinary, viewOnly, NEW c \in Commands PROVE Ran(c).f \subseteq far
<1>1. backend \in {"rfb", "rustdesk", "libvnc", "spice", "ironrdp", "freerdp"}
  BY KeysAssumption DEF Ordinary, backend
<1>2. CASE c.op = "down"
  BY <1>2 DEF Ran, KeyDown, Is
<1>3. CASE c.op = "up"
  <2>1. KeyUp(c.k).f \subseteq far
    BY <1>1 DEF KeyUp, RfbUp, RustdeskUp, LibvncUp, SpiceUp, IronUp, FreeUp, IronReleased, Is
  <2> QED
    BY <1>3, <2>1 DEF Ran
<1>4. CASE c.op = "all"
  BY <1>4, AllSilent DEF Ran
<1> QED
  BY <1>2, <1>3, <1>4 DEF Commands

\* A set of numbers has a least.
LEMMA Least ==
  ASSUME NEW T \in SUBSET Nat, T # {} PROVE \E i \in T : \A j \in T : i <= j
<1> DEFINE R == {ss \in Nat \X Nat : ss[1] < ss[2]}
<1>1. IsWellFoundedOn(R, Nat)
  BY NatLessThanWellFounded DEF OpToRel
<1>2. \A i, j \in Nat : ~(<<j, i>> \in R) => i <= j
  OBVIOUS
<1> HIDE DEF R
<1>3. PICK i \in T : \A j \in T : ~(<<j, i>> \in R)
  BY <1>1, WFMin, Zenon
<1>4. T \subseteq Nat
  OBVIOUS
<1> QED
  BY <1>2, <1>3, <1>4, Zenon

\* What is posted is a command, and the ring makes room for it by losing another.
LEMMA PostKeeps ==
  ASSUME NEW q \in Seq(Commands), NEW c \in Commands PROVE Post(q, c) \in Seq(Commands)
<1> DEFINE presses == Presses(q)
           victim == IF presses = {} THEN 1
                     ELSE CHOOSE i \in presses : \A j \in presses : i <= j
<1>1. CASE q = <<>>
  <2>1. presses = {}
    BY <1>1 DEF Presses
  <2>2. SubSeq(q, 1, 1 - 1) \o SubSeq(q, 1 + 1, Len(q)) = <<>>
    BY <1>1
  <2> QED
    BY <2>1, <2>2 DEF Post, MakeRoom
<1>2. CASE q # <<>>
  <2>1. ASSUME presses # {} PROVE \E i \in presses : \A j \in presses : i <= j
    <3>1. presses \in SUBSET Nat
      BY DEF Presses
    <3> HIDE DEF presses
    <3> QED
      BY <2>1, <3>1, Least
  <2>2. victim \in 1..Len(q)
    <3>1. presses # {} => victim \in presses
      BY <2>1, Zenon
    <3>4. presses \subseteq 1..Len(q)
      BY DEF Presses
    <3>2. presses = {} => victim = 1
      OBVIOUS
    <3>3. 1 \in 1..Len(q)
      BY <1>2
    <3> QED
      BY <3>1, <3>2, <3>3, <3>4, Zenon
  <2> DEFINE rest == SubSeq(q, 1, victim - 1) \o SubSeq(q, victim + 1, Len(q))
  <2>3. Post(q, c) \in {q, Append(q, c), Append(rest, c)}
    BY DEF Post, MakeRoom
  <2> HIDE DEF victim
  <2>4. rest \in Seq(Commands)
    <3>1. PICK v \in 1..Len(q) : v = victim
      BY <2>2
    <3>2. \A i \in 1..Len(q) : q[i] \in Commands
      OBVIOUS
    <3>3. SubSeq(q, 1, v - 1) \in Seq(Commands)
      BY <3>2
    <3>4. SubSeq(q, v + 1, Len(q)) \in Seq(Commands)
      BY <3>2
    <3> QED
      BY <3>1, <3>3, <3>4
  <2> HIDE DEF rest
  <2>5. Append(q, c) \in Seq(Commands) /\ Append(rest, c) \in Seq(Commands)
    BY <2>4
  <2> QED
    BY <2>3, <2>5, Zenon
<1> QED
  BY <1>1, <1>2

\* A call queues its command, or under view only takes keys up at most.
LEMMA CallKeeps ==
  ASSUME Ordinary, NEW c \in Commands, Call(c)
  PROVE  queue' \in Seq(Commands) /\ (viewOnly => far' \subseteq far)
<1>1. queue' \in Seq(Commands)
  BY PostKeeps DEF Call, Posted, NoCall, Ordinary
<1>2. viewOnly => far' \subseteq far
  BY RanSilent DEF Call
<1> QED
  BY <1>1, <1>2

\* What the window sends are commands.
LEMMA Sent ==
  ASSUME Ordinary
  PROVE  /\ All \in Commands
         /\ \A k \in Keyboard : Up(k) \in Commands /\ Down(k, Keysym(k)) \in Commands
<1>1. \A k \in Keyboard : Keysym(k) \in Keysyms
  BY DEF Keysym, Keysyms, Keyboard, Ordinary
<1>2. Shift \in Keyboard /\ ShiftSym \in Keysyms
  BY DEF Keyboard, Keysyms
<1> QED
  BY <1>1, <1>2 DEF All, Up, Down, Commands

\* What a step of the keys keeps, and what it never does.
LEMMA KeysStep ==
  ASSUME Ordinary, Next PROVE Ordinary' /\ (viewOnly' => far' \subseteq far)
<1>1. ASSUME NEW k \in Keyboard, Press(k) PROVE Ordinary' /\ (viewOnly' => far' \subseteq far)
  <2>1. UNCHANGED <<setup, viewOnly>> /\ (Call(Down(k, Keysym(k))) \/ NoCall)
    BY <1>1, Zenon DEF Press
  <2> QED
    BY <2>1, Sent, CallKeeps, Zenon DEF NoCall, Ordinary
<1>2. ASSUME NEW k \in Keyboard, Release(k) PROVE Ordinary' /\ (viewOnly' => far' \subseteq far)
  <2>1. UNCHANGED <<setup, viewOnly>> /\ (Call(Up(k)) \/ NoCall)
    BY <1>2, Zenon DEF Release
  <2> QED
    BY <2>1, Sent, CallKeeps, Zenon DEF NoCall, Ordinary
<1>3. ASSUME NEW k \in Letters, Repeat(k) PROVE Ordinary' /\ (viewOnly' => far' \subseteq far)
  <2>1. UNCHANGED <<setup, viewOnly>> /\ Call(Down(k, Keysym(k))) /\ k \in Keyboard
    BY <1>3, Zenon DEF Repeat, Keyboard
  <2> QED
    BY <2>1, Sent, CallKeeps, Zenon DEF Ordinary
<1>4. CASE Prompt \/ Back
  BY <1>4 DEF Prompt, Back, NoCall, Ordinary
<1>5. CASE Frame \/ FocusLost
  BY <1>5, Sent, CallKeeps DEF Frame, FocusLost, ReleaseAll, NoCall, Ordinary
<1>6. CASE SetViewOnly
  <2>1. queue' \in Seq(Commands)
    BY <1>6, Sent, CallKeeps, PostKeeps, Zenon DEF SetViewOnly, NoCall, Ordinary
  <2>2. far' \subseteq far
    BY <1>6, AllSilent, Zenon DEF SetViewOnly, NoCall, Call
  <2> QED
    BY <1>6, <2>1, <2>2 DEF SetViewOnly, Ordinary
<1>7. CASE Drain
  <2>1. Head(queue) \in Commands /\ Tail(queue) \in Seq(Commands)
    BY <1>7 DEF Drain, Ordinary
  <2>2. far' = Ran(Head(queue)).f /\ queue' = Tail(queue) /\ UNCHANGED <<setup, viewOnly>>
    BY <1>7, Zenon DEF Drain
  <2>3. viewOnly => far' \subseteq far
    BY <2>1, <2>2, RanSilent, Zenon
  <2> QED
    BY <2>1, <2>2, <2>3, Zenon DEF Ordinary
<1>8. Typed \subseteq Letters
  BY KeysAssumption DEF Typed, Ordinary
<1> QED
  BY <1>1, <1>2, <1>3, <1>4, <1>5, <1>6, <1>7, <1>8 DEF Next, Keyboard

\* Under view only nothing goes down at the far end, whatever was queued before, in
\* sessions of each backend, for any layouts and with FreeRDP's ring of any length.
THEOREM ViewOnlyIsSilentHolds == MCSpec => ViewOnlyIsSilent
<1>1. MCInit => Ordinary
  <2>1. MCInit => setup \in Setups /\ viewOnly = FALSE /\ queue = <<>>
    BY Zenon DEF MCInit, Init
  <2>2. <<>> \in Seq(Commands)
    OBVIOUS
  <2> QED
    BY <2>1, <2>2, Zenon DEF Ordinary
<1>2. Ordinary /\ [MCNext]_all => Ordinary' /\ [viewOnly' => far' \subseteq far]_vars
  <2>1. CASE Next
    BY <2>1, KeysStep, Zenon
  <2>2. CASE UNCHANGED vars
    BY <2>2 DEF vars, Ordinary
  <2> QED
    BY <2>1, <2>2 DEF MCNext, all
<1> QED
  BY <1>1, <1>2, PTL DEF MCSpec, ViewOnlyIsSilent

-----------------------------------------------------------------------------
(* RealVNC's thread and FreeRDP's sound, as their own proofs have them.      *)

LP == INSTANCE LooperProofs WITH at <- thread
SP == INSTANCE SoundProofs WITH at <- channel

-----------------------------------------------------------------------------
(* RealVNC's thread, from LooperProofs.                                     *)

\* LooperProofs' Looper is MCKeys's: its initial states and its steps,
LEMMA SameLooper == (L!Init <=> LP!Init) /\ (L!Next <=> LP!Next) /\ L!vars = LP!vars
<1>1. L!Init <=> LP!Init
  BY DEF L!Init, L!Fds, L!Files, L!None, L!NoCall, L!WakeEvent, L!Event, LP!Init, LP!Fds,
      LP!Files, LP!None, LP!NoCall, LP!WakeEvent, LP!Event
<1>2. L!Next <=> LP!Next
  BY DEF L!core, L!table, L!polled, L!kernel, L!vars, L!Fds, L!None, L!Event,
      L!WakeEvent, L!NoCall, L!Move, L!InCore, L!Parked, L!Unparked, L!InSet, L!OutOfSet,
      L!NextSeq, L!AddFd, L!Removed, L!RemoveFd, L!Open, L!Close, L!Consume, L!Later,
      L!Core, L!Take, L!Answers, L!Done, L!Poll, L!Reported, L!Wait, L!TimedOut,
      L!Interrupted, L!Current, L!Handle, L!Returned, L!BatchDone, L!Thread, L!Post,
      L!WakeUp, L!Cancel, L!TimerDue, L!ParkDue, L!Arrive, L!Next, LP!core, LP!table,
      LP!polled, LP!kernel, LP!vars, LP!Fds, LP!None, LP!Event, LP!WakeEvent, LP!NoCall, LP!Move,
      LP!InCore, LP!Parked, LP!Unparked, LP!InSet, LP!OutOfSet, LP!NextSeq, LP!AddFd,
      LP!Removed, LP!RemoveFd, LP!Open, LP!Close, LP!Consume, LP!Later, LP!Core,
      LP!Take, LP!Answers, LP!Done, LP!Poll, LP!Reported, LP!Wait, LP!TimedOut,
      LP!Interrupted, LP!Current, LP!Handle, LP!Returned, LP!BatchDone, LP!Thread,
      LP!Post, LP!WakeUp, LP!Cancel, LP!TimerDue, LP!ParkDue, LP!Arrive, LP!Next
<1>3. L!vars = LP!vars
  BY DEF L!vars, L!core, L!table, L!polled, L!kernel,
         LP!vars, LP!core, LP!table, LP!polled, LP!kernel
<1> QED
  BY <1>1, <1>2, <1>3

\* its invariants and its properties.
LEMMA SameInvariants ==
  /\ (L!IInv <=> LP!IInv) /\ (L!Fresh <=> LP!Fresh)
  /\ (L!RegisteredIsWatched <=> LP!RegisteredIsWatched) /\ (L!SleepsIdle <=> LP!SleepsIdle)
<1>1. (L!IInv <=> LP!IInv) /\ (L!Fresh <=> LP!Fresh)
  BY DEF L!IInv, L!Typed, L!Table, L!Told, L!Fresh, L!Places, L!Fds, L!None, L!WakeEvent,
      L!Event, L!Recent, L!Age, L!Current, L!HeardByItsOwn, L!InSet, L!Parked,
      LP!IInv, LP!Typed, LP!Table, LP!Told, LP!Fresh, LP!Places, LP!Fds, LP!None,
      LP!WakeEvent, LP!Event, LP!Recent, LP!Age, LP!Current, LP!HeardByItsOwn,
      LP!InSet, LP!Parked
<1>2. (L!RegisteredIsWatched <=> LP!RegisteredIsWatched) /\ (L!SleepsIdle <=> LP!SleepsIdle)
  BY DEF L!RegisteredIsWatched, L!SleepsIdle, L!Fds, L!None, L!InSet, L!Parked,
      LP!RegisteredIsWatched, LP!SleepsIdle, LP!Fds, LP!None, LP!InSet, LP!Parked
<1> QED
  BY <1>1, <1>2

\* A step of any part is a step of the looper or leaves it alone.
LEMMA LooperStep == [MCNext]_all => [LP!Next]_(LP!vars)
  BY SameLooper
  DEF MCNext, all, looper, LP!vars, LP!core, LP!table, LP!polled, LP!kernel

\* Every callback is for the file it was registered for, what is registered is watched
\* or parked and the thread sleeps with nothing to do, whatever else is registered,
\* closed, opened, posted and parked meanwhile.
THEOREM LooperInOrderHolds ==
  ASSUME NumFds \in Nat, MaxMoves \in Nat, SeqModulus \in Nat,
         NumFds + MaxMoves < SeqModulus - 1
  PROVE  MCSpec => []LooperInOrder
<1>1. MCInit => LP!IInv /\ LP!Fresh
  BY SameLooper, LP!InitIInv, LP!InitFresh DEF MCInit
<1>2. LP!IInv /\ LP!Fresh /\ [MCNext]_all => (LP!IInv /\ LP!Fresh)'
  BY LooperStep, LP!NextIInv, LP!NextFresh
<1>3. LP!IInv /\ LP!Fresh => LooperInOrder
  BY SameInvariants, LP!IInvWatched, LP!IInvIdle DEF LooperInOrder, L!Fresh
<1> QED
  BY <1>1, <1>2, <1>3, PTL DEF MCSpec

-----------------------------------------------------------------------------
(* FreeRDP's sound, from SoundProofs.                                       *)

\* SoundProofs' devices are MCKeys's: their initial states and their steps,
LEMMA SameSound == (S!Init <=> SP!Init) /\ (S!Next <=> SP!Next) /\ S!vars = SP!vars
  BY DEF S!vars, S!timing, S!offers, S!Telling, S!Tells, S!NoStream, S!Init, S!Called,
      S!Signalled, S!StopOffering, S!Offering, S!Entry, S!ServerFormatAnnounce, S!Tell,
      S!OpenLocked, S!Open, S!Deadline, S!PlayEx, S!SetVolume, S!Ended, S!Close, S!Free,
      S!Quit, S!Join, S!Closer, S!TimedOut, S!Spurious, S!Less, S!Tick, S!Channel, S!Closing,
      S!Next, SP!vars, SP!timing, SP!offers, SP!Telling, SP!Tells, SP!NoStream, SP!Init,
      SP!Called, SP!Signalled, SP!StopOffering, SP!Offering, SP!Entry,
      SP!ServerFormatAnnounce, SP!Tell, SP!OpenLocked, SP!Open, SP!Deadline, SP!PlayEx,
      SP!SetVolume, SP!Ended, SP!Close, SP!Free, SP!Quit, SP!Join, SP!Closer, SP!TimedOut,
      SP!Spurious, SP!Less, SP!Tick, SP!Channel, SP!Closing, SP!Next

\* their invariant and their properties.
LEMMA SameSoundInvariants ==
  /\ (S!IInv <=> SP!IInv)
  /\ (S!InVolume <=> SP!InVolume) /\ (S!SwitchTells <=> SP!SwitchTells)
  /\ (S!NothingPlays <=> SP!NothingPlays)
  BY DEF S!InVolume, S!SwitchTells, S!NothingPlays, S!Places, S!DeviceType, S!StreamType,
      S!CloserType, S!Typed, S!Offered, S!Timely, S!Kept, S!Switched, S!Uncrossed, S!IInv,
      S!Telling, S!NoStream, S!Cardinality, SP!InVolume, SP!SwitchTells, SP!NothingPlays,
      SP!Places, SP!DeviceType, SP!StreamType, SP!CloserType, SP!Typed, SP!Offered,
      SP!Timely, SP!Kept, SP!Switched, SP!Uncrossed, SP!IInv, SP!Telling, SP!NoStream,
      SP!Cardinality

\* The closing thread ends no stream before its samples are heard, a stream has the server's
\* volume, the switch is what the channels told that never crossed, and freed devices leave
\* nothing behind, for any devices, latencies, volumes and calls.
THEOREM SoundInOrderHolds ==
  ASSUME IsFiniteSet(Devices), Grace \in Nat, Latencies \subseteq Nat, 1 \in Gains
  PROVE  MCSpec => SoundInOrder
<1> IsFiniteSet(Devices) <=> SP!IsFiniteSet(Devices)
  BY DEF IsFiniteSet, SP!IsFiniteSet
<1>1. MCInit => SP!IInv
  BY SameSound, SP!InitSound DEF MCInit
<1>2. [MCNext]_all => [SP!Next]_(SP!vars)
  BY SameSound DEF MCNext, all, sound, SP!vars
<1>3. SP!IInv /\ [MCNext]_all => SP!IInv'
  BY <1>2, SP!NextSound
<1>4. SP!IInv => S!InVolume /\ S!SwitchTells /\ S!NothingPlays /\ S!IInv
  BY SameSoundInvariants, SP!IInvSilent DEF SP!IInv, SP!Uncrossed
<1>5. SP!IInv /\ [MCNext]_all =>
        [\A d \in Devices :
           stream[d].open /\ ~stream'[d].open /\ UNCHANGED <<channel, calls>> => unheard[d] = 0]_(S!vars)
  BY <1>2, SP!ClosedHeard
<1> QED
  BY <1>1, <1>3, <1>4, <1>5, PTL DEF MCSpec, SoundInOrder, S!NotCutShort
=============================================================================
