---------------------------- MODULE LooperProofs ----------------------------
(***************************************************************************)
(* That RealVNC's core thread watches what is registered, sleeps with      *)
(* nothing to do and calls back what an event is of, for any number of     *)
(* descriptors, files, tasks and events.                                   *)
(***************************************************************************)
EXTENDS Looper, TLAPS

\* The core begins with its sockets registered, watched and not parked.
LEMMA InitIInv ==
  ASSUME NumFds \in Nat, SeqModulus \in Nat
  PROVE  Init => IInv
<1> SUFFICES ASSUME Init PROVE IInv
  OBVIOUS
<1>1. /\ opened = NumFds /\ file = [fd \in Fds |-> fd] /\ nextSeq = SeqModulus - 1
      /\ fds = [fd \in Fds |-> [seq |-> SeqModulus - 1 - fd, of |-> fd]]
      /\ watched = {[fd |-> fd, seq |-> fds[fd].seq] : fd \in Fds}
  BY DEF Init
<1>2. \A fd \in Fds : fd \in 0..opened /\ fd # 0 /\ SeqModulus - 1 - fd \in Int
  <2>1. opened = NumFds
    BY <1>1
  <2> QED
    BY <2>1 DEF Fds
<1>3. Typed
  <2>1. file \in [Fds -> 0..opened] /\ fds \in [Fds -> [seq : Int, of : 0..opened]]
    BY <1>1, <1>2
  <2>2. watched \in SUBSET [fd : Fds, seq : Int]
    BY <1>1, <2>1
  <2>3. parked \in [waiting : SUBSET Fds, due : SUBSET Fds]
    BY DEF Init
  <2>4. tasks \in [queued : BOOLEAN, timer : {"none", "set", "due"}, timeout : {"none", "some"}]
    BY DEF Init
  <2>5. nextSeq \in Int /\ opened \in Nat
    BY <1>1
  <2>6. /\ at \in Places /\ at # "callback"
        /\ later \in BOOLEAN /\ woken \in BOOLEAN /\ owes \in BOOLEAN /\ batch = {}
    BY Zenon DEF Init, Places
  <2> QED
    BY <2>1, <2>2, <2>3, <2>4, <2>5, <2>6 DEF Typed
<1>4. Table
  <2>1. \A fd \in Fds : fds[fd].of = fd /\ file[fd] = fd
    BY <1>1
  <2>2. \A w \in watched : w.fd \in Fds /\ fds[w.fd].seq = w.seq
    BY <1>1
  <2>3. \A fd \in Fds : [fd |-> fd, seq |-> fds[fd].seq] \in watched
    BY <1>1
  <2>4. \A fd \in Fds : InSet(fd)
    BY <2>3, Zenon DEF InSet
  <2>5. Parked = {} /\ parked.waiting \cap parked.due = {}
    BY DEF Init, Parked
  <2> QED
    BY <1>2, <2>1, <2>2, <2>4, <2>5 DEF Table
<1>5. Told
  BY DEF Init, Told
<1> QED
  BY <1>3, <1>4, <1>5 DEF IInv

\* Registering, removing, opening, closing and reading, on the core's own thread: what
\* the types say.
LEMMA CoreTyped == IInv /\ Core => Typed'
<1> SUFFICES ASSUME IInv, Core PROVE Typed'
  OBVIOUS
<1> USE DEF IInv, Typed, Places, core, table, polled, kernel
<1>1. ASSUME NEW fd \in Fds, AddFd(fd) PROVE Typed'
  BY <1>1 DEF AddFd, NextSeq, Unparked, OutOfSet, Move
<1>2. ASSUME NEW fd \in Fds, RemoveFd(fd) PROVE Typed'
  BY <1>2 DEF RemoveFd, Removed, Unparked, OutOfSet, None
<1>3. ASSUME NEW fd \in Fds, Open(fd) PROVE Typed'
  BY <1>3 DEF Open
<1>4. ASSUME NEW fd \in Fds, Close(fd) PROVE Typed'
  BY <1>4 DEF Close, OutOfSet
<1>5. CASE Consume
  BY <1>5 DEF Consume
<1>6. CASE Later
  BY <1>6 DEF Later
<1> QED
  BY <1>1, <1>2, <1>3, <1>4, <1>5, <1>6 DEF Core

\* The same of the thread's own steps, other threads, time and the network.
LEMMA OtherTyped == IInv /\ [Next]_vars /\ ~Core => Typed'
<1> SUFFICES ASSUME IInv, [Next]_vars, ~Core PROVE Typed'
  OBVIOUS
<1> USE DEF IInv, Typed, Places, core, table, polled, kernel
<1>1. CASE Take
  BY <1>1 DEF Take
<1>2. CASE Answers \/ Done \/ BatchDone
  BY <1>2, Zenon DEF Answers, Done, BatchDone
<1>3. CASE Poll
  BY <1>3 DEF Poll
<1>4. CASE Wait
  <2>1. \A e \in batch' : e = WakeEvent \/ e.fd \in Fds
    BY <1>4 DEF Wait, Reported, Event
  <2> QED
    BY <1>4, <2>1 DEF Wait
<1>5. CASE TimedOut \/ Interrupted
  BY <1>5 DEF TimedOut, Interrupted
<1>6. CASE Handle
  <2>1. PICK e \in batch :
          /\ batch' = batch \ {e}
          /\ \/ e = WakeEvent /\ woken' = FALSE /\ UNCHANGED <<at, called>>
             \/ e # WakeEvent /\ ~Current(e) /\ UNCHANGED <<at, called, woken>>
             \/ /\ e # WakeEvent /\ Current(e)
                /\ at' = "callback" /\ called' = [event |-> e, for |-> fds[e.fd].of]
                /\ UNCHANGED woken
    BY <1>6 DEF Handle
  <2>2. at' \in Places /\ woken' \in BOOLEAN
    BY <1>6, <2>1, Zenon DEF Handle
  <2>3. at' = "callback" => called'.event.fd \in Fds
    BY <1>6, <2>1 DEF Handle
  <2>4. \A x \in batch' : x = WakeEvent \/ x.fd \in Fds
    BY <2>1
  <2> QED
    BY <1>6, <2>2, <2>3, <2>4 DEF Handle
<1>7. CASE Returned
  BY <1>7 DEF Returned, Removed, Unparked, OutOfSet, None
<1>8. CASE Post \/ WakeUp \/ Cancel \/ TimerDue
  BY <1>8, Zenon DEF Post, WakeUp, Cancel, TimerDue
<1>9. ASSUME NEW fd \in Fds, ParkDue(fd) PROVE Typed'
  BY <1>9 DEF ParkDue
<1>10. CASE Arrive
  BY <1>10 DEF Arrive
<1>11. CASE UNCHANGED vars
  BY <1>11 DEF vars
<1> QED
  BY <1>1, <1>2, <1>3, <1>4, <1>5, <1>6, <1>7, <1>8, <1>9, <1>10, <1>11 DEF Next, Thread

\* Taking a number out of an epoll set (EPOLL_CTL_DEL) takes out no other.
LEMMA Without ==
  ASSUME NEW S, NEW T, NEW fd, T = {w \in S : w.fd # fd}
  PROVE  /\ ~\E w \in T : w.fd = fd
         /\ \A f : f # fd => ((\E w \in T : w.fd = f) <=> (\E w \in S : w.fd = f))
OBVIOUS

\* However the core's own thread changes its registrations: what is registered is
\* watched or parked.
LEMMA CoreTable == IInv /\ Core => Table'
<1> SUFFICES ASSUME IInv, Core PROVE Table'
  OBVIOUS
<1> USE DEF IInv, Typed, Table, Parked, InSet, core, table, polled, kernel
<1>1. ASSUME NEW fd \in Fds, AddFd(fd) PROVE Table'
  <2>1. CASE file[fd] # 0
    <3>1. InSet(fd) => fds[fd] # None /\ fd \notin Parked
      BY DEF None
    <3>2. /\ watched' = OutOfSet(fd) \cup {[fd |-> fd, seq |-> nextSeq]}
          /\ fds' = [fds EXCEPT ![fd] = [seq |-> nextSeq, of |-> file[fd]]]
          /\ parked' = Unparked(fd) /\ UNCHANGED file
      BY <1>1, <2>1, <3>1 DEF AddFd
    <3>3. /\ fds'[fd] = [seq |-> nextSeq, of |-> file[fd]] /\ fds'[fd].of # 0
          /\ \A f \in Fds \ {fd} : fds'[f] = fds[f]
      BY <2>1, <3>2
    <3>4. \A w \in watched' : \/ w.fd = fd /\ w.seq = nextSeq
                              \/ w \in watched /\ w.fd # fd
      <4>1. \A w \in OutOfSet(fd) : w \in watched /\ w.fd # fd
        BY DEF OutOfSet
      <4>2. [fd |-> fd, seq |-> nextSeq].fd = fd /\ [fd |-> fd, seq |-> nextSeq].seq = nextSeq
        OBVIOUS
      <4>3. \A w \in watched' : w \in OutOfSet(fd) \/ w = [fd |-> fd, seq |-> nextSeq]
        BY <3>2
      <4> SUFFICES ASSUME NEW w \in watched'
                   PROVE  (w.fd = fd /\ w.seq = nextSeq) \/ (w \in watched /\ w.fd # fd)
        OBVIOUS
      <4>4. CASE w = [fd |-> fd, seq |-> nextSeq]
        BY <4>4
      <4> QED
        BY <4>1, <4>3, <4>4
    <3>5. /\ [fd |-> fd, seq |-> nextSeq] \in watched'
          /\ \A w \in watched : w.fd # fd => w \in watched'
      BY <3>2 DEF OutOfSet
    <3>6. InSet(fd)' /\ \A f \in Fds \ {fd} : InSet(f)' <=> InSet(f)
      BY <3>4, <3>5
    <3>7. Parked' = Parked \ {fd}
      BY <3>2 DEF Unparked
    <3>8. \A f \in Fds : fds'[f] # None => fds'[f].of # 0
      BY <3>3
    <3>9. \A w \in watched' :
            fds'[w.fd].of = file'[w.fd] /\ fds'[w.fd].of # 0 /\ fds'[w.fd].seq = w.seq
      BY <3>2, <3>3, <3>4
    <3>10. \A f \in Parked' : fds'[f] # None /\ fds'[f].of = file'[f] /\ ~InSet(f)'
      <4> SUFFICES ASSUME NEW f \in Parked'
                   PROVE  fds'[f] # None /\ fds'[f].of = file'[f] /\ ~InSet(f)'
        OBVIOUS
      <4>1. f \in Parked /\ f \in Fds \ {fd}
        BY <3>7
      <4>2. fds'[f] = fds[f] /\ file'[f] = file[f] /\ (InSet(f)' <=> InSet(f))
        BY <3>2, <3>3, <3>6, <4>1, Zenon
      <4> QED
        BY <4>1, <4>2, Zenon
    <3>11. \A f \in Fds : fds'[f] # None /\ fds'[f].of = file'[f] => InSet(f)' \/ f \in Parked'
      BY <3>2, <3>3, <3>6, <3>7
    <3>12. (parked.waiting \cap parked.due = {})'
      BY <3>2 DEF Unparked
    <3> QED
      BY <3>8, <3>9, <3>10, <3>11, <3>12
  <2>2. CASE file[fd] = 0
    <3>1. fd \notin Parked
      BY <2>2
    <3>2. UNCHANGED <<watched, fds, file>> /\ parked' = parked
      BY <1>1, <2>2, <3>1 DEF AddFd, Unparked
    <3> QED
      BY <3>2
  <2> QED
    BY <2>1, <2>2
<1>2. ASSUME NEW fd \in Fds, RemoveFd(fd) PROVE Table'
  BY <1>2 DEF RemoveFd, Removed, Unparked, OutOfSet, None
<1>3. ASSUME NEW fd \in Fds, Open(fd) PROVE Table'
  BY <1>3 DEF Open
<1>4. ASSUME NEW fd \in Fds, Close(fd) PROVE Table'
  BY <1>4 DEF Close, OutOfSet
<1>5. CASE Consume \/ Later
  BY <1>5 DEF Consume, Later
<1> QED
  BY <1>1, <1>2, <1>3, <1>4, <1>5 DEF Core

\* The same of a callback that returns, of what is put back, and of the steps that
\* change no registration.
LEMMA OtherTable == IInv /\ [Next]_vars /\ ~Core => Table'
<1> SUFFICES ASSUME IInv, [Next]_vars, ~Core PROVE Table'
  OBVIOUS
<1> USE DEF IInv, Typed, Table, Parked, InSet, core, table, polled, kernel
<1>1. CASE Poll
  <2> DEFINE back == {[fd |-> fd, seq |-> fds[fd].seq] :
                        fd \in {f \in parked.due : fds[f] # None /\ file[f] # 0 /\ ~InSet(f)}}
  <2>1. watched' = watched \cup back /\ UNCHANGED <<fds, file>> /\ Parked' = parked.waiting
    BY <1>1 DEF Poll
  <2>2. \A f \in parked.due :
          fds[f] # None /\ file[f] # 0 /\ ~InSet(f) /\ fds[f].of = file[f]
    OBVIOUS
  <2>3. \A w \in back : w.fd \in parked.due /\ w.seq = fds[w.fd].seq
    OBVIOUS
  <2>4. \A f \in parked.due : [fd |-> f, seq |-> fds[f].seq] \in back
    BY <2>2
  <2> HIDE DEF back
  <2>5. \A f \in Fds : InSet(f)' <=> InSet(f) \/ f \in parked.due
    <3> SUFFICES ASSUME NEW f \in Fds PROVE InSet(f)' <=> InSet(f) \/ f \in parked.due
      OBVIOUS
    <3>1. ASSUME f \in parked.due PROVE InSet(f)'
      <4>1. [fd |-> f, seq |-> fds[f].seq] \in watched'
        BY <2>1, <2>4, <3>1
      <4> QED
        BY <4>1
    <3>2. InSet(f) => InSet(f)'
      BY <2>1
    <3>3. InSet(f)' => InSet(f) \/ f \in parked.due
      BY <2>1, <2>3
    <3> QED
      BY <3>1, <3>2, <3>3
  <2>6. \A w \in watched' :
          fds'[w.fd].of = file'[w.fd] /\ fds'[w.fd].of # 0 /\ fds'[w.fd].seq = w.seq
    BY <2>1, <2>2, <2>3
  <2>7. \A f \in Parked' : fds'[f] # None /\ fds'[f].of = file'[f] /\ ~InSet(f)'
    BY <2>1, <2>5
  <2>8. (parked.waiting \cap parked.due = {})'
    BY <1>1 DEF Poll
  <2> QED
    BY <2>1, <2>5, <2>6, <2>7, <2>8
<1>2. CASE Returned
  <2>1. PICK fd \in Fds : fd = called.event.fd /\ UNCHANGED file
    BY <1>2 DEF Returned
  <2>2. CASE Removed(fd)
    BY <2>1, <2>2 DEF Removed, Unparked, OutOfSet, None
  <2>3. CASE /\ Current(called.event) /\ fd \notin Parked /\ InSet(fd)
             /\ parked' = [parked EXCEPT !.waiting = @ \cup {fd}]
             /\ watched' = OutOfSet(fd) /\ UNCHANGED fds
    <3>1. ~InSet(fd)' /\ \A f \in Fds \ {fd} : InSet(f)' <=> InSet(f)
      <4>1. watched' = {w \in watched : w.fd # fd}
        BY <2>3 DEF OutOfSet
      <4>2. /\ ~\E w \in watched' : w.fd = fd
            /\ \A f : f # fd => ((\E w \in watched' : w.fd = f) <=> (\E w \in watched : w.fd = f))
        BY ONLY <4>1, Without
      <4> QED
        BY ONLY <4>2 DEF InSet
    <3>2. Parked' = Parked \cup {fd} /\ (parked.waiting \cap parked.due = {})'
      BY <2>3
    <3>3. fds[fd] # None /\ fds[fd].of = file[fd]
      BY <2>1, <2>3 DEF None
    <3>4. watched' \subseteq watched
      BY <2>3 DEF OutOfSet
    <3>5. \A w \in watched' :
            fds'[w.fd].of = file'[w.fd] /\ fds'[w.fd].of # 0 /\ fds'[w.fd].seq = w.seq
      BY <2>1, <2>3, <3>4
    <3>6. \A f \in Parked' : fds'[f] # None /\ fds'[f].of = file'[f] /\ ~InSet(f)'
      <4> SUFFICES ASSUME NEW f \in Parked'
                   PROVE  fds[f] # None /\ fds[f].of = file[f] /\ ~InSet(f)'
        BY <2>1, <2>3
      <4>1. CASE f = fd
        BY <3>1, <3>3, <4>1
      <4>2. CASE f # fd
        <5>1. f \in Parked /\ f \in Fds \ {fd}
          BY <3>2, <4>2
        <5>2. fds[f] # None /\ fds[f].of = file[f] /\ ~InSet(f)
          BY <5>1
        <5> QED
          BY <3>1, <5>1, <5>2
      <4> QED
        BY <4>1, <4>2
    <3>7. \A f \in Fds : fds'[f] # None /\ fds'[f].of = file'[f] => InSet(f)' \/ f \in Parked'
      BY <2>1, <2>3, <3>1, <3>2
    <3> QED
      BY <2>3, <3>2, <3>5, <3>6, <3>7
  <2>4. CASE UNCHANGED <<fds, parked, watched>>
    BY <2>1, <2>4
  <2> QED
    BY <1>2, <2>1, <2>2, <2>3, <2>4 DEF Returned
<1>3. ASSUME NEW fd \in Fds, ParkDue(fd) PROVE Table'
  BY <1>3 DEF ParkDue
<1>4. CASE UNCHANGED <<fds, file, watched, parked>>
  BY <1>4
<1>5. CASE \/ Take \/ Answers \/ Done \/ Wait \/ TimedOut \/ Interrupted \/ Handle \/ BatchDone
           \/ Post \/ WakeUp \/ Cancel \/ TimerDue \/ Arrive \/ UNCHANGED vars
  BY <1>4, <1>5, Zenon DEF Take, Answers, Done, Wait, TimedOut, Interrupted, Handle, BatchDone, Post,
                    WakeUp, Cancel, TimerDue, Arrive, vars
<1> QED
  BY <1>1, <1>2, <1>3, <1>5 DEF Next, Thread

\* post and postDelayed wake after they queue, and later wakes at once: what comes
\* after the thread took its tasks has a wake behind it, or a timeout before it.
LEMMA NextTold == IInv /\ [Next]_vars => Told'
<1> SUFFICES ASSUME IInv, [Next]_vars PROVE Told'
  BY Zenon
<1> USE DEF IInv, Typed, Told, Parked, core, table, polled, kernel
<1>1. CASE Core
  BY <1>1 DEF Core, AddFd, RemoveFd, Open, Close, Consume, Later, InCore
<1>2. CASE Take
  BY <1>2 DEF Take
<1>3. CASE Answers \/ Done
  BY <1>3 DEF Answers, Done
<1>4. CASE Poll
  BY <1>4 DEF Poll
<1>5. CASE Wait \/ TimedOut \/ Interrupted \/ BatchDone
  BY <1>5 DEF Wait, TimedOut, Interrupted, BatchDone
<1>6. CASE Handle
  BY <1>6 DEF Handle
<1>7. CASE Returned
  BY <1>7 DEF Returned
<1>8. CASE Post
  BY <1>8 DEF Post
<1>9. CASE WakeUp \/ Cancel \/ TimerDue
  BY <1>9 DEF WakeUp, Cancel, TimerDue
<1>10. ASSUME NEW fd \in Fds, ParkDue(fd) PROVE Told'
  BY <1>10 DEF ParkDue
<1>11. CASE Arrive \/ UNCHANGED vars
  BY <1>11 DEF Arrive, vars
<1> QED
  BY <1>1, <1>2, <1>3, <1>4, <1>5, <1>6, <1>7, <1>8, <1>9, <1>10, <1>11 DEF Next, Thread

\* Every step keeps the inductive invariant.
LEMMA NextIInv == IInv /\ [Next]_vars => IInv'
  BY CoreTyped, OtherTyped, CoreTable, OtherTable, NextTold DEF IInv

\* What it says of the epoll set.
LEMMA IInvWatched == IInv => RegisteredIsWatched
<1> SUFFICES ASSUME IInv PROVE RegisteredIsWatched
  OBVIOUS
<1>1. \A w \in watched : fds[w.fd] # None /\ fds[w.fd].seq = w.seq
  BY DEF IInv, Typed, Table, None
<1>2. \A fd \in Fds :
        fds[fd] # None /\ fds[fd].of = file[fd] => (InSet(fd) <=> fd \notin Parked)
  BY DEF IInv, Table
<1> QED
  BY <1>1, <1>2 DEF RegisteredIsWatched

\* And of a thread that sleeps.
LEMMA IInvIdle == IInv => SleepsIdle
  BY DEF IInv, Typed, Told, SleepsIdle

-----------------------------------------------------------------------------
(* Numbers that are used again.                                             *)

\* nextSeq_ begins again at 1: the number given is new, and those given before are one
\* registration older.
LEMMA SeqGiven ==
  ASSUME NumFds \in Nat, MaxMoves \in Nat, SeqModulus \in Nat,
         NumFds + MaxMoves < SeqModulus - 1,
         nextSeq \in 1..(SeqModulus - 1), moves \in 0..MaxMoves,
         nextSeq' = NextSeq, moves' = moves + 1
  PROVE  /\ nextSeq' \in 1..(SeqModulus - 1)
         /\ \A s : s = nextSeq => Recent(s)' /\ ~Recent(s)
         /\ \A s : Recent(s) => Recent(s)'
<1>1. nextSeq' \in 1..(SeqModulus - 1)
  BY DEF NextSeq
<1>2. ASSUME NEW s, s = nextSeq PROVE Recent(s)' /\ ~Recent(s)
  BY <1>2 DEF NextSeq, Recent, Age
<1>3. ASSUME NEW s, Recent(s) PROVE Recent(s)'
  <2>1. CASE nextSeq + 1 = SeqModulus
    BY <1>3, <2>1 DEF NextSeq, Recent, Age
  <2>2. CASE nextSeq + 1 # SeqModulus
    BY <1>3, <2>2 DEF NextSeq, Recent, Age
  <2> QED
    BY <2>1, <2>2
<1> QED
  BY <1>1, <1>2, <1>3

\* The core begins with the numbers given last.
LEMMA InitFresh ==
  ASSUME NumFds \in Nat, MaxMoves \in Nat, SeqModulus \in Nat,
         NumFds + MaxMoves < SeqModulus - 1
  PROVE  Init => Fresh
<1> SUFFICES ASSUME Init PROVE Fresh
  OBVIOUS
<1>1. nextSeq = SeqModulus - 1 /\ moves = 0 /\ batch = {} /\ at # "callback"
  BY DEF Init
<1>2. ASSUME NEW fd \in Fds PROVE Recent(fds[fd].seq)
  <2>1. fds[fd].seq = SeqModulus - 1 - fd
    BY <1>2 DEF Init
  <2> QED
    BY <1>1, <1>2, <2>1 DEF Recent, Age, Fds
<1> QED
  BY <1>1, <1>2 DEF Fresh, HeardByItsOwn

\* Where no number is given, no event comes and nothing is registered, nothing is older.
LEMMA FreshKept ==
  ASSUME NumFds \in Nat, MaxMoves \in Nat, SeqModulus \in Nat,
         IInv, Fresh, nextSeq' = nextSeq, moves' \in 0..MaxMoves, moves' >= moves,
         batch' \subseteq batch,
         \A fd \in Fds : fds'[fd] = fds[fd] \/ fds'[fd] = None,
         HeardByItsOwn'
  PROVE  Fresh'
<1>1. nextSeq \in 1..(SeqModulus - 1) /\ moves \in 0..MaxMoves
  BY DEF Fresh
<1>2. ASSUME NEW n, Recent(n) PROVE Recent(n)'
  <2>1. Age(n)' = Age(n)
    BY DEF Age
  <2>2. n \in 1..(SeqModulus - 1) /\ Age(n) <= NumFds + moves
    BY <1>2 DEF Recent
  <2>3. Age(n) \in Int
    BY <1>1, <2>2 DEF Age
  <2>4. Age(n) <= NumFds + moves'
    BY <1>1, <2>2, <2>3
  <2> QED
    BY <2>1, <2>2, <2>4 DEF Recent
<1>3. ASSUME NEW fd \in Fds, fds'[fd] # None PROVE Recent(fds[fd].seq)'
  <2>1. fds'[fd] = fds[fd] /\ Recent(fds[fd].seq)
    BY <1>3 DEF Fresh
  <2>2. PICK n : n = fds[fd].seq
    OBVIOUS
  <2>3. Recent(n)' /\ n = fds'[fd].seq
    BY <1>2, <2>1, <2>2
  <2> QED
    BY <2>3 DEF Recent, Age
<1>4. ASSUME NEW e \in batch' \ {WakeEvent}
      PROVE  Recent(e.seq)' /\ (Current(e)' => e.of = fds'[e.fd].of)
  <2>1. e \in batch \ {WakeEvent} /\ e.fd \in Fds
    BY <1>4 DEF IInv, Typed
  <2>2. Recent(e.seq) /\ (Current(e) => e.of = fds[e.fd].of)
    BY <2>1 DEF Fresh
  <2>3. Recent(e.seq)'
    BY <1>2, <2>2, Zenon
  <2> QED
    BY <2>1, <2>2, <2>3 DEF Current
<1> QED
  BY <1>1, <1>3, <1>4 DEF Fresh

\* A new registration has a number that nothing else has, so that no event that waits
\* in the batch is taken for one of it.
LEMMA AddFdFresh ==
  ASSUME NumFds \in Nat, MaxMoves \in Nat, SeqModulus \in Nat,
         NumFds + MaxMoves < SeqModulus - 1,
         IInv, Fresh, NEW fd \in Fds, AddFd(fd)
  PROVE  Fresh'
<1>1. nextSeq \in 1..(SeqModulus - 1) /\ moves \in 0..MaxMoves
  BY DEF Fresh
<1>2. /\ nextSeq' = NextSeq /\ moves < MaxMoves /\ moves' = moves + 1 /\ batch' = batch
      /\ at' = at /\ called' = called
  BY DEF AddFd, Move, core, polled
<1>3. /\ nextSeq' \in 1..(SeqModulus - 1)
      /\ \A n : n = nextSeq => Recent(n)' /\ ~Recent(n)
      /\ \A n : Recent(n) => Recent(n)'
  BY <1>1, <1>2, SeqGiven
<1>4. PICK entry : (fds' = fds \/ fds' = [fds EXCEPT ![fd] = entry]) /\ entry.seq = nextSeq
  <2>1. PICK entry : entry = [seq |-> nextSeq, of |-> file[fd]]
    BY Zenon
  <2>2. fds' = fds \/ fds' = [fds EXCEPT ![fd] = entry]
    BY <2>1 DEF AddFd
  <2> QED
    BY <2>1, <2>2
<1>5. /\ fds \in [Fds -> [seq : Int, of : 0..opened]]
      /\ \A g \in Fds : fds'[g] = fds[g] \/ (g = fd /\ fds'[g] = entry)
  BY <1>4 DEF IInv, Typed
<1>6. ASSUME NEW g \in Fds, fds'[g] # None, NEW n, n = fds'[g].seq PROVE Recent(n)'
  <2>1. CASE fds'[g] = fds[g]
    BY <1>3, <1>6, <2>1 DEF Fresh
  <2>2. CASE fds'[g] = entry
    BY <1>3, <1>4, <1>6, <2>2
  <2> QED
    BY <1>5, <2>1, <2>2
<1>7. ASSUME NEW e \in batch' \ {WakeEvent}
      PROVE  Recent(e.seq)' /\ (Current(e)' => e.of = fds'[e.fd].of)
  <2>1. e \in batch \ {WakeEvent} /\ e.fd \in Fds
    BY <1>2, <1>7 DEF IInv, Typed
  <2>2. Recent(e.seq) /\ (Current(e) => e.of = fds[e.fd].of)
    BY <2>1 DEF Fresh
  <2>3. Recent(e.seq)' /\ e.seq # nextSeq
    BY <1>3, <2>2
  <2>4. CASE fds'[e.fd] = fds[e.fd]
    BY <2>2, <2>3, <2>4 DEF Current
  <2>5. CASE fds'[e.fd] = entry
    BY <1>4, <2>3, <2>5 DEF Current
  <2> QED
    BY <1>5, <2>1, <2>4, <2>5
<1>8. HeardByItsOwn'
  BY <1>2 DEF Fresh, HeardByItsOwn
<1>9. ASSUME NEW g \in Fds, fds'[g] # None PROVE Recent(fds[g].seq)'
  <2>1. PICK n : n = fds'[g].seq
    OBVIOUS
  <2>2. Recent(n)'
    BY <1>6, <1>9, <2>1
  <2> QED
    BY <2>1, <2>2 DEF Recent, Age
<1> QED
  BY <1>1, <1>2, <1>3, <1>7, <1>8, <1>9 DEF Fresh

\* Every step keeps the numbers apart: Wait reports registrations by the number they
\* have, and Handle calls back those that still have it.
LEMMA NextFresh ==
  ASSUME NumFds \in Nat, MaxMoves \in Nat, SeqModulus \in Nat,
         NumFds + MaxMoves < SeqModulus - 1
  PROVE  IInv /\ Fresh /\ [Next]_vars => Fresh'
<1> SUFFICES ASSUME IInv, Fresh, [Next]_vars PROVE Fresh'
  OBVIOUS
<1> USE DEF core, table, polled, kernel
<1>1. nextSeq \in 1..(SeqModulus - 1) /\ moves \in 0..MaxMoves /\ HeardByItsOwn
  BY DEF Fresh
<1>2. fds \in [Fds -> [seq : Int, of : 0..opened]]
  BY DEF IInv, Typed
<1>3. ASSUME NEW fd \in Fds, AddFd(fd) PROVE Fresh'
  BY <1>3, AddFdFresh
<1>4. CASE Wait
  <2>1. /\ fds' = fds /\ nextSeq' = nextSeq /\ moves' = moves /\ at' # "callback"
        /\ batch' = Reported
    BY <1>4 DEF Wait
  <2>2. ASSUME NEW n, Recent(n) PROVE Recent(n)'
    BY <2>1, <2>2 DEF Recent, Age
  <2>3. ASSUME NEW fd \in Fds, fds'[fd] # None PROVE Recent(fds[fd].seq)'
    BY <2>1, <2>3 DEF Fresh, Recent, Age
  <2>4. ASSUME NEW e \in batch' \ {WakeEvent}
        PROVE  Recent(e.seq)' /\ (Current(e)' => e.of = fds'[e.fd].of)
    <3>1. PICK w \in watched : e.fd = w.fd /\ e.seq = w.seq /\ e.of = file[w.fd]
      BY <2>1, <2>4 DEF Reported, Event
    <3>2. w.fd \in Fds /\ fds[w.fd].of = file[w.fd] /\ fds[w.fd].of # 0 /\ fds[w.fd].seq = w.seq
      BY DEF IInv, Typed, Table
    <3>3. Recent(e.seq)
      BY <3>1, <3>2 DEF Fresh, None
    <3> QED
      BY <2>1, <2>2, <3>1, <3>2, <3>3
  <2> QED
    BY <1>1, <2>1, <2>3, <2>4 DEF Fresh, HeardByItsOwn
<1>5. CASE Handle
  <2>1. fds' = fds /\ nextSeq' = nextSeq /\ moves' = moves /\ batch' \subseteq batch
    BY <1>5 DEF Handle
  <2>2. HeardByItsOwn'
    <3> SUFFICES ASSUME at' = "callback" PROVE called'.event.of = called'.for
      BY DEF HeardByItsOwn
    <3>1. PICK e \in batch \ {WakeEvent} :
            Current(e) /\ called' = [event |-> e, for |-> fds[e.fd].of]
      BY <1>5 DEF Handle
    <3> QED
      BY <3>1 DEF Fresh
  <2> QED
    BY <1>1, <2>1, <2>2, FreshKept
<1>6. CASE Returned
  <2>1. nextSeq' = nextSeq /\ moves' = moves /\ batch' = batch /\ at' # "callback"
    BY <1>6 DEF Returned
  <2>2. fds' = fds \/ fds' = [fds EXCEPT ![called.event.fd] = None]
    BY <1>6 DEF Returned, Removed
  <2>3. \A fd \in Fds : fds'[fd] = fds[fd] \/ fds'[fd] = None
    BY <1>2, <2>2
  <2>4. HeardByItsOwn'
    BY <2>1 DEF HeardByItsOwn
  <2> QED
    BY <1>1, <2>1, <2>3, <2>4, FreshKept
<1>7. ASSUME NEW fd \in Fds, RemoveFd(fd) PROVE Fresh'
  <2>1. /\ nextSeq' = nextSeq /\ moves' = moves + 1 /\ moves < MaxMoves /\ batch' = batch
        /\ at' = at /\ called' = called /\ fds' = [fds EXCEPT ![fd] = None]
    BY <1>7 DEF RemoveFd, Move, Removed
  <2>2. \A g \in Fds : fds'[g] = fds[g] \/ fds'[g] = None
    BY <1>2, <2>1
  <2>3. HeardByItsOwn'
    BY <1>1, <2>1 DEF HeardByItsOwn
  <2>4. moves' \in 0..MaxMoves /\ moves' >= moves
    BY <1>1, <2>1
  <2> QED
    BY <2>1, <2>2, <2>3, <2>4, FreshKept
<1>8. ASSUME \/ \E fd \in Fds : Open(fd) \/ Close(fd) \/ ParkDue(fd)
             \/ Consume \/ Later \/ Take \/ Answers \/ Done \/ Poll \/ TimedOut \/ BatchDone
             \/ Interrupted \/ Post \/ WakeUp \/ Cancel \/ TimerDue \/ Arrive
             \/ UNCHANGED vars
      PROVE  Fresh'
  <2>1. /\ nextSeq' = nextSeq /\ batch' = batch /\ fds' = fds /\ called' = called
        /\ at' = "callback" => at = "callback"
    BY <1>8, Zenon
    DEF Open, Close, ParkDue, Consume, Later, Take, Answers, Done, Poll, TimedOut, BatchDone,
        Interrupted, Post, WakeUp, Cancel, TimerDue, Arrive, vars
  <2>2. moves' = moves \/ (moves < MaxMoves /\ moves' = moves + 1)
    BY <1>8
    DEF Open, Close, ParkDue, Consume, Later, Take, Answers, Done, Poll, TimedOut, BatchDone,
        Interrupted, Post, WakeUp, Cancel, TimerDue, Arrive, vars, Move
  <2>3. moves' \in 0..MaxMoves /\ moves' >= moves
    BY <1>1, <2>2
  <2>4. HeardByItsOwn'
    BY <1>1, <2>1 DEF HeardByItsOwn
  <2> QED
    BY <2>1, <2>3, <2>4, FreshKept
<1> QED
  BY <1>3, <1>4, <1>5, <1>6, <1>7, <1>8 DEF Next, Thread, Core

\* The inductive invariant: what is registered is watched or parked, and the thread
\* has been told of everything that came since it took its tasks.
THEOREM IInvHolds ==
  ASSUME NumFds \in Nat, SeqModulus \in Nat
  PROVE  Spec => []IInv
<1>1. Init => IInv
  BY InitIInv
<1> QED
  BY <1>1, NextIInv, PTL DEF Spec

\* Looper's fds_, parked_ and epoll set agree: epoll watches registrations and nothing
\* else, and a registration whose file is open is watched or parked, never both.
THEOREM RegisteredIsWatchedHolds ==
  ASSUME NumFds \in Nat, SeqModulus \in Nat
  PROVE  Spec => []RegisteredIsWatched
  BY IInvWatched, IInvHolds, PTL

\* CoreThread::run and pollOnce: the thread sleeps without a timeout only with no task,
\* timer or answer that no wake is on its way for, and no descriptor to put back.
THEOREM SleepsIdleHolds ==
  ASSUME NumFds \in Nat, SeqModulus \in Nat
  PROVE  Spec => []SleepsIdle
  BY IInvIdle, IInvHolds, PTL

\* pollOnce never calls back for a file that a number stood for before: within what
\* nextSeq_ can count, a registration's seq tells it from every other under its number.
THEOREM HeardByItsOwnHolds ==
  ASSUME NumFds \in Nat, MaxMoves \in Nat, SeqModulus \in Nat,
         NumFds + MaxMoves < SeqModulus - 1
  PROVE  Spec => []HeardByItsOwn
<1>1. Init => IInv /\ Fresh
  BY InitIInv, InitFresh
<1>2. IInv /\ Fresh /\ [Next]_vars => (IInv /\ Fresh)'
  BY NextIInv, NextFresh
<1>3. Fresh => HeardByItsOwn
  BY DEF Fresh
<1> QED
  BY <1>1, <1>2, <1>3, PTL DEF Spec
=============================================================================
