------------------------------ MODULE Looper ------------------------------
(***************************************************************************)
(* The thread that RealVNC's core runs on, on Linux: its tasks             *)
(* (CoreThread), the answers it puts off (DesktopCore) and the stand-in    *)
(* for ALooper that its sockets wait in (Looper), over an epoll set that   *)
(* the kernel empties of closed files and whose numbers are used again.    *)
(*                                                                         *)
(* The core registers, removes, opens and closes on its own thread, in     *)
(* tasks, answers and callbacks; other threads post tasks and wake it.     *)
(* A registration is for input, and has a callback.                        *)
(***************************************************************************)
EXTENDS Integers

CONSTANTS
  NumFds,       \* the numbers that descriptors have are 1 to this
  SeqModulus,   \* nextSeq_ stays below it (2^32)
  MaxFiles,     \* files opened over a behaviour
  MaxMoves      \* opens, the core's calls, posts and arrivals, together

VARIABLES
  at,       \* where the thread is
  tasks,    \* CoreThread: queue_, delayed_, and the timeout it polls with
  later,    \* DesktopCore::later_ holds an answer
  fds,      \* Looper::fds_: by number, the seq and (history) the file registered
  parked,   \* Looper::parked_: waiting, and those whose time has come
  nextSeq,  \* Looper::nextSeq_
  batch,    \* the events of one epoll_wait still to be handled, in any order
  called,   \* the event whose callback runs, and (history) the file it was for
  file,     \* kernel: the file each number stands for, 0 for none
  watched,  \* kernel: the epoll set
  ready,    \* kernel: what epoll would report of each file
  woken,    \* kernel: the wake descriptor's counter is not zero
  owes,     \* another thread has queued a task and not yet called wake
  opened,   \* how many files have been opened
  moves     \* of MaxMoves

core == <<at, tasks, later>>
table == <<fds, parked, nextSeq>>
polled == <<batch, called>>
kernel == <<file, watched, ready, woken, opened>>
vars == <<core, table, polled, kernel, owes, moves>>

Fds == 1..NumFds
Files == 1..MaxFiles
None == [seq |-> 0, of |-> 0]
Event(fd, seq, of, events) == [fd |-> fd, seq |-> seq, of |-> of, events |-> events]
WakeEvent == Event(0, 0, 0, {"input"})
NoCall == [event |-> WakeEvent, for |-> 0]

\* The core has a socket registered under each number, the last ones before
\* nextSeq_ begins again, and the first has something to read.
Init ==
  /\ at = "loop"
  /\ tasks = [queued |-> FALSE, timer |-> "none", timeout |-> "none"]
  /\ later = FALSE
  /\ fds = [fd \in Fds |-> [seq |-> SeqModulus - 1 - fd, of |-> fd]]
  /\ parked = [waiting |-> {}, due |-> {}]
  /\ nextSeq = SeqModulus - 1
  /\ batch = {} /\ called = NoCall
  /\ file = [fd \in Fds |-> fd]
  /\ watched = {[fd |-> fd, seq |-> fds[fd].seq] : fd \in Fds}
  /\ ready = [f \in Files |-> IF f = 1 THEN {"input"} ELSE {}]
  /\ woken = FALSE /\ owes = FALSE
  /\ opened = NumFds /\ moves = 0

Move == moves < MaxMoves /\ moves' = moves + 1

-----------------------------------------------------------------------------
(* What the core does from its own thread, in a task, an answer or a        *)
(* callback.                                                                *)

InCore == at \in {"task", "answerBefore", "answerAfter", "callback"}

Parked == parked.waiting \cup parked.due
Unparked(fd) == [waiting |-> parked.waiting \ {fd}, due |-> parked.due \ {fd}]
InSet(fd) == \E w \in watched : w.fd = fd
OutOfSet(fd) == {w \in watched : w.fd # fd}

\* The number taken again from one, as 0 is the wake descriptor's.
NextSeq == IF nextSeq + 1 = SeqModulus THEN 1 ELSE nextSeq + 1

\* epoll_ctl fails for a closed descriptor, and adds one that is not in the set
\* whatever fds_ says of its number; by then it is parked no longer.
AddFdStaysParked(fd) ==
  /\ InCore /\ Move
  /\ nextSeq' = NextSeq
  /\ \/ /\ file[fd] # 0 /\ (InSet(fd) => fds[fd] # None)
        /\ watched' = OutOfSet(fd) \cup {[fd |-> fd, seq |-> nextSeq]}
        /\ fds' = [fds EXCEPT ![fd] = [seq |-> nextSeq, of |-> file[fd]]]
     \/ /\ ~(file[fd] # 0 /\ (InSet(fd) => fds[fd] # None))
        /\ UNCHANGED <<watched, fds>>
  /\ UNCHANGED <<core, polled, parked, file, ready, woken, opened, owes>>

AddFd(fd) ==
  /\ InCore /\ Move
  /\ nextSeq' = NextSeq
  /\ parked' = Unparked(fd)
  /\ LET exists == fds[fd] # None /\ fd \notin Parked IN
     \/ /\ file[fd] # 0 /\ (InSet(fd) => exists)
        /\ watched' = OutOfSet(fd) \cup {[fd |-> fd, seq |-> nextSeq]}
        /\ fds' = [fds EXCEPT ![fd] = [seq |-> nextSeq, of |-> file[fd]]]
     \/ /\ ~(file[fd] # 0 /\ (InSet(fd) => exists))
        /\ UNCHANGED <<watched, fds>>
  /\ UNCHANGED <<core, polled, file, ready, woken, opened, owes>>

\* fds_, parked_ and the set once a registered number is removed.
Removed(fd) ==
  /\ fds' = [fds EXCEPT ![fd] = None]
  /\ parked' = Unparked(fd)
  /\ watched' = IF fd \in Parked THEN watched ELSE OutOfSet(fd)

RemoveFd(fd) ==
  /\ InCore /\ fds[fd] # None /\ Move
  /\ Removed(fd)
  /\ UNCHANGED <<core, polled, nextSeq, file, ready, woken, opened, owes>>

\* A number is given again as soon as it is free.
Open(fd) ==
  /\ InCore /\ file[fd] = 0 /\ opened < MaxFiles /\ Move
  /\ opened' = opened + 1
  /\ file' = [file EXCEPT ![fd] = opened']
  /\ UNCHANGED <<core, table, polled, watched, ready, woken, owes>>

\* With or without removing it first, which addFd allows for; not while it is
\* parked, which no call allows for.
Close(fd) ==
  /\ InCore /\ file[fd] # 0 /\ fd \notin Parked
  /\ file' = [file EXCEPT ![fd] = 0]
  /\ watched' = OutOfSet(fd)
  /\ ready' = [ready EXCEPT ![file[fd]] = {}]
  /\ UNCHANGED <<core, table, polled, woken, opened, owes, moves>>

\* A callback reads its file, or the error that waits there.
Consume ==
  /\ at = "callback" /\ file[called.event.fd] = called.event.of
  /\ ready[called.event.of] # {}
  /\ \E left \in SUBSET ready[called.event.of] :
       left # ready[called.event.of] /\ ready' = [ready EXCEPT ![called.event.of] = left]
  /\ UNCHANGED <<core, table, polled, file, watched, woken, opened, owes, moves>>

\* A question that this host declines is answered after the call that asks it.
Later ==
  /\ InCore /\ ~later /\ Move
  /\ later' = TRUE /\ woken' = TRUE
  /\ UNCHANGED <<at, tasks, table, polled, file, watched, ready, opened, owes>>

Core ==
  \/ \E fd \in Fds : AddFd(fd) \/ RemoveFd(fd) \/ Open(fd) \/ Close(fd)
  \/ Consume \/ Later

-----------------------------------------------------------------------------
(* The thread.                                                              *)

\* run takes everything due, and knows by then how long it may poll.
Take ==
  /\ at = "loop" /\ ~later
  /\ tasks' = [queued |-> FALSE,
               timer |-> IF tasks.timer = "due" THEN "none" ELSE tasks.timer,
               timeout |-> IF tasks.timer = "set" THEN "some" ELSE "none"]
  /\ at' = IF tasks.queued \/ tasks.timer = "due" THEN "task" ELSE "before"
  /\ UNCHANGED <<later, table, polled, kernel, owes, moves>>

\* answerLater, before the poll and once it has returned: answers that ask for more
\* are answered too.
Answers ==
  /\ at \in {"before", "loop"} /\ later
  /\ later' = FALSE
  /\ at' = IF at = "before" THEN "answerBefore" ELSE "answerAfter"
  /\ UNCHANGED <<tasks, table, polled, kernel, owes, moves>>

\* A task or an answer is done.
Done ==
  /\ \/ at \in {"task", "answerBefore"} /\ at' = "before"
     \/ at = "answerAfter" /\ at' = "loop"
  /\ UNCHANGED <<tasks, later, table, polled, kernel, owes, moves>>

\* unparkDue, and a timeout that lets what is still parked be put back.
PollUncapped ==
  /\ at = "before" /\ ~later
  /\ at' = "wait"
  /\ parked' = [parked EXCEPT !.due = {}]
  /\ watched' = watched \cup
       {[fd |-> fd, seq |-> fds[fd].seq] :
          fd \in {f \in parked.due : fds[f] # None /\ file[f] # 0 /\ ~InSet(f)}}
  /\ UNCHANGED <<tasks, later, fds, nextSeq, polled, file, ready, woken, opened, owes, moves>>

Poll ==
  /\ at = "before" /\ ~later
  /\ at' = "wait"
  /\ parked' = [parked EXCEPT !.due = {}]
  /\ watched' = watched \cup
       {[fd |-> fd, seq |-> fds[fd].seq] :
          fd \in {f \in parked.due : fds[f] # None /\ file[f] # 0 /\ ~InSet(f)}}
  /\ tasks' = IF parked.waiting # {} THEN [tasks EXCEPT !.timeout = "some"] ELSE tasks
  /\ UNCHANGED <<later, fds, nextSeq, polled, file, ready, woken, opened, owes, moves>>

\* What epoll_wait would return.
Reported ==
  {Event(w.fd, w.seq, file[w.fd], ready[file[w.fd]]) :
     w \in {v \in watched : ready[file[v.fd]] # {}}}
  \cup (IF woken THEN {WakeEvent} ELSE {})

\* epoll_wait returns what is ready, and where nothing is, for its timeout or a
\* signal.
Wait ==
  /\ at = "wait" /\ Reported # {}
  /\ at' = "batch" /\ batch' = Reported
  /\ tasks' = [tasks EXCEPT !.timeout = "none"]
  /\ UNCHANGED <<later, table, called, kernel, owes, moves>>

TimedOut ==
  /\ at = "wait" /\ Reported = {} /\ tasks.timeout = "some"
  /\ at' = "loop"
  /\ tasks' = [tasks EXCEPT !.timeout = "none"]
  /\ UNCHANGED <<later, table, polled, kernel, owes, moves>>

Interrupted ==
  /\ at = "wait" /\ Reported = {}
  /\ at' = "loop"
  /\ tasks' = [tasks EXCEPT !.timeout = "none"]
  /\ UNCHANGED <<later, table, polled, kernel, owes, moves>>

\* The registration an event is of is still the one of its number.
Current(e) == fds[e.fd] # None /\ fds[e.fd].seq = e.seq

\* One event: the wake, one whose registration is gone, or a callback's.
HandleByNumber ==
  /\ at = "batch"
  /\ \E e \in batch :
       /\ batch' = batch \ {e}
       /\ \/ e = WakeEvent /\ woken' = FALSE /\ UNCHANGED <<at, called>>
          \/ e # WakeEvent /\ fds[e.fd] = None /\ UNCHANGED <<at, called, woken>>
          \/ /\ e # WakeEvent /\ fds[e.fd] # None
             /\ at' = "callback" /\ called' = [event |-> e, for |-> fds[e.fd].of]
             /\ UNCHANGED woken
  /\ UNCHANGED <<tasks, later, table, file, watched, ready, opened, owes, moves>>

Handle ==
  /\ at = "batch"
  /\ \E e \in batch :
       /\ batch' = batch \ {e}
       /\ \/ e = WakeEvent /\ woken' = FALSE /\ UNCHANGED <<at, called>>
          \/ e # WakeEvent /\ ~Current(e) /\ UNCHANGED <<at, called, woken>>
          \/ /\ e # WakeEvent /\ Current(e)
             /\ at' = "callback" /\ called' = [event |-> e, for |-> fds[e.fd].of]
             /\ UNCHANGED woken
  /\ UNCHANGED <<tasks, later, table, file, watched, ready, opened, owes, moves>>

\* A callback that returns 0 is removed, if it has not registered anew (removeSeq);
\* one that is kept after an error or a hangup alone is parked.
Returned ==
  /\ at = "callback" /\ at' = "batch"
  /\ LET e == called.event IN
     \/ Current(e) /\ Removed(e.fd)
     \/ /\ Current(e) /\ e.events = {"error"} /\ e.fd \notin Parked /\ InSet(e.fd)
        /\ parked' = [parked EXCEPT !.waiting = @ \cup {e.fd}]
        /\ watched' = OutOfSet(e.fd)
        /\ UNCHANGED fds
     \/ /\ Current(e) /\ e.events = {"error"} => e.fd \in Parked \/ ~InSet(e.fd)
        /\ UNCHANGED <<fds, parked, watched>>
  /\ called' = NoCall
  /\ UNCHANGED <<tasks, later, nextSeq, batch, file, ready, woken, opened, owes, moves>>

BatchDone ==
  /\ at = "batch" /\ batch = {}
  /\ at' = "loop"
  /\ UNCHANGED <<tasks, later, table, polled, kernel, owes, moves>>

Thread ==
  Take \/ Answers \/ Done \/ Poll \/ Wait \/ TimedOut \/ Handle \/ Returned \/ BatchDone

-----------------------------------------------------------------------------
(* Other threads, time and the network.                                     *)

\* post and postDelayed queue under the lock, and wake once it is let go.
Post ==
  /\ ~owes /\ Move
  /\ owes' = TRUE
  /\ \/ tasks' = [tasks EXCEPT !.queued = TRUE]
     \/ tasks.timer = "none" /\ tasks' = [tasks EXCEPT !.timer = "set"]
  /\ UNCHANGED <<at, later, table, polled, kernel>>

WakeUp ==
  /\ owes /\ owes' = FALSE
  /\ woken' = TRUE
  /\ UNCHANGED <<core, table, polled, file, watched, ready, opened, moves>>

Cancel ==
  /\ tasks.timer # "none"
  /\ tasks' = [tasks EXCEPT !.timer = "none"]
  /\ UNCHANGED <<at, later, table, polled, kernel, owes, moves>>

TimerDue ==
  /\ tasks.timer = "set"
  /\ tasks' = [tasks EXCEPT !.timer = "due"]
  /\ UNCHANGED <<at, later, table, polled, kernel, owes, moves>>

ParkDue(fd) ==
  /\ fd \in parked.waiting
  /\ parked' = [waiting |-> parked.waiting \ {fd}, due |-> parked.due \cup {fd}]
  /\ UNCHANGED <<core, fds, nextSeq, polled, kernel, owes, moves>>

Arrive ==
  /\ Move
  /\ \E fd \in Fds, e \in {"input", "error"} :
       /\ file[fd] # 0 /\ e \notin ready[file[fd]]
       /\ ready' = [ready EXCEPT ![file[fd]] = @ \cup {e}]
  /\ UNCHANGED <<core, table, polled, file, watched, woken, opened, owes>>

Next ==
  \/ Thread \/ Interrupted \/ Core \/ Post \/ WakeUp \/ Cancel \/ TimerDue \/ Arrive
  \/ \E fd \in Fds : ParkDue(fd)

\* Time passes, epoll_wait keeps its timeout, the core's tasks and callbacks return
\* (what they do is bounded), and a thread that has queued a task goes on to wake.
Spec ==
  /\ Init /\ [][Next]_vars
  /\ WF_vars(Thread) /\ WF_vars(WakeUp) /\ WF_vars(TimerDue)
  /\ \A fd \in Fds : WF_vars(ParkDue(fd))

-----------------------------------------------------------------------------
(* Properties.                                                              *)

\* pollOnce drops an event "read in the same batch as a callback that closed it and
\* opened another": a callback is called for the file that it was registered for.
HeardByItsOwn == at = "callback" => called.event.of = called.for

\* However a number is registered anew, removed, parked, put back or closed: epoll
\* watches registrations and nothing else, and a registration whose file is still
\* open is watched or parked, never both and never neither.
RegisteredIsWatched ==
  /\ \A w \in watched : fds[w.fd] # None /\ fds[w.fd].seq = w.seq
  /\ \A fd \in Fds :
       fds[fd] # None /\ fds[fd].of = file[fd] => (InSet(fd) <=> fd \notin Parked)

\* The thread sleeps without a timeout only with nothing to do: no task, timer or
\* answer that no wake is on its way for, and no descriptor to put back.
SleepsIdle ==
  at = "wait" /\ tasks.timeout = "none" /\ ~woken /\ ~owes =>
    ~tasks.queued /\ tasks.timer = "none" /\ ~later /\ Parked = {}

\* What a registered file has to read was taken, or its callback is running.
Heard(fd) ==
  \/ fds[fd] = None \/ fds[fd].of # file[fd] \/ "input" \notin ready[file[fd]]
  \/ at = "callback" /\ called.event.of = file[fd]

\* No task waits, and no answer that was put off.
Answered == ~tasks.queued /\ tasks.timer # "due" /\ ~later

\* What a registered file has to read is heard, though it was parked for an error
\* that no one took; tasks are run, and answers that were put off are given.
Attended == (\A fd \in Fds : []<>Heard(fd)) /\ []<>Answered

-----------------------------------------------------------------------------
(* The inductive invariant.                                                 *)

Places == {"loop", "task", "before", "answerBefore", "wait", "batch", "callback", "answerAfter"}

Typed ==
  /\ at \in Places /\ later \in BOOLEAN /\ woken \in BOOLEAN /\ owes \in BOOLEAN
  /\ tasks \in [queued : BOOLEAN, timer : {"none", "set", "due"}, timeout : {"none", "some"}]
  /\ nextSeq \in Int /\ opened \in Nat
  /\ file \in [Fds -> 0..opened] /\ fds \in [Fds -> [seq : Int, of : 0..opened]]
  /\ parked \in [waiting : SUBSET Fds, due : SUBSET Fds]
  /\ watched \in SUBSET [fd : Fds, seq : Int]
  /\ \A e \in batch : e = WakeEvent \/ e.fd \in Fds
  /\ at = "callback" => called.event.fd \in Fds

\* A registration is of a file; one in the epoll set or parked is of the file that its
\* number stands for now; and one of that file is in the one or the other.
Table ==
  /\ \A fd \in Fds : fds[fd] # None => fds[fd].of # 0
  /\ \A w \in watched : fds[w.fd].of = file[w.fd] /\ fds[w.fd].of # 0 /\ fds[w.fd].seq = w.seq
  /\ \A fd \in Parked : fds[fd] # None /\ fds[fd].of = file[fd] /\ ~InSet(fd)
  /\ parked.waiting \cap parked.due = {}
  /\ \A fd \in Fds : fds[fd] # None /\ fds[fd].of = file[fd] => InSet(fd) \/ fd \in Parked

\* Since it took its tasks, the thread has been told of every one queued since.
Told ==
  /\ at \in {"task", "before", "answerBefore", "wait"} =>
       /\ tasks.queued => woken \/ owes
       /\ tasks.timer # "none" => tasks.timeout = "some" \/ woken \/ owes
  /\ at = "wait" => ~later /\ (Parked # {} => tasks.timeout = "some")

IInv == Typed /\ Table /\ Told

\* How many registrations ago nextSeq_ was seq, as it runs from 1 to SeqModulus - 1.
Age(seq) == IF seq < nextSeq THEN nextSeq - seq ELSE nextSeq + (SeqModulus - 1) - seq

Recent(seq) == seq \in 1..(SeqModulus - 1) /\ Age(seq) <= NumFds + moves

\* No number that is registered or that waits in a batch is about to be given again,
\* so that an event whose number and seq are those of a registration is of its file.
Fresh ==
  /\ nextSeq \in 1..(SeqModulus - 1) /\ moves \in 0..MaxMoves
  /\ \A fd \in Fds : fds[fd] # None => Recent(fds[fd].seq)
  /\ \A e \in batch \ {WakeEvent} : Recent(e.seq) /\ (Current(e) => e.of = fds[e.fd].of)
  /\ HeardByItsOwn
=============================================================================
