------------------------------- MODULE Hangup -------------------------------
(***************************************************************************)
(* backends/runtime/src/hangup.rs: the sockets a session is blocked on and *)
(* the flag that ends it from another thread.                              *)
(*                                                                         *)
(* A socket's thread dials it (dial_from), lets go of it, and takes hold   *)
(* of it again for the session, as every client does.  A closer is a       *)
(* thread that calls hang_up: the window's, and the session's own when it  *)
(* cleans up.  The mutex around Held is modelled, since the code's claim   *)
(* is about the order of the flag and the lock.                            *)
(***************************************************************************)
EXTENDS Integers, FiniteSets

CONSTANTS Sockets,   \* the sockets a session dials, each with its thread
          Closers,   \* the threads that call hang_up, once each
          NoThread   \* the holder of a free mutex

ASSUME ThreadsAssumption ==
  /\ Sockets \cap Closers = {}
  /\ NoThread \notin Sockets \cup Closers

VARIABLES
  hungUp,  \* Hangup::hung_up
  lock,    \* who has Hangup::held locked
  held,    \* Held::sockets
  shut,    \* the sockets shutdown() was called on
  link,    \* what the network has made of each connect
  use,     \* what each socket is next held for: its dial, or its session
  pc       \* where each thread is

vars == <<hungUp, lock, held, shut, link, use, pc>>

Threads == Sockets \cup Closers

\* Blocked in poll (the connect) or in a socket read (the session).
Blocking == {"dialling", "session"}

\* How a socket's thread ends: told that the session was closed, or with an
\* error or an end of the far side's.
Ended == {"closed", "failed"}

SocketPc == {"start", "hold", "test", "push", "dialled"} \cup Blocking
              \cup {"dropOk", "dropErr", "dialErr", "dropSession", "over"} \cup Ended
CloserPc == {"idle", "flagged", "sweep", "done"}

Go(t, label) == pc' = [pc EXCEPT ![t] = label]

Init ==
  /\ hungUp = FALSE
  /\ lock = NoThread
  /\ held = {}
  /\ shut = {}
  /\ link = [s \in Sockets |-> "none"]
  /\ use = [s \in Sockets |-> "dial"]
  /\ pc = [t \in Threads |-> IF t \in Sockets THEN "start" ELSE "idle"]

-----------------------------------------------------------------------------
(* hang_up *)

StoreFlag(c) ==
  /\ pc[c] = "idle"
  /\ hungUp' = TRUE
  /\ Go(c, "flagged")
  /\ UNCHANGED <<lock, held, shut, link, use>>

LockHeld(c) ==
  /\ pc[c] = "flagged"
  /\ lock = NoThread
  /\ lock' = c
  /\ Go(c, "sweep")
  /\ UNCHANGED <<hungUp, held, shut, link, use>>

ShutDown(c, s) ==
  /\ pc[c] = "sweep"
  /\ s \in held \ shut
  /\ shut' = shut \cup {s}
  /\ UNCHANGED <<hungUp, lock, held, link, use, pc>>

\* Mutant: the sweep does not wait for each shutdown.
SweepDoneEarly(c) ==
  /\ pc[c] = "sweep"
  /\ lock' = NoThread
  /\ Go(c, "done")
  /\ UNCHANGED <<hungUp, held, shut, link, use>>

SweepDone(c) ==
  /\ pc[c] = "sweep"
  /\ held \subseteq shut
  /\ lock' = NoThread
  /\ Go(c, "done")
  /\ UNCHANGED <<hungUp, held, shut, link, use>>

-----------------------------------------------------------------------------
(* hold, for the dial and again for the session *)

HoldLock(s) ==
  /\ pc[s] = "hold"
  /\ lock = NoThread
  /\ lock' = s
  /\ Go(s, "test")
  /\ UNCHANGED <<hungUp, held, shut, link, use>>

\* Mutant: hold does not test the flag.
HoldTestNothing(s) ==
  /\ pc[s] = "test"
  /\ Go(s, "push")
  /\ UNCHANGED <<hungUp, lock, held, shut, link, use>>

\* Refused once hung up, with the socket shut down.
HoldTest(s) ==
  /\ pc[s] = "test"
  /\ \/ /\ hungUp
        /\ shut' = shut \cup {s}
        /\ lock' = NoThread
        /\ Go(s, "closed")
     \/ /\ ~hungUp
        /\ Go(s, "push")
        /\ UNCHANGED <<lock, shut>>
  /\ UNCHANGED <<hungUp, held, link, use>>

\* try_clone can fail, which drops the lock and holds nothing.
HoldPush(s) ==
  /\ pc[s] = "push"
  /\ \/ /\ held' = held \cup {s}
        /\ Go(s, IF use[s] = "dial" THEN "dialling" ELSE "session")
     \/ /\ Go(s, "over")
        /\ UNCHANGED held
  /\ lock' = NoThread
  /\ UNCHANGED <<hungUp, shut, link, use>>

\* Mutant: a socket is not taken out of the list when its holder lets go.
DropKeeps(s, from, label) ==
  /\ pc[s] = from
  /\ lock = NoThread
  /\ Go(s, label)
  /\ UNCHANGED <<hungUp, lock, held, shut, link, use>>

\* Holding's drop, which waits for the mutex and ends at label.
Drop(s, from, label) ==
  /\ pc[s] = from
  /\ lock = NoThread
  /\ held' = held \ {s}
  /\ Go(s, label)
  /\ UNCHANGED <<hungUp, lock, shut, link, use>>

-----------------------------------------------------------------------------
(* dial_from and wait_connected *)

\* The connect has begun, is done at once, or fails at once.
Connect(s) ==
  /\ pc[s] = "start"
  /\ \/ /\ \E l \in {"pending", "up"} : link' = [link EXCEPT ![s] = l]
        /\ Go(s, "hold")
     \/ /\ Go(s, "over")
        /\ UNCHANGED link
  /\ UNCHANGED <<hungUp, lock, held, shut, use>>

\* The network's part: a connect in flight is accepted or refused, or never
\* answered, unless it was shut down first.
Answer(s) ==
  /\ link[s] = "pending"
  /\ s \notin shut
  /\ \E l \in {"up", "refused"} : link' = [link EXCEPT ![s] = l]
  /\ UNCHANGED <<hungUp, lock, held, shut, use, pc>>

\* Mutant: POLLHUP is not looked at, so a shut down connect is waited for.
WaitConnectedNoHup(s) ==
  /\ pc[s] = "dialling"
  /\ \/ link[s] = "up" /\ Go(s, "dropOk")
     \/ link[s] = "refused" /\ Go(s, "dropErr")
  /\ UNCHANGED <<hungUp, lock, held, shut, link, use>>

\* poll returns: POLLHUP on a socket that was shut down is an error, and so
\* are a refusal and the timeout.
WaitConnected(s) ==
  /\ pc[s] = "dialling"
  /\ \/ /\ s \notin shut
        /\ link[s] = "up"
        /\ Go(s, "dropOk")
     \/ /\ s \in shut \/ link[s] = "refused"
        /\ Go(s, "dropErr")
  /\ UNCHANGED <<hungUp, lock, held, shut, link, use>>

WaitTimedOut(s) ==
  /\ pc[s] = "dialling"
  /\ link[s] = "pending"
  /\ Go(s, "dropErr")
  /\ UNCHANGED <<hungUp, lock, held, shut, link, use>>

\* Err(_) if self.is_hung_up() => Err(closed())
DialErr(s) ==
  /\ pc[s] = "dialErr"
  /\ Go(s, IF hungUp THEN "closed" ELSE "over")
  /\ UNCHANGED <<hungUp, lock, held, shut, link, use>>

-----------------------------------------------------------------------------
(* The session on a dialled socket *)

\* Between the dial's hold and the session's nothing holds the socket.
HoldForSession(s) ==
  /\ pc[s] = "dialled"
  /\ use' = [use EXCEPT ![s] = "session"]
  /\ Go(s, "hold")
  /\ UNCHANGED <<hungUp, lock, held, shut, link>>

\* A read ends because the socket was shut down, or the far end closed it.
ReadEnds(s) ==
  /\ pc[s] = "session"
  /\ s \in shut
  /\ Go(s, "dropSession")
  /\ UNCHANGED <<hungUp, lock, held, shut, link, use>>

FarEndCloses(s) ==
  /\ pc[s] = "session"
  /\ s \notin shut
  /\ Go(s, "dropSession")
  /\ UNCHANGED <<hungUp, lock, held, shut, link, use>>

\* Mutant: run reports the error the read ended with.
OverAsIs(s) ==
  /\ pc[s] = "over"
  /\ Go(s, "failed")
  /\ UNCHANGED <<hungUp, lock, held, shut, link, use>>

\* run: whatever ended the session, a hung up one was closed on request.
Over(s) ==
  /\ pc[s] = "over"
  /\ Go(s, IF hungUp THEN "closed" ELSE "failed")
  /\ UNCHANGED <<hungUp, lock, held, shut, link, use>>

-----------------------------------------------------------------------------

\* What a socket's thread does by itself, once it is not waiting for the
\* network.
SocketStep(s) ==
  \/ Connect(s)
  \/ HoldLock(s) \/ HoldTest(s) \/ HoldPush(s)
  \/ WaitConnected(s)
  \/ Drop(s, "dropOk", "dialled") \/ Drop(s, "dropErr", "dialErr")
  \/ DialErr(s)
  \/ HoldForSession(s)
  \/ ReadEnds(s)
  \/ Drop(s, "dropSession", "over")
  \/ Over(s)

CloserStep(c) ==
  \/ LockHeld(c)
  \/ \E s \in Sockets : ShutDown(c, s)
  \/ SweepDone(c)

NetworkStep(s) == Answer(s) \/ WaitTimedOut(s) \/ FarEndCloses(s)

Terminating ==
  /\ \A s \in Sockets : pc[s] \in Ended
  /\ \A c \in Closers : pc[c] = "done"
  /\ UNCHANGED vars

Next ==
  \/ \E s \in Sockets : SocketStep(s) \/ NetworkStep(s)
  \/ \E c \in Closers : StoreFlag(c) \/ CloserStep(c)
  \/ Terminating

Spec == Init /\ [][Next]_vars

-----------------------------------------------------------------------------
(* Properties *)

\* The type of the state.
TypeOK ==
  /\ hungUp \in BOOLEAN
  /\ lock \in Threads \cup {NoThread}
  /\ held \subseteq Sockets
  /\ shut \subseteq Sockets
  /\ link \in [Sockets -> {"none", "pending", "up", "refused"}]
  /\ use \in [Sockets -> {"dial", "session"}]
  /\ pc \in [Threads -> SocketPc \cup CloserPc]
  /\ \A s \in Sockets : pc[s] \in SocketPc
  /\ \A c \in Closers : pc[c] \in CloserPc

\* hang_up's comment: "a socket is either held in time to be shut down here or
\* refused there, and never slips between the two".  Once any hang_up has
\* returned, a thread blocked in a connect or a read is blocked on a socket
\* that was shut down.
NeverSlips ==
  (\E c \in Closers : pc[c] = "done")
    => \A s \in Sockets : pc[s] \in Blocking => s \in shut

\* A socket the hang-up broke ends as a close that was asked for, and is never
\* reported as a failure of the network's (dial_from's and run's last tests).
BrokenIsClosed ==
  \A s \in shut : pc[s] # "failed"

\* Once a hang_up has the lock, no socket is ever held again: hold refuses.
NoneHeldAfterSweep ==
  [][(\E c \in Closers : pc[c] \in {"sweep", "done"}) => held' \subseteq held]_vars

\* The inductive strengthening of NeverSlips and BrokenIsClosed: a socket is in
\* Held exactly while its thread has a Holding, the mutex has exactly the
\* holder the program counters name, no thread is between hold's test and its
\* push once a hang_up has had the lock, and nothing is shut down but by a
\* session that was hung up.
Holding == {"dialling", "dropOk", "dropErr", "session", "dropSession"}

IInv ==
  /\ TypeOK
  /\ \A s \in Sockets : s \in held <=> pc[s] \in Holding
  /\ \A s \in Sockets : pc[s] \in {"test", "push"} <=> lock = s
  /\ \A c \in Closers : pc[c] = "sweep" <=> lock = c
  /\ \A c \in Closers : pc[c] # "idle" => hungUp
  /\ shut # {} => hungUp
  /\ (\E c \in Closers : pc[c] \in {"sweep", "done"})
        => \A s \in Sockets : pc[s] # "push"
  /\ (\E c \in Closers : pc[c] = "done") => held \subseteq shut
  /\ BrokenIsClosed

\* A hang-up ends every dial and every session, though the network answers
\* none of them.
HangUpEndsAll ==
  \A s \in Sockets : hungUp ~> pc[s] \in Ended
=============================================================================
