-------------------------------- MODULE Gate --------------------------------
(***************************************************************************)
(* The gate of a session behind the C interface (api/src/c.rs): every call *)
(* enters and leaves it, none enters once destroy has begun, and the       *)
(* session is freed by destroy when the calls in progress have left; or,   *)
(* when destroy was called from inside a call of its own thread, by the    *)
(* last call to leave. A call may make another.                            *)
(*                                                                         *)
(* The modules of the sessions rely on it: there, no call runs beside      *)
(* destroy or after it.                                                    *)
(***************************************************************************)
EXTENDS Naturals, FiniteSets

CONSTANTS
  Threads,  \* the threads that call into a session
  MaxDepth  \* bound: calls within calls

VARIABLES
  inside,     \* how many times each thread is in GateState::inside
  destroyed,  \* GateState::destroyed
  deferred,   \* GateState::deferred
  at,         \* where each thread is: "run", "wait" (in destroy), "free" (about to)
  asleep,     \* who sleeps on Gate::idle
  frees       \* how many times CSession::free was called

vars == <<inside, destroyed, deferred, at, asleep, frees>>

Init ==
  /\ inside = [t \in Threads |-> 0]
  /\ destroyed = FALSE /\ deferred = FALSE
  /\ at = [t \in Threads |-> "run"]
  /\ asleep = {} /\ frees = 0

Empty(count) == \A t \in Threads : count[t] = 0

\* CSession::enter, which refuses once destroy has begun.
Enter(t) ==
  /\ at[t] = "run" /\ ~destroyed /\ inside[t] < MaxDepth
  /\ inside' = [inside EXCEPT ![t] = @ + 1]
  /\ UNCHANGED <<destroyed, deferred, at, asleep, frees>>

\* Mutant: the free that destroy left behind is done by the call it was made from.
LeaveFirst(t) ==
  /\ at[t] = "run" /\ inside[t] > 0
  /\ inside' = [inside EXCEPT ![t] = @ - 1]
  /\ IF deferred /\ inside[t] = 1
     THEN deferred' = FALSE /\ at' = [at EXCEPT ![t] = "free"] /\ asleep' = asleep
     ELSE asleep' = {} /\ UNCHANGED <<deferred, at>>
  /\ UNCHANGED <<destroyed, frees>>

\* Mutant: the thread that waits in destroy is woken only by its own kind.
LeaveSilent(t) ==
  /\ at[t] = "run" /\ inside[t] > 0
  /\ inside' = [inside EXCEPT ![t] = @ - 1]
  /\ IF Empty(inside') /\ deferred
     THEN deferred' = FALSE /\ at' = [at EXCEPT ![t] = "free"]
     ELSE UNCHANGED <<deferred, at>>
  /\ UNCHANGED <<destroyed, asleep, frees>>

\* Entered::drop: the last to leave frees, where destroy could not wait for it, or
\* wakes destroy.
Leave(t) ==
  /\ at[t] = "run" /\ inside[t] > 0
  /\ inside' = [inside EXCEPT ![t] = @ - 1]
  /\ IF ~Empty(inside')
     THEN UNCHANGED <<deferred, at, asleep>>
     ELSE IF deferred
     THEN deferred' = FALSE /\ at' = [at EXCEPT ![t] = "free"] /\ asleep' = asleep
     ELSE asleep' = {} /\ UNCHANGED <<deferred, at>>
  /\ UNCHANGED <<destroyed, frees>>

\* destroy, the first time; any other does nothing.
Destroy(t) ==
  /\ at[t] = "run" /\ ~destroyed
  /\ destroyed' = TRUE
  /\ IF inside[t] > 0
     THEN deferred' = TRUE /\ UNCHANGED <<at, asleep>>
     ELSE IF Empty(inside)
     THEN at' = [at EXCEPT ![t] = "free"] /\ UNCHANGED <<deferred, asleep>>
     ELSE /\ at' = [at EXCEPT ![t] = "wait"] /\ asleep' = asleep \cup {t}
          /\ UNCHANGED deferred
  /\ UNCHANGED <<inside, frees>>

\* Its wait returns, with or without cause.
Woken(t) ==
  /\ at[t] = "wait"
  /\ IF Empty(inside)
     THEN at' = [at EXCEPT ![t] = "free"] /\ asleep' = asleep \ {t}
     ELSE asleep' = asleep \cup {t} /\ UNCHANGED at
  /\ UNCHANGED <<inside, destroyed, deferred, frees>>

\* CSession::free: the C side's destroy, and the mailbox's reference.
Free(t) ==
  /\ at[t] = "free"
  /\ at' = [at EXCEPT ![t] = "run"]
  /\ frees' = frees + 1
  /\ UNCHANGED <<inside, destroyed, deferred, asleep>>

\* What is bound to happen: calls return, and who was notified wakes.
GoesOn(t) == Leave(t) \/ (t \notin asleep /\ Woken(t)) \/ Free(t)

Next == \E t \in Threads : Enter(t) \/ Leave(t) \/ Destroy(t) \/ Woken(t) \/ Free(t)

Spec == Init /\ [][Next]_vars

-----------------------------------------------------------------------------

\* The threads that are about to free the session, or wait in destroy to do so.
Freeing == {t \in Threads : at[t] # "run"}

\* A session is freed once, with nobody inside; and from the moment destroy has begun
\* there is always one, and only one, who has freed it or will: the last call to leave,
\* or a thread that does not sleep in destroy with nobody left to wake it.
FreedAlone ==
  /\ frees <= 1
  /\ frees = 1 \/ (\E t \in Threads : at[t] = "free") => Empty(inside)
  /\ \A t, u \in Freeing : t = u
  /\ IF destroyed
     THEN \/ frees = 1 /\ ~deferred /\ Freeing = {}
          \/ frees = 0 /\ deferred /\ Freeing = {} /\ ~Empty(inside)
          \/ frees = 0 /\ ~deferred /\ Freeing # {} /\ (Freeing \subseteq asleep => ~Empty(inside))
     ELSE frees = 0 /\ ~deferred /\ Freeing = {}
=============================================================================
