-------------------------- MODULE ConnectionProofs --------------------------
(***************************************************************************)
(* The threads that share a connection.  RfbUpdates: the pacing of updates *)
(* never stops while the window is shown, for desktops of every size and   *)
(* any number of resizes and messages.  Hangup: its safety properties, for *)
(* any number of sockets and closers.  The gate: it frees a session once   *)
(* and alone, for any number of threads and any depth of calls.            *)
(***************************************************************************)
EXTENDS RfbUpdates, MCHangup, TLAPS

-----------------------------------------------------------------------------
(* RfbUpdates: no request is left to the other thread *)

\* What the reader's own steps keep.
LEMMA ReaderAccounted == ASSUME Accounted, Reader \/ End PROVE Accounted'
<1> USE DEF Accounted, RfbTypeOK, Outstanding, Locked
<1>1. CASE ServerInit BY <1>1, RfbAssumption DEF ServerInit, FlagsOK
<1>2. CASE RequestFull BY <1>2, SMTT(20) DEF RequestFull, FlagsOK, Request, Requests, server
<1>3. CASE Read
  <2>1. Head(inq) \in Updates /\ Tail(inq) \in Seq(Updates) BY <1>3 DEF Read
  <2>2. Head(inq).size \in Nat BY <2>1 DEF Updates
  <2>3. FlagsOK' BY <1>3 DEF Read, FlagsOK
  <2>4. fb' \in Nat /\ fb' # 0 /\ reader' \in {"full", "clear"} /\ running'
    BY <1>3, <2>2 DEF Read, FlagsOK
  <2>. QED BY <1>3, <2>1, <2>3, <2>4 DEF Read, server
<1>4. CASE Clear BY <1>4, Zenon DEF Clear, FlagsOK, server
<1>5. CASE TestFocus BY <1>5 DEF TestFocus, FlagsOK, server
<1>6. CASE RequestUpdate
  <2>1. FlagsOK' BY <1>6 DEF RequestUpdate, FlagsOK
  <2>2. running /\ Request(FALSE) \in Requests
    BY <1>6 DEF RequestUpdate, Request, Requests
  <2>3. CASE requested BY <1>6, <2>1, <2>2, <2>3 DEF RequestUpdate, server
  <2>4. CASE ~requested
    <3> DEFINE r == Request(FALSE)
    <3>1. out' = Append(out, r) BY <1>6, <2>4, Zenon DEF RequestUpdate
    <3>2. r \in Requests BY <2>2, Zenon
    <3> HIDE DEF r
    <3>3. Append(out, r) \in Seq(Requests) /\ Append(out, r) # <<>> BY <3>2
    <3>4. out' \in Seq(Requests) /\ out' # <<>> BY <3>1, <3>3
    <3>. QED BY <1>6, <2>1, <2>2, <3>4, Zenon DEF RequestUpdate, server
  <2>. QED BY <2>3, <2>4
<1>7. CASE End BY <1>7, Zenon DEF End, FlagsOK, server
<1>. QED BY <1>1, <1>2, <1>3, <1>4, <1>5, <1>6, <1>7 DEF Reader

\* What the window's thread keeps.
LEMMA UiAccounted ==
  ASSUME Accounted, (\E v \in BOOLEAN : SetFocused(v)) \/ SetEncodings \/ Ui PROVE Accounted'
<1> USE DEF Accounted, RfbTypeOK, Outstanding, Locked
<1>1. ASSUME NEW v \in BOOLEAN, SetFocused(v) PROVE Accounted'
  BY <1>1 DEF SetFocused, FlagsOK, server
<1>2. CASE SetEncodings BY <1>2 DEF SetEncodings, FlagsOK, server
<1>3. CASE Ask
  <2>1. FlagsOK' BY <1>3, Zenon DEF Ask, FlagsOK
  <2>2. CASE requested \/ ~running BY <1>3, <2>1, <2>2, Zenon DEF Ask, server
  <2>3. CASE ~(requested \/ ~running)
    <3>1. Request(FALSE) \in Requests BY <2>3 DEF Request, Requests
    <3>. QED BY <1>3, <2>1, <2>3, <3>1, Zenon DEF Ask, server
  <2>. QED BY <2>2, <2>3
<1>4. CASE AskFull BY <1>4 DEF AskFull, FlagsOK, Request, Requests, server
<1>5. CASE Send BY <1>5 DEF Send, FlagsOK, server
<1>. QED BY <1>1, <1>2, <1>3, <1>4, <1>5 DEF Ui

\* What the server keeps: a request it takes, it wants; one it answers is on its
\* way back.
LEMMA ServerAccounted == ASSUME Accounted, Receive \/ Answers \/ Change \/ Resize PROVE Accounted'
<1> USE DEF Accounted, RfbTypeOK, Outstanding, Locked
<1>1. CASE Receive
  <2>1. Head(out) \in Requests /\ Tail(out) \in Seq(Requests) BY <1>1 DEF Receive
  <2>2. Head(out).size \in Nat \ {0} BY <2>1 DEF Requests
  <2>3. FlagsOK' BY <1>1 DEF Receive, FlagsOK, client
  <2>4. want' \in Nat /\ want' # 0 BY <1>1, <2>2 DEF Receive
  <2>5. stale' \subseteq Nat
    <3>1. \/ stale' = stale
          \/ stale' = stale \cup {c \in 1..size : c <= Head(out).size}
      BY <1>1, Zenon DEF Receive
    <3>2. {c \in 1..size : c <= Head(out).size} \subseteq Nat OBVIOUS
    <3>. QED BY <3>1, <3>2, Zenon
  <2>. QED BY <1>1, <2>1, <2>3, <2>4, <2>5 DEF Receive, client
<1>2. CASE AnswerSize BY <1>2, SMTT(20) DEF AnswerSize, FlagsOK, Updates, client
<1>3. CASE AnswerCells
  <2> DEFINE u == [size |-> 0, extended |-> FALSE, cells |-> {c \in stale : c <= want}]
  <2>1. u \in Updates BY Zenon DEF Updates
  <2>2. inq' = Append(inq, u) /\ stale' \subseteq Nat BY <1>3, Zenon DEF AnswerCells
  <2>3. FlagsOK' BY <1>3 DEF AnswerCells, FlagsOK, client
  <2> HIDE DEF u
  <2>4. inq' \in Seq(Updates) /\ inq' # <<>> BY <2>1, <2>2
  <2>. QED BY <1>3, <2>2, <2>3, <2>4 DEF AnswerCells, client
<1>4. CASE Change BY <1>4 DEF Change, FlagsOK, client
<1>5. CASE Resize BY <1>5 DEF Resize, FlagsOK, client
<1>. QED BY <1>1, <1>2, <1>3, <1>4, <1>5 DEF Answers

-----------------------------------------------------------------------------
(* The request made last.                                                   *)

\* Of a sequence of requests: the last one appended is its last; and the last is still
\* that of the rest, unless it was the only one.
LEMMA LastOf ==
  ASSUME NEW s \in Seq(Requests)
  PROVE  /\ \A r \in Requests : Append(s, r) # <<>> /\ Append(s, r)[Len(Append(s, r))] = r
         /\ s # <<>> /\ Tail(s) # <<>> => Tail(s)[Len(Tail(s))] = s[Len(s)]
         /\ s # <<>> /\ Tail(s) = <<>> => Head(s) = s[Len(s)]
<1>1. ASSUME NEW r \in Requests
      PROVE  Append(s, r) # <<>> /\ Append(s, r)[Len(Append(s, r))] = r
  BY <1>1
<1>2. ASSUME s # <<>> PROVE Len(s) \in Nat \ {0} /\ Len(Tail(s)) = Len(s) - 1
  BY <1>2
<1>3. ASSUME s # <<>>, Tail(s) # <<>> PROVE Tail(s)[Len(Tail(s))] = s[Len(s)]
  <2>1. Len(Tail(s)) \in Nat \ {0} BY <1>3
  <2>2. \A i \in 1..Len(Tail(s)) : Tail(s)[i] = s[i + 1] BY <1>3
  <2>. QED BY <1>2, <1>3, <2>1, <2>2
<1>4. Len(<<>>) = 0 /\ \A n \in Nat : 0 = n - 1 => n = 1 OBVIOUS
<1>5. ASSUME s # <<>>, Tail(s) = <<>> PROVE Head(s) = s[Len(s)]
  <2>1. Len(Tail(s)) = 0 BY <1>4, <1>5, Zenon
  <2>2. Len(s) = 1 BY <1>2, <1>4, <1>5, <2>1, Zenon
  <2>. QED BY <1>5, <2>2
<1>. QED BY <1>1, <1>3, <1>5

\* The reader, when it has resized the framebuffer, asks for all of it; what it asks
\* for, it asks for at the framebuffer's size.
LEMMA ReaderLast == ASSUME RfbIInv, Reader \/ End PROVE LastIsCurrent'
<1> USE DEF RfbIInv, LastIsCurrent, Locked
<1>1. CASE ServerInit BY <1>1 DEF ServerInit
<1>2. CASE RequestFull
  <2>1. Request(TRUE) \in Requests /\ Request(TRUE).size = fb
    BY <1>2 DEF RequestFull, Accounted, RfbTypeOK, Request, Requests
  <2>2. out' # <<>> /\ out'[Len(out')] = Request(TRUE)
    BY <1>2, <2>1, LastOf, Zenon DEF RequestFull, Accounted, RfbTypeOK
  <2>. QED BY <1>2, <2>1, <2>2, Zenon DEF RequestFull, server
<1>3. CASE Read BY <1>3 DEF Read, server
<1>4. CASE Clear BY <1>4 DEF Clear, server
<1>5. CASE TestFocus BY <1>5 DEF TestFocus, server
<1>6. CASE RequestUpdate
  <2>1. Request(FALSE) \in Requests /\ Request(FALSE).size = fb
    BY <1>6 DEF RequestUpdate, Accounted, RfbTypeOK, Request, Requests
  <2>2. CASE requested BY <1>6, <2>2 DEF RequestUpdate, server
  <2>3. CASE ~requested
    <3>1. out' # <<>> /\ out'[Len(out')] = Request(FALSE)
      BY <1>6, <2>1, <2>3, LastOf, Zenon DEF RequestUpdate, Accounted, RfbTypeOK
    <3>. QED BY <1>6, <2>1, <3>1, Zenon DEF RequestUpdate, server
  <2>. QED BY <2>2, <2>3
<1>7. CASE End BY <1>7 DEF End, server
<1>. QED BY <1>1, <1>2, <1>3, <1>4, <1>5, <1>6, <1>7 DEF Reader

\* The window's thread asks at the framebuffer's size, and where the reader resizes it
\* before the request is sent, the reader waits with its own.
LEMMA UiLast ==
  ASSUME RfbIInv, (\E v \in BOOLEAN : SetFocused(v)) \/ SetEncodings \/ Ui PROVE LastIsCurrent'
<1> USE DEF RfbIInv, LastIsCurrent, Locked
<1>1. ASSUME NEW v \in BOOLEAN, SetFocused(v) PROVE LastIsCurrent'
  BY <1>1 DEF SetFocused, server
<1>2. CASE SetEncodings BY <1>2 DEF SetEncodings, Accounted, server
<1>3. CASE Ask
  <2>1. asked' = asked \/ asked' = Request(FALSE)
    BY <1>3, Zenon DEF Ask
  <2>. QED BY <1>3, <2>1 DEF Ask, Accounted, Request, server
<1>4. CASE AskFull BY <1>4 DEF AskFull, Request, server
<1>5. CASE Send
  <2>1. asked \in Requests BY <1>5 DEF Send, Accounted
  <2>2. out' # <<>> /\ out'[Len(out')] = asked
    BY <1>5, <2>1, LastOf DEF Send, Accounted, RfbTypeOK
  <2>. QED BY <1>5, <2>2 DEF Send, server
<1>. QED BY <1>1, <1>2, <1>3, <1>4, <1>5 DEF Ui

\* What the server has received last it wants at least.
LEMMA ServerLast == ASSUME RfbIInv, Receive \/ Answers \/ Change \/ Resize PROVE LastIsCurrent'
<1> USE DEF RfbIInv, LastIsCurrent, Locked
<1>1. CASE Receive
  <2>1. out \in Seq(Requests) /\ out # <<>> /\ out' = Tail(out) /\ want \in Nat
    BY <1>1 DEF Receive, Accounted, RfbTypeOK
  <2>2. Head(out) \in Requests BY <2>1
  <2>3. Head(out).size \in Nat BY <2>2 DEF Requests
  <2>4. want' \in Nat /\ want' >= Head(out).size BY <1>1, <2>1, <2>3 DEF Receive
  <2>5. out' # <<>> => out'[Len(out')] = out[Len(out)] BY <2>1, LastOf
  <2>6. out' = <<>> => Head(out) = out[Len(out)] BY <2>1, LastOf
  <2>. QED BY <1>1, <2>1, <2>4, <2>5, <2>6 DEF Receive, client
<1>2. CASE AnswerSize BY <1>2 DEF AnswerSize, client
<1>3. CASE AnswerCells BY <1>3 DEF AnswerCells, client
<1>4. CASE Change BY <1>4 DEF Change, client
<1>5. CASE Resize BY <1>5 DEF Resize, client
<1>. QED BY <1>1, <1>2, <1>3, <1>4, <1>5 DEF Answers

-----------------------------------------------------------------------------
(* The theorems.                                                            *)

\* requested is accounted for in every state: set, an update is on its way or being
\* read; clear with the window shown, a thread is about to ask. And the request made
\* last is for the framebuffer as it is, or the reader is about to make one.
THEOREM RfbIInvHolds == RfbSpec => []RfbIInv
<1>1. RfbInit => RfbIInv
  <2> SUFFICES ASSUME RfbInit PROVE RfbIInv
    OBVIOUS
  <2>1. FlagsOK BY Zenon DEF RfbInit, FlagsOK
  <2>2. RfbTypeOK BY RfbAssumption DEF RfbInit, RfbTypeOK
  <2>3. LastIsCurrent BY DEF RfbInit, LastIsCurrent, Locked
  <2>. QED BY <2>1, <2>2, <2>3 DEF RfbInit, RfbIInv, Accounted, Outstanding, Locked
<1>2. RfbIInv /\ [RfbNext]_rfbVars => RfbIInv'
  <2> SUFFICES ASSUME RfbIInv, [RfbNext]_rfbVars PROVE RfbIInv'
    OBVIOUS
  <2>1. CASE UNCHANGED rfbVars
    BY <2>1
    DEF rfbVars, client, server, RfbIInv, Accounted, LastIsCurrent, FlagsOK, RfbTypeOK, Outstanding, Locked
  <2>2. CASE RfbNext
    <3>1. Accounted' BY <2>2, ReaderAccounted, UiAccounted, ServerAccounted DEF RfbNext, RfbIInv
    <3>2. LastIsCurrent' BY <2>2, ReaderLast, UiLast, ServerLast DEF RfbNext
    <3>. QED BY <3>1, <3>2 DEF RfbIInv
  <2>. QED BY <2>1, <2>2
<1>. QED BY <1>1, <1>2, PTL DEF RfbSpec

\* The reader and the window's thread never both leave the next request to the
\* other: while the window is shown and the session runs, one is outstanding or
\* about to be.
THEOREM NeverStuckHolds == RfbSpec => []NeverStuck
<1>1. RfbIInv => NeverStuck BY DEF RfbIInv, Accounted, RfbTypeOK, FlagsOK, NeverStuck, Locked
<1>. QED BY <1>1, RfbIInvHolds, PTL

\* A request that was on its way while the desktop was resized is never the last word:
\* when the reader waits for an update, one for all of the framebuffer was asked for.
THEOREM RequestCoversHolds == RfbSpec => []RequestCovers
<1>1. RfbIInv => RequestCovers
  <2> SUFFICES ASSUME RfbIInv, reader = "read", inq = <<>>, ~Locked, Outstanding
               PROVE  want >= fb \/ \E i \in 1..Len(out) : out[i].size >= fb
    BY DEF RequestCovers
  <2>1. out \in Seq(Requests) /\ fb \in Nat BY DEF RfbIInv, Accounted, RfbTypeOK
  <2>2. CASE out = <<>> BY <2>2 DEF RfbIInv, LastIsCurrent, Outstanding
  <2>3. CASE out # <<>>
    <3>1. Len(out) \in 1..Len(out) BY <2>1, <2>3
    <3>2. out[Len(out)].size >= fb BY <2>1, <2>3 DEF RfbIInv, LastIsCurrent
    <3>. QED BY <3>1, <3>2
  <2>. QED BY <2>2, <2>3
<1>. QED BY <1>1, RfbIInvHolds, PTL

-----------------------------------------------------------------------------
(* Hangup *)

\* The strengthened invariant holds at the start.
LEMMA InitIInv == Init => IInv
  BY ThreadsAssumption, Zenon
  DEF Init, IInv, TypeOK, Threads, SocketPc, CloserPc, Blocking, Ended, Holding, BrokenIsClosed

\* Every step of a thread in hang_up, hold, dial_from or the session keeps it.
LEMMA NextIInv == IInv /\ [Next]_vars => IInv'
<1> SUFFICES ASSUME IInv, [Next]_vars PROVE IInv'
  OBVIOUS
<1> USE ThreadsAssumption
    DEF IInv, TypeOK, Threads, SocketPc, CloserPc, Blocking, Ended, Holding, BrokenIsClosed, Go
<1>1. ASSUME NEW c \in Closers, StoreFlag(c) PROVE IInv'
  BY <1>1 DEF StoreFlag
<1>2. ASSUME NEW c \in Closers, LockHeld(c) PROVE IInv'
  BY <1>2 DEF LockHeld
<1>3. ASSUME NEW c \in Closers, NEW s \in Sockets, ShutDown(c, s) PROVE IInv'
  BY <1>3 DEF ShutDown
<1>4. ASSUME NEW c \in Closers, SweepDone(c) PROVE IInv'
  BY <1>4 DEF SweepDone
<1>5. ASSUME NEW s \in Sockets, Connect(s) PROVE IInv'
  BY <1>5 DEF Connect
<1>6. ASSUME NEW s \in Sockets, HoldLock(s) PROVE IInv'
  BY <1>6 DEF HoldLock
<1>7. ASSUME NEW s \in Sockets, HoldTest(s) PROVE IInv'
  BY <1>7 DEF HoldTest
<1>8. ASSUME NEW s \in Sockets, HoldPush(s) PROVE IInv'
  BY <1>8 DEF HoldPush
<1>9. ASSUME NEW s \in Sockets, WaitConnected(s) \/ WaitTimedOut(s) PROVE IInv'
  BY <1>9 DEF WaitConnected, WaitTimedOut
<1>10. ASSUME NEW s \in Sockets,
              \/ Drop(s, "dropOk", "dialled")
              \/ Drop(s, "dropErr", "dialErr")
              \/ Drop(s, "dropSession", "over")
       PROVE IInv'
  BY <1>10 DEF Drop
<1>11. ASSUME NEW s \in Sockets, DialErr(s) \/ Over(s) PROVE IInv'
  BY <1>11 DEF DialErr, Over
<1>12. ASSUME NEW s \in Sockets, HoldForSession(s) PROVE IInv'
  BY <1>12 DEF HoldForSession
<1>13. ASSUME NEW s \in Sockets, ReadEnds(s) \/ FarEndCloses(s) PROVE IInv'
  BY <1>13 DEF ReadEnds, FarEndCloses
<1>14. ASSUME NEW s \in Sockets, Answer(s) PROVE IInv'
  BY <1>14 DEF Answer
<1>15. CASE UNCHANGED vars
  BY <1>15 DEF vars
<1>16. QED
  BY <1>1, <1>2, <1>3, <1>4, <1>5, <1>6, <1>7, <1>8, <1>9, <1>10, <1>11, <1>12,
     <1>13, <1>14, <1>15, Zenon
  DEF Next, SocketStep, CloserStep, NetworkStep, Terminating

\* The strengthened invariant holds of every behaviour.
THEOREM IInvHolds == Spec => []IInv
  BY InitIInv, NextIInv, PTL DEF Spec

\* hang_up and hold never let a socket slip between the flag and the lock:
\* once a hang_up has returned, whatever is blocked was shut down.
THEOREM NeverSlipsHolds == Spec => []NeverSlips
<1>1. IInv => NeverSlips
  BY DEF IInv, NeverSlips, Holding, Blocking
<1>2. QED
  BY IInvHolds, <1>1, PTL

\* A socket the hang-up broke is never reported as a failure.
THEOREM BrokenIsClosedHolds == Spec => []BrokenIsClosed
<1>1. IInv => BrokenIsClosed
  BY DEF IInv
<1>2. QED
  BY IInvHolds, <1>1, PTL

\* Once a hang_up has the lock, hold adds no socket to Held.
THEOREM NoneHeldAfterSweepHolds == Spec => NoneHeldAfterSweep
<1>1. IInv /\ [Next]_vars
        => [(\E c \in Closers : pc[c] \in {"sweep", "done"}) => held' \subseteq held]_vars
  <2> SUFFICES ASSUME IInv, Next,
                      \E c \in Closers : pc[c] \in {"sweep", "done"}
               PROVE  held' \subseteq held
    BY DEF vars
  <2>1. \A s \in Sockets : pc[s] # "push"
    BY DEF IInv
  <2>2. ASSUME NEW s \in Sockets, SocketStep(s) PROVE held' \subseteq held
    BY <2>1, <2>2
    DEF SocketStep, Connect, HoldLock, HoldTest, HoldPush, WaitConnected, Drop,
        DialErr, HoldForSession, ReadEnds, Over
  <2>3. ASSUME NEW s \in Sockets, NetworkStep(s) PROVE held' \subseteq held
    BY <2>3 DEF NetworkStep, Answer, WaitTimedOut, FarEndCloses
  <2>4. ASSUME NEW c \in Closers, StoreFlag(c) \/ CloserStep(c) PROVE held' \subseteq held
    BY <2>4 DEF StoreFlag, CloserStep, LockHeld, ShutDown, SweepDone
  <2>5. CASE Terminating
    BY <2>5 DEF Terminating, vars
  <2>6. QED
    BY <2>2, <2>3, <2>4, <2>5 DEF Next
<1>2. QED
  BY IInvHolds, <1>1, PTL DEF Spec, NoneHeldAfterSweep

-----------------------------------------------------------------------------
(* The gate.                                                                *)

\* The type of the gate's state; MaxDepth bounds the model's calls and no more.
GateTyped ==
  /\ inside \in [GateThreads -> Nat]
  /\ at \in [GateThreads -> {"run", "wait", "free"}]
  /\ asleep \subseteq GateThreads
  /\ frees \in Nat

GateFlags == destroyed \in BOOLEAN /\ deferred \in BOOLEAN

\* FreedAlone and what it rests on: only a thread that waits in destroy is asleep, so
\* one that is about to free is not.
GateIInv ==
  /\ GateTyped /\ GateFlags /\ G!FreedAlone
  /\ \A t \in asleep : at[t] = "wait"

\* The gate of a new session.
LEMMA InitGate == G!Init => GateIInv
<1> SUFFICES ASSUME G!Init PROVE GateIInv
  OBVIOUS
<1>1. GateTyped /\ (\A t \in asleep : at[t] = "wait")
  BY DEF G!Init, GateTyped
<1>2. GateFlags
  BY Zenon DEF G!Init, GateFlags
<1>3. G!FreedAlone
  BY DEF G!Init, G!FreedAlone, G!Freeing, G!Empty
<1> QED
  BY <1>1, <1>2, <1>3 DEF GateIInv

\* A call is admitted only before destroy has begun.
LEMMA EnterGate == ASSUME GateIInv, NEW t \in GateThreads, G!Enter(t) PROVE GateIInv'
<1> USE DEF GateIInv, GateTyped, GateFlags, G!Enter
<1>1. GateTyped' /\ GateFlags' /\ (\A u \in asleep' : at'[u] = "wait")
  OBVIOUS
<1>2. frees' = 0 /\ G!Freeing' = {} /\ ~deferred' /\ ~destroyed'
  BY DEF G!FreedAlone, G!Freeing
<1>3. G!FreedAlone'
  BY <1>2 DEF G!FreedAlone, G!Freeing
<1> QED
  BY <1>1, <1>3

\* The last call to leave frees the session or wakes who will.
LEMMA LeaveGate == ASSUME GateIInv, NEW t \in GateThreads, G!Leave(t) PROVE GateIInv'
<1> USE DEF GateIInv, GateTyped, GateFlags
<1>1. GateTyped' /\ GateFlags' /\ (\A u \in asleep' : at'[u] = "wait")
  <2>1. inside' \in [GateThreads -> Nat] /\ frees' \in Nat
    BY DEF G!Leave
  <2>2. at' \in [GateThreads -> {"run", "wait", "free"}] /\ asleep' \subseteq GateThreads
    BY DEF G!Leave
  <2>3. \A u \in asleep' : at'[u] = "wait"
    BY DEF G!Leave
  <2>4. GateFlags'
    BY Zenon DEF G!Leave
  <2> QED
    BY <2>1, <2>2, <2>3, <2>4
<1>2. ~G!Empty(inside) /\ frees' = frees /\ destroyed' = destroyed
  BY DEF G!Leave, G!Empty
<1>3. frees = 0 /\ \A u \in GateThreads : at[u] # "free"
  BY <1>2 DEF G!FreedAlone
<1>4. CASE ~G!Empty(inside')
  <2>1. deferred' = deferred /\ at' = at /\ asleep' = asleep
    BY <1>4 DEF G!Leave
  <2>2. G!FreedAlone'
    BY <1>2, <1>3, <1>4, <2>1 DEF G!FreedAlone, G!Freeing, G!Empty
  <2> QED
    BY <1>1, <2>2
<1>5. CASE G!Empty(inside') /\ deferred
  <2>1. ~deferred' /\ at' = [at EXCEPT ![t] = "free"] /\ asleep' = asleep
    BY <1>5 DEF G!Leave
  <2>2. G!Freeing = {} /\ destroyed
    BY <1>5 DEF G!FreedAlone
  <2>3. G!Freeing' = {t}
    BY <2>1, <2>2 DEF G!Freeing
  <2>4. t \notin asleep'
    BY <2>1 DEF G!Leave
  <2>5. G!FreedAlone'
    BY <1>2, <1>3, <1>5, <2>1, <2>2, <2>3, <2>4 DEF G!FreedAlone, G!Empty
  <2> QED
    BY <1>1, <2>5
<1>6. CASE G!Empty(inside') /\ ~deferred
  <2>1. ~deferred' /\ at' = at /\ asleep' = {}
    BY <1>6 DEF G!Leave
  <2>2. G!Freeing' = G!Freeing
    BY <2>1 DEF G!Freeing
  <2>3. G!FreedAlone'
    BY <1>2, <1>3, <1>6, <2>1, <2>2 DEF G!FreedAlone, G!Empty
  <2> QED
    BY <1>1, <2>3
<1> QED
  BY <1>4, <1>5, <1>6

\* The first destroy frees the session, waits, or leaves it to a call of its own.
LEMMA DestroyGate == ASSUME GateIInv, NEW t \in GateThreads, G!Destroy(t) PROVE GateIInv'
<1> USE DEF GateIInv, GateTyped, GateFlags
<1>1. GateTyped' /\ GateFlags' /\ (\A u \in asleep' : at'[u] = "wait")
  BY Zenon DEF G!Destroy
<1>2. frees' = 0 /\ ~deferred /\ G!Freeing = {} /\ destroyed' /\ inside' = inside
  BY DEF G!Destroy, G!FreedAlone
<1>3. CASE inside[t] > 0
  <2>1. deferred' /\ at' = at /\ ~G!Empty(inside')
    BY <1>2, <1>3 DEF G!Destroy, G!Empty
  <2>2. G!Freeing' = {} /\ \A u \in GateThreads : at'[u] # "free"
    BY <1>2, <2>1 DEF G!Freeing
  <2> QED
    BY <1>1, <1>2, <2>1, <2>2 DEF G!FreedAlone
<1>4. CASE inside[t] = 0
  <2>1. ~deferred' /\ at'[t] # "run" /\ \A u \in GateThreads : u # t => at'[u] = at[u]
    BY <1>2, <1>4 DEF G!Destroy
  <2>2. G!Freeing' = {t}
    BY <1>2, <2>1 DEF G!Freeing
  <2>3. CASE G!Empty(inside)
    <3>1. t \notin asleep' /\ G!Empty(inside')
      BY <1>2, <1>4, <2>3 DEF G!Destroy, G!Empty
    <3> QED
      BY <1>1, <1>2, <2>1, <2>2, <3>1 DEF G!FreedAlone
  <2>4. CASE ~G!Empty(inside)
    <3>1. ~G!Empty(inside') /\ at'[t] = "wait"
      BY <1>2, <1>4, <2>4 DEF G!Destroy, G!Empty
    <3>2. \A u \in GateThreads : at'[u] # "free"
      BY <1>2, <2>1, <3>1 DEF G!Freeing
    <3> QED
      BY <1>1, <1>2, <2>1, <2>2, <3>1, <3>2 DEF G!FreedAlone
  <2> QED
    BY <2>3, <2>4
<1> QED
  BY <1>3, <1>4

\* destroy wakes, and frees only when every call has left.
LEMMA WokenGate == ASSUME GateIInv, NEW t \in GateThreads, G!Woken(t) PROVE GateIInv'
<1> USE DEF GateIInv, GateTyped, GateFlags
<1>1. GateTyped' /\ GateFlags' /\ (\A u \in asleep' : at'[u] = "wait")
  BY DEF G!Woken
<1>2. t \in G!Freeing /\ UNCHANGED <<inside, destroyed, deferred, frees>>
  BY DEF G!Woken, G!Freeing
<1>3. G!Freeing = {t} /\ frees = 0 /\ ~deferred /\ destroyed
  BY <1>2 DEF G!FreedAlone
<1>4. at'[t] # "run" /\ \A u \in GateThreads : u # t => at'[u] = at[u]
  BY DEF G!Woken
<1>5. G!Freeing' = {t}
  BY <1>3, <1>4 DEF G!Freeing
<1>6. CASE G!Empty(inside)
  <2>1. t \notin asleep' /\ G!Empty(inside')
    BY <1>2, <1>6 DEF G!Woken, G!Empty
  <2> QED
    BY <1>1, <1>2, <1>3, <1>5, <2>1 DEF G!FreedAlone
<1>7. CASE ~G!Empty(inside)
  <2>1. ~G!Empty(inside') /\ at' = at
    BY <1>2, <1>7 DEF G!Woken, G!Empty
  <2>2. \A u \in GateThreads : at'[u] # "free"
    BY <1>7, <2>1 DEF G!FreedAlone
  <2> QED
    BY <1>1, <1>2, <1>3, <1>5, <2>1, <2>2 DEF G!FreedAlone
<1> QED
  BY <1>6, <1>7

\* The session is freed by the only thread that was to.
LEMMA FreeGate == ASSUME GateIInv, NEW t \in GateThreads, G!Free(t) PROVE GateIInv'
<1> USE DEF GateIInv, GateTyped, GateFlags
<1>1. GateTyped' /\ GateFlags' /\ (\A u \in asleep' : at'[u] = "wait")
  BY DEF G!Free
<1>2. t \in G!Freeing /\ at' = [at EXCEPT ![t] = "run"] /\ frees' = frees + 1
      /\ UNCHANGED <<inside, destroyed, deferred>>
  BY DEF G!Free, G!Freeing
<1>3. G!Freeing = {t} /\ frees = 0 /\ ~deferred /\ destroyed /\ G!Empty(inside)
  BY <1>2 DEF G!FreedAlone, G!Free
<1>4. G!Freeing' = {}
  BY <1>2, <1>3 DEF G!Freeing
<1> QED
  BY <1>1, <1>2, <1>3, <1>4 DEF G!FreedAlone, G!Empty

\* A step of any part is a step of the gate or leaves it alone.
LEMMA NextGate == GateIInv /\ [MCNext]_mcVars => GateIInv'
<1>1. GateIInv /\ UNCHANGED gateVars => GateIInv'
  BY DEF GateIInv, GateTyped, GateFlags, G!FreedAlone, G!Freeing, G!Empty, gateVars
<1>2. GateIInv /\ G!Next => GateIInv'
  BY EnterGate, LeaveGate, DestroyGate, WokenGate, FreeGate DEF G!Next
<1> QED
  BY <1>1, <1>2 DEF MCNext, mcVars, GateRests

\* However calls, calls within calls and destroys interleave, CSession::free runs once,
\* with no call inside, and somebody is always left to run it.
THEOREM FreedAloneHolds == MCSpec => []FreedAlone
<1>1. MCInit => GateIInv
  BY InitGate DEF MCInit
<1>2. GateIInv => FreedAlone
  BY DEF GateIInv, FreedAlone
<1> QED
  BY <1>1, <1>2, NextGate, PTL DEF MCSpec
=============================================================================
