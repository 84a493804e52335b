---------------------------- MODULE OutletProofs ----------------------------
(***************************************************************************)
(* The Outlet, for any helpers and any number of events: it strands none,  *)
(* delivers them in order and up to date, and has told the end by the time *)
(* destroy returns.                                                        *)
(***************************************************************************)
EXTENDS Outlet, TLAPS

-----------------------------------------------------------------------------
(* The outlet: nothing is stranded *)

\* A new outlet has nothing to deliver, and nobody delivering.
LEMMA InitIInv == Init => IInv
  BY OutletAssumption
  DEF Init, IInv, NewMailbox, Threads, Labels, Looking, Draining

\* What a push leaves of the mailbox, whatever the event.
LEMMA PushKeeps ==
  ASSUME NEW box, {"queue", "state"} \subseteq DOMAIN box, NEW e
  PROVE  /\ {"queue", "state"} \subseteq DOMAIN Push(box, e)
         /\ e.is # "closed" /\ Push(box, e).state = "Closed" => box.state = "Closed"
         /\ box.state = "Closed" => Push(box, e).state = "Closed"
         /\ ~Pushes(box, e) => Push(box, e) = box
  BY Zenon DEF Push, Pushes

\* Every step of a thread in wake, in changed(), or that puts an event keeps it.
LEMMA NextIInv == IInv /\ [Next]_vars => IInv'
<1> SUFFICES ASSUME IInv, [Next]_vars PROVE IInv'
  OBVIOUS
<1> USE OutletAssumption DEF IInv, Threads, Labels, Looking, Draining, Go
<1>1. CASE Put
  <2>1. PICK kind \in {"bell", "mode"} : mb' = Push(mb, Event(kind, 0))
    BY <1>1 DEF Put
  <2>2. Event(kind, 0).is # "closed"
    BY DEF Event
  <2>3. mb.state # "Closed" \/ mb'.state = "Closed"
    BY <2>1, PushKeeps
  <2>4. {"queue", "state"} \subseteq DOMAIN mb' /\ (mb'.state = "Closed" => mb.state = "Closed")
    BY <2>1, <2>2, PushKeeps, Zenon
  <2>5. QED
    BY <1>1, <2>3, <2>4 DEF Put
<1>2. ASSUME NEW t \in Threads, ChangeSound(t) PROVE IInv'
  BY <1>2 DEF ChangeSound
<1>3. ASSUME NEW t \in Threads, LockListener(t) PROVE IInv'
  BY <1>3 DEF LockListener
<1>4. ASSUME NEW t \in Threads, ReadSound(t) PROVE IInv'
  BY <1>4 DEF ReadSound
<1>5. ASSUME NEW t \in Threads, SaySound(t) PROVE IInv'
  <2> DEFINE e == Event("sound", said[t])
  <2>1. mb' = Push(mb, e) /\ e.is # "closed"
    BY <1>5 DEF SaySound, Event
  <2> HIDE DEF e
  <2>2. /\ {"queue", "state"} \subseteq DOMAIN mb'
        /\ mb'.state = "Closed" <=> mb.state = "Closed"
        /\ ~Pushes(mb, e) => mb' = mb
    <3>1. {"queue", "state"} \subseteq DOMAIN mb' /\ (~Pushes(mb, e) => mb' = mb)
      BY <2>1, PushKeeps
    <3>2. mb.state = "Closed" => mb'.state = "Closed"
      BY <2>1, PushKeeps
    <3>3. mb'.state = "Closed" => mb.state = "Closed"
      BY <2>1, PushKeeps, Zenon
    <3>4. QED
      BY <3>1, <3>2, <3>3
  <2>3. pc' = [pc EXCEPT ![t] = IF Pushes(mb, e) THEN "request" ELSE "return"]
    BY <1>5 DEF SaySound, e
  <2>4. CASE Pushes(mb, e)
    BY <1>5, <2>2, <2>3, <2>4 DEF SaySound
  <2>5. CASE ~Pushes(mb, e)
    BY <1>5, <2>2, <2>3, <2>5 DEF SaySound
  <2>6. QED
    BY <2>4, <2>5
<1>6. CASE Close
  <2>1. {"queue", "state"} \subseteq DOMAIN mb'
    BY <1>6, PushKeeps DEF Close
  <2>2. \A t \in Threads : pc'[t] = CASE t = Protocol -> "request"
                                     [] t \in Helpers -> "over"
                                     [] OTHER -> pc[t]
    BY <1>6 DEF Close
  <2>3. pc' \in [Threads -> Labels]
    BY <1>6 DEF Close
  <2>4. pc'[Protocol] = "request" /\ pc'[Main] = pc[Main] /\ \A h \in Helpers : pc'[h] = "over"
    BY <2>2
  <2>5. pc[Protocol] = "idle" /\ \A h \in Helpers : pc[h] = "idle"
    BY <1>6 DEF Close
  <2>6. draining' = draining /\ requested' = requested
    BY <1>6 DEF Close
  <2>7. QED
    BY <2>1, <2>3, <2>4, <2>5, <2>6
<1>7. ASSUME NEW t \in Threads, Request(t) PROVE IInv'
  BY <1>7 DEF Request
<1>8. ASSUME NEW t \in Threads, TryLock(t) PROVE IInv'
  BY <1>8 DEF TryLock
<1>9. ASSUME NEW t \in Threads, Clear(t) PROVE IInv'
  BY <1>9 DEF Clear
<1>10. ASSUME NEW t \in Threads, Take(t) PROVE IInv'
  <2>1. DOMAIN mb' = DOMAIN mb /\ mb'.queue = <<>> /\ mb'.state = mb.state
    BY <1>10 DEF Take, TakeAll
  <2>2. QED
    BY <1>10, <2>1 DEF Take
<1>11. ASSUME NEW t \in Threads, Deliver(t) PROVE IInv'
  BY <1>11 DEF Deliver
<1>12. ASSUME NEW t \in Threads, PutInside(t) PROVE IInv'
  <2>1. mb' = Push(mb, Event("bell", 0)) /\ Event("bell", 0).is # "closed"
    BY <1>12 DEF PutInside, Event
  <2>2. mb.state = "Closed" => mb'.state = "Closed"
    BY <2>1, PushKeeps
  <2>3. {"queue", "state"} \subseteq DOMAIN mb' /\ (mb'.state = "Closed" => mb.state = "Closed")
    BY <2>1, PushKeeps, Zenon
  <2>4. QED
    BY <1>12, <2>2, <2>3 DEF PutInside
<1>13. ASSUME NEW t \in Threads, RequestInside(t) PROVE IInv'
  BY <1>13 DEF RequestInside
<1>14. ASSUME NEW t \in Threads, Unlock(t) PROVE IInv'
  BY <1>14 DEF Unlock
<1>15. ASSUME NEW t \in Threads, Test(t) PROVE IInv'
  BY <1>15 DEF Test
<1>16. ASSUME NEW t \in Threads, Return(t) PROVE IInv'
  BY <1>16 DEF Return
<1>17. CASE Destroy
  BY <1>17 DEF Destroy
<1>18. CASE UNCHANGED vars
  BY <1>18 DEF vars
<1>19. QED
  BY <1>1, <1>2, <1>3, <1>4, <1>5, <1>6, <1>7, <1>8, <1>9, <1>10,
     <1>11, <1>12, <1>13, <1>14, <1>15, <1>16, <1>17, <1>18, Zenon DEF Next, Wake

\* The strengthened invariant holds of every behaviour.
THEOREM IInvHolds == Spec => []IInv
  BY InitIInv, NextIInv, PTL DEF Spec

\* A wake that finds the lock held leaves at once, and strands nothing.
THEOREM NothingStrandedHolds == Spec => []NothingStranded
<1>1. IInv => NothingStranded
  BY DEF IInv, NothingStranded, Looking
<1>2. QED
  BY IInvHolds, <1>1, PTL

\* destroy returns once it has joined the protocol's thread: by then nothing
\* waits in the mailbox, and no thread is delivering or about to.
THEOREM NothingAfterDestroy ==
  Spec => [](pc[Main] = "destroyed" => mb.queue = <<>> /\ \A t \in Threads : pc[t] \notin Looking)
<1>1. IInv => (pc[Main] = "destroyed" =>
                 mb.queue = <<>> /\ \A t \in Threads : pc[t] \notin Looking)
  BY DEF IInv, Looking, Threads
<1>2. QED
  BY IInvHolds, <1>1, PTL

-----------------------------------------------------------------------------
(* Mailbox: what a push does to the queue *)

\* r is q with e put at its end, and without the event at k that e supersedes, if any.
IsPush(q, r, e, k) ==
  /\ Len(r) = IF k > Len(q) THEN k ELSE Len(q)
  /\ r[Len(r)] = e
  /\ \A i \in 1..(Len(r) - 1) : r[i] = q[IF i < k THEN i ELSE i + 1]
  /\ k <= Len(q) => e.is \in StateKinds /\ q[k].is = e.is
  /\ k > Len(q) /\ e.is \in StateKinds => At(q, e.is) = {}

\* A push takes out the unread event of its kind, if there is one, and puts the new one
\* at the end.
LEMMA PushShape ==
  ASSUME NEW E, NEW box, {"queue", "state"} \subseteq DOMAIN box, box.queue \in Seq(E),
         NEW e \in E, Pushes(box, e),
         \A kind \in StateKinds : \A i, j \in At(box.queue, kind) : i = j
  PROVE  /\ Push(box, e).queue \in Seq(E)
         /\ \E k \in 1..(Len(box.queue) + 1) : IsPush(box.queue, Push(box, e).queue, e, k)
<1> DEFINE q == box.queue
           r == Push(box, e).queue
<1>1. r = Append(Supersede(q, e), e)
  BY DEF Push, Pushes
<1>2. CASE e.is \in StateKinds /\ At(q, e.is) # {}
  <2> DEFINE k == First(q, e.is)
  <2>1. k \in At(q, e.is)
    <3>1. PICK i \in At(q, e.is) : TRUE
      BY <1>2
    <3>2. i \in 1..Len(q)
      BY <3>1 DEF At
    <3>3. \A j \in At(q, e.is) : i <= j
      BY <1>2, <3>1, <3>2
    <3> QED
      BY <3>1, <3>3 DEF First
  <2>2. k \in 1..Len(q) /\ q[k].is = e.is
    BY <2>1 DEF At
  <2>3. r = Append(SubSeq(q, 1, k - 1) \o SubSeq(q, k + 1, Len(q)), e)
    BY <1>1, <1>2, Zenon DEF Supersede, WithoutFirst
  <2> HIDE DEF k, q, r
  <2>4. q \in Seq(E)
    BY DEF q
  <2>5. /\ r \in Seq(E) /\ Len(r) = Len(q) /\ r[Len(r)] = e
        /\ \A i \in 1..(Len(r) - 1) : r[i] = q[IF i < k THEN i ELSE i + 1]
    <3> DEFINE a == SubSeq(q, 1, k - 1)
               b == SubSeq(q, k + 1, Len(q))
    <3>1. /\ a \in Seq(E) /\ Len(a) = k - 1 /\ \A i \in 1..(k - 1) : a[i] = q[i]
      BY <2>2, <2>4
    <3>2. /\ b \in Seq(E) /\ Len(b) = Len(q) - k
          /\ \A i \in 1..(Len(q) - k) : b[i] = q[k + i]
      BY <2>2, <2>4
    <3> HIDE DEF a, b
    <3>3. /\ a \o b \in Seq(E) /\ Len(a \o b) = Len(q) - 1
          /\ \A i \in 1..(Len(q) - 1) : (a \o b)[i] = IF i < k THEN a[i] ELSE b[i - k + 1]
      <4>1. /\ a \o b \in Seq(E) /\ Len(a \o b) = Len(a) + Len(b)
            /\ \A i \in 1..(Len(a) + Len(b)) :
                 (a \o b)[i] = IF i <= Len(a) THEN a[i] ELSE b[i - Len(a)]
        <5>1. a \in Seq(E) /\ b \in Seq(E)
          BY <3>1, <3>2
        <5> QED
          BY <5>1
      <4>2. Len(q) \in Nat /\ k \in 1..Len(q)
        BY <2>2, <2>4
      <4> QED
        BY <3>1, <3>2, <4>1, <4>2
    <3>4. \A i \in 1..(Len(q) - 1) : (a \o b)[i] = q[IF i < k THEN i ELSE i + 1]
      BY <2>2, <2>4, <3>1, <3>2, <3>3
    <3>5. r = Append(a \o b, e)
      BY <2>3 DEF a, b
    <3> QED
      BY <2>4, <3>3, <3>4, <3>5
  <2> QED
    <3>1. k \in 1..(Len(q) + 1) /\ IsPush(q, r, e, k)
      BY <1>2, <2>2, <2>4, <2>5 DEF IsPush
    <3> QED
      BY <2>5, <3>1 DEF q, r
<1>3. CASE ~(e.is \in StateKinds /\ At(q, e.is) # {})
  <2>1. r = Append(q, e)
    BY <1>1, <1>3 DEF Supersede
  <2> HIDE DEF r
  <2>2. /\ r \in Seq(E) /\ Len(r) = Len(q) + 1 /\ r[Len(r)] = e
        /\ \A i \in 1..(Len(r) - 1) : r[i] = q[i]
    BY <2>1
  <2>3. Len(q) + 1 \in 1..(Len(q) + 1)
    BY <2>1
  <2> QED
    <3>1. IsPush(q, r, e, Len(q) + 1)
      BY <1>3, <2>2, <2>3 DEF IsPush
    <3> QED
      BY <2>2, <2>3, <3>1 DEF r
<1> QED
  BY <1>2, <1>3

\* So the other events stay, in their order, and the new one is the last and, if only
\* the latest of its kind is kept, the only one.
Pushed(q, r, e) ==
  /\ Len(r) \in Nat \ {0} /\ r[Len(r)] = e
  /\ \A i \in 1..(Len(r) - 1) : \E j \in 1..Len(q) : r[i] = q[j]
  /\ \A h, i \in 1..(Len(r) - 1) : h < i =>
       \E g, j \in 1..Len(q) : g < j /\ r[h] = q[g] /\ r[i] = q[j]
  /\ \A j \in 1..Len(q) :
       e.is \notin StateKinds \/ q[j].is # e.is => \E i \in 1..(Len(r) - 1) : r[i] = q[j]
  /\ e.is \in StateKinds => \A i \in 1..(Len(r) - 1) : r[i].is # e.is
  /\ \A kind \in StateKinds : \A i, j \in At(r, kind) : i = j

\* Of a mailbox with at most one event of such a kind.
LEMMA PushFacts ==
  ASSUME NEW E, NEW box, {"queue", "state"} \subseteq DOMAIN box, box.queue \in Seq(E),
         NEW e \in E, Pushes(box, e),
         \A kind \in StateKinds : \A i, j \in At(box.queue, kind) : i = j
  PROVE  Push(box, e).queue \in Seq(E) /\ Pushed(box.queue, Push(box, e).queue, e)
<1> DEFINE q == box.queue
           r == Push(box, e).queue
<1>1. PICK k \in 1..(Len(q) + 1) : r \in Seq(E) /\ IsPush(q, r, e, k)
  BY PushShape
<1> HIDE DEF q, r
<1> USE <1>1 DEF IsPush
<1>2. q \in Seq(E) /\ Len(q) \in Nat /\ k \in 1..(Len(q) + 1) /\ Len(r) \in Nat \ {0}
      /\ DOMAIN q = 1..Len(q) /\ DOMAIN r = 1..Len(r)
      /\ \A kind \in StateKinds : \A i, j \in At(q, kind) : i = j
  BY <1>1 DEF q
<1>3. \A i \in 1..(Len(r) - 1) : (IF i < k THEN i ELSE i + 1) \in 1..Len(q)
  BY <1>1, <1>2
<1>4. \A i \in 1..(Len(r) - 1) : \E j \in 1..Len(q) : r[i] = q[j]
  BY <1>1, <1>3
<1>5. \A h, i \in 1..(Len(r) - 1) : h < i =>
              \E g, j \in 1..Len(q) : g < j /\ r[h] = q[g] /\ r[i] = q[j]
  <2> SUFFICES ASSUME NEW h \in 1..(Len(r) - 1), NEW i \in 1..(Len(r) - 1), h < i
               PROVE  \E g, j \in 1..Len(q) : g < j /\ r[h] = q[g] /\ r[i] = q[j]
    BY Zenon
  <2> DEFINE g == IF h < k THEN h ELSE h + 1
             j == IF i < k THEN i ELSE i + 1
  <2>1. g < j
    BY <1>2
  <2>2. g \in 1..Len(q) /\ j \in 1..Len(q) /\ r[h] = q[g] /\ r[i] = q[j]
    BY <1>1, <1>3
  <2> QED
    BY <2>1, <2>2
<1>6. \A j \in 1..Len(q) : j # k => \E i \in 1..(Len(r) - 1) : r[i] = q[j]
  <2> SUFFICES ASSUME NEW j \in 1..Len(q), j # k PROVE \E i \in 1..(Len(r) - 1) : r[i] = q[j]
    OBVIOUS
  <2> DEFINE i == IF j < k THEN j ELSE j - 1
  <2>1. i \in 1..(Len(r) - 1) /\ j = IF i < k THEN i ELSE i + 1
    BY <1>1, <1>2
  <2> QED
    BY <1>1, <2>1
<1>7. \A j \in 1..Len(q) :
        e.is \notin StateKinds \/ q[j].is # e.is => \E i \in 1..(Len(r) - 1) : r[i] = q[j]
  BY <1>1, <1>2, <1>6
<1>8. e.is \in StateKinds => \A i \in 1..(Len(r) - 1) : r[i].is # e.is
  <2> SUFFICES ASSUME e.is \in StateKinds, NEW i \in 1..(Len(r) - 1), r[i].is = e.is
               PROVE  FALSE
    OBVIOUS
  <2> DEFINE j == IF i < k THEN i ELSE i + 1
  <2>1. j \in 1..Len(q) /\ q[j].is = e.is /\ j # k
    BY <1>1, <1>2, <1>3
  <2>2. j \in At(q, e.is)
    BY <1>2, <2>1 DEF At
  <2>3. k \in At(q, e.is)
    BY <1>1, <1>2, <2>2 DEF At
  <2> QED
    BY <1>2, <2>1, <2>2, <2>3
<1>9. \A kind \in StateKinds : \A i, j \in At(r, kind) : i = j
  <2> SUFFICES ASSUME NEW kind \in StateKinds, NEW i \in 1..Len(r), NEW j \in 1..Len(r),
                      r[i].is = kind, r[j].is = kind, i < j
               PROVE  FALSE
    BY <1>2 DEF At
  <2>1. i \in 1..(Len(r) - 1)
    BY <1>2
  <2>2. CASE j = Len(r)
    BY <1>1, <1>8, <2>1, <2>2
  <2>3. CASE j # Len(r)
    <3>1. PICK g \in 1..Len(q), h \in 1..Len(q) : g < h /\ r[i] = q[g] /\ r[j] = q[h]
      <4>1. j \in 1..(Len(r) - 1)
        BY <1>2, <2>3
      <4> QED
        BY <1>5, <2>1, <4>1
    <3>2. g \in At(q, kind) /\ h \in At(q, kind)
      BY <1>2, <3>1 DEF At
    <3> QED
      BY <1>2, <3>1, <3>2
  <2> QED
    BY <2>2, <2>3
<1> QED
  BY <1>1, <1>2, <1>4, <1>5, <1>7, <1>8, <1>9 DEF Pushed, q, r

\* An event put while the session is not closed.
LEMMA PushDelivery ==
  ASSUME IInv, Typed, Numbered, Ends, mb.state # "Closed",
         NEW kind \in {"bell", "mode", "sound", "closed"}, NEW v \in Nat,
         mb' = Push(mb, Event(kind, v)), puts' = puts + 1,
         UNCHANGED <<batch, last, heard, told>>
  PROVE  /\ mb'.queue \in Seq(Events)
         /\ \A state \in StateKinds : \A i, j \in At(mb'.queue, state) : i = j
         /\ Numbered'
         /\ ~told /\ \A t \in Threads : At(batch[t], "closed") = {}
         /\ \A i \in At(mb'.queue, "closed") : i = Len(mb'.queue)
         /\ At(mb'.queue, "closed") # {} <=> kind = "closed"
         /\ mb'.state = "Closed" <=> kind = "closed"
         /\ kind # "sound" => \A x : Says(x) => Says(x)'
         /\ kind = "sound" => Says(v)'
<1> DEFINE e == Event(kind, v)
           q == mb.queue
           r == mb'.queue
<1>1. e \in Events /\ e.is = kind /\ e.v = v /\ e.n = puts + 1
  BY DEF Event, Events, Typed
<1>2. /\ {"queue", "state"} \subseteq DOMAIN mb /\ q \in Seq(Events)
      /\ \A state \in StateKinds : \A i, j \in At(q, state) : i = j
  BY DEF IInv, Typed
<1>3. Pushes(mb, e)
  BY DEF Pushes
<1>4. r = Push(mb, e).queue
  OBVIOUS
<1>5. mb'.state = "Closed" <=> kind = "closed"
  BY <1>1, <1>2 DEF Push
<1>6. ~told /\ \A t \in Threads : At(batch[t], "closed") = {}
  BY DEF Ends
<1> HIDE DEF e, r, q
<1>7. r \in Seq(Events) /\ Pushed(q, r, e)
  BY <1>1, <1>2, <1>3, <1>4, PushFacts DEF q
<1>8. Len(r) \in Nat \ {0} /\ r[Len(r)] = e /\ Len(q) \in Nat
  BY <1>2, <1>7 DEF Pushed
<1>13. DOMAIN q = 1..Len(q) /\ DOMAIN r = 1..Len(r)
  BY <1>2, <1>7
<1>14. \A i \in 1..Len(r) : i = Len(r) \/ i \in 1..(Len(r) - 1)
  BY <1>8
<1>15. \A i \in 1..(Len(r) - 1) : \E j \in 1..Len(q) : r[i] = q[j]
  BY <1>7 DEF Pushed
<1>16. \A h, i \in 1..(Len(r) - 1) : h < i =>
           \E g, j \in 1..Len(q) : g < j /\ r[h] = q[g] /\ r[i] = q[j]
  BY <1>7, Zenon DEF Pushed
<1>17. \A j \in 1..Len(q) :
           e.is \notin StateKinds \/ q[j].is # e.is => \E i \in 1..(Len(r) - 1) : r[i] = q[j]
  BY <1>7 DEF Pushed
<1>9. Numbered'
  <2> USE DEF Numbered
  <2>1. puts \in Nat /\ last \in Nat /\ \A i \in 1..Len(q) : q[i] \in Events
    BY <1>2 DEF Typed
  <2>2. \A i \in 1..Len(r) : last < r[i].n /\ r[i].n <= puts + 1
    <3>1. \A i \in 1..Len(q) : q[i].n \in Nat /\ last < q[i].n /\ q[i].n <= puts
      BY <1>13, <2>1 DEF q, Events
    <3> QED
      <4>1. \A i \in 1..(Len(r) - 1) : last < r[i].n /\ r[i].n <= puts /\ r[i].n \in Nat
        BY <1>15, <3>1
      <4>2. last < r[Len(r)].n /\ r[Len(r)].n <= puts + 1
        BY <1>1, <1>8, <2>1 DEF Numbered
      <4>3. \A n \in Nat : n <= puts => n <= puts + 1
        BY <2>1
      <4> QED
        BY <1>14, <4>1, <4>2, <4>3
  <2>3. \A i, j \in 1..Len(r) : i < j => r[i].n < r[j].n
    <3>1. \A i, j \in 1..Len(q) : i < j => q[i].n < q[j].n
      BY <1>13 DEF q
    <3>2. \A i \in 1..(Len(r) - 1) : r[i].n < e.n
      <4>1. \A i \in 1..Len(q) : q[i].n \in Nat /\ q[i].n <= puts
        BY <1>13, <2>1 DEF q, Events
      <4> QED
        BY <1>1, <1>15, <2>1, <4>1
    <3>3. ASSUME NEW i \in 1..(Len(r) - 1), NEW j \in 1..(Len(r) - 1), i < j
          PROVE  r[i].n < r[j].n
      <4>1. PICK g \in 1..Len(q), h \in 1..Len(q) : g < h /\ r[i] = q[g] /\ r[j] = q[h]
        BY <1>16, <3>3, Zenon
      <4> QED
        BY <3>1, <4>1
    <3> QED
      BY <1>8, <1>14, <3>2, <3>3
  <2>4. ASSUME NEW t \in Threads
        PROVE /\ \A i \in DOMAIN batch[t] : last < batch[t][i].n /\ batch[t][i].n <= puts + 1
              /\ \A i \in DOMAIN batch[t], j \in 1..Len(r) : batch[t][i].n < r[j].n
    <3>1. \A i \in DOMAIN batch[t] :
            batch[t][i].n \in Nat /\ batch[t][i].n <= puts /\ last < batch[t][i].n
      <4>1. batch[t] \in Seq(Events)
        BY DEF Typed
      <4>2. \A i \in DOMAIN batch[t] : batch[t][i] \in Events
        BY <4>1
      <4> QED
        BY <4>2 DEF Events
    <3>2. \A i \in DOMAIN batch[t], j \in 1..Len(q) : batch[t][i].n < q[j].n
      BY <1>13 DEF q
    <3>3. \A i \in DOMAIN batch[t], j \in 1..(Len(r) - 1) : batch[t][i].n < r[j].n
      BY <1>15, <3>2
    <3> QED
      BY <1>1, <1>8, <1>14, <2>1, <3>1, <3>3
  <2>5. last <= puts + 1
    BY <2>1
  <2> QED
    <3>1. \A t \in Threads : \A i, j \in DOMAIN batch[t] : i < j => batch[t][i].n < batch[t][j].n
      OBVIOUS
    <3> QED
      BY <1>13, <2>2, <2>3, <2>4, <2>5, <3>1 DEF r
<1>10. /\ \A i \in At(r, "closed") : i = Len(r)
       /\ At(r, "closed") # {} <=> kind = "closed"
  <2>1. \A j \in 1..Len(q) : q[j].is # "closed"
    BY <1>13 DEF Ends, At, q
  <2>2. \A i \in 1..(Len(r) - 1) : r[i].is # "closed"
    BY <1>15, <2>1, Zenon
  <2> QED
    <3>1. r[Len(r)].is = kind /\ Len(r) \in 1..Len(r)
      BY <1>1, <1>8
    <3>2. \A i \in 1..Len(r) : r[i].is = "closed" => i = Len(r)
      BY <1>14, <2>2
    <3> QED
      BY <1>13, <3>1, <3>2, Zenon DEF At
<1>11. ASSUME kind = "sound" PROVE Says(v)'
  <2>1. Len(r) \in At(r, "sound") /\ r[Len(r)].v = v
    BY <1>1, <1>8, <1>11, <1>13 DEF At
  <2> QED
    BY <2>1 DEF Says, r
<1>12. ASSUME kind # "sound", NEW x, Says(x) PROVE Says(x)'
  <2>1. \A j \in At(q, "sound") : \E i \in At(r, "sound") : r[i] = q[j]
    BY <1>1, <1>8, <1>12, <1>13, <1>17 DEF At
  <2>2. \A i \in At(r, "sound") : \E j \in At(q, "sound") : r[i] = q[j]
    <3> SUFFICES ASSUME NEW i \in At(r, "sound") PROVE \E j \in At(q, "sound") : r[i] = q[j]
      OBVIOUS
    <3>1. i \in 1..(Len(r) - 1)
      BY <1>1, <1>8, <1>12, <1>13, <1>14, Zenon DEF At
    <3> QED
      BY <1>13, <1>15, <3>1, Zenon DEF At
  <2>3. CASE \E i \in At(q, "sound") : q[i].v = x
    BY <2>1, <2>3 DEF Says, r
  <2>4. CASE /\ At(q, "sound") = {}
             /\ \/ \E t \in Threads : \E i \in At(batch[t], "sound") : batch[t][i].v = x
                \/ (\A t \in Threads : At(batch[t], "sound") = {}) /\ heard = x
    <3>1. At(r, "sound") = {}
      BY <2>2, <2>4
    <3> QED
      BY <2>4, <3>1 DEF Says, r
  <2> QED
    BY <1>12, <2>3, <2>4 DEF Says, q
<1>18. \A state \in StateKinds : \A i, j \in At(r, state) : i = j
  BY <1>7 DEF Pushed
<1> QED
  BY <1>5, <1>6, <1>7, <1>9, <1>10, <1>11, <1>12, <1>18, Zenon DEF r

\* Only the thread that delivers has events.
LEMMA OneBatch ==
  ASSUME IInv, Typed, NEW t \in Threads, pc[t] \in Draining, NEW u \in Threads, u # t
  PROVE  batch[u] = <<>>
  BY DEF IInv, Typed, Draining

\* A step that neither puts, takes nor delivers.
LEMMA QuietDelivery ==
  ASSUME Delivery, UNCHANGED <<mb, batch, puts, delivered>>,
         said' \in [Threads -> Nat], sound' \in Nat,
         \A t \in Threads : batch[t] # <<>> => pc'[t] \in {"deliver", "inside"},
         mb.state = "Closed" => pc'[Protocol] \notin {"idle", "changed", "read", "say"},
         Current'
  PROVE  Delivery'
<1>1. Typed'
  BY DEF Delivery, Typed, delivered
<1>2. Numbered'
  BY DEF Delivery, Numbered, delivered
<1>3. Ends'
  BY DEF Delivery, Ends, delivered
<1> QED
  BY <1>1, <1>2, <1>3 DEF Delivery

\* Nor does it matter where a thread goes that has no sound to say.
LEMMA MoveDelivery ==
  ASSUME IInv, Delivery, NEW t \in Threads, NEW label,
         UNCHANGED <<mb, batch, puts, delivered, said, sound>>,
         pc' = [pc EXCEPT ![t] = label],
         pc[t] \notin {"changed", "read", "say"}, label \notin {"changed", "read", "say"},
         batch[t] # <<>> => label \in {"deliver", "inside"},
         t = Protocol /\ mb.state = "Closed" => label # "idle",
         listener' = listener \/ listener = t
  PROVE  Delivery'
<1>1. pc \in [Threads -> Labels] /\ said \in [Threads -> Nat] /\ sound \in Nat
  BY DEF IInv, Delivery, Typed
<1>2. pc'[t] = label /\ \A u \in Threads : u # t => pc'[u] = pc[u]
  BY <1>1
<1>3. \A u \in Threads : batch[u] # <<>> => pc'[u] \in {"deliver", "inside"}
  BY <1>2 DEF Delivery, Typed
<1>4. mb.state = "Closed" => pc'[Protocol] \notin {"idle", "changed", "read", "say"}
  BY <1>2 DEF Delivery, Ends, Threads
<1>5. Current
  BY DEF Delivery
<1>6. Says(sound) => Says(sound)'
  BY Zenon DEF Says, delivered
<1>7. Current'
  BY <1>2, <1>5, <1>6 DEF Current
<1> QED
  BY <1>1, <1>3, <1>4, <1>7, QuietDelivery

\* A thread takes all that waits.
LEMMA TakeDelivery ==
  ASSUME IInv, Delivery, NEW t \in Threads, Take(t)
  PROVE  Delivery'
<1> USE DEF Delivery
<1>1. /\ pc[t] = "take" /\ pc' = [pc EXCEPT ![t] = "deliver"]
      /\ batch' = [batch EXCEPT ![t] = mb.queue]
      /\ UNCHANGED <<listener, sound, said, puts, delivered>>
  BY DEF Take, Go
<1>2. mb'.queue = <<>> /\ mb'.state = mb.state
  BY DEF Take, TakeAll, IInv
<1>3. batch[t] = <<>> /\ \A u \in Threads : u # t => batch[u] = <<>>
  BY <1>1, OneBatch, Zenon DEF Typed, Draining
<1>4. batch \in [Threads -> Seq(Events)] /\ pc \in [Threads -> Labels] /\ mb.queue \in Seq(Events)
  BY DEF Typed, IInv
<1>5. batch'[t] = mb.queue /\ \A u \in Threads : u # t => batch'[u] = <<>>
  BY <1>1, <1>3, <1>4
<1>6. pc'[t] = "deliver" /\ \A u \in Threads : u # t => pc'[u] = pc[u]
  BY <1>1, <1>4
<1>7. DOMAIN <<>> = {} /\ \A kind : At(<<>>, kind) = {}
  BY DEF At
<1>8. Typed'
  <2>1. mb'.queue \in Seq(Events) /\ batch' \in [Threads -> Seq(Events)]
    BY <1>1, <1>2, <1>4
  <2>2. \A u \in Threads : batch'[u] # <<>> => pc'[u] \in {"deliver", "inside"}
    BY <1>5, <1>6
  <2>3. \A kind \in StateKinds : \A i, j \in At(mb.queue, kind) : i = j
    BY DEF Typed
  <2>4. \A kind \in StateKinds, u \in Threads : \A i, j \in At(batch'[u], kind) : i = j
    BY <1>5, <1>7, <2>3
  <2> QED
    BY <1>1, <1>2, <1>7, <2>1, <2>2, <2>4 DEF Typed, delivered
<1>9. Numbered'
  <2>1. last' = last /\ puts' = puts /\ last <= puts
    BY <1>1 DEF Numbered, delivered
  <2>2. \A u \in Threads : DOMAIN batch'[u] # {} => batch'[u] = mb.queue
    BY <1>5, <1>7, Zenon
  <2>3. /\ \A i \in DOMAIN mb.queue : last < mb.queue[i].n /\ mb.queue[i].n <= puts
        /\ \A i, j \in DOMAIN mb.queue : i < j => mb.queue[i].n < mb.queue[j].n
    BY DEF Numbered
  <2>4. \A u \in Threads :
          /\ \A i \in DOMAIN batch'[u] : last < batch'[u][i].n /\ batch'[u][i].n <= puts
          /\ \A i, j \in DOMAIN batch'[u] : i < j => batch'[u][i].n < batch'[u][j].n
    BY <2>2, <2>3, Zenon
  <2> QED
    BY <1>2, <1>7, <2>1, <2>4, Zenon DEF Numbered
<1>10. Ends'
  <2>1. told' = told /\ (told => mb.state = "Closed" /\ mb.queue = <<>>)
    BY <1>1 DEF Ends, delivered
  <2>2. told' => mb'.state = "Closed" /\ mb'.queue = <<>> /\ \A u \in Threads : batch'[u] = <<>>
    BY <1>2, <1>5, <2>1
  <2>3. \A u \in Threads : \A i \in At(batch'[u], "closed") :
          i = Len(batch'[u]) /\ mb'.queue = <<>> /\ mb'.state = "Closed"
    BY <1>2, <1>5, <1>7 DEF Ends
  <2>4. ASSUME mb.state = "Closed"
        PROVE told' \/ \E u \in Threads : At(batch'[u], "closed") # {}
    <3>1. told \/ At(mb.queue, "closed") # {}
      BY <1>3, <1>7, <2>4 DEF Ends
    <3> QED
      BY <1>5, <2>1, <3>1
  <2>5. mb.state = "Closed" => pc'[Protocol] \notin {"idle", "changed", "read", "say"}
    BY <1>1, <1>4, <1>6, Zenon DEF Ends, Threads
  <2> QED
    BY <1>2, <1>7, <2>2, <2>3, <2>4, <2>5 DEF Ends
<1>11. \A x : Says(x) => Says(x)'
  <2> SUFFICES ASSUME NEW x, Says(x) PROVE Says(x)'
    OBVIOUS
  <2>1. CASE \E i \in At(mb.queue, "sound") : mb.queue[i].v = x
    BY <1>2, <1>5, <1>7, <2>1 DEF Says
  <2>2. CASE At(mb.queue, "sound") = {} /\ heard = x
    BY <1>1, <1>2, <1>5, <1>7, <2>2 DEF Says, delivered
  <2> QED
    BY <1>3, <1>7, <2>1, <2>2, Zenon DEF Says
<1>12. Current'
  BY <1>1, <1>2, <1>6, <1>11 DEF Current
<1> QED
  BY <1>8, <1>9, <1>10, <1>12

\* A thread delivers the next event of those it took.
LEMMA DeliverDelivery ==
  ASSUME IInv, Delivery, NEW t \in Threads, Deliver(t)
  PROVE  Delivery'
<1> USE DEF Delivery
<1> DEFINE b == batch[t]
           e == Head(b)
<1>1. /\ pc[t] = "deliver" /\ b # <<>> /\ batch' = [batch EXCEPT ![t] = Tail(b)]
      /\ last' = e.n /\ heard' = (IF e.is = "sound" THEN e.v ELSE heard)
      /\ told' = (told \/ e.is = "closed")
      /\ UNCHANGED <<mb, listener, sound, said, pc, puts>>
  BY DEF Deliver
<1>2. \A u \in Threads : u # t => batch[u] = <<>>
  BY <1>1, OneBatch DEF Draining
<1>3. batch \in [Threads -> Seq(Events)] /\ pc \in [Threads -> Labels] /\ b \in Seq(Events)
  BY DEF Typed, IInv
<1>4. batch'[t] = Tail(b) /\ \A u \in Threads : u # t => batch'[u] = <<>>
  BY <1>1, <1>2, <1>3
<1>5. ~told
  BY <1>1 DEF Ends
<1> HIDE DEF b
<1>6. /\ Len(b) \in Nat \ {0} /\ DOMAIN b = 1..Len(b) /\ e = b[1] /\ e \in Events
      /\ Tail(b) \in Seq(Events) /\ Len(Tail(b)) = Len(b) - 1
      /\ DOMAIN Tail(b) = 1..(Len(b) - 1)
  BY <1>1, <1>3
<1>7. \A i \in DOMAIN Tail(b) : i + 1 \in DOMAIN b /\ i + 1 > 1 /\ Tail(b)[i] = b[i + 1]
  BY <1>1, <1>3, <1>6
<1>8. DOMAIN <<>> = {} /\ \A kind : At(<<>>, kind) = {}
  BY DEF At
<1>9. \A kind : \A i \in At(Tail(b), kind) : i + 1 \in At(b, kind) /\ i \in Nat
  BY <1>6, <1>7 DEF At
<1> HIDE DEF e
<1>10. Typed'
  <2>1. batch' \in [Threads -> Seq(Events)]
    BY <1>1, <1>3, <1>6
  <2>2. \A u \in Threads : batch'[u] # <<>> => pc'[u] \in {"deliver", "inside"}
    BY <1>1, <1>4
  <2>3. \A kind \in StateKinds : \A i, j \in At(b, kind) : i = j
    BY DEF Typed, b
  <2>4. \A kind \in StateKinds : \A i, j \in At(Tail(b), kind) : i = j
    <3> SUFFICES ASSUME NEW kind \in StateKinds, NEW i \in At(Tail(b), kind),
                        NEW j \in At(Tail(b), kind)
                 PROVE  i = j
      OBVIOUS
    <3>1. i + 1 = j + 1 /\ i \in Nat /\ j \in Nat
      BY <1>9, <2>3
    <3> QED
      BY <3>1
  <2>5. \A kind \in StateKinds, u \in Threads : \A i, j \in At(batch'[u], kind) : i = j
    BY <1>4, <1>8, <2>4, Zenon
  <2>6. last' \in Nat /\ heard' \in Nat
    BY <1>1, <1>6 DEF Events, Typed
  <2> QED
    BY <1>1, <2>1, <2>2, <2>5, <2>6, Zenon DEF Typed
<1>11. Numbered'
  <2>1. /\ \A i \in DOMAIN b : last < b[i].n /\ b[i].n <= puts
        /\ \A i, j \in DOMAIN b : i < j => b[i].n < b[j].n
        /\ \A i \in DOMAIN b, j \in DOMAIN mb.queue : b[i].n < mb.queue[j].n
    BY DEF Numbered, b
  <2>2. /\ \A i, j \in DOMAIN mb.queue : i < j => mb.queue[i].n < mb.queue[j].n
        /\ \A i \in DOMAIN mb.queue : mb.queue[i].n <= puts
    BY DEF Numbered
  <2>3. 1 \in DOMAIN b
    BY <1>6
  <2>4. \A i \in DOMAIN mb.queue : last' < mb.queue[i].n
    BY <1>1, <1>6, <2>1, <2>3
  <2>5. last' <= puts
    BY <1>1, <1>6, <2>1, <2>3
  <2>6. \A i \in DOMAIN Tail(b) : last' < Tail(b)[i].n /\ Tail(b)[i].n <= puts
    BY <1>1, <1>6, <1>7, <2>1, <2>3
  <2>7. \A i, j \in DOMAIN Tail(b) : i < j => Tail(b)[i].n < Tail(b)[j].n
    BY <1>6, <1>7, <2>1
  <2>8. \A i \in DOMAIN Tail(b), j \in DOMAIN mb.queue : Tail(b)[i].n < mb.queue[j].n
    BY <1>7, <2>1
  <2>9. ASSUME NEW u \in Threads
        PROVE  /\ \A i \in DOMAIN batch'[u] : last' < batch'[u][i].n /\ batch'[u][i].n <= puts
               /\ \A i, j \in DOMAIN batch'[u] : i < j => batch'[u][i].n < batch'[u][j].n
               /\ \A i \in DOMAIN batch'[u], j \in DOMAIN mb.queue :
                    batch'[u][i].n < mb.queue[j].n
    <3>1. CASE u = t
      BY <1>4, <2>6, <2>7, <2>8, <3>1, Zenon
    <3>2. CASE u # t
      BY <1>4, <1>8, <3>2
    <3> QED
      BY <3>1, <3>2
  <2> QED
    BY <1>1, <2>2, <2>4, <2>5, <2>9, Zenon DEF Numbered
<1>12. Ends'
  <2>1. \A i \in At(b, "closed") : i = Len(b) /\ mb.queue = <<>> /\ mb.state = "Closed"
    BY DEF Ends, b
  <2>2. ASSUME told'
        PROVE  mb.state = "Closed" /\ mb.queue = <<>> /\ \A u \in Threads : batch'[u] = <<>>
    <3>0. e.is = "closed"
      BY <1>1, <1>5, <2>2, Zenon
    <3>1. 1 \in At(b, "closed")
      BY <1>6, <3>0 DEF At
    <3>2. Len(b) = 1 /\ mb.state = "Closed" /\ mb.queue = <<>>
      BY <2>1, <3>1, Zenon
    <3>3. Tail(b) = <<>>
      BY <1>6, <3>2
    <3> QED
      BY <1>4, <3>2, <3>3, Zenon
  <2>3. \A i \in At(Tail(b), "closed") :
          i = Len(Tail(b)) /\ mb.queue = <<>> /\ mb.state = "Closed"
    <3> SUFFICES ASSUME NEW i \in At(Tail(b), "closed")
                 PROVE  i = Len(Tail(b)) /\ mb.queue = <<>> /\ mb.state = "Closed"
      OBVIOUS
    <3>1. i + 1 = Len(b) /\ i \in Nat
      BY <1>9, <2>1
    <3>2. i = Len(b) - 1
      BY <3>1
    <3>3. i = Len(Tail(b))
      BY <1>6, <3>2
    <3> QED
      BY <1>9, <2>1, <3>3
  <2>4. ASSUME mb.state = "Closed"
        PROVE  told' \/ At(mb.queue, "closed") # {} \/ At(Tail(b), "closed") # {}
    <3>1. CASE At(mb.queue, "closed") # {}
      BY <3>1
    <3>2. CASE At(b, "closed") # {}
      <4>1. PICK i \in At(b, "closed") : TRUE
        BY <3>2
      <4>2. CASE i = 1
        BY <1>1, <1>6, <4>1, <4>2, Zenon DEF At
      <4>3. CASE i # 1
        <5>1. i - 1 \in DOMAIN Tail(b) /\ i \in DOMAIN b /\ b[i].is = "closed"
          BY <1>6, <4>1, <4>3 DEF At
        <5>2. Tail(b)[i - 1] = b[i]
          BY <1>6, <1>7, <5>1
        <5> QED
          BY <5>1, <5>2 DEF At
      <4> QED
        BY <4>2, <4>3
    <3> QED
      BY <1>2, <1>5, <1>8, <2>4, <3>1, <3>2 DEF Ends, b
  <2>5. mb.state = "Closed" => pc[Protocol] \notin {"idle", "changed", "read", "say"}
    BY DEF Ends
  <2>6. \A i \in At(mb.queue, "closed") : i = Len(mb.queue) /\ mb.state = "Closed"
    BY DEF Ends
  <2> QED
    BY <1>1, <1>4, <1>8, <2>2, <2>3, <2>4, <2>5, <2>6, Zenon DEF Ends
<1>13. \A x : Says(x) => Says(x)'
  <2> SUFFICES ASSUME NEW x, Says(x) PROVE Says(x)'
    OBVIOUS
  <2>1. CASE \E i \in At(mb.queue, "sound") : mb.queue[i].v = x
    BY <1>1, <2>1 DEF Says
  <2>2. CASE At(mb.queue, "sound") = {} /\ \E i \in At(b, "sound") : b[i].v = x
    <3>1. PICK i \in At(b, "sound") : b[i].v = x
      BY <2>2
    <3>2. CASE i = 1
      <4>1. heard' = x
        BY <1>1, <1>6, <3>1, <3>2 DEF At
      <4>2. \A j \in At(b, "sound") : j = 1
        BY <3>1, <3>2 DEF Typed, StateKinds, b
      <4>3. At(Tail(b), "sound") = {}
        <5> SUFFICES ASSUME NEW j \in At(Tail(b), "sound") PROVE FALSE
          OBVIOUS
        <5>1. j + 1 = 1 /\ j \in DOMAIN Tail(b)
          BY <1>9, <4>2 DEF At
        <5> QED
          BY <1>6, <5>1
      <4> QED
        BY <1>1, <1>4, <1>8, <2>2, <4>1, <4>3, Zenon DEF Says
    <3>3. CASE i # 1
      <4>1. i - 1 \in DOMAIN Tail(b) /\ i \in DOMAIN b /\ b[i].is = "sound"
        BY <1>6, <3>1, <3>3 DEF At
      <4>2. Tail(b)[i - 1] = b[i]
        BY <1>6, <1>7, <4>1
      <4>3. i - 1 \in At(Tail(b), "sound") /\ Tail(b)[i - 1].v = x
        BY <3>1, <4>1, <4>2 DEF At
      <4> QED
        BY <1>1, <1>4, <2>2, <4>3, Zenon DEF Says
    <3> QED
      BY <3>2, <3>3
  <2>3. CASE At(mb.queue, "sound") = {} /\ At(b, "sound") = {} /\ heard = x
    <3>1. At(Tail(b), "sound") = {} /\ e.is # "sound"
      BY <1>6, <1>9, <2>3 DEF At
    <3> QED
      BY <1>1, <1>4, <1>8, <2>3, <3>1, Zenon DEF Says
  <2> QED
    BY <1>2, <1>8, <2>1, <2>2, <2>3, Zenon DEF Says, b
<1>14. Current'
  BY <1>1, <1>13 DEF Current
<1> QED
  BY <1>10, <1>11, <1>12, <1>14

\* A step that puts an event before the end, or the end.
LEMMA PutDelivery ==
  ASSUME IInv, Delivery, mb.state # "Closed",
         NEW kind \in {"bell", "mode", "sound", "closed"}, NEW v \in Nat,
         mb' = Push(mb, Event(kind, v)), puts' = puts + 1,
         UNCHANGED <<batch, said, sound, delivered>>,
         \A t \in Threads : batch[t] # <<>> => pc'[t] \in {"deliver", "inside"},
         kind = "closed" => pc'[Protocol] \notin {"idle", "changed", "read", "say"}
  PROVE  /\ Typed' /\ Numbered' /\ Ends'
         /\ mb'.state = "Closed" <=> kind = "closed"
         /\ kind # "sound" => \A x : Says(x) => Says(x)'
         /\ kind = "sound" => Says(v)'
<1> USE DEF delivered
<1>0. Typed /\ Numbered /\ Ends
  BY DEF Delivery
<1>1. mb'.queue \in Seq(Events) /\ Numbered'
  BY <1>0, PushDelivery
<1>2. \A state \in StateKinds : \A i, j \in At(mb'.queue, state) : i = j
  BY <1>0, PushDelivery
<1>3. ~told /\ \A t \in Threads : At(batch[t], "closed") = {}
  BY <1>0, PushDelivery, Zenon
<1>4. /\ \A i \in At(mb'.queue, "closed") : i = Len(mb'.queue)
      /\ At(mb'.queue, "closed") # {} <=> kind = "closed"
  BY <1>0, PushDelivery
<1>5. mb'.state = "Closed" <=> kind = "closed"
  BY <1>0, PushDelivery
<1>6. kind # "sound" => \A x : Says(x) => Says(x)'
  BY <1>0, PushDelivery
<1>7. kind = "sound" => Says(v)'
  BY <1>0, PushDelivery, Zenon
<1>8. Typed'
  <2>1. /\ batch' \in [Threads -> Seq(Events)] /\ said' \in [Threads -> Nat]
        /\ sound' \in Nat /\ puts' \in Nat /\ last' \in Nat /\ heard' \in Nat
    BY <1>0 DEF Typed
  <2>2. \A state \in StateKinds, t \in Threads : \A i, j \in At(batch'[t], state) : i = j
    BY <1>0 DEF Typed
  <2> QED
    BY <1>1, <1>2, <2>1, <2>2, Zenon DEF Typed
<1>9. Ends'
  BY <1>3, <1>4, <1>5, Zenon DEF Ends
<1> QED
  BY <1>1, <1>5, <1>6, <1>7, <1>8, <1>9

\* A new outlet has delivered nothing, and has nothing to say.
LEMMA InitDelivery == Init => Delivery
<1> SUFFICES ASSUME Init PROVE Delivery
  OBVIOUS
<1>1. /\ mb.queue = <<>> /\ mb.state = "Connecting" /\ batch = [t \in Threads |-> <<>>]
      /\ pc = [t \in Threads |-> "idle"] /\ said = [t \in Threads |-> 0] /\ told = FALSE
      /\ sound = 0 /\ puts = 0 /\ last = 0 /\ heard = 0
  BY DEF Init, NewMailbox
<1>2. DOMAIN <<>> = {} /\ (\A kind : At(<<>>, kind) = {}) /\ <<>> \in Seq(Events)
  BY DEF At
<1>3. Typed
  BY <1>1, <1>2 DEF Typed
<1>4. Numbered
  BY <1>1, <1>2 DEF Numbered
<1>5. Ends
  BY <1>1, <1>2 DEF Ends
<1>6. Current
  BY <1>1, <1>2 DEF Current, Says
<1> QED
  BY <1>3, <1>4, <1>5, <1>6 DEF Delivery

\* Every step keeps what is delivered in order, complete and current.
LEMMA NextDelivery == IInv /\ Delivery /\ [Next]_vars => Delivery'
<1> SUFFICES ASSUME IInv, Delivery, [Next]_vars PROVE Delivery'
  OBVIOUS
<1>1. pc \in [Threads -> Labels] /\ said \in [Threads -> Nat] /\ sound \in Nat
  BY Zenon DEF IInv, Delivery, Typed
<1>2. \A t \in Threads : batch[t] # <<>> => pc[t] \in {"deliver", "inside"}
  BY DEF Delivery, Typed
<1>3. mb.state = "Closed" => pc[Protocol] \notin {"idle", "changed", "read", "say"}
  BY DEF Delivery, Ends
<1>4. Current
  BY DEF Delivery
<1>5. Protocol \in Threads /\ Main \in Threads /\ Helpers \subseteq Threads
      /\ NoThread \notin Threads /\ Protocol # Main
  BY OutletAssumption DEF Threads
<1>6. CASE Put
  <2>1. PICK kind \in {"bell", "mode"} : mb' = Push(mb, Event(kind, 0))
    BY <1>6 DEF Put
  <2>2. /\ mb.state # "Closed" /\ puts' = puts + 1
        /\ UNCHANGED <<batch, said, sound, delivered, listener>>
    BY <1>3, <1>6 DEF Put
  <2>3. pc[Protocol] = "idle" /\ pc' = [pc EXCEPT ![Protocol] = "request"]
    BY <1>6 DEF Put, Go
  <2>4. \A t \in Threads : batch[t] # <<>> => pc'[t] \in {"deliver", "inside"}
    BY <1>1, <1>2, <1>5, <2>3
  <2>5. Typed' /\ Numbered' /\ Ends' /\ (\A x : Says(x) => Says(x)')
    BY <2>1, <2>2, <2>4, PutDelivery
  <2>6. Current'
    BY <1>1, <1>4, <2>2, <2>3, <2>5 DEF Current
  <2> QED
    BY <2>5, <2>6 DEF Delivery
<1>7. CASE Close
  <2>1. mb' = Push(mb, Event("closed", 0))
    BY <1>7 DEF Close
  <2>2. /\ mb.state # "Closed" /\ puts' = puts + 1
        /\ UNCHANGED <<batch, said, sound, delivered, listener>>
    BY <1>7 DEF Close
  <2>3. /\ pc[Protocol] = "idle" /\ \A h \in Helpers : pc[h] = "idle"
        /\ pc'[Protocol] = "request" /\ \A h \in Helpers : pc'[h] = "over"
        /\ pc'[Main] = pc[Main]
    BY <1>7, OutletAssumption DEF Close, Threads
  <2>4. \A t \in Threads : batch[t] # <<>> => pc'[t] \in {"deliver", "inside"}
    BY <1>1, <1>2, <2>3 DEF Threads
  <2>5. Typed' /\ Numbered' /\ Ends' /\ mb'.state = "Closed"
    BY <2>1, <2>2, <2>3, <2>4, PutDelivery
  <2>6. \A t \in Threads : pc'[t] \in {"read", "say"} => listener' = t
    BY <1>4, <2>2, <2>3 DEF Current, Threads
  <2>7. \A t \in Threads : pc[t] = "changed" => pc'[t] = "changed"
    BY <2>3 DEF Threads
  <2>8. \A t \in Threads : pc'[t] = "say" => pc[t] = "say"
    BY <2>3, Zenon DEF Threads
  <2>9. Current'
    BY <1>4, <2>2, <2>5, <2>6, <2>7, <2>8 DEF Current
  <2> QED
    BY <2>5, <2>9 DEF Delivery
<1>8. ASSUME NEW t \in Threads, PutInside(t) PROVE Delivery'
  <2>1. mb' = Push(mb, Event("bell", 0))
    BY <1>8 DEF PutInside
  <2>2. /\ mb.state # "Closed" /\ puts' = puts + 1
        /\ UNCHANGED <<batch, said, sound, delivered, listener>>
    BY <1>8 DEF PutInside
  <2>3. pc[t] = "deliver" /\ pc' = [pc EXCEPT ![t] = "inside"]
    BY <1>8 DEF PutInside, Go
  <2>4. \A u \in Threads : batch[u] # <<>> => pc'[u] \in {"deliver", "inside"}
    BY <1>1, <1>2, <2>3, Zenon
  <2>5. Typed' /\ Numbered' /\ Ends' /\ (\A x : Says(x) => Says(x)')
    BY <2>1, <2>2, <2>4, PutDelivery
  <2>6. Current'
    BY <1>1, <1>4, <2>2, <2>3, <2>5 DEF Current
  <2> QED
    BY <2>5, <2>6 DEF Delivery
<1>9. ASSUME NEW t \in Threads, SaySound(t) PROVE Delivery'
  <2>0. PICK v \in Nat : v = said[t]
    BY <1>1
  <2> DEFINE e == Event("sound", v)
  <2>1. /\ pc[t] = "say" /\ mb' = Push(mb, e)
        /\ puts' = (IF Pushes(mb, e) THEN puts + 1 ELSE puts)
        /\ pc' = [pc EXCEPT ![t] = IF Pushes(mb, e) THEN "request" ELSE "return"]
        /\ UNCHANGED <<batch, said, sound, delivered, listener>>
    BY <1>9, <2>0 DEF SaySound, Go
  <2>2. Pushes(mb, e) <=> mb.state # "Closed"
    BY DEF Pushes, Event
  <2>3. \A u \in Threads : batch[u] # <<>> => pc'[u] \in {"deliver", "inside"}
    BY <1>1, <1>2, <2>1
  <2>4. CASE mb.state # "Closed"
    <3>1. puts' = puts + 1 /\ pc' = [pc EXCEPT ![t] = "request"]
      BY <2>1, <2>2, <2>4, Zenon
    <3>2. Typed' /\ Numbered' /\ Ends' /\ Says(v)'
      BY <2>1, <2>3, <2>4, <3>1, PutDelivery
    <3>3. v = sound => Says(sound)'
      <4> SUFFICES ASSUME v = sound PROVE Says(sound)'
        OBVIOUS
      <4>1. sound' = v
        BY <2>1
      <4> QED
        BY <3>2, <4>1, Zenon DEF Says
    <3>4. v = sound \/ \E u \in Threads : u # t /\ pc[u] = "changed"
      BY <1>4, <2>0, <2>1, Zenon DEF Current
    <3>5. Current'
      BY <1>1, <1>4, <2>1, <3>1, <3>2, <3>3, <3>4, Zenon DEF Current
    <3> QED
      BY <3>2, <3>5, Zenon DEF Delivery
  <2>5. CASE mb.state = "Closed"
    <3>1. mb' = mb /\ puts' = puts /\ pc' = [pc EXCEPT ![t] = "return"]
      BY <2>1, <2>2, <2>5 DEF Push, Event
    <3>2. Current'
      BY <1>1, <1>4, <2>1, <2>5, <3>1 DEF Current
    <3>3. pc'[Protocol] \notin {"idle", "changed", "read", "say"}
      BY <1>1, <1>3, <1>5, <2>5, <3>1
    <3> QED
      BY <1>1, <2>1, <2>3, <3>1, <3>2, <3>3, QuietDelivery, Zenon DEF delivered
  <2> QED
    BY <2>4, <2>5, Zenon
<1>10. ASSUME NEW t \in Threads, Take(t) PROVE Delivery'
  BY <1>10, TakeDelivery
<1>11. ASSUME NEW t \in Threads, Deliver(t) PROVE Delivery'
  BY <1>11, DeliverDelivery, Zenon
<1>12. ASSUME NEW t \in Threads, ChangeSound(t) PROVE Delivery'
  <2>1. /\ pc[t] = "idle" /\ pc' = [pc EXCEPT ![t] = "changed"] /\ sound' = sound + 1
        /\ UNCHANGED <<mb, batch, puts, delivered, said, listener>>
    BY <1>12 DEF ChangeSound, Go
  <2>2. pc'[t] = "changed" /\ \A u \in Threads : u # t => pc'[u] = pc[u]
    BY <1>1, <2>1, Zenon
  <2>3. Current'
    BY <1>4, <2>1, <2>2, Zenon DEF Current
  <2>4. \A u \in Threads : batch[u] # <<>> => pc'[u] \in {"deliver", "inside"}
    BY <1>2, <2>1, <2>2
  <2>5. mb.state = "Closed" => pc'[Protocol] \notin {"idle", "changed", "read", "say"}
    BY <1>3, <1>5, <2>1, <2>2
  <2>6. sound' \in Nat /\ said' \in [Threads -> Nat]
    BY <1>1, <2>1
  <2> QED
    BY <2>1, <2>3, <2>4, <2>5, <2>6, QuietDelivery
<1>13. ASSUME NEW t \in Threads, LockListener(t) PROVE Delivery'
  <2>1. /\ pc[t] = "changed" /\ pc' = [pc EXCEPT ![t] = "read"]
        /\ listener = NoThread /\ listener' = t
        /\ UNCHANGED <<mb, batch, puts, delivered, said, sound>>
    BY <1>13 DEF LockListener, Go
  <2>2. pc'[t] = "read" /\ \A u \in Threads : u # t => pc'[u] = pc[u]
    BY <1>1, <2>1
  <2>3. \A u \in Threads : pc[u] \notin {"read", "say"}
    BY <1>4, <1>5, <2>1 DEF Current
  <2>4. Current'
    BY <2>1, <2>2, <2>3, Zenon DEF Current
  <2>5. \A u \in Threads : batch[u] # <<>> => pc'[u] \in {"deliver", "inside"}
    BY <1>2, <2>1, <2>2
  <2>6. mb.state = "Closed" => pc'[Protocol] \notin {"idle", "changed", "read", "say"}
    BY <1>3, <1>5, <2>1, <2>2
  <2> QED
    BY <1>1, <2>1, <2>4, <2>5, <2>6, QuietDelivery
<1>14. ASSUME NEW t \in Threads, ReadSound(t) PROVE Delivery'
  <2>1. /\ pc[t] = "read" /\ pc' = [pc EXCEPT ![t] = "say"] /\ said' = [said EXCEPT ![t] = sound]
        /\ UNCHANGED <<mb, batch, puts, delivered, sound, listener>>
    BY <1>14 DEF ReadSound, Go
  <2>2. /\ pc'[t] = "say" /\ said'[t] = sound
        /\ \A u \in Threads : u # t => pc'[u] = pc[u] /\ said'[u] = said[u]
    BY <1>1, <2>1
  <2>3. \A u \in Threads : u # t => pc[u] \notin {"read", "say"}
    BY <1>4, <2>1 DEF Current
  <2>4. Current'
    BY <1>4, <2>1, <2>2, <2>3 DEF Current
  <2>5. \A u \in Threads : batch[u] # <<>> => pc'[u] \in {"deliver", "inside"}
    BY <1>2, <2>1, <2>2
  <2>6. mb.state = "Closed" => pc'[Protocol] \notin {"idle", "changed", "read", "say"}
    BY <1>3, <1>5, <2>1, <2>2
  <2>7. said' \in [Threads -> Nat]
    BY <1>1, <2>1
  <2> QED
    BY <1>1, <2>1, <2>4, <2>5, <2>6, <2>7, QuietDelivery
<1>15. ASSUME NEW t \in Threads, Request(t) PROVE Delivery'
  BY <1>2, <1>15, MoveDelivery, Zenon DEF Request, Go
<1>16. ASSUME NEW t \in Threads, TryLock(t) PROVE Delivery'
  BY <1>2, <1>16, MoveDelivery, Zenon DEF TryLock, Go
<1>17. ASSUME NEW t \in Threads, Clear(t) PROVE Delivery'
  BY <1>2, <1>17, MoveDelivery, Zenon DEF Clear, Go
<1>18. ASSUME NEW t \in Threads, RequestInside(t) PROVE Delivery'
  BY <1>2, <1>18, MoveDelivery, Zenon DEF RequestInside, Go
<1>19. ASSUME NEW t \in Threads, Unlock(t) PROVE Delivery'
  BY <1>2, <1>19, MoveDelivery, Zenon DEF Unlock, Go
<1>20. ASSUME NEW t \in Threads, Test(t) PROVE Delivery'
  <2>1. CASE requested
    BY <1>2, <1>20, <2>1, MoveDelivery, Zenon DEF Test, Go
  <2>2. CASE ~requested
    BY <1>2, <1>20, <2>2, MoveDelivery, Zenon DEF Test, Go
  <2> QED
    BY <2>1, <2>2
<1>21. ASSUME NEW t \in Threads, Return(t) PROVE Delivery'
  <2> DEFINE label == IF t = Protocol /\ mb.state = "Closed" THEN "over" ELSE "idle"
  <2>1. label \notin {"changed", "read", "say"}
        /\ (t = Protocol /\ mb.state = "Closed" => label # "idle")
    OBVIOUS
  <2>2. /\ pc[t] = "return" /\ pc' = [pc EXCEPT ![t] = label]
        /\ UNCHANGED <<mb, batch, puts, delivered, said, sound>>
        /\ listener' = listener \/ listener = t
    BY <1>21 DEF Return, Go
  <2> HIDE DEF label
  <2> QED
    BY <1>2, <2>1, <2>2, MoveDelivery, Zenon
<1>22. CASE Destroy
  BY <1>2, <1>5, <1>22, MoveDelivery, Zenon DEF Destroy, Go
<1>23. CASE UNCHANGED vars
  <2>1. UNCHANGED <<mb, batch, puts, delivered, said, sound, pc, listener>>
    BY <1>23 DEF vars, delivered
  <2>2. Current'
    BY <1>4, <2>1 DEF Current, Says, delivered
  <2> QED
    BY <1>1, <1>2, <1>3, <2>1, <2>2, QuietDelivery
<1> QED
  BY <1>6, <1>7, <1>8, <1>9, <1>10, <1>11, <1>12, <1>13, <1>14, <1>15, <1>16, <1>17,
     <1>18, <1>19, <1>20, <1>21, <1>22, <1>23 DEF Next, Wake

\* What is delivered is in order, complete and current in every behaviour.
THEOREM DeliveryHolds == Spec => []Delivery
<1>1. Init => IInv /\ Delivery
  BY InitIInv, InitDelivery
<1>2. IInv /\ Delivery /\ [Next]_vars => IInv' /\ Delivery'
  BY NextIInv, NextDelivery
<1> QED
  BY <1>1, <1>2, PTL DEF Spec

\* Whatever threads put events, none is delivered twice or out of order, and nothing
\* after Closed.
THEOREM InOrderHolds == Spec => InOrder
<1>1. IInv /\ Delivery /\ [Next]_vars => [last' # last => last' > last /\ ~told]_vars
  <2> SUFFICES ASSUME Delivery, Next, last' # last PROVE last' > last /\ ~told
    OBVIOUS
  <2>1. PICK t \in Threads : Deliver(t)
    BY DEF Next, Wake, Put, Close, Destroy, ChangeSound, PutInside, LockListener, ReadSound,
           SaySound, Request, TryLock, Clear, Take, RequestInside, Unlock, Test, Return, delivered
  <2>2. batch[t] # <<>> /\ last' = Head(batch[t]).n
    BY <2>1 DEF Deliver
  <2>3. /\ 1 \in DOMAIN batch[t] /\ batch[t][1] \in Events
        /\ Head(batch[t]) = batch[t][1] /\ last \in Nat
    BY <2>2 DEF Delivery, Typed
  <2>4. last < batch[t][1].n
    BY <2>3 DEF Delivery, Numbered
  <2>5. ~told
    BY <2>2 DEF Delivery, Ends
  <2> QED
    BY <2>2, <2>3, <2>4, <2>5 DEF Events
<1> QED
  BY <1>1, IInvHolds, DeliveryHolds, PTL DEF Spec, InOrder

\* Once no thread is at work the last sound Java heard is the sound, however the changes
\* of the protocol's thread, the main thread and the helpers interleaved; and once destroy
\* has returned nothing waits, nobody delivers, and Closed has been told.
THEOREM OutletSettlesHolds == Spec => []OutletSettles
<1>1. ASSUME IInv, Delivery PROVE SoundIsCurrent
  <2> SUFFICES ASSUME \A t \in Threads : pc[t] \in {"idle", "over"}, mb.state # "Closed"
               PROVE  heard = sound
    BY DEF SoundIsCurrent
  <2>1. mb.queue = <<>> /\ \A t \in Threads : batch[t] = <<>>
    BY <1>1, Zenon DEF IInv, Delivery, Typed, Looking
  <2>2. \A kind : At(<<>>, kind) = {}
    BY DEF At
  <2>3. Says(sound)
    BY <1>1 DEF Delivery, Current
  <2> QED
    BY <2>1, <2>2, <2>3 DEF Says
<1>2. ASSUME IInv, Delivery PROVE DestroyIsQuiet
  <2> SUFFICES ASSUME pc[Main] = "destroyed"
               PROVE  mb.queue = <<>> /\ told /\ \A t \in Threads : pc[t] \notin Looking
    BY DEF DestroyIsQuiet
  <2>1. mb.state = "Closed" /\ \A t \in Threads : pc[t] \notin Looking
    BY <1>2 DEF IInv, Looking, Threads
  <2>2. mb.queue = <<>>
    BY <1>2, <2>1 DEF IInv, Looking
  <2>3. \A t \in Threads : batch[t] = <<>>
    BY <1>2, <2>1 DEF Delivery, Typed, Looking
  <2>4. \A kind : At(<<>>, kind) = {}
    BY DEF At
  <2>5. told
    BY <1>2, <2>1, <2>2, <2>3, <2>4 DEF Delivery, Ends
  <2> QED
    BY <2>1, <2>2, <2>5
<1>3. IInv /\ Delivery => OutletSettles
  BY <1>1, <1>2 DEF OutletSettles
<1> QED
  BY <1>3, IInvHolds, DeliveryHolds, PTL
=============================================================================
